----------------------------- MODULE WebServer -----------------------------
(***************************************************************************)
(* The web server of a device: Http2ServerHandler on one connection of an  *)
(* Http2Client, which speaks HTTP/1.1 text or http/2 frames.  A read takes *)
(* whatever has arrived: the end of one request, several frames, the       *)
(* beginning of the next.  The frames of a read are first given to their   *)
(* streams, then the requests of its HEADERS frames are handled one after  *)
(* the other; of text only the first request of a read is.                 *)
(*                                                                         *)
(* The loop has one thread, so a read is only taken when the one before is *)
(* done with; the peer goes on sending and may be gone at any step.        *)
(*                                                                         *)
(* Of the external library the code relies on: preface and frames are      *)
(* told from text, a read of frames ends with a frame, and text that ends  *)
(* inside a request does not parse.  NOTREACHED and CHECK end the process, *)
(* DCHECK and DNOTREACHED only that of a debug build.                      *)
(***************************************************************************)
EXTENDS Naturals, Sequences, FiniteSets

CONSTANTS Vocabulary,  \* what a peer may send, for each protocol
          Chunks,      \* the files of the site: number of pieces they are read in
          MaxItems     \* bound: what the peer sends

\* A request is text, or the HEADERS frame of a stream.  FORM is a POST with
\* one of the three content types of forms; "shutdown" is the registered
\* handler; "garbled" does not parse.
Methods == {"GET", "HEAD", "POST", "FORM"}
Refused == [missing |-> 404, dir |-> 400, locked |-> 403]
NoFiles == DOMAIN Refused \cup {"shutdown", "garbled"}
Paths == DOMAIN Chunks \cup NoFiles
Credentials == {"none", "bad", "good"}
FrameTypes == {"SETTINGS", "DATA", "PRIORITY", "RST_STREAM", "GOAWAY", "OTHER"}

Texts == [k : {"text"}, method : Methods, path : Paths, cred : Credentials, keep : BOOLEAN]
Frames == [k : {"frame"}, type : FrameTypes, sid : Nat]
HeadersFrames == [k : {"frame"}, type : {"HEADERS"}, sid : Nat \ {0},
                  method : Methods, path : Paths, cred : Credentials]

ASSUME WebServerAssumption ==
         /\ DOMAIN Vocabulary = {"text", "http2", "websocket", "external"}
         /\ MaxItems \in [DOMAIN Vocabulary -> Nat]
         /\ \A path \in DOMAIN Chunks : Chunks[path] \in Nat /\ path \notin NoFiles
         /\ Vocabulary["text"] \subseteq Texts
         /\ Vocabulary["http2"] \subseteq Frames \cup HeadersFrames

VARIABLES
  protocol,  \* what the peer speaks
  checker,   \* the site is private: authChecker_
  debug,     \* a debug build
  process,   \* up or dead
  peer,      \* here or gone
  conn,      \* the connection on the server's side
  authed,    \* HttpClient::isAuth_
  streams,   \* Http2Client::streams_
  sent,      \* all the peer sent; an index into it names a request or a frame
  pos,       \* how much of it was read
  frames,    \* frames of the last read not given to their streams yet, in order
  reqs,      \* requests of the last read not handled yet, in order
  out,       \* what the peer received
  \* history
  handled,   \* requests that were handled
  shut       \* requests that shut the device down

buildVars == <<protocol, checker, debug>>
readVars == <<pos, frames, reqs>>
webVars == <<buildVars, process, peer, conn, authed, streams, sent, readVars, out,
             handled, shut>>

Opening == {"DATA", "HEADERS", "PRIORITY", "SETTINGS"}

WebTypeOK ==
  /\ protocol \in DOMAIN Vocabulary
  /\ {checker, debug, authed} \subseteq BOOLEAN
  /\ process \in {"up", "dead"}
  /\ peer \in {"here", "gone"}
  /\ conn \in {"open", "closed"}
  /\ streams \in Seq([sid : Nat, type : Opening])
  /\ \A i, j \in DOMAIN streams : streams[i].sid = streams[j].sid => i = j
  /\ sent \in Seq(Vocabulary[protocol]) /\ Len(sent) <= MaxItems[protocol]
  /\ pos \in 0..Len(sent)
  /\ frames \cup reqs \subseteq 1..pos
  /\ \A i \in DOMAIN out : out[i].id \in 1..pos
  /\ handled \cup shut \subseteq 1..pos

WebInit ==
  /\ protocol \in DOMAIN Vocabulary
  /\ checker \in (IF protocol \in {"text", "http2"} THEN BOOLEAN ELSE {FALSE})
  /\ debug \in BOOLEAN
  /\ process = "up"
  /\ peer = "here"
  /\ conn = "open"
  /\ authed = FALSE
  /\ streams = <<>>
  /\ sent = <<>>
  /\ pos = 0
  /\ frames = {}
  /\ reqs = {}
  /\ out = <<>>
  /\ handled = {}
  /\ shut = {}

-----------------------------------------------------------------------------
(* The peer. *)

Serving == process = "up" /\ conn = "open"

Idle == Serving /\ frames = {} /\ reqs = {}

\* What arrives while a read is worked on is first seen by the next read, so
\* it is enough to let the peer send in between.
Send(item) ==
  /\ Idle /\ peer = "here" /\ Len(sent) < MaxItems[protocol]
  /\ sent' = Append(sent, item)
  /\ UNCHANGED <<buildVars, process, peer, conn, authed, streams, readVars, out, handled, shut>>

Leave ==
  /\ Serving /\ peer = "here"
  /\ peer' = "gone"
  /\ UNCHANGED <<buildVars, process, conn, authed, streams, sent, readVars, out, handled, shut>>

-----------------------------------------------------------------------------
(* Writing.  What is written to a peer that is gone is lost; the error is  *)
(* only logged, but for an assertion in the HTTP/1.1 headers.              *)

Answer(form, sid, id, status, end) ==
  [form |-> form, sid |-> sid, id |-> id, status |-> status, end |-> end]

Write(answers) ==
  /\ out' = IF peer = "here" THEN out \o answers ELSE out
  /\ UNCHANGED process

Die == process' = "dead" /\ UNCHANGED out

\* HttpClient::send_headers and what follows.
WriteText(id, status) ==
  \/ Write(<<Answer("text", 0, id, status, TRUE)>>)
  \/ debug /\ peer = "gone" /\ Die

StreamsOfNoPriority(sid) ==
  {i \in DOMAIN streams : streams[i].sid = sid /\ streams[i].type # "PRIORITY"}
\* findStreamByStreamID.
StreamsOf(sid) == {i \in DOMAIN streams : streams[i].sid = sid}

Lowest(S) == CHOOSE i \in S : \A j \in S : i <= j

LastStreamOfType(type) ==
  LET all == {i \in DOMAIN streams : streams[i].type = type}
  IN  {i \in all : \A j \in all : j <= i}
\* findStreamByType: the first one, if there is one.
StreamOfType(type) ==
  LET all == {i \in DOMAIN streams : streams[i].type = type}
  IN  {i \in all : \A j \in all : i <= j}

\* send_data_frame, for each piece of the page or of the file.
DataFrames(sid, id, status, pieces) ==
  [p \in 1..pieces |-> Answer("data", sid, id, status, p = pieces)]

WriteFramesUnchecked(id, status, pieces) ==
  IF StreamsOf(0) = {} \/ StreamOfType("HEADERS") = {}
  THEN Die
  ELSE LET sid == streams[Lowest(StreamOfType("HEADERS"))].sid
       IN  Write(<<Answer("headers", sid, id, status, FALSE)>> \o
                   DataFrames(sid, id, status, pieces))
\* Http2Client::send_headers and the DATA frames that follow: without stream 0
\* it is not http/2 and the HTTP/1.1 code checks the protocol; without a
\* stream that HEADERS opened nothing is sent.
WriteFrames(id, status, pieces) ==
  IF StreamsOf(0) = {}
  THEN Die
  ELSE IF StreamOfType("HEADERS") = {}
  THEN UNCHANGED <<out, process>>
  ELSE LET sid == streams[Lowest(StreamOfType("HEADERS"))].sid
       IN  Write(<<Answer("headers", sid, id, status, FALSE)>> \o
                   DataFrames(sid, id, status, pieces))

\* "pieces" is the number of DATA frames.  The 401 is HTTP/1.1 whatever the
\* protocol of the request.
Reply(id, status, pieces) ==
  IF sent[id].k = "text" \/ status = 401
  THEN WriteText(id, status)
  ELSE WriteFrames(id, status, pieces)

-----------------------------------------------------------------------------
(* The handlers. *)

StatusOf(path) == IF path \in DOMAIN Refused THEN Refused[path] ELSE 200

\* HttpFileSystemCallback::handleRequest.
HandleFile(id) ==
  LET r == sent[id]
      status == StatusOf(r.path)
  IN  CASE r.method \in {"GET", "HEAD"} /\ status # 200 -> Reply(id, status, 1)
        [] r.method = "GET" /\ status = 200 -> Reply(id, 200, Chunks[r.path])
        [] r.method = "HEAD" /\ status = 200 -> Reply(id, 200, 0)
        [] r.method = "POST" -> Reply(id, 405, 1)
        [] r.method = "FORM" -> UNCHANGED <<out, process>>

\* HttpSystemShutdownCallback::handleRequest: the method is not looked at.
HandleShutdown(id) ==
  \/ Reply(id, 200, 1) /\ shut' = shut \cup {id}
  \/ Reply(id, 405, 1) /\ UNCHANGED shut

HandleUnguarded(id) ==
  IF sent[id].path = "shutdown"
  THEN HandleShutdown(id) /\ UNCHANGED authed
  ELSE /\ authed' = (authed \/ (checker /\ sent[id].cred = "good"))
       /\ UNCHANGED shut
       /\ IF checker /\ ~authed' THEN Reply(id, 401, 1) ELSE HandleFile(id)
\* HttpServerHandler::handleRequest.
Handle(id) ==
  /\ authed' = (authed \/ (checker /\ sent[id].cred = "good"))
  /\ IF checker /\ ~authed'
     THEN Reply(id, 401, 1) /\ UNCHANGED shut
     ELSE IF sent[id].path = "shutdown"
     THEN HandleShutdown(id)
     ELSE HandleFile(id) /\ UNCHANGED shut

\* The next request.  One that does not parse is answered and ends the
\* connection, with what else was read.
HandleRequest ==
  /\ Serving /\ frames = {} /\ reqs # {}
  /\ LET id == Lowest(reqs)
         r == sent[id]
         garbled == r.path = "garbled"
         close == garbled \/ (r.k = "text" /\ ~r.keep)
     IN  /\ IF garbled
            THEN Reply(id, 400, 1) /\ UNCHANGED <<authed, shut>>
            ELSE Handle(id)
         /\ conn' = IF close THEN "closed" ELSE conn
         /\ reqs' = IF close THEN {} ELSE reqs \ {id}
         /\ handled' = handled \cup {id}
  /\ UNCHANGED <<buildVars, peer, streams, sent, pos, frames>>

-----------------------------------------------------------------------------
(* The streams. *)

\* What a stream does with a frame, by the type it was opened with.
FrameAnswer(type, id) ==
  LET f == sent[id] IN
  CASE type = "SETTINGS" /\ f.type = "SETTINGS" -> <<Answer("settings", f.sid, id, 0, FALSE)>>
    [] type = "SETTINGS" /\ f.type \notin {"SETTINGS", "GOAWAY"} ->
         <<Answer("rst", f.sid, id, 0, FALSE)>>
    [] type = "PRIORITY" -> <<Answer("rst", f.sid, id, 0, FALSE)>>
    [] OTHER -> <<>>

\* One turn of Http2Client::processFrames; a frame of another type cannot open
\* a stream.
ProcessFrame ==
  /\ Serving /\ frames # {}
  /\ LET id == Lowest(frames)
         f == sent[id]
         known == StreamsOf(f.sid)
         type == IF known = {} THEN f.type ELSE streams[Lowest(known)].type
     IN  IF type \notin Opening
         THEN Die /\ UNCHANGED <<streams, frames>>
         ELSE /\ streams' = IF known = {}
                            THEN Append(streams, [sid |-> f.sid, type |-> f.type])
                            ELSE streams
              /\ Write(FrameAnswer(type, id))
              /\ frames' = frames \ {id}
  /\ UNCHANGED <<buildVars, peer, conn, authed, sent, pos, reqs, handled, shut>>

-----------------------------------------------------------------------------
(* Reading. *)

\* DataReceived takes n items.  Of text only the first request is parsed; a
\* preface before the frames is skipped.
Read(n) ==
  /\ Idle /\ protocol # "websocket" /\ pos + n <= Len(sent)
  /\ IF protocol = "text"
     THEN frames' = {} /\ reqs' = {pos + 1}
     ELSE /\ frames' = (pos + 1)..(pos + n)
          /\ reqs' = {i \in frames' : sent[i].type = "HEADERS"}
  /\ pos' = pos + n
  /\ UNCHANGED <<buildVars, process, peer, conn, authed, streams, sent, out, handled, shut>>

\* The read ends inside the first request.
ReadPart ==
  /\ Idle /\ protocol = "text" /\ pos < Len(sent)
  /\ pos' = pos + 1
  /\ WriteText(pos + 1, 400)
  /\ conn' = "closed"
  /\ UNCHANGED <<buildVars, peer, authed, streams, sent, frames, reqs, handled, shut>>

\* read returns 0 or an error.
ReadEnd ==
  /\ Idle /\ peer = "gone"
  /\ conn' = "closed"
  /\ UNCHANGED <<buildVars, process, peer, authed, streams, sent, readVars, out, handled, shut>>

PeerNext == (\E item \in Vocabulary[protocol] : Send(item)) \/ Leave

WebNext ==
  \/ \E n \in 1..MaxItems[protocol] : Read(n)
  \/ ReadPart
  \/ ReadEnd
  \/ ProcessFrame
  \/ HandleRequest

-----------------------------------------------------------------------------
(* Properties.  They look at what the peer sent and received, never at the *)
(* streams the server keeps.                                               *)

IsFrame(i) == protocol = "http2" /\ i \in DOMAIN sent
Responses == {i \in DOMAIN out : out[i].form \in {"text", "headers", "data"}}
AnswersTo(id) == {i \in Responses : out[i].id = id}

\* A request with good credentials was handled on this connection, not after
\* "id".
SignedIn(id) == \E i \in handled : i <= id /\ sent[i].path # "garbled" /\ sent[i].cred = "good"

\* A private site serves a file, or shuts the device down, only for a peer that
\* sent the right name and password on this connection before or with the
\* request, however its requests were put together into reads.
Guarded ==
  checker =>
    \A id \in shut \cup {out[i].id : i \in {j \in DOMAIN out : out[j].status = 200}} :
      SignedIn(id)

\* The frame that opened the stream with this id.
Opener(sid) == Lowest({i \in 1..pos : IsFrame(i) /\ sent[i].sid = sid})

\* The first stream that HEADERS opened.
FirstHeaders ==
  {sent[i].sid : i \in {j \in 1..pos : /\ IsFrame(j) /\ sent[j].type = "HEADERS"
                                       /\ Opener(sent[j].sid) = j
                                       /\ \A l \in 1..(j - 1) :
                                            IsFrame(l) /\ sent[l].type = "HEADERS"
                                              => Opener(sent[l].sid) # l}}

\* All frames of a response go to the first stream the peer opened with HEADERS,
\* and so to the right one exactly for a peer that keeps to one stream: one
\* HEADERS frame and then DATA, with END_STREAM on the last and nowhere else.
\* No stream is reset that HEADERS or DATA opened.
OnFirstStream ==
  \A i \in DOMAIN out : LET a == out[i] IN
    /\ a.form \in {"headers", "data"} =>
         /\ a.sid \in FirstHeaders
         /\ \A j \in AnswersTo(a.id) : j < i => ~out[j].end
         /\ a.form = "headers" <=> \A j \in AnswersTo(a.id) : i <= j
    /\ a.form = "rst" => sent[Opener(a.sid)].type \in {"PRIORITY", "SETTINGS"}

\* A form the server accepts and never answers.
Silent(id) ==
  /\ sent[id].method = "FORM" /\ sent[id].path \notin {"shutdown", "garbled"}
  /\ checker => SignedIn(id)

\* A HEAD, or an empty file: no DATA frame, and so no END_STREAM.
Bare(id) ==
  /\ sent[id].path \in DOMAIN Chunks
  /\ sent[id].method = "HEAD" \/ (sent[id].method = "GET" /\ Chunks[sent[id].path] = 0)

\* Every request that was handled for a peer that is still there has its answer,
\* a form has none.  In text it is one; in frames it is missing as long as the
\* peer opened no stream with HEADERS, and its stream is left open by a HEAD
\* and by an empty file.
Complete(id) ==
  LET mine == AnswersTo(id)
      ends == {i \in mine : out[i].end}
  IN  CASE Silent(id) -> mine = {}
        [] ~Silent(id) /\ (sent[id].k = "text" \/ \E i \in mine : out[i].form = "text") ->
             Cardinality(mine) = 1
        [] OTHER ->
             /\ (\E j \in 1..id : sent[j].type = "HEADERS" /\ Opener(sent[j].sid) = j) => mine # {}
             /\ mine # {} => (Cardinality(ends) = 1 <=> ~Bare(id))

\* Each request that is handled gets one complete answer, where the peer looks
\* for it: in the order of the requests, and on the stream that all http/2
\* answers of the connection go to; but for the exceptions named in Complete.
Answers ==
  /\ \A i, j \in Responses : i < j => out[i].id <= out[j].id
  /\ OnFirstStream
  /\ peer = "here" /\ process = "up" => \A id \in handled : Complete(id)

\* What a peer can do that ends the process: open a stream with a frame that
\* cannot open one, ask before it sent anything on stream 0, where its settings
\* go, or leave a debug build before its answer.
Provoked ==
  \/ \E i \in 1..pos : /\ IsFrame(i) /\ sent[i].type \notin Opening
                       /\ Opener(sent[i].sid) = i
  \/ \E i \in 1..pos : /\ IsFrame(i) /\ sent[i].type = "HEADERS"
                       /\ ~\E j \in 1..i : IsFrame(j) /\ sent[j].sid = 0
  \/ debug /\ peer = "gone"

=============================================================================
