-------------------------- MODULE WebSocketServer --------------------------
(***************************************************************************)
(* The websocket server of a device: WebSocketServerHandler, which sends   *)
(* every message back, on top of the web server.  A read is first tried as *)
(* one websocket frame; what is none goes to the web server's parser and   *)
(* from there to the handshake.  A read never joins the bytes of two reads *)
(* and never handles the second of two frames: a frame the read does not   *)
(* hold exactly is lost, or met by an assertion of a debug build.          *)
(*                                                                         *)
(* Sizes are those of the code.  The masked payload of a frame is its      *)
(* index in "sent"; the rest of a frame whose beginning was read may look  *)
(* like anything.                                                          *)
(***************************************************************************)
EXTENDS WebServer

CONSTANT Buffer        \* BUF_SIZE, the most bytes a read takes; a header fits, and no
                       \* frame whose length takes 64 bits

\* Connection is "upgrade", another value, or absent; "complete" has the other
\* headers of a handshake.
Handshakes == [k : {"hand"}, method : {"GET", "POST"},
               connection : {"upgrade", "other", "none"}, complete : BOOLEAN]
Operations == {"text", "binary", "close", "ping", "pong"}
SocketFrames == [k : {"ws"}, op : Operations, len : Nat]

ASSUME WebSocketServerAssumption ==
         /\ Buffer \in Nat /\ 14 <= Buffer /\ Buffer <= 65536
         /\ Vocabulary["websocket"] \subseteq Handshakes \cup SocketFrames

VARIABLES
  torn,   \* the rest of a frame is the next to be read
  \* history
  whole,  \* frames that one read held exactly
  split,  \* a read did not hold one frame, or handshake, exactly
  noise   \* a read began with the rest of a frame

socketVars == <<torn, whole, split, noise>>
vars == <<webVars, socketVars>>

\* Requests, frames, streams and answers all name something the peer sent and the
\* server read.
SocketTypeOK ==
  /\ WebTypeOK
  /\ {torn, split, noise} \subseteq BOOLEAN
  /\ whole \subseteq 1..pos

SocketInit ==
  /\ WebInit
  /\ torn = FALSE
  /\ whole = {}
  /\ split = FALSE
  /\ noise = FALSE

-----------------------------------------------------------------------------
(* Lengths.  A length field is 7 bits, 126 and 16 bits, or 127 and 64 bits. *)

\* The frames of a peer.
PeerEncode(len) ==
  CASE len <= 125 -> [code |-> len, ext |-> 0]
    [] len > 125 /\ len <= 65535 -> [code |-> 126, ext |-> len]
    [] len > 65535 -> [code |-> 127, ext |-> len]
PeerDecode(h) == IF h.code <= 125 THEN h.code ELSE h.ext

ExtraBytes(h) == CASE h.code = 126 -> 2 [] h.code = 127 -> 8 [] OTHER -> 0

\* Header, mask and payload of a masked frame.
Size(item) == LET h == PeerEncode(item.len) IN 2 + ExtraBytes(h) + 4 + item.len

\* getPayloadLength, of a field that is there in full; 127 is an error.
Decode(h) == IF h.code = 126 THEN h.ext % 65536 ELSE h.code

EncodeShort(len) ==
  IF len <= 126 THEN [code |-> len, ext |-> 0] ELSE [code |-> 126, ext |-> len]
\* wsMakeFrame.
Encode(len) ==
  IF len <= 125 THEN [code |-> len, ext |-> 0] ELSE [code |-> 126, ext |-> len]

-----------------------------------------------------------------------------
(* Handlers. *)

WriteMessage(id, op, len) ==
  Write(<<[form |-> "ws", sid |-> 0, id |-> id, status |-> 0, end |-> TRUE,
           op |-> op, header |-> Encode(len)]>>)

\* DNOTREACHED and DCHECK.
Assertion == IF debug THEN Die ELSE UNCHANGED <<out, process>>

Close == conn' = "closed" /\ UNCHANGED <<out, process>>

\* The text parser, and after it the HTTP parser, do not know the bytes.
Unparsed(id) == WriteText(id, 400) /\ conn' = "closed"

\* handleRequest: isUpgrade looks for any letter of "upgrade" in the Connection
\* header.  The connection stays open whatever the answer.
HandleHandshake(id) ==
  WriteText(id, IF /\ sent[id].method = "GET"
                   /\ sent[id].connection # "none"
                   /\ sent[id].complete
                THEN 101 ELSE 400)

\* A frame by its lengths complete: text and binary come back, close closes,
\* ping and pong have no branch.
HandleFrame(id) ==
  LET f == sent[id] IN
  CASE f.op \in {"text", "binary"} ->
         WriteMessage(id, f.op, Decode(PeerEncode(f.len))) /\ UNCHANGED conn
    [] f.op = "close" -> Close
    [] f.op \in {"ping", "pong"} -> Assertion /\ UNCHANGED conn

\* The read holds more than the frame: the assertion on the length, and what
\* follows the frame is dropped.
HandleFrameAndMore(id) ==
  IF debug /\ sent[id].len > 0
  THEN Die /\ UNCHANGED conn
  ELSE HandleFrame(id)

\* The read ends inside the frame.  Without payload the mask is not waited for;
\* a length of 64 bits is an error as soon as it is there.
HandleFramePart(id) ==
  \/ Assertion /\ UNCHANGED conn
  \/ sent[id].len = 0 /\ HandleFrame(id)
  \/ PeerEncode(sent[id].len).code = 127 /\ Unparsed(id)

-----------------------------------------------------------------------------
(* Reading.  "n" items are read in full, and with "cut" part of the next.  *)

HandshakeBytes == 200

Bytes(i) == IF sent[i].k = "ws" THEN Size(sent[i]) ELSE HandshakeBytes

\* The bytes of the n items after "pos".
Total[n \in Nat] == IF n = 0 THEN 0 ELSE Total[n - 1] + Bytes(pos + n)

Fits(n, cut) ==
  /\ n + pos + (IF cut THEN 1 ELSE 0) <= Len(sent)
  /\ n > 0 \/ cut
  /\ IF cut THEN Total[n] < Buffer ELSE Total[n] <= Buffer

\* WebSocketServerHandler::processReceived.
ReadSocket(n, cut) ==
  /\ Idle /\ protocol = "websocket" /\ ~torn /\ Fits(n, cut)
  /\ LET id == pos + 1
         exact == n = 1 /\ ~cut
     IN  /\ IF sent[id].k = "hand"
            THEN IF n = 0 THEN Unparsed(id) ELSE HandleHandshake(id) /\ UNCHANGED conn
            ELSE CASE exact -> HandleFrame(id)
                   [] n > 0 /\ ~exact -> HandleFrameAndMore(id)
                   [] n = 0 -> HandleFramePart(id)
         /\ whole' = IF exact THEN whole \cup {id} ELSE whole
         /\ split' = (split \/ ~exact)
  /\ pos' = pos + n + (IF cut THEN 1 ELSE 0)
  /\ torn' = cut
  /\ UNCHANGED <<buildVars, peer, authed, streams, sent, frames, reqs, handled, shut, noise>>

\* A read that begins inside a frame, with any number of items after it: the
\* bytes may look like a frame of any kind, like part of one, or like none.
ReadRest(n, cut) ==
  /\ Idle /\ torn /\ pos + n <= Len(sent)
  /\ cut => n > 0
  /\ \/ Assertion /\ UNCHANGED conn
     \/ Close
     \/ Unparsed(pos)
     \/ \E op \in {"text", "binary"} : WriteMessage(pos, op, 1) /\ UNCHANGED conn
  /\ pos' = pos + n
  /\ torn' = cut
  /\ noise' = TRUE
  /\ split' = TRUE
  /\ UNCHANGED <<buildVars, peer, authed, streams, sent, frames, reqs, handled, shut, whole>>

SocketNext ==
  \/ (PeerNext \/ WebNext) /\ UNCHANGED socketVars
  \/ \E n \in 0..MaxItems[protocol], cut \in BOOLEAN : ReadSocket(n, cut) \/ ReadRest(n, cut)

-----------------------------------------------------------------------------
(* Properties. *)

Messages == {i \in DOMAIN out : out[i].form = "ws"}

\* Until a read begins inside a frame, what comes back are messages the peer
\* sent, in their order and none twice, of the same kind and with a length the
\* peer decodes as its own; and every message that one read held exactly comes
\* back, whatever its length.  A message that is longer than the buffer never
\* does.
Echo ==
  protocol = "websocket" /\ ~noise =>
    /\ \A i \in Messages : LET f == sent[out[i].id] IN
         /\ f.k = "ws" /\ f.op = out[i].op
         /\ PeerDecode(out[i].header) = f.len
         /\ Size(f) <= Buffer
         /\ \A j \in Messages : j < i => out[j].id < out[i].id
    /\ peer = "here" =>
         \A id \in whole :
           sent[id].k = "ws" /\ sent[id].op \in {"text", "binary"}
             => \E i \in Messages : out[i].id = id

\* What ends the process: see Provoked; on the websocket server only in a debug
\* build, a ping or a pong, a read that did not hold one frame exactly, or a peer
\* that left.
Excused ==
  IF protocol = "websocket"
  THEN /\ debug
       /\ \/ peer = "gone" \/ split
          \/ \E i \in 1..pos : sent[i].k = "ws" /\ sent[i].op \in {"ping", "pong"}
  ELSE Provoked

=============================================================================
