------------------------ MODULE ExternalRelayProofs ------------------------
(***************************************************************************)
(* Proofs about one connection of the device, of whichever kind: what      *)
(* WebServer, WebSocketServer and ExternalRelay promise, for every         *)
(* vocabulary of the peer, every site and every number of items.           *)
(***************************************************************************)
EXTENDS ExternalRelay, SequenceTheorems, FiniteSetTheorems, WellFoundedInduction, TLAPS

USE DEF WebServerAssumption, WebSocketServerAssumption, ExternalRelayAssumption

\* A sequence of whatever elements.
IsSeq(s) == s \in Seq({s[i] : i \in DOMAIN s})

\* Only the peers of a web server are asked for credentials, only they make
\* requests, only http/2 has frames and streams, and only the frames of a
\* websocket are torn.
Kinds ==
  /\ IsSeq(out)
  /\ checker => protocol \in {"text", "http2"}
  /\ protocol \notin {"text", "http2"} => reqs = {} /\ handled = {} /\ shut = {}
  /\ protocol # "http2" => frames = {} /\ streams = <<>>
  /\ protocol = "http2" => \A id \in reqs \cup handled : sent[id].type = "HEADERS"
  /\ torn => protocol = "websocket" /\ pos # 0

\* Requests are handled in their order, and none is answered before.
Order ==
  /\ \A h \in handled, q \in reqs : h < q
  /\ \A i \in Responses, q \in reqs : out[i].id < q

\* The connection remembers what a request that was handled proved.
GoodCredentials(i) == sent[i].path # "garbled" /\ sent[i].cred = "good"
Remembered == checker => (authed <=> \E i \in handled : GoodCredentials(i))

\* The relay points to the external server's connection as long as there is one,
\* which received a piece or has ended.  Links are numbered by those that ended.  The server
\* receives the pieces in their order, and what it answered is older than what it
\* did not.
Paired ==
  /\ eclient = "null" => site = "none"
  /\ conn = "open" /\ eclient = "set" => site # "none"
  /\ site # "none" => fwd # <<>> \/ ended # {}
  /\ site \in {"fin", "rst"} => ended # {}
  /\ Cardinality(ended) \in Nat
  /\ protocol # "external" => fwd = <<>>
  /\ \A i \in DOMAIN fwd : fwd[i].link \in 1..Link
  /\ \A i, k \in DOMAIN fwd : i < k => fwd[i].id < fwd[k].id
  /\ \A i \in DOMAIN out, k \in DOMAIN fwd :
       out[i].form = "external" /\ k > done => out[i].id < fwd[k].id

\* The frame that opens its stream: the first with its id.
Opens(j) == \A l \in 1..(j - 1) : sent[l].sid # sent[j].sid

\* The frames of a read are given to their streams in order.  Every frame that was
\* has its stream, and every stream was opened by the first frame with its id, in
\* the order of these frames.
Streamed ==
  protocol = "http2" =>
    /\ \A i \in 1..pos \ frames : StreamsOf(sent[i].sid) # {}
    /\ \A i \in 1..pos \ frames, k \in frames : i < k
    /\ \A n \in DOMAIN streams : \E j \in 1..pos \ frames :
         Opens(j) /\ sent[j].sid = streams[n].sid /\ sent[j].type = streams[n].type
    /\ \A n, m \in DOMAIN streams, i, j \in 1..pos :
         /\ n < m /\ Opens(i) /\ Opens(j)
         /\ sent[i].sid = streams[n].sid /\ sent[j].sid = streams[m].sid
         => i < j

\* Only http/2 has answers in frames, and a reset is the answer to a frame.
Framed ==
  \A i \in DOMAIN out :
    /\ out[i].form \in {"headers", "data", "settings", "rst"} => protocol = "http2"
    /\ out[i].form = "rst" => out[i].sid = sent[out[i].id].sid

IInv ==
  /\ TypeOK /\ Kinds /\ Order /\ Remembered /\ Paired /\ Streamed /\ Framed
  /\ Guarded /\ Answers /\ Echo /\ Forwarded /\ Survives

-----------------------------------------------------------------------------
(* What is assumed of the constants.                                       *)

LEMMA BufferBounds == Buffer \in Nat /\ Buffer >= 14 /\ Buffer <= 65536
BY WebSocketServerAssumption

LEMMA SocketVocabulary == Vocabulary["websocket"] \subseteq Handshakes \cup SocketFrames
BY WebSocketServerAssumption

-----------------------------------------------------------------------------
(* Sequences, and the lowest of some numbers.                              *)

LEMMA SeqFacts ==
  ASSUME NEW s, IsSeq(s)
  PROVE  Len(s) \in Nat /\ DOMAIN s = 1..Len(s)
<1>1. s \in Seq({s[i] : i \in DOMAIN s})
  BY DEF IsSeq
<1> QED BY <1>1, LenProperties

LEMMA SeqIs ==
  ASSUME NEW S, NEW s \in Seq(S)
  PROVE  IsSeq(s)
<1>1. Len(s) \in Nat /\ DOMAIN s = 1..Len(s) /\ s = [i \in 1..Len(s) |-> s[i]]
  BY LenProperties
<1>2. s \in [1..Len(s) -> {s[i] : i \in DOMAIN s}]
  BY <1>1
<1> QED BY <1>1, <1>2, SeqDef DEF IsSeq

\* What follows s in s \o t.
LEMMA ConcatFacts ==
  ASSUME NEW s, NEW t, IsSeq(s), IsSeq(t)
  PROVE  /\ IsSeq(s \o t)
         /\ Len(s \o t) = Len(s) + Len(t)
         /\ DOMAIN s \subseteq DOMAIN (s \o t)
         /\ \A i \in DOMAIN s : (s \o t)[i] = s[i]
         /\ \A i \in DOMAIN t : Len(s) + i \in DOMAIN (s \o t) /\ (s \o t)[Len(s) + i] = t[i]
         /\ \A i \in DOMAIN (s \o t) : i \in DOMAIN s \/ i - Len(s) \in DOMAIN t
<1> DEFINE S == {s[i] : i \in DOMAIN s} \cup {t[i] : i \in DOMAIN t}
<1>1. Len(s) \in Nat /\ DOMAIN s = 1..Len(s) /\ Len(t) \in Nat /\ DOMAIN t = 1..Len(t)
  BY SeqFacts
<1>2. s \in Seq(S) /\ t \in Seq(S)
  <2>1. s \in [1..Len(s) -> S] /\ t \in [1..Len(t) -> S]
    BY <1>1, SeqDef DEF IsSeq
  <2> QED BY <2>1, <1>1, SeqDef
<1> HIDE DEF S
<1>3. /\ s \o t \in Seq(S) /\ Len(s \o t) = Len(s) + Len(t)
      /\ \A i \in 1..(Len(s) + Len(t)) :
           (s \o t)[i] = IF i <= Len(s) THEN s[i] ELSE t[i - Len(s)]
  BY <1>2, ConcatProperties
<1>4. DOMAIN (s \o t) = 1..(Len(s) + Len(t))
  BY <1>3, LenProperties
<1>5. IsSeq(s \o t)
  BY <1>3, SeqIs
<1>6. DOMAIN s \subseteq DOMAIN (s \o t) /\ \A i \in DOMAIN s : (s \o t)[i] = s[i]
  BY <1>1, <1>3, <1>4
<1>7. \A i \in DOMAIN t : Len(s) + i \in DOMAIN (s \o t) /\ (s \o t)[Len(s) + i] = t[i]
  <2> TAKE i \in DOMAIN t
  <2>1. i \in 1..Len(t) /\ Len(s) + i \in 1..(Len(s) + Len(t)) /\ ~(Len(s) + i <= Len(s))
        /\ (Len(s) + i) - Len(s) = i
    BY <1>1
  <2> QED BY <2>1, <1>3, <1>4
<1>8. \A i \in DOMAIN (s \o t) : i \in DOMAIN s \/ i - Len(s) \in DOMAIN t
  BY <1>1, <1>4
<1> QED BY <1>3, <1>5, <1>6, <1>7, <1>8

LEMMA OneElement ==
  ASSUME NEW x
  PROVE  IsSeq(<<x>>) /\ DOMAIN <<x>> = {1} /\ Len(<<x>>) = 1 /\ <<x>>[1] = x
<1>1. <<x>> \in Seq({x})
  OBVIOUS
<1>2. Len(<<x>>) = 1
  OBVIOUS
<1>3. IsSeq(<<x>>)
  BY <1>1, SeqIs
<1>4. DOMAIN <<x>> = {1}
  BY <1>1, <1>2, LenProperties
<1>5. <<x>>[1] = x
  OBVIOUS
<1> QED BY <1>2, <1>3, <1>4, <1>5

LEMMA LowestIs ==
  ASSUME NEW S, S \subseteq Nat, S # {}
  PROVE  Lowest(S) \in S /\ \A j \in S : Lowest(S) <= j
<1>1. \E x \in S : \A y \in S : ~(y < x)
  <2>1. PICK x \in S : \A y \in S : ~(<<y, x>> \in OpToRel(<, Nat))
    BY NatLessThanWellFounded, WFMin
  <2>2. \A y \in Nat : y < x => <<y, x>> \in OpToRel(<, Nat)
    BY Zenon DEF OpToRel
  <2>3. \A y \in S : ~(y < x)
    BY <2>1, <2>2, Zenon
  <2> QED BY <2>3, Zenon
<1>2. \E x \in S : \A y \in S : x <= y
  BY <1>1
<1> QED BY <1>2 DEF Lowest

-----------------------------------------------------------------------------
(* What a step adds to what the peer received.                             *)

New == DOMAIN out' \ DOMAIN out

OutStep ==
  /\ IsSeq(out')
  /\ DOMAIN out \subseteq DOMAIN out'
  /\ \A i \in DOMAIN out : out'[i] = out[i]
  /\ \A i \in DOMAIN out, j \in New : i < j

LEMMA NothingNew ==
  ASSUME IsSeq(out), UNCHANGED out
  PROVE  OutStep /\ New = {}
BY DEF OutStep, New

LEMMA WriteFacts ==
  ASSUME IsSeq(out), NEW a, IsSeq(a), Write(a)
  PROVE  /\ OutStep
         /\ process' = process
         /\ \A n \in New : n - Len(out) \in DOMAIN a /\ out'[n] = a[n - Len(out)]
         /\ New # {} => peer = "here"
         /\ peer = "here" => \A i \in DOMAIN a : Len(out) + i \in New
<1>1. /\ Len(out) \in Nat /\ DOMAIN out = 1..Len(out)
      /\ Len(a) \in Nat /\ DOMAIN a = 1..Len(a)
  BY SeqFacts
<1>2. CASE peer = "here"
  <2>1. out' = out \o a /\ process' = process
    BY <1>2 DEF Write
  <2>2. /\ IsSeq(out')
        /\ DOMAIN out \subseteq DOMAIN out'
        /\ \A i \in DOMAIN out : out'[i] = out[i]
        /\ \A i \in DOMAIN a : Len(out) + i \in DOMAIN out' /\ out'[Len(out) + i] = a[i]
        /\ \A i \in DOMAIN out' : i \in DOMAIN out \/ i - Len(out) \in DOMAIN a
    BY <2>1, ConcatFacts
  <2>3. Len(out') \in Nat /\ DOMAIN out' = 1..Len(out')
    BY <2>2, SeqFacts
  <2>4. ASSUME NEW n \in New
        PROVE  n - Len(out) \in DOMAIN a /\ out'[n] = a[n - Len(out)] /\ n > Len(out)
    <3>1. n \in 1..Len(out') /\ n \notin 1..Len(out) /\ n - Len(out) \in DOMAIN a
      BY <1>1, <2>2, <2>3, <2>4 DEF New
    <3>2. Len(out) + (n - Len(out)) = n
      BY <3>1, <1>1
    <3> QED BY <3>1, <3>2, <2>2, <1>1
  <2>5. \A i \in DOMAIN a : Len(out) + i \in New
    BY <1>1, <2>2 DEF New
  <2>6. OutStep
    <3>1. \A i \in DOMAIN out, j \in New : i < j
      <4> SUFFICES ASSUME NEW i \in DOMAIN out, NEW j \in New PROVE i < j
        OBVIOUS
      <4>1. j > Len(out) /\ j \in 1..Len(out') /\ i \in 1..Len(out)
        BY <2>4, <2>3, <1>1 DEF New
      <4> QED BY <4>1, <1>1
    <3> QED BY <3>1, <2>2 DEF OutStep
  <2> QED BY <2>1, <2>4, <2>5, <2>6, <1>2
<1>3. CASE peer # "here"
  <2>1. UNCHANGED out /\ process' = process
    BY <1>3 DEF Write
  <2> QED BY <2>1, <1>3, NothingNew
<1> QED BY <1>2, <1>3

\* An answer in text is one.
LEMMA TextFacts ==
  ASSUME IsSeq(out), NEW id, NEW status, WriteText(id, status)
  PROVE  /\ OutStep
         /\ \A n \in New : /\ out'[n].form = "text" /\ out'[n].id = id
                           /\ out'[n].status = status
                           /\ n = Len(out) + 1
         /\ process' = process \/ (process' = "dead" /\ debug /\ peer = "gone" /\ New = {})
         /\ process' = process /\ peer = "here" => New = {Len(out) + 1}
         /\ New # {} => peer = "here"
<1> DEFINE a == <<Answer("text", 0, id, status, TRUE)>>
<1>1. IsSeq(a) /\ DOMAIN a = {1} /\ a[1] = Answer("text", 0, id, status, TRUE)
  BY OneElement
<1>0. Len(out) \in Nat
  BY SeqFacts
<1> HIDE DEF a
<1>2. CASE Write(a)
  <2>1. /\ OutStep /\ process' = process
        /\ \A n \in New : n - Len(out) \in DOMAIN a /\ out'[n] = a[n - Len(out)]
        /\ New # {} => peer = "here"
        /\ peer = "here" => \A i \in DOMAIN a : Len(out) + i \in New
    BY <1>1, <1>2, WriteFacts
  <2>0. Len(out') \in Nat /\ DOMAIN out' = 1..Len(out')
    BY <2>1, SeqFacts DEF OutStep
  <2>2. ASSUME NEW n \in New
        PROVE  /\ out'[n].form = "text" /\ out'[n].id = id /\ out'[n].status = status
               /\ n = Len(out) + 1
    <3>1. n - Len(out) = 1 /\ out'[n] = a[n - Len(out)]
      BY <1>1, <2>1
    <3>2. n \in Nat
      BY <2>0 DEF New
    <3>3. n = Len(out) + 1
      BY <3>1, <3>2, <1>0
    <3>4. out'[n] = a[1]
      BY <3>1
    <3> QED BY <3>3, <3>4, <1>1 DEF Answer
  <2>3. peer = "here" => Len(out) + 1 \in New
    BY <1>1, <2>1
  <2> QED BY <2>1, <2>2, <2>3
<1>3. CASE debug /\ peer = "gone" /\ Die
  <2>1. process' = "dead" /\ UNCHANGED out
    BY <1>3 DEF Die
  <2> QED BY <2>1, <1>3, NothingNew
<1>4. Write(a) \/ (debug /\ peer = "gone" /\ Die)
  BY DEF WriteText, a
<1> QED BY <1>2, <1>3, <1>4

\* An answer in frames goes to the first stream that HEADERS opened: its headers,
\* and then its pieces, of which the last ends it.
LEMMA FramesFacts ==
  ASSUME IsSeq(out), process = "up",
         NEW id, NEW status, NEW pieces \in Nat, WriteFrames(id, status, pieces)
  PROVE  LET stream == streams[Lowest(StreamOfType("HEADERS"))] IN
         /\ OutStep
         /\ process' = process \/ (process' = "dead" /\ StreamsOf(0) = {} /\ New = {})
         /\ New # {} => StreamOfType("HEADERS") # {} /\ peer = "here"
         /\ \A n \in New :
              /\ out'[n].id = id /\ out'[n].status = status
              /\ out'[n].sid = stream.sid
              /\ out'[n].form = IF n = Len(out) + 1 THEN "headers" ELSE "data"
              /\ n \in (Len(out) + 1)..(Len(out) + 1 + pieces)
              /\ out'[n].end <=> pieces # 0 /\ n = Len(out) + 1 + pieces
         /\ process' = process /\ peer = "here" /\ StreamOfType("HEADERS") # {}
              => New = (Len(out) + 1)..(Len(out) + 1 + pieces)
<1>0. Len(out) \in Nat /\ DOMAIN out = 1..Len(out)
  BY SeqFacts
<1>1. CASE StreamsOf(0) = {}
  <2>1. process' = "dead" /\ UNCHANGED out
    BY <1>1 DEF WriteFrames, Die
  <2>2. OutStep /\ New = {}
    BY <2>1, NothingNew
  <2> QED BY <2>1, <2>2, <1>1
<1>2. CASE StreamsOf(0) # {} /\ StreamOfType("HEADERS") = {}
  <2>1. process' = process /\ UNCHANGED out
    BY <1>2 DEF WriteFrames
  <2>2. OutStep /\ New = {}
    BY <2>1, NothingNew
  <2> QED BY <2>1, <2>2, <1>2
<1>3. CASE StreamsOf(0) # {} /\ StreamOfType("HEADERS") # {}
  <2> DEFINE sid == streams[Lowest(StreamOfType("HEADERS"))].sid
             h == <<Answer("headers", sid, id, status, FALSE)>>
             d == DataFrames(sid, id, status, pieces)
             a == h \o d
  <2>1. Write(a)
    BY <1>3 DEF WriteFrames
  <2>2. IsSeq(h) /\ DOMAIN h = {1} /\ Len(h) = 1
        /\ h[1] = Answer("headers", sid, id, status, FALSE)
    BY OneElement
  <2>3. /\ DOMAIN d = 1..pieces /\ IsSeq(d) /\ Len(d) = pieces
        /\ \A p \in 1..pieces : d[p] = Answer("data", sid, id, status, p = pieces)
    <3>1. DOMAIN d = 1..pieces
          /\ \A p \in 1..pieces : d[p] = Answer("data", sid, id, status, p = pieces)
      BY DEF DataFrames
    <3>2. d \in [1..pieces -> {d[i] : i \in DOMAIN d}]
      BY <3>1 DEF DataFrames
    <3>3. IsSeq(d)
      BY <3>2, SeqDef DEF IsSeq
    <3>4. Len(d) = pieces
      <4>1. Len(d) \in Nat /\ 1..Len(d) = 1..pieces
        BY <3>1, <3>3, SeqFacts
      <4> QED BY <4>1
    <3> QED BY <3>1, <3>3, <3>4
  <2> HIDE DEF h, d, sid
  <2>4. /\ IsSeq(a) /\ Len(a) = 1 + pieces /\ a[1] = h[1]
        /\ \A p \in 1..pieces : a[1 + p] = d[p]
    <3>1. /\ IsSeq(h \o d) /\ Len(h \o d) = Len(h) + Len(d)
          /\ \A i \in DOMAIN h : (h \o d)[i] = h[i]
          /\ \A i \in DOMAIN d : (h \o d)[Len(h) + i] = d[i]
      <4>1. PICK x, y : x = h /\ y = d
        OBVIOUS
      <4>2. IsSeq(x) /\ IsSeq(y)
        BY <4>1, <2>2, <2>3
      <4>3. /\ IsSeq(x \o y) /\ Len(x \o y) = Len(x) + Len(y)
            /\ \A i \in DOMAIN x : (x \o y)[i] = x[i]
            /\ \A i \in DOMAIN y : (x \o y)[Len(x) + i] = y[i]
        BY <4>2, ConcatFacts
      <4> QED BY <4>1, <4>3
    <3>2. /\ IsSeq(a) /\ Len(a) = Len(h) + Len(d)
          /\ \A i \in DOMAIN h : a[i] = h[i]
          /\ \A i \in DOMAIN d : a[Len(h) + i] = d[i]
      BY <3>1 DEF a
    <3> HIDE DEF a
    <3> QED BY <3>2, <2>2, <2>3
  <2>5. DOMAIN a = 1..(1 + pieces)
    BY <2>4, SeqFacts
  <2> HIDE DEF a
  <2>6. /\ OutStep /\ process' = process
        /\ \A n \in New : n - Len(out) \in DOMAIN a /\ out'[n] = a[n - Len(out)]
        /\ New # {} => peer = "here"
        /\ peer = "here" => \A i \in DOMAIN a : Len(out) + i \in New
    BY <2>1, <2>4, WriteFacts
  <2>7. Len(out') \in Nat /\ DOMAIN out' = 1..Len(out')
    BY <2>6, SeqFacts DEF OutStep
  <2>8. ASSUME NEW n \in New
        PROVE  /\ out'[n].id = id /\ out'[n].status = status
               /\ out'[n].sid = sid
               /\ out'[n].form = IF n = Len(out) + 1 THEN "headers" ELSE "data"
               /\ n \in (Len(out) + 1)..(Len(out) + 1 + pieces)
               /\ out'[n].end <=> pieces # 0 /\ n = Len(out) + 1 + pieces
    <3>1. n \in Nat /\ n - Len(out) \in 1..(1 + pieces) /\ out'[n] = a[n - Len(out)]
      BY <2>5, <2>6, <2>7 DEF New
    <3>2. n \in (Len(out) + 1)..(Len(out) + 1 + pieces)
      BY <3>1, <1>0
    <3>3. CASE n = Len(out) + 1
      <4>1. out'[n] = Answer("headers", sid, id, status, FALSE)
        <5>1. n - Len(out) = 1
          BY <3>3, <1>0
        <5> QED BY <5>1, <3>1, <2>4, <2>2
      <4>2. ~(pieces # 0 /\ n = Len(out) + 1 + pieces)
        BY <3>3, <1>0
      <4>3. out'[n].end = FALSE
        BY <4>1 DEF Answer
      <4> QED BY <4>1, <4>2, <4>3, <3>2, <3>3 DEF Answer
    <3>4. CASE n # Len(out) + 1
      <4> DEFINE p == n - Len(out) - 1
      <4>1. p \in 1..pieces /\ 1 + p = n - Len(out)
        BY <3>1, <3>2, <3>4, <1>0
      <4>2. out'[n] = Answer("data", sid, id, status, p = pieces)
        <5>1. out'[n] = a[1 + p]
          BY <4>1, <3>1
        <5> QED BY <4>1, <5>1, <2>3, <2>4
      <4>3. p = pieces <=> pieces # 0 /\ n = Len(out) + 1 + pieces
        BY <4>1, <3>1, <1>0
      <4> HIDE DEF p
      <4>4. out'[n].end = (p = pieces)
        BY <4>2 DEF Answer
      <4>5. /\ out'[n].id = id /\ out'[n].status = status
            /\ out'[n].sid = sid /\ out'[n].form = "data"
        BY <4>2 DEF Answer
      <4> QED BY <4>3, <4>4, <4>5, <3>2, <3>4
    <3> QED BY <3>3, <3>4
  <2>9. peer = "here" => New = (Len(out) + 1)..(Len(out) + 1 + pieces)
    <3> SUFFICES ASSUME peer = "here" PROVE New = (Len(out) + 1)..(Len(out) + 1 + pieces)
      OBVIOUS
    <3>1. New \subseteq (Len(out) + 1)..(Len(out) + 1 + pieces)
      BY <2>8
    <3>2. ASSUME NEW n \in (Len(out) + 1)..(Len(out) + 1 + pieces) PROVE n \in New
      <4>1. n - Len(out) \in DOMAIN a /\ Len(out) + (n - Len(out)) = n
        BY <2>5, <1>0
      <4> QED BY <4>1, <2>6
    <3> QED BY <3>1, <3>2
  <2> QED BY <2>6, <2>8, <2>9, <1>3 DEF sid
<1> QED BY <1>1, <1>2, <1>3

-----------------------------------------------------------------------------
(* Requests and their handlers.                                            *)

\* What was sent is of the vocabulary, and what was read was sent.
LEMMA Items ==
  ASSUME TypeOK
  PROVE  /\ Len(sent) \in Nat /\ DOMAIN sent = 1..Len(sent) /\ pos \in Nat
         /\ 1..pos \subseteq 1..Len(sent)
         /\ \A i \in 1..Len(sent) : sent[i] \in Vocabulary[protocol]
         /\ \A i \in 1..pos : i \in Nat /\ sent[i] \in Vocabulary[protocol]
         /\ frames \subseteq 1..pos /\ reqs \subseteq 1..pos /\ handled \subseteq 1..pos
         /\ shut \subseteq 1..pos /\ 1..pos \subseteq Nat
<1>1. /\ sent \in Seq(Vocabulary[protocol]) /\ pos \in 0..Len(sent)
      /\ frames \cup reqs \subseteq 1..pos /\ handled \cup shut \subseteq 1..pos
  BY DEF TypeOK, SocketTypeOK, WebTypeOK
<1>2. /\ Len(sent) \in Nat /\ DOMAIN sent = 1..Len(sent)
      /\ \A i \in 1..Len(sent) : sent[i] \in Vocabulary[protocol]
  BY <1>1, ElementOfSeq, LenProperties
<1>3. pos \in Nat /\ 1..pos \subseteq 1..Len(sent) /\ 1..pos \subseteq Nat
  BY <1>1, <1>2
<1> QED BY <1>1, <1>2, <1>3

LEMMA RequestType ==
  ASSUME TypeOK, Kinds, NEW id \in reqs \cup handled
  PROVE  /\ protocol \in {"text", "http2"} /\ id \in 1..pos /\ id \in DOMAIN sent
         /\ sent[id].method \in Methods /\ sent[id].path \in Paths
         /\ sent[id].cred \in Credentials
         /\ sent[id].k = "text" <=> protocol = "text"
         /\ protocol = "text" => sent[id] \in Texts
         /\ protocol = "http2" => sent[id] \in HeadersFrames
<1>1. protocol \in {"text", "http2"} /\ id \in 1..pos /\ id \in DOMAIN sent
      /\ sent[id] \in Vocabulary[protocol]
  BY Items DEF Kinds
<1>2. CASE protocol = "text"
  <2>1. sent[id] \in Texts
    BY <1>1, <1>2, WebServerAssumption
  <2> QED BY <1>1, <1>2, <2>1 DEF Texts
<1>3. CASE protocol = "http2"
  <2>1. sent[id] \in Frames \cup HeadersFrames /\ sent[id].type = "HEADERS"
    BY <1>1, <1>3, WebServerAssumption DEF Kinds
  <2>2. sent[id] \in HeadersFrames
    BY <2>1 DEF Frames, FrameTypes
  <2> QED BY <1>1, <1>3, <2>2 DEF HeadersFrames
<1> QED BY <1>1, <1>2, <1>3

Statuses == {200, 400, 403, 404, 405}

LEMMA ReplyFacts ==
  ASSUME Kinds, process = "up",
         NEW id, NEW status \in Statuses \cup {401}, NEW pieces \in Nat, Reply(id, status, pieces)
  PROVE  /\ OutStep
         /\ \A n \in New : /\ out'[n].id = id /\ out'[n].status = status
                           /\ out'[n].form \in {"text", "headers", "data"}
         /\ process' \in {"up", "dead"}
<1>1. IsSeq(out)
  BY DEF Kinds
<1>2. CASE WriteText(id, status)
  <2>1. OutStep /\ process' \in {"up", "dead"}
        /\ \A n \in New : /\ out'[n].form = "text" /\ out'[n].id = id
                          /\ out'[n].status = status
    BY <1>1, <1>2, TextFacts
  <2> QED BY <2>1
<1>3. CASE WriteFrames(id, status, pieces)
  <2>1. /\ OutStep
        /\ process' = process \/ process' = "dead"
        /\ \A n \in New :
             /\ out'[n].id = id /\ out'[n].status = status
             /\ out'[n].form = IF n = Len(out) + 1 THEN "headers" ELSE "data"
    BY <1>1, <1>3, FramesFacts
  <2> QED BY <2>1
<1> QED BY <1>2, <1>3 DEF Reply

\* A file is answered, but for a form; without pieces where there is nothing to send.
LEMMA FileFacts ==
  ASSUME TypeOK, Kinds, NEW id \in reqs, sent[id].path \notin {"shutdown", "garbled"},
         HandleFile(id)
  PROVE  \/ sent[id].method = "FORM" /\ UNCHANGED <<out, process>>
         \/ /\ sent[id].method # "FORM"
            /\ \E status \in Statuses, pieces \in Nat :
                 Reply(id, status, pieces) /\ (pieces = 0 <=> Bare(id))
<1> DEFINE r == sent[id]
<1>1. r.method \in Methods /\ r.path \in DOMAIN Chunks \cup DOMAIN Refused
  BY RequestType DEF Paths, NoFiles
<1>2. DOMAIN Refused = {"missing", "dir", "locked"}
      /\ \A path \in DOMAIN Refused : Refused[path] \in Statuses \ {200}
  BY DEF Refused, Statuses
<1>3. StatusOf(r.path) \in Statuses /\ (StatusOf(r.path) = 200 <=> r.path \notin DOMAIN Refused)
  BY <1>2 DEF StatusOf, Statuses
<1>4. r.path \in DOMAIN Chunks <=> r.path \notin DOMAIN Refused
  BY <1>1, WebServerAssumption DEF NoFiles
<1>5. CASE r.method \in {"GET", "HEAD"} /\ StatusOf(r.path) # 200
  <2>1. Reply(id, StatusOf(r.path), 1)
    BY <1>5 DEF HandleFile
  <2>2. ~Bare(id)
    BY <1>3, <1>4, <1>5 DEF Bare
  <2> QED BY <2>1, <2>2, <1>3, <1>5
<1>6. CASE r.method = "GET" /\ StatusOf(r.path) = 200
  <2>1. Reply(id, 200, Chunks[r.path])
    BY <1>6 DEF HandleFile
  <2>2. r.path \in DOMAIN Chunks /\ Chunks[r.path] \in Nat
    BY <1>3, <1>4, <1>6, WebServerAssumption
  <2>3. Chunks[r.path] = 0 <=> Bare(id)
    BY <2>2, <1>6 DEF Bare
  <2> QED BY <2>1, <2>2, <2>3, <1>6 DEF Statuses
<1>7. CASE r.method = "HEAD" /\ StatusOf(r.path) = 200
  <2>1. Reply(id, 200, 0)
    BY <1>7 DEF HandleFile
  <2>2. Bare(id)
    BY <1>3, <1>4, <1>7 DEF Bare
  <2> QED BY <2>1, <2>2, <1>7 DEF Statuses
<1>8. CASE r.method = "POST"
  <2>1. Reply(id, 405, 1)
    BY <1>8 DEF HandleFile
  <2>2. ~Bare(id)
    BY <1>8 DEF Bare
  <2> QED BY <2>1, <2>2, <1>8 DEF Statuses
<1>9. CASE r.method = "FORM"
  BY <1>9 DEF HandleFile
<1> QED BY <1>1, <1>5, <1>6, <1>7, <1>8, <1>9 DEF Methods


\* What handleRequest may answer.
LEMMA HandlerFacts ==
  ASSUME TypeOK, Kinds, process = "up", NEW id \in reqs,
         sent[id].path # "garbled", Handle(id)
  PROVE  /\ authed' <=> authed \/ (checker /\ GoodCredentials(id))
         /\ authed' \in BOOLEAN
         /\ \/ /\ checker /\ ~authed' /\ UNCHANGED shut
               /\ Reply(id, 401, 1)
            \/ /\ checker => authed'
               /\ sent[id].path = "shutdown" /\ shut' \in {shut, shut \cup {id}}
               /\ \E status \in Statuses : Reply(id, status, 1)
            \/ /\ checker => authed'
               /\ sent[id].path # "shutdown" /\ UNCHANGED shut
               /\ sent[id].method # "FORM"
               /\ \E status \in Statuses, pieces \in Nat :
                    Reply(id, status, pieces) /\ (pieces = 0 <=> Bare(id))
            \/ /\ checker => authed'
               /\ sent[id].path # "shutdown" /\ UNCHANGED shut
               /\ sent[id].method = "FORM" /\ UNCHANGED <<out, process>>
<1>0. authed \in BOOLEAN /\ checker \in BOOLEAN
  BY DEF TypeOK, SocketTypeOK, WebTypeOK
<1>1. authed' = (authed \/ (checker /\ sent[id].cred = "good"))
  BY DEF Handle
<1>2. authed' \in BOOLEAN /\ (authed' <=> authed \/ (checker /\ GoodCredentials(id)))
  BY <1>0, <1>1 DEF GoodCredentials
<1>3. CASE checker /\ ~authed'
  <2>1. Reply(id, 401, 1) /\ UNCHANGED shut
    BY <1>3 DEF Handle
  <2> QED BY <2>1, <1>2, <1>3
<1>4. CASE ~(checker /\ ~authed') /\ sent[id].path = "shutdown"
  <2>1. HandleShutdown(id)
    BY <1>4 DEF Handle
  <2>2. shut' \in {shut, shut \cup {id}} /\ \E status \in Statuses : Reply(id, status, 1)
    BY <2>1 DEF HandleShutdown, Statuses
  <2> QED BY <2>2, <1>2, <1>4
<1>5. CASE ~(checker /\ ~authed') /\ sent[id].path # "shutdown"
  <2>1. HandleFile(id) /\ UNCHANGED shut
    BY <1>5 DEF Handle
  <2>2. \/ sent[id].method = "FORM" /\ UNCHANGED <<out, process>>
        \/ /\ sent[id].method # "FORM"
           /\ \E status \in Statuses, pieces \in Nat :
                Reply(id, status, pieces) /\ (pieces = 0 <=> Bare(id))
    BY <2>1, <1>5, FileFacts
  <2> QED BY <2>1, <2>2, <1>2, <1>5
<1> QED BY <1>3, <1>4, <1>5

LEMMA HandleRequestFacts ==
  ASSUME TypeOK, Kinds, HandleRequest, NEW id, id = Lowest(reqs)
  PROVE  /\ process = "up" /\ frames = {} /\ id \in reqs /\ \A q \in reqs : id <= q
         /\ UNCHANGED <<buildVars, peer, streams, sent, pos, frames>>
         /\ handled' = handled \cup {id} /\ reqs' \subseteq reqs \ {id}
         /\ conn' \in {"open", "closed"} /\ process' \in {"up", "dead"}
         /\ authed' \in BOOLEAN
         /\ authed' <=> authed \/ (checker /\ GoodCredentials(id))
         /\ OutStep
         /\ \A n \in New : out'[n].id = id /\ out'[n].form \in {"text", "headers", "data"}
         /\ shut' \in {shut, shut \cup {id}}
         /\ shut' # shut \/ (\E n \in New : out'[n].status = 200)
              => sent[id].path # "garbled" /\ (checker => authed')
<1>1. /\ process = "up" /\ frames = {} /\ reqs # {} /\ conn = "open"
      /\ UNCHANGED <<buildVars, peer, streams, sent, pos, frames>>
      /\ handled' = handled \cup {id}
      /\ conn' \in {"closed", conn} /\ reqs' \in {{}, reqs \ {id}}
      /\ IF sent[id].path = "garbled"
         THEN Reply(id, 400, 1) /\ UNCHANGED <<authed, shut>>
         ELSE Handle(id)
  BY DEF HandleRequest, Serving
<1>2. id \in reqs /\ \A q \in reqs : id <= q
  BY <1>1, Items, LowestIs
<1>3. IsSeq(out) /\ authed \in BOOLEAN
  BY DEF Kinds, TypeOK, SocketTypeOK, WebTypeOK
<1>4. CASE sent[id].path = "garbled"
  <2>1. Reply(id, 400, 1) /\ UNCHANGED <<authed, shut>>
    BY <1>1, <1>4
  <2>2. /\ OutStep /\ process' \in {"up", "dead"}
        /\ \A n \in New : /\ out'[n].id = id /\ out'[n].status = 400
                          /\ out'[n].form \in {"text", "headers", "data"}
    <3>1. 400 \in Statuses \cup {401} /\ 1 \in Nat
      BY DEF Statuses
    <3> QED BY <2>1, <3>1, <1>1, ReplyFacts
  <2>3. authed' \in BOOLEAN /\ (authed' <=> authed \/ (checker /\ GoodCredentials(id)))
    BY <2>1, <1>3, <1>4 DEF GoodCredentials
  <2> QED BY <1>1, <1>2, <2>1, <2>2, <2>3
<1>5. CASE sent[id].path # "garbled"
  <2>1. Handle(id)
    BY <1>1, <1>5
  <2>2. /\ authed' <=> authed \/ (checker /\ GoodCredentials(id))
        /\ authed' \in BOOLEAN
        /\ \/ /\ checker /\ ~authed' /\ UNCHANGED shut
              /\ Reply(id, 401, 1)
           \/ /\ checker => authed'
              /\ shut' \in {shut, shut \cup {id}}
              /\ \/ \E status \in Statuses, pieces \in Nat : Reply(id, status, pieces)
                 \/ UNCHANGED <<out, process>>
    BY <2>1, <1>1, <1>2, <1>5, HandlerFacts
  <2>3. CASE checker /\ ~authed' /\ UNCHANGED shut /\ Reply(id, 401, 1)
    <3>1. /\ OutStep /\ process' \in {"up", "dead"}
          /\ \A n \in New : /\ out'[n].id = id /\ out'[n].status = 401
                            /\ out'[n].form \in {"text", "headers", "data"}
      <4>1. 401 \in Statuses \cup {401} /\ 1 \in Nat
        OBVIOUS
      <4> QED BY <2>3, <4>1, <1>1, ReplyFacts
    <3> QED BY <1>1, <1>2, <2>2, <2>3, <3>1
  <2>4. CASE /\ checker => authed'
             /\ shut' \in {shut, shut \cup {id}}
             /\ \E status \in Statuses, pieces \in Nat : Reply(id, status, pieces)
    <3>1. /\ OutStep /\ process' \in {"up", "dead"}
          /\ \A n \in New : /\ out'[n].id = id
                            /\ out'[n].form \in {"text", "headers", "data"}
      BY <2>4, <1>1, ReplyFacts
    <3> QED BY <1>1, <1>2, <1>5, <2>2, <2>4, <3>1
  <2>5. CASE /\ checker => authed'
             /\ shut' \in {shut, shut \cup {id}}
             /\ UNCHANGED <<out, process>>
    <3>1. OutStep /\ New = {}
      BY <1>3, <2>5, NothingNew
    <3> QED BY <1>1, <1>2, <1>5, <2>2, <2>5, <3>1
  <2> QED BY <2>2, <2>3, <2>4, <2>5
<1> QED BY <1>4, <1>5

-----------------------------------------------------------------------------
(* All other steps.                                                        *)

\* What every step keeps.
Steady ==
  /\ UNCHANGED buildVars
  /\ sent' \in Seq(Vocabulary[protocol]) /\ Len(sent') <= MaxItems[protocol]
  /\ Len(sent) <= Len(sent') /\ \A i \in 1..Len(sent) : sent'[i] = sent[i]
  /\ pos' \in pos..Len(sent')
  /\ process' \in {"up", "dead"} /\ peer' \in {peer, "gone"} /\ conn' \in {"open", "closed"}
  /\ OutStep
  /\ \A n \in New : out'[n].id \in 1..pos'

\* A step says at most one thing to the peer, about item id, that is no page.
Spoken(id) ==
  /\ OutStep
  /\ process' \in {"up", "dead"}
  /\ \A n \in New : /\ n = Len(out) + 1
                    /\ out'[n].id = id /\ out'[n].status # 200
                    /\ out'[n].form \in {"text", "ws", "external"}

\* A step that is neither the read of a web server nor works on one.
Quiet ==
  /\ UNCHANGED <<authed, streams, frames, reqs, handled, shut>>
  /\ New # {} => reqs = {}
  /\ \A n \in New :
       /\ n = Len(out) + 1
       /\ out'[n].id \notin handled /\ out'[n].status # 200
       /\ out'[n].form \in {"text", "ws", "external"}
       /\ out'[n].form = "text" => \A i \in DOMAIN out : out[i].id <= out'[n].id

LEMMA SpokenNot ==
  ASSUME IsSeq(out), UNCHANGED out, process' \in {"up", "dead"}, NEW id
  PROVE  Spoken(id) /\ New = {}
BY NothingNew DEF Spoken

LEMMA SpokenText ==
  ASSUME IsSeq(out), process = "up", NEW id, NEW status, status # 200, WriteText(id, status)
  PROVE  Spoken(id)
<1>1. /\ OutStep
      /\ \A n \in New : /\ out'[n].form = "text" /\ out'[n].id = id
                        /\ out'[n].status = status
                        /\ n = Len(out) + 1
      /\ process' = process \/ process' = "dead"
  BY TextFacts
<1> QED BY <1>1 DEF Spoken

LEMMA WriteOne ==
  ASSUME IsSeq(out), NEW x, Write(<<x>>)
  PROVE  /\ OutStep /\ process' = process
         /\ \A n \in New : n = Len(out) + 1 /\ out'[n] = x
         /\ peer = "here" => Len(out) + 1 \in New
<1> DEFINE a == <<x>>
<1>1. IsSeq(a) /\ DOMAIN a = {1} /\ a[1] = x
  BY OneElement
<1>2. Write(a)
  OBVIOUS
<1>0. Len(out) \in Nat
  BY SeqFacts
<1> HIDE DEF a
<1>3. /\ OutStep /\ process' = process
      /\ \A n \in New : n - Len(out) \in DOMAIN a /\ out'[n] = a[n - Len(out)]
      /\ peer = "here" => \A i \in DOMAIN a : Len(out) + i \in New
  BY <1>1, <1>2, WriteFacts
<1>4. Len(out') \in Nat /\ DOMAIN out' = 1..Len(out')
  BY <1>3, SeqFacts DEF OutStep
<1>5. ASSUME NEW n \in New PROVE n = Len(out) + 1 /\ out'[n] = x
  <2>1. n - Len(out) = 1 /\ n \in Nat
    BY <1>1, <1>3, <1>4 DEF New
  <2>2. out'[n] = a[1]
    BY <2>1, <1>3
  <2> QED BY <2>1, <2>2, <1>0, <1>1
<1>6. peer = "here" => Len(out) + 1 \in New
  BY <1>1, <1>3
<1> QED BY <1>3, <1>5, <1>6

LEMMA SpokenMessage ==
  ASSUME IsSeq(out), process = "up", NEW id, NEW op, NEW len, WriteMessage(id, op, len)
  PROVE  /\ Spoken(id) /\ process' = "up"
         /\ \A n \in New : out'[n].form = "ws" /\ out'[n].op = op /\ out'[n].header = Encode(len)
         /\ peer = "here" => Len(out) + 1 \in New
<1> DEFINE x == [form |-> "ws", sid |-> 0, id |-> id, status |-> 0, end |-> TRUE,
                 op |-> op, header |-> Encode(len)]
<1>1. Write(<<x>>)
  BY DEF WriteMessage
<1>2. x.form = "ws" /\ x.id = id /\ x.status = 0 /\ x.op = op /\ x.header = Encode(len)
  OBVIOUS
<1> HIDE DEF x
<1>3. /\ OutStep /\ process' = process
      /\ \A n \in New : n = Len(out) + 1 /\ out'[n] = x
      /\ peer = "here" => Len(out) + 1 \in New
  BY <1>1, WriteOne
<1> QED BY <1>2, <1>3 DEF Spoken

LEMMA SpokenRefusal ==
  ASSUME IsSeq(out), process = "up", streams = <<>>, NEW id, Refuse(id)
  PROVE  Spoken(id)
<1>1. CASE WriteText(id, 500)
  BY <1>1, SpokenText
<1>2. CASE WriteFrames(id, 500, 1)
  <2>1. StreamsOf(0) = {}
    BY DEF StreamsOf
  <2>2. process' = "dead" /\ UNCHANGED out
    BY <1>2, <2>1 DEF WriteFrames, Die
  <2> QED BY <2>2, SpokenNot
<1> QED BY <1>1, <1>2 DEF Refuse

\* A step that speaks of an item no request of the read is about.
LEMMA QuietIs ==
  ASSUME TypeOK, Kinds, NEW id \in Nat, Spoken(id),
         UNCHANGED <<authed, streams, frames, reqs, handled, shut>>,
         reqs = {}, id \notin handled,
         (\A i \in DOMAIN out : out[i].id <= id) \/ \A n \in New : out'[n].form # "text"
  PROVE  Quiet
BY DEF Quiet, Spoken


LEMMA SteadyIs ==
  ASSUME TypeOK, UNCHANGED <<buildVars, sent>>, pos' \in pos..Len(sent),
         process' \in {"up", "dead"}, peer' \in {peer, "gone"}, conn' \in {"open", "closed"},
         OutStep, \A n \in New : out'[n].id \in 1..pos'
  PROVE  Steady
<1>1. sent \in Seq(Vocabulary[protocol]) /\ Len(sent) <= MaxItems[protocol]
  BY DEF TypeOK, SocketTypeOK, WebTypeOK
<1>2. Len(sent) \in Nat
  BY Items
<1> QED BY <1>1, <1>2 DEF Steady

LEMMA Bounds ==
  ASSUME TypeOK, Kinds
  PROVE  /\ pos \in Nat /\ Len(sent) \in Nat /\ pos <= Len(sent)
         /\ pos + 1 \notin handled
         /\ \A i \in DOMAIN out : out[i].id \in 1..pos
         /\ process \in {"up", "dead"} /\ peer \in {"here", "gone"}
         /\ conn \in {"open", "closed"} /\ IsSeq(out)
<1>1. /\ pos \in 0..Len(sent)
      /\ \A i \in DOMAIN out : out[i].id \in 1..pos
      /\ process \in {"up", "dead"} /\ peer \in {"here", "gone"}
      /\ conn \in {"open", "closed"} /\ IsSeq(out)
  BY DEF TypeOK, SocketTypeOK, WebTypeOK, Kinds
<1>2. Len(sent) \in Nat /\ pos \in Nat /\ handled \subseteq 1..pos
  BY Items
<1>3. pos <= Len(sent) /\ pos + 1 \notin 1..pos
  BY <1>1, <1>2
<1> QED BY <1>1, <1>2, <1>3

LEMMA SendFacts ==
  ASSUME TypeOK, Kinds, NEW item \in Vocabulary[protocol], Send(item)
  PROVE  Steady /\ Quiet
<1>1. /\ peer = "here" /\ Len(sent) < MaxItems[protocol] /\ sent' = Append(sent, item)
      /\ UNCHANGED <<buildVars, process, peer, conn, authed, streams, readVars, out, handled, shut>>
  BY DEF Send
<1>2. /\ sent \in Seq(Vocabulary[protocol]) /\ protocol \in DOMAIN Vocabulary
      /\ \A i \in DOMAIN out : out[i].id \in 1..pos
  BY DEF TypeOK, SocketTypeOK, WebTypeOK
<1>3. /\ sent' \in Seq(Vocabulary[protocol]) /\ Len(sent') = Len(sent) + 1
      /\ \A i \in 1..Len(sent) : sent'[i] = sent[i]
  BY <1>1, <1>2, AppendProperties
<1>4. MaxItems[protocol] \in Nat /\ Len(sent) \in Nat
  BY <1>2, Items, WebServerAssumption
<1>5. OutStep /\ New = {}
  BY <1>1, NothingNew DEF Kinds
<1>6. pos' \in pos..Len(sent') /\ Len(sent') <= MaxItems[protocol]
  BY <1>1, <1>3, <1>4, Bounds DEF readVars
<1>7. Steady
  <2>1. process' \in {"up", "dead"} /\ peer' \in {peer, "gone"} /\ conn' \in {"open", "closed"}
    BY <1>1, Bounds
  <2>2. Len(sent) <= Len(sent')
    BY <1>3, <1>4
  <2> QED BY <1>1, <1>3, <1>5, <1>6, <2>1, <2>2 DEF Steady
<1> QED BY <1>1, <1>5, <1>7 DEF Quiet, readVars

LEMMA LeaveFacts ==
  ASSUME TypeOK, Kinds, Leave \/ ReadEnd
  PROVE  Steady /\ Quiet
<1>1. /\ peer' \in {peer, "gone"} /\ conn' \in {conn, "closed"}
      /\ UNCHANGED <<buildVars, process, authed, streams, sent, readVars, out, handled, shut>>
  BY DEF Leave, ReadEnd
<1>2. OutStep /\ New = {}
  BY <1>1, NothingNew DEF Kinds
<1>3. Steady
  <2>1. pos' \in pos..Len(sent)
    BY <1>1, Bounds DEF readVars
  <2> QED BY <2>1, <1>1, <1>2, Bounds, SteadyIs
<1> QED BY <1>1, <1>2, <1>3 DEF Quiet, readVars

LEMMA ReadPartFacts ==
  ASSUME TypeOK, Kinds, ReadPart
  PROVE  /\ Steady /\ Quiet /\ protocol = "text" /\ pos' = pos + 1
         /\ process' = "dead" => debug /\ peer = "gone"
<1>1. /\ protocol = "text" /\ pos < Len(sent) /\ pos' = pos + 1 /\ process = "up"
      /\ frames = {} /\ reqs = {}
      /\ WriteText(pos + 1, 400) /\ conn' = "closed"
      /\ UNCHANGED <<buildVars, peer, authed, streams, sent, frames, reqs, handled, shut>>
  BY DEF ReadPart, Idle, Serving
<1>2. Spoken(pos + 1)
  BY <1>1, SpokenText, Bounds
<1>3. pos' \in pos..Len(sent) /\ pos + 1 \in 1..pos' /\ pos + 1 \in Nat
  BY <1>1, Bounds
<1>4. OutStep /\ process' \in {"up", "dead"} /\ \A n \in New : out'[n].id \in 1..pos'
  BY <1>2, <1>3 DEF Spoken
<1>5. Steady
  BY <1>1, <1>3, <1>4, SteadyIs
<1>6. Quiet
  <2>1. \A i \in DOMAIN out : out[i].id <= pos + 1
    BY Bounds
  <2> QED BY <1>1, <1>2, <1>3, <2>1, Bounds, QuietIs
<1>7. process' = "dead" => debug /\ peer = "gone"
  <2>1. process' = process \/ (process' = "dead" /\ debug /\ peer = "gone")
    BY <1>1, TextFacts, Bounds
  <2> QED BY <2>1, <1>1
<1> QED BY <1>1, <1>5, <1>6, <1>7


\* Message n is frame id as it was sent.
Returned(n, id) ==
  /\ sent[id].op \in {"text", "binary"}
  /\ out'[n].form = "ws" /\ out'[n].op = sent[id].op
  /\ out'[n].header = Encode(Decode(PeerEncode(sent[id].len)))

LEMMA HandleFrameFacts ==
  ASSUME Kinds, process = "up", NEW id, sent[id] \in SocketFrames, HandleFrame(id)
  PROVE  /\ Spoken(id) /\ conn' \in {conn, "closed"}
         /\ process' = "dead" => debug /\ sent[id].op \in {"ping", "pong"}
         /\ \A n \in New : Returned(n, id)
         /\ peer = "here" /\ sent[id].op \in {"text", "binary"} => Len(out) + 1 \in New
<1>0. IsSeq(out) /\ sent[id].op \in Operations
  BY DEF Kinds, SocketFrames
<1>1. CASE sent[id].op \in {"text", "binary"}
  <2>1. /\ WriteMessage(id, sent[id].op, Decode(PeerEncode(sent[id].len)))
        /\ UNCHANGED conn
    BY <1>1 DEF HandleFrame
  <2>2. /\ Spoken(id) /\ process' = "up"
        /\ \A n \in New : /\ out'[n].form = "ws" /\ out'[n].op = sent[id].op
                          /\ out'[n].header = Encode(Decode(PeerEncode(sent[id].len)))
        /\ peer = "here" => Len(out) + 1 \in New
    BY <1>0, <2>1, SpokenMessage
  <2> QED BY <1>1, <2>1, <2>2 DEF Returned
<1>2. CASE sent[id].op = "close"
  <2>1. conn' = "closed" /\ UNCHANGED <<out, process>>
    BY <1>2 DEF HandleFrame, Close
  <2>2. Spoken(id) /\ New = {}
    BY <1>0, <2>1, SpokenNot
  <2> QED BY <1>2, <2>1, <2>2
<1>3. CASE sent[id].op \in {"ping", "pong"}
  <2>1. /\ UNCHANGED <<out, conn>> /\ process' \in {"up", "dead"}
        /\ process' = "dead" => debug
    BY <1>3 DEF HandleFrame, Assertion, Die
  <2>2. Spoken(id) /\ New = {}
    BY <1>0, <2>1, SpokenNot
  <2> QED BY <1>3, <2>1, <2>2
<1> QED BY <1>0, <1>1, <1>2, <1>3 DEF Operations

LEMMA ReadSocketFacts ==
  ASSUME TypeOK, Kinds, NEW n \in Nat, NEW cut \in BOOLEAN, ReadSocket(n, cut)
  PROVE  LET id == pos + 1 IN
         /\ Steady /\ Quiet /\ protocol = "websocket" /\ UNCHANGED noise
         /\ torn' \in BOOLEAN /\ split' \in BOOLEAN /\ whole' \in {whole, whole \cup {id}}
         /\ id \in 1..pos' /\ id \in 1..Len(sent)
         /\ \A m \in New : out'[m].id = id
         /\ \A m \in New : out'[m].form = "ws" =>
              /\ sent[id].k = "ws" /\ Returned(m, id)
              /\ n > 0 \/ sent[id].len = 0
         /\ Fits(n, cut)
         /\ peer = "here" /\ id \in whole' \ whole /\ sent[id].k = "ws"
              => sent[id].op \notin {"text", "binary"} \/ \E m \in New : out'[m].form = "ws"
         /\ process' = "dead" => /\ debug
                                 /\ \/ peer = "gone" \/ split'
                                    \/ sent[id].k = "ws" /\ sent[id].op \in {"ping", "pong"}
<1> DEFINE id == pos + 1
           exact == n = 1 /\ ~cut
<1>1. /\ process = "up" /\ frames = {} /\ reqs = {} /\ protocol = "websocket" /\ Fits(n, cut)
      /\ IF sent[id].k = "hand"
         THEN IF n = 0 THEN Unparsed(id) ELSE HandleHandshake(id) /\ UNCHANGED conn
         ELSE CASE exact -> HandleFrame(id)
                [] n > 0 /\ ~exact -> HandleFrameAndMore(id)
                [] n = 0 -> HandleFramePart(id)
      /\ whole' = IF exact THEN whole \cup {id} ELSE whole
      /\ split' = (split \/ ~exact)
      /\ pos' = pos + n + (IF cut THEN 1 ELSE 0)
      /\ torn' = cut
      /\ UNCHANGED <<buildVars, peer, authed, streams, sent, frames, reqs, handled, shut, noise>>
  BY DEF ReadSocket, Idle, Serving
<1>2. /\ pos' \in pos..Len(sent) /\ id \in 1..pos' /\ id \in 1..Len(sent) /\ id \in Nat
      /\ n > 0 \/ cut
  <2>1. /\ n + pos + (IF cut THEN 1 ELSE 0) <= Len(sent)
        /\ n > 0 \/ cut
    BY <1>1 DEF Fits
  <2> QED BY <2>1, <1>1, Bounds
<1>3. sent[id].k \in {"hand", "ws"} /\ (sent[id].k = "ws" => sent[id] \in SocketFrames)
  <2>1. sent[id] \in Handshakes \cup SocketFrames
    <3>1. sent[id] \in Vocabulary[protocol]
      BY <1>2, Items
    <3>2. protocol = "websocket"
      BY <1>1
    <3>3. Vocabulary["websocket"] \subseteq Handshakes \cup SocketFrames
      BY SocketVocabulary
    <3> QED BY <3>1, <3>2, <3>3
  <2> QED BY <2>1 DEF Handshakes, SocketFrames
<1>4. split' \in BOOLEAN /\ torn' \in BOOLEAN /\ (~exact => split')
  <2>1. split \in BOOLEAN
    BY DEF TypeOK, SocketTypeOK
  <2> QED BY <2>1, <1>1
<1>0. IsSeq(out) /\ conn \in {"open", "closed"}
  BY Bounds
<1> DEFINE Good ==
      /\ Spoken(id) /\ conn' \in {conn, "closed"}
      /\ \A m \in New : out'[m].form = "ws" =>
           /\ sent[id].k = "ws" /\ Returned(m, id)
           /\ n > 0 \/ sent[id].len = 0
      /\ peer = "here" /\ exact /\ sent[id].k = "ws"
           => sent[id].op \notin {"text", "binary"} \/ \E m \in New : out'[m].form = "ws"
      /\ process' = "dead" => /\ debug
                              /\ \/ peer = "gone" \/ split'
                                 \/ sent[id].k = "ws" /\ sent[id].op \in {"ping", "pong"}
<1>5. ASSUME NEW status, status # 200, WriteText(id, status), conn' \in {conn, "closed"},
             ~exact \/ sent[id].k # "ws"
      PROVE  Good
  <2>1. Spoken(id)
    BY <1>0, <1>1, <1>5, SpokenText
  <2>2. /\ \A m \in New : out'[m].form = "text"
        /\ process' = process \/ (process' = "dead" /\ debug /\ peer = "gone")
    BY <1>0, <1>5, TextFacts
  <2> QED BY <2>1, <2>2, <1>1, <1>5
<1>6. ASSUME HandleFrame(id), sent[id].k = "ws", n > 0 \/ sent[id].len = 0
      PROVE  Good
  <2>1. /\ Spoken(id) /\ conn' \in {conn, "closed"}
        /\ process' = "dead" => debug /\ sent[id].op \in {"ping", "pong"}
        /\ \A m \in New : Returned(m, id)
        /\ peer = "here" /\ sent[id].op \in {"text", "binary"} => Len(out) + 1 \in New
    BY <1>1, <1>3, <1>6, HandleFrameFacts
  <2>2. \A m \in New : out'[m].form = "ws"
    BY <2>1 DEF Returned
  <2> QED BY <2>1, <2>2, <1>6
<1>7. ASSUME UNCHANGED <<out, conn>>, process' \in {"up", "dead"}, process' = "dead" => debug,
             ~exact
      PROVE  Good
  <2>1. Spoken(id) /\ New = {}
    BY <1>0, <1>7, SpokenNot
  <2> QED BY <2>1, <1>4, <1>7
<1>8. Good
  <2>1. CASE sent[id].k = "hand"
    <3>1. \E status \in {101, 400} : WriteText(id, status) /\ conn' \in {conn, "closed"}
      BY <1>1, <2>1 DEF Unparsed, HandleHandshake
    <3>2. sent[id].k # "ws"
      BY <2>1
    <3> HIDE DEF Good
    <3> QED BY <3>1, <3>2, <1>5
  <2>2. CASE sent[id].k = "ws" /\ exact
    <3>1. HandleFrame(id)
      BY <1>1, <2>2
    <3> HIDE DEF Good
    <3> QED BY <3>1, <2>2, <1>6
  <2>3. CASE sent[id].k = "ws" /\ n > 0 /\ ~exact
    <3>1. HandleFrameAndMore(id)
      <4>1. (CASE exact -> HandleFrame(id)
               [] n > 0 /\ ~exact -> HandleFrameAndMore(id)
               [] n = 0 -> HandleFramePart(id))
        BY <1>1, <2>3
      <4>2. ~exact /\ n # 0 /\ n > 0
        BY <2>3
      <4> HIDE DEF exact, id
      <4> QED BY <4>1, <4>2
    <3>2. \/ debug /\ Die /\ UNCHANGED conn
          \/ HandleFrame(id)
      BY <3>1 DEF HandleFrameAndMore
    <3>3. CASE HandleFrame(id)
      <4> HIDE DEF Good
      <4> QED BY <3>3, <2>3, <1>6
    <3>4. CASE debug /\ Die /\ UNCHANGED conn
      <4>1. UNCHANGED <<out, conn>> /\ process' = "dead" /\ debug
        BY <3>4 DEF Die
      <4> HIDE DEF Good
      <4> QED BY <4>1, <2>3, <1>7
    <3> QED BY <3>2, <3>3, <3>4
  <2>4. CASE sent[id].k = "ws" /\ n = 0
    <3>1. HandleFramePart(id) /\ ~exact
      BY <1>1, <2>4
    <3>2. \/ Assertion /\ UNCHANGED conn
          \/ sent[id].len = 0 /\ HandleFrame(id)
          \/ Unparsed(id)
      BY <3>1 DEF HandleFramePart
    <3>3. CASE Assertion /\ UNCHANGED conn
      <4>1. /\ UNCHANGED <<out, conn>> /\ process' \in {"up", "dead"}
            /\ process' = "dead" => debug
        BY <3>3, <1>1 DEF Assertion, Die
      <4> HIDE DEF Good
      <4> QED BY <4>1, <3>1, <1>7
    <3>4. CASE sent[id].len = 0 /\ HandleFrame(id)
      <4> HIDE DEF Good
      <4> QED BY <3>4, <2>4, <1>6
    <3>5. CASE Unparsed(id)
      <4>1. WriteText(id, 400) /\ conn' \in {conn, "closed"}
        BY <3>5 DEF Unparsed
      <4> HIDE DEF Good
      <4> QED BY <4>1, <3>1, <1>5
    <3> QED BY <3>2, <3>3, <3>4, <3>5
  <2> QED BY <1>3, <2>1, <2>2, <2>3, <2>4
<1>9. Steady
  <2>1. /\ OutStep /\ process' \in {"up", "dead"} /\ \A m \in New : out'[m].id \in 1..pos'
        /\ conn' \in {"open", "closed"}
    BY <1>0, <1>2, <1>8 DEF Spoken
  <2> QED BY <1>1, <1>2, <2>1, SteadyIs
<1>10. Quiet
  <2>1. \A i \in DOMAIN out : out[i].id <= id
    BY Bounds
  <2> QED BY <1>1, <1>2, <1>8, <2>1, Bounds, QuietIs
<1>11. \A m \in New : out'[m].id = id
  BY <1>8 DEF Spoken
<1>12. whole' \in {whole, whole \cup {id}} /\ (id \in whole' \ whole => exact)
  BY <1>1
<1> QED BY <1>1, <1>2, <1>4, <1>8, <1>9, <1>10, <1>11, <1>12


LEMMA ReadRestFacts ==
  ASSUME TypeOK, Kinds, NEW n \in Nat, NEW cut \in BOOLEAN, ReadRest(n, cut)
  PROVE  /\ Steady /\ Quiet /\ protocol = "websocket"
         /\ torn' \in BOOLEAN /\ split' = TRUE /\ noise' = TRUE /\ UNCHANGED whole
         /\ pos' # 0
         /\ process' = "dead" => debug
<1>1. /\ process = "up" /\ frames = {} /\ reqs = {} /\ torn /\ pos + n <= Len(sent)
      /\ \/ Assertion /\ UNCHANGED conn
         \/ Close
         \/ Unparsed(pos)
         \/ \E op \in {"text", "binary"} : WriteMessage(pos, op, 1) /\ UNCHANGED conn
      /\ pos' = pos + n /\ torn' = cut /\ noise' = TRUE /\ split' = TRUE
      /\ UNCHANGED <<buildVars, peer, authed, streams, sent, frames, reqs, handled, shut, whole>>
  BY DEF ReadRest, Idle, Serving
<1>2. protocol = "websocket" /\ pos # 0 /\ handled = {}
  BY <1>1 DEF Kinds
<1>3. pos' \in pos..Len(sent) /\ pos \in 1..pos' /\ pos \in Nat /\ pos' # 0
  BY <1>1, <1>2, Bounds
<1>4. Spoken(pos) /\ conn' \in {"open", "closed"} /\ (process' = "dead" => debug)
  <2>1. CASE Assertion /\ UNCHANGED conn
    <3>1. UNCHANGED out /\ process' \in {"up", "dead"} /\ (process' = "dead" => debug)
      BY <1>1, <2>1 DEF Assertion, Die
    <3> QED BY <3>1, <2>1, SpokenNot, Bounds
  <2>2. CASE Close
    <3>1. UNCHANGED out /\ process' = "up" /\ conn' = "closed"
      BY <1>1, <2>2 DEF Close
    <3> QED BY <3>1, SpokenNot, Bounds
  <2>3. CASE Unparsed(pos)
    <3>1. WriteText(pos, 400) /\ conn' = "closed"
      BY <2>3 DEF Unparsed
    <3>2. Spoken(pos)
      BY <1>1, <3>1, SpokenText, Bounds
    <3>3. process' = process \/ (process' = "dead" /\ debug)
      BY <3>1, TextFacts, Bounds
    <3> QED BY <1>1, <3>1, <3>2, <3>3
  <2>4. CASE \E op \in {"text", "binary"} : WriteMessage(pos, op, 1) /\ UNCHANGED conn
    <3>1. PICK op \in {"text", "binary"} : WriteMessage(pos, op, 1) /\ UNCHANGED conn
      BY <2>4
    <3>2. Spoken(pos) /\ process' = "up"
      BY <1>1, <3>1, SpokenMessage, Bounds
    <3> QED BY <3>1, <3>2, Bounds
  <2> QED BY <1>1, <2>1, <2>2, <2>3, <2>4
<1>5. Steady
  <2>1. OutStep /\ process' \in {"up", "dead"} /\ \A m \in New : out'[m].id \in 1..pos'
    BY <1>3, <1>4 DEF Spoken
  <2> QED BY <1>1, <1>3, <1>4, <2>1, SteadyIs
<1>6. Quiet
  <2>1. \A i \in DOMAIN out : out[i].id <= pos
    BY Bounds
  <2> QED BY <1>1, <1>2, <1>3, <1>4, <2>1, QuietIs
<1> QED BY <1>1, <1>2, <1>3, <1>4, <1>5, <1>6

-----------------------------------------------------------------------------
(* The relay to an external server.                                        *)

\* What the relay does with n pieces: it forwards them, loses them to a connection
\* that has ended, be it as soon as it was made, or tells the peer that it cannot.
Forwards(n) ==
  /\ fwd' = fwd \o [i \in 1..n |-> [id |-> pos + i, link |-> Link]]
  /\ site' = "here" /\ eclient' = "set"
  /\ UNCHANGED <<out, process, done, ended, dropped>>
Drops(n) ==
  /\ site = "fin" /\ site' = "rst"
  /\ dropped' = dropped \cup (pos + 1)..(pos + n)
  /\ UNCHANGED <<out, process, eclient, fwd, done, ended>>
Refuses == Refuse(pos + 1) /\ UNCHANGED pairVars
Over ==
  /\ site' = "rst" /\ eclient' = "set" /\ ended' = ended \cup {Link}
  /\ UNCHANGED <<fwd, done>>
Loses(n) ==
  /\ Over /\ dropped' = dropped \cup (pos + 1)..(pos + n)
  /\ UNCHANGED <<out, process>>
Fails == Over /\ Refuse(pos + 1) /\ UNCHANGED dropped

LEMMA ReadRelayCases ==
  ASSUME TypeOK, Kinds, Paired, NEW n \in Nat \ {0}, ReadRelay(n)
  PROVE  Forwards(n) \/ Drops(n) \/ Refuses \/ Loses(n) \/ Fails
<1> DEFINE ids == [i \in 1..n |-> pos + i]
<1>1. Pair(ids) /\ conn = "open"
  BY DEF ReadRelay, Idle, Serving
<1>2. DOMAIN ids = 1..n /\ \A i \in 1..n : ids[i] = pos + i
  OBVIOUS
<1>3. Head(ids) = pos + 1
  <2>1. ids \in Seq(Nat)
    <3>1. ids \in [1..n -> Nat]
      BY Bounds
    <3> QED BY <3>1, SeqDef
  <2>2. Head(ids) = ids[1]
    BY <2>1, <1>2, HeadTailProperties, EmptySeq
  <2> QED BY <2>2, <1>2
<1>4. {ids[i] : i \in DOMAIN ids} = (pos + 1)..(pos + n)
  <2>1. ASSUME NEW x \in (pos + 1)..(pos + n) PROVE x - pos \in 1..n /\ ids[x - pos] = x
    BY <1>2, Bounds
  <2>2. ASSUME NEW i \in 1..n PROVE ids[i] \in (pos + 1)..(pos + n)
    BY <1>2, Bounds
  <2>3. {ids[i] : i \in DOMAIN ids} \subseteq (pos + 1)..(pos + n)
    BY <2>2, <1>2
  <2>4. (pos + 1)..(pos + n) \subseteq {ids[i] : i \in DOMAIN ids}
    <3> SUFFICES ASSUME NEW x \in (pos + 1)..(pos + n) PROVE x \in {ids[i] : i \in 1..n}
      BY <1>2
    <3>1. x - pos \in 1..n /\ ids[x - pos] = x
      BY <2>1
    <3> HIDE DEF ids
    <3> QED BY <3>1
  <2> QED BY <2>3, <2>4
<1>5. site \in {"none", "here", "fin", "rst"} /\ eclient \in {"null", "set"}
  BY DEF TypeOK
<1>6. ASSUME Forward(ids)
      PROVE  /\ fwd' = fwd \o [i \in 1..n |-> [id |-> pos + i, link |-> Link]]
             /\ UNCHANGED <<out, process, dropped>>
  BY <1>6 DEF Forward
<1> HIDE DEF ids
<1>7. CASE eclient = "set" /\ site = "here"
  <2>1. WriteExternal(ids)
    BY <1>1, <1>7 DEF Pair
  <2>2. Forward(ids) /\ UNCHANGED <<eclient, site, done, ended>>
    BY <2>1, <1>7 DEF WriteExternal
  <2> QED BY <2>2, <1>6, <1>7 DEF Forwards
<1>8. CASE eclient = "set" /\ site = "fin"
  <2>1. WriteExternal(ids)
    BY <1>1, <1>8 DEF Pair
  <2>2. /\ dropped' = dropped \cup {ids[i] : i \in DOMAIN ids} /\ site' = "rst"
        /\ UNCHANGED <<eclient, done, ended, fwd, out, process>>
    BY <2>1, <1>8 DEF WriteExternal, Lose
  <2> QED BY <2>2, <1>4, <1>8 DEF Drops
<1>9. CASE eclient = "set" /\ site = "rst"
  <2>1. WriteExternal(ids)
    BY <1>1, <1>9 DEF Pair
  <2>2. Refuse(Head(ids)) /\ UNCHANGED <<eclient, done, ended, site, fwd, dropped>>
    BY <2>1, <1>9 DEF WriteExternal
  <2> QED BY <2>2, <1>3 DEF Refuses, pairVars
<1>10. CASE eclient = "null"
  <2>1. \/ /\ site' = "here" /\ eclient' = "set"
           /\ Forward(ids)
           /\ UNCHANGED <<done, ended>>
        \/ /\ Over
           /\ \/ Lose(ids)
              \/ Refuse(Head(ids)) /\ UNCHANGED dropped
        \/ Refuse(Head(ids)) /\ UNCHANGED pairVars
    BY <1>1, <1>10 DEF Pair, Over
  <2>2. CASE Over /\ Lose(ids)
    BY <2>2, <1>4 DEF Lose, Loses
  <2>3. CASE Over /\ Refuse(Head(ids)) /\ UNCHANGED dropped
    BY <2>3, <1>3 DEF Fails
  <2> QED BY <2>1, <2>2, <2>3, <1>3, <1>6 DEF Forwards, Refuses
<1> QED BY <1>1, <1>5, <1>7, <1>8, <1>9, <1>10 DEF Paired


LEMMA ReadRelayFacts ==
  ASSUME TypeOK, Kinds, protocol = "external", Paired, NEW n \in Nat \ {0}, ReadRelay(n)
  PROVE  /\ Steady /\ Quiet /\ UNCHANGED socketVars
         /\ pos' = pos + n /\ conn = "open" /\ conn' = conn
         /\ \A m \in New : out'[m].id = pos + 1 /\ out'[m].form = "text"
         /\ Forwards(n) \/ Drops(n) \/ Refuses \/ Loses(n) \/ Fails
         /\ (Refuses \/ Fails) /\ process' = "up" /\ peer = "here" => Len(out) + 1 \in New
         /\ process' = "dead" => \/ sent[pos + 1].k = "frame"
                                 \/ debug /\ peer = "gone"
<1>1. /\ process = "up" /\ conn = "open" /\ frames = {} /\ reqs = {} /\ pos + n <= Len(sent)
      /\ pos' = pos + n
      /\ UNCHANGED <<buildVars, peer, conn, authed, streams, sent, frames, reqs, handled, shut,
                     socketVars>>
  BY DEF ReadRelay, Idle, Serving
<1>2. handled = {} /\ streams = <<>> /\ IsSeq(out)
  BY DEF Kinds
<1>3. Forwards(n) \/ Drops(n) \/ Refuses \/ Loses(n) \/ Fails
  BY ReadRelayCases
<1>4. /\ pos' \in pos..Len(sent) /\ pos + 1 \in 1..pos' /\ pos + 1 \in Nat
      /\ pos + 1 \in 1..Len(sent)
  BY <1>1, Bounds
<1>5. /\ Spoken(pos + 1)
      /\ \A m \in New : out'[m].id = pos + 1 /\ out'[m].form = "text"
      /\ Refuse(pos + 1) /\ process' = "up" /\ peer = "here" => Len(out) + 1 \in New
      /\ process' = "dead" => \/ sent[pos + 1].k = "frame"
                              \/ debug /\ peer = "gone"
  <2>1. CASE UNCHANGED <<out, process>> /\ ~Refuse(pos + 1)
    <3>1. Spoken(pos + 1) /\ New = {}
      BY <1>1, <1>2, <2>1, SpokenNot
    <3> QED BY <1>1, <2>1, <3>1
  <2>2. CASE Refuse(pos + 1) /\ sent[pos + 1].k = "text"
    <3>1. WriteText(pos + 1, 500)
      BY <2>2 DEF Refuse
    <3>2. Spoken(pos + 1)
      BY <1>1, <1>2, <3>1, SpokenText
    <3>3. /\ \A m \in New : out'[m].form = "text" /\ out'[m].id = pos + 1
          /\ process' = process \/ (process' = "dead" /\ debug /\ peer = "gone" /\ New = {})
          /\ process' = process /\ peer = "here" => New = {Len(out) + 1}
      BY <1>2, <3>1, TextFacts
    <3> QED BY <1>1, <3>2, <3>3
  <2>3. CASE Refuse(pos + 1) /\ sent[pos + 1].k # "text"
    <3>1. WriteFrames(pos + 1, 500, 1)
      BY <2>3 DEF Refuse
    <3>2. sent[pos + 1].k = "frame"
      <4>1. sent[pos + 1] \in [k : {"text", "frame"}]
        BY <1>4, Items, ExternalRelayAssumption
      <4> QED BY <4>1, <2>3
    <3>3. process' = "dead" /\ UNCHANGED out
      <4>1. StreamsOf(0) = {}
        BY <1>2 DEF StreamsOf
      <4> QED BY <3>1, <4>1 DEF WriteFrames, Die
    <3>4. Spoken(pos + 1) /\ New = {}
      BY <1>2, <3>3, SpokenNot
    <3> QED BY <3>2, <3>3, <3>4
  <2>4. Refuse(pos + 1) \/ UNCHANGED <<out, process>>
    BY <1>3 DEF Forwards, Drops, Refuses, Loses, Fails
  <2> QED BY <2>1, <2>2, <2>3, <2>4
<1>6. Steady
  <2>1. OutStep /\ process' \in {"up", "dead"} /\ \A m \in New : out'[m].id \in 1..pos'
    BY <1>4, <1>5 DEF Spoken
  <2> QED BY <1>1, <1>4, <2>1, Bounds, SteadyIs
<1>7. Quiet
  <2>1. \A i \in DOMAIN out : out[i].id <= pos + 1
    BY Bounds
  <2> QED BY <1>1, <1>2, <1>4, <1>5, <2>1, QuietIs
<1>8. Refuses \/ Fails => Refuse(pos + 1)
  BY DEF Refuses, Fails
<1> QED BY <1>1, <1>3, <1>5, <1>6, <1>7, <1>8

\* The external server's side.
LEMMA ExternalFacts ==
  ASSUME TypeOK, Kinds, protocol = "external",
         ReadExternal \/ ExternalCloses \/ ReadExternalEnd
  PROVE  /\ Steady /\ Quiet /\ UNCHANGED <<Rest, fwd, dropped>>
         /\ process = "up"
         /\ process' = "dead" => conn = "closed" /\ site # "none"
         /\ \A n \in New : /\ ReadExternal /\ out'[n].form = "external"
                           /\ out'[n].id = fwd[done + 1].id
<1>1. UNCHANGED <<Rest, fwd, dropped>> /\ process = "up" /\ site # "none"
  BY DEF ReadExternal, ExternalCloses, ReadExternalEnd
<1>2. UNCHANGED <<buildVars, sent, pos, peer, conn, authed, streams, frames, reqs, handled, shut>>
  BY <1>1 DEF Rest, readVars
<1>3. IsSeq(out) /\ reqs = {} /\ handled = {}
  BY DEF Kinds
<1>4. PICK id \in Nat :
        /\ Spoken(id)
        /\ \A n \in New : out'[n].id \in 1..pos
        /\ \A n \in New : /\ ReadExternal /\ out'[n].form = "external"
                          /\ out'[n].id = fwd[done + 1].id
        /\ process' = "dead" => conn = "closed"
  <2>1. CASE ReadExternal /\ conn = "open"
    <3> DEFINE x == Answer("external", 0, fwd[done + 1].id, 0, TRUE)
    <3>1. Write(<<x>>) /\ done < Len(fwd)
      BY <2>1 DEF ReadExternal
    <3>2. x.id = fwd[done + 1].id /\ x.form = "external" /\ x.status = 0
      BY DEF Answer
    <3> HIDE DEF x
    <3>3. /\ OutStep /\ process' = process
          /\ \A n \in New : n = Len(out) + 1 /\ out'[n] = x
      BY <1>3, <3>1, WriteOne
    <3>4. fwd[done + 1].id \in 1..pos
      <4>1. fwd \in Seq([id : 1..pos, link : Nat]) /\ done \in 0..Len(fwd)
        BY DEF TypeOK
      <4>2. Len(fwd) \in Nat
        BY <4>1, LenProperties
      <4>3. done + 1 \in 1..Len(fwd)
        BY <3>1, <4>1, <4>2
      <4>4. fwd[done + 1] \in [id : 1..pos, link : Nat]
        BY <4>1, <4>3, ElementOfSeq
      <4> QED BY <4>4
    <3>5. Spoken(fwd[done + 1].id)
      BY <1>1, <3>2, <3>3 DEF Spoken
    <3>6. fwd[done + 1].id \in Nat
      BY <3>4, Bounds
    <3> QED BY <2>1, <1>1, <3>2, <3>3, <3>4, <3>5, <3>6
  <2>2. CASE UNCHANGED <<out, process>> \/ (Die /\ conn = "closed")
    <3>1. UNCHANGED out /\ process' \in {"up", "dead"} /\ (process' = "dead" => conn = "closed")
      BY <1>1, <2>2 DEF Die
    <3>2. Spoken(0) /\ New = {}
      BY <1>3, <3>1, SpokenNot
    <3> QED BY <3>1, <3>2
  <2>3. (ReadExternal /\ conn = "open") \/ UNCHANGED <<out, process>> \/ (Die /\ conn = "closed")
    <3>1. conn \in {"open", "closed"}
      BY Bounds
    <3>2. CASE ReadExternal
      BY <3>1, <3>2 DEF ReadExternal
    <3>3. CASE ExternalCloses
      BY <3>3 DEF ExternalCloses
    <3>4. CASE ReadExternalEnd
      BY <3>1, <3>4 DEF ReadExternalEnd
    <3> QED BY <3>2, <3>3, <3>4
  <2> QED BY <2>1, <2>2, <2>3
<1>5. Steady
  <2>1. pos' \in pos..Len(sent) /\ OutStep /\ process' \in {"up", "dead"}
        /\ \A m \in New : out'[m].id \in 1..pos'
    BY <1>2, <1>4, Bounds DEF Spoken
  <2> QED BY <1>2, <2>1, Bounds, SteadyIs
<1>6. Quiet
  <2>1. \A n \in New : out'[n].form # "text"
    BY <1>4
  <2> QED BY <1>2, <1>3, <1>4, <2>1, QuietIs
<1> QED BY <1>1, <1>4, <1>5, <1>6


-----------------------------------------------------------------------------
(* The web server's reads and frames.                                      *)

LEMMA ReadFacts ==
  ASSUME TypeOK, Kinds, protocol # "external", NEW n \in Nat \ {0}, Read(n)
  PROVE  /\ Steady /\ New = {} /\ protocol \in {"text", "http2"}
         /\ process = "up" /\ frames = {} /\ reqs = {} /\ pos' = pos + n
         /\ UNCHANGED <<buildVars, process, peer, conn, authed, streams, sent, out, handled, shut>>
         /\ protocol = "text" => frames' = {} /\ reqs' = {pos + 1}
         /\ protocol = "http2" => /\ frames' = (pos + 1)..(pos + n)
                                  /\ reqs' = {i \in frames' : sent[i].type = "HEADERS"}
<1>1. /\ process = "up" /\ frames = {} /\ reqs = {} /\ protocol # "websocket"
      /\ pos + n <= Len(sent) /\ pos' = pos + n
      /\ IF protocol = "text"
         THEN frames' = {} /\ reqs' = {pos + 1}
         ELSE /\ frames' = (pos + 1)..(pos + n)
              /\ reqs' = {i \in frames' : sent[i].type = "HEADERS"}
      /\ UNCHANGED <<buildVars, process, peer, conn, authed, streams, sent, out, handled, shut>>
  BY DEF Read, Idle, Serving
<1>2. protocol \in {"text", "http2"}
  BY <1>1, WebServerAssumption DEF TypeOK, SocketTypeOK, WebTypeOK
<1>3. OutStep /\ New = {}
  BY <1>1, NothingNew DEF Kinds
<1>4. Steady
  <2>1. pos' \in pos..Len(sent)
    BY <1>1, Bounds
  <2> QED BY <2>1, <1>1, <1>3, Bounds, SteadyIs
<1> QED BY <1>1, <1>2, <1>3, <1>4

\* The type of the stream that frame id goes to.
StreamType(id) ==
  IF StreamsOf(sent[id].sid) = {} THEN sent[id].type
  ELSE streams[Lowest(StreamsOf(sent[id].sid))].type

LEMMA StreamFacts ==
  ASSUME TypeOK
  PROVE  /\ Len(streams) \in Nat /\ DOMAIN streams = 1..Len(streams) /\ DOMAIN streams \subseteq Nat
         /\ \A n \in DOMAIN streams : streams[n] \in [sid : Nat, type : Opening]
         /\ \A sid : StreamsOf(sid) # {} =>
              /\ Lowest(StreamsOf(sid)) \in DOMAIN streams
              /\ streams[Lowest(StreamsOf(sid))].sid = sid
         /\ \A type : StreamOfType(type) # {} =>
              LET n == Lowest(StreamOfType(type)) IN
              /\ n \in DOMAIN streams /\ streams[n].type = type
              /\ \A m \in DOMAIN streams : streams[m].type = type => n <= m
<1>1. streams \in Seq([sid : Nat, type : Opening])
  BY DEF TypeOK, SocketTypeOK, WebTypeOK
<1>2. /\ Len(streams) \in Nat /\ DOMAIN streams = 1..Len(streams)
      /\ \A n \in 1..Len(streams) : streams[n] \in [sid : Nat, type : Opening]
  BY <1>1, LenProperties, ElementOfSeq
<1>3. DOMAIN streams \subseteq Nat
  BY <1>2
<1>4. ASSUME NEW sid, StreamsOf(sid) # {}
      PROVE  /\ Lowest(StreamsOf(sid)) \in DOMAIN streams
             /\ streams[Lowest(StreamsOf(sid))].sid = sid
  <2>1. StreamsOf(sid) \subseteq Nat
    BY <1>3 DEF StreamsOf
  <2>2. Lowest(StreamsOf(sid)) \in StreamsOf(sid)
    BY <1>4, <2>1, LowestIs
  <2> QED BY <2>2 DEF StreamsOf
<1>5. ASSUME NEW type, StreamOfType(type) # {}
      PROVE  LET n == Lowest(StreamOfType(type)) IN
             /\ n \in DOMAIN streams /\ streams[n].type = type
             /\ \A m \in DOMAIN streams : streams[m].type = type => n <= m
  <2>1. StreamOfType(type) \subseteq Nat
    BY <1>3 DEF StreamOfType
  <2>2. Lowest(StreamOfType(type)) \in StreamOfType(type)
    BY <1>5, <2>1, LowestIs
  <2> QED BY <2>2 DEF StreamOfType
<1> QED BY <1>2, <1>3, <1>4, <1>5

LEMMA ProcessFrameFacts ==
  ASSUME TypeOK, Kinds, ProcessFrame, NEW id, id = Lowest(frames)
  PROVE  /\ Steady /\ process = "up" /\ protocol = "http2"
         /\ id \in frames /\ \A j \in frames : id <= j
         /\ UNCHANGED <<buildVars, peer, conn, authed, sent, pos, reqs, handled, shut>>
         /\ \A n \in New : /\ n = Len(out) + 1
                           /\ out'[n].id = id /\ out'[n].status = 0
                           /\ out'[n].sid = sent[id].sid
                           /\ out'[n].form \in {"settings", "rst"}
                           /\ out'[n].form = "rst" => StreamType(id) \in {"SETTINGS", "PRIORITY"}
         /\ \/ /\ process' = "dead" /\ New = {} /\ UNCHANGED <<streams, frames>>
               /\ StreamsOf(sent[id].sid) = {} /\ sent[id].type \notin Opening
            \/ /\ process' = "up" /\ frames' = frames \ {id} /\ UNCHANGED streams
               /\ StreamsOf(sent[id].sid) # {}
            \/ /\ process' = "up" /\ frames' = frames \ {id}
               /\ StreamsOf(sent[id].sid) = {} /\ sent[id].type \in Opening
               /\ streams' = Append(streams, [sid |-> sent[id].sid, type |-> sent[id].type])
<1> DEFINE type == StreamType(id)
<1>1. /\ process = "up" /\ frames # {}
      /\ IF type \notin Opening
         THEN Die /\ UNCHANGED <<streams, frames>>
         ELSE /\ streams' = IF StreamsOf(sent[id].sid) = {}
                            THEN Append(streams, [sid |-> sent[id].sid, type |-> sent[id].type])
                            ELSE streams
              /\ Write(FrameAnswer(type, id))
              /\ frames' = frames \ {id}
      /\ UNCHANGED <<buildVars, peer, conn, authed, sent, pos, reqs, handled, shut>>
  BY DEF ProcessFrame, Serving, StreamType
<1>2. protocol = "http2"
  BY <1>1 DEF Kinds
<1>3. id \in frames /\ (\A j \in frames : id <= j) /\ id \in 1..pos
  <2>1. frames \subseteq Nat
    BY Items
  <2> QED BY <1>1, <2>1, Items, LowestIs
<1>4. StreamsOf(sent[id].sid) # {} => type \in Opening
  BY StreamFacts DEF StreamType
<1>5. IsSeq(out)
  BY Bounds
<1>6. CASE type \notin Opening
  <2>1. process' = "dead" /\ UNCHANGED <<out, streams, frames>>
    BY <1>1, <1>6 DEF Die
  <2>2. OutStep /\ New = {}
    BY <1>5, <2>1, NothingNew
  <2>3. StreamsOf(sent[id].sid) = {} /\ sent[id].type \notin Opening
    BY <1>4, <1>6 DEF StreamType
  <2>4. Steady
    <3>1. pos' \in pos..Len(sent)
      BY <1>1, Bounds
    <3> QED BY <1>1, <2>1, <2>2, <3>1, Bounds, SteadyIs
  <2> QED BY <1>1, <1>2, <1>3, <2>1, <2>2, <2>3, <2>4
<1>7. CASE type \in Opening
  <2>1. Write(FrameAnswer(type, id)) /\ frames' = frames \ {id}
    BY <1>1, <1>7
  <2>2. /\ OutStep /\ process' = "up"
        /\ \A n \in New : /\ n = Len(out) + 1
                          /\ out'[n].id = id /\ out'[n].status = 0
                          /\ out'[n].sid = sent[id].sid
                          /\ out'[n].form \in {"settings", "rst"}
                          /\ out'[n].form = "rst" => type \in {"SETTINGS", "PRIORITY"}
    <3>1. CASE FrameAnswer(type, id) = <<>>
      <4>1. IsSeq(<<>>) /\ DOMAIN <<>> = {}
        <5>1. <<>> \in Seq({})
          OBVIOUS
        <5>2. IsSeq(<<>>)
          BY <5>1, SeqIs
        <5>3. DOMAIN <<>> = {}
          OBVIOUS
        <5> QED BY <5>2, <5>3
      <4>2. Write(<<>>)
        BY <2>1, <3>1
      <4>3. OutStep /\ process' = process /\ New = {}
        BY <1>5, <4>1, <4>2, WriteFacts
      <4> QED BY <1>1, <4>3
    <3>2. ASSUME NEW form \in {"settings", "rst"},
                 FrameAnswer(type, id) = <<Answer(form, sent[id].sid, id, 0, FALSE)>>,
                 form = "rst" => type \in {"SETTINGS", "PRIORITY"}
          PROVE  /\ OutStep /\ process' = "up"
                 /\ \A n \in New : /\ n = Len(out) + 1
                                   /\ out'[n].id = id /\ out'[n].status = 0
                                   /\ out'[n].sid = sent[id].sid
                                   /\ out'[n].form = form
      <4> DEFINE x == Answer(form, sent[id].sid, id, 0, FALSE)
      <4>1. Write(<<x>>)
        BY <2>1, <3>2
      <4>2. x.form = form /\ x.id = id /\ x.status = 0 /\ x.sid = sent[id].sid
        BY DEF Answer
      <4> HIDE DEF x
      <4>3. /\ OutStep /\ process' = process
            /\ \A n \in New : n = Len(out) + 1 /\ out'[n] = x
        BY <1>5, <4>1, WriteOne
      <4> QED BY <1>1, <4>2, <4>3
    <3>3. \/ FrameAnswer(type, id) = <<>>
          \/ \E form \in {"settings", "rst"} :
               /\ FrameAnswer(type, id) = <<Answer(form, sent[id].sid, id, 0, FALSE)>>
               /\ form = "rst" => type \in {"SETTINGS", "PRIORITY"}
      <4> HIDE DEF type
      <4>1. CASE type = "SETTINGS" /\ sent[id].type = "SETTINGS"
        <5>1. FrameAnswer(type, id) = <<Answer("settings", sent[id].sid, id, 0, FALSE)>>
          BY <4>1 DEF FrameAnswer
        <5> QED BY <5>1
      <4>2. CASE type = "SETTINGS" /\ sent[id].type \notin {"SETTINGS", "GOAWAY"}
        <5>1. FrameAnswer(type, id) = <<Answer("rst", sent[id].sid, id, 0, FALSE)>>
          BY <4>2 DEF FrameAnswer
        <5> QED BY <5>1, <4>2
      <4>3. CASE type = "PRIORITY"
        <5>1. FrameAnswer(type, id) = <<Answer("rst", sent[id].sid, id, 0, FALSE)>>
          BY <4>3 DEF FrameAnswer
        <5> QED BY <5>1, <4>3
      <4>4. CASE /\ type # "PRIORITY"
                 /\ ~(type = "SETTINGS" /\ sent[id].type = "SETTINGS")
                 /\ ~(type = "SETTINGS" /\ sent[id].type \notin {"SETTINGS", "GOAWAY"})
        BY <4>4 DEF FrameAnswer
      <4> QED BY <4>1, <4>2, <4>3, <4>4
    <3> QED BY <3>1, <3>2, <3>3
  <2>3. Steady
    <3>1. pos' \in pos..Len(sent) /\ (\A n \in New : out'[n].id \in 1..pos')
      BY <1>1, <1>3, <2>2, Bounds
    <3> QED BY <1>1, <2>2, <3>1, Bounds, SteadyIs
  <2>4. \/ StreamsOf(sent[id].sid) # {} /\ UNCHANGED streams
        \/ /\ StreamsOf(sent[id].sid) = {} /\ sent[id].type \in Opening
           /\ streams' = Append(streams, [sid |-> sent[id].sid, type |-> sent[id].type])
    BY <1>1, <1>7 DEF StreamType
  <2> QED BY <1>1, <1>2, <1>3, <2>1, <2>2, <2>3, <2>4
<1> QED BY <1>6, <1>7


-----------------------------------------------------------------------------
(* All steps.                                                              *)

LEMMA NextCases ==
  ASSUME TypeOK, Next
  PROVE  \/ /\ \/ \E item \in Vocabulary[protocol] : Send(item)
               \/ Leave \/ ReadEnd \/ ReadPart \/ ProcessFrame \/ HandleRequest
               \/ protocol # "external" /\ \E n \in Nat \ {0} : Read(n)
            /\ UNCHANGED <<socketVars, pairVars>>
         \/ /\ \E n \in Nat, cut \in BOOLEAN : ReadSocket(n, cut) \/ ReadRest(n, cut)
            /\ UNCHANGED pairVars
         \/ protocol = "external" /\ \E n \in Nat \ {0} : ReadRelay(n)
         \/ protocol = "external" /\ (ReadExternal \/ ExternalCloses \/ ReadExternalEnd)
<1>1. MaxItems[protocol] \in Nat
  BY WebServerAssumption DEF TypeOK, SocketTypeOK, WebTypeOK
<1>2. 1..MaxItems[protocol] \subseteq Nat \ {0} /\ 0..MaxItems[protocol] \subseteq Nat
  BY <1>1
<1>3. CASE protocol = "external"
  <2>1. RelayNext
    BY <1>3 DEF Next
  <2> QED BY <2>1, <1>2, <1>3 DEF RelayNext, PeerNext
<1>4. CASE protocol # "external"
  <2>1. SocketNext /\ UNCHANGED pairVars
    BY <1>4 DEF Next
  <2>2. CASE (PeerNext \/ WebNext) /\ UNCHANGED socketVars
    BY <2>1, <2>2, <1>2, <1>4 DEF PeerNext, WebNext
  <2>3. CASE \E n \in 0..MaxItems[protocol], cut \in BOOLEAN : ReadSocket(n, cut) \/ ReadRest(n, cut)
    BY <2>1, <2>3, <1>2
  <2> QED BY <2>1, <2>2, <2>3 DEF SocketNext
<1> QED BY <1>3, <1>4

\* The steps by what they do to the web server.
LEMMA Classes ==
  ASSUME TypeOK, Kinds, Paired, [Next]_allVars
  PROVE  /\ Steady
         /\ \/ Quiet
            \/ protocol # "external" /\ \E n \in Nat \ {0} : Read(n)
            \/ ProcessFrame
            \/ HandleRequest
<1>1. CASE UNCHANGED allVars
  <2>1. UNCHANGED <<buildVars, process, peer, conn, authed, streams, sent, readVars, out, handled, shut>>
    BY <1>1 DEF allVars, vars, webVars
  <2>2. OutStep /\ New = {}
    BY <2>1, NothingNew, Bounds
  <2>3. Steady
    <3>1. pos' \in pos..Len(sent)
      BY <2>1, Bounds DEF readVars
    <3> QED BY <2>1, <2>2, <3>1, Bounds, SteadyIs
  <2> QED BY <2>1, <2>2, <2>3 DEF Quiet, readVars
<1>2. CASE Next
  <2>1. ASSUME NEW item \in Vocabulary[protocol], Send(item) PROVE Steady /\ Quiet
    BY <2>1, SendFacts
  <2>2. CASE Leave \/ ReadEnd
    BY <2>2, LeaveFacts
  <2>3. CASE ReadPart
    BY <2>3, ReadPartFacts
  <2>4. ASSUME protocol # "external", NEW n \in Nat \ {0}, Read(n) PROVE Steady
    BY <2>4, ReadFacts
  <2>5. CASE ProcessFrame
    BY <2>5, ProcessFrameFacts
  <2>6. CASE HandleRequest
    <3>1. PICK id : id = Lowest(reqs)
      OBVIOUS
    <3>2. /\ UNCHANGED <<buildVars, peer, streams, sent, pos, frames>> /\ id \in reqs
          /\ conn' \in {"open", "closed"} /\ process' \in {"up", "dead"} /\ OutStep
          /\ \A n \in New : out'[n].id = id
      BY <2>6, <3>1, HandleRequestFacts
    <3>3. pos' \in pos..Len(sent) /\ id \in 1..pos
      BY <3>2, Bounds, Items
    <3> QED BY <2>6, <3>2, <3>3, Bounds, SteadyIs
  <2>7. ASSUME NEW n \in Nat, NEW cut \in BOOLEAN, ReadSocket(n, cut) PROVE Steady /\ Quiet
    BY <2>7, ReadSocketFacts
  <2>8. ASSUME NEW n \in Nat, NEW cut \in BOOLEAN, ReadRest(n, cut) PROVE Steady /\ Quiet
    BY <2>8, ReadRestFacts
  <2>9. ASSUME protocol = "external", NEW n \in Nat \ {0}, ReadRelay(n) PROVE Steady /\ Quiet
    BY <2>9, ReadRelayFacts
  <2>10. ASSUME protocol = "external", ReadExternal \/ ExternalCloses \/ ReadExternalEnd
         PROVE  Steady /\ Quiet
    BY <2>10, ExternalFacts
  <2> QED BY <1>2, <2>1, <2>2, <2>3, <2>4, <2>5, <2>6, <2>7, <2>8, <2>9, <2>10, NextCases
<1> QED BY <1>1, <1>2

-----------------------------------------------------------------------------
(* Types.                                                                  *)

LEMMA WebTypes ==
  ASSUME TypeOK, Kinds, Steady,
         streams' \in Seq([sid : Nat, type : Opening]),
         \A i, j \in DOMAIN streams' : streams'[i].sid = streams'[j].sid => i = j,
         frames' \cup reqs' \subseteq 1..pos', handled' \cup shut' \subseteq 1..pos',
         authed' \in BOOLEAN
  PROVE  WebTypeOK'
<1>1. /\ UNCHANGED buildVars
      /\ sent' \in Seq(Vocabulary[protocol]) /\ Len(sent') <= MaxItems[protocol]
      /\ pos' \in pos..Len(sent') /\ Len(sent') \in Nat
      /\ process' \in {"up", "dead"} /\ peer' \in {"here", "gone"} /\ conn' \in {"open", "closed"}
  BY Bounds, LenProperties DEF Steady
<1>2. pos' \in 0..Len(sent') /\ 1..pos \subseteq 1..pos'
  BY <1>1, Bounds
<1>3. \A i \in DOMAIN out' : out'[i].id \in 1..pos'
  <2> TAKE i \in DOMAIN out'
  <2>1. CASE i \in New
    BY <2>1 DEF Steady
  <2>2. CASE i \in DOMAIN out
    BY <2>2, <1>2, Bounds DEF Steady, OutStep
  <2> QED BY <2>1, <2>2 DEF New
<1>4. protocol \in DOMAIN Vocabulary /\ {checker, debug} \subseteq BOOLEAN
  BY DEF TypeOK, SocketTypeOK, WebTypeOK
<1> QED BY <1>1, <1>2, <1>3, <1>4 DEF WebTypeOK, buildVars

LEMMA WebTypeStep ==
  ASSUME TypeOK, Kinds, Paired, [Next]_allVars
  PROVE  WebTypeOK'
<1>1. /\ streams \in Seq([sid : Nat, type : Opening])
      /\ \A i, j \in DOMAIN streams : streams[i].sid = streams[j].sid => i = j
      /\ frames \cup reqs \subseteq 1..pos /\ handled \cup shut \subseteq 1..pos
      /\ authed \in BOOLEAN
  BY DEF TypeOK, SocketTypeOK, WebTypeOK
<1>2. Steady
  BY Classes
<1>3. 1..pos \subseteq 1..pos'
  <2>1. pos' \in pos..Len(sent') /\ Len(sent') \in Nat
    BY <1>2, LenProperties DEF Steady
  <2> QED BY <2>1, Bounds
<1>4. CASE Quiet
  BY <1>1, <1>2, <1>3, <1>4, WebTypes DEF Quiet
<1>5. ASSUME protocol # "external", NEW n \in Nat \ {0}, Read(n)
      PROVE  WebTypeOK'
  <2>1. /\ protocol \in {"text", "http2"} /\ pos' = pos + n
        /\ UNCHANGED <<authed, streams, handled, shut>>
        /\ protocol = "text" => frames' = {} /\ reqs' = {pos + 1}
        /\ protocol = "http2" => /\ frames' = (pos + 1)..(pos + n)
                                 /\ reqs' = {i \in frames' : sent[i].type = "HEADERS"}
    BY <1>5, ReadFacts
  <2>2. frames' \cup reqs' \subseteq 1..pos'
    <3>1. pos + 1 \in 1..(pos + n) /\ (pos + 1)..(pos + n) \subseteq 1..(pos + n)
      BY Bounds
    <3>2. CASE protocol = "text"
      BY <2>1, <3>1, <3>2
    <3>3. CASE protocol = "http2"
      BY <2>1, <3>1, <3>3
    <3> QED BY <2>1, <3>2, <3>3
  <2>3. handled' \cup shut' \subseteq 1..pos'
    BY <1>1, <1>3, <2>1
  <2> QED BY <1>1, <1>2, <2>1, <2>2, <2>3, WebTypes
<1>6. CASE ProcessFrame
  <2>1. PICK id : id = Lowest(frames)
    OBVIOUS
  <2>2. /\ UNCHANGED <<authed, pos, reqs, handled, shut>> /\ protocol = "http2" /\ id \in frames
        /\ frames' \in {frames, frames \ {id}}
        /\ \/ UNCHANGED streams
           \/ /\ StreamsOf(sent[id].sid) = {} /\ sent[id].type \in Opening
              /\ streams' = Append(streams, [sid |-> sent[id].sid, type |-> sent[id].type])
    BY <1>6, <2>1, ProcessFrameFacts
  <2>3. frames' \cup reqs' \subseteq 1..pos' /\ handled' \cup shut' \subseteq 1..pos'
    BY <1>1, <2>2
  <2>4. CASE UNCHANGED streams
    BY <1>1, <1>2, <2>2, <2>3, <2>4, WebTypes
  <2>5. CASE /\ StreamsOf(sent[id].sid) = {} /\ sent[id].type \in Opening
             /\ streams' = Append(streams, [sid |-> sent[id].sid, type |-> sent[id].type])
    <3> DEFINE s == [sid |-> sent[id].sid, type |-> sent[id].type]
    <3>1. sent[id].sid \in Nat
      <4>1. sent[id] \in Frames \cup HeadersFrames
        BY <2>2, Items, WebServerAssumption
      <4> QED BY <4>1 DEF Frames, HeadersFrames
    <3>2. s \in [sid : Nat, type : Opening] /\ s.sid = sent[id].sid
      BY <3>1, <2>5
    <3>3. streams' = Append(streams, s)
      BY <2>5
    <3> HIDE DEF s
    <3>4. /\ streams' \in Seq([sid : Nat, type : Opening])
          /\ Len(streams') = Len(streams) + 1
          /\ \A i \in 1..Len(streams) : streams'[i] = streams[i]
          /\ streams'[Len(streams) + 1] = s
      BY <1>1, <3>2, <3>3, AppendProperties
    <3>5. \A i \in DOMAIN streams : streams[i].sid # s.sid
      BY <2>5, <3>2 DEF StreamsOf
    <3>6. \A i, j \in DOMAIN streams' : streams'[i].sid = streams'[j].sid => i = j
      <4>1. /\ Len(streams) \in Nat /\ DOMAIN streams = 1..Len(streams)
            /\ DOMAIN streams' = 1..(Len(streams) + 1)
        BY <3>4, StreamFacts, LenProperties
      <4>2. \A i \in DOMAIN streams' : i \in DOMAIN streams \/ i = Len(streams) + 1
        BY <4>1
      <4> QED BY <1>1, <3>4, <3>5, <4>1, <4>2
    <3> QED BY <1>2, <2>2, <2>3, <3>4, <3>6, <1>1, WebTypes
  <2> QED BY <2>2, <2>4, <2>5
<1>7. CASE HandleRequest
  <2>1. PICK id : id = Lowest(reqs)
    OBVIOUS
  <2>2. /\ UNCHANGED <<streams, pos, frames>> /\ id \in reqs
        /\ handled' = handled \cup {id} /\ reqs' \subseteq reqs \ {id}
        /\ authed' \in BOOLEAN /\ shut' \in {shut, shut \cup {id}}
    BY <1>7, <2>1, HandleRequestFacts
  <2>3. frames' \cup reqs' \subseteq 1..pos' /\ handled' \cup shut' \subseteq 1..pos'
    BY <1>1, <2>2
  <2> QED BY <1>1, <1>2, <2>2, <2>3, WebTypes
<1> QED BY <1>4, <1>5, <1>6, <1>7, Classes


LEMMA PosGrows ==
  ASSUME TypeOK, Kinds, Steady
  PROVE  /\ pos' \in Nat /\ pos <= pos' /\ 1..pos \subseteq 1..pos'
         /\ \A i \in 1..pos : i \in Nat /\ i \in 1..Len(sent) /\ sent'[i] = sent[i]
         /\ \A i \in 1..Len(sent) : sent'[i] = sent[i]
         /\ DOMAIN sent \subseteq DOMAIN sent' /\ DOMAIN sent = 1..Len(sent)
         /\ Len(sent) \in Nat
<1>1. /\ pos' \in pos..Len(sent') /\ sent' \in Seq(Vocabulary[protocol])
      /\ Len(sent) <= Len(sent') /\ \A i \in 1..Len(sent) : sent'[i] = sent[i]
  BY DEF Steady
<1>2. Len(sent') \in Nat /\ DOMAIN sent' = 1..Len(sent')
  BY <1>1, LenProperties
<1>3. pos' \in Nat /\ pos <= pos' /\ 1..pos \subseteq 1..pos'
  BY <1>1, <1>2, Bounds
<1>4. DOMAIN sent \subseteq DOMAIN sent' /\ DOMAIN sent = 1..Len(sent) /\ Len(sent) \in Nat
  BY <1>1, <1>2, Items
<1> QED BY <1>1, <1>3, <1>4, Items

LEMMA SocketTypeStep ==
  ASSUME TypeOK, Kinds, Paired, [Next]_allVars
  PROVE  SocketTypeOK'
<1>1. WebTypeOK' /\ Steady
  BY WebTypeStep, Classes
<1>2. {torn, split, noise} \subseteq BOOLEAN /\ whole \subseteq 1..pos
  BY DEF TypeOK, SocketTypeOK
<1>3. whole \subseteq 1..pos'
  BY <1>1, <1>2, PosGrows
<1>4. CASE UNCHANGED socketVars
  BY <1>1, <1>2, <1>3, <1>4 DEF SocketTypeOK, socketVars
<1>5. ASSUME NEW n \in Nat, NEW cut \in BOOLEAN, ReadSocket(n, cut)
      PROVE  SocketTypeOK'
  <2>1. /\ UNCHANGED noise /\ torn' \in BOOLEAN /\ split' \in BOOLEAN
        /\ whole' \in {whole, whole \cup {pos + 1}} /\ pos + 1 \in 1..pos'
    BY <1>5, ReadSocketFacts
  <2> QED BY <1>1, <1>2, <1>3, <2>1 DEF SocketTypeOK
<1>6. ASSUME NEW n \in Nat, NEW cut \in BOOLEAN, ReadRest(n, cut)
      PROVE  SocketTypeOK'
  <2>1. torn' \in BOOLEAN /\ split' = TRUE /\ noise' = TRUE /\ UNCHANGED whole
    BY <1>6, ReadRestFacts
  <2> QED BY <1>1, <1>2, <1>3, <2>1 DEF SocketTypeOK
<1>7. ASSUME protocol = "external", NEW n \in Nat \ {0}, ReadRelay(n)
      PROVE  UNCHANGED socketVars
  BY <1>7, ReadRelayFacts
<1>8. ASSUME protocol = "external", ReadExternal \/ ExternalCloses \/ ReadExternalEnd
      PROVE  UNCHANGED socketVars
  BY <1>8 DEF ReadExternal, ExternalCloses, ReadExternalEnd, Rest
<1>9. CASE UNCHANGED allVars
  BY <1>4, <1>9 DEF allVars, vars
<1> QED BY <1>4, <1>5, <1>6, <1>7, <1>8, <1>9, NextCases

\* What the external server received is a sequence of pieces on links.
LEMMA FwdFacts ==
  ASSUME TypeOK, Paired
  PROVE  /\ IsSeq(fwd) /\ Len(fwd) \in Nat /\ DOMAIN fwd = 1..Len(fwd)
         /\ \A i \in DOMAIN fwd : fwd[i].id \in 1..pos /\ fwd[i].link \in 1..Link
         /\ done \in 0..Len(fwd)
         /\ Link \in Nat \ {0} /\ ended = 1..(Link - 1)
         /\ Cardinality(1..Link) = Link
<1>1. fwd \in Seq([id : 1..pos, link : Nat]) /\ done \in 0..Len(fwd)
      /\ ended = 1..Cardinality(ended) /\ Cardinality(ended) \in Nat
  BY DEF TypeOK, Paired
<1>2. IsSeq(fwd) /\ Len(fwd) \in Nat /\ DOMAIN fwd = 1..Len(fwd)
      /\ \A i \in 1..Len(fwd) : fwd[i] \in [id : 1..pos, link : Nat]
  BY <1>1, SeqIs, LenProperties, ElementOfSeq
<1>3. \A i \in DOMAIN fwd : fwd[i].id \in 1..pos /\ fwd[i].link \in 1..Link
  BY <1>2 DEF Paired
<1>4. Link \in Nat \ {0} /\ Link - 1 = Cardinality(ended)
  BY <1>1 DEF Link
<1>5. Cardinality(1..Link) = Link
  BY <1>4, FS_Interval
<1> QED BY <1>1, <1>2, <1>3, <1>4, <1>5

\* A connection that was over as soon as it was made has the number of its link.
LEMMA OverFacts ==
  ASSUME TypeOK, Paired, Over
  PROVE  /\ ended' = 1..Link /\ Cardinality(ended') = Link /\ Link \in Nat
         /\ Link' = Link + 1 /\ ended' # {} /\ ended \subseteq ended'
<1>1. /\ ended = 1..(Link - 1) /\ Link \in Nat \ {0} /\ Cardinality(1..Link) = Link
  BY FwdFacts
<1>2. ended' = 1..Link
  BY <1>1 DEF Over
<1>3. 1 \in 1..Link /\ 1..(Link - 1) \subseteq 1..Link
  BY <1>1
<1> QED BY <1>1, <1>2, <1>3 DEF Link

\* What n pieces add to what the server received.
LEMMA ForwardsFacts ==
  ASSUME TypeOK, Kinds, Paired, NEW n \in Nat \ {0}, Forwards(n)
  PROVE  /\ Len(fwd') = Len(fwd) + n /\ DOMAIN fwd' = 1..(Len(fwd) + n)
         /\ \A i \in DOMAIN fwd : i \in DOMAIN fwd' /\ fwd'[i] = fwd[i]
         /\ \A i \in DOMAIN fwd' \ DOMAIN fwd :
              /\ i - Len(fwd) \in 1..n
              /\ fwd'[i] = [id |-> pos + (i - Len(fwd)), link |-> Link]
         /\ \A i \in 1..n : /\ Len(fwd) + i \in DOMAIN fwd' \ DOMAIN fwd
                            /\ fwd'[Len(fwd) + i] = [id |-> pos + i, link |-> Link]
<1> DEFINE t == [i \in 1..n |-> [id |-> pos + i, link |-> Link]]
<1>1. fwd' = fwd \o t
  BY DEF Forwards
<1>2. DOMAIN t = 1..n /\ \A i \in 1..n : t[i] = [id |-> pos + i, link |-> Link]
  OBVIOUS
<1>3. IsSeq(t) /\ Len(t) = n
  <2>1. t \in [1..n -> {t[i] : i \in 1..n}]
    OBVIOUS
  <2> HIDE DEF t
  <2>0. t \in Seq({t[i] : i \in 1..n})
    BY <2>1, SeqDef
  <2>2. IsSeq(t)
    BY <2>0, SeqIs
  <2>3. Len(t) \in Nat /\ 1..Len(t) = 1..n
    BY <2>2, <1>2, SeqFacts
  <2>4. Len(t) = n
    BY <2>3
  <2> QED BY <2>2, <2>4
<1> HIDE DEF t
<1>0. IsSeq(fwd) /\ Len(fwd) \in Nat /\ DOMAIN fwd = 1..Len(fwd)
  BY FwdFacts
<1>4. /\ IsSeq(fwd') /\ Len(fwd') = Len(fwd) + n
      /\ DOMAIN fwd \subseteq DOMAIN fwd' /\ \A i \in DOMAIN fwd : fwd'[i] = fwd[i]
      /\ \A i \in DOMAIN t : Len(fwd) + i \in DOMAIN fwd' /\ fwd'[Len(fwd) + i] = t[i]
  BY <1>0, <1>1, <1>3, ConcatFacts
<1>5. DOMAIN fwd' = 1..(Len(fwd) + n)
  BY <1>4, SeqFacts
<1>6. \A i \in 1..n : /\ Len(fwd) + i \in DOMAIN fwd' \ DOMAIN fwd
                      /\ fwd'[Len(fwd) + i] = [id |-> pos + i, link |-> Link]
  <2> TAKE i \in 1..n
  <2>1. Len(fwd) + i \in DOMAIN fwd' /\ fwd'[Len(fwd) + i] = t[i]
    BY <1>2, <1>4
  <2>2. Len(fwd) + i \notin DOMAIN fwd
    BY <1>0
  <2> QED BY <2>1, <2>2, <1>2
<1>7. \A i \in DOMAIN fwd' \ DOMAIN fwd :
        /\ i - Len(fwd) \in 1..n
        /\ fwd'[i] = [id |-> pos + (i - Len(fwd)), link |-> Link]
  <2> TAKE i \in DOMAIN fwd' \ DOMAIN fwd
  <2>1. i - Len(fwd) \in 1..n /\ Len(fwd) + (i - Len(fwd)) = i
    BY <1>0, <1>5
  <2> QED BY <2>1, <1>6
<1> QED BY <1>4, <1>5, <1>6, <1>7

LEMMA TypeStep ==
  ASSUME TypeOK, Kinds, Paired, [Next]_allVars
  PROVE  TypeOK'
<1>1. SocketTypeOK' /\ Steady
  BY SocketTypeStep, Classes
<1>2. 1..pos \subseteq 1..pos' /\ pos' \in Nat
  BY <1>1, PosGrows
<1>3. /\ fwd \in Seq([id : 1..pos, link : Nat]) /\ eclient \in {"null", "set"}
      /\ site \in {"none", "here", "fin", "rst"} /\ done \in 0..Len(fwd)
      /\ ended = 1..Cardinality(ended) /\ dropped \subseteq 1..pos
  BY DEF TypeOK
<1>4. fwd \in Seq([id : 1..pos', link : Nat])
  <2>1. [id : 1..pos, link : Nat] \subseteq [id : 1..pos', link : Nat]
    BY <1>2
  <2> QED BY <2>1, <1>3, SeqMonotonic
<1>5. CASE UNCHANGED pairVars
  BY <1>1, <1>2, <1>3, <1>4, <1>5 DEF TypeOK, pairVars
<1>6. ASSUME protocol = "external", NEW n \in Nat \ {0}, ReadRelay(n)
      PROVE  TypeOK'
  <2>1. (Forwards(n) \/ Drops(n) \/ Refuses \/ Loses(n) \/ Fails) /\ pos' = pos + n
    BY <1>6, ReadRelayFacts
  <2>2. CASE Forwards(n)
    <3>1. /\ site' = "here" /\ eclient' = "set" /\ UNCHANGED <<done, ended, dropped>>
          /\ fwd' = fwd \o [i \in 1..n |-> [id |-> pos + i, link |-> Link]]
      BY <2>2 DEF Forwards
    <3>2. fwd' \in Seq([id : 1..pos', link : Nat])
      <4>1. [i \in 1..n |-> [id |-> pos + i, link |-> Link]] \in Seq([id : 1..pos', link : Nat])
        <5>1. \A i \in 1..n : [id |-> pos + i, link |-> Link] \in [id : 1..pos', link : Nat]
          BY <2>1, Bounds, FwdFacts
        <5>2. [i \in 1..n |-> [id |-> pos + i, link |-> Link]]
                \in [1..n -> [id : 1..pos', link : Nat]]
          BY <5>1
        <5> QED BY <5>2, SeqDef
      <4> QED BY <3>1, <4>1, <1>4, ConcatProperties
    <3>3. done' \in 0..Len(fwd')
      BY <3>1, <2>2, ForwardsFacts, FwdFacts
    <3> QED BY <1>1, <1>2, <1>3, <3>1, <3>2, <3>3 DEF TypeOK
  <2>3. CASE Drops(n)
    <3>1. /\ site' = "rst" /\ UNCHANGED <<eclient, fwd, done, ended>>
          /\ dropped' = dropped \cup (pos + 1)..(pos + n)
      BY <2>3 DEF Drops
    <3>2. (pos + 1)..(pos + n) \subseteq 1..pos'
      BY <2>1, Bounds
    <3> QED BY <1>1, <1>2, <1>3, <1>4, <3>1, <3>2 DEF TypeOK
  <2>4. CASE Refuses
    BY <2>4, <1>5 DEF Refuses
  <2>5. CASE Loses(n) \/ Fails
    <3>1. Over /\ site' = "rst" /\ eclient' = "set" /\ UNCHANGED <<fwd, done>>
      BY <2>5 DEF Loses, Fails, Over
    <3>2. ended' = 1..Cardinality(ended')
      BY <3>1, OverFacts
    <3>3. dropped' \subseteq 1..pos'
      <4>1. (pos + 1)..(pos + n) \subseteq 1..pos'
        BY <2>1, Bounds
      <4> QED BY <4>1, <1>2, <1>3, <2>5 DEF Loses, Fails
    <3> QED BY <1>1, <1>3, <1>4, <3>1, <3>2, <3>3 DEF TypeOK
  <2> QED BY <2>1, <2>2, <2>3, <2>4, <2>5
<1>7. ASSUME protocol = "external", ReadExternal \/ ExternalCloses \/ ReadExternalEnd
      PROVE  TypeOK'
  <2>1. UNCHANGED <<fwd, dropped>>
    BY <1>7, ExternalFacts
  <2>2. CASE ReadExternal
    <3>1. done' \in 0..Len(fwd) /\ UNCHANGED <<eclient, site, ended>>
      BY <2>2, FwdFacts DEF ReadExternal
    <3> QED BY <1>1, <1>2, <1>3, <1>4, <2>1, <3>1 DEF TypeOK
  <2>3. CASE ExternalCloses
    <3>1. site' = "fin" /\ ended' = ended \cup {Link} /\ UNCHANGED <<eclient, done>>
      BY <2>3 DEF ExternalCloses
    <3>2. ended' = 1..Link
      BY <3>1, FwdFacts
    <3>3. ended' = 1..Cardinality(ended')
      BY <3>2, FwdFacts
    <3> QED BY <1>1, <1>2, <1>3, <1>4, <2>1, <3>1, <3>3 DEF TypeOK
  <2>4. CASE ReadExternalEnd
    <3>1. /\ site' = "none" /\ done' = Len(fwd) /\ UNCHANGED ended
          /\ eclient' \in {"null", eclient}
      BY <2>4 DEF ReadExternalEnd
    <3>2. done' \in 0..Len(fwd)
      BY <3>1, FwdFacts
    <3> QED BY <1>1, <1>2, <1>3, <1>4, <2>1, <3>1, <3>2 DEF TypeOK
  <2> QED BY <1>7, <2>2, <2>3, <2>4
<1>8. CASE UNCHANGED allVars
  BY <1>5, <1>8 DEF allVars
<1> QED BY <1>5, <1>6, <1>7, <1>8, NextCases


-----------------------------------------------------------------------------
(* What is known of the relay.                                             *)

LEMMA OutIs ==
  ASSUME OutStep
  PROVE  \A i \in DOMAIN out' : (i \in DOMAIN out /\ out'[i] = out[i]) \/ i \in New
BY DEF OutStep, New

LEMMA PairedStep ==
  ASSUME TypeOK, Kinds, Paired, [Next]_allVars
  PROVE  Paired'
<1>1. /\ UNCHANGED protocol /\ conn' \in {"open", "closed"} /\ OutStep
      /\ conn = "closed" => conn' = "closed"
  <2>1. UNCHANGED protocol /\ conn' \in {"open", "closed"} /\ OutStep
    BY Classes DEF Steady, buildVars
  <2>2. conn = "closed" => conn' = "closed"
    <3> SUFFICES ASSUME conn = "closed" PROVE conn' = "closed"
      OBVIOUS
    <3>1. \A item, n, cut :
            /\ ~Leave \/ UNCHANGED conn
            /\ ~Send(item) /\ ~ReadEnd /\ ~ReadPart /\ ~ProcessFrame /\ ~HandleRequest
            /\ ~Read(n) /\ ~ReadSocket(n, cut) /\ ~ReadRest(n, cut) /\ ~ReadRelay(n)
      BY DEF Leave, Send, ReadEnd, ReadPart, ProcessFrame, HandleRequest, Read, ReadSocket,
             ReadRest, ReadRelay, Idle, Serving
    <3>2. ReadExternal \/ ExternalCloses \/ ReadExternalEnd => UNCHANGED conn
      BY DEF ReadExternal, ExternalCloses, ReadExternalEnd, Rest
    <3>3. UNCHANGED allVars => UNCHANGED conn
      BY DEF allVars, vars, webVars
    <3> QED BY <3>1, <3>2, <3>3, NextCases
  <2> QED BY <2>1, <2>2
<1>2. ASSUME UNCHANGED pairVars, protocol = "external" => \A n \in New : out'[n].form # "external"
      PROVE  Paired'
  <2>1. Link' = Link
    BY <1>2 DEF Link, pairVars
  <2>2. \A i \in DOMAIN out', k \in DOMAIN fwd :
          out'[i].form = "external" /\ k > done => out'[i].id < fwd[k].id
    <3>1. CASE protocol = "external"
      BY <1>1, <1>2, <3>1, OutIs DEF Paired
    <3>2. CASE protocol # "external"
      <4>1. DOMAIN fwd = {}
        BY <3>2 DEF Paired
      <4> QED BY <4>1
    <3> QED BY <3>1, <3>2
  <2>3. \A i \in DOMAIN fwd : fwd[i].link \in 1..Link'
    BY <2>1 DEF Paired
  <2>4. UNCHANGED <<eclient, site, fwd, done, ended>>
    BY <1>2 DEF pairVars
  <2>5. /\ eclient = "null" => site = "none"
        /\ conn' = "open" /\ eclient = "set" => site # "none"
        /\ site # "none" => fwd # <<>> \/ ended # {}
        /\ site \in {"fin", "rst"} => ended # {}
        /\ Cardinality(ended) \in Nat
        /\ protocol # "external" => fwd = <<>>
        /\ \A i, k \in DOMAIN fwd : i < k => fwd[i].id < fwd[k].id
    BY <1>1, Bounds DEF Paired
  <2> QED BY <1>1, <2>2, <2>3, <2>4, <2>5 DEF Paired
<1>3. ASSUME protocol = "external", NEW n \in Nat \ {0}, ReadRelay(n)
      PROVE  Paired'
  <2>1. /\ Forwards(n) \/ Drops(n) \/ Refuses \/ Loses(n) \/ Fails
        /\ \A m \in New : out'[m].form = "text"
        /\ conn' = conn /\ conn = "open"
    BY <1>3, ReadRelayFacts
  <2>2. \A i \in DOMAIN out' :
          out'[i].form = "external" => i \in DOMAIN out /\ out'[i] = out[i]
    BY <1>1, <2>1, OutIs
  <2>3. CASE Forwards(n)
    <3>1. /\ site' = "here" /\ eclient' = "set" /\ UNCHANGED <<done, ended>> /\ Link' = Link
      BY <2>3 DEF Forwards, Link
    <3>2. /\ Len(fwd) \in Nat /\ DOMAIN fwd = 1..Len(fwd)
          /\ \A i \in DOMAIN fwd : fwd[i].id \in 1..pos /\ fwd[i].link \in 1..Link
          /\ Link \in Nat \ {0} /\ pos \in Nat
      BY FwdFacts, Bounds
    <3>3. /\ DOMAIN fwd' = 1..(Len(fwd) + n)
          /\ \A i \in DOMAIN fwd : i \in DOMAIN fwd' /\ fwd'[i] = fwd[i]
          /\ \A i \in DOMAIN fwd' \ DOMAIN fwd :
               /\ i - Len(fwd) \in 1..n
               /\ fwd'[i] = [id |-> pos + (i - Len(fwd)), link |-> Link]
          /\ Len(fwd) + 1 \in DOMAIN fwd'
      <4>1. 1 \in 1..n
        OBVIOUS
      <4> QED BY <4>1, <2>3, ForwardsFacts
    <3>4. \A i \in DOMAIN fwd' \ DOMAIN fwd :
            /\ fwd'[i].id = pos + (i - Len(fwd)) /\ fwd'[i].link = Link
            /\ i - Len(fwd) \in 1..n /\ i > Len(fwd) /\ i \in Nat
      <4> TAKE i \in DOMAIN fwd' \ DOMAIN fwd
      <4>1. fwd'[i] = [id |-> pos + (i - Len(fwd)), link |-> Link]
        BY <3>3
      <4>2. i - Len(fwd) \in 1..n /\ i > Len(fwd) /\ i \in Nat
        BY <3>2, <3>3
      <4> QED BY <4>1, <4>2
    <3>5. fwd' # <<>>
      BY <3>3
    <3>6. \A i \in DOMAIN fwd' : fwd'[i].link \in 1..Link'
      <4> TAKE i \in DOMAIN fwd'
      <4>1. CASE i \in DOMAIN fwd
        BY <4>1, <3>1, <3>2, <3>3
      <4>2. CASE i \notin DOMAIN fwd
        BY <4>2, <3>1, <3>2, <3>4
      <4> QED BY <4>1, <4>2
    <3>7. \A i, k \in DOMAIN fwd' : i < k => fwd'[i].id < fwd'[k].id
      <4> SUFFICES ASSUME NEW i \in DOMAIN fwd', NEW k \in DOMAIN fwd', i < k
                   PROVE  fwd'[i].id < fwd'[k].id
        OBVIOUS
      <4>1. CASE i \in DOMAIN fwd /\ k \in DOMAIN fwd
        BY <4>1, <3>3 DEF Paired
      <4>2. CASE i \in DOMAIN fwd /\ k \notin DOMAIN fwd
        <5>1. fwd'[i].id \in 1..pos /\ fwd'[k].id = pos + (k - Len(fwd)) /\ k - Len(fwd) \in 1..n
          BY <4>2, <3>2, <3>3, <3>4
        <5> QED BY <5>1, <3>2
      <4>3. CASE i \notin DOMAIN fwd /\ k \in DOMAIN fwd
        <5>1. i > Len(fwd) /\ k <= Len(fwd) /\ i \in Nat /\ k \in Nat
          BY <4>3, <3>2, <3>4
        <5> QED BY <5>1, <3>2
      <4>4. CASE i \notin DOMAIN fwd /\ k \notin DOMAIN fwd
        <5>1. /\ fwd'[i].id = pos + (i - Len(fwd)) /\ fwd'[k].id = pos + (k - Len(fwd))
              /\ i \in Nat /\ k \in Nat
          BY <4>4, <3>4
        <5> QED BY <5>1, <3>2
      <4> QED BY <4>1, <4>2, <4>3, <4>4
    <3>8. ASSUME NEW i \in DOMAIN out', NEW k \in DOMAIN fwd', out'[i].form = "external", k > done
          PROVE  out'[i].id < fwd'[k].id
      <4>1. i \in DOMAIN out /\ out'[i] = out[i]
        BY <2>2, <3>8
      <4>2. CASE k \in DOMAIN fwd
        BY <4>1, <4>2, <3>3, <3>8 DEF Paired
      <4>3. CASE k \notin DOMAIN fwd
        <5>1. out'[i].id \in 1..pos /\ fwd'[k].id = pos + (k - Len(fwd)) /\ k - Len(fwd) \in 1..n
          BY <4>1, <4>3, <3>4, Bounds
        <5> QED BY <5>1, <3>2
      <4> QED BY <4>2, <4>3
    <3>9. Cardinality(ended') \in Nat
      BY <3>1 DEF Paired
    <3> QED BY <1>1, <1>3, <3>1, <3>5, <3>6, <3>7, <3>8, <3>9 DEF Paired
  <2>4. CASE Drops(n)
    <3>1. /\ site = "fin" /\ site' = "rst" /\ UNCHANGED <<eclient, fwd, done, ended>> /\ Link' = Link
      BY <2>4 DEF Drops, Link
    <3>2. \A i \in DOMAIN fwd : fwd[i].link \in 1..Link'
      BY <3>1 DEF Paired
    <3> QED BY <1>1, <1>3, <2>2, <3>1, <3>2 DEF Paired
  <2>5. CASE Refuses
    BY <1>2, <2>1, <2>5 DEF Refuses
  <2>6. CASE Loses(n) \/ Fails
    <3>1. Over /\ site' = "rst" /\ eclient' = "set" /\ UNCHANGED <<fwd, done>>
      BY <2>6 DEF Loses, Fails, Over
    <3>2. /\ Cardinality(ended') \in Nat /\ Link' = Link + 1 /\ Link \in Nat /\ ended' # {}
      BY <3>1, OverFacts
    <3>3. \A i \in DOMAIN fwd : fwd[i].link \in 1..Link'
      BY <3>2 DEF Paired
    <3>4. \A i \in DOMAIN out', k \in DOMAIN fwd :
            out'[i].form = "external" /\ k > done => out'[i].id < fwd[k].id
      BY <2>2 DEF Paired
    <3> QED BY <1>1, <1>3, <3>1, <3>2, <3>3, <3>4 DEF Paired
  <2> QED BY <2>1, <2>3, <2>4, <2>5, <2>6
<1>4. ASSUME protocol = "external", ReadExternal
      PROVE  Paired'
  <2>1. /\ done < Len(fwd) /\ done' = done + 1 /\ UNCHANGED <<eclient, site, fwd, ended>>
        /\ Link' = Link
    BY <1>4 DEF ReadExternal, Link
  <2>2. \A n \in New : out'[n].form = "external" /\ out'[n].id = fwd[done + 1].id
    BY <1>4, ExternalFacts
  <2>3. /\ Len(fwd) \in Nat /\ DOMAIN fwd = 1..Len(fwd) /\ done \in Nat
        /\ done + 1 \in DOMAIN fwd
    BY <2>1, FwdFacts
  <2>4. ASSUME NEW i \in DOMAIN out', NEW k \in DOMAIN fwd, out'[i].form = "external", k > done'
        PROVE  out'[i].id < fwd[k].id
    <3>1. k > done /\ done + 1 < k
      BY <2>1, <2>3, <2>4
    <3>2. CASE i \in DOMAIN out /\ out'[i] = out[i]
      BY <3>1, <3>2, <2>4 DEF Paired
    <3>3. CASE i \in New
      BY <3>1, <3>3, <2>2, <2>3 DEF Paired
    <3> QED BY <1>1, <3>2, <3>3, OutIs
  <2>5. \A i \in DOMAIN fwd : fwd[i].link \in 1..Link'
    BY <2>1 DEF Paired
  <2>6. conn' = "open" => conn = "open"
    BY <1>1, Bounds
  <2>7. \A i \in DOMAIN out', k \in DOMAIN fwd' :
          out'[i].form = "external" /\ k > done' => out'[i].id < fwd'[k].id
    BY <2>1, <2>4
  <2>8. Cardinality(ended') \in Nat
    BY <2>1 DEF Paired
  <2>9. \A i \in DOMAIN fwd' : fwd'[i].link \in 1..Link'
    BY <2>1, <2>5
  <2> QED BY <1>1, <1>4, <2>1, <2>6, <2>7, <2>8, <2>9 DEF Paired
<1>5. ASSUME protocol = "external", ExternalCloses
      PROVE  Paired'
  <2>1. /\ site = "here" /\ site' = "fin" /\ ended' = ended \cup {Link}
        /\ UNCHANGED <<eclient, fwd, done, out>>
    BY <1>5 DEF ExternalCloses
  <2>2. Cardinality(ended') = Link /\ Link \in Nat /\ Link' = Link + 1
    <3>1. ended' = 1..Link /\ Cardinality(1..Link) = Link /\ Link \in Nat
      BY <2>1, FwdFacts
    <3> QED BY <3>1 DEF Link
  <2>3. \A i \in DOMAIN fwd : fwd[i].link \in 1..Link'
    BY <2>2 DEF Paired
  <2> QED BY <1>1, <1>5, <2>1, <2>2, <2>3 DEF Paired
<1>6. ASSUME protocol = "external", ReadExternalEnd
      PROVE  Paired'
  <2>1. /\ site' = "none" /\ done' = Len(fwd) /\ UNCHANGED <<ended, fwd>>
        /\ Link' = Link
        /\ conn = "open" => eclient' = "null"
    BY <1>6 DEF ReadExternalEnd, Link
  <2>2. \A n \in New : out'[n].form # "external"
    <3>1. ReadExternal \/ New = {}
      BY <1>6, ExternalFacts
    <3>2. ~ReadExternal
      BY <1>6 DEF ReadExternal, ReadExternalEnd
    <3> QED BY <3>1, <3>2
  <2>3. \A k \in DOMAIN fwd : ~(k > Len(fwd))
    BY FwdFacts
  <2>4. \A i \in DOMAIN fwd : fwd[i].link \in 1..Link'
    BY <2>1 DEF Paired
  <2>5. conn' = "open" => eclient' = "null"
    BY <1>1, <2>1, Bounds
  <2> QED BY <1>1, <1>6, <2>1, <2>3, <2>4, <2>5 DEF Paired
<1>7. CASE UNCHANGED allVars
  <2>1. UNCHANGED <<pairVars, out>>
    BY <1>7 DEF allVars, vars, webVars
  <2> QED BY <2>1, <1>2 DEF New
<1>8. ASSUME UNCHANGED pairVars, protocol = "external",
             \/ \E item \in Vocabulary[protocol] : Send(item)
             \/ Leave \/ ReadEnd \/ ReadPart \/ ProcessFrame \/ HandleRequest
             \/ \E n \in Nat, cut \in BOOLEAN : ReadSocket(n, cut) \/ ReadRest(n, cut)
      PROVE  New = {}
  <2>1. reqs = {} /\ frames = {} /\ ~torn
    BY <1>8 DEF Kinds
  <2>2. (\E item \in Vocabulary[protocol] : Send(item)) \/ Leave \/ ReadEnd
    <3>1. /\ ~ReadPart /\ ~ProcessFrame /\ ~HandleRequest
          /\ \A n, cut : ~ReadSocket(n, cut) /\ ~ReadRest(n, cut)
      BY <1>8, <2>1 DEF ReadPart, ProcessFrame, HandleRequest, ReadSocket, ReadRest
    <3> QED BY <1>8, <3>1
  <2>3. UNCHANGED out
    BY <2>2 DEF Send, Leave, ReadEnd
  <2> QED BY <2>3 DEF New
<1> QED BY <1>2, <1>3, <1>4, <1>5, <1>6, <1>7, <1>8, NextCases


-----------------------------------------------------------------------------
(* What each protocol has, and the order of the requests.                  *)

LEMMA KindsStep ==
  ASSUME TypeOK, Kinds, Paired, [Next]_allVars
  PROVE  Kinds'
<1>1. Steady /\ UNCHANGED <<protocol, checker>> /\ IsSeq(out')
  BY Classes DEF Steady, OutStep, buildVars
<1>2. \A i \in 1..pos : sent'[i] = sent[i]
  BY <1>1, PosGrows
<1>3. torn' => protocol = "websocket" /\ pos' # 0
  <2>1. CASE UNCHANGED socketVars
    <3>1. pos' \in Nat /\ pos <= pos' /\ pos \in Nat
      BY <1>1, PosGrows, Bounds
    <3> QED BY <2>1, <3>1 DEF Kinds, socketVars
  <2>2. ASSUME NEW n \in Nat, NEW cut \in BOOLEAN, ReadSocket(n, cut)
        PROVE  protocol = "websocket" /\ pos' # 0
    <3>1. protocol = "websocket" /\ pos + 1 \in 1..pos'
      BY <2>2, ReadSocketFacts
    <3> QED BY <3>1
  <2>3. ASSUME NEW n \in Nat, NEW cut \in BOOLEAN, ReadRest(n, cut)
        PROVE  protocol = "websocket" /\ pos' # 0
    BY <2>3, ReadRestFacts
  <2>4. ASSUME protocol = "external", NEW n \in Nat \ {0}, ReadRelay(n)
        PROVE  UNCHANGED socketVars
    BY <2>4, ReadRelayFacts
  <2>5. ASSUME protocol = "external", ReadExternal \/ ExternalCloses \/ ReadExternalEnd
        PROVE  UNCHANGED socketVars
    BY <2>5 DEF ReadExternal, ExternalCloses, ReadExternalEnd, Rest
  <2>6. CASE UNCHANGED allVars
    BY <2>1, <2>6 DEF allVars, vars
  <2> QED BY <2>1, <2>2, <2>3, <2>4, <2>5, <2>6, NextCases
<1>4. /\ frames \subseteq 1..pos /\ reqs \subseteq 1..pos /\ handled \subseteq 1..pos
  BY Items
<1>5. CASE Quiet
  <2>1. UNCHANGED <<streams, frames, reqs, handled, shut>>
    BY <1>5 DEF Quiet
  <2>2. protocol = "http2" => \A id \in reqs \cup handled : sent'[id].type = "HEADERS"
    BY <1>2, <1>4 DEF Kinds
  <2> QED BY <1>1, <1>3, <2>1, <2>2 DEF Kinds
<1>6. ASSUME protocol # "external", NEW n \in Nat \ {0}, Read(n)
      PROVE  Kinds'
  <2>1. /\ protocol \in {"text", "http2"} /\ UNCHANGED <<streams, sent, handled, shut>>
        /\ protocol = "text" => frames' = {}
        /\ protocol = "http2" => reqs' = {i \in frames' : sent[i].type = "HEADERS"}
    BY <1>6, ReadFacts
  <2>2. protocol = "http2" => \A id \in reqs' \cup handled' : sent'[id].type = "HEADERS"
    BY <2>1 DEF Kinds
  <2> QED BY <1>1, <1>3, <2>1, <2>2 DEF Kinds
<1>7. CASE ProcessFrame
  <2>1. PICK id : id = Lowest(frames)
    OBVIOUS
  <2>2. protocol = "http2" /\ UNCHANGED <<sent, reqs, handled>>
    BY <1>7, <2>1, ProcessFrameFacts
  <2> QED BY <1>1, <1>3, <2>2 DEF Kinds
<1>8. CASE HandleRequest
  <2>1. PICK id : id = Lowest(reqs)
    OBVIOUS
  <2>2. /\ id \in reqs /\ UNCHANGED <<streams, sent, frames>>
        /\ handled' = handled \cup {id} /\ reqs' \subseteq reqs \ {id}
    BY <1>8, <2>1, HandleRequestFacts
  <2>3. protocol \in {"text", "http2"}
    BY <2>2 DEF Kinds
  <2> QED BY <1>1, <1>3, <2>2, <2>3 DEF Kinds
<1> QED BY <1>5, <1>6, <1>7, <1>8, Classes

LEMMA OrderStep ==
  ASSUME TypeOK, Kinds, Paired, Order, [Next]_allVars
  PROVE  Order'
<1>1. Steady /\ OutStep
  BY Classes DEF Steady
<1>2. /\ frames \subseteq 1..pos /\ reqs \subseteq 1..pos /\ handled \subseteq 1..pos /\ pos \in Nat
      /\ \A i \in DOMAIN out : out[i].id \in 1..pos
  BY Items, Bounds
<1>3. \A i \in Responses' : \/ i \in Responses /\ out'[i] = out[i]
                            \/ i \in New /\ out'[i].form \in {"text", "headers", "data"}
  BY <1>1, OutIs DEF Responses
<1>4. CASE Quiet
  <2>1. UNCHANGED <<reqs, handled>> /\ (New # {} => reqs = {})
    BY <1>4 DEF Quiet
  <2> QED BY <1>3, <2>1 DEF Order
<1>5. ASSUME protocol # "external", NEW n \in Nat \ {0}, Read(n)
      PROVE  Order'
  <2>1. /\ protocol \in {"text", "http2"} /\ New = {} /\ UNCHANGED handled
        /\ protocol = "text" => reqs' = {pos + 1}
        /\ protocol = "http2" => /\ frames' = (pos + 1)..(pos + n)
                                 /\ reqs' = {i \in frames' : sent[i].type = "HEADERS"}
    BY <1>5, ReadFacts
  <2>2. \A q \in reqs' : q \in Nat /\ q > pos
    BY <1>2, <2>1
  <2>3. \A h \in handled', q \in reqs' : h < q
    <3> SUFFICES ASSUME NEW h \in handled', NEW q \in reqs' PROVE h < q
      OBVIOUS
    <3>1. h \in 1..pos /\ q \in Nat /\ q > pos
      BY <1>2, <2>1, <2>2
    <3> QED BY <3>1, <1>2
  <2>4. ASSUME NEW i \in Responses', NEW q \in reqs' PROVE out'[i].id < q
    <3>1. i \in DOMAIN out /\ out'[i] = out[i]
      BY <1>3, <2>1 DEF Responses
    <3> QED BY <1>2, <2>2, <3>1
  <2> QED BY <2>3, <2>4 DEF Order
<1>6. CASE ProcessFrame
  <2>1. PICK id : id = Lowest(frames)
    OBVIOUS
  <2>2. /\ UNCHANGED <<reqs, handled>>
        /\ \A n \in New : out'[n].form \in {"settings", "rst"}
    BY <1>6, <2>1, ProcessFrameFacts
  <2>3. \A i \in Responses' : i \in Responses /\ out'[i] = out[i]
    BY <1>3, <2>2
  <2> QED BY <2>2, <2>3 DEF Order
<1>7. CASE HandleRequest
  <2>1. PICK id : id = Lowest(reqs)
    OBVIOUS
  <2>2. /\ id \in reqs /\ handled' = handled \cup {id} /\ reqs' \subseteq reqs \ {id}
        /\ \A q \in reqs : id <= q
        /\ \A n \in New : out'[n].id = id
    BY <1>7, <2>1, HandleRequestFacts
  <2>3. \A q \in reqs' : id < q
    BY <1>2, <2>2
  <2>4. \A h \in handled', q \in reqs' : h < q
    BY <2>2, <2>3 DEF Order
  <2>5. \A i \in Responses', q \in reqs' : out'[i].id < q
    BY <1>3, <2>2, <2>3 DEF Order
  <2> QED BY <2>4, <2>5 DEF Order
<1> QED BY <1>4, <1>5, <1>6, <1>7, Classes

LEMMA RememberedStep ==
  ASSUME TypeOK, Kinds, Paired, Remembered, [Next]_allVars
  PROVE  Remembered'
<1>1. Steady /\ UNCHANGED checker
  BY Classes DEF Steady, buildVars
<1>2. \A i \in handled : sent'[i] = sent[i]
  BY <1>1, PosGrows, Items
<1>3. ASSUME UNCHANGED <<authed, handled>>
      PROVE  Remembered'
  BY <1>1, <1>2, <1>3 DEF Remembered, GoodCredentials
<1>4. CASE HandleRequest
  <2>1. PICK id : id = Lowest(reqs)
    OBVIOUS
  <2>2. /\ handled' = handled \cup {id} /\ UNCHANGED sent
        /\ authed' <=> authed \/ (checker /\ GoodCredentials(id))
    BY <1>4, <2>1, HandleRequestFacts
  <2> QED BY <1>1, <2>2 DEF Remembered, GoodCredentials
<1>5. ASSUME protocol # "external", NEW n \in Nat \ {0}, Read(n)
      PROVE  UNCHANGED <<authed, handled>>
  BY <1>5, ReadFacts
<1>6. CASE ProcessFrame
  BY <1>3, <1>6 DEF ProcessFrame
<1>7. CASE Quiet
  BY <1>3, <1>7 DEF Quiet
<1> QED BY <1>3, <1>4, <1>5, <1>6, <1>7, Classes


-----------------------------------------------------------------------------
(* The private site.                                                       *)

\* What was proved stays proved.
LEMMA StaySignedIn ==
  ASSUME TypeOK, Kinds, Steady, handled \subseteq handled', NEW id, SignedIn(id)
  PROVE  SignedIn(id)'
<1>1. \A i \in handled : sent'[i] = sent[i]
  BY PosGrows, Items
<1> QED BY <1>1 DEF SignedIn

\* Shut down, or served, by request id.
Granted(id) == id \in shut \/ \E n \in DOMAIN out : out[n].status = 200 /\ out[n].id = id

LEMMA GuardedStep ==
  ASSUME TypeOK, Kinds, Paired, Order, Remembered, Guarded, [Next]_allVars
  PROVE  Guarded'
<1>0. checker => \A id : Granted(id) => SignedIn(id)
  <2> SUFFICES ASSUME checker, NEW id, Granted(id) PROVE SignedIn(id)
    OBVIOUS
  <2>1. id \in shut \cup {out[i].id : i \in {j \in DOMAIN out : out[j].status = 200}}
    BY DEF Granted
  <2> QED BY <2>1, Zenon DEF Guarded
<1>00. (checker' => \A id : Granted(id)' => SignedIn(id)') => Guarded'
  <2>1. \A id \in shut' \cup {out'[i].id : i \in {j \in DOMAIN out' : out'[j].status = 200}} :
          Granted(id)'
    BY DEF Granted
  <2> QED BY <2>1, Zenon DEF Guarded
<1> SUFFICES ASSUME checker, NEW id, Granted(id)'
             PROVE  SignedIn(id)'
  <2>1. UNCHANGED checker
    BY Classes DEF Steady, buildVars
  <2> QED BY <1>00, <2>1
<1>1. Steady /\ OutStep
  BY Classes DEF Steady
<1>2. Granted(id) => SignedIn(id)
  BY <1>0
<1>3. \A n \in DOMAIN out' : (n \in DOMAIN out /\ out'[n] = out[n]) \/ n \in New
  BY <1>1, OutIs
<1>4. ASSUME handled \subseteq handled', id \in shut' => id \in shut,
             \A n \in New : out'[n].id # id \/ out'[n].status # 200
      PROVE  SignedIn(id)'
  <2>1. Granted(id)
    BY <1>3, <1>4 DEF Granted
  <2> QED BY <1>1, <1>2, <1>4, <2>1, StaySignedIn
<1>5. CASE Quiet
  BY <1>4, <1>5 DEF Quiet
<1>6. ASSUME protocol # "external", NEW n \in Nat \ {0}, Read(n)
      PROVE  UNCHANGED <<shut, handled>> /\ New = {}
  BY <1>6, ReadFacts
<1>7. CASE ProcessFrame
  <2>1. PICK next : next = Lowest(frames)
    OBVIOUS
  <2>2. UNCHANGED <<handled, shut>> /\ \A n \in New : out'[n].status = 0
    BY <1>7, <2>1, ProcessFrameFacts
  <2> QED BY <1>4, <2>2
<1>8. CASE HandleRequest
  <2>1. PICK next : next = Lowest(reqs)
    OBVIOUS
  <2>2. /\ next \in reqs /\ UNCHANGED sent /\ handled' = handled \cup {next}
        /\ \A n \in New : out'[n].id = next
        /\ shut' \in {shut, shut \cup {next}}
        /\ shut' # shut \/ (\E n \in New : out'[n].status = 200) => authed'
    BY <1>8, <2>1, HandleRequestFacts
  <2>3. ASSUME authed' PROVE SignedIn(next)'
    <3>0. Remembered' /\ checker'
      BY RememberedStep, Classes DEF Steady, buildVars
    <3>1. PICK i \in handled' : GoodCredentials(i)'
      BY <2>3, <3>0 DEF Remembered
    <3>2. i <= next
      BY <2>2, Items DEF Order
    <3> QED BY <3>1, <3>2, <2>2 DEF SignedIn, GoodCredentials
  <2>4. CASE next # id
    BY <1>4, <2>2, <2>4
  <2>5. CASE UNCHANGED shut /\ \A n \in New : out'[n].status # 200
    BY <1>4, <2>2, <2>5
  <2> QED BY <2>2, <2>3, <2>4, <2>5
<1> QED BY <1>4, <1>5, <1>6, <1>7, <1>8, Classes


-----------------------------------------------------------------------------
(* The streams.                                                            *)

\* What can happen to a connection that speaks http/2.
LEMMA Http2Cases ==
  ASSUME TypeOK, Kinds, Paired, [Next]_allVars, protocol = "http2"
  PROVE  /\ Steady
         /\ \/ UNCHANGED <<pos, streams, frames, reqs, handled, authed, out, process>>
            \/ \E n \in Nat \ {0} : Read(n)
            \/ ProcessFrame
            \/ HandleRequest
<1>1. \A n, cut : ~ReadPart /\ ~ReadSocket(n, cut) /\ ~ReadRest(n, cut)
  BY DEF ReadPart, ReadSocket, ReadRest, Kinds
<1>2. CASE UNCHANGED allVars
  BY <1>2, Classes DEF allVars, vars, webVars, readVars
<1>3. CASE (\E item \in Vocabulary[protocol] : Send(item)) \/ Leave \/ ReadEnd
  BY <1>3, Classes DEF Send, Leave, ReadEnd, readVars
<1> QED BY <1>1, <1>2, <1>3, Classes, NextCases

\* Whether a frame opens its stream does not change.
LEMMA OpensStays ==
  ASSUME TypeOK, Kinds, Steady, NEW j \in 1..pos
  PROVE  Opens(j)' <=> Opens(j)
<1>1. \A i \in 1..pos : sent'[i] = sent[i]
  BY PosGrows
<1>2. \A l \in 1..(j - 1) : l \in 1..pos
  BY Bounds
<1> QED BY <1>1, <1>2 DEF Opens

LEMMA FrameType ==
  ASSUME TypeOK, protocol = "http2", NEW i \in 1..Len(sent)
  PROVE  /\ IsFrame(i) /\ sent[i] \in Frames \cup HeadersFrames
         /\ sent[i].sid \in Nat /\ sent[i].k = "frame"
         /\ sent[i].type = "HEADERS" => sent[i] \in HeadersFrames
<1>1. i \in DOMAIN sent /\ sent[i] \in Vocabulary[protocol]
  BY Items
<1>2. Vocabulary["http2"] \subseteq Frames \cup HeadersFrames
  BY WebServerAssumption
<1>3. sent[i] \in Frames \cup HeadersFrames
  BY <1>1, <1>2
<1>4. sent[i].type = "HEADERS" => sent[i] \in HeadersFrames
  BY <1>3 DEF Frames, FrameTypes
<1>5. sent[i].sid \in Nat /\ sent[i].k = "frame"
  BY <1>3 DEF Frames, HeadersFrames
<1> QED BY <1>1, <1>3, <1>4, <1>5 DEF IsFrame

\* What Opener finds.
LEMMA OpenerIs ==
  ASSUME TypeOK, protocol = "http2", NEW i \in 1..pos
  PROVE  LET o == Opener(sent[i].sid) IN
         /\ o \in 1..pos /\ o <= i /\ sent[o].sid = sent[i].sid /\ Opens(o)
         /\ \A j \in 1..pos : sent[j].sid = sent[i].sid /\ Opens(j) => j = o
<1> DEFINE S == {j \in 1..pos : IsFrame(j) /\ sent[j].sid = sent[i].sid}
           o == Opener(sent[i].sid)
<1>0. /\ \A j \in 1..pos : j \in Nat /\ IsFrame(j) /\ j \in 1..Len(sent)
      /\ pos \in Nat
  BY Items, FrameType
<1>1. S \subseteq Nat /\ i \in S
  BY <1>0
<1>2. o = Lowest(S)
  BY DEF Opener
<1>3. o \in S /\ \A j \in S : o <= j
  BY <1>1, <1>2, LowestIs
<1> HIDE DEF o
<1>4. Opens(o)
  <2> SUFFICES ASSUME NEW l \in 1..(o - 1), sent[l].sid = sent[o].sid PROVE FALSE
    BY DEF Opens
  <2>1. o \in 1..pos /\ l \in 1..pos /\ l < o
    BY <1>0, <1>3
  <2>2. l \in S
    BY <1>0, <1>3, <2>1
  <2> QED BY <1>3, <2>1, <2>2
<1>5. ASSUME NEW j \in 1..pos, sent[j].sid = sent[i].sid, Opens(j) PROVE j = o
  <2>1. j \in S /\ o \in 1..pos
    BY <1>0, <1>3, <1>5
  <2>2. o <= j
    BY <1>3, <2>1
  <2>3. ASSUME o < j PROVE FALSE
    <3>1. o \in 1..(j - 1)
      BY <1>0, <2>1, <2>3
    <3> QED BY <3>1, <1>3, <1>5 DEF Opens
  <2> QED BY <1>0, <2>1, <2>2, <2>3
<1>6. o \in 1..pos /\ o <= i /\ sent[o].sid = sent[i].sid
  BY <1>1, <1>3
<1> QED BY <1>4, <1>5, <1>6 DEF o


LEMMA StreamedStep ==
  ASSUME TypeOK, Kinds, Paired, Streamed, [Next]_allVars
  PROVE  Streamed'
<1> SUFFICES ASSUME protocol = "http2" PROVE Streamed'
  BY Classes DEF Steady, buildVars, Streamed
<1>1. Steady /\ UNCHANGED protocol
  BY Classes DEF Steady, buildVars
<1>2. /\ pos \in Nat /\ frames \subseteq 1..pos
      /\ \A i \in 1..pos : i \in Nat /\ sent'[i] = sent[i]
  BY <1>1, PosGrows, Items
<1>3. \A j \in 1..pos : Opens(j)' <=> Opens(j)
  BY <1>1, OpensStays
<1>4. /\ \A i \in 1..pos \ frames : StreamsOf(sent[i].sid) # {}
      /\ \A i \in 1..pos \ frames, k \in frames : i < k
      /\ \A n \in DOMAIN streams : \E j \in 1..pos \ frames :
           Opens(j) /\ sent[j].sid = streams[n].sid /\ sent[j].type = streams[n].type
      /\ \A n, m \in DOMAIN streams, i, j \in 1..pos :
           /\ n < m /\ Opens(i) /\ Opens(j)
           /\ sent[i].sid = streams[n].sid /\ sent[j].sid = streams[m].sid
           => i < j
  BY DEF Streamed
<1>5. ASSUME UNCHANGED <<streams, pos, frames>>
      PROVE  Streamed'
  <2>1. \A i \in 1..pos \ frames : StreamsOf(sent[i].sid)' # {}
    BY <1>2, <1>4, <1>5 DEF StreamsOf
  <2>2. \A l \in DOMAIN streams : \E j \in 1..pos \ frames :
          Opens(j)' /\ sent'[j].sid = streams[l].sid /\ sent'[j].type = streams[l].type
    <3> TAKE l \in DOMAIN streams
    <3>1. PICK j \in 1..pos \ frames :
            Opens(j) /\ sent[j].sid = streams[l].sid /\ sent[j].type = streams[l].type
      BY <1>4
    <3> QED BY <3>1, <1>2, <1>3
  <2>3. \A l, m \in DOMAIN streams, i, j \in 1..pos :
          /\ l < m /\ Opens(i)' /\ Opens(j)'
          /\ sent'[i].sid = streams[l].sid /\ sent'[j].sid = streams[m].sid
          => i < j
    BY <1>2, <1>3, <1>4
  <2>4. \A i \in 1..pos \ frames, k \in frames : i < k
    BY <1>4
  <2> QED BY <1>1, <1>5, <2>1, <2>2, <2>3, <2>4 DEF Streamed
<1>6. ASSUME NEW n \in Nat \ {0}, Read(n)
      PROVE  Streamed'
  <2>1. /\ frames = {} /\ pos' = pos + n /\ UNCHANGED <<streams, sent>>
        /\ frames' = (pos + 1)..(pos + n)
    BY <1>6, ReadFacts
  <2>2. 1..pos' \ frames' = 1..pos /\ 1..pos \subseteq 1..pos'
    BY <2>1, <1>2
  <2>3. \A i \in 1..pos : StreamsOf(sent[i].sid)' # {}
    BY <1>4, <2>1 DEF StreamsOf
  <2>4. \A i \in 1..pos, k \in frames' : i < k
    BY <1>2, <2>1
  <2>5. \A l \in DOMAIN streams : \E j \in 1..pos :
          Opens(j)' /\ sent[j].sid = streams[l].sid /\ sent[j].type = streams[l].type
    BY <1>3, <1>4
  <2>6. ASSUME NEW l \in DOMAIN streams, NEW m \in DOMAIN streams,
               NEW i \in 1..pos', NEW j \in 1..pos', l < m, Opens(i)', Opens(j)',
               sent[i].sid = streams[l].sid, sent[j].sid = streams[m].sid
        PROVE  i < j
    <3>1. ASSUME NEW k \in 1..pos', Opens(k)', NEW s \in DOMAIN streams, sent[k].sid = streams[s].sid
          PROVE  k \in 1..pos
      <4>1. PICK o \in 1..pos : sent[o].sid = streams[s].sid
        BY <1>4
      <4>2. ASSUME k > pos PROVE FALSE
        <5>1. o \in 1..(k - 1)
          BY <1>2, <2>1, <4>2
        <5> QED BY <3>1, <4>1, <5>1, <2>1 DEF Opens
      <4> QED BY <4>2, <1>2, <2>1
    <3>2. i \in 1..pos /\ j \in 1..pos
      BY <2>6, <3>1
    <3> QED BY <2>6, <3>2, <1>3, <1>4
  <2> QED BY <1>1, <2>1, <2>2, <2>3, <2>4, <2>5, <2>6 DEF Streamed
<1>7. CASE ProcessFrame
  <2>1. PICK id : id = Lowest(frames)
    OBVIOUS
  <2>2. /\ id \in frames /\ \A k \in frames : id <= k
        /\ UNCHANGED <<sent, pos>>
        /\ \/ UNCHANGED <<streams, frames>>
           \/ /\ frames' = frames \ {id} /\ UNCHANGED streams
              /\ StreamsOf(sent[id].sid) # {}
           \/ /\ frames' = frames \ {id}
              /\ StreamsOf(sent[id].sid) = {} /\ sent[id].type \in Opening
              /\ streams' = Append(streams, [sid |-> sent[id].sid, type |-> sent[id].type])
    BY <1>7, <2>1, ProcessFrameFacts
  <2>3. id \in 1..pos
    BY <2>2, <1>2
  <2>4. ASSUME frames' = frames \ {id}
        PROVE  /\ 1..pos' \ frames' = (1..pos \ frames) \cup {id}
               /\ \A i \in 1..pos' \ frames', k \in frames' : i < k
    <3>1. 1..pos' \ frames' = (1..pos \ frames) \cup {id}
      BY <2>2, <2>3, <2>4
    <3>2. \A k \in frames' : id < k
      BY <1>2, <2>2, <2>3, <2>4
    <3> QED BY <3>1, <3>2, <1>4, <2>4
  <2>5. CASE UNCHANGED <<streams, frames>>
    BY <1>5, <2>2, <2>5
  <2>6. CASE /\ frames' = frames \ {id} /\ UNCHANGED streams
             /\ StreamsOf(sent[id].sid) # {}
    <3>1. \A i \in 1..pos' \ frames' : StreamsOf(sent'[i].sid) # {}
      BY <1>2, <1>4, <2>2, <2>3, <2>4, <2>6
    <3>2. \A i \in 1..pos' \ frames' : StreamsOf(sent[i].sid)' # {}
      BY <3>1, <2>2, <2>6 DEF StreamsOf
    <3> QED BY <1>1, <1>3, <1>4, <2>2, <2>4, <2>6, <3>2 DEF Streamed
  <2>7. CASE /\ frames' = frames \ {id}
             /\ StreamsOf(sent[id].sid) = {} /\ sent[id].type \in Opening
             /\ streams' = Append(streams, [sid |-> sent[id].sid, type |-> sent[id].type])
    <3> DEFINE s == [sid |-> sent[id].sid, type |-> sent[id].type]
               N == Len(streams)
    <3>1. s \in [sid : Nat, type : Opening] /\ s.sid = sent[id].sid /\ s.type = sent[id].type
      BY <2>3, <2>7, Items, FrameType
    <3>2. streams' = Append(streams, s) /\ streams \in Seq([sid : Nat, type : Opening])
      BY <2>7 DEF TypeOK, SocketTypeOK, WebTypeOK
    <3> HIDE DEF s
    <3>3. /\ N \in Nat /\ DOMAIN streams = 1..N /\ DOMAIN streams' = 1..(N + 1)
          /\ \A m \in DOMAIN streams : streams'[m] = streams[m]
          /\ streams'[N + 1] = s
      <4>1. /\ streams' \in Seq([sid : Nat, type : Opening]) /\ Len(streams') = N + 1
            /\ \A m \in 1..N : streams'[m] = streams[m]
            /\ streams'[N + 1] = s
        BY <3>1, <3>2, AppendProperties
      <4> QED BY <4>1, StreamFacts, LenProperties
    <3> HIDE DEF N
    <3>4. \A m \in DOMAIN streams' : m \in DOMAIN streams \/ m = N + 1
      BY <3>3
    <3>5. \A m \in DOMAIN streams : m \in DOMAIN streams'
      BY <3>3
    <3>6. StreamsOf(sent[id].sid)' # {}
      <4>1. N + 1 \in DOMAIN streams' /\ streams'[N + 1].sid = sent[id].sid
        BY <3>1, <3>3
      <4> QED BY <4>1, <2>2 DEF StreamsOf
    <3>7. \A i \in 1..pos' \ frames' : StreamsOf(sent[i].sid)' # {}
      <4> SUFFICES ASSUME NEW i \in 1..pos' \ frames', i # id
                   PROVE  StreamsOf(sent[i].sid)' # {}
        BY <3>6
      <4>1. StreamsOf(sent[i].sid) # {}
        BY <1>4, <2>4, <2>7
      <4>2. PICK m \in DOMAIN streams : streams[m].sid = sent[i].sid
        BY <4>1 DEF StreamsOf
      <4>3. m \in DOMAIN streams' /\ streams'[m].sid = sent'[i].sid
        BY <2>2, <3>3, <3>5, <4>2
      <4> QED BY <4>3 DEF StreamsOf
    <3>8. Opens(id)
      <4>1. ASSUME NEW l \in 1..(id - 1) PROVE l \in 1..pos \ frames
        <5>1. l < id /\ l \in 1..pos
          BY <2>3, <1>2
        <5> QED BY <5>1, <2>2, <1>2
      <4> QED BY <4>1, <1>4, <2>7 DEF Opens
    <3>9. \A m \in DOMAIN streams' : \E j \in 1..pos' \ frames' :
            Opens(j)' /\ sent[j].sid = streams'[m].sid /\ sent[j].type = streams'[m].type
      <4> TAKE m \in DOMAIN streams'
      <4>1. CASE m \in DOMAIN streams
        BY <1>3, <1>4, <2>2, <2>4, <2>7, <3>3, <4>1
      <4>2. CASE m = N + 1
        <5>1. id \in 1..pos' \ frames' /\ Opens(id)'
          BY <1>3, <2>2, <2>3, <2>4, <2>7, <3>8
        <5> QED BY <5>1, <3>1, <3>3, <4>2
      <4> QED BY <3>4, <4>1, <4>2
    <3>10. ASSUME NEW l \in DOMAIN streams', NEW m \in DOMAIN streams',
                  NEW i \in 1..pos, NEW j \in 1..pos, l < m, Opens(i), Opens(j),
                  sent[i].sid = streams'[l].sid, sent[j].sid = streams'[m].sid
           PROVE  i < j
      <4>1. CASE m \in DOMAIN streams
        <5>1. l \in DOMAIN streams
          BY <3>3, <3>10, <4>1
        <5> QED BY <1>4, <3>3, <3>10, <4>1, <5>1
      <4>2. CASE m = N + 1
        <5>1. l \in DOMAIN streams /\ streams'[l] = streams[l]
          BY <3>3, <3>10, <4>2
        <5>2. PICK o \in 1..pos \ frames : Opens(o) /\ sent[o].sid = streams[l].sid
          BY <1>4, <5>1
        <5>3. i = o
          BY <3>10, <5>1, <5>2, OpenerIs
        <5>4. j = id
          BY <2>3, <3>1, <3>3, <3>8, <3>10, <4>2, OpenerIs
        <5> QED BY <5>2, <5>3, <5>4, <1>4, <2>2
      <4> QED BY <3>4, <4>1, <4>2
    <3>11. \A l, m \in DOMAIN streams', i, j \in 1..pos' :
             /\ l < m /\ Opens(i)' /\ Opens(j)'
             /\ sent'[i].sid = streams'[l].sid /\ sent'[j].sid = streams'[m].sid
             => i < j
      BY <1>3, <2>2, <3>10
    <3> QED BY <1>1, <2>2, <2>4, <2>7, <3>7, <3>9, <3>11 DEF Streamed
  <2> QED BY <2>2, <2>5, <2>6, <2>7
<1>8. CASE HandleRequest
  BY <1>5, <1>8 DEF HandleRequest
<1>9. CASE UNCHANGED <<pos, streams, frames, reqs, handled, authed, out, process>>
  BY <1>5, <1>9
<1> QED BY <1>6, <1>7, <1>8, <1>9, Http2Cases


-----------------------------------------------------------------------------
(* What the handler of a request says, and what ends the process.          *)

\* What is answered to each kind of request.
LEMMA RequestCases ==
  ASSUME TypeOK, Kinds, HandleRequest, NEW id, id = Lowest(reqs)
  PROVE  \/ sent[id].path = "garbled" /\ Reply(id, 400, 1)
         \/ sent[id].path # "garbled" /\ checker /\ ~authed' /\ Reply(id, 401, 1)
         \/ /\ sent[id].path = "shutdown" /\ (checker => authed')
            /\ \E status \in Statuses : Reply(id, status, 1)
         \/ /\ sent[id].path \notin {"shutdown", "garbled"} /\ (checker => authed')
            /\ sent[id].method # "FORM"
            /\ \E status \in Statuses, pieces \in Nat :
                 Reply(id, status, pieces) /\ (pieces = 0 <=> Bare(id))
         \/ /\ sent[id].path \notin {"shutdown", "garbled"} /\ (checker => authed')
            /\ sent[id].method = "FORM" /\ UNCHANGED <<out, process>>
<1>1. process = "up" /\ id \in reqs
  BY HandleRequestFacts
<1>2. IF sent[id].path = "garbled" THEN Reply(id, 400, 1) ELSE Handle(id)
  BY DEF HandleRequest
<1>3. CASE sent[id].path = "garbled"
  BY <1>2, <1>3
<1>4. CASE sent[id].path # "garbled"
  <2>1. Handle(id)
    BY <1>2, <1>4
  <2> QED BY <1>1, <1>4, <2>1, HandlerFacts
<1> QED BY <1>3, <1>4

LEMMA ReplyDies ==
  ASSUME Kinds, process = "up", process' = "dead",
         NEW id, NEW status, NEW pieces \in Nat, Reply(id, status, pieces)
  PROVE  (debug /\ peer = "gone") \/ (sent[id].k # "text" /\ StreamsOf(0) = {})
<1>1. IsSeq(out)
  BY DEF Kinds
<1>2. CASE WriteText(id, status)
  BY <1>1, <1>2, TextFacts
<1>3. CASE sent[id].k # "text" /\ WriteFrames(id, status, pieces)
  BY <1>1, <1>3, FramesFacts
<1> QED BY <1>2, <1>3 DEF Reply

LEMMA RequestDies ==
  ASSUME TypeOK, Kinds, HandleRequest, process' = "dead"
  PROVE  \/ debug /\ peer = "gone"
         \/ /\ protocol = "http2" /\ StreamsOf(0) = {} /\ frames = {}
            /\ \E id \in 1..pos : sent[id].type = "HEADERS"
<1>1. PICK id : id = Lowest(reqs)
  OBVIOUS
<1>2. process = "up" /\ id \in reqs /\ frames = {}
  BY <1>1, HandleRequestFacts
<1>3. \E status : \E pieces \in Nat : Reply(id, status, pieces)
  <2>1. \/ UNCHANGED <<out, process>> \/ Reply(id, 400, 1) \/ Reply(id, 401, 1)
        \/ \E status \in Statuses : Reply(id, status, 1)
        \/ \E status \in Statuses, pieces \in Nat : Reply(id, status, pieces)
    BY <1>1, RequestCases
  <2>2. 1 \in Nat
    OBVIOUS
  <2> QED BY <2>1, <2>2, <1>2
<1>4. (debug /\ peer = "gone") \/ (sent[id].k # "text" /\ StreamsOf(0) = {})
  BY <1>2, <1>3, ReplyDies
<1>5. sent[id].k # "text" => protocol = "http2" /\ id \in 1..pos /\ sent[id].type = "HEADERS"
  BY <1>2, RequestType DEF Kinds
<1> QED BY <1>2, <1>4, <1>5

LEMMA SurvivesStep ==
  ASSUME TypeOK, Kinds, Paired, Streamed, Survives, [Next]_allVars
  PROVE  Survives'
<1>1. /\ Steady /\ UNCHANGED <<protocol, debug>> /\ pos \in Nat
      /\ process \in {"up", "dead"} /\ peer' \in {peer, "gone"}
  BY Classes, Bounds DEF Steady, buildVars
<1>2. /\ 1..pos \subseteq 1..pos' /\ pos' \in Nat
      /\ \A i \in 1..pos : i \in 1..Len(sent) /\ sent'[i] = sent[i]
      /\ \A i \in 1..Len(sent) : sent'[i] = sent[i]
  BY <1>1, PosGrows
<1> SUFFICES ASSUME process' = "dead" PROVE Survives'
  BY DEF Survives
<1>3. CASE UNCHANGED allVars
  <2>1. /\ UNCHANGED <<process, protocol, conn, fwd, ended, sent, pos, debug, peer, split>>
    BY <1>3 DEF allVars, vars, webVars, buildVars, readVars, socketVars, pairVars
  <2>2. Provoked' <=> Provoked
    BY <2>1 DEF Provoked, IsFrame, Opener
  <2>3. Excused' <=> Excused
    BY <2>1, <2>2 DEF Excused
  <2> QED BY <2>1, <2>3 DEF Survives
<1>4. ASSUME protocol = "external",
             \/ conn' = "closed" /\ (fwd' # <<>> \/ ended' # {})
             \/ debug /\ peer = "gone"
             \/ \E id \in 1..pos' : sent'[id].k = "frame"
      PROVE  Survives'
  BY <1>1, <1>4 DEF Survives
<1>5. ASSUME protocol = "websocket", debug,
             peer = "gone" \/ split' \/ \E i \in 1..pos' : /\ sent'[i].k = "ws"
                                                          /\ sent'[i].op \in {"ping", "pong"}
      PROVE  Survives'
  BY <1>1, <1>5 DEF Survives, Excused
<1>6. ASSUME protocol \in {"text", "http2"}, Provoked'
      PROVE  Survives'
  BY <1>1, <1>6 DEF Survives, Excused
<1>7. ASSUME protocol \in {"text", "http2"}, debug, peer = "gone"
      PROVE  Survives'
  <2>1. Provoked'
    BY <1>1, <1>7 DEF Provoked
  <2> QED BY <1>6, <1>7, <2>1
<1>8. CASE (\E item \in Vocabulary[protocol] : Send(item)) \/ Leave \/ ReadEnd
  BY <1>8 DEF Send, Leave, ReadEnd, Idle, Serving
<1>9. CASE ReadPart
  BY <1>7, <1>9, ReadPartFacts
<1>10. CASE ProcessFrame
  <2>1. PICK id : id = Lowest(frames)
    OBVIOUS
  <2>2. /\ protocol = "http2" /\ id \in frames /\ UNCHANGED <<sent, pos>>
        /\ \A k \in frames : id <= k
        /\ StreamsOf(sent[id].sid) = {} /\ sent[id].type \notin Opening
    BY <1>10, <2>1, ProcessFrameFacts
  <2>3. id \in 1..pos /\ id \in Nat /\ IsFrame(id)
    BY <2>2, Items, FrameType
  <2>4. Opens(id)
    <3>1. ASSUME NEW l \in 1..(id - 1) PROVE l \in 1..pos \ frames
      <4>1. l < id /\ l \in 1..pos
        BY <2>3, <1>1
      <4> QED BY <4>1, <2>2, <2>3
    <3> QED BY <3>1, <2>2 DEF Streamed, Opens
  <2>5. Opener(sent[id].sid) = id
    BY <2>2, <2>3, <2>4, OpenerIs
  <2>6. Provoked
    BY <2>2, <2>3, <2>5 DEF Provoked
  <2>7. Provoked'
    <3>1. UNCHANGED <<sent, pos, protocol, debug, peer>>
      BY <1>10 DEF ProcessFrame, buildVars
    <3> QED BY <2>6, <3>1 DEF Provoked, IsFrame, Opener
  <2> QED BY <1>6, <2>2, <2>7
<1>11. CASE HandleRequest
  <2>1. UNCHANGED <<sent, pos, protocol, debug, peer>> /\ protocol \in {"text", "http2"}
    BY <1>11 DEF HandleRequest, buildVars, Kinds
  <2>2. CASE debug /\ peer = "gone"
    BY <1>7, <2>1, <2>2
  <2>3. CASE /\ protocol = "http2" /\ StreamsOf(0) = {} /\ frames = {}
             /\ \E id \in 1..pos : sent[id].type = "HEADERS"
    <3>1. PICK id \in 1..pos : sent[id].type = "HEADERS"
      BY <2>3
    <3>2. ASSUME NEW j \in 1..id PROVE sent[j].sid # 0
      <4>1. j \in 1..pos \ frames
        BY <2>3, <1>1
      <4> QED BY <4>1, <2>3 DEF Streamed
    <3>3. IsFrame(id)
      BY <2>3, Items, FrameType
    <3>4. Provoked
      BY <3>1, <3>2, <3>3 DEF Provoked
    <3>5. Provoked'
      BY <3>4, <2>1 DEF Provoked, IsFrame, Opener
    <3> QED BY <1>6, <2>1, <3>5
  <2> QED BY <1>11, <2>2, <2>3, RequestDies
<1>12. ASSUME protocol # "external", NEW n \in Nat \ {0}, Read(n)
       PROVE  FALSE
  BY <1>12, ReadFacts
<1>13. ASSUME NEW n \in Nat, NEW cut \in BOOLEAN, ReadSocket(n, cut)
       PROVE  Survives'
  <2>1. /\ protocol = "websocket" /\ debug /\ pos + 1 \in 1..pos' /\ pos + 1 \in 1..Len(sent)
        /\ \/ peer = "gone" \/ split'
           \/ sent[pos + 1].k = "ws" /\ sent[pos + 1].op \in {"ping", "pong"}
    BY <1>13, ReadSocketFacts
  <2> QED BY <1>2, <1>5, <2>1
<1>14. ASSUME NEW n \in Nat, NEW cut \in BOOLEAN, ReadRest(n, cut)
       PROVE  Survives'
  <2>1. protocol = "websocket" /\ debug /\ split' = TRUE
    BY <1>14, ReadRestFacts
  <2> QED BY <1>5, <2>1
<1>15. ASSUME protocol = "external", NEW n \in Nat \ {0}, ReadRelay(n)
       PROVE  Survives'
  <2>1. /\ pos' = pos + n
        /\ (sent[pos + 1].k = "frame") \/ (debug /\ peer = "gone")
    <3>1. /\ pos' = pos + n
          /\ process' = "dead" => \/ sent[pos + 1].k = "frame"
                                  \/ debug /\ peer = "gone"
      BY <1>15, ReadRelayFacts
    <3> QED BY <3>1
  <2>2. pos + 1 \in 1..pos' /\ pos + 1 \in 1..Len(sent)
    <3>1. pos + n <= Len(sent) /\ Len(sent) \in Nat
      BY <1>15, Bounds DEF ReadRelay
    <3> QED BY <2>1, <3>1, <1>1
  <2> QED BY <1>2, <1>4, <1>15, <2>1, <2>2
<1>16. ASSUME protocol = "external", ReadExternal \/ ExternalCloses \/ ReadExternalEnd
       PROVE  Survives'
  <2>1. conn = "closed" /\ site # "none" /\ UNCHANGED <<conn, fwd>> /\ ended \subseteq ended'
    BY <1>16, ExternalFacts DEF Rest, ReadExternal, ExternalCloses, ReadExternalEnd
  <2>2. fwd # <<>> \/ ended # {}
    BY <2>1 DEF Paired
  <2>3. conn' = "closed" /\ (fwd' # <<>> \/ ended' # {})
    BY <2>1, <2>2
  <2> QED BY <1>4, <1>16, <2>3
<1> QED BY <1>3, <1>8, <1>9, <1>10, <1>11, <1>12, <1>13, <1>14, <1>15, <1>16, NextCases


-----------------------------------------------------------------------------
(* What a relay forwards.                                                  *)

\* The pieces of what the peer sent that are accounted for.
Received(id) == \E i \in DOMAIN fwd : fwd[i].id = id
LateOnes(id) == id \in dropped /\ ended # {}
ToldOf(id) ==
  \E i \in DOMAIN out :
    out[i].form = "text" /\ out[i].id <= id /\ \A j \in DOMAIN fwd : fwd[j].id \notin out[i].id..id

LinksInOrder ==
  \A i, j \in DOMAIN fwd : i < j /\ fwd[i].link # fwd[j].link => fwd[i].link \in ended
AnswersInOrder ==
  \A i, j \in DOMAIN out :
    i < j /\ out[i].form = "external" /\ out[j].form = "external" => out[i].id < out[j].id

LEMMA ForwardedIs ==
  ASSUME Paired
  PROVE  Forwarded <=>
           (protocol = "external" =>
              /\ LinksInOrder /\ AnswersInOrder
              /\ process = "up" /\ peer = "here" =>
                   \A id \in 1..pos : Received(id) \/ LateOnes(id) \/ ToldOf(id))
<1>1. \A i, k \in DOMAIN fwd : i < k => fwd[i].id < fwd[k].id
  BY DEF Paired
<1> QED BY <1>1 DEF Forwarded, LinksInOrder, AnswersInOrder, Received, LateOnes, ToldOf

\* A relay goes on with one step of its own, or does nothing of it.
LEMMA RelayCases ==
  ASSUME TypeOK, Kinds, Paired, protocol = "external", [Next]_allVars
  PROVE  /\ Steady
         /\ \/ UNCHANGED <<pos, out, process, fwd, dropped, ended, done>> /\ peer' \in {peer, "gone"}
            \/ \E n \in Nat \ {0} : ReadRelay(n)
            \/ ReadExternal
            \/ ExternalCloses
            \/ ReadExternalEnd
<1>0. Steady
  BY Classes
<1>1. \A n, cut : /\ ~ReadPart /\ ~ReadSocket(n, cut) /\ ~ReadRest(n, cut)
                  /\ ~ProcessFrame /\ ~HandleRequest
  BY DEF ReadPart, ReadSocket, ReadRest, ProcessFrame, HandleRequest, Kinds
<1>2. CASE UNCHANGED allVars
  BY <1>0, <1>2 DEF allVars, vars, webVars, readVars, pairVars
<1>3. CASE /\ (\E item \in Vocabulary[protocol] : Send(item)) \/ Leave \/ ReadEnd
           /\ UNCHANGED pairVars
  BY <1>0, <1>3 DEF Send, Leave, ReadEnd, readVars, pairVars
<1> QED BY <1>0, <1>1, <1>2, <1>3, NextCases

\* What was accounted for stays so.
LEMMA StayAccounted ==
  ASSUME TypeOK, Kinds, Paired, Steady, NEW id \in 1..pos,
         DOMAIN fwd \subseteq DOMAIN fwd', \A i \in DOMAIN fwd : fwd'[i] = fwd[i],
         \A i \in DOMAIN fwd' \ DOMAIN fwd : fwd'[i].id \in Nat /\ fwd'[i].id > pos,
         dropped \subseteq dropped', ended \subseteq ended',
         Received(id) \/ LateOnes(id) \/ ToldOf(id)
  PROVE  Received(id)' \/ LateOnes(id)' \/ ToldOf(id)'
<1>1. CASE Received(id)
  BY <1>1 DEF Received
<1>2. CASE LateOnes(id)
  BY <1>2 DEF LateOnes
<1>3. CASE ToldOf(id)
  <2>1. PICK i \in DOMAIN out :
          /\ out[i].form = "text" /\ out[i].id <= id
          /\ \A j \in DOMAIN fwd : fwd[j].id \notin out[i].id..id
    BY <1>3 DEF ToldOf
  <2>2. i \in DOMAIN out' /\ out'[i] = out[i]
    BY DEF Steady, OutStep
  <2>3. out[i].id \in Nat /\ id <= pos /\ id \in Nat /\ pos \in Nat
    BY Bounds
  <2>4. \A j \in DOMAIN fwd' : fwd'[j].id \notin out[i].id..id
    <3> TAKE j \in DOMAIN fwd'
    <3>1. CASE j \in DOMAIN fwd
      BY <2>1, <3>1
    <3>2. CASE j \notin DOMAIN fwd
      <4>1. fwd'[j].id \in Nat /\ fwd'[j].id > pos
        BY <3>2
      <4> QED BY <4>1, <2>3
    <3> QED BY <3>1, <3>2
  <2> QED BY <2>1, <2>2, <2>4 DEF ToldOf
<1> QED BY <1>1, <1>2, <1>3

LEMMA AnswersInOrderStep ==
  ASSUME TypeOK, Kinds, Paired, protocol = "external", AnswersInOrder, [Next]_allVars
  PROVE  AnswersInOrder'
<1>1. Steady /\ OutStep
  BY Classes DEF Steady
<1>2. \A n \in DOMAIN out' : (n \in DOMAIN out /\ out'[n] = out[n]) \/ n \in New
  BY <1>1, OutIs
<1>3. ASSUME \A n \in New : out'[n].form # "external"
      PROVE  AnswersInOrder'
  BY <1>2, <1>3 DEF AnswersInOrder
<1>4. CASE ReadExternal
  <2>1. /\ done < Len(fwd)
        /\ \A n \in New : out'[n].id = fwd[done + 1].id
    BY <1>4, ExternalFacts DEF ReadExternal
  <2>2. done + 1 \in DOMAIN fwd /\ done + 1 > done
    BY <2>1, FwdFacts
  <2>3. \A i \in DOMAIN out : out[i].form = "external" => out[i].id < fwd[done + 1].id
    BY <2>2 DEF Paired
  <2>4. \A n, m \in New : n = m
    <3>1. CASE conn = "open"
      <4>1. Write(<<Answer("external", 0, fwd[done + 1].id, 0, TRUE)>>)
        BY <1>4, <3>1 DEF ReadExternal
      <4>2. IsSeq(out)
        BY DEF Kinds
      <4>3. \A n \in New : n = Len(out) + 1
        BY <4>1, <4>2, WriteOne
      <4> QED BY <4>3
    <3>2. CASE conn # "open"
      <4>1. UNCHANGED out
        BY <1>4, <3>2 DEF ReadExternal, Die
      <4> QED BY <4>1 DEF New
    <3> QED BY <3>1, <3>2
  <2>5. ASSUME NEW i \in DOMAIN out', NEW j \in DOMAIN out', i < j,
               out'[i].form = "external", out'[j].form = "external"
        PROVE  out'[i].id < out'[j].id
    <3>1. CASE i \in DOMAIN out /\ j \in DOMAIN out
      BY <1>1, <2>5, <3>1 DEF OutStep, AnswersInOrder
    <3>2. CASE i \in DOMAIN out /\ j \in New
      BY <1>1, <2>1, <2>3, <2>5, <3>2 DEF OutStep
    <3>3. CASE i \in New
      <4>1. /\ DOMAIN out' = 1..Len(out') /\ Len(out') \in Nat
        BY <1>1, SeqFacts DEF OutStep
      <4>2. i \in Nat /\ j \in Nat
        BY <4>1
      <4>3. CASE j \in DOMAIN out
        <5>1. j < i
          BY <1>1, <3>3, <4>3 DEF OutStep
        <5> QED BY <5>1, <4>2, <2>5
      <4>4. CASE j \in New
        <5>1. i = j
          BY <2>4, <3>3, <4>4
        <5> QED BY <5>1, <4>2, <2>5
      <4> QED BY <4>3, <4>4, <1>2
    <3> QED BY <1>2, <3>1, <3>2, <3>3
  <2> QED BY <2>5 DEF AnswersInOrder
<1>5. CASE ExternalCloses \/ ReadExternalEnd
  <2>1. ~ReadExternal
    BY <1>5 DEF ReadExternal, ExternalCloses, ReadExternalEnd
  <2>2. New = {}
    BY <1>5, <2>1, ExternalFacts
  <2> QED BY <1>3, <2>2
<1>6. ASSUME NEW n \in Nat \ {0}, ReadRelay(n)
      PROVE  \A m \in New : out'[m].form # "external"
  BY <1>6, ReadRelayFacts
<1>7. CASE UNCHANGED out
  BY <1>3, <1>7 DEF New
<1> QED BY <1>3, <1>4, <1>5, <1>6, <1>7, RelayCases


LEMMA LinksInOrderStep ==
  ASSUME TypeOK, Kinds, Paired, protocol = "external", LinksInOrder, [Next]_allVars
  PROVE  LinksInOrder'
<1>1. /\ Len(fwd) \in Nat /\ DOMAIN fwd = 1..Len(fwd)
      /\ \A i \in DOMAIN fwd : fwd[i].link \in 1..Link
      /\ Link \in Nat \ {0} /\ ended = 1..(Link - 1)
  BY FwdFacts
<1>2. ASSUME UNCHANGED fwd, ended \subseteq ended'
      PROVE  LinksInOrder'
  BY <1>2 DEF LinksInOrder
<1>3. ASSUME NEW n \in Nat \ {0}, ReadRelay(n)
      PROVE  LinksInOrder'
  <2>1. CASE Forwards(n)
    <3>1. /\ DOMAIN fwd' = 1..(Len(fwd) + n)
          /\ \A i \in DOMAIN fwd : fwd'[i] = fwd[i]
          /\ \A i \in DOMAIN fwd' \ DOMAIN fwd :
               fwd'[i] = [id |-> pos + (i - Len(fwd)), link |-> Link]
      BY <2>1, ForwardsFacts
    <3>2. \A i \in DOMAIN fwd' \ DOMAIN fwd : fwd'[i].link = Link
      BY <3>1
    <3>3. ended' = ended
      BY <2>1 DEF Forwards
    <3>4. ASSUME NEW i \in DOMAIN fwd', NEW j \in DOMAIN fwd', i < j, fwd'[i].link # fwd'[j].link
          PROVE  fwd'[i].link \in ended
      <4>1. CASE i \in DOMAIN fwd /\ j \in DOMAIN fwd
        BY <3>1, <3>4, <4>1 DEF LinksInOrder
      <4>2. CASE i \in DOMAIN fwd /\ j \notin DOMAIN fwd
        <5>1. fwd'[i].link \in 1..Link /\ fwd'[i].link # Link
          BY <1>1, <3>1, <3>2, <3>4, <4>2
        <5> QED BY <5>1, <1>1
      <4>3. CASE i \notin DOMAIN fwd
        <5>1. j \notin DOMAIN fwd
          BY <1>1, <3>1, <3>4, <4>3
        <5> QED BY <5>1, <3>2, <3>4, <4>3
      <4> QED BY <4>1, <4>2, <4>3
    <3> QED BY <3>3, <3>4 DEF LinksInOrder
  <2>2. CASE Drops(n) \/ Refuses
    BY <1>2, <2>2 DEF Drops, Refuses, pairVars
  <2>3. CASE Loses(n) \/ Fails
    BY <1>2, <2>3 DEF Loses, Fails, Over
  <2> QED BY <1>3, <2>1, <2>2, <2>3, ReadRelayFacts
<1>4. CASE ReadExternal \/ ExternalCloses \/ ReadExternalEnd
  BY <1>2, <1>4 DEF ReadExternal, ExternalCloses, ReadExternalEnd
<1> QED BY <1>2, <1>3, <1>4, RelayCases

LEMMA ForwardedStep ==
  ASSUME TypeOK, Kinds, Paired, Forwarded, [Next]_allVars
  PROVE  Forwarded'
<1>0. Paired' /\ UNCHANGED protocol /\ Steady
  BY PairedStep, Classes DEF Steady, buildVars
<1>1. ASSUME LinksInOrder', AnswersInOrder',
             process' = "up" /\ peer' = "here" =>
               \A id \in 1..pos' : Received(id)' \/ LateOnes(id)' \/ ToldOf(id)'
      PROVE  Forwarded'
  <2>1. \A i, k \in DOMAIN fwd' : i < k => fwd'[i].id < fwd'[k].id
    BY <1>0 DEF Paired
  <2> QED BY <1>1, <2>1 DEF Forwarded, LinksInOrder, AnswersInOrder, Received, LateOnes, ToldOf
<1> SUFFICES ASSUME protocol = "external" PROVE Forwarded'
  BY <1>0 DEF Forwarded
<1>2. /\ LinksInOrder /\ AnswersInOrder
      /\ process = "up" /\ peer = "here" =>
           \A id \in 1..pos : Received(id) \/ LateOnes(id) \/ ToldOf(id)
  BY ForwardedIs
<1>3. LinksInOrder' /\ AnswersInOrder'
  BY <1>2, LinksInOrderStep, AnswersInOrderStep
<1> SUFFICES ASSUME process' = "up", peer' = "here", NEW id \in 1..pos'
             PROVE  Received(id)' \/ LateOnes(id)' \/ ToldOf(id)'
  BY <1>0, <1>1, <1>3
<1>4. pos \in Nat /\ pos <= pos' /\ pos' \in Nat /\ peer = "here" /\ process \in {"up", "dead"}
  BY <1>0, PosGrows, Bounds DEF Steady
<1>5. process = "up"
  <2>1. CASE UNCHANGED process
    BY <2>1
  <2>2. ASSUME NEW n \in Nat \ {0}, ReadRelay(n) PROVE process = "up"
    BY <2>2 DEF ReadRelay, Idle, Serving
  <2>3. CASE ReadExternal \/ ExternalCloses \/ ReadExternalEnd
    BY <2>3 DEF ReadExternal, ExternalCloses, ReadExternalEnd
  <2> QED BY <2>1, <2>2, <2>3, RelayCases
<1>6. ASSUME UNCHANGED <<pos, fwd, dropped>>, ended \subseteq ended'
      PROVE  Received(id)' \/ LateOnes(id)' \/ ToldOf(id)'
  BY <1>0, <1>2, <1>4, <1>5, <1>6, StayAccounted
<1>7. ASSUME NEW n \in Nat \ {0}, ReadRelay(n)
      PROVE  Received(id)' \/ LateOnes(id)' \/ ToldOf(id)'
  <2>1. /\ pos' = pos + n
        /\ Forwards(n) \/ Drops(n) \/ Refuses \/ Loses(n) \/ Fails
        /\ \A m \in New : out'[m].id = pos + 1 /\ out'[m].form = "text"
        /\ Refuses \/ Fails => Len(out) + 1 \in New
    BY <1>4, <1>7, ReadRelayFacts
  <2>2. /\ Len(fwd) \in Nat /\ DOMAIN fwd = 1..Len(fwd)
        /\ \A i \in DOMAIN fwd : fwd[i].id \in 1..pos
    BY FwdFacts
  <2>3. CASE Forwards(n)
    <3>1. /\ DOMAIN fwd \subseteq DOMAIN fwd' /\ \A i \in DOMAIN fwd : fwd'[i] = fwd[i]
          /\ \A i \in DOMAIN fwd' \ DOMAIN fwd :
               /\ i - Len(fwd) \in 1..n
               /\ fwd'[i] = [id |-> pos + (i - Len(fwd)), link |-> Link]
          /\ \A i \in 1..n : /\ Len(fwd) + i \in DOMAIN fwd'
                             /\ fwd'[Len(fwd) + i] = [id |-> pos + i, link |-> Link]
      BY <2>3, ForwardsFacts
    <3>2. \A i \in DOMAIN fwd' \ DOMAIN fwd : fwd'[i].id \in Nat /\ fwd'[i].id > pos
      <4> TAKE i \in DOMAIN fwd' \ DOMAIN fwd
      <4>1. i - Len(fwd) \in 1..n /\ fwd'[i].id = pos + (i - Len(fwd))
        BY <3>1
      <4> QED BY <4>1, <1>4
    <3>3. CASE id \in 1..pos
      <4>1. UNCHANGED <<dropped, ended>>
        BY <2>3 DEF Forwards
      <4> QED BY <1>0, <1>2, <1>4, <1>5, <3>1, <3>2, <3>3, <4>1, StayAccounted
    <3>4. CASE id \notin 1..pos
      <4>1. PICK i \in 1..n : pos + i = id
        <5>1. id - pos \in 1..n /\ pos + (id - pos) = id
          BY <1>4, <2>1, <3>4
        <5> QED BY <5>1
      <4>2. /\ Len(fwd) + i \in DOMAIN fwd'
            /\ fwd'[Len(fwd) + i] = [id |-> pos + i, link |-> Link]
        BY <3>1
      <4>3. fwd'[Len(fwd) + i].id = id
        BY <4>1, <4>2
      <4> QED BY <4>2, <4>3 DEF Received
    <3> QED BY <3>3, <3>4
  <2>4. CASE Drops(n)
    <3>1. /\ UNCHANGED <<fwd, ended>> /\ dropped' = dropped \cup (pos + 1)..(pos + n)
          /\ site = "fin"
      BY <2>4 DEF Drops
    <3>2. ended # {}
      BY <3>1 DEF Paired
    <3>3. CASE id \in 1..pos
      BY <1>0, <1>2, <1>4, <1>5, <3>1, <3>3, StayAccounted
    <3>4. CASE id \notin 1..pos
      <4>1. id \in (pos + 1)..(pos + n)
        BY <1>4, <2>1, <3>4
      <4> QED BY <4>1, <3>1, <3>2 DEF LateOnes
    <3> QED BY <3>3, <3>4
  <2>5. CASE Refuses \/ Fails
    <3>1. UNCHANGED <<fwd, dropped>> /\ ended \subseteq ended'
      BY <2>5 DEF Refuses, Fails, Over, pairVars
    <3>2. CASE id \in 1..pos
      BY <1>0, <1>2, <1>4, <1>5, <3>1, <3>2, StayAccounted
    <3>3. CASE id \notin 1..pos
      <4>1. /\ Len(out) + 1 \in DOMAIN out' /\ out'[Len(out) + 1].form = "text"
            /\ out'[Len(out) + 1].id = pos + 1
        BY <2>1, <2>5 DEF New
      <4>2. pos + 1 <= id
        BY <1>4, <3>3
      <4>3. \A j \in DOMAIN fwd' : fwd'[j].id \notin (pos + 1)..id
        BY <1>4, <2>2, <3>1
      <4> QED BY <4>1, <4>2, <4>3 DEF ToldOf
    <3> QED BY <3>2, <3>3
  <2>6. CASE Loses(n)
    <3>1. Over /\ UNCHANGED fwd /\ dropped' = dropped \cup (pos + 1)..(pos + n)
      BY <2>6 DEF Loses, Over
    <3>2. ended \subseteq ended' /\ ended' # {}
      BY <3>1, OverFacts
    <3>3. CASE id \in 1..pos
      BY <1>0, <1>2, <1>4, <1>5, <3>1, <3>2, <3>3, StayAccounted
    <3>4. CASE id \notin 1..pos
      <4>1. id \in (pos + 1)..(pos + n)
        BY <1>4, <2>1, <3>4
      <4> QED BY <4>1, <3>1, <3>2 DEF LateOnes
    <3> QED BY <3>3, <3>4
  <2> QED BY <2>1, <2>3, <2>4, <2>5, <2>6
<1>8. CASE ReadExternal
  BY <1>6, <1>8 DEF ReadExternal, Rest, readVars
<1>9. CASE ExternalCloses
  BY <1>6, <1>9 DEF ExternalCloses, Rest, readVars
<1>10. CASE ReadExternalEnd
  BY <1>6, <1>10 DEF ReadExternalEnd, Rest, readVars
<1> QED BY <1>6, <1>7, <1>8, <1>9, <1>10, RelayCases


-----------------------------------------------------------------------------
(* The bytes of some items, by the recursive function Total.               *)

\* Induction over a set of numbers.
LEMMA AllNumbers ==
  ASSUME NEW S, 0 \in S, \A n \in Nat : n \in S => n + 1 \in S
  PROVE  \A n \in Nat : n \in S
<1> SUFFICES ASSUME Nat \ S # {} PROVE FALSE
  OBVIOUS
<1>1. PICK m : m \in Nat \ S /\ \A j \in Nat \ S : m <= j
  BY LowestIs
<1>2. m - 1 \in Nat /\ m - 1 \notin Nat \ S
  BY <1>1
<1>3. (m - 1) + 1 \in S
  BY <1>2
<1> QED BY <1>1, <1>3

\* A function that begins with 0 and adds step[n], up to m.
Sums(f, step, m) == f = [n \in 0..m |-> IF n = 0 THEN 0 ELSE f[n - 1] + step[n]]

LEMMA SumsAre ==
  ASSUME NEW step, NEW m \in Nat, NEW f, Sums(f, step, m)
  PROVE  \A n \in 0..m : f[n] = IF n = 0 THEN 0 ELSE f[n - 1] + step[n]
<1>1. f = [n \in 0..m |-> IF n = 0 THEN 0 ELSE f[n - 1] + step[n]]
  BY DEF Sums
<1>2. PICK g : g = f
  OBVIOUS
<1>3. f = [n \in 0..m |-> IF n = 0 THEN 0 ELSE g[n - 1] + step[n]]
  BY <1>1, <1>2, Zenon
<1>4. \A n \in 0..m : f[n] = IF n = 0 THEN 0 ELSE g[n - 1] + step[n]
  BY <1>3
<1> QED BY <1>2, <1>4

LEMMA SumsExist ==
  ASSUME NEW step
  PROVE  \A m \in Nat : \E f : Sums(f, step, m)
<1> DEFINE S == {m \in Nat : \E f : Sums(f, step, m)}
<1>1. 0 \in S
  <2> DEFINE f == [n \in 0..0 |-> 0]
  <2>1. f = [n \in 0..0 |-> IF n = 0 THEN 0 ELSE f[n - 1] + step[n]]
    OBVIOUS
  <2> HIDE DEF f
  <2> QED BY <2>1 DEF Sums
<1>2. ASSUME NEW m \in Nat, m \in S PROVE m + 1 \in S
  <2>1. PICK f : Sums(f, step, m)
    BY <1>2
  <2> DEFINE g == [n \in 0..(m + 1) |-> IF n = m + 1 THEN f[m] + step[m + 1] ELSE f[n]]
  <2>2. \A n \in 0..m : g[n] = f[n] /\ f[n] = IF n = 0 THEN 0 ELSE f[n - 1] + step[n]
    BY <2>1, SumsAre
  <2>3. g[m + 1] = f[m] + step[m + 1] /\ DOMAIN g = 0..(m + 1)
    OBVIOUS
  <2>4. g = [n \in 0..(m + 1) |-> g[n]]
    OBVIOUS
  <2> HIDE DEF g
  <2>5. ASSUME NEW n \in 0..(m + 1)
        PROVE  g[n] = IF n = 0 THEN 0 ELSE g[n - 1] + step[n]
    <3>1. CASE n = m + 1
      <4>1. m \in 0..m /\ n - 1 = m /\ n # 0
        BY <3>1
      <4> QED BY <4>1, <3>1, <2>2, <2>3
    <3>2. CASE n # m + 1 /\ n # 0
      <4>1. n \in 0..m /\ n - 1 \in 0..m
        BY <3>2
      <4> QED BY <4>1, <3>2, <2>2
    <3>3. CASE n = 0
      <4>1. n \in 0..m
        BY <3>3
      <4> QED BY <4>1, <3>3, <2>2
    <3> QED BY <3>1, <3>2, <3>3
  <2>6. g = [n \in 0..(m + 1) |-> IF n = 0 THEN 0 ELSE g[n - 1] + step[n]]
    BY <2>4, <2>5
  <2>7. Sums(g, step, m + 1)
    BY <2>6 DEF Sums
  <2> QED BY <2>7
<1> HIDE DEF S
<1>3. \A m \in Nat : m \in S
  BY <1>1, <1>2, AllNumbers
<1> QED BY <1>3 DEF S

LEMMA SumsAgree ==
  ASSUME NEW step, NEW m \in Nat, NEW k \in Nat, NEW f, NEW g,
         Sums(f, step, m), Sums(g, step, k)
  PROVE  \A n \in Nat : n <= m /\ n <= k => f[n] = g[n]
<1> DEFINE S == {n \in Nat : n <= m /\ n <= k => f[n] = g[n]}
<1>1. /\ \A n \in 0..m : f[n] = IF n = 0 THEN 0 ELSE f[n - 1] + step[n]
      /\ \A n \in 0..k : g[n] = IF n = 0 THEN 0 ELSE g[n - 1] + step[n]
  BY SumsAre
<1>2. 0 \in S
  BY <1>1
<1>3. ASSUME NEW n \in Nat, n \in S PROVE n + 1 \in S
  <2> SUFFICES ASSUME n + 1 <= m, n + 1 <= k PROVE f[n + 1] = g[n + 1]
    OBVIOUS
  <2>1. f[n] = g[n]
    BY <1>3
  <2>2. n + 1 \in 0..m /\ n + 1 \in 0..k /\ (n + 1) - 1 = n /\ n + 1 # 0
    OBVIOUS
  <2>3. f[n + 1] = f[n] + step[n + 1] /\ g[n + 1] = g[n] + step[n + 1]
    BY <1>1, <2>2
  <2> QED BY <2>1, <2>3
<1> HIDE DEF S
<1>4. \A n \in Nat : n \in S
  BY <1>2, <1>3, AllNumbers
<1> QED BY <1>4 DEF S

LEMMA TotalIs ==
  \A n \in Nat : Total[n] = IF n = 0 THEN 0 ELSE Total[n - 1] + Bytes(pos + n)
<1> DEFINE step == [n \in Nat |-> Bytes(pos + n)]
           F(n) == CHOOSE f : Sums(f, step, n)
           T == [n \in Nat |-> F(n)[n]]
<1>1. \A n \in Nat : step[n] = Bytes(pos + n)
  OBVIOUS
<1> HIDE DEF step
<1>2. \A n \in Nat : Sums(F(n), step, n)
  BY SumsExist
<1> HIDE DEF F
<1>3. \A n \in Nat : T[n] = F(n)[n] /\ T = [k \in Nat |-> T[k]]
  OBVIOUS
<1> HIDE DEF T
<1>4. ASSUME NEW n \in Nat
      PROVE  T[n] = IF n = 0 THEN 0 ELSE T[n - 1] + Bytes(pos + n)
  <2>1. n \in 0..n /\ Sums(F(n), step, n)
    BY <1>2
  <2>2. F(n)[n] = IF n = 0 THEN 0 ELSE F(n)[n - 1] + step[n]
    BY <2>1, SumsAre
  <2>3. CASE n = 0
    BY <1>3, <2>2, <2>3
  <2>4. CASE n # 0
    <3>1. n - 1 \in Nat /\ n - 1 <= n /\ n - 1 <= n - 1
      BY <2>4
    <3>2. Sums(F(n - 1), step, n - 1)
      BY <1>2, <3>1
    <3>3. F(n)[n - 1] = F(n - 1)[n - 1]
      BY <2>1, <3>1, <3>2, SumsAgree
    <3>4. T[n] = F(n)[n] /\ T[n - 1] = F(n - 1)[n - 1]
      BY <1>3, <3>1
    <3> QED BY <1>1, <2>2, <2>4, <3>3, <3>4
  <2> QED BY <2>3, <2>4
<1>5. T = [n \in Nat |-> IF n = 0 THEN 0 ELSE T[n - 1] + Bytes(pos + n)]
  <2>1. T = [k \in Nat |-> T[k]]
    BY <1>3
  <2> QED BY <2>1, <1>4
<1>6. Total = [n \in Nat |-> IF n = 0 THEN 0 ELSE Total[n - 1] + Bytes(pos + n)]
  BY <1>5, Zenon DEF Total
<1>7. PICK t : t = Total
  OBVIOUS
<1>8. Total = [n \in Nat |-> IF n = 0 THEN 0 ELSE t[n - 1] + Bytes(pos + n)]
  BY <1>6, <1>7, Zenon
<1>9. \A n \in Nat : Total[n] = IF n = 0 THEN 0 ELSE t[n - 1] + Bytes(pos + n)
  BY <1>8
<1> QED BY <1>7, <1>9


-----------------------------------------------------------------------------
(* What the websocket server sends back.                                   *)

LEMMA SizeFacts ==
  ASSUME NEW f \in SocketFrames
  PROVE  /\ f.len \in Nat /\ Size(f) \in Nat /\ Size(f) >= f.len + 6
         /\ f.len = 0 => Size(f) = 6
<1>1. f.len \in Nat
  BY DEF SocketFrames
<1>2. CASE f.len <= 125
  <2>1. PeerEncode(f.len) = [code |-> f.len, ext |-> 0]
    BY <1>1, <1>2 DEF PeerEncode
  <2>2. ExtraBytes([code |-> f.len, ext |-> 0]) = 0
    BY <1>1, <1>2 DEF ExtraBytes
  <2> QED BY <1>1, <2>1, <2>2 DEF Size
<1>3. CASE f.len > 125 /\ f.len <= 65535
  <2>1. PeerEncode(f.len) = [code |-> 126, ext |-> f.len]
    BY <1>1, <1>3 DEF PeerEncode
  <2>2. ExtraBytes([code |-> 126, ext |-> f.len]) = 2
    BY DEF ExtraBytes
  <2> QED BY <1>1, <1>3, <2>1, <2>2 DEF Size
<1>4. CASE f.len > 65535
  <2>1. PeerEncode(f.len) = [code |-> 127, ext |-> f.len]
    BY <1>1, <1>4 DEF PeerEncode
  <2>2. ExtraBytes([code |-> 127, ext |-> f.len]) = 8
    BY DEF ExtraBytes
  <2> QED BY <1>1, <1>4, <2>1, <2>2 DEF Size
<1> QED BY <1>1, <1>2, <1>3, <1>4

\* A length that fits in 16 bits survives both codecs.
LEMMA LengthsAgree ==
  ASSUME NEW len \in Nat, len <= 65535
  PROVE  /\ Decode(PeerEncode(len)) = len
         /\ PeerDecode(Encode(len)) = len
<1>1. CASE len <= 125
  <2>1. PeerEncode(len) = [code |-> len, ext |-> 0] /\ Encode(len) = [code |-> len, ext |-> 0]
    BY <1>1 DEF PeerEncode, Encode
  <2> QED BY <1>1, <2>1 DEF Decode, PeerDecode
<1>2. CASE len > 125
  <2>1. PeerEncode(len) = [code |-> 126, ext |-> len] /\ Encode(len) = [code |-> 126, ext |-> len]
    BY <1>2 DEF PeerEncode, Encode
  <2>2. len % 65536 = len
    OBVIOUS
  <2> QED BY <2>1, <2>2 DEF Decode, PeerDecode
<1> QED BY <1>1, <1>2

LEMMA BytesAre ==
  ASSUME TypeOK, protocol = "websocket", NEW i \in 1..Len(sent)
  PROVE  Bytes(i) \in Nat /\ (sent[i].k = "ws" => sent[i] \in SocketFrames /\ Bytes(i) = Size(sent[i]))
<1>1. sent[i] \in Vocabulary[protocol]
  BY Items
<1>2. Vocabulary["websocket"] \subseteq Handshakes \cup SocketFrames
  BY SocketVocabulary
<1>3. sent[i] \in Handshakes \cup SocketFrames
  BY <1>1, <1>2
<1>4. sent[i].k = "ws" => sent[i] \in SocketFrames
  BY <1>3 DEF Handshakes
<1>5. sent[i].k = "ws" => Bytes(i) = Size(sent[i]) /\ Size(sent[i]) \in Nat
  BY <1>4, SizeFacts DEF Bytes
<1>6. sent[i].k # "ws" => Bytes(i) \in Nat
  BY DEF Bytes, HandshakeBytes
<1> QED BY <1>4, <1>5, <1>6

\* What was read holds the first item, if any.
LEMMA TotalBounds ==
  ASSUME TypeOK, protocol = "websocket", pos \in Nat, Len(sent) \in Nat
  PROVE  \A n \in Nat : n # 0 /\ pos + n <= Len(sent) => Total[n] \in Nat /\ Bytes(pos + 1) <= Total[n]
<1> DEFINE S == {n \in Nat : n # 0 /\ pos + n <= Len(sent) =>
                               Total[n] \in Nat /\ Bytes(pos + 1) <= Total[n]}
<1>1. 0 \in S
  OBVIOUS
<1>2. ASSUME NEW n \in Nat, n \in S PROVE n + 1 \in S
  <2> SUFFICES ASSUME pos + (n + 1) <= Len(sent)
               PROVE  Total[n + 1] \in Nat /\ Bytes(pos + 1) <= Total[n + 1]
    OBVIOUS
  <2>1. Total[n + 1] = Total[n] + Bytes(pos + (n + 1))
    <3>1. n + 1 \in Nat /\ n + 1 # 0 /\ (n + 1) - 1 = n
      OBVIOUS
    <3> QED BY <3>1, TotalIs
  <2>2. Bytes(pos + (n + 1)) \in Nat
    <3>1. pos + (n + 1) \in 1..Len(sent)
      OBVIOUS
    <3> QED BY <3>1, BytesAre
  <2>3. CASE n = 0
    <3>1. Total[0] = 0
      BY TotalIs
    <3> QED BY <2>1, <2>2, <2>3, <3>1
  <2>4. CASE n # 0
    <3>1. Total[n] \in Nat /\ Bytes(pos + 1) <= Total[n]
      BY <1>2, <2>4
    <3>2. Bytes(pos + 1) \in Nat
      <4>1. pos + 1 \in 1..Len(sent)
        OBVIOUS
      <4> QED BY <4>1, BytesAre
    <3> HIDE DEF S
    <3> QED BY <2>1, <2>2, <3>1, <3>2
  <2> QED BY <2>3, <2>4
<1> HIDE DEF S
<1>3. \A n \in Nat : n \in S
  BY <1>1, <1>2, AllNumbers
<1> QED BY <1>3 DEF S


\* What the server may do to a websocket.
LEMMA SocketCases ==
  ASSUME TypeOK, Kinds, Paired, protocol = "websocket", [Next]_allVars
  PROVE  /\ Steady
         /\ \/ UNCHANGED <<out, whole, noise>>
            \/ \E n \in Nat, cut \in BOOLEAN : ReadSocket(n, cut) \/ ReadRest(n, cut)
<1>0. Steady
  BY Classes
<1>1. \A n : /\ ~ReadPart /\ ~ProcessFrame /\ ~HandleRequest /\ ~Read(n)
  BY DEF ReadPart, ProcessFrame, HandleRequest, Read, Kinds
<1>2. CASE UNCHANGED allVars
  BY <1>0, <1>2 DEF allVars, vars, webVars, socketVars
<1>3. CASE /\ (\E item \in Vocabulary[protocol] : Send(item)) \/ Leave \/ ReadEnd
           /\ UNCHANGED socketVars
  BY <1>0, <1>3 DEF Send, Leave, ReadEnd, socketVars
<1> QED BY <1>0, <1>1, <1>2, <1>3, NextCases

\* What comes back of message id, by index in out.
Back(i) ==
  LET f == sent[out[i].id] IN
  /\ f.k = "ws" /\ f.op = out[i].op
  /\ PeerDecode(out[i].header) = f.len
  /\ Size(f) <= Buffer
  /\ \A j \in Messages : j < i => out[j].id < out[i].id

LEMMA EchoStep ==
  ASSUME TypeOK, Kinds, Paired, Echo, [Next]_allVars
  PROVE  Echo'
<1> SUFFICES ASSUME protocol = "websocket", ~noise' PROVE Echo'
  BY Classes DEF Steady, buildVars, Echo
<1>0. /\ Steady /\ OutStep /\ pos \in Nat /\ Len(sent) \in Nat
      /\ \A i \in DOMAIN out : out[i].id \in 1..pos
      /\ \A i \in 1..pos : sent'[i] = sent[i]
      /\ \A i \in 1..Len(sent) : sent'[i] = sent[i]
      /\ peer' = "here" => peer = "here"
      /\ whole \subseteq 1..pos
  BY Classes, PosGrows, Bounds DEF Steady, TypeOK, SocketTypeOK
<1>1. \A i \in DOMAIN out' : (i \in DOMAIN out /\ out'[i] = out[i]) \/ i \in New
  BY <1>0, OutIs
<1>2. /\ ~noise
      /\ \/ UNCHANGED <<out, whole>>
         \/ \E n \in Nat, cut \in BOOLEAN : ReadSocket(n, cut)
  <2>1. ASSUME NEW n \in Nat, NEW cut \in BOOLEAN, ReadRest(n, cut) PROVE FALSE
    BY <2>1, ReadRestFacts
  <2>2. ASSUME NEW n \in Nat, NEW cut \in BOOLEAN, ReadSocket(n, cut) PROVE UNCHANGED noise
    BY <2>2, ReadSocketFacts
  <2> QED BY <2>1, <2>2, SocketCases
<1>3. /\ \A i \in Messages : Back(i)
      /\ peer = "here" =>
           \A id \in whole : sent[id].k = "ws" /\ sent[id].op \in {"text", "binary"}
             => \E i \in Messages : out[i].id = id
  BY <1>2 DEF Echo, Back
<1> SUFFICES /\ \A i \in Messages' : Back(i)'
             /\ peer' = "here" =>
                  \A id \in whole' : sent'[id].k = "ws" /\ sent'[id].op \in {"text", "binary"}
                    => \E i \in Messages' : out'[i].id = id
  BY DEF Echo, Back
<1>4. \A i \in Messages : i \in Messages' /\ out'[i] = out[i]
  BY <1>0 DEF OutStep, Messages
<1>5. \A i \in Messages' : i \in Messages \/ (i \in New /\ out'[i].form = "ws")
  BY <1>1 DEF Messages
<1>6. ASSUME NEW i \in Messages
      PROVE  Back(i)'
  <2>1. /\ i \in DOMAIN out /\ out'[i] = out[i] /\ sent'[out[i].id] = sent[out[i].id]
    BY <1>0, <1>4 DEF Messages
  <2>2. \A j \in Messages' : j < i => j \in Messages
    <3> SUFFICES ASSUME NEW j \in New, j < i PROVE FALSE
      BY <1>5
    <3>1. i < j
      BY <1>0, <2>1 DEF OutStep
    <3>2. i \in Nat /\ j \in Nat
      BY <1>0, <2>1, SeqFacts DEF OutStep, New
    <3> QED BY <3>1, <3>2
  <2>3. /\ sent[out[i].id].k = "ws" /\ sent[out[i].id].op = out[i].op
        /\ PeerDecode(out[i].header) = sent[out[i].id].len
        /\ Size(sent[out[i].id]) <= Buffer
        /\ \A j \in Messages : j < i => out[j].id < out[i].id
    BY <1>3 DEF Back
  <2>4. \A j \in Messages' : j < i => out'[j].id < out'[i].id
    BY <1>4, <2>1, <2>2, <2>3
  <2> QED BY <2>1, <2>3, <2>4 DEF Back
<1>7. CASE UNCHANGED <<out, whole>>
  <2>1. Messages' = Messages
    BY <1>7 DEF Messages
  <2>2. \A id \in whole : sent'[id] = sent[id]
    BY <1>0
  <2> QED BY <1>0, <1>3, <1>6, <1>7, <2>1, <2>2
<1>8. ASSUME NEW n \in Nat, NEW cut \in BOOLEAN, ReadSocket(n, cut)
      PROVE  /\ \A i \in Messages' : Back(i)'
             /\ peer' = "here" =>
                  \A id \in whole' : sent'[id].k = "ws" /\ sent'[id].op \in {"text", "binary"}
                    => \E i \in Messages' : out'[i].id = id
  <2> DEFINE id == pos + 1
  <2>1. /\ whole' \in {whole, whole \cup {id}} /\ id \in 1..Len(sent)
        /\ \A m \in New : out'[m].id = id
        /\ \A m \in New : out'[m].form = "ws" => /\ sent[id].k = "ws" /\ Returned(m, id)
                                                 /\ n > 0 \/ sent[id].len = 0
        /\ Fits(n, cut)
        /\ peer = "here" /\ id \in whole' \ whole /\ sent[id].k = "ws"
             => sent[id].op \notin {"text", "binary"} \/ \E m \in New : out'[m].form = "ws"
    BY <1>8, ReadSocketFacts
  <2>2. ASSUME NEW i \in New, out'[i].form = "ws"
        PROVE  Back(i)'
    <3>1. /\ out'[i].id = id /\ sent'[id] = sent[id]
          /\ sent[id].k = "ws" /\ Returned(i, id) /\ (n > 0 \/ sent[id].len = 0)
      BY <1>0, <2>1, <2>2
    <3>2. /\ sent[id] \in SocketFrames /\ Bytes(id) = Size(sent[id])
          /\ sent[id].len \in Nat /\ Size(sent[id]) \in Nat /\ Size(sent[id]) >= sent[id].len + 6
          /\ sent[id].len = 0 => Size(sent[id]) = 6
      BY <2>1, <3>1, BytesAre, SizeFacts
    <3>3. Buffer \in Nat /\ Buffer >= 14 /\ Buffer <= 65536
      BY BufferBounds
    <3>4. Size(sent[id]) <= Buffer
      <4>1. CASE n = 0
        BY <3>1, <3>2, <3>3, <4>1
      <4>2. CASE n # 0
        <5>1. pos + n <= Len(sent) /\ (Total[n] < Buffer \/ Total[n] <= Buffer)
          BY <1>0, <2>1 DEF Fits
        <5>2. Total[n] \in Nat /\ Bytes(pos + 1) <= Total[n]
          BY <1>0, <4>2, <5>1, TotalBounds
        <5> QED BY <3>2, <3>3, <5>1, <5>2
      <4> QED BY <4>1, <4>2
    <3>5. sent[id].len <= 65535
      BY <3>2, <3>3, <3>4
    <3>6. PeerDecode(out'[i].header) = sent[id].len /\ sent[id].op = out'[i].op
      <4>1. out'[i].header = Encode(Decode(PeerEncode(sent[id].len))) /\ out'[i].op = sent[id].op
        BY <3>1 DEF Returned
      <4>2. /\ Decode(PeerEncode(sent[id].len)) = sent[id].len
            /\ PeerDecode(Encode(sent[id].len)) = sent[id].len
        BY <3>2, <3>5, LengthsAgree
      <4> QED BY <4>1, <4>2
    <3>7. \A j \in Messages' : j < i => out'[j].id < out'[i].id
      <4> SUFFICES ASSUME NEW j \in Messages', j < i PROVE out'[j].id < id
        BY <3>1
      <4>1. CASE j \in Messages
        BY <1>0, <1>4, <4>1 DEF Messages
      <4>2. CASE j \in New
        <5>1. i = Len(out) + 1 /\ j = Len(out) + 1
          BY <1>8, <2>2, <4>2, ReadSocketFacts DEF Quiet
        <5> QED BY <5>1
      <4> QED BY <1>5, <4>1, <4>2
    <3> HIDE DEF id
    <3> QED BY <3>1, <3>4, <3>6, <3>7 DEF Back
  <2>3. ASSUME peer' = "here", NEW x \in whole', sent'[x].k = "ws", sent'[x].op \in {"text", "binary"}
        PROVE  \E i \in Messages' : out'[i].id = x
    <3>1. CASE x \in whole
      <4>1. sent'[x] = sent[x]
        BY <1>0, <3>1
      <4>2. PICK i \in Messages : out[i].id = x
        BY <1>0, <1>3, <2>3, <3>1, <4>1
      <4> QED BY <1>4, <4>2
    <3>2. CASE x \notin whole
      <4>1. x = id /\ sent'[id] = sent[id] /\ peer = "here"
        BY <1>0, <2>1, <2>3, <3>2
      <4>2. \E m \in New : out'[m].form = "ws"
        BY <2>1, <2>3, <3>2, <4>1
      <4> QED BY <2>1, <4>1, <4>2 DEF Messages, New
    <3> QED BY <3>1, <3>2
  <2> QED BY <1>5, <1>6, <2>2, <2>3
<1> QED BY <1>2, <1>7, <1>8


-----------------------------------------------------------------------------
(* Where answers go.                                                       *)

LEMMA LowestOf ==
  ASSUME NEW S, S \subseteq Nat, NEW o \in S, \A j \in S : o <= j
  PROVE  Lowest(S) = o
<1>1. Lowest(S) \in S /\ \A j \in S : Lowest(S) <= j
  BY LowestIs
<1>2. Lowest(S) \in Nat /\ o \in Nat
  BY <1>1
<1>3. Lowest(S) <= o /\ o <= Lowest(S)
  BY <1>1
<1> QED BY <1>2, <1>3

\* A frame is the opener of its stream if it is the first with its id.
LEMMA OpenerOpens ==
  TypeOK /\ protocol = "http2" =>
    \A j \in 1..pos : /\ Opener(sent[j].sid) = j <=> Opens(j)
                      /\ IsFrame(j) /\ j \in Nat
<1> SUFFICES ASSUME TypeOK, protocol = "http2", NEW j \in 1..pos
             PROVE  /\ Opener(sent[j].sid) = j <=> Opens(j)
                    /\ IsFrame(j) /\ j \in Nat
  OBVIOUS
<1>1. IsFrame(j) /\ j \in Nat
  BY Items, FrameType
<1>2. Opener(sent[j].sid) = j <=> Opens(j)
  BY OpenerIs
<1> QED BY <1>1, <1>2

LEMMA OpenerOpensNext ==
  (TypeOK /\ protocol = "http2" =>
     \A j \in 1..pos : /\ Opener(sent[j].sid) = j <=> Opens(j)
                       /\ IsFrame(j) /\ j \in Nat)'
BY OpenerOpens, PTL

\* Frame j opens the first stream that HEADERS opened.
OpensFirst(j) ==
  /\ sent[j].type = "HEADERS" /\ Opens(j)
  /\ \A l \in 1..(j - 1) : sent[l].type = "HEADERS" => ~Opens(l)

LEMMA FirstIs ==
  TypeOK /\ protocol = "http2" =>
    FirstHeaders = {sent[j].sid : j \in {i \in 1..pos : OpensFirst(i)}}
<1> SUFFICES ASSUME TypeOK, protocol = "http2"
             PROVE  FirstHeaders = {sent[j].sid : j \in {i \in 1..pos : OpensFirst(i)}}
  OBVIOUS
<1>1. \A j \in 1..pos : /\ Opener(sent[j].sid) = j <=> Opens(j)
                        /\ IsFrame(j) /\ j \in Nat
  BY OpenerOpens
<1>2. \A j \in 1..pos : \A l \in 1..(j - 1) : l \in 1..pos
  <2>1. pos \in Nat
    BY Items
  <2> QED BY <2>1
<1>3. \A j \in 1..pos :
        OpensFirst(j) <=> /\ IsFrame(j) /\ sent[j].type = "HEADERS"
                          /\ Opener(sent[j].sid) = j
                          /\ \A l \in 1..(j - 1) :
                               IsFrame(l) /\ sent[l].type = "HEADERS" => Opener(sent[l].sid) # l
  BY <1>1, <1>2 DEF OpensFirst
<1> QED BY <1>3, Zenon DEF FirstHeaders

LEMMA FirstIsNext ==
  (TypeOK /\ protocol = "http2" =>
     FirstHeaders = {sent[j].sid : j \in {i \in 1..pos : OpensFirst(i)}})'
BY FirstIs, PTL

LEMMA FirstStays ==
  ASSUME TypeOK, Kinds, TypeOK', Steady, protocol = "http2"
  PROVE  FirstHeaders \subseteq FirstHeaders'
<1>1. /\ pos \in Nat /\ 1..pos \subseteq 1..pos' /\ UNCHANGED protocol
      /\ \A j \in 1..pos : sent'[j] = sent[j]
  BY PosGrows, Items DEF Steady, buildVars
<1>2. \A j \in 1..pos : Opens(j)' <=> Opens(j)
  BY OpensStays
<1>3. ASSUME NEW j \in 1..pos, OpensFirst(j)
      PROVE  OpensFirst(j)'
  <2>1. \A l \in 1..(j - 1) : l \in 1..pos
    BY <1>1
  <2>2. \A l \in 1..(j - 1) : sent'[l].type = "HEADERS" => ~Opens(l)'
    BY <1>1, <1>2, <1>3, <2>1 DEF OpensFirst
  <2> QED BY <1>1, <1>2, <1>3, <2>2 DEF OpensFirst
<1>4. FirstHeaders = {sent[j].sid : j \in {i \in 1..pos : OpensFirst(i)}}
  BY FirstIs
<1>5. FirstHeaders' = {sent'[j].sid : j \in {i \in 1..pos' : OpensFirst(i)'}}
  BY <1>1, FirstIsNext
<1> QED BY <1>1, <1>3, <1>4, <1>5

\* The server's first stream of a kind is the peer's.
LEMMA FirstStream ==
  ASSUME TypeOK, Kinds, Streamed, protocol = "http2", StreamOfType("HEADERS") # {}
  PROVE  streams[Lowest(StreamOfType("HEADERS"))].sid \in FirstHeaders
<1> DEFINE n == Lowest(StreamOfType("HEADERS"))
<1>1. /\ n \in DOMAIN streams /\ streams[n].type = "HEADERS"
      /\ \A m \in DOMAIN streams : streams[m].type = "HEADERS" => n <= m
      /\ DOMAIN streams \subseteq Nat
  BY StreamFacts
<1> HIDE DEF n
<1>2. /\ pos \in Nat /\ \A i \in 1..pos \ frames : StreamsOf(sent[i].sid) # {}
      /\ \A i \in 1..pos \ frames, k \in frames : i < k
      /\ \A m \in DOMAIN streams : \E j \in 1..pos \ frames :
           Opens(j) /\ sent[j].sid = streams[m].sid /\ sent[j].type = streams[m].type
      /\ \A l, m \in DOMAIN streams, i, j \in 1..pos :
           /\ l < m /\ Opens(i) /\ Opens(j)
           /\ sent[i].sid = streams[l].sid /\ sent[j].sid = streams[m].sid
           => i < j
  BY Items DEF Streamed
<1>3. PICK j \in 1..pos \ frames :
        Opens(j) /\ sent[j].sid = streams[n].sid /\ sent[j].type = "HEADERS"
  BY <1>1, <1>2
<1>4. ASSUME NEW l \in 1..(j - 1), sent[l].type = "HEADERS", Opens(l)
      PROVE  FALSE
  <2>1. l \in 1..pos \ frames /\ l < j /\ l \in 1..pos
    <3>1. l \in 1..pos /\ l < j /\ ~(j < l)
      BY <1>2
    <3> QED BY <3>1, <1>2
  <2>2. PICK m \in DOMAIN streams : streams[m].sid = sent[l].sid
    BY <1>2, <2>1 DEF StreamsOf
  <2>3. PICK k \in 1..pos \ frames :
          Opens(k) /\ sent[k].sid = streams[m].sid /\ sent[k].type = streams[m].type
    BY <1>2
  <2>4. k = l
    BY <1>4, <2>1, <2>2, <2>3, OpenerIs
  <2>5. n <= m /\ n \in Nat /\ m \in Nat
    BY <1>1, <1>4, <2>3, <2>4
  <2>6. CASE n = m
    <3>1. j = l
      BY <1>3, <1>4, <2>1, <2>2, <2>6, OpenerIs
    <3> QED BY <3>1, <2>1, <1>2
  <2>7. CASE n < m
    <3>1. j < l
      BY <1>1, <1>2, <1>3, <1>4, <2>1, <2>2, <2>7
    <3> QED BY <3>1, <2>1, <1>2
  <2> QED BY <2>5, <2>6, <2>7
<1>5. OpensFirst(j)
  BY <1>3, <1>4 DEF OpensFirst
<1>6. FirstHeaders = {sent[k].sid : k \in {i \in 1..pos : OpensFirst(i)}}
  BY FirstIs
<1> QED BY <1>3, <1>5, <1>6 DEF n


\* What a request adds, in text or in frames.
AddsText(id) ==
  /\ \A n \in New : n = Len(out) + 1 /\ out'[n].form = "text" /\ out'[n].id = id
  /\ process' = "up" /\ peer = "here" => New = {Len(out) + 1}

AddsFrames(id, pieces) ==
  LET first == Len(out) + 1
      last == Len(out) + 1 + pieces
  IN  /\ New # {} => StreamOfType("HEADERS") # {}
      /\ \A n \in New :
           /\ n \in first..last /\ out'[n].id = id
           /\ out'[n].sid = streams[Lowest(StreamOfType("HEADERS"))].sid
           /\ out'[n].form = IF n = first THEN "headers" ELSE "data"
           /\ out'[n].end <=> pieces # 0 /\ n = last
      /\ process' = "up" /\ peer = "here" /\ StreamOfType("HEADERS") # {} => New = first..last

LEMMA ReplyAdds ==
  ASSUME TypeOK, Kinds, HandleRequest, NEW id \in reqs,
         NEW status, NEW pieces \in Nat, Reply(id, status, pieces)
  PROVE  \/ (sent[id].k = "text" \/ status = 401) /\ AddsText(id)
         \/ /\ sent[id].k # "text" /\ status # 401 /\ protocol = "http2"
            /\ AddsFrames(id, pieces)
<1>1. process = "up" /\ IsSeq(out)
  BY DEF HandleRequest, Serving, Kinds
<1>2. sent[id].k # "text" => protocol = "http2"
  BY RequestType
<1>3. CASE sent[id].k = "text" \/ status = 401
  <2>1. WriteText(id, status)
    BY <1>3 DEF Reply
  <2>2. AddsText(id)
    BY <1>1, <2>1, TextFacts DEF AddsText
  <2> QED BY <1>3, <2>2
<1>4. CASE ~(sent[id].k = "text" \/ status = 401)
  <2>1. WriteFrames(id, status, pieces)
    BY <1>4 DEF Reply
  <2>2. AddsFrames(id, pieces)
    BY <1>1, <2>1, FramesFacts DEF AddsFrames
  <2> QED BY <1>2, <1>4, <2>2
<1> QED BY <1>3, <1>4

LEMMA RequestAdds ==
  ASSUME TypeOK, Kinds, HandleRequest, NEW id, id = Lowest(reqs)
  PROVE  \/ New = {}
         \/ AddsText(id)
         \/ protocol = "http2" /\ \E pieces \in Nat : AddsFrames(id, pieces)
<1>1. id \in reqs
  BY HandleRequestFacts
<1>2. \/ UNCHANGED <<out, process>>
      \/ \E status : \E pieces \in Nat : Reply(id, status, pieces)
  <2>1. \/ UNCHANGED <<out, process>> \/ Reply(id, 400, 1) \/ Reply(id, 401, 1)
        \/ \E status \in Statuses : Reply(id, status, 1)
        \/ \E status \in Statuses, pieces \in Nat : Reply(id, status, pieces)
    BY RequestCases
  <2>2. 1 \in Nat
    OBVIOUS
  <2> QED BY <2>1, <2>2
<1>3. CASE UNCHANGED <<out, process>>
  BY <1>3 DEF New
<1>4. ASSUME NEW status, NEW pieces \in Nat, Reply(id, status, pieces)
      PROVE  AddsText(id) \/ (protocol = "http2" /\ AddsFrames(id, pieces))
  BY <1>1, <1>4, ReplyAdds
<1> QED BY <1>2, <1>3, <1>4

LEMMA FramedStep ==
  ASSUME TypeOK, Kinds, Paired, Framed, [Next]_allVars
  PROVE  Framed'
<1>1. /\ Steady /\ OutStep /\ UNCHANGED protocol
      /\ \A i \in 1..pos : sent'[i] = sent[i]
      /\ \A i \in DOMAIN out : out[i].id \in 1..pos
  BY Classes, PosGrows, Bounds DEF Steady, buildVars
<1>2. \A i \in DOMAIN out' : (i \in DOMAIN out /\ out'[i] = out[i]) \/ i \in New
  BY <1>1, OutIs
<1>3. ASSUME \A n \in New :
               /\ out'[n].form \in {"headers", "data", "settings", "rst"} => protocol = "http2"
               /\ out'[n].form = "rst" => out'[n].sid = sent'[out'[n].id].sid
      PROVE  Framed'
  BY <1>1, <1>2, <1>3 DEF Framed
<1>4. CASE Quiet
  BY <1>3, <1>4 DEF Quiet
<1>5. ASSUME protocol # "external", NEW n \in Nat \ {0}, Read(n)
      PROVE  New = {}
  BY <1>5, ReadFacts
<1>6. CASE ProcessFrame
  <2>1. PICK id : id = Lowest(frames)
    OBVIOUS
  <2>2. /\ protocol = "http2" /\ UNCHANGED sent
        /\ \A n \in New : out'[n].id = id /\ out'[n].sid = sent[id].sid
    BY <1>6, <2>1, ProcessFrameFacts
  <2> QED BY <1>3, <2>2
<1>7. CASE HandleRequest
  <2>1. PICK id : id = Lowest(reqs)
    OBVIOUS
  <2>2. \A n \in New : /\ out'[n].form \in {"text", "headers", "data"}
                       /\ out'[n].form # "text" => protocol = "http2"
    BY <1>7, <2>1, RequestAdds, HandleRequestFacts DEF AddsText
  <2> QED BY <1>3, <2>2
<1> QED BY <1>3, <1>4, <1>5, <1>6, <1>7, Classes

\* Responses come in the order of the requests.
InTurn == \A i, j \in Responses : i < j => out[i].id <= out[j].id

LEMMA InTurnStep ==
  ASSUME TypeOK, Kinds, Paired, Order, InTurn, [Next]_allVars
  PROVE  InTurn'
<1>1. /\ Steady /\ OutStep /\ pos \in Nat
      /\ \A i \in DOMAIN out : out[i].id \in 1..pos
  BY Classes, Bounds DEF Steady
<1>2. /\ \A i \in Responses' : \/ i \in Responses /\ out'[i] = out[i]
                               \/ i \in New /\ out'[i].form \in {"text", "headers", "data"}
      /\ \A i \in Responses', j \in New : i \in Responses => i < j
  BY <1>1, OutIs DEF Responses, OutStep
<1>3. \A i \in Responses' : i \in Nat
  BY <1>1, SeqFacts DEF Responses, OutStep
<1>4. ASSUME NEW id \in Nat, \A n \in New : out'[n].form \in {"text", "headers", "data"}
                                              => out'[n].id = id,
             \A i \in Responses : out[i].id <= id
      PROVE  InTurn'
  <2> SUFFICES ASSUME NEW i \in Responses', NEW j \in Responses', i < j
               PROVE  out'[i].id <= out'[j].id
    BY DEF InTurn
  <2>1. CASE i \in Responses /\ out'[i] = out[i]
    BY <1>2, <1>4, <2>1 DEF InTurn
  <2>2. CASE i \in New /\ out'[i].form \in {"text", "headers", "data"}
    <3>1. j \in New
      <4> SUFFICES ASSUME j \in Responses PROVE FALSE
        BY <1>2
      <4>1. j < i
        BY <1>2, <2>2
      <4> QED BY <4>1, <1>3
    <3>2. out'[j].form \in {"text", "headers", "data"}
      BY DEF Responses
    <3> QED BY <1>4, <2>2, <3>1, <3>2
  <2> QED BY <1>2, <2>1, <2>2
<1>5. ASSUME \A n \in New : out'[n].form \notin {"text", "headers", "data"}
      PROVE  InTurn'
  BY <1>2, <1>5 DEF InTurn
<1>6. CASE Quiet
  <2>1. CASE \A n \in New : out'[n].form \notin {"text", "headers", "data"}
    BY <1>5, <2>1
  <2>2. ASSUME NEW n \in New, out'[n].form = "text" PROVE InTurn'
    <3>1. /\ \A m \in New : m = Len(out) + 1
          /\ \A i \in DOMAIN out : out[i].id <= out'[n].id
      BY <1>6, <2>2 DEF Quiet
    <3>2. PICK id : id = out'[n].id
      OBVIOUS
    <3>3. id \in Nat
      BY <1>1, <3>2, PosGrows DEF Steady
    <3>4. \A m \in New : m = n
      BY <3>1
    <3> QED BY <1>4, <3>1, <3>2, <3>3, <3>4 DEF Responses
  <2> QED BY <1>6, <2>1, <2>2 DEF Quiet
<1>7. ASSUME protocol # "external", NEW n \in Nat \ {0}, Read(n)
      PROVE  New = {}
  BY <1>7, ReadFacts
<1>8. CASE ProcessFrame
  <2>1. PICK id : id = Lowest(frames)
    OBVIOUS
  <2>2. \A n \in New : out'[n].form \in {"settings", "rst"}
    BY <1>8, <2>1, ProcessFrameFacts
  <2> QED BY <1>5, <2>2
<1>9. CASE HandleRequest
  <2>1. PICK id : id = Lowest(reqs)
    OBVIOUS
  <2>2. id \in reqs /\ \A n \in New : out'[n].id = id
    BY <1>9, <2>1, HandleRequestFacts
  <2>3. id \in Nat /\ \A i \in Responses : out[i].id <= id
    <3>1. id \in Nat
      BY <2>2, Items
    <3>2. \A i \in Responses : out[i].id < id /\ out[i].id \in Nat
      BY <1>1, <2>2 DEF Order, Responses
    <3> QED BY <3>1, <3>2
  <2> QED BY <1>4, <2>2, <2>3
<1> QED BY <1>5, <1>6, <1>7, <1>8, <1>9, Classes


\* OnFirstStream in parts.
FramesOnFirst ==
  \A i \in DOMAIN out : out[i].form \in {"headers", "data"} => out[i].sid \in FirstHeaders

FramesInOrder ==
  \A i \in DOMAIN out : out[i].form \in {"headers", "data"} =>
    /\ \A j \in Responses : out[j].id = out[i].id /\ j < i => ~out[j].end
    /\ out[i].form = "headers" <=> \A j \in Responses : out[j].id = out[i].id => i <= j

ResetsRight ==
  \A i \in DOMAIN out : out[i].form = "rst" =>
    \E o \in 1..pos : /\ Opens(o) /\ sent[o].sid = out[i].sid
                      /\ sent[o].type \in {"PRIORITY", "SETTINGS"}

LEMMA OnFirstIs ==
  TypeOK /\ Framed => (OnFirstStream <=> FramesOnFirst /\ FramesInOrder /\ ResetsRight)
<1> SUFFICES ASSUME TypeOK, Framed
             PROVE  OnFirstStream <=> FramesOnFirst /\ FramesInOrder /\ ResetsRight
  OBVIOUS
<1>1. \A i \in DOMAIN out : \A j : j \in AnswersTo(out[i].id) <=> j \in Responses /\ out[j].id = out[i].id
  BY DEF AnswersTo
<1>2. ASSUME NEW i \in DOMAIN out, out[i].form = "rst"
      PROVE  sent[Opener(out[i].sid)].type \in {"PRIORITY", "SETTINGS"} <=>
               \E o \in 1..pos : /\ Opens(o) /\ sent[o].sid = out[i].sid
                                 /\ sent[o].type \in {"PRIORITY", "SETTINGS"}
  <2>1. protocol = "http2" /\ out[i].sid = sent[out[i].id].sid /\ out[i].id \in 1..pos
    BY <1>2 DEF Framed, TypeOK, SocketTypeOK, WebTypeOK
  <2>2. PICK id \in 1..pos : out[i].sid = sent[id].sid
    BY <2>1
  <2>3. PICK o : o = Opener(sent[id].sid)
    OBVIOUS
  <2>4. /\ o \in 1..pos /\ sent[o].sid = sent[id].sid /\ Opens(o)
        /\ \A j \in 1..pos : sent[j].sid = sent[id].sid /\ Opens(j) => j = o
    BY <2>1, <2>3, OpenerIs
  <2>5. Opener(out[i].sid) = o
    BY <2>2, <2>3
  <2> QED BY <2>2, <2>4, <2>5
<1>3. FramesOnFirst /\ FramesInOrder /\ ResetsRight => OnFirstStream
  <2> SUFFICES ASSUME FramesOnFirst, FramesInOrder, ResetsRight, NEW i \in DOMAIN out
               PROVE  LET a == out[i] IN
                      /\ a.form \in {"headers", "data"} =>
                           /\ a.sid \in FirstHeaders
                           /\ \A j \in AnswersTo(a.id) : j < i => ~out[j].end
                           /\ a.form = "headers" <=> \A j \in AnswersTo(a.id) : i <= j
                      /\ a.form = "rst" => sent[Opener(a.sid)].type \in {"PRIORITY", "SETTINGS"}
    BY DEF OnFirstStream
  <2>1. out[i].form \in {"headers", "data"} => out[i].sid \in FirstHeaders
    BY DEF FramesOnFirst
  <2>2. out[i].form \in {"headers", "data"} =>
          /\ \A j \in AnswersTo(out[i].id) : j < i => ~out[j].end
          /\ out[i].form = "headers" <=> \A j \in AnswersTo(out[i].id) : i <= j
    BY <1>1 DEF FramesInOrder
  <2>3. out[i].form = "rst" => sent[Opener(out[i].sid)].type \in {"PRIORITY", "SETTINGS"}
    BY <1>2 DEF ResetsRight
  <2> QED BY <2>1, <2>2, <2>3
<1>4. OnFirstStream => FramesOnFirst /\ FramesInOrder /\ ResetsRight
  <2> SUFFICES ASSUME OnFirstStream PROVE FramesOnFirst /\ FramesInOrder /\ ResetsRight
    OBVIOUS
  <2>1. FramesOnFirst
    BY DEF OnFirstStream, FramesOnFirst
  <2>2. FramesInOrder
    BY <1>1 DEF OnFirstStream, FramesInOrder
  <2>3. ResetsRight
    BY <1>2 DEF OnFirstStream, ResetsRight
  <2> QED BY <2>1, <2>2, <2>3
<1> QED BY <1>3, <1>4

LEMMA OnFirstIsNext ==
  (TypeOK /\ Framed => (OnFirstStream <=> FramesOnFirst /\ FramesInOrder /\ ResetsRight))'
BY OnFirstIs, PTL

LEMMA FramesOnFirstStep ==
  ASSUME TypeOK, Kinds, Paired, Streamed, Framed, TypeOK', FramesOnFirst, [Next]_allVars
  PROVE  FramesOnFirst'
<1>1. Steady /\ OutStep
  BY Classes DEF Steady
<1>2. \A i \in DOMAIN out' : (i \in DOMAIN out /\ out'[i] = out[i]) \/ i \in New
  BY <1>1, OutIs
<1>3. protocol = "http2" => FirstHeaders \subseteq FirstHeaders'
  BY <1>1, FirstStays
<1>4. ASSUME \A n \in New : out'[n].form \in {"headers", "data"} => out'[n].sid \in FirstHeaders'
      PROVE  FramesOnFirst'
  BY <1>2, <1>3, <1>4 DEF FramesOnFirst, Framed
<1>5. CASE Quiet
  BY <1>4, <1>5 DEF Quiet
<1>6. ASSUME protocol # "external", NEW n \in Nat \ {0}, Read(n)
      PROVE  New = {}
  BY <1>6, ReadFacts
<1>7. CASE ProcessFrame
  <2>1. PICK id : id = Lowest(frames)
    OBVIOUS
  <2>2. \A n \in New : out'[n].form \in {"settings", "rst"}
    BY <1>7, <2>1, ProcessFrameFacts
  <2> QED BY <1>4, <2>2
<1>8. CASE HandleRequest
  <2>1. PICK id : id = Lowest(reqs)
    OBVIOUS
  <2>2. CASE New = {}
    BY <1>4, <2>2
  <2>3. CASE AddsText(id)
    BY <1>4, <2>3 DEF AddsText
  <2>4. ASSUME protocol = "http2", NEW pieces \in Nat, AddsFrames(id, pieces), New # {}
        PROVE  FramesOnFirst'
    <3>1. \A n \in New : out'[n].sid = streams[Lowest(StreamOfType("HEADERS"))].sid
      BY <2>4 DEF AddsFrames
    <3>2. StreamOfType("HEADERS") # {}
      BY <2>4 DEF AddsFrames
    <3>3. streams[Lowest(StreamOfType("HEADERS"))].sid \in FirstHeaders
      BY <2>4, <3>2, FirstStream
    <3> QED BY <1>3, <1>4, <2>4, <3>1, <3>3
  <2> QED BY <1>8, <2>1, <2>2, <2>3, <2>4, RequestAdds
<1> QED BY <1>4, <1>5, <1>6, <1>7, <1>8, Classes


LEMMA FramesInOrderStep ==
  ASSUME TypeOK, Kinds, Paired, Order, FramesInOrder, [Next]_allVars
  PROVE  FramesInOrder'
<1>1. Steady /\ OutStep
  BY Classes DEF Steady
<1>2. \A i \in DOMAIN out' : (i \in DOMAIN out /\ out'[i] = out[i]) \/ i \in New
  BY <1>1, OutIs
<1>3. /\ \A i \in DOMAIN out, j \in New : i < j /\ ~(j < i) /\ i <= j
      /\ \A i \in DOMAIN out' : i \in Nat
  <2>1. \A i \in DOMAIN out' : i \in Nat
    BY <1>1, SeqFacts DEF OutStep
  <2>2. \A i \in DOMAIN out, j \in New : i < j /\ i \in Nat /\ j \in Nat
    BY <1>1, <2>1 DEF OutStep, New
  <2> QED BY <2>1, <2>2
<1>4. \A i \in Responses' : i \in Responses \/ i \in New
  BY <1>2 DEF Responses
<1>5. \A i \in Responses : i \in Responses' /\ out'[i] = out[i] /\ i \in DOMAIN out
  BY <1>1 DEF Responses, OutStep
\* What is added goes after what is there.
<1>6. ASSUME NEW i \in DOMAIN out, out[i].form \in {"headers", "data"}
      PROVE  /\ \A j \in Responses' : out'[j].id = out'[i].id /\ j < i => ~out'[j].end
             /\ out'[i].form = "headers" <=> \A j \in Responses' : out'[j].id = out'[i].id => i <= j
  <2>1. /\ out'[i] = out[i]
        /\ \A j \in Responses : out[j].id = out[i].id /\ j < i => ~out[j].end
        /\ out[i].form = "headers" <=> \A j \in Responses : out[j].id = out[i].id => i <= j
    BY <1>1, <1>6 DEF FramesInOrder, OutStep
  <2>2. \A j \in Responses' : out'[j].id = out'[i].id /\ j < i => ~out'[j].end
    BY <1>3, <1>4, <1>5, <2>1
  <2>3. (\A j \in Responses' : out'[j].id = out'[i].id => i <= j)
           <=> (\A j \in Responses : out[j].id = out[i].id => i <= j)
    BY <1>3, <1>4, <1>5, <2>1
  <2> QED BY <2>1, <2>2, <2>3
<1>7. ASSUME NEW id, NEW pieces \in Nat, AddsFrames(id, pieces), \A i \in Responses : out[i].id # id,
             NEW i \in New
      PROVE  /\ \A j \in Responses' : out'[j].id = out'[i].id /\ j < i => ~out'[j].end
             /\ out'[i].form = "headers" <=> \A j \in Responses' : out'[j].id = out'[i].id => i <= j
  <2>1. \A n \in New : /\ n \in (Len(out) + 1)..(Len(out) + 1 + pieces) /\ out'[n].id = id
                       /\ out'[n].form = IF n = Len(out) + 1 THEN "headers" ELSE "data"
                       /\ out'[n].end <=> pieces # 0 /\ n = Len(out) + 1 + pieces
    BY <1>7 DEF AddsFrames
  <2>2. \A j \in Responses' : out'[j].id = id => j \in New
    BY <1>4, <1>5, <1>7
  <2>3. Len(out) \in Nat /\ DOMAIN out = 1..Len(out)
    BY SeqFacts DEF Kinds
  <2>4. \A j \in Responses' : out'[j].id = out'[i].id /\ j < i => ~out'[j].end
    <3>1. ASSUME NEW j \in Responses', out'[j].id = id, j < i PROVE ~out'[j].end
      <4>1. j \in New /\ j # Len(out) + 1 + pieces
        BY <2>1, <2>2, <2>3, <3>1
      <4>2. out'[j].end <=> pieces # 0 /\ j = Len(out) + 1 + pieces
        BY <2>1, <4>1
      <4> QED BY <4>1, <4>2
    <3> QED BY <2>1, <3>1
  <2>5. ASSUME out'[i].form = "headers"
        PROVE  \A j \in Responses' : out'[j].id = out'[i].id => i <= j
    <3>1. i = Len(out) + 1
      BY <2>1, <2>5
    <3>2. ASSUME NEW j \in New PROVE i <= j
      <4>1. j \in (Len(out) + 1)..(Len(out) + 1 + pieces)
        BY <2>1
      <4> QED BY <2>3, <3>1, <4>1
    <3> QED BY <2>1, <2>2, <3>2
  <2>6. ASSUME out'[i].form # "headers"
        PROVE  ~ \A j \in Responses' : out'[j].id = out'[i].id => i <= j
    <3>1. i \in (Len(out) + 1)..(Len(out) + 1 + pieces) /\ i # Len(out) + 1
      BY <2>1, <2>6
    <3>2. PICK l \in Nat : l = Len(out) + 1
      BY <2>3
    <3>3. l \in New
      <4>1. Len(out') \in Nat /\ DOMAIN out' = 1..Len(out')
        BY <1>1, SeqFacts DEF OutStep
      <4>2. i \in 1..Len(out') /\ l < i
        BY <2>3, <3>1, <3>2, <4>1 DEF New
      <4>3. l \in 1..Len(out') /\ l \notin 1..Len(out)
        BY <2>3, <3>2, <4>1, <4>2
      <4> QED BY <2>3, <4>1, <4>3 DEF New
    <3>4. out'[l].id = out'[i].id /\ out'[l].form = "headers" /\ ~(i <= l)
      BY <2>1, <2>3, <3>1, <3>2, <3>3
    <3>5. l \in Responses'
      BY <3>3, <3>4 DEF Responses, New
    <3> QED BY <3>4, <3>5
  <2> QED BY <2>4, <2>5, <2>6
<1>8. ASSUME \A n \in New : out'[n].form \notin {"headers", "data"}
      PROVE  FramesInOrder'
  <2> SUFFICES ASSUME NEW i \in DOMAIN out', out'[i].form \in {"headers", "data"}
               PROVE  /\ \A j \in Responses' : out'[j].id = out'[i].id /\ j < i => ~out'[j].end
                      /\ out'[i].form = "headers" <=>
                           \A j \in Responses' : out'[j].id = out'[i].id => i <= j
    BY DEF FramesInOrder
  <2> QED BY <1>2, <1>6, <1>8
<1>9. CASE Quiet
  BY <1>8, <1>9 DEF Quiet
<1>10. ASSUME protocol # "external", NEW n \in Nat \ {0}, Read(n)
      PROVE  New = {}
  BY <1>10, ReadFacts
<1>11. CASE ProcessFrame
  <2>1. PICK id : id = Lowest(frames)
    OBVIOUS
  <2>2. \A n \in New : out'[n].form \in {"settings", "rst"}
    BY <1>11, <2>1, ProcessFrameFacts
  <2> QED BY <1>8, <2>2
<1>12. CASE HandleRequest
  <2>1. PICK id : id = Lowest(reqs)
    OBVIOUS
  <2>2. CASE New = {}
    BY <1>8, <2>2
  <2>3. CASE AddsText(id)
    BY <1>8, <2>3 DEF AddsText
  <2>4. ASSUME protocol = "http2", NEW pieces \in Nat, AddsFrames(id, pieces)
        PROVE  FramesInOrder'
    <3>1. id \in reqs
      BY <1>12, <2>1, HandleRequestFacts
    <3>2. \A i \in Responses : out[i].id # id
      <4>1. \A i \in Responses : out[i].id < id /\ out[i].id \in Nat
        BY <3>1, Items, Bounds DEF Order, Responses
      <4> QED BY <4>1
    <3> SUFFICES ASSUME NEW i \in DOMAIN out', out'[i].form \in {"headers", "data"}
                 PROVE  /\ \A j \in Responses' : out'[j].id = out'[i].id /\ j < i => ~out'[j].end
                        /\ out'[i].form = "headers" <=>
                             \A j \in Responses' : out'[j].id = out'[i].id => i <= j
      BY DEF FramesInOrder
    <3>3. CASE i \in New
      BY <1>7, <2>4, <3>2, <3>3
    <3>4. CASE i \in DOMAIN out /\ out'[i] = out[i]
      BY <1>6, <3>4
    <3> QED BY <1>2, <3>3, <3>4
  <2> QED BY <1>12, <2>1, <2>2, <2>3, <2>4, RequestAdds
<1> QED BY <1>8, <1>9, <1>10, <1>11, <1>12, Classes

LEMMA ResetsRightStep ==
  ASSUME TypeOK, Kinds, Paired, Streamed, ResetsRight, [Next]_allVars
  PROVE  ResetsRight'
<1>1. Steady /\ OutStep /\ 1..pos \subseteq 1..pos'
  BY Classes, PosGrows DEF Steady
<1>2. \A i \in DOMAIN out' : (i \in DOMAIN out /\ out'[i] = out[i]) \/ i \in New
  BY <1>1, OutIs
<1>3. \A o \in 1..pos : (Opens(o)' <=> Opens(o)) /\ sent'[o] = sent[o]
  BY <1>1, OpensStays, PosGrows
<1>4. ASSUME \A n \in New : out'[n].form = "rst" =>
               \E o \in 1..pos : /\ Opens(o) /\ sent[o].sid = out'[n].sid
                                 /\ sent[o].type \in {"PRIORITY", "SETTINGS"}
      PROVE  ResetsRight'
  <2> SUFFICES ASSUME NEW i \in DOMAIN out', out'[i].form = "rst"
               PROVE  \E o \in 1..pos' : /\ Opens(o)' /\ sent'[o].sid = out'[i].sid
                                         /\ sent'[o].type \in {"PRIORITY", "SETTINGS"}
    BY DEF ResetsRight
  <2>1. \E o \in 1..pos : /\ Opens(o) /\ sent[o].sid = out'[i].sid
                          /\ sent[o].type \in {"PRIORITY", "SETTINGS"}
    BY <1>2, <1>4 DEF ResetsRight
  <2> QED BY <1>1, <1>3, <2>1
<1>5. CASE Quiet
  BY <1>4, <1>5 DEF Quiet
<1>6. ASSUME protocol # "external", NEW n \in Nat \ {0}, Read(n)
      PROVE  New = {}
  BY <1>6, ReadFacts
<1>7. CASE ProcessFrame
  <2>1. PICK id : id = Lowest(frames)
    OBVIOUS
  <2>2. /\ protocol = "http2" /\ id \in frames /\ \A j \in frames : id <= j
        /\ \A n \in New : /\ out'[n].sid = sent[id].sid
                          /\ out'[n].form = "rst" => StreamType(id) \in {"SETTINGS", "PRIORITY"}
    BY <1>7, <2>1, ProcessFrameFacts
  <2>3. id \in 1..pos /\ id \in Nat /\ pos \in Nat
    BY <2>2, Items
  <2>4. ASSUME StreamType(id) \in {"SETTINGS", "PRIORITY"}
        PROVE  \E o \in 1..pos : /\ Opens(o) /\ sent[o].sid = sent[id].sid
                                 /\ sent[o].type \in {"PRIORITY", "SETTINGS"}
    <3>1. CASE StreamsOf(sent[id].sid) = {}
      <4>1. Opens(id)
        <5>1. ASSUME NEW l \in 1..(id - 1) PROVE l \in 1..pos \ frames
          <6>1. l < id /\ l \in 1..pos
            BY <2>3
          <6> QED BY <6>1, <2>2, <2>3
        <5> QED BY <5>1, <3>1, <2>2 DEF Streamed, Opens
      <4> QED BY <4>1, <2>3, <2>4, <3>1 DEF StreamType
    <3>2. CASE StreamsOf(sent[id].sid) # {}
      <4>1. PICK n \in DOMAIN streams : streams[n].sid = sent[id].sid /\ streams[n].type = StreamType(id)
        BY <3>2, StreamFacts DEF StreamType
      <4>2. PICK o \in 1..pos \ frames :
              Opens(o) /\ sent[o].sid = streams[n].sid /\ sent[o].type = streams[n].type
        BY <2>2 DEF Streamed
      <4> QED BY <2>4, <4>1, <4>2
    <3> QED BY <3>1, <3>2
  <2> QED BY <1>4, <2>2, <2>4
<1>8. CASE HandleRequest
  <2>1. PICK id : id = Lowest(reqs)
    OBVIOUS
  <2>2. \A n \in New : out'[n].form \in {"text", "headers", "data"}
    BY <1>8, <2>1, HandleRequestFacts
  <2> QED BY <1>4, <2>2
<1> QED BY <1>4, <1>5, <1>6, <1>7, <1>8, Classes

LEMMA OnFirstStreamStep ==
  ASSUME TypeOK, Kinds, Paired, Order, Streamed, Framed, TypeOK', Framed',
         OnFirstStream, [Next]_allVars
  PROVE  OnFirstStream'
<1>1. FramesOnFirst /\ FramesInOrder /\ ResetsRight
  BY OnFirstIs
<1>2. FramesOnFirst' /\ FramesInOrder' /\ ResetsRight'
  BY <1>1, FramesOnFirstStep, FramesInOrderStep, ResetsRightStep
<1> QED BY <1>2, OnFirstIsNext


\* Complete in parts.
AllComplete == peer = "here" /\ process = "up" => \A id \in handled : Complete(id)

Ends(id) == {i \in AnswersTo(id) : out[i].end}
InText(id) == sent[id].k = "text" \/ \E i \in AnswersTo(id) : out[i].form = "text"
Opened(id) == \E j \in 1..id : sent[j].type = "HEADERS" /\ Opener(sent[j].sid) = j

LEMMA CompleteIs ==
  \A id : Complete(id) <=>
    /\ Silent(id) => AnswersTo(id) = {}
    /\ ~Silent(id) /\ InText(id) => Cardinality(AnswersTo(id)) = 1
    /\ ~Silent(id) /\ ~InText(id) =>
         /\ Opened(id) => AnswersTo(id) # {}
         /\ AnswersTo(id) # {} => (Cardinality(Ends(id)) = 1 <=> ~Bare(id))
<1> TAKE id
<1> DEFINE mine == AnswersTo(id)
           open == (\E j \in 1..id : sent[j].type = "HEADERS" /\ Opener(sent[j].sid) = j) => mine # {}
           ends == mine # {} => (Cardinality(Ends(id)) = 1 <=> ~Bare(id))
<1>1. CASE Silent(id)
  <2>1. Complete(id) <=> mine = {}
    BY <1>1 DEF Complete
  <2> QED BY <1>1, <2>1
<1>2. CASE ~Silent(id) /\ InText(id)
  <2>1. Complete(id) <=> Cardinality(mine) = 1
    BY <1>2, Zenon DEF Complete, InText
  <2> QED BY <1>2, <2>1
<1>3. CASE ~Silent(id) /\ ~InText(id)
  <2>1. Complete(id) <=> open /\ ends
    BY <1>3, Zenon DEF Complete, InText, Ends
  <2> QED BY <1>3, <2>1 DEF Opened
<1> QED BY <1>1, <1>2, <1>3

LEMMA CompleteIsNext ==
  (\A id : Complete(id) <=>
     /\ Silent(id) => AnswersTo(id) = {}
     /\ ~Silent(id) /\ InText(id) => Cardinality(AnswersTo(id)) = 1
     /\ ~Silent(id) /\ ~InText(id) =>
          /\ Opened(id) => AnswersTo(id) # {}
          /\ AnswersTo(id) # {} => (Cardinality(Ends(id)) = 1 <=> ~Bare(id)))'
BY CompleteIs, PTL


\* Whether a stream was opened with HEADERS, up to frame id, does not change.
LEMMA OpenedStays ==
  ASSUME TypeOK, Kinds, TypeOK', Steady, protocol = "http2", NEW id \in 1..pos
  PROVE  /\ Opened(id)' <=> Opened(id)
         /\ Opened(id) <=> \E j \in 1..id : sent[j].type = "HEADERS" /\ Opens(j)
<1>1. /\ pos \in Nat /\ 1..id \subseteq 1..pos /\ 1..pos \subseteq 1..pos' /\ UNCHANGED protocol
      /\ \A j \in 1..pos : sent'[j] = sent[j]
  BY PosGrows, Items DEF Steady, buildVars
<1>2. \A j \in 1..pos : Opens(j)' <=> Opens(j)
  BY OpensStays
<1>3. \A j \in 1..pos : Opener(sent[j].sid) = j <=> Opens(j)
  BY OpenerOpens
<1>4. \A j \in 1..pos : Opener(sent[j].sid)' = j <=> Opens(j)'
  BY <1>1, OpenerOpensNext
<1>5. Opened(id) <=> \E j \in 1..id : sent[j].type = "HEADERS" /\ Opens(j)
  BY <1>1, <1>3 DEF Opened
<1>6. Opened(id)' <=> \E j \in 1..id : sent'[j].type = "HEADERS" /\ Opens(j)'
  BY <1>1, <1>4 DEF Opened
<1> QED BY <1>1, <1>2, <1>5, <1>6

\* A complete answer stays one, if nothing is added to it.
LEMMA CompleteStays ==
  ASSUME TypeOK, Kinds, TypeOK', Steady, handled \subseteq handled',
         \A h \in handled' \ handled, q \in handled : q < h,
         \A n \in New : out'[n].form \in {"text", "headers", "data"} => out'[n].id \notin handled,
         NEW id \in handled, Complete(id)
  PROVE  Complete(id)'
<1>1. /\ id \in 1..pos /\ id \in Nat /\ handled \subseteq 1..pos
      /\ \A i \in handled : i \in Nat /\ sent'[i] = sent[i]
      /\ protocol \in {"text", "http2"} /\ UNCHANGED <<protocol, checker>>
      /\ sent[id].k = "text" <=> protocol = "text"
  BY Items, PosGrows, RequestType DEF Steady, buildVars
<1>2. AnswersTo(id)' = AnswersTo(id) /\ \A i \in AnswersTo(id) : out'[i] = out[i]
  <2>1. \A i \in DOMAIN out' : (i \in DOMAIN out /\ out'[i] = out[i]) \/ i \in New
    BY OutIs DEF Steady
  <2>2. \A i \in DOMAIN out : i \in DOMAIN out' /\ out'[i] = out[i]
    BY DEF Steady, OutStep
  <2> QED BY <2>1, <2>2 DEF AnswersTo, Responses
<1>3. SignedIn(id)' <=> SignedIn(id)
  <2>1. SignedIn(id) => SignedIn(id)'
    BY StaySignedIn
  <2>2. ASSUME NEW i \in handled', i <= id PROVE i \in handled
    <3> SUFFICES ASSUME i \notin handled PROVE FALSE
      OBVIOUS
    <3>1. id < i
      OBVIOUS
    <3>2. i \in Nat
      <4>1. handled' \subseteq 1..pos' /\ pos' \in Nat
        BY PosGrows DEF TypeOK, SocketTypeOK, WebTypeOK
      <4> QED BY <4>1
    <3> QED BY <2>2, <3>1, <3>2, <1>1
  <2>3. SignedIn(id)' => SignedIn(id)
    BY <1>1, <2>2 DEF SignedIn
  <2> QED BY <2>1, <2>3
<1>4. (Silent(id)' <=> Silent(id)) /\ (Bare(id)' <=> Bare(id))
  BY <1>1, <1>3 DEF Silent, Bare
<1>5. (InText(id)' <=> InText(id)) /\ Ends(id)' = Ends(id)
  BY <1>1, <1>2 DEF InText, Ends
<1>6. ~InText(id) => (Opened(id)' <=> Opened(id))
  BY <1>1, OpenedStays DEF InText
<1> QED BY <1>2, <1>4, <1>5, <1>6, CompleteIs, CompleteIsNext

\* When a request is handled, each stream the peer opened is one of the server's.
LEMMA StreamIsThere ==
  ASSUME TypeOK, Kinds, Streamed, protocol = "http2", frames = {},
         NEW j \in 1..pos, sent[j].type = "HEADERS", Opens(j)
  PROVE  StreamOfType("HEADERS") # {}
<1>1. PICK n \in DOMAIN streams : streams[n].sid = sent[j].sid
  BY DEF Streamed, StreamsOf
<1>2. PICK o \in 1..pos : Opens(o) /\ sent[o].sid = streams[n].sid /\ sent[o].type = streams[n].type
  BY DEF Streamed
<1>3. o = j
  BY <1>1, <1>2, OpenerIs
<1> DEFINE all == {i \in DOMAIN streams : streams[i].type = "HEADERS"}
<1>4. all \subseteq Nat /\ all # {}
  BY <1>2, <1>3, StreamFacts
<1>5. Lowest(all) \in all /\ \A i \in all : Lowest(all) <= i
  BY <1>4, LowestIs
<1> QED BY <1>5 DEF StreamOfType


\* An answer in frames is complete: the stream is ended once, but for one without
\* pieces.
LEMMA FramesComplete ==
  ASSUME IsSeq(out), process' = "up", peer = "here",
         NEW id, NEW pieces \in Nat, AddsFrames(id, pieces)
  PROVE  /\ StreamOfType("HEADERS") # {} => New # {}
         /\ \A n \in New : out'[n].form # "text"
         /\ New # {} => (Cardinality({n \in New : out'[n].end}) = 1 <=> pieces # 0)
<1> DEFINE first == Len(out) + 1
           last == Len(out) + 1 + pieces
           S == {n \in New : out'[n].end}
<1>1. Len(out) \in Nat
  BY SeqFacts
<1>2. first \in Nat /\ last \in Nat /\ first <= last
  BY <1>1
<1>3. /\ New # {} => StreamOfType("HEADERS") # {}
      /\ \A n \in New : out'[n].form = IF n = first THEN "headers" ELSE "data"
      /\ \A n \in New : out'[n].end <=> pieces # 0 /\ n = last
      /\ StreamOfType("HEADERS") # {} => New = first..last
  BY DEF AddsFrames
<1> HIDE DEF first, last
<1>4. first \in first..last /\ last \in first..last
  BY <1>2
<1>5. ASSUME New # {}
      PROVE  Cardinality(S) = 1 <=> pieces # 0
  <2>1. last \in New
    BY <1>3, <1>4, <1>5
  <2>2. CASE pieces = 0
    <3>1. S = {}
      BY <1>3, <2>2
    <3>2. Cardinality(S) = 0
      BY <3>1, FS_EmptySet
    <3> QED BY <3>2, <2>2
  <2>3. CASE pieces # 0
    <3>1. S = {last}
      BY <1>3, <2>1, <2>3
    <3>2. Cardinality(S) = 1
      BY <3>1, FS_Singleton
    <3> QED BY <3>2, <2>3
  <2> QED BY <2>2, <2>3
<1> QED BY <1>3, <1>4, <1>5

\* A request is answered completely.
LEMMA CompleteNew ==
  ASSUME TypeOK, Kinds, TypeOK', Order, Streamed, Remembered', HandleRequest, Steady,
         NEW id, id = Lowest(reqs), process' = "up", peer = "here"
  PROVE  Complete(id)'
<1>1. /\ process = "up" /\ frames = {} /\ id \in reqs /\ UNCHANGED <<protocol, checker, sent, pos>>
      /\ handled' = handled \cup {id} /\ OutStep
      /\ \A n \in New : out'[n].id = id /\ out'[n].form \in {"text", "headers", "data"}
  BY HandleRequestFacts DEF buildVars
<1>2. /\ id \in 1..pos /\ id \in Nat /\ IsSeq(out) /\ pos \in Nat
      /\ protocol \in {"text", "http2"}
      /\ sent[id].k = "text" <=> protocol = "text"
  BY <1>1, Items, RequestType DEF Kinds
\* Its answers are the new ones.
<1>3. AnswersTo(id)' = New
  <2>1. \A i \in Responses : out[i].id # id
    <3>1. \A i \in Responses : out[i].id < id /\ out[i].id \in Nat
      BY <1>1, Items, Bounds DEF Order, Responses
    <3> QED BY <3>1, <1>2
  <2>2. \A i \in DOMAIN out' : (i \in DOMAIN out /\ out'[i] = out[i]) \/ i \in New
    BY <1>1, OutIs
  <2>3. New \subseteq DOMAIN out'
    BY DEF New
  <2> QED BY <1>1, <2>1, <2>2, <2>3 DEF AnswersTo, Responses
\* The connection knows whether it was allowed.
<1>4. checker => (SignedIn(id)' <=> authed')
  <2>1. \A i \in handled' : i <= id
    <3>1. \A i \in handled : i < id /\ i \in Nat
      BY <1>1, Items DEF Order
    <3> QED BY <3>1, <1>1, <1>2
  <2>2. checker => (authed' <=> \E i \in handled' : GoodCredentials(i)')
    BY <1>1 DEF Remembered
  <2> QED BY <2>1, <2>2 DEF SignedIn, GoodCredentials
<1>5. Silent(id)' <=> /\ sent[id].method = "FORM" /\ sent[id].path \notin {"shutdown", "garbled"}
                      /\ checker => authed'
  BY <1>1, <1>4 DEF Silent
<1>6. Bare(id)' <=> Bare(id)
  BY <1>1 DEF Bare
<1>7. ASSUME ~Silent(id)', AddsText(id)
      PROVE  Complete(id)'
  <2>1. New = {Len(out) + 1} /\ \A n \in New : out'[n].form = "text"
    BY <1>7 DEF AddsText
  <2>2. Cardinality(AnswersTo(id)') = 1
    BY <1>3, <2>1, FS_Singleton
  <2>3. InText(id)'
    BY <1>3, <2>1 DEF InText
  <2> QED BY <1>7, <2>2, <2>3, CompleteIsNext
<1>8. ASSUME ~Silent(id)', sent[id].k # "text",
             NEW pieces \in Nat, AddsFrames(id, pieces), pieces = 0 <=> Bare(id)
      PROVE  Complete(id)'
  <2>1. /\ StreamOfType("HEADERS") # {} => New # {}
        /\ \A n \in New : out'[n].form # "text"
        /\ New # {} => (Cardinality({n \in New : out'[n].end}) = 1 <=> pieces # 0)
    BY <1>2, <1>8, FramesComplete
  <2>2. ~InText(id)'
    BY <1>1, <1>3, <1>8, <2>1 DEF InText
  <2>3. Opened(id)' => New # {}
    <3>1. protocol = "http2" /\ 1..id \subseteq 1..pos
      BY <1>2, <1>8
    <3>2. Opened(id)' <=> \E j \in 1..id : sent[j].type = "HEADERS" /\ Opens(j)
      BY <1>2, <3>1, OpenedStays
    <3> QED BY <1>1, <2>1, <3>1, <3>2, StreamIsThere
  <2>4. Ends(id)' = {n \in New : out'[n].end}
    BY <1>3 DEF Ends
  <2>5. New # {} => (Cardinality(Ends(id)') = 1 <=> ~Bare(id)')
    BY <1>6, <1>8, <2>1, <2>4
  <2> QED BY <1>3, <1>8, <2>2, <2>3, <2>5, CompleteIsNext
<1>9. "shutdown" \notin DOMAIN Chunks /\ "garbled" \notin DOMAIN Chunks
  BY WebServerAssumption DEF NoFiles
<1>10. ASSUME ~Silent(id)', NEW status, NEW pieces \in Nat, Reply(id, status, pieces),
              status = 401 \/ (pieces = 0 <=> Bare(id))
       PROVE  Complete(id)'
  <2>1. \/ AddsText(id)
        \/ sent[id].k # "text" /\ status # 401 /\ AddsFrames(id, pieces)
    BY <1>1, <1>10, ReplyAdds
  <2> QED BY <1>7, <1>8, <1>10, <2>1
<1>11. CASE sent[id].path = "garbled" /\ Reply(id, 400, 1)
  <2>1. ~Silent(id)' /\ ~Bare(id) /\ 1 \in Nat
    BY <1>5, <1>9, <1>11 DEF Bare
  <2> QED BY <1>10, <1>11, <2>1
<1>12. CASE checker /\ ~authed' /\ Reply(id, 401, 1)
  <2>1. ~Silent(id)' /\ 1 \in Nat
    BY <1>5, <1>12
  <2> QED BY <1>10, <1>12, <2>1
<1>13. CASE sent[id].path = "shutdown" /\ \E status \in Statuses : Reply(id, status, 1)
  <2>1. ~Silent(id)' /\ ~Bare(id) /\ 1 \in Nat
    BY <1>5, <1>9, <1>13 DEF Bare
  <2> QED BY <1>10, <1>13, <2>1
<1>14. CASE /\ sent[id].method # "FORM"
            /\ \E status \in Statuses, pieces \in Nat :
                 Reply(id, status, pieces) /\ (pieces = 0 <=> Bare(id))
  <2>1. ~Silent(id)'
    BY <1>5, <1>14
  <2> QED BY <1>10, <1>14, <2>1
<1>15. CASE /\ sent[id].path \notin {"shutdown", "garbled"} /\ (checker => authed')
            /\ sent[id].method = "FORM" /\ UNCHANGED <<out, process>>
  <2>1. Silent(id)'
    BY <1>5, <1>15
  <2>2. New = {}
    BY <1>15 DEF New
  <2> QED BY <1>3, <2>1, <2>2, CompleteIsNext
<1> QED BY <1>11, <1>12, <1>13, <1>14, <1>15, RequestCases


LEMMA CompleteStep ==
  ASSUME TypeOK, Kinds, Paired, Order, Streamed, TypeOK', Remembered', AllComplete, [Next]_allVars
  PROVE  AllComplete'
<1> SUFFICES ASSUME peer' = "here", process' = "up", NEW id \in handled'
             PROVE  Complete(id)'
  BY DEF AllComplete
<1>1. Steady
  BY Classes
<1>2. peer = "here"
  BY <1>1, Bounds DEF Steady
\* A dead process handles nothing.
<1>3. handled # {} => process = "up"
  <2> SUFFICES ASSUME handled # {} PROVE process = "up"
    OBVIOUS
  <2>1. protocol \in {"text", "http2"}
    BY DEF Kinds
  <2>2. CASE UNCHANGED allVars
    BY <2>2 DEF allVars, vars, webVars
  <2>3. CASE (\E item \in Vocabulary[protocol] : Send(item)) \/ Leave \/ ReadEnd \/ ReadPart
    BY <2>3 DEF Send, Leave, ReadEnd, ReadPart, Idle, Serving
  <2>4. CASE ProcessFrame \/ HandleRequest
    BY <2>4 DEF ProcessFrame, HandleRequest, Serving
  <2>5. ASSUME NEW n \in Nat \ {0}, Read(n) PROVE process = "up"
    BY <2>5 DEF Read, Idle, Serving
  <2>6. ASSUME NEW n \in Nat, NEW cut \in BOOLEAN, ReadSocket(n, cut) \/ ReadRest(n, cut)
        PROVE  process = "up"
    BY <2>6 DEF ReadSocket, ReadRest, Idle, Serving
  <2> QED BY <2>1, <2>2, <2>3, <2>4, <2>5, <2>6, NextCases
<1>4. ASSUME handled \subseteq handled', \A h \in handled' \ handled, q \in handled : q < h,
             \A n \in New : out'[n].form \in {"text", "headers", "data"} => out'[n].id \notin handled,
             id \in handled
      PROVE  Complete(id)'
  <2>1. Complete(id)
    BY <1>2, <1>3, <1>4 DEF AllComplete
  <2> QED BY <1>1, <1>4, <2>1, CompleteStays
<1>5. CASE Quiet
  BY <1>4, <1>5 DEF Quiet
<1>6. ASSUME protocol # "external", NEW n \in Nat \ {0}, Read(n)
      PROVE  Complete(id)'
  <2>1. UNCHANGED handled /\ New = {}
    BY <1>6, ReadFacts
  <2> QED BY <1>4, <2>1
<1>7. CASE ProcessFrame
  <2>1. PICK next : next = Lowest(frames)
    OBVIOUS
  <2>2. UNCHANGED handled /\ \A n \in New : out'[n].form \in {"settings", "rst"}
    BY <1>7, <2>1, ProcessFrameFacts
  <2> QED BY <1>4, <2>2
<1>8. CASE HandleRequest
  <2>1. PICK next : next = Lowest(reqs)
    OBVIOUS
  <2>2. /\ next \in reqs /\ handled' = handled \cup {next}
        /\ \A n \in New : out'[n].id = next
    BY <1>8, <2>1, HandleRequestFacts
  <2>3. (\A q \in handled : q < next) /\ next \notin handled
    <3>1. (\A q \in handled : q < next) /\ next \in Nat
      BY <2>2, Items DEF Order
    <3> QED BY <3>1
  <2>4. CASE id \in handled
    BY <1>4, <2>2, <2>3, <2>4
  <2>5. CASE id = next
    BY <1>1, <1>2, <1>8, <2>1, <2>5, CompleteNew
  <2> QED BY <2>2, <2>4, <2>5
<1> QED BY <1>5, <1>6, <1>7, <1>8, Classes

LEMMA AnswersStep ==
  ASSUME TypeOK, Kinds, Paired, Order, Streamed, Framed, TypeOK', Framed', Remembered',
         Answers, [Next]_allVars
  PROVE  Answers'
<1>1. InTurn /\ OnFirstStream /\ AllComplete
  BY DEF Answers, InTurn, AllComplete
<1>2. InTurn' /\ OnFirstStream' /\ AllComplete'
  BY <1>1, InTurnStep, OnFirstStreamStep, CompleteStep
<1> QED BY <1>2 DEF Answers, InTurn, AllComplete

-----------------------------------------------------------------------------
(* The invariant.                                                          *)

LEMMA InitInv ==
  ASSUME Init
  PROVE  IInv
<1>1. /\ protocol \in DOMAIN Vocabulary
      /\ checker \in (IF protocol \in {"text", "http2"} THEN BOOLEAN ELSE {FALSE})
      /\ debug \in BOOLEAN /\ process = "up" /\ peer = "here" /\ conn = "open"
      /\ authed = FALSE /\ streams = <<>> /\ sent = <<>> /\ pos = 0
      /\ frames = {} /\ reqs = {} /\ out = <<>> /\ handled = {} /\ shut = {}
      /\ torn = FALSE /\ whole = {} /\ split = FALSE /\ noise = FALSE
      /\ eclient = "null" /\ site = "none" /\ fwd = <<>> /\ done = 0
      /\ ended = {} /\ dropped = {}
  BY DEF Init, SocketInit, WebInit
<1>2. /\ DOMAIN <<>> = {} /\ Len(<<>>) = 0 /\ 1..0 = {} /\ Cardinality({}) = 0
      /\ \A S : <<>> \in Seq(S)
  <2>1. \A S : <<>> \in Seq(S)
    OBVIOUS
  <2>2. DOMAIN <<>> = {} /\ Len(<<>>) = 0
    OBVIOUS
  <2> QED BY <2>1, <2>2, FS_EmptySet
<1>3. TypeOK
  <2>1. MaxItems[protocol] \in Nat
    BY <1>1, WebServerAssumption
  <2>2. WebTypeOK
    <3>1. streams \in Seq([sid : Nat, type : Opening]) /\ sent \in Seq(Vocabulary[protocol])
      BY <1>1, <1>2
    <3>2. /\ \A i, j \in DOMAIN streams : streams[i].sid = streams[j].sid => i = j
          /\ \A i \in DOMAIN out : out[i].id \in 1..pos
      BY <1>1, <1>2
    <3>3. Len(sent) <= MaxItems[protocol] /\ pos \in 0..Len(sent)
      BY <1>1, <1>2, <2>1
    <3>4. {checker, debug, authed} \subseteq BOOLEAN
      BY <1>1
    <3> QED BY <1>1, <3>1, <3>2, <3>3, <3>4 DEF WebTypeOK
  <2>3. SocketTypeOK
    BY <1>1, <2>2 DEF SocketTypeOK
  <2>4. fwd \in Seq([id : 1..pos, link : Nat])
    BY <1>1, <1>2
  <2>5. done \in 0..Len(fwd) /\ ended = 1..Cardinality(ended) /\ dropped \subseteq 1..pos
    BY <1>1, <1>2
  <2> QED BY <1>1, <2>3, <2>4, <2>5 DEF TypeOK
<1>4. Responses = {} /\ Messages = {}
  BY <1>1, <1>2 DEF Responses, Messages
<1>5. Kinds
  <2>1. IsSeq(out)
    BY <1>1, <1>2 DEF IsSeq
  <2> QED BY <1>1, <2>1 DEF Kinds
<1>6. Order /\ Remembered
  BY <1>1, <1>4 DEF Order, Remembered
<1>7. Paired
  <2>1. Cardinality(ended) \in Nat
    BY <1>1, <1>2
  <2> QED BY <1>1, <1>2, <2>1 DEF Paired
<1>8. Streamed /\ Framed
  BY <1>1, <1>2 DEF Streamed, Framed
<1>9. Guarded
  BY <1>1, <1>2 DEF Guarded
<1>10. Answers
  <2>1. OnFirstStream
    BY <1>1, <1>2 DEF OnFirstStream
  <2> QED BY <1>1, <1>4, <2>1 DEF Answers
<1>11. Echo /\ Survives
  BY <1>1, <1>4 DEF Echo, Survives
<1>12. Forwarded
  BY <1>1, <1>2 DEF Forwarded
<1> QED BY <1>3, <1>5, <1>6, <1>7, <1>8, <1>9, <1>10, <1>11, <1>12 DEF IInv

LEMMA NextInv ==
  ASSUME IInv, [Next]_allVars
  PROVE  IInv'
<1>1. /\ TypeOK /\ Kinds /\ Order /\ Remembered /\ Paired /\ Streamed /\ Framed
      /\ Guarded /\ Answers /\ Echo /\ Forwarded /\ Survives
  BY DEF IInv
<1>2. TypeOK' /\ Kinds' /\ Paired'
  BY <1>1, TypeStep, KindsStep, PairedStep
<1>3. Order' /\ Remembered' /\ Streamed' /\ Framed'
  BY <1>1, OrderStep, RememberedStep, StreamedStep, FramedStep
<1>4. Answers'
  BY <1>1, <1>2, <1>3, AnswersStep
<1>5. Guarded' /\ Survives'
  BY <1>1, GuardedStep, SurvivesStep
<1>6. Echo' /\ Forwarded'
  BY <1>1, EchoStep, ForwardedStep
<1> QED BY <1>2, <1>3, <1>4, <1>5, <1>6 DEF IInv

\* The invariant holds of every connection, of whichever kind.
THEOREM Invariance == Spec => []IInv
<1>1. Init => IInv
  BY InitInv
<1>2. IInv /\ [Next]_allVars => IInv'
  BY NextInv
<1> QED BY <1>1, <1>2, PTL DEF Spec

\* Requests, frames, streams and answers name what the peer sent and the server
\* read, and the external server answers what it was sent.
THEOREM TypeCorrect == Spec => []TypeOK
<1>1. IInv => TypeOK
  BY DEF IInv
<1> QED BY <1>1, Invariance, PTL

\* isAuth_ is only set by good credentials, so a private site serves nothing and
\* is not shut down before the peer has proved who it is.
THEOREM SiteIsPrivate == Spec => []Guarded
<1>1. IInv => Guarded
  BY DEF IInv
<1> QED BY <1>1, Invariance, PTL

\* handleRequest answers each request once and in order, on the stream that
\* findStreamByType finds, and ends that stream, but for what Complete names.
THEOREM RequestsAreAnswered == Spec => []Answers
<1>1. IInv => Answers
  BY DEF IInv
<1> QED BY <1>1, Invariance, PTL

\* processReceived sends every message that a read held exactly back as it was.
THEOREM MessagesComeBack == Spec => []Echo
<1>1. IInv => Echo
  BY DEF IInv
<1> QED BY <1>1, Invariance, PTL

\* relayExDataReceived and proxyDataReceived lose and reorder nothing but what
\* the end of the external server's connection explains.
THEOREM PiecesAreForwarded == Spec => []Forwarded
<1>1. IInv => Forwarded
  BY DEF IInv
<1> QED BY <1>1, Invariance, PTL

\* NOTREACHED, CHECK and the assertions of a debug build are met only where a
\* peer gave the process a reason.
THEOREM EndsAreExcused == Spec => []Survives
<1>1. IInv => Survives
  BY DEF IInv
<1> QED BY <1>1, Invariance, PTL

=============================================================================
