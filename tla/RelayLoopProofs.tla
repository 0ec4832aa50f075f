-------------------------- MODULE RelayLoopProofs --------------------------
(***************************************************************************)
(* Proofs about RelayLoop.  A browser comes to one relay at most: as the   *)
(* one the relay was made for, or as the one it was handed to.  All that   *)
(* is left of a browser is in that relay, and a browser whose request did  *)
(* not reach the device has left nothing there that could be answered.     *)
(***************************************************************************)
EXTENDS RelayLoop, SequenceTheorems, FiniteSetTheorems, WellFoundedInduction, TLAPS

Held == {"device", "add", "set"}

\* What the threads hold in each step, and how far a relay is.
Kinds ==
  /\ http.step = "wait" => http = Waiting
  /\ http.step \in {"find"} \cup Held => http.b \in Browsers
  /\ http.step \in Held \cup {"stop", "join"} => http.i \in 1..made
  /\ http.b \notin Sockets
  /\ socket.step = "wait" <=> socket = NoSocket
  /\ socket.step = "new" => socket.b \in Sockets
  /\ inner.step \in {"stop", "join"} => inner.i \in 1..made
  /\ asked \in [Browsers -> Nat]
  /\ pending \in [Relays -> Seq(Browsers \X Nat)]
  /\ got \subseteq Browsers \X (Browsers \X Nat)
  /\ \A i \in Relays :
       /\ i <= made <=> thread[i] # "none"
       /\ i <= made <=> first[i] \in Browsers
       /\ thread[i] \in {"none", "start", "create"} => device[i] = "none"
       /\ thread[i] \in {"accept", "assign", "register"} => device[i] = "here"
       /\ posted[i] # <<>> => device[i] \in {"here", "gone"}
  /\ http.step \in {"add", "set"} => device[http.i] \in {"here", "gone"}
  /\ \A b \in Browsers : browser[b] \in {"here", "gone"} <=> asked[b] >= 1

\* Browser b is in the queue s; relay i passed a request of b to the device.
In(b, s) == \E n \in DOMAIN s : s[n] = b
Asks(b, i) == \E n \in DOMAIN pending[i] : pending[i][n][1] = b

\* Browser b was given to relay i and is in some field of it.
Trace(b, i) ==
  \/ first[i] = b \/ primary[i] = b \/ i \in home[b]
  \/ In(b, posted[i]) \/ Asks(b, i)

\* A thread is on its way with browser b.
Carried(b) == http.b = b \/ socket.b = b

\* A browser comes to one relay at most, and to none before it was taken there.
OneRelay ==
  /\ \A b \in Browsers, i, j \in Relays : Trace(b, i) /\ Trace(b, j) => i = j
  /\ \A b \in Browsers, i \in Relays :
       Trace(b, i) => ~Carried(b) /\ browser[b] \in {"here", "gone"}
  /\ \A b \in Browsers : Carried(b) => browser[b] = "here"

\* The first request of b did not reach the device yet.
Early(i) ==
  thread[i] \in {"start", "create", "accept", "assign", "register"} \/ device[i] = "asked"
Fresh(b) ==
  \/ Carried(b)
  \/ \E i \in Relays : first[i] = b /\ Early(i)
  \/ \E i \in Relays : In(b, posted[i])

\* Then it is the only one of b.
FirstRequest ==
  /\ \A b \in Browsers : Fresh(b) =>
       /\ asked[b] = 1
       /\ \A i \in Relays : ~Asks(b, i)
       /\ \A r \in got : r[2][1] # b
  /\ \A i \in Relays :
       /\ \A n \in DOMAIN posted[i], j \in Relays : posted[i][n] # first[j]
       /\ \A n, m \in DOMAIN posted[i] : posted[i][n] = posted[i][m] => n = m

\* Relay i holds b, or nobody waits for b any more.
Keeps(i, b) == primary[i] = b \/ browser[b] = "gone" \/ b \in stranded

\* A relay holds the browsers whose requests are in it.
Holder ==
  \A i \in Relays :
    /\ \A n \in DOMAIN posted[i] : Keeps(i, posted[i][n])
    /\ \A n \in DOMAIN pending[i] : Keeps(i, pending[i][n][1])
    /\ thread[i] = "register" => Keeps(i, first[i])

\* The inductive invariant.
IInv ==
  /\ TypeOK
  /\ Kinds
  /\ OneRelay
  /\ FirstRequest
  /\ Holder
  /\ NoMixedResponses
  /\ NoneForgotten

-----------------------------------------------------------------------------
(* Sequences, and numbers of relays.                                       *)

LEMMA AppendFacts ==
  ASSUME NEW S, NEW s \in Seq(S), NEW e \in S
  PROVE  /\ Append(s, e) \in Seq(S)
         /\ Len(s) + 1 \in DOMAIN Append(s, e) /\ Len(s) + 1 \notin DOMAIN s
         /\ Append(s, e)[Len(s) + 1] = e
         /\ \A n \in DOMAIN s : n \in DOMAIN Append(s, e) /\ Append(s, e)[n] = s[n]
         /\ \A n \in DOMAIN Append(s, e) : n \in DOMAIN s \/ n = Len(s) + 1
BY AppendProperties, LenProperties

LEMMA TailFacts ==
  ASSUME NEW S, NEW s \in Seq(S), s # <<>>
  PROVE  /\ Head(s) \in S /\ Tail(s) \in Seq(S)
         /\ 1 \in DOMAIN s /\ s[1] = Head(s)
         /\ \A n \in DOMAIN Tail(s) : n + 1 \in DOMAIN s /\ n + 1 # 1 /\ Tail(s)[n] = s[n + 1]
         /\ \A n \in DOMAIN s : n # 1 => n - 1 \in DOMAIN Tail(s) /\ Tail(s)[n - 1] = s[n]
<1>1. Len(s) \in Nat \ {0} /\ DOMAIN s = 1..Len(s)
  BY EmptySeq, LenProperties
<1>2. /\ Head(s) \in S /\ Tail(s) \in Seq(S) /\ Len(Tail(s)) = Len(s) - 1
      /\ \A i \in 1..Len(Tail(s)) : Tail(s)[i] = s[i + 1]
  BY HeadTailProperties
<1>3. DOMAIN Tail(s) = 1..(Len(s) - 1)
  BY <1>2, LenProperties
<1>4. s[1] = Head(s)
  BY <1>1
<1> QED BY <1>1, <1>2, <1>3, <1>4

\* The first of some relays.
LEMMA LeastRelay ==
  ASSUME NEW V, V \subseteq Nat, V # {}
  PROVE  (CHOOSE i \in V : \A j \in V : i <= j) \in V
<1>1. \E x \in V : \A y \in V : ~(y < x)
  <2>1. PICK x \in V : \A y \in V : ~(<<y, x>> \in OpToRel(<, Nat))
    BY NatLessThanWellFounded, WFMin
  <2>2. \A y \in Nat : y < x => <<y, x>> \in OpToRel(<, Nat)
    BY Zenon DEF OpToRel
  <2>3. \A y \in V : ~(y < x)
    BY <2>1, <2>2, Zenon
  <2> QED BY <2>3, Zenon
<1>2. \E x \in V : \A y \in V : x <= y
  BY <1>1
<1> QED BY <1>2

\* There is a number left for the relay of a browser that has none.
LEMMA RelayLeft ==
  ASSUME NEW m \in Nat, NEW f, NEW b \in Browsers,
         \A i \in 1..m : f[i] \in Browsers \ {b},
         \A i, j \in 1..m : f[i] = f[j] => i = j
  PROVE  m + 1 \in 1..Cardinality(Browsers) /\ Cardinality(Browsers) \in Nat
<1> DEFINE g == [i \in 1..m |-> f[i]]
<1>1. IsFiniteSet(Browsers)
  BY RelayLoopAssumption
<1>2. /\ IsFiniteSet(Browsers \ {b})
      /\ Cardinality(Browsers \ {b}) = Cardinality(Browsers) - 1
  BY <1>1, FS_RemoveElement
<1>3. g \in Injection(1..m, Browsers \ {b})
  BY DEF Injection, IsInjective
<1> HIDE DEF g
<1>4. Cardinality(1..m) <= Cardinality(Browsers \ {b})
  BY <1>2, <1>3, FS_Injection
<1>5. Cardinality(1..m) = m
  BY FS_Interval
<1>6. Cardinality(Browsers) \in Nat
  BY <1>1, FS_CardinalityType
<1> QED BY <1>2, <1>4, <1>5, <1>6

-----------------------------------------------------------------------------
(* The types and the kinds, in parts.                                      *)

GoodHttp(h) ==
  /\ h \in [step : {"wait", "find", "device", "add", "set", "stop", "join"},
            b : Browsers \cup {NoBrowser}, i : Nat]
  /\ h.step = "wait" => h = Waiting
  /\ h.step \in {"find"} \cup Held => h.b \in Browsers
  /\ h.step \in Held \cup {"stop", "join"} => h.i \in 1..made
  /\ h.b \notin Sockets
  /\ h.step \in {"add", "set"} => device[h.i] \in {"here", "gone"}

GoodSocket(s) ==
  /\ s \in [step : {"wait", "new"}, b : Sockets \cup {NoBrowser}]
  /\ s.step = "wait" <=> s = NoSocket
  /\ s.step = "new" => s.b \in Sockets

CallKinds == GoodHttp(http) /\ GoodSocket(socket)

EndKinds ==
  /\ process \in {"up", "abort", "crash"}
  /\ inner \in [step : {"here", "next", "stop", "join", "freed"}, i : Relays \cup {0}]
  /\ inner.step \in {"stop", "join"} => inner.i \in 1..made
  /\ left \subseteq 1..made /\ told \subseteq 1..made /\ handler \subseteq 1..made
  /\ missed \in BOOLEAN

RelayKinds ==
  /\ made \in 0..Cardinality(Browsers)
  /\ first \in [Relays -> Browsers \cup {NoBrowser}]
  /\ thread \in [Relays -> {"none", "start", "create", "bound", "loop", "accept", "assign",
                            "register", "failed", "ended"}]
  /\ device \in [Relays -> {"none", "asked", "here", "gone"}]
  /\ \A i \in Relays :
       /\ i <= made <=> thread[i] # "none"
       /\ i <= made <=> first[i] \in Browsers
       /\ thread[i] \in {"none", "start", "create"} => device[i] = "none"
       /\ thread[i] \in {"accept", "assign", "register"} => device[i] = "here"

DataKinds ==
  /\ browser \in [Browsers -> {"away", "here", "refused", "gone"}]
  /\ asked \in [Browsers -> Nat]
  /\ \A b \in Browsers : asked[b] \in 0..MaxAsks[b]
  /\ primary \in [Relays -> Browsers \cup {NoBrowser}]
  /\ posted \in [Relays -> Seq(Browsers)]
  /\ pending \in [Relays -> Seq(Browsers \X Nat)]
  /\ \A i \in Relays : \A n \in DOMAIN pending[i] :
       pending[i][n][2] \in 1..asked[pending[i][n][1]]
  /\ home \in [Browsers -> SUBSET Relays]
  /\ got \subseteq Browsers \X (Browsers \X Nat)
  /\ \A r \in got : r[2][2] \in 1..asked[r[2][1]]
  /\ stranded \subseteq Browsers
  /\ \A i \in Relays : posted[i] # <<>> => device[i] \in {"here", "gone"}
  /\ \A b \in Browsers : browser[b] \in {"here", "gone"} <=> asked[b] >= 1

LEMMA KindsParts ==
  TypeOK /\ Kinds <=> CallKinds /\ EndKinds /\ RelayKinds /\ DataKinds
<1>1. ASSUME pending \in [Relays -> Seq(Browsers \X Nat)]
      PROVE  (\A i \in Relays : \A n \in DOMAIN pending[i] :
                \E b \in Browsers : pending[i][n] \in AskedOf(b))
             <=> (\A i \in Relays : \A n \in DOMAIN pending[i] :
                    pending[i][n][2] \in 1..asked[pending[i][n][1]])
  <2>1. ASSUME NEW i \in Relays, NEW n \in DOMAIN pending[i]
        PROVE  (\E b \in Browsers : pending[i][n] \in AskedOf(b))
               <=> pending[i][n][2] \in 1..asked[pending[i][n][1]]
    <3>1. pending[i][n] \in Browsers \X Nat
      BY <1>1, <2>1
    <3>2. \A b : pending[i][n] \in AskedOf(b) <=> \E k \in 1..asked[b] : pending[i][n] = <<b, k>>
      BY DEF AskedOf
    <3> QED BY <3>1, <3>2
  <2> QED BY <2>1
<1>2. ASSUME got \subseteq Browsers \X (Browsers \X Nat)
      PROVE  (\A r \in got : r[1] \in Browsers /\ \E b \in Browsers : r[2] \in AskedOf(b))
             <=> (\A r \in got : r[2][2] \in 1..asked[r[2][1]])
  <2>1. ASSUME NEW r \in got
        PROVE  (r[1] \in Browsers /\ \E b \in Browsers : r[2] \in AskedOf(b))
               <=> r[2][2] \in 1..asked[r[2][1]]
    <3>1. r[1] \in Browsers /\ r[2] \in Browsers \X Nat
      BY <1>2, <2>1
    <3>2. \A b : r[2] \in AskedOf(b) <=> \E k \in 1..asked[b] : r[2] = <<b, k>>
      BY DEF AskedOf
    <3> QED BY <3>1, <3>2
  <2> QED BY <2>1
<1> QED BY <1>1, <1>2 DEF TypeOK, Kinds, CallKinds, GoodHttp, GoodSocket, EndKinds, RelayKinds,
                          DataKinds

\* The numbers of relays.
LEMMA Numbers ==
  /\ Cardinality(Browsers) \in Nat
  /\ Relays \subseteq Nat \ {0} /\ 0 \notin Relays
  /\ RelayKinds => /\ made \in Nat /\ 1..made \subseteq Relays
                   /\ \A i \in Relays : i \in 1..made <=> i <= made
<1>1. Cardinality(Browsers) \in Nat
  BY RelayLoopAssumption, FS_CardinalityType
<1> QED BY <1>1 DEF Relays, RelayKinds

\* What only grows.
Progress ==
  /\ made \in Nat /\ made' \in {made, made + 1}
  /\ \A i \in Relays : device[i] \in {"here", "gone"} => device'[i] \in {"here", "gone"}
  /\ \A b \in Browsers : /\ asked'[b] >= asked[b]
                         /\ browser[b] = "gone" => browser'[b] = "gone"
  /\ stranded \subseteq stranded'
  /\ got \subseteq got'

LEMMA CallersProgress ==
  ASSUME RelayKinds, DataKinds, Callers
  PROVE  Progress
<1> USE DEF madeVars, loopVars, dataVars, browserVars
<1>1. /\ device' = device /\ got' = got /\ stranded \subseteq stranded'
      /\ made' \in {made, made + 1}
  BY DEF Callers, Malformed, Request, SocketRequest, Taken, ReadyPrimary, SkipSocket, ReadyDevice,
         AddRequest, SetClient, SetPrimary, NewRelay, NewSocketRelay, Make, UseAfterFree
<1>2. \/ UNCHANGED <<browser, asked>>
      \/ \E b \in Browsers : browser[b] = "away" /\ (Refused(b) \/
            (browser' = [browser EXCEPT ![b] = "here"] /\ asked' = [asked EXCEPT ![b] = 1]))
  BY DEF Callers, Malformed, Request, SocketRequest, Taken, ReadyPrimary, SkipSocket, ReadyDevice,
         AddRequest, SetClient, SetPrimary, NewRelay, NewSocketRelay, Make, UseAfterFree
<1>3. made \in Nat
  BY Numbers
<1>4. \A b \in Browsers :
        asked'[b] >= asked[b] /\ (browser[b] = "gone" => browser'[b] = "gone")
  <2> SUFFICES ASSUME NEW b \in Browsers
               PROVE  asked'[b] >= asked[b] /\ (browser[b] = "gone" => browser'[b] = "gone")
    OBVIOUS
  <2>1. asked[b] \in Nat /\ (browser[b] = "away" => asked[b] = 0)
    BY DEF DataKinds
  <2>2. CASE UNCHANGED <<browser, asked>>
    BY <2>1, <2>2
  <2>3. ASSUME NEW c \in Browsers, browser[c] = "away", Refused(c)
        PROVE  asked'[b] >= asked[b] /\ (browser[b] = "gone" => browser'[b] = "gone")
    BY <2>1, <2>3 DEF Refused, DataKinds
  <2>4. ASSUME NEW c \in Browsers, browser[c] = "away",
               browser' = [browser EXCEPT ![c] = "here"], asked' = [asked EXCEPT ![c] = 1]
        PROVE  asked'[b] >= asked[b] /\ (browser[b] = "gone" => browser'[b] = "gone")
    <3>1. asked'[b] = IF b = c THEN 1 ELSE asked[b]
      BY <2>4 DEF DataKinds
    <3> QED BY <2>1, <2>4, <3>1 DEF DataKinds
  <2> QED BY <1>2, <2>2, <2>3, <2>4
<1> QED BY <1>1, <1>3, <1>4 DEF Progress

LEMMA RelayProgress ==
  ASSUME RelayKinds, DataKinds, NEW i \in Relays, Relay(i)
  PROVE  Progress
<1> USE DEF madeVars, loopVars, dataVars, browserVars
<1>1. made' = made /\ made \in Nat
  BY Numbers DEF Relay, CreateHandler, CreateServer, Exec, Accepted, DeviceRefuses, AcceptedCheck,
         AcceptedSet, AcceptedRegister, RunPosted, DeviceAnswers, DeviceCloses, AskAgain,
         BrowserCloses, LoopEnds
<1>2. stranded \subseteq stranded' /\ got \subseteq got'
  BY DEF Relay, CreateHandler, CreateServer, Exec, Accepted, DeviceRefuses, AcceptedCheck,
         AcceptedSet, SetPrimary, AcceptedRegister, RunPosted, Callback, DeviceAnswers, DeviceCloses,
         AskAgain, BrowserCloses, LoopEnds
<1>3. \A j \in Relays : device[j] \in {"here", "gone"} => device'[j] \in {"here", "gone"}
  <2>1. \/ device' = device
        \/ device' = [device EXCEPT ![i] = "asked"] /\ thread[i] = "create"
        \/ device' = [device EXCEPT ![i] = "here"]
        \/ device' = [device EXCEPT ![i] = "gone"]
    BY DEF Relay, CreateHandler, CreateServer, Exec, Accepted, DeviceRefuses, AcceptedCheck,
           AcceptedSet, AcceptedRegister, RunPosted, DeviceAnswers, DeviceCloses, AskAgain,
           BrowserCloses, LoopEnds
  <2> QED BY <2>1 DEF RelayKinds
<1>4. \A b \in Browsers :
        asked'[b] >= asked[b] /\ (browser[b] = "gone" => browser'[b] = "gone")
  <2>1. \/ UNCHANGED <<browser, asked>>
        \/ \E b \in Browsers : asked' = [asked EXCEPT ![b] = @ + 1] /\ browser' = browser
        \/ \E b \in Browsers : browser' = [browser EXCEPT ![b] = "gone"] /\ asked' = asked
    BY DEF Relay, CreateHandler, CreateServer, Exec, Accepted, DeviceRefuses, AcceptedCheck,
           AcceptedSet, AcceptedRegister, RunPosted, DeviceAnswers, DeviceCloses, AskAgain,
           BrowserCloses, LoopEnds
  <2> SUFFICES ASSUME NEW b \in Browsers
               PROVE  asked'[b] >= asked[b] /\ (browser[b] = "gone" => browser'[b] = "gone")
    OBVIOUS
  <2>2. asked[b] \in Nat
    BY DEF DataKinds
  <2>3. asked'[b] = asked[b] \/ asked'[b] = asked[b] + 1
    BY <2>1 DEF DataKinds
  <2>4. browser[b] = "gone" => browser'[b] = "gone"
    BY <2>1 DEF DataKinds
  <2> QED BY <2>2, <2>3, <2>4
<1> QED BY <1>1, <1>2, <1>3, <1>4 DEF Progress

LEMMA DeletingProgress ==
  ASSUME RelayKinds, DataKinds, Delete \/ Deleting
  PROVE  Progress /\ UNCHANGED <<socket, browserVars, madeVars, thread, device, primary, dataVars,
                                 process, stranded>>
<1> USE DEF madeVars, loopVars, dataVars, browserVars, callVars
<1>1. UNCHANGED <<socket, browserVars, madeVars, thread, device, primary, dataVars, process,
                  stranded>>
  BY DEF Delete, Deleting, NextRelay, StopRelay, JoinRelay
<1>2. made \in Nat /\ \A b \in Browsers : asked[b] \in Nat
  BY Numbers DEF DataKinds
<1> QED BY <1>1, <1>2 DEF Progress

LEMMA NextProgress ==
  ASSUME RelayKinds, DataKinds, Next
  PROVE  Progress
BY CallersProgress, RelayProgress, DeletingProgress DEF Next

-----------------------------------------------------------------------------
(* The kinds are kept.                                                     *)

LEMMA HttpKept ==
  ASSUME GoodHttp(http), RelayKinds, Progress, http' = http
  PROVE  GoodHttp(http)'
<1>1. 1..made \subseteq Relays /\ 1..made \subseteq 1..made'
  BY Numbers DEF Progress
<1> QED BY <1>1 DEF GoodHttp, Held, Progress

LEMMA CallersHttp ==
  ASSUME GoodHttp(http), EndKinds, RelayKinds, Progress, Callers
  PROVE  GoodHttp(http)'
<1> USE DEF madeVars, loopVars, dataVars, browserVars, callVars
<1>0. CASE http' = http
  BY <1>0, HttpKept
<1>1. 1..made \subseteq Relays /\ 1..made \subseteq 1..made' /\ NoBrowser \notin Browsers
      /\ Sockets \subseteq Browsers
  BY Numbers, RelayLoopAssumption DEF Progress
<1>2. GoodHttp(Waiting)'
  BY <1>1 DEF GoodHttp, Waiting, Held
<1>3. ASSUME NEW b \in (Browsers \ Sockets) \cup {NoBrowser}, NEW i \in 1..made, LetGo(i, b)
      PROVE  GoodHttp(http)'
  <2>1. i \in Nat
    BY DEF RelayKinds
  <2>2. CASE i \notin left
    BY <1>1, <1>3, <2>1, <2>2 DEF LetGo, GoodHttp, Held
  <2>3. CASE i \in left /\ b = NoBrowser
    BY <1>2, <1>3, <2>3 DEF LetGo
  <2>4. CASE i \in left /\ b # NoBrowser
    BY <1>1, <1>3, <2>1, <2>4 DEF LetGo, GoodHttp, Held
  <2> QED BY <2>2, <2>3, <2>4
<1>4. ASSUME NEW b \in Browsers, Request(b)
      PROVE  GoodHttp(http)'
  <2>1. CASE Registered
    BY <1>1, <1>4, <2>1 DEF Request, GoodHttp, Held
  <2>2. CASE ~Registered
    BY <1>0, <1>4, <2>2 DEF Request
  <2> QED BY <2>1, <2>2
<1>5. CASE ReadyPrimary /\ left \subseteq 1..made
  <2>1. http.b \in Browsers \ Sockets /\ http.i \in 1..made
    BY <1>5 DEF ReadyPrimary, Usable, GoodHttp
  <2>2. CASE LetGo(http.i, http.b)
    BY <1>3, <2>1, <2>2
  <2>3. CASE http' = [http EXCEPT !.step = "device"]
    <3>1. /\ http' = [step |-> "device", b |-> http.b, i |-> http.i]
      BY <2>3 DEF GoodHttp
    <3> QED BY <1>1, <2>1, <3>1 DEF GoodHttp, Held
  <2> QED BY <1>0, <1>5, <2>2, <2>3 DEF ReadyPrimary
<1>6. CASE SkipSocket
  <2>1. http' = [step |-> "find", b |-> http.b, i |-> http.i + 1]
    BY <1>6 DEF SkipSocket, GoodHttp
  <2> QED BY <1>1, <1>6, <2>1 DEF GoodHttp, SkipSocket, Held
<1>7. CASE ReadyDevice
  <2>1. http.b \in Browsers \ Sockets /\ http.i \in 1..made
    BY <1>7 DEF ReadyDevice, GoodHttp, Held
  <2>2. CASE LetGo(http.i, http.b)
    BY <1>3, <2>1, <2>2
  <2>3. CASE http' = [http EXCEPT !.step = "add"] /\ device[http.i] = "here"
    <3>1. http' = [step |-> "add", b |-> http.b, i |-> http.i] /\ device' = device
      BY <1>7, <2>3 DEF GoodHttp, ReadyDevice
    <3> QED BY <1>1, <2>1, <2>3, <3>1 DEF GoodHttp, Held
  <2> QED BY <1>0, <1>7, <2>2, <2>3 DEF ReadyDevice
<1>8. CASE AddRequest
  <2>1. http.b \in Browsers \ Sockets /\ http.i \in 1..made /\ device[http.i] \in {"here", "gone"}
    BY <1>8 DEF AddRequest, GoodHttp, Held
  <2>2. CASE LetGo(http.i, NoBrowser)
    BY <1>3, <2>1, <2>2
  <2>3. CASE http' = [http EXCEPT !.step = "set"]
    <3>1. http' = [step |-> "set", b |-> http.b, i |-> http.i] /\ device' = device
      BY <1>8, <2>3 DEF GoodHttp, AddRequest
    <3> QED BY <1>1, <2>1, <3>1 DEF GoodHttp, Held
  <2> QED BY <1>8, <2>2, <2>3 DEF AddRequest
<1>9. CASE SetClient
  BY <1>3, <1>9 DEF SetClient, GoodHttp, Held
<1>10. \/ http' = http \/ http' = Waiting
       \/ \E b \in Browsers : Request(b)
       \/ ReadyPrimary \/ SkipSocket \/ ReadyDevice \/ AddRequest \/ SetClient
  BY DEF Callers, Malformed, SocketRequest, NewRelay, NewSocketRelay, UseAfterFree
<1>11. left \subseteq 1..made
  BY DEF EndKinds
<1> QED BY <1>0, <1>2, <1>4, <1>5, <1>6, <1>7, <1>8, <1>9, <1>10, <1>11

LEMMA NextHttp ==
  ASSUME GoodHttp(http), EndKinds, RelayKinds, Progress, Next
  PROVE  GoodHttp(http)'
<1> USE DEF madeVars, loopVars, dataVars, browserVars, callVars
<1>1. ASSUME NEW i \in Relays, Relay(i)
      PROVE  http' = http
  BY <1>1 DEF Relay, CreateHandler, CreateServer, Exec, Accepted, DeviceRefuses, AcceptedCheck,
           AcceptedSet, AcceptedRegister, RunPosted, DeviceAnswers, DeviceCloses, AskAgain,
           BrowserCloses, LoopEnds
<1>2. CASE Delete \/ NextRelay
  BY <1>2, HttpKept DEF Delete, NextRelay
<1>3. 1..made \subseteq 1..made' /\ Sockets \subseteq Browsers /\ NoBrowser \notin Browsers
  BY RelayLoopAssumption DEF Progress
<1>4. CASE StopRelay
  <2>1. CASE http' = [http EXCEPT !.step = "join"] /\ http.step = "stop"
    <3>1. http' = [step |-> "join", b |-> http.b, i |-> http.i]
      BY <2>1 DEF GoodHttp
    <3> QED BY <1>3, <2>1, <3>1 DEF GoodHttp, Held
  <2> QED BY <1>4, <2>1, HttpKept DEF StopRelay
<1>5. CASE JoinRelay
  <2>1. CASE http.step = "join" /\ http.b # NoBrowser /\ http' = [http EXCEPT !.step = "find"]
    <3>1. http' = [step |-> "find", b |-> http.b, i |-> http.i]
      BY <2>1 DEF GoodHttp
    <3> QED BY <1>3, <2>1, <3>1 DEF GoodHttp, Held
  <2>2. CASE http' = Waiting
    BY <1>3, <2>2 DEF GoodHttp, Waiting, Held
  <2> QED BY <1>5, <2>1, <2>2, HttpKept DEF JoinRelay
<1> QED BY <1>1, <1>2, <1>4, <1>5, CallersHttp, HttpKept DEF Next, Deleting

LEMMA NextSocket ==
  ASSUME GoodSocket(socket), Next
  PROVE  GoodSocket(socket)'
<1> USE DEF madeVars, loopVars, dataVars, browserVars, callVars
<1>1. ASSUME NEW b \in Browsers, SocketRequest(b)
      PROVE  GoodSocket(socket)'
  <2>1. b \in Sockets
    BY <1>1 DEF SocketRequest
  <2> QED BY <1>1, <2>1 DEF SocketRequest, GoodSocket, NoSocket
<1>2. CASE socket' = NoSocket
  BY <1>2 DEF GoodSocket, NoSocket
<1>3. CASE socket' = socket
  BY <1>3 DEF GoodSocket
<1>4. ASSUME NEW i \in Relays, Relay(i)
      PROVE  socket' = socket
  BY <1>4 DEF Relay, CreateHandler, CreateServer, Exec, Accepted, DeviceRefuses, AcceptedCheck,
           AcceptedSet, AcceptedRegister, RunPosted, DeviceAnswers, DeviceCloses, AskAgain,
           BrowserCloses, LoopEnds
<1>5. CASE Callers
  <2>1. \/ socket' = socket \/ socket' = NoSocket
        \/ \E b \in Browsers : SocketRequest(b)
    BY <1>5 DEF Callers, Malformed, Request, ReadyPrimary, SkipSocket, ReadyDevice,
         AddRequest, SetClient, NewRelay, NewSocketRelay, UseAfterFree
  <2> QED BY <1>1, <1>2, <1>3, <2>1
<1>6. CASE Delete \/ Deleting
  BY <1>3, <1>6 DEF Delete, Deleting, NextRelay, StopRelay, JoinRelay
<1> QED BY <1>3, <1>4, <1>5, <1>6 DEF Next

LEMMA NextEnd ==
  ASSUME GoodHttp(http), EndKinds, RelayKinds, Progress, Next, RelayKinds'
  PROVE  EndKinds'
<1> USE DEF madeVars, loopVars, dataVars, browserVars, callVars, endVars
<1>1. /\ made \in Nat /\ 1..made \subseteq Relays /\ 1..made \subseteq 1..made'
      /\ \A i \in Relays : i \in 1..made <=> i <= made
  BY Numbers DEF Progress
<1>2. process' \in {"up", "abort", "crash"}
  <2>1. ASSUME NEW i \in Relays, Relay(i)
        PROVE  process' = process \/ Crash
    BY <2>1 DEF Relay, CreateHandler, CreateServer, Exec, Accepted, DeviceRefuses, AcceptedCheck,
           AcceptedSet, AcceptedRegister, RunPosted, Callback, DeviceAnswers, DeviceCloses, AskAgain,
           BrowserCloses, LoopEnds
  <2>2. ASSUME Callers
        PROVE  process' = process \/ Crash \/ Abort
    BY <2>2 DEF Callers, Malformed, Request, SocketRequest, Taken, ReadyPrimary, SkipSocket,
         ReadyDevice, AddRequest, SetClient, NewRelay, NewSocketRelay, Make, UseAfterFree
  <2>3. ASSUME Delete \/ Deleting
        PROVE  process' = process
    BY <2>3 DEF Delete, Deleting, NextRelay, StopRelay, JoinRelay
  <2> QED BY <2>1, <2>2, <2>3 DEF Next, EndKinds, Crash, Abort
<1>3. CASE Callers
  <2>1. /\ UNCHANGED <<inner, told, missed, handler>>
        /\ \/ left' = left
           \/ left' = left \cup {made'} /\ made' = made + 1
    BY <1>3 DEF Callers, Malformed, Request, SocketRequest, Taken, ReadyPrimary, SkipSocket,
         ReadyDevice, AddRequest, SetClient, NewRelay, NewSocketRelay, Make, UseAfterFree
  <2>2. left \subseteq 1..made' /\ (made' = made + 1 => made' \in 1..made')
    BY <1>1 DEF EndKinds
  <2>3. left' \subseteq 1..made'
    BY <2>1, <2>2
  <2> QED BY <1>1, <1>2, <2>1, <2>3 DEF EndKinds
<1>4. ASSUME NEW i \in Relays, Relay(i)
      PROVE  EndKinds'
  <2>1. UNCHANGED <<inner, left, told, missed>>
    BY <1>4 DEF Relay, CreateHandler, CreateServer, Exec, Accepted, DeviceRefuses, AcceptedCheck,
           AcceptedSet, AcceptedRegister, RunPosted, DeviceAnswers, DeviceCloses, AskAgain,
           BrowserCloses, LoopEnds
  <2>2. handler' \subseteq handler \cup {i}
    BY <1>4 DEF Relay, CreateHandler, CreateServer, Exec, Accepted, DeviceRefuses, AcceptedCheck,
           AcceptedSet, AcceptedRegister, RunPosted, DeviceAnswers, DeviceCloses, AskAgain,
           BrowserCloses, LoopEnds
  <2>3. CASE thread[i] # "none"
    BY <1>1, <1>2, <2>1, <2>2, <2>3 DEF EndKinds, RelayKinds
  <2>4. CASE handler' = handler
    BY <1>1, <1>2, <2>1, <2>4 DEF EndKinds
  <2> QED
    BY <1>4, <2>3, <2>4 DEF Relay, CreateHandler, CreateServer, Exec, Accepted, DeviceRefuses,
         AcceptedCheck, AcceptedSet, AcceptedRegister, RunPosted, DeviceAnswers, DeviceCloses,
         AskAgain, BrowserCloses, LoopEnds
<1>5. CASE Delete
  BY <1>1, <1>2, <1>5 DEF Delete, EndKinds
<1>6. CASE NextRelay
  <2> DEFINE sockets == {i \in left : first[i] \in Sockets}
             vector == IF sockets # {} THEN sockets ELSE left
             next == IF left = {} THEN 0 ELSE CHOOSE i \in vector : \A j \in vector : i <= j
  <2>1. left # {} => next \in left
    <3>1. vector \subseteq left /\ left \subseteq Nat /\ (left # {} => vector # {})
      BY <1>1 DEF EndKinds
    <3> QED BY <3>1, LeastRelay
  <2>2. /\ inner' = (IF next = 0 THEN [inner EXCEPT !.step = "freed"]
                    ELSE IF http.i = next /\ http.step \in {"device", "add", "set"}
                         THEN inner ELSE [step |-> "stop", i |-> next])
        /\ left' = left \ {next}
        /\ UNCHANGED <<told, missed, handler, made, first>>
        /\ inner.step = "next"
    BY <1>6 DEF NextRelay
  <2>3. next = 0 \/ next \in 1..made
    BY <2>1 DEF EndKinds
  <2> HIDE DEF next
  <2>4. inner' = [inner EXCEPT !.step = "freed"] => inner' = [step |-> "freed", i |-> inner.i]
    BY DEF EndKinds
  <2>5. /\ inner' \in [step : {"here", "next", "stop", "join", "freed"}, i : Relays \cup {0}]
        /\ inner'.step \in {"stop", "join"} => inner'.i \in 1..made
    BY <1>1, <2>2, <2>3, <2>4 DEF EndKinds
  <2> QED BY <1>1, <1>2, <2>2, <2>5 DEF EndKinds
<1>7. CASE StopRelay
  <2>0. UNCHANGED <<made, left, handler>>
    BY <1>7 DEF StopRelay
  <2>1. \/ inner' = inner
        \/ inner.step = "stop" /\ inner' = [inner EXCEPT !.step = "join"]
    BY <1>7, Zenon DEF StopRelay
  <2>2. inner' = [inner EXCEPT !.step = "join"] => inner' = [step |-> "join", i |-> inner.i]
    BY DEF EndKinds
  <2>3. ASSUME NEW i \in 1..made, Stop(i)
        PROVE  told' \subseteq 1..made /\ missed' \in BOOLEAN
    BY <2>3 DEF Stop, EndKinds
  <2>4. told' \subseteq 1..made /\ missed' \in BOOLEAN
    <3>1. \/ inner.step = "stop" /\ Stop(inner.i)
          \/ http.step = "stop" /\ Stop(http.i)
      BY <1>7 DEF StopRelay
    <3> QED BY <2>3, <3>1 DEF EndKinds, GoodHttp
  <2> QED BY <1>1, <1>2, <2>0, <2>1, <2>2, <2>4 DEF EndKinds
<1>8. CASE JoinRelay
  <2>1. /\ UNCHANGED <<made, left, told, missed>>
        /\ inner' = inner \/ inner' = [step |-> "next", i |-> 0]
        /\ handler' \subseteq handler
    BY <1>8 DEF JoinRelay, Over
  <2> QED BY <1>1, <1>2, <2>1 DEF EndKinds
<1> QED BY <1>3, <1>4, <1>5, <1>6, <1>7, <1>8 DEF Next, Deleting

LEMMA MakeKinds ==
  ASSUME RelayKinds, OneRelay, NEW b \in Browsers, Carried(b), Make(b)
  PROVE  /\ RelayKinds'
         /\ made + 1 \in Relays /\ first' = [first EXCEPT ![made + 1] = b]
         /\ first[made + 1] = NoBrowser /\ thread[made + 1] = "none"
<1> USE DEF loopVars
<1>1. /\ made \in Nat /\ 1..made \subseteq Relays
      /\ \A i \in Relays : i \in 1..made <=> i <= made
  BY Numbers
<1>2. \A i \in 1..made : first[i] \in Browsers \ {b}
  BY <1>1 DEF RelayKinds, OneRelay, Trace
<1>3. \A i, j \in 1..made : first[i] = first[j] => i = j
  BY <1>1, <1>2 DEF OneRelay, Trace
<1>4. made + 1 \in 1..Cardinality(Browsers) /\ Cardinality(Browsers) \in Nat
  BY <1>1, <1>2, <1>3, RelayLeft
<1>5. made + 1 \in Relays /\ made + 1 \in 0..Cardinality(Browsers)
  BY <1>1, <1>4 DEF Relays
<1>6. /\ made' = made + 1 /\ device' = device
      /\ first' = [first EXCEPT ![made + 1] = b]
      /\ thread' = [thread EXCEPT ![made + 1] = "start"]
  BY DEF Make
<1>7. \A i \in Relays : i \in Nat
  BY Numbers
<1>8. first[made + 1] = NoBrowser /\ thread[made + 1] = "none"
  BY <1>1, <1>5 DEF RelayKinds
<1>9. ASSUME NEW i \in Relays
      PROVE  /\ i <= made' <=> thread'[i] # "none"
             /\ i <= made' <=> first'[i] \in Browsers
             /\ thread'[i] \in {"none", "start", "create"} => device'[i] = "none"
             /\ thread'[i] \in {"accept", "assign", "register"} => device'[i] = "here"
  <2>1. CASE i = made + 1
    BY <1>1, <1>5, <1>6, <1>8, <2>1 DEF RelayKinds
  <2>2. CASE i # made + 1
    <3>1. i <= made' <=> i <= made
      BY <1>1, <1>6, <1>7, <2>2
    <3>2. thread'[i] = thread[i] /\ first'[i] = first[i] /\ device'[i] = device[i]
      BY <1>6, <2>2 DEF RelayKinds
    <3> QED BY <3>1, <3>2 DEF RelayKinds
  <2> QED BY <2>1, <2>2
<1> QED BY <1>5, <1>6, <1>8, <1>9 DEF RelayKinds

LEMMA NextRelayKinds ==
  ASSUME CallKinds, RelayKinds, OneRelay, Next
  PROVE  RelayKinds'
<1> USE DEF madeVars, loopVars, dataVars, browserVars, callVars, endVars
<1>1. CASE UNCHANGED <<made, first, thread, device>>
  BY <1>1 DEF RelayKinds
<1>2. CASE Delete \/ Deleting
  BY <1>1, <1>2 DEF Delete, Deleting, NextRelay, StopRelay, JoinRelay
<1>3. CASE Callers
  <2>1. CASE NewRelay
    BY <2>1, MakeKinds DEF NewRelay, CallKinds, GoodHttp, Carried
  <2>2. CASE NewSocketRelay
    BY <2>2, MakeKinds, RelayLoopAssumption DEF NewSocketRelay, CallKinds, GoodSocket, Carried
  <2>3. \/ NewRelay \/ NewSocketRelay \/ UNCHANGED <<made, first, thread, device>>
    BY <1>3 DEF Callers, Malformed, Request, SocketRequest, Taken, ReadyPrimary, SkipSocket,
         ReadyDevice, AddRequest, SetClient, UseAfterFree
  <2> QED BY <1>1, <2>1, <2>2, <2>3
<1>4. ASSUME NEW i \in Relays, Relay(i)
      PROVE  RelayKinds'
  <2>1. UNCHANGED <<made, first>> /\ thread[i] # "none"
    BY <1>4 DEF Relay, CreateHandler, CreateServer, Exec, Accepted, DeviceRefuses, AcceptedCheck,
         AcceptedSet, AcceptedRegister, RunPosted, DeviceAnswers, DeviceCloses, AskAgain,
         BrowserCloses, LoopEnds, RelayKinds
  <2>2. \E s \in {"start", "create", "bound", "loop", "accept", "assign", "register", "failed",
                  "ended"}, d \in {"none", "asked", "here", "gone"} :
          /\ thread' = [thread EXCEPT ![i] = s]
          /\ device' = [device EXCEPT ![i] = d]
          /\ s \in {"none", "start", "create"} => d = "none"
          /\ s \in {"accept", "assign", "register"} => d = "here"
    <3>1. /\ thread = [thread EXCEPT ![i] = thread[i]]
          /\ device = [device EXCEPT ![i] = device[i]]
          /\ thread[i] \in {"start", "create", "bound", "loop", "accept", "assign", "register",
                            "failed", "ended"}
          /\ device[i] \in {"none", "asked", "here", "gone"}
          /\ thread[i] \in {"none", "start", "create"} => device[i] = "none"
          /\ thread[i] \in {"accept", "assign", "register"} => device[i] = "here"
      BY <2>1 DEF RelayKinds
    <3>2. CASE CreateHandler(i)
      BY <3>1, <3>2 DEF CreateHandler
    <3>3. CASE CreateServer(i)
      BY <3>1, <3>3 DEF CreateServer
    <3>4. CASE Exec(i) \/ LoopEnds(i)
      BY <3>1, <3>4 DEF Exec, LoopEnds
    <3>5. CASE Accepted(i) \/ DeviceRefuses(i) \/ AcceptedCheck(i) \/ AcceptedSet(i)
      BY <3>1, <3>5 DEF Accepted, DeviceRefuses, AcceptedCheck, AcceptedSet
    <3>6. CASE AcceptedRegister(i) \/ DeviceCloses(i)
      BY <3>1, <3>6 DEF AcceptedRegister, DeviceCloses
    <3>7. CASE UNCHANGED <<thread, device>>
      BY <3>1, <3>7
    <3> QED BY <1>4, <3>2, <3>3, <3>4, <3>5, <3>6, <3>7 DEF Relay, RunPosted, DeviceAnswers, AskAgain,
              BrowserCloses
  <2> QED BY <2>1, <2>2 DEF RelayKinds
<1> QED BY <1>2, <1>3, <1>4 DEF Next

\* A relay at work was made for a browser, which was taken to it.
LEMMA AtWork ==
  ASSUME RelayKinds, DataKinds, OneRelay, NEW i \in Relays,
         thread[i] # "none" \/ device[i] # "none"
  PROVE  first[i] \in Browsers /\ asked[first[i]] >= 1
<1>1. thread[i] # "none"
  BY DEF RelayKinds
<1>2. first[i] \in Browsers
  BY <1>1 DEF RelayKinds
<1>3. browser[first[i]] \in {"here", "gone"}
  BY <1>2 DEF OneRelay, Trace
<1> QED BY <1>2, <1>3 DEF DataKinds

BrowserKinds ==
  /\ browser \in [Browsers -> {"away", "here", "refused", "gone"}]
  /\ asked \in [Browsers -> Nat]
  /\ \A b \in Browsers : asked[b] \in 0..MaxAsks[b]
  /\ \A b \in Browsers : browser[b] \in {"here", "gone"} <=> asked[b] >= 1

LEMMA NextBrowserKinds ==
  ASSUME DataKinds, Next
  PROVE  BrowserKinds'
<1> USE DEF madeVars, loopVars, dataVars, browserVars, callVars, endVars
<1>1. BrowserKinds
  BY DEF DataKinds, BrowserKinds
<1>2. \A b \in Browsers : MaxAsks[b] \in Nat \ {0}
  BY RelayLoopAssumption
<1>3. CASE UNCHANGED <<browser, asked>>
  BY <1>1, <1>3 DEF BrowserKinds
<1>4. ASSUME NEW b \in Browsers, browser[b] = "away", Refused(b)
      PROVE  BrowserKinds'
  BY <1>1, <1>4 DEF BrowserKinds, Refused
<1>5. ASSUME NEW b \in Browsers, browser' = [browser EXCEPT ![b] = "here"],
             asked' = [asked EXCEPT ![b] = 1]
      PROVE  BrowserKinds'
  <2>1. ASSUME NEW c \in Browsers
        PROVE  /\ asked'[c] \in 0..MaxAsks[c]
               /\ browser'[c] \in {"here", "gone"} <=> asked'[c] >= 1
    <3>1. CASE c = b
      BY <1>1, <1>2, <1>5, <3>1 DEF BrowserKinds
    <3>2. CASE c # b
      BY <1>1, <1>5, <3>2 DEF BrowserKinds
    <3> QED BY <3>1, <3>2
  <2> QED BY <1>1, <1>5, <2>1 DEF BrowserKinds
<1>6. CASE Callers
  <2>1. \/ UNCHANGED <<browser, asked>>
        \/ \E b \in Browsers : browser[b] = "away" /\ (Refused(b) \/
              (browser' = [browser EXCEPT ![b] = "here"] /\ asked' = [asked EXCEPT ![b] = 1]))
    BY <1>6 DEF Callers, Malformed, Request, SocketRequest, Taken, ReadyPrimary, SkipSocket,
         ReadyDevice, AddRequest, SetClient, NewRelay, NewSocketRelay, Make, UseAfterFree
  <2> QED BY <1>3, <1>4, <1>5, <2>1
<1>7. ASSUME NEW i \in Relays, NEW b \in Browsers, AskAgain(i, b)
      PROVE  BrowserKinds'
  <2>1. browser' = browser /\ asked' = [asked EXCEPT ![b] = @ + 1] /\ browser[b] = "here"
        /\ asked[b] < MaxAsks[b]
    BY <1>7 DEF AskAgain
  <2>2. ASSUME NEW c \in Browsers
        PROVE  /\ asked'[c] \in 0..MaxAsks[c]
               /\ browser'[c] \in {"here", "gone"} <=> asked'[c] >= 1
    <3>1. CASE c = b
      <4>1. asked'[c] = asked[b] + 1 /\ asked[b] \in Nat /\ MaxAsks[b] \in Nat
        BY <1>1, <1>2, <2>1, <3>1 DEF BrowserKinds
      <4> QED BY <2>1, <3>1, <4>1
    <3>2. CASE c # b
      BY <1>1, <2>1, <3>2 DEF BrowserKinds
    <3> QED BY <3>1, <3>2
  <2>3. asked' \in [Browsers -> Nat]
    BY <1>1, <2>1 DEF BrowserKinds
  <2> QED BY <1>1, <2>1, <2>2, <2>3 DEF BrowserKinds
<1>8. ASSUME NEW i \in Relays, NEW b \in Browsers, BrowserCloses(i, b)
      PROVE  BrowserKinds'
  BY <1>1, <1>8 DEF BrowserCloses, BrowserKinds
<1>9. ASSUME NEW i \in Relays, Relay(i)
      PROVE  BrowserKinds'
  <2>1. \/ UNCHANGED <<browser, asked>>
        \/ \E b \in Browsers : AskAgain(i, b) \/ BrowserCloses(i, b)
    BY <1>9 DEF Relay, CreateHandler, CreateServer, Exec, Accepted, DeviceRefuses, AcceptedCheck,
         AcceptedSet, AcceptedRegister, RunPosted, DeviceAnswers, DeviceCloses, LoopEnds
  <2> QED BY <1>3, <1>7, <1>8, <2>1
<1>10. CASE Delete \/ Deleting
  BY <1>3, <1>10 DEF Delete, Deleting, NextRelay, StopRelay, JoinRelay
<1> QED BY <1>6, <1>9, <1>10 DEF Next

HeldKinds ==
  /\ primary \in [Relays -> Browsers \cup {NoBrowser}]
  /\ posted \in [Relays -> Seq(Browsers)]
  /\ \A i \in Relays : posted[i] # <<>> => device[i] \in {"here", "gone"}
  /\ home \in [Browsers -> SUBSET Relays]
  /\ stranded \subseteq Browsers

\* What a step does to the browsers the relays hold.
LEMMA CallersHeldKinds ==
  ASSUME CallKinds, RelayKinds, DataKinds, Progress, Callers
  PROVE  HeldKinds'
<1> USE DEF madeVars, loopVars, dataVars, browserVars, callVars, endVars
<1>0. HeldKinds
  BY DEF DataKinds, HeldKinds
<1>1. /\ http.step # "wait" /\ http.step \notin {"stop", "join"} => http.b \in Browsers
      /\ socket # NoSocket => socket.b \in Browsers
  BY RelayLoopAssumption DEF CallKinds, GoodHttp, GoodSocket, Held
<1>2. CASE SetClient
  <2>1. http.i \in Relays /\ http.b \in Browsers /\ device[http.i] \in {"here", "gone"}
    BY <1>1, <1>2, Numbers DEF SetClient, CallKinds, GoodHttp, Held
  <2>2. /\ primary' = [primary EXCEPT ![http.i] = http.b]
        /\ posted' = [posted EXCEPT ![http.i] = Append(@, http.b)]
        /\ home' = home /\ device' = device
        /\ stranded' = stranded \cup (IF primary[http.i] \in Browsers
                                     THEN {primary[http.i], http.b} ELSE {})
    BY <1>2 DEF SetClient, SetPrimary
  <2>3. posted[http.i] \in Seq(Browsers)
    BY <1>0, <2>1 DEF HeldKinds
  <2>4. Append(posted[http.i], http.b) \in Seq(Browsers)
    BY <2>1, <2>3, AppendFacts
  <2>5. posted' \in [Relays -> Seq(Browsers)]
    BY <1>0, <2>1, <2>2, <2>4 DEF HeldKinds
  <2>6. \A i \in Relays : posted'[i] # <<>> => device'[i] \in {"here", "gone"}
    BY <1>0, <2>1, <2>2 DEF HeldKinds
  <2>7. primary' \in [Relays -> Browsers \cup {NoBrowser}]
    BY <1>0, <2>1, <2>2 DEF HeldKinds
  <2>8. stranded' \subseteq Browsers
    BY <1>0, <2>1, <2>2 DEF HeldKinds
  <2> QED BY <1>0, <2>2, <2>5, <2>6, <2>7, <2>8 DEF HeldKinds
<1>3. CASE ~SetClient
  <2>1. UNCHANGED <<primary, posted, home, device>>
    BY <1>3 DEF Callers, Malformed, Request, SocketRequest, Taken, ReadyPrimary, SkipSocket,
         ReadyDevice, AddRequest, NewRelay, NewSocketRelay, Make, UseAfterFree
  <2>2. \/ stranded' = stranded
        \/ http.step \in {"find", "add"} /\ stranded' = stranded \cup {http.b}
        \/ socket # NoSocket /\ stranded' = stranded \cup {socket.b}
    BY <1>3 DEF Callers, Malformed, Request, SocketRequest, Taken, ReadyPrimary, SkipSocket,
         ReadyDevice, AddRequest, NewRelay, NewSocketRelay, Make, UseAfterFree
  <2>3. stranded' \subseteq Browsers
    BY <1>0, <1>1, <2>2 DEF HeldKinds
  <2> QED BY <1>0, <2>1, <2>3 DEF HeldKinds
<1> QED BY <1>2, <1>3

\* A request of a browser that has made so many.
Numbered(q, count) == q \in Browsers \X Nat /\ q[2] \in 1..count[q[1]]

AskKinds ==
  /\ \A i \in Relays : /\ pending[i] \in Seq(Browsers \X Nat)
                       /\ \A n \in DOMAIN pending[i] : Numbered(pending[i][n], asked)
  /\ \A r \in got : r \in Browsers \X (Browsers \X Nat) /\ Numbered(r[2], asked)

LEMMA DataParts ==
  DataKinds <=> /\ BrowserKinds /\ HeldKinds /\ AskKinds
                /\ pending \in [Relays -> Seq(Browsers \X Nat)]
<1>1. ASSUME pending \in [Relays -> Seq(Browsers \X Nat)], NEW i \in Relays,
             NEW n \in DOMAIN pending[i]
      PROVE  pending[i][n] \in Browsers \X Nat
  BY <1>1, ElementOfSeq, LenProperties
<1> QED BY <1>1 DEF DataKinds, BrowserKinds, HeldKinds, AskKinds, Numbered

LEMMA StaysNumbered ==
  ASSUME RelayKinds, DataKinds, Progress, BrowserKinds'
  PROVE  \A q : Numbered(q, asked) => Numbered(q, asked')
<1>1. \A b \in Browsers : asked[b] \in Nat /\ asked'[b] \in Nat /\ asked'[b] >= asked[b]
  BY DEF DataKinds, BrowserKinds, Progress
<1> SUFFICES ASSUME NEW q, Numbered(q, asked)
             PROVE  Numbered(q, asked')
  OBVIOUS
<1>2. q \in Browsers \X Nat /\ q[1] \in Browsers /\ q[2] \in 1..asked[q[1]]
  BY DEF Numbered
<1>3. q[2] \in 1..asked'[q[1]]
  BY <1>1, <1>2
<1> QED BY <1>2, <1>3 DEF Numbered

\* A step that changes what waits in one relay.
LEMMA PendingStep ==
  ASSUME DataKinds, \A q : Numbered(q, asked) => Numbered(q, asked'), NEW i \in Relays, NEW s,
         s \in Seq(Browsers \X Nat),
         \A n \in DOMAIN s : Numbered(s[n], asked'),
         pending' = [pending EXCEPT ![i] = s], got' = got
  PROVE  AskKinds' /\ (pending \in [Relays -> Seq(Browsers \X Nat)])'
<1>1. pending' \in [Relays -> Seq(Browsers \X Nat)]
  BY DEF DataKinds
<1>2. AskKinds
  BY DataParts
<1>3. \A j \in Relays : \A n \in DOMAIN pending'[j] : Numbered(pending'[j][n], asked')
  <2>1. ASSUME NEW j \in Relays, NEW n \in DOMAIN pending'[j]
        PROVE  Numbered(pending'[j][n], asked')
    <3>1. CASE j = i
      BY <2>1, <3>1 DEF DataKinds
    <3>2. CASE j # i
      <4>1. pending'[j] = pending[j]
        BY <3>2 DEF DataKinds
      <4> QED BY <1>2, <2>1, <4>1 DEF AskKinds
    <3> QED BY <3>1, <3>2
  <2> QED BY <2>1
<1> QED BY <1>1, <1>2, <1>3 DEF AskKinds

LEMMA PendingAppend ==
  ASSUME DataKinds, NEW i \in Relays, NEW q, Numbered(q, asked'),
         \A p : Numbered(p, asked) => Numbered(p, asked'),
         pending' = [pending EXCEPT ![i] = Append(@, q)], got' = got
  PROVE  AskKinds' /\ (pending \in [Relays -> Seq(Browsers \X Nat)])'
<1>1. q \in Browsers \X Nat
  BY DEF Numbered
<1>2. pending[i] \in Seq(Browsers \X Nat) /\ \A n \in DOMAIN pending[i] : Numbered(pending[i][n], asked)
  BY DataParts DEF AskKinds
<1> DEFINE s == Append(pending[i], q)
<1>3. /\ s \in Seq(Browsers \X Nat) /\ s[Len(pending[i]) + 1] = q
      /\ \A n \in DOMAIN pending[i] : s[n] = pending[i][n]
      /\ \A n \in DOMAIN s : n \in DOMAIN pending[i] \/ n = Len(pending[i]) + 1
  BY <1>1, <1>2, AppendFacts
<1>4. pending' = [pending EXCEPT ![i] = s]
  OBVIOUS
<1> HIDE DEF s
<1>5. \A n \in DOMAIN s : Numbered(s[n], asked')
  BY <1>2, <1>3
<1> QED BY <1>3, <1>4, <1>5, PendingStep

LEMMA PendingEmpty ==
  ASSUME DataKinds, NEW i \in Relays, \A q : Numbered(q, asked) => Numbered(q, asked'),
         pending' = [pending EXCEPT ![i] = <<>>], got' = got
  PROVE  AskKinds' /\ (pending \in [Relays -> Seq(Browsers \X Nat)])'
<1>1. <<>> \in Seq(Browsers \X Nat) /\ DOMAIN <<>> = {}
  OBVIOUS
<1> QED BY <1>1, PendingStep

LEMMA PendingSame ==
  ASSUME DataKinds, \A q : Numbered(q, asked) => Numbered(q, asked'), pending' = pending, got' = got
  PROVE  AskKinds' /\ (pending \in [Relays -> Seq(Browsers \X Nat)])'
BY DataParts DEF AskKinds

\* The callback of setClient for browser b.
LEMMA CallbackKinds ==
  ASSUME DataKinds, NEW i \in Relays, NEW b \in Browsers, asked[b] >= 1, Callback(i, b),
         \A q : Numbered(q, asked) => Numbered(q, asked'), got' = got
  PROVE  /\ AskKinds' /\ (pending \in [Relays -> Seq(Browsers \X Nat)])'
         /\ home' \in [Browsers -> SUBSET Relays]
         /\ stranded' \subseteq Browsers
<1>1. home' \in [Browsers -> SUBSET Relays]
  <2>1. /\ home \in [Browsers -> SUBSET Relays]
        /\ primary[i] \in Browsers \cup {NoBrowser}
    BY DEF DataKinds
  <2>2. \/ home' = home
        \/ /\ primary[i] # NoBrowser
           /\ home' = [home EXCEPT ![primary[i]] = @ \cup {i}]
    BY DEF Callback
  <2> QED BY <2>1, <2>2
<1>2. stranded' \subseteq Browsers
  <2>1. stranded' = stranded \/ stranded' = stranded \cup {b}
    BY DEF Callback
  <2> QED BY <2>1 DEF DataKinds
<1>3. Numbered(<<b, 1>>, asked)
  BY DEF Numbered, DataKinds
<1>4. CASE pending' = pending
  BY <1>1, <1>2, <1>4, PendingSame
<1>5. CASE pending' = [pending EXCEPT ![i] = Append(@, <<b, 1>>)]
  <2>1. AskKinds' /\ (pending \in [Relays -> Seq(Browsers \X Nat)])'
    BY <1>3, <1>5, PendingAppend
  <2> QED BY <1>1, <1>2, <2>1
<1> QED BY <1>4, <1>5 DEF Callback

LEMMA RelayDataKinds ==
  ASSUME RelayKinds, RelayKinds', DataKinds, OneRelay, Progress, BrowserKinds',
         NEW i \in Relays, Relay(i)
  PROVE  DataKinds'
<1> USE DEF madeVars, loopVars, dataVars, browserVars, callVars, endVars
<1>0. HeldKinds /\ AskKinds /\ pending \in [Relays -> Seq(Browsers \X Nat)]
  BY DataParts
<1>p. DataKinds' <=> /\ BrowserKinds' /\ HeldKinds' /\ AskKinds'
                     /\ pending' \in [Relays -> Seq(Browsers \X Nat)]
  <2>1. (DataKinds <=> /\ BrowserKinds /\ HeldKinds /\ AskKinds
                       /\ pending \in [Relays -> Seq(Browsers \X Nat)])'
    BY DataParts, PTL
  <2> QED BY <2>1
<1>n. \A q : Numbered(q, asked) => Numbered(q, asked')
  BY StaysNumbered
<1>d. \A j \in Relays : device[j] \in {"here", "gone"} => device'[j] \in {"here", "gone"}
  BY DEF Progress
<1>w. thread[i] # "none" \/ device[i] # "none" => first[i] \in Browsers /\ asked[first[i]] >= 1
  BY AtWork
<1>t. thread[i] # "none"
  BY DEF Relay, CreateHandler, CreateServer, Exec, Accepted, DeviceRefuses, AcceptedCheck,
         AcceptedSet, AcceptedRegister, RunPosted, DeviceAnswers, DeviceCloses, AskAgain,
         BrowserCloses, LoopEnds, RelayKinds
<1>1. CASE CreateHandler(i) \/ CreateServer(i) \/ Exec(i) \/ Accepted(i) \/ DeviceRefuses(i)
           \/ AcceptedCheck(i)
  <2>1. /\ UNCHANGED <<primary, posted, home, pending, got>>
        /\ stranded' = stranded \/ stranded' = stranded \cup {first[i]}
    BY <1>1 DEF CreateHandler, CreateServer, Exec, Accepted, DeviceRefuses, AcceptedCheck
  <2>2. HeldKinds'
    <3>1. stranded' \subseteq Browsers
      BY <1>0, <1>w, <1>t, <2>1 DEF HeldKinds
    <3> QED BY <1>0, <1>d, <2>1, <3>1 DEF HeldKinds
  <2> QED BY <1>n, <2>1, <2>2, PendingSame, <1>p
<1>2. CASE AcceptedSet(i)
  <2>1. /\ UNCHANGED <<posted, home, pending, got>>
        /\ primary' = [primary EXCEPT ![i] = first[i]]
        /\ stranded' = stranded \cup (IF primary[i] \in Browsers
                                     THEN {primary[i], first[i]} ELSE {})
    BY <1>2 DEF AcceptedSet, SetPrimary
  <2>2. HeldKinds'
    <3>1. stranded' \subseteq Browsers
      BY <1>0, <1>w, <1>t, <2>1 DEF HeldKinds
    <3>2. primary' \in [Relays -> Browsers \cup {NoBrowser}]
      BY <1>0, <1>w, <1>t, <2>1 DEF HeldKinds
    <3> QED BY <1>0, <1>d, <2>1, <3>1, <3>2 DEF HeldKinds
  <2> QED BY <1>n, <2>1, <2>2, PendingSame, <1>p
<1>3. CASE AcceptedRegister(i)
  <2>1. UNCHANGED <<primary, posted, got>> /\ Callback(i, first[i])
    BY <1>3 DEF AcceptedRegister
  <2>2. /\ AskKinds' /\ (pending \in [Relays -> Seq(Browsers \X Nat)])'
        /\ home' \in [Browsers -> SUBSET Relays]
        /\ stranded' \subseteq Browsers
    BY <1>n, <1>w, <1>t, <2>1, CallbackKinds
  <2>3. HeldKinds'
    BY <1>0, <1>d, <2>1, <2>2 DEF HeldKinds
  <2> QED BY <2>2, <2>3, <1>p
<1>4. CASE RunPosted(i)
  <2> DEFINE b == Head(posted[i])
  <2>1. UNCHANGED <<primary, got>> /\ Callback(i, b) /\ posted[i] # <<>>
        /\ posted' = [posted EXCEPT ![i] = Tail(@)]
    BY <1>4 DEF RunPosted
  <2>2. posted[i] \in Seq(Browsers)
    BY <1>0 DEF HeldKinds
  <2>3. b \in Browsers /\ Tail(posted[i]) \in Seq(Browsers) /\ In(b, posted[i])
    BY <2>1, <2>2, TailFacts DEF In
  <2>4. asked[b] >= 1
    BY <2>3 DEF OneRelay, Trace, DataKinds
  <2> HIDE DEF b
  <2>5. /\ AskKinds' /\ (pending \in [Relays -> Seq(Browsers \X Nat)])'
        /\ home' \in [Browsers -> SUBSET Relays]
        /\ stranded' \subseteq Browsers
    BY <1>n, <2>1, <2>3, <2>4, CallbackKinds
  <2>6. posted' \in [Relays -> Seq(Browsers)]
    BY <1>0, <2>1, <2>3 DEF HeldKinds
  <2>7. \A j \in Relays : posted'[j] # <<>> => device'[j] \in {"here", "gone"}
    BY <1>0, <1>d, <2>1 DEF HeldKinds
  <2>8. HeldKinds'
    BY <1>0, <2>1, <2>5, <2>6, <2>7 DEF HeldKinds
  <2> QED BY <2>5, <2>8, <1>p
<1>5. CASE DeviceAnswers(i)
  <2>1. /\ UNCHANGED <<primary, posted, home, stranded>> /\ pending[i] # <<>>
        /\ pending' = [pending EXCEPT ![i] = Tail(@)]
        /\ got' = IF primary[i] = NoBrowser
                  THEN got ELSE got \cup {<<primary[i], Head(pending[i])>>}
    BY <1>5 DEF DeviceAnswers
  <2>2. HeldKinds'
    BY <1>0, <1>d, <2>1 DEF HeldKinds
  <2> DEFINE s == Tail(pending[i])
  <2>3. pending[i] \in Seq(Browsers \X Nat) /\ \A n \in DOMAIN pending[i] : Numbered(pending[i][n], asked)
    BY <1>0 DEF AskKinds
  <2>4. /\ s \in Seq(Browsers \X Nat) /\ Numbered(Head(pending[i]), asked)
        /\ \A n \in DOMAIN s : Numbered(s[n], asked)
    <3>1. /\ Tail(pending[i]) \in Seq(Browsers \X Nat)
          /\ 1 \in DOMAIN pending[i] /\ pending[i][1] = Head(pending[i])
          /\ \A n \in DOMAIN Tail(pending[i]) :
               n + 1 \in DOMAIN pending[i] /\ Tail(pending[i])[n] = pending[i][n + 1]
      BY <2>1, <2>3, TailFacts
    <3> QED BY <2>3, <3>1
  <2>5. pending' = [pending EXCEPT ![i] = s]
    BY <2>1
  <2>6. Numbered(Head(pending[i]), asked') /\ Head(pending[i]) \in Browsers \X Nat
    BY <1>n, <2>4 DEF Numbered
  <2> DEFINE q == Head(pending[i])
  <2> HIDE DEF s
  <2>7. \A n \in DOMAIN s : Numbered(s[n], asked')
    BY <1>n, <2>4
  <2>8. pending' \in [Relays -> Seq(Browsers \X Nat)]
    BY <1>0, <2>4, <2>5
  <2>9. ASSUME NEW j \in Relays
        PROVE  /\ pending'[j] \in Seq(Browsers \X Nat)
               /\ \A n \in DOMAIN pending'[j] : Numbered(pending'[j][n], asked')
    <3>1. CASE j = i
      BY <1>0, <2>4, <2>5, <2>7, <3>1
    <3>2. CASE j # i
      <4>1. pending'[j] = pending[j]
        BY <1>0, <2>5, <3>2
      <4> QED BY <1>0, <1>n, <4>1 DEF AskKinds
    <3> QED BY <3>1, <3>2
  <2>10. Numbered(q, asked) /\ q \in Browsers \X Nat
    BY <2>4 DEF Numbered
  <2>11. got' = (IF primary[i] = NoBrowser THEN got ELSE got \cup {<<primary[i], q>>})
    BY <2>1
  <2> HIDE DEF q
  <2>12. \A r \in got' : r \in Browsers \X (Browsers \X Nat) /\ Numbered(r[2], asked)
    BY <1>0, <2>10, <2>11 DEF AskKinds, HeldKinds
  <2>13. \A r \in got' : r \in Browsers \X (Browsers \X Nat) /\ Numbered(r[2], asked')
    BY <1>n, <2>12
  <2>14. AskKinds'
    BY <2>9, <2>13 DEF AskKinds
  <2> QED BY <2>2, <2>8, <2>14, <1>p
<1>6. CASE DeviceCloses(i) \/ LoopEnds(i)
  <2>1. /\ UNCHANGED <<primary, home, got>>
        /\ posted' = posted \/ posted' = [posted EXCEPT ![i] = <<>>]
        /\ pending' = [pending EXCEPT ![i] = <<>>]
        /\ stranded' \subseteq stranded \cup {first[i]}
             \cup {posted[i][n] : n \in DOMAIN posted[i]}
             \cup {pending[i][n][1] : n \in DOMAIN pending[i]}
    BY <1>6 DEF DeviceCloses, LoopEnds
  <2>2. /\ \A n \in DOMAIN posted[i] : posted[i][n] \in Browsers
        /\ \A n \in DOMAIN pending[i] : pending[i][n][1] \in Browsers
    <3>1. posted[i] \in Seq(Browsers)
      BY <1>0 DEF HeldKinds
    <3>2. \A n \in DOMAIN posted[i] : posted[i][n] \in Browsers
      BY <3>1, ElementOfSeq, LenProperties
    <3> QED BY <1>0, <3>2 DEF AskKinds, Numbered
  <2>3. stranded' \subseteq Browsers
    <3>1. /\ {posted[i][n] : n \in DOMAIN posted[i]} \subseteq Browsers
          /\ {pending[i][n][1] : n \in DOMAIN pending[i]} \subseteq Browsers
      BY <2>2
    <3>2. first[i] \in Browsers /\ stranded \subseteq Browsers
      BY <1>0, <1>w, <1>t DEF HeldKinds
    <3> QED BY <2>1, <3>1, <3>2
  <2>4. posted' \in [Relays -> Seq(Browsers)]
    <3>1. <<>> \in Seq(Browsers) /\ posted \in [Relays -> Seq(Browsers)]
      BY <1>0 DEF HeldKinds
    <3>2. posted' = posted \/ posted' = [posted EXCEPT ![i] = <<>>]
      BY <2>1
    <3> QED BY <3>1, <3>2
  <2>5. \A j \in Relays : posted'[j] # <<>> => device'[j] \in {"here", "gone"}
    BY <1>0, <1>d, <2>1 DEF HeldKinds
  <2>6. HeldKinds'
    BY <1>0, <2>1, <2>3, <2>4, <2>5 DEF HeldKinds
  <2> QED BY <1>n, <2>1, <2>6, PendingEmpty, <1>p
<1>7. ASSUME NEW b \in Browsers, AskAgain(i, b)
      PROVE  DataKinds'
  <2>1. /\ UNCHANGED <<primary, posted, home, got>>
        /\ stranded' \subseteq stranded \cup {b}
        /\ asked' = [asked EXCEPT ![b] = @ + 1]
        /\ \/ pending' = pending
           \/ pending' = [pending EXCEPT ![i] = Append(@, <<b, asked[b] + 1>>)]
    BY <1>7 DEF AskAgain
  <2>2. Numbered(<<b, asked[b] + 1>>, asked')
    <3>1. asked[b] \in Nat /\ asked'[b] = asked[b] + 1
      BY <2>1 DEF DataKinds
    <3> QED BY <3>1 DEF Numbered
  <2>3. stranded' \subseteq Browsers
    BY <1>0, <2>1 DEF HeldKinds
  <2>4. HeldKinds'
    BY <1>0, <1>d, <2>1, <2>3 DEF HeldKinds
  <2> QED BY <1>n, <2>1, <2>2, <2>4, PendingSame, PendingAppend, <1>p
<1>8. ASSUME NEW b \in Browsers, BrowserCloses(i, b)
      PROVE  DataKinds'
  <2>1. /\ UNCHANGED <<posted, pending, got, stranded>>
        /\ home' = [home EXCEPT ![b] = @ \ {i}]
        /\ primary' = [primary EXCEPT ![i] = IF @ = b THEN NoBrowser ELSE @]
    BY <1>8 DEF BrowserCloses
  <2>2. HeldKinds'
    BY <1>0, <1>d, <2>1 DEF HeldKinds
  <2> QED BY <1>n, <2>1, <2>2, PendingSame, <1>p
<1> QED BY <1>1, <1>2, <1>3, <1>4, <1>5, <1>6, <1>7, <1>8 DEF Relay

\* Every step keeps the types and the kinds.
LEMMA NextKinds ==
  ASSUME TypeOK, Kinds, OneRelay, Next
  PROVE  TypeOK' /\ Kinds' /\ Progress /\ RelayKinds' /\ DataKinds'
<1> USE DEF madeVars, loopVars, dataVars, browserVars, callVars, endVars
<1>p. DataKinds' <=> /\ BrowserKinds' /\ HeldKinds' /\ AskKinds'
                     /\ pending' \in [Relays -> Seq(Browsers \X Nat)]
  <2>1. (DataKinds <=> /\ BrowserKinds /\ HeldKinds /\ AskKinds
                       /\ pending \in [Relays -> Seq(Browsers \X Nat)])'
    BY DataParts, PTL
  <2> QED BY <2>1
<1>1. CallKinds /\ EndKinds /\ RelayKinds /\ DataKinds
  BY KindsParts
<1>2. Progress /\ RelayKinds' /\ BrowserKinds'
  BY <1>1, NextProgress, NextRelayKinds, NextBrowserKinds
<1>3. DataKinds'
  <2>1. CASE Callers
    <3>1. UNCHANGED <<pending, got>>
      BY <2>1 DEF Callers, Malformed, Request, SocketRequest, Taken, ReadyPrimary, SkipSocket,
         ReadyDevice, AddRequest, SetClient, NewRelay, NewSocketRelay, Make, UseAfterFree
    <3> QED BY <1>1, <1>2, <2>1, <3>1, CallersHeldKinds, StaysNumbered, PendingSame, <1>p
  <2>2. CASE Delete \/ Deleting
    <3>1. UNCHANGED <<browser, asked, primary, posted, home, pending, got, stranded, device>>
      BY <1>1, <2>2, DeletingProgress
    <3> QED BY <1>1, <3>1 DEF DataKinds
  <2> QED BY <1>1, <1>2, <2>1, <2>2, RelayDataKinds DEF Next
<1>4. CallKinds' /\ EndKinds'
  BY <1>1, <1>2, NextHttp, NextSocket, NextEnd DEF CallKinds
<1> QED BY <1>2, <1>3, <1>4, KindsParts, PTL

-----------------------------------------------------------------------------
(* A browser comes to one relay.                                           *)

\* A step that leaves no new trace, nor takes a browser from the loop.
LEMMA TracesKept ==
  ASSUME OneRelay,
         \A b \in Browsers, j \in Relays : Trace(b, j)' => Trace(b, j),
         \A b \in Browsers : Carried(b)' => Carried(b),
         \A b \in Browsers : browser[b] \in {"here", "gone"} => browser'[b] \in {"here", "gone"},
         \A b \in Browsers : Carried(b) /\ browser[b] = "here" => browser'[b] = "here"
  PROVE  OneRelay'
<1>1. \A b \in Browsers, i, j \in Relays : Trace(b, i)' /\ Trace(b, j)' => i = j
  BY DEF OneRelay
<1>2. \A b \in Browsers, i \in Relays :
        Trace(b, i)' => ~Carried(b)' /\ browser'[b] \in {"here", "gone"}
  BY DEF OneRelay
<1>3. \A b \in Browsers : Carried(b)' => browser'[b] = "here"
  BY DEF OneRelay
<1> QED BY <1>1, <1>2, <1>3, Zenon DEF OneRelay

LEMMA InFacts ==
  ASSUME NEW S, NEW s \in Seq(S)
  PROVE  /\ \A b : In(b, Tail(s)) /\ s # <<>> => In(b, s)
         /\ s # <<>> => In(Head(s), s)
         /\ \A b : ~In(b, <<>>)
         /\ \A b, e : e \in S => (In(b, Append(s, e)) <=> In(b, s) \/ b = e)
<1>1. \A b : ~In(b, <<>>)
  BY DEF In
<1>2. s # <<>> => In(Head(s), s) /\ \A b : In(b, Tail(s)) => In(b, s)
  <2> SUFFICES ASSUME s # <<>>
               PROVE  In(Head(s), s) /\ \A b : In(b, Tail(s)) => In(b, s)
    OBVIOUS
  <2>1. /\ 1 \in DOMAIN s /\ s[1] = Head(s)
        /\ \A n \in DOMAIN Tail(s) : n + 1 \in DOMAIN s /\ Tail(s)[n] = s[n + 1]
    BY TailFacts
  <2> QED BY <2>1 DEF In
<1>3. ASSUME NEW b, NEW e \in S
      PROVE  In(b, Append(s, e)) <=> In(b, s) \/ b = e
  <2>1. /\ Len(s) + 1 \in DOMAIN Append(s, e)
        /\ Append(s, e)[Len(s) + 1] = e
        /\ \A n \in DOMAIN s : n \in DOMAIN Append(s, e) /\ Append(s, e)[n] = s[n]
        /\ \A n \in DOMAIN Append(s, e) : n \in DOMAIN s \/ n = Len(s) + 1
    BY AppendFacts
  <2> QED BY <2>1 DEF In
<1> QED BY <1>1, <1>2, <1>3

\* The same of the requests in a relay.
AskedIn(b, s) == \E n \in DOMAIN s : s[n][1] = b

LEMMA AskedInFacts ==
  ASSUME NEW S, NEW s \in Seq(S)
  PROVE  /\ \A b : AskedIn(b, Tail(s)) /\ s # <<>> => AskedIn(b, s)
         /\ s # <<>> => AskedIn(Head(s)[1], s)
         /\ \A b : ~AskedIn(b, <<>>)
         /\ \A b, e : e \in S => (AskedIn(b, Append(s, e)) <=> AskedIn(b, s) \/ b = e[1])
<1>1. \A b : ~AskedIn(b, <<>>)
  BY DEF AskedIn
<1>2. s # <<>> => AskedIn(Head(s)[1], s) /\ \A b : AskedIn(b, Tail(s)) => AskedIn(b, s)
  <2> SUFFICES ASSUME s # <<>>
               PROVE  AskedIn(Head(s)[1], s) /\ \A b : AskedIn(b, Tail(s)) => AskedIn(b, s)
    OBVIOUS
  <2>1. /\ 1 \in DOMAIN s /\ s[1] = Head(s)
        /\ \A n \in DOMAIN Tail(s) : n + 1 \in DOMAIN s /\ Tail(s)[n] = s[n + 1]
    BY TailFacts
  <2> QED BY <2>1 DEF AskedIn
<1>3. ASSUME NEW b, NEW e \in S
      PROVE  AskedIn(b, Append(s, e)) <=> AskedIn(b, s) \/ b = e[1]
  <2>1. /\ Len(s) + 1 \in DOMAIN Append(s, e)
        /\ Append(s, e)[Len(s) + 1] = e
        /\ \A n \in DOMAIN s : n \in DOMAIN Append(s, e) /\ Append(s, e)[n] = s[n]
        /\ \A n \in DOMAIN Append(s, e) : n \in DOMAIN s \/ n = Len(s) + 1
    BY AppendFacts
  <2> QED BY <2>1 DEF AskedIn
<1> QED BY <1>1, <1>2, <1>3

\* A request comes into a relay with the callback of its browser, or when its
\* browser asks once more.
LEMMA RelayAsks ==
  ASSUME RelayKinds, DataKinds, NEW i \in Relays, Relay(i)
  PROVE  \A b \in Browsers, j \in Relays : Asks(b, j)' =>
           \/ Asks(b, j)
           \/ /\ j = i
              /\ \/ AcceptedRegister(i) /\ b = first[i]
                 \/ RunPosted(i) /\ b = Head(posted[i])
                 \/ AskAgain(i, b) /\ primary[i] = b
<1> USE DEF madeVars, loopVars, dataVars, browserVars, callVars, endVars
<1> SUFFICES ASSUME NEW b \in Browsers, NEW j \in Relays, Asks(b, j)', ~Asks(b, j)
             PROVE  /\ j = i
                    /\ \/ AcceptedRegister(i) /\ b = first[i]
                       \/ RunPosted(i) /\ b = Head(posted[i])
                       \/ AskAgain(i, b) /\ primary[i] = b
  OBVIOUS
<1>1. /\ pending \in [Relays -> Seq(Browsers \X Nat)] /\ pending[i] \in Seq(Browsers \X Nat)
      /\ posted[i] \in Seq(Browsers)
      /\ \A c \in Browsers : asked[c] + 1 \in Nat
  BY DEF DataKinds
<1>2. AskedIn(b, pending'[j]) /\ ~AskedIn(b, pending[j])
  BY DEF Asks, AskedIn
<1>3. CASE \/ pending' = pending
           \/ pending' = [pending EXCEPT ![i] = <<>>]
           \/ pending[i] # <<>> /\ pending' = [pending EXCEPT ![i] = Tail(@)]
  <2>1. CASE j # i
    BY <1>1, <1>2, <1>3, <2>1
  <2>2. CASE j = i
    <3>1. \/ pending'[i] = pending[i] \/ pending'[i] = <<>>
          \/ pending[i] # <<>> /\ pending'[i] = Tail(pending[i])
      BY <1>1, <1>3
    <3>2. /\ ~AskedIn(b, <<>>)
          /\ pending[i] # <<>> /\ AskedIn(b, Tail(pending[i])) => AskedIn(b, pending[i])
      BY <1>1, AskedInFacts
    <3> QED BY <1>2, <2>2, <3>1, <3>2
  <2> QED BY <2>1, <2>2
<1>4. ASSUME NEW c \in Browsers, NEW n \in Nat,
             pending' = [pending EXCEPT ![i] = Append(@, <<c, n>>)]
      PROVE  j = i /\ b = c
  <2> DEFINE e == <<c, n>>
  <2>1. e \in Browsers \X Nat /\ e[1] = c
    OBVIOUS
  <2>2. pending'[j] = IF j = i THEN Append(pending[j], e) ELSE pending[j]
    BY <1>1, <1>4
  <2> HIDE DEF e
  <2>3. AskedIn(b, Append(pending[i], e)) <=> AskedIn(b, pending[i]) \/ b = e[1]
    BY <1>1, <2>1, AskedInFacts
  <2> QED BY <1>2, <2>1, <2>2, <2>3
<1>5. CASE AcceptedRegister(i)
  <2>1. pending' = pending \/ pending' = [pending EXCEPT ![i] = Append(@, <<first[i], 1>>)]
    BY <1>5 DEF AcceptedRegister, Callback
  <2>2. first[i] \in Browsers
    BY <1>5 DEF AcceptedRegister, RelayKinds
  <2> QED BY <1>2, <1>4, <1>5, <2>1, <2>2
<1>6. CASE RunPosted(i)
  <2>1. \/ pending' = pending
        \/ pending' = [pending EXCEPT ![i] = Append(@, <<Head(posted[i]), 1>>)]
    BY <1>6 DEF RunPosted, Callback
  <2>2. Head(posted[i]) \in Browsers
    BY <1>1, <1>6, TailFacts DEF RunPosted
  <2> QED BY <1>2, <1>4, <1>6, <2>1, <2>2
<1>7. ASSUME NEW c \in Browsers, AskAgain(i, c)
      PROVE  j = i /\ AskAgain(i, b) /\ primary[i] = b
  <2>1. \/ pending' = pending
        \/ primary[i] = c /\ pending' = [pending EXCEPT ![i] = Append(@, <<c, asked[c] + 1>>)]
    BY <1>7 DEF AskAgain
  <2>2. primary[i] = c /\ j = i /\ b = c
    BY <1>1, <1>2, <1>4, <2>1
  <2> QED BY <1>7, <2>2
<1>8. \/ AcceptedRegister(i) \/ RunPosted(i) \/ \E c \in Browsers : AskAgain(i, c)
      \/ pending' = pending
      \/ pending' = [pending EXCEPT ![i] = <<>>]
      \/ pending[i] # <<>> /\ pending' = [pending EXCEPT ![i] = Tail(@)]
  BY DEF Relay, CreateHandler, CreateServer, Exec, Accepted, DeviceRefuses, AcceptedCheck,
         AcceptedSet, BrowserCloses, DeviceAnswers, DeviceCloses, LoopEnds
<1> QED BY <1>1, <1>2, <1>3, <1>5, <1>6, <1>7, <1>8

\* What the relay's own steps change of the browsers in it.
LEMMA RelayTraces ==
  ASSUME RelayKinds, DataKinds, NEW i \in Relays, Relay(i)
  PROVE  \A b \in Browsers, j \in Relays : Trace(b, j)' => Trace(b, j)
<1> USE DEF madeVars, loopVars, dataVars, browserVars, callVars, endVars
<1>0. SUFFICES ASSUME NEW b \in Browsers, NEW j \in Relays, Trace(b, j)'
               PROVE  Trace(b, j)
  OBVIOUS
<1>1. /\ primary \in [Relays -> Browsers \cup {NoBrowser}]
      /\ posted \in [Relays -> Seq(Browsers)] /\ posted[i] \in Seq(Browsers)
      /\ pending \in [Relays -> Seq(Browsers \X Nat)] /\ pending[i] \in Seq(Browsers \X Nat)
      /\ home \in [Browsers -> SUBSET Relays]
      /\ asked[b] \in Nat
  BY DEF DataKinds
<1>2. first' = first
  BY DEF Relay, CreateHandler, CreateServer, Exec, Accepted, DeviceRefuses, AcceptedCheck,
         AcceptedSet, AcceptedRegister, RunPosted, DeviceAnswers, DeviceCloses, AskAgain,
         BrowserCloses, LoopEnds
<1>3. primary'[j] = b => primary[j] = b \/ first[j] = b
  <2>1. \/ primary' = primary
        \/ primary' = [primary EXCEPT ![i] = first[i]]
        \/ \E c \in Browsers : primary' = [primary EXCEPT ![i] = IF @ = c THEN NoBrowser ELSE @]
    BY DEF Relay, CreateHandler, CreateServer, Exec, Accepted, DeviceRefuses, AcceptedCheck,
         AcceptedSet, SetPrimary, AcceptedRegister, RunPosted, DeviceAnswers, DeviceCloses,
         AskAgain, BrowserCloses, LoopEnds
  <2>2. NoBrowser \notin Browsers
    BY RelayLoopAssumption
  <2> QED BY <1>1, <2>1, <2>2
<1>4. j \in home'[b] => j \in home[b] \/ primary[j] = b
  <2>1. \/ home' = home
        \/ primary[i] # NoBrowser /\ home' = [home EXCEPT ![primary[i]] = @ \cup {i}]
        \/ \E c \in Browsers : home' = [home EXCEPT ![c] = @ \ {i}]
    BY DEF Relay, CreateHandler, CreateServer, Exec, Accepted, DeviceRefuses, AcceptedCheck,
         AcceptedSet, AcceptedRegister, RunPosted, Callback, DeviceAnswers, DeviceCloses,
         AskAgain, BrowserCloses, LoopEnds
  <2> QED BY <1>1, <2>1
<1>5. In(b, posted'[j]) => In(b, posted[j])
  <2>1. \/ posted' = posted
        \/ posted' = [posted EXCEPT ![i] = <<>>]
        \/ posted[i] # <<>> /\ posted' = [posted EXCEPT ![i] = Tail(@)]
    BY DEF Relay, CreateHandler, CreateServer, Exec, Accepted, DeviceRefuses, AcceptedCheck,
         AcceptedSet, AcceptedRegister, RunPosted, DeviceAnswers, DeviceCloses,
         AskAgain, BrowserCloses, LoopEnds
  <2>2. CASE j # i
    <3>1. posted'[j] = posted[j]
      BY <1>1, <2>1, <2>2
    <3> QED BY <3>1
  <2>3. CASE j = i
    <3>1. \/ posted'[i] = posted[i] \/ posted'[i] = <<>>
          \/ posted[i] # <<>> /\ posted'[i] = Tail(posted[i])
      BY <1>1, <2>1
    <3>2. /\ ~In(b, <<>>)
          /\ posted[i] # <<>> /\ In(b, Tail(posted[i])) => In(b, posted[i])
      BY <1>1, InFacts
    <3> QED BY <2>3, <3>1, <3>2
  <2> QED BY <2>2, <2>3
<1>6. Asks(b, j)' => Asks(b, j) \/ first[j] = b \/ primary[j] = b \/ In(b, posted[j])
  <2>1. posted[i] # <<>> => In(Head(posted[i]), posted[i])
    BY <1>1, InFacts
  <2> QED BY <2>1, RelayAsks DEF RunPosted
<1> QED BY <1>0, <1>2, <1>3, <1>4, <1>5, <1>6 DEF Trace, In

\* The browser a thread holds is given to a relay.
LEMMA GivenToRelay ==
  ASSUME OneRelay, NEW c \in Browsers, NEW i \in Relays, Carried(c), ~Carried(c)',
         \A b \in Browsers, j \in Relays : Trace(b, j)' => Trace(b, j) \/ (b = c /\ j = i),
         \A b \in Browsers : Carried(b)' => Carried(b),
         browser' = browser
  PROVE  OneRelay'
<1>1. \A j \in Relays : ~Trace(c, j)
  BY DEF OneRelay
<1>2. \A b \in Browsers, k, j \in Relays : Trace(b, k)' /\ Trace(b, j)' => k = j
  BY <1>1 DEF OneRelay
<1>3. \A b \in Browsers, j \in Relays :
        Trace(b, j)' => ~Carried(b)' /\ browser'[b] \in {"here", "gone"}
  BY <1>1 DEF OneRelay
<1>4. \A b \in Browsers : Carried(b)' => browser'[b] = "here"
  BY DEF OneRelay
<1> QED BY <1>2, <1>3, <1>4, Zenon DEF OneRelay

LEMMA MakeTraces ==
  ASSUME TypeOK, Kinds, OneRelay, NEW c \in Browsers, Carried(c), Make(c), ~Carried(c)',
         \A b \in Browsers : Carried(b)' => Carried(b)
  PROVE  OneRelay'
<1> USE DEF madeVars, loopVars, dataVars, browserVars, callVars, endVars
<1>1. RelayKinds
  BY KindsParts
<1>2. made + 1 \in Relays /\ first' = [first EXCEPT ![made + 1] = c]
  BY <1>1, MakeKinds
<1>3. UNCHANGED <<primary, home, posted, pending, browser>>
  BY DEF Make
<1>4. \A j \in Relays : first'[j] = IF j = made + 1 THEN c ELSE first[j]
  BY <1>1, <1>2 DEF RelayKinds
<1>5. \A b \in Browsers, j \in Relays : Trace(b, j)' => Trace(b, j) \/ (b = c /\ j = made + 1)
  <2>1. ASSUME NEW b \in Browsers, NEW j \in Relays
        PROVE  /\ Asks(b, j)' <=> Asks(b, j)
               /\ In(b, posted[j])' <=> In(b, posted[j])
    BY <1>3 DEF Asks, In
  <2> QED BY <1>3, <1>4, <2>1 DEF Trace
<1> QED BY <1>2, <1>3, <1>5, GivenToRelay

\* A step that leaves the relays' fields alone.
LEMMA SameTraces ==
  ASSUME UNCHANGED <<first, primary, home, posted, pending>>
  PROVE  \A b \in Browsers, j \in Relays : Trace(b, j)' <=> Trace(b, j)
BY DEF Trace, Asks, In

\* Only a browser that is taken is carried anew.
LEMMA CarriedLess ==
  ASSUME CallKinds, Callers,
         ~(Registered /\ \E c \in Browsers : Request(c) \/ SocketRequest(c))
  PROVE  \A b \in Browsers : Carried(b)' => Carried(b)
<1>1. ASSUME NEW c \in Browsers, Malformed(c) \/ Request(c) \/ SocketRequest(c)
      PROVE  http' = http /\ socket' = socket
  BY <1>1 DEF Malformed, Request, SocketRequest, callVars
<1>2. ASSUME \/ ReadyPrimary \/ SkipSocket \/ ReadyDevice \/ AddRequest
             \/ SetClient \/ NewRelay \/ NewSocketRelay
      PROVE  /\ socket' \in {socket, NoSocket}
             /\ \/ http' \in {http, Waiting}
                \/ LetGo(http.i, http.b) \/ LetGo(http.i, NoBrowser)
                \/ \E s : http' = [http EXCEPT !.step = s]
                \/ http' = [http EXCEPT !.i = @ + 1]
  BY <1>2 DEF ReadyPrimary, SkipSocket, ReadyDevice, AddRequest, SetClient, NewRelay, NewSocketRelay
<1>3. ASSUME UseAfterFree
      PROVE  socket' \in {socket, NoSocket} /\ http' \in {http, Waiting}
  BY <1>3 DEF UseAfterFree
<1>4. /\ LetGo(http.i, http.b) => http'.b \in {http.b, NoBrowser}
      /\ LetGo(http.i, NoBrowser) => http'.b = NoBrowser
      /\ Waiting.b = NoBrowser /\ NoSocket.b = NoBrowser
  BY DEF LetGo, Waiting, NoSocket
<1>5. /\ \A s : [http EXCEPT !.step = s].b = http.b
      /\ [http EXCEPT !.i = @ + 1].b = http.b
  BY DEF CallKinds, GoodHttp
<1>6. http'.b \in {http.b, NoBrowser} /\ socket'.b \in {socket.b, NoBrowser}
  <2>1. http' \in {http, Waiting} => http'.b \in {http.b, NoBrowser}
    BY <1>4
  <2>2. socket' \in {socket, NoSocket} => socket'.b \in {socket.b, NoBrowser}
    BY <1>4
  <2>3. (\E s : http' = [http EXCEPT !.step = s]) => http'.b = http.b
    BY <1>5
  <2>4. http' = [http EXCEPT !.i = @ + 1] => http'.b = http.b
    BY <1>5
  <2>5. CASE \E c \in Browsers : Malformed(c) \/ Request(c) \/ SocketRequest(c)
    BY <1>1, <2>5
  <2>6. CASE \/ ReadyPrimary \/ SkipSocket \/ ReadyDevice \/ AddRequest
             \/ SetClient \/ NewRelay \/ NewSocketRelay
    BY <1>2, <1>4, <2>1, <2>2, <2>3, <2>4, <2>6
  <2>7. CASE UseAfterFree
    BY <1>3, <2>1, <2>2, <2>7
  <2> QED BY <2>5, <2>6, <2>7 DEF Callers
<1> QED BY <1>6, RelayLoopAssumption DEF Carried

LEMMA CallersOneRelay ==
  ASSUME TypeOK, Kinds, OneRelay, Callers
  PROVE  OneRelay'
<1> USE DEF madeVars, loopVars, dataVars, browserVars, callVars, endVars
<1>0. CallKinds /\ RelayKinds /\ DataKinds /\ NoBrowser \notin Browsers /\ Sockets \subseteq Browsers
  BY KindsParts, RelayLoopAssumption
<1>1. http.b \in (Browsers \ Sockets) \cup {NoBrowser} /\ socket.b \in Sockets \cup {NoBrowser}
  BY <1>0 DEF CallKinds, GoodHttp, GoodSocket
<1>2. ASSUME NEW c \in Browsers, Request(c) \/ SocketRequest(c), Registered
      PROVE  OneRelay'
  <2>1. /\ UNCHANGED <<first, primary, home, posted, pending>>
        /\ browser[c] = "away" /\ browser' = [browser EXCEPT ![c] = "here"]
        /\ \/ http'.b = c /\ socket' = socket
           \/ socket'.b = c /\ http' = http
    BY <1>2 DEF Request, SocketRequest, Taken
  <2>2. \A b \in Browsers : browser'[b] = IF b = c THEN "here" ELSE browser[b]
    BY <1>0, <2>1 DEF DataKinds
  <2>3. \A b \in Browsers, j \in Relays : Trace(b, j)' <=> Trace(b, j)
    BY <2>1, SameTraces
  <2>4. \A b \in Browsers : Carried(b)' => Carried(b) \/ b = c
    BY <2>1 DEF Carried
  <2>5. \A j \in Relays : ~Trace(c, j)
    BY <2>1 DEF OneRelay
  <2>6. \A b \in Browsers, i, j \in Relays : Trace(b, i)' /\ Trace(b, j)' => i = j
    BY <2>3 DEF OneRelay
  <2>7. \A b \in Browsers, i \in Relays :
          Trace(b, i)' => ~Carried(b)' /\ browser'[b] \in {"here", "gone"}
    BY <2>2, <2>3, <2>4, <2>5 DEF OneRelay
  <2>8. \A b \in Browsers : Carried(b)' => browser'[b] = "here"
    BY <2>2, <2>4 DEF OneRelay
  <2> QED BY <2>6, <2>7, <2>8, Zenon DEF OneRelay
<1>3. CASE NewRelay
  <2>1. PICK c \in Browsers : c = http.b
    BY <1>0, <1>3 DEF NewRelay, CallKinds, GoodHttp
  <2>2. http' = Waiting /\ socket' = socket /\ Make(c)
    BY <1>3, <2>1 DEF NewRelay
  <2>3. Carried(c) /\ ~Carried(c)' /\ \A b \in Browsers : Carried(b)' => Carried(b)
    BY <1>0, <1>1, <2>1, <2>2 DEF Carried, Waiting
  <2> QED BY <2>2, <2>3, MakeTraces
<1>4. CASE NewSocketRelay
  <2>1. PICK c \in Browsers : c = socket.b
    BY <1>0, <1>4 DEF NewSocketRelay, CallKinds, GoodSocket
  <2>2. http' = http /\ socket' = NoSocket /\ Make(c)
    BY <1>4, <2>1 DEF NewSocketRelay
  <2>3. Carried(c) /\ ~Carried(c)' /\ \A b \in Browsers : Carried(b)' => Carried(b)
    BY <1>0, <1>1, <2>1, <2>2 DEF Carried, NoSocket
  <2> QED BY <2>2, <2>3, MakeTraces
<1>5. CASE SetClient
  <2>1. http.b \in Browsers /\ http.i \in Relays
    BY <1>0, <1>5, Numbers DEF SetClient, CallKinds, GoodHttp, Held
  <2>2. PICK c \in Browsers, i \in Relays : c = http.b /\ i = http.i
    BY <2>1
  <2>3. /\ socket' = socket /\ browser' = browser /\ http'.b = NoBrowser
        /\ primary' = [primary EXCEPT ![i] = c]
        /\ posted' = [posted EXCEPT ![i] = Append(@, c)]
        /\ UNCHANGED <<first, home, pending, asked>>
    BY <1>5, <2>2 DEF SetClient, SetPrimary, LetGo, Waiting
  <2>4. Carried(c) /\ ~Carried(c)' /\ \A b \in Browsers : Carried(b)' => Carried(b)
    BY <1>0, <1>1, <2>2, <2>3 DEF Carried
  <2>5. ASSUME NEW b \in Browsers, NEW j \in Relays, Trace(b, j)'
        PROVE  Trace(b, j) \/ (b = c /\ j = i)
    <3>1. primary'[j] = b => primary[j] = b \/ (b = c /\ j = i)
      <4>1. primary'[j] = IF j = i THEN c ELSE primary[j]
        BY <1>0, <2>3 DEF DataKinds
      <4> QED BY <4>1
    <3>2. In(b, posted'[j]) => In(b, posted[j]) \/ (b = c /\ j = i)
      <4>1. posted'[j] = IF j = i THEN Append(posted[j], c) ELSE posted[j]
        BY <1>0, <2>3 DEF DataKinds
      <4>2. posted[j] \in Seq(Browsers)
        BY <1>0 DEF DataKinds
      <4>3. In(b, Append(posted[j], c)) => In(b, posted[j]) \/ b = c
        BY <4>2, InFacts
      <4> QED BY <4>1, <4>3
    <3>3. /\ Asks(b, j)' => Asks(b, j)
          /\ In(b, posted[j])' <=> In(b, posted'[j])
      BY <2>3 DEF Asks, In
    <3> QED BY <2>3, <2>5, <3>1, <3>2, <3>3 DEF Trace
  <2> QED BY <2>3, <2>4, <2>5, GivenToRelay
<1>6. ASSUME ~NewRelay, ~NewSocketRelay, ~SetClient,
             ~(Registered /\ \E c \in Browsers : Request(c) \/ SocketRequest(c))
      PROVE  OneRelay'
  <2>1. UNCHANGED <<first, primary, home, posted, pending>>
    BY <1>6 DEF Callers, Malformed, Request, SocketRequest, Taken, ReadyPrimary, SkipSocket,
         ReadyDevice, AddRequest, UseAfterFree
  <2>3. \A b \in Browsers : Carried(b)' => Carried(b)
    BY <1>0, <1>6, CarriedLess
  <2>4. \/ browser' = browser
        \/ \E c \in Browsers : browser[c] = "away" /\ browser' = [browser EXCEPT ![c] = "refused"]
    BY <1>6 DEF Callers, Malformed, Request, SocketRequest, Taken, Refused, ReadyPrimary,
         SkipSocket, ReadyDevice, AddRequest, UseAfterFree
  <2>5. \A b \in Browsers : browser[b] \in {"here", "gone"} => browser'[b] = browser[b]
    BY <1>0, <2>4 DEF DataKinds
  <2>6. \A b \in Browsers, j \in Relays : Trace(b, j)' => Trace(b, j)
    BY <2>1, SameTraces
  <2>7. /\ \A b \in Browsers : browser[b] \in {"here", "gone"} => browser'[b] \in {"here", "gone"}
        /\ \A b \in Browsers : Carried(b) /\ browser[b] = "here" => browser'[b] = "here"
    BY <2>5
  <2> QED BY <2>3, <2>6, <2>7, TracesKept
<1> QED BY <1>2, <1>3, <1>4, <1>5, <1>6

LEMMA NextOneRelay ==
  ASSUME TypeOK, Kinds, OneRelay, Next
  PROVE  OneRelay'
<1> USE DEF madeVars, loopVars, dataVars, browserVars, callVars, endVars
<1>0. CallKinds /\ RelayKinds /\ DataKinds /\ NoBrowser \notin Browsers
  BY KindsParts, RelayLoopAssumption
<1>1. ASSUME NEW i \in Relays, Relay(i)
      PROVE  OneRelay'
  <2>1. \A b \in Browsers, j \in Relays : Trace(b, j)' => Trace(b, j)
    BY <1>0, <1>1, RelayTraces
  <2>2. http' = http /\ socket' = socket
    BY <1>1 DEF Relay, CreateHandler, CreateServer, Exec, Accepted, DeviceRefuses, AcceptedCheck,
         AcceptedSet, AcceptedRegister, RunPosted, DeviceAnswers, DeviceCloses, AskAgain,
         BrowserCloses, LoopEnds
  <2>3. \A b \in Browsers : Carried(b)' <=> Carried(b)
    BY <2>2 DEF Carried
  <2>4. \/ browser' = browser
        \/ \E b \in Browsers : i \in home[b] /\ browser' = [browser EXCEPT ![b] = "gone"]
    BY <1>1 DEF Relay, CreateHandler, CreateServer, Exec, Accepted, DeviceRefuses, AcceptedCheck,
         AcceptedSet, AcceptedRegister, RunPosted, DeviceAnswers, DeviceCloses, AskAgain,
         BrowserCloses, LoopEnds
  <2>5. \A b \in Browsers : browser[b] \in {"here", "gone"} => browser'[b] \in {"here", "gone"}
    BY <1>0, <2>4 DEF DataKinds
  <2>6. \A b \in Browsers : Carried(b) /\ browser[b] = "here" => browser'[b] = "here"
    <3>1. \A b \in Browsers : Carried(b) => i \notin home[b]
      BY DEF OneRelay, Trace
    <3> QED BY <1>0, <2>4, <3>1 DEF DataKinds
  <2> QED BY <2>1, <2>3, <2>5, <2>6, TracesKept
<1>2. CASE Delete \/ Deleting
  <2>1. UNCHANGED <<socket, browser, first, primary, home, posted, pending>>
    BY <1>0, <1>2, DeletingProgress
  <2>2. http'.b \in {http.b, NoBrowser}
    <3>1. \/ http' = http \/ http' = Waiting
          \/ http' = [http EXCEPT !.step = "join"] \/ http' = [http EXCEPT !.step = "find"]
      BY <1>2, Zenon DEF Delete, Deleting, NextRelay, StopRelay, JoinRelay
    <3>2. /\ [http EXCEPT !.step = "join"].b = http.b /\ [http EXCEPT !.step = "find"].b = http.b
          /\ Waiting.b = NoBrowser
      BY <1>0 DEF CallKinds, GoodHttp, Waiting
    <3> QED BY <3>1, <3>2
  <2>3. \A b \in Browsers : Carried(b)' => Carried(b)
    BY <1>0, <2>1, <2>2 DEF Carried
  <2>4. \A b \in Browsers, j \in Relays : Trace(b, j)' => Trace(b, j)
    BY <2>1, SameTraces
  <2> QED BY <2>1, <2>3, <2>4, TracesKept
<1> QED BY <1>1, <1>2, CallersOneRelay DEF Next

-----------------------------------------------------------------------------
(* The first request of a browser is the only one until the device has it. *)

PostedOnce ==
  \A i \in Relays :
    /\ \A n \in DOMAIN posted[i], j \in Relays : posted[i][n] # first[j]
    /\ \A n, m \in DOMAIN posted[i] : posted[i][n] = posted[i][m] => n = m

FreshFacts(b) ==
  /\ asked[b] = 1
  /\ \A i \in Relays : ~Asks(b, i)
  /\ \A r \in got : r[2][1] # b

LEMMA FirstParts ==
  FirstRequest <=> PostedOnce /\ \A b \in Browsers : Fresh(b) => FreshFacts(b)
BY DEF FirstRequest, PostedOnce, FreshFacts

\* Of a browser that was not taken yet nothing is there.
LEMMA AwayFacts ==
  ASSUME RelayKinds, DataKinds, OneRelay, NEW b \in Browsers, browser[b] = "away"
  PROVE  /\ \A i \in Relays : ~Asks(b, i)
         /\ \A r \in got : r[2][1] # b
<1>1. \A i \in Relays : ~Trace(b, i)
  BY DEF OneRelay
<1>2. asked[b] = 0
  <2>1. /\ asked \in [Browsers -> Nat]
        /\ browser[b] \in {"here", "gone"} <=> asked[b] >= 1
    BY DEF DataKinds
  <2> QED BY <2>1
<1>3. ASSUME NEW r \in got, r[2][1] = b
      PROVE  FALSE
  <2>1. r[2][2] \in 1..asked[b]
    BY <1>3 DEF DataKinds
  <2> QED BY <1>2, <2>1
<1> QED BY <1>1, <1>3 DEF Trace

LEMMA CallersFirst ==
  ASSUME TypeOK, Kinds, OneRelay, FirstRequest, Callers
  PROVE  FirstRequest'
<1> USE DEF madeVars, loopVars, dataVars, browserVars, callVars, endVars
<1>0. CallKinds /\ RelayKinds /\ DataKinds /\ NoBrowser \notin Browsers /\ Sockets \subseteq Browsers
  BY KindsParts, RelayLoopAssumption
<1>1. PostedOnce /\ \A b \in Browsers : Fresh(b) => FreshFacts(b)
  BY FirstParts
<1>p. FirstRequest' <=> PostedOnce' /\ \A b \in Browsers : Fresh(b)' => FreshFacts(b)'
  <2>1. (FirstRequest <=> PostedOnce /\ \A b \in Browsers : Fresh(b) => FreshFacts(b))'
    BY FirstParts, PTL
  <2> QED BY <2>1
<1>2. UNCHANGED <<pending, got, device>>
  BY DEF Callers, Malformed, Request, SocketRequest, Taken, ReadyPrimary, SkipSocket,
         ReadyDevice, AddRequest, SetClient, NewRelay, NewSocketRelay, Make, UseAfterFree
<1>3. \A b \in Browsers : asked'[b] = asked[b] /\ FreshFacts(b) => FreshFacts(b)'
  BY <1>2 DEF FreshFacts, Asks
<1>c. \A b \in Browsers : Carried(b) => Fresh(b) /\ \A j \in Relays : ~Trace(b, j)
  BY DEF Fresh, OneRelay
<1>4. ASSUME NEW c \in Browsers, Request(c) \/ SocketRequest(c), Registered
      PROVE  FirstRequest'
  <2>1. /\ UNCHANGED <<first, thread, posted>>
        /\ browser[c] = "away" /\ asked' = [asked EXCEPT ![c] = 1]
        /\ \/ http'.b = c /\ socket' = socket
           \/ socket'.b = c /\ http' = http
    BY <1>4 DEF Request, SocketRequest, Taken
  <2>2. \A b \in Browsers : asked'[b] = IF b = c THEN 1 ELSE asked[b]
    BY <1>0, <2>1 DEF DataKinds
  <2>3. \A b \in Browsers : Fresh(b)' => Fresh(b) \/ b = c
    BY <1>2, <2>1 DEF Fresh, Carried, Early, In
  <2>4. FreshFacts(c)'
    BY <1>0, <1>2, <2>1, <2>2, AwayFacts DEF FreshFacts, Asks
  <2>5. \A b \in Browsers : Fresh(b)' => FreshFacts(b)'
    BY <1>1, <1>3, <2>2, <2>3, <2>4
  <2>6. PostedOnce'
    BY <1>1, <2>1 DEF PostedOnce
  <2> QED BY <2>5, <2>6, <1>p
<1>5. ASSUME NEW c \in Browsers, Carried(c), Make(c),
             \A b \in Browsers : Carried(b)' => Carried(b)
      PROVE  FirstRequest'
  <2>1. /\ made + 1 \in Relays /\ first' = [first EXCEPT ![made + 1] = c]
        /\ thread' = [thread EXCEPT ![made + 1] = "start"]
        /\ UNCHANGED <<posted, asked>>
    BY <1>0, <1>5, MakeKinds DEF Make
  <2>2. \A j \in Relays : /\ first'[j] = IF j = made + 1 THEN c ELSE first[j]
                          /\ j # made + 1 => thread'[j] = thread[j]
    BY <1>0, <2>1 DEF RelayKinds
  <2>3. \A b \in Browsers : Fresh(b)' => Fresh(b)
    <3>1. ASSUME NEW b \in Browsers, NEW j \in Relays, first'[j] = b, Early(j)'
          PROVE  Fresh(b)
      <4>1. CASE j = made + 1
        BY <1>5, <2>2, <3>1, <4>1 DEF Fresh
      <4>2. CASE j # made + 1
        BY <1>2, <2>2, <3>1, <4>2 DEF Fresh, Early
      <4> QED BY <4>1, <4>2
    <3>2. \A b \in Browsers, j \in Relays : In(b, posted[j])' <=> In(b, posted[j])
      BY <2>1 DEF In
    <3> QED BY <1>5, <3>1, <3>2 DEF Fresh
  <2>4. \A b \in Browsers : Fresh(b)' => FreshFacts(b)'
    BY <1>1, <1>3, <2>1, <2>3
  <2>5. PostedOnce'
    <3>1. \A i \in Relays : \A n \in DOMAIN posted[i] : posted[i][n] # c
      BY <1>5, <1>c DEF Trace, In
    <3> QED BY <1>1, <2>1, <2>2, <3>1 DEF PostedOnce
  <2> QED BY <2>4, <2>5, <1>p
<1>6. http.b \in (Browsers \ Sockets) \cup {NoBrowser} /\ socket.b \in Sockets \cup {NoBrowser}
  BY <1>0 DEF CallKinds, GoodHttp, GoodSocket
<1>7. CASE NewRelay
  <2>1. PICK c \in Browsers : c = http.b
    BY <1>0, <1>7 DEF NewRelay, CallKinds, GoodHttp
  <2>2. http' = Waiting /\ socket' = socket /\ Make(c)
    BY <1>7, <2>1 DEF NewRelay
  <2>3. Carried(c) /\ \A b \in Browsers : Carried(b)' => Carried(b)
    BY <1>0, <2>1, <2>2 DEF Carried, Waiting
  <2> QED BY <1>5, <2>2, <2>3
<1>8. CASE NewSocketRelay
  <2>1. PICK c \in Browsers : c = socket.b
    BY <1>0, <1>8 DEF NewSocketRelay, CallKinds, GoodSocket
  <2>2. http' = http /\ socket' = NoSocket /\ Make(c)
    BY <1>8, <2>1 DEF NewSocketRelay
  <2>3. Carried(c) /\ \A b \in Browsers : Carried(b)' => Carried(b)
    BY <1>0, <2>1, <2>2 DEF Carried, NoSocket
  <2> QED BY <1>5, <2>2, <2>3
<1>9. CASE SetClient
  <2>0. http.b \in Browsers /\ http.i \in Relays
    BY <1>0, <1>9, Numbers DEF SetClient, CallKinds, GoodHttp, Held
  <2>a. PICK c \in Browsers, k \in Relays : c = http.b /\ k = http.i
    BY <2>0
  <2>1. /\ socket' = socket /\ asked' = asked /\ first' = first /\ thread' = thread
        /\ http'.b = NoBrowser
        /\ posted' = [posted EXCEPT ![k] = Append(@, c)]
    BY <1>9, <2>a DEF SetClient, LetGo, Waiting
  <2> DEFINE s == posted[k]
  <2>2. Carried(c) /\ \A b \in Browsers : Carried(b)' => Carried(b)
    BY <1>0, <1>6, <2>a, <2>1 DEF Carried
  <2>3. Fresh(c) /\ \A j \in Relays : ~Trace(c, j)
    BY <1>c, <2>1, <2>2
  <2>4. posted \in [Relays -> Seq(Browsers)] /\ s \in Seq(Browsers)
    BY <1>0, <2>1 DEF DataKinds
  <2>5. /\ \A j \in Relays : posted'[j] = IF j = k THEN Append(s, c) ELSE posted[j]
    BY <2>1, <2>4
  <2>6. /\ \A n \in DOMAIN s : Append(s, c)[n] = s[n]
        /\ Append(s, c)[Len(s) + 1] = c
        /\ \A n \in DOMAIN Append(s, c) : n \in DOMAIN s \/ n = Len(s) + 1
    BY <2>1, <2>4, AppendFacts
  <2>7. \A b \in Browsers, j \in Relays : In(b, posted'[j]) => In(b, posted[j]) \/ b = c
    BY <2>1, <2>4, <2>5, InFacts
  <2>8. \A b \in Browsers, j \in Relays : In(b, posted[j])' <=> In(b, posted'[j])
    BY DEF In
  <2>9. \A j \in Relays : Early(j)' <=> Early(j)
    BY <1>2, <2>1 DEF Early
  <2>10. \A b \in Browsers : Fresh(b)' => Fresh(b)
    <3> HIDE DEF s
    <3> QED BY <2>1, <2>2, <2>3, <2>7, <2>8, <2>9 DEF Fresh
  <2>11. \A b \in Browsers : Fresh(b)' => FreshFacts(b)'
    BY <1>1, <1>3, <2>1, <2>10
  <2>12. PostedOnce'
    <3>1. /\ \A j \in Relays : first[j] # c
          /\ \A n \in DOMAIN s : s[n] # c
      BY <2>1, <2>3 DEF Trace, In
    <3> HIDE DEF s
    <3>2. ASSUME NEW i \in Relays
          PROVE  /\ \A n \in DOMAIN posted'[i], j \in Relays : posted'[i][n] # first'[j]
                 /\ \A n, m \in DOMAIN posted'[i] : posted'[i][n] = posted'[i][m] => n = m
      <4>1. CASE i # k
        BY <1>1, <2>1, <2>5, <4>1 DEF PostedOnce
      <4>2. CASE i = k
        <5>1. posted'[i] = Append(s, c) /\ posted[i] = s
          BY <2>5, <4>2 DEF s
        <5>2. /\ \A n \in DOMAIN s, j \in Relays : s[n] # first[j]
              /\ \A n, m \in DOMAIN s : s[n] = s[m] => n = m
          BY <1>1, <5>1 DEF PostedOnce
        <5> QED BY <2>1, <2>6, <3>1, <5>1, <5>2
      <4> QED BY <4>1, <4>2
    <3> QED BY <3>2 DEF PostedOnce
  <2> QED BY <2>11, <2>12, <1>p
<1>10. ASSUME ~NewRelay, ~NewSocketRelay, ~SetClient,
              ~(Registered /\ \E c \in Browsers : Request(c) \/ SocketRequest(c))
       PROVE  FirstRequest'
  <2>1. UNCHANGED <<first, thread, posted, asked>>
    BY <1>10 DEF Callers, Malformed, Request, SocketRequest, Taken, Refused, ReadyPrimary,
         SkipSocket, ReadyDevice, AddRequest, UseAfterFree
  <2>2. \A b \in Browsers : Carried(b)' => Carried(b)
    BY <1>0, <1>10, CarriedLess
  <2>3. \A b \in Browsers : Fresh(b)' => Fresh(b)
    BY <1>2, <2>1, <2>2 DEF Fresh, Early, In
  <2>4. \A b \in Browsers : Fresh(b)' => FreshFacts(b)'
    BY <1>1, <1>3, <2>1, <2>3
  <2>5. PostedOnce'
    BY <1>1, <2>1 DEF PostedOnce
  <2> QED BY <2>4, <2>5, <1>p
<1> QED BY <1>4, <1>7, <1>8, <1>9, <1>10

\* The requests that wait in a relay are done in order, and no other comes.
LEMMA RelayPosted ==
  ASSUME RelayKinds, DataKinds, PostedOnce, NEW i \in Relays, Relay(i)
  PROVE  /\ PostedOnce'
         /\ \A j \in Relays : \A b \in Browsers : In(b, posted[j])' => In(b, posted[j])
         /\ RunPosted(i) => ~In(Head(posted[i]), Tail(posted[i]))
<1> USE DEF madeVars, loopVars, dataVars, browserVars, callVars, endVars
<1>1. posted \in [Relays -> Seq(Browsers)] /\ posted[i] \in Seq(Browsers)
  BY DEF DataKinds
<1>2. first' = first
  BY DEF Relay, CreateHandler, CreateServer, Exec, Accepted, DeviceRefuses, AcceptedCheck,
         AcceptedSet, AcceptedRegister, RunPosted, DeviceAnswers, DeviceCloses, AskAgain,
         BrowserCloses, LoopEnds
<1>3. \/ posted' = posted
      \/ posted' = [posted EXCEPT ![i] = <<>>]
      \/ posted[i] # <<>> /\ posted' = [posted EXCEPT ![i] = Tail(@)]
  BY DEF Relay, CreateHandler, CreateServer, Exec, Accepted, DeviceRefuses, AcceptedCheck,
         AcceptedSet, AcceptedRegister, RunPosted, DeviceAnswers, DeviceCloses,
         AskAgain, BrowserCloses, LoopEnds
<1>4. \A j \in Relays :
        \/ posted'[j] = posted[j]
        \/ posted'[j] = <<>>
        \/ j = i /\ posted[i] # <<>> /\ posted'[i] = Tail(posted[i])
  BY <1>1, <1>3
<1>5. /\ \A n \in DOMAIN posted[i], j \in Relays : posted[i][n] # first[j]
      /\ \A n, m \in DOMAIN posted[i] : posted[i][n] = posted[i][m] => n = m
  BY DEF PostedOnce
<1>6. posted[i] # <<>> =>
        /\ 1 \in DOMAIN posted[i] /\ posted[i][1] = Head(posted[i])
        /\ \A n \in DOMAIN Tail(posted[i]) :
             n + 1 \in DOMAIN posted[i] /\ n + 1 # 1 /\ Tail(posted[i])[n] = posted[i][n + 1]
        /\ DOMAIN Tail(posted[i]) \subseteq Nat
  <2> SUFFICES ASSUME posted[i] # <<>>
               PROVE  /\ 1 \in DOMAIN posted[i] /\ posted[i][1] = Head(posted[i])
                      /\ \A n \in DOMAIN Tail(posted[i]) :
                           /\ n + 1 \in DOMAIN posted[i] /\ n + 1 # 1
                           /\ Tail(posted[i])[n] = posted[i][n + 1]
                      /\ DOMAIN Tail(posted[i]) \subseteq Nat
    OBVIOUS
  <2>1. Tail(posted[i]) \in Seq(Browsers)
    BY <1>1, TailFacts
  <2>2. DOMAIN Tail(posted[i]) \subseteq Nat
    BY <2>1, LenProperties
  <2> QED BY <1>1, <2>2, TailFacts
<1>7. ASSUME NEW k \in Relays
      PROVE  /\ \A n \in DOMAIN posted'[k], j \in Relays : posted'[k][n] # first[j]
             /\ \A n, m \in DOMAIN posted'[k] : posted'[k][n] = posted'[k][m] => n = m
             /\ \A b \in Browsers : In(b, posted'[k]) => In(b, posted[k])
  <2>1. CASE posted'[k] = posted[k]
    BY <2>1 DEF PostedOnce
  <2>2. CASE posted'[k] = <<>>
    <3>1. DOMAIN posted'[k] = {}
      BY <2>2
    <3> QED BY <3>1 DEF In
  <2>3. CASE k = i /\ posted[i] # <<>> /\ posted'[i] = Tail(posted[i])
    <3> DEFINE s == Tail(posted[i])
    <3>1. \A n \in DOMAIN s : /\ n \in Nat
                             /\ n + 1 \in DOMAIN posted[i] /\ s[n] = posted[i][n + 1]
      BY <1>6, <2>3
    <3>2. posted'[k] = s
      BY <2>3
    <3> HIDE DEF s
    <3>3. \A n \in DOMAIN s, j \in Relays : s[n] # first[j]
      BY <1>5, <3>1
    <3>4. \A n, m \in DOMAIN s : s[n] = s[m] => n = m
      <4>1. \A n, m \in DOMAIN s : s[n] = s[m] => n + 1 = m + 1
        BY <1>5, <3>1
      <4> QED BY <3>1, <4>1
    <3>5. \A b \in Browsers : In(b, s) => In(b, posted[i])
      BY <3>1 DEF In
    <3> QED BY <2>3, <3>2, <3>3, <3>4, <3>5
  <2> QED BY <1>4, <2>1, <2>2, <2>3
<1>8. PostedOnce'
  BY <1>2, <1>7 DEF PostedOnce
<1>9. \A j \in Relays : \A b \in Browsers : In(b, posted[j])' => In(b, posted[j])
  BY <1>7 DEF In
<1>10. RunPosted(i) => ~In(Head(posted[i]), Tail(posted[i]))
  <2> SUFFICES ASSUME posted[i] # <<>>, In(Head(posted[i]), Tail(posted[i]))
               PROVE  FALSE
    BY DEF RunPosted
  <2>1. PICK n \in DOMAIN Tail(posted[i]) : Tail(posted[i])[n] = Head(posted[i])
    BY DEF In
  <2>2. n + 1 \in DOMAIN posted[i] /\ n + 1 # 1 /\ posted[i][n + 1] = posted[i][1]
        /\ 1 \in DOMAIN posted[i]
    BY <1>6, <2>1
  <2> QED BY <1>5, <2>2
<1> QED BY <1>8, <1>9, <1>10

LEMMA RelayFirst ==
  ASSUME TypeOK, Kinds, OneRelay, FirstRequest, NEW i \in Relays, Relay(i)
  PROVE  FirstRequest'
<1> USE DEF madeVars, loopVars, dataVars, browserVars, callVars, endVars
<1>0. CallKinds /\ RelayKinds /\ DataKinds
  BY KindsParts
<1>p. FirstRequest' <=> PostedOnce' /\ \A b \in Browsers : Fresh(b)' => FreshFacts(b)'
  <2>1. (FirstRequest <=> PostedOnce /\ \A b \in Browsers : Fresh(b) => FreshFacts(b))'
    BY FirstParts, PTL
  <2> QED BY <2>1
<1>1. PostedOnce /\ \A b \in Browsers : Fresh(b) => FreshFacts(b)
  BY FirstParts
<1>2. UNCHANGED <<first, http, socket>>
  BY DEF Relay, CreateHandler, CreateServer, Exec, Accepted, DeviceRefuses, AcceptedCheck,
         AcceptedSet, AcceptedRegister, RunPosted, DeviceAnswers, DeviceCloses, AskAgain,
         BrowserCloses, LoopEnds
<1>3. /\ PostedOnce'
      /\ \A j \in Relays : \A b \in Browsers : In(b, posted[j])' => In(b, posted[j])
      /\ RunPosted(i) => ~In(Head(posted[i]), Tail(posted[i]))
  BY <1>0, <1>1, RelayPosted
<1>4. \A j \in Relays : Early(j)' => Early(j)
  <2>1. \/ thread' = thread /\ device' = device
        \/ thread' = thread /\ device' = [device EXCEPT ![i] = "gone"]
        \/ Early(i) /\ \E s, d : /\ thread' = [thread EXCEPT ![i] = s]
                                 /\ device' = [device EXCEPT ![i] = d]
        \/ /\ thread' = [thread EXCEPT ![i] = "loop"] /\ device' = device
        \/ /\ thread' = [thread EXCEPT ![i] = "ended"]
           /\ device' = [device EXCEPT ![i] = "gone"]
    <3>1. thread = [thread EXCEPT ![i] = thread[i]] /\ device = [device EXCEPT ![i] = device[i]]
      BY <1>0 DEF RelayKinds
    <3>2. CASE CreateHandler(i) \/ CreateServer(i) \/ AcceptedCheck(i) \/ AcceptedSet(i)
      BY <3>1, <3>2 DEF CreateHandler, CreateServer, AcceptedCheck, AcceptedSet, Early
    <3>3. CASE Exec(i) \/ AcceptedRegister(i) \/ DeviceRefuses(i) \/ DeviceCloses(i) \/ LoopEnds(i)
      BY <3>3 DEF Exec, AcceptedRegister, DeviceRefuses, DeviceCloses, LoopEnds
    <3>4. CASE Accepted(i)
      BY <3>4 DEF Accepted, Early
    <3>5. CASE UNCHANGED <<thread, device>>
      BY <3>5
    <3> QED BY <3>2, <3>3, <3>4, <3>5 DEF Relay, RunPosted, DeviceAnswers, AskAgain, BrowserCloses
  <2>2. ASSUME NEW j \in Relays, Early(j)'
        PROVE  Early(j)
    <3>1. CASE j # i
      <4>1. thread'[j] = thread[j] /\ device'[j] = device[j]
        BY <1>0, <2>1, <3>1 DEF RelayKinds
      <4> QED BY <2>2, <4>1 DEF Early
    <3>2. CASE j = i
      <4>1. \/ Early(i)
            \/ thread'[i] = thread[i] /\ device'[i] \in {device[i], "gone"}
            \/ thread'[i] \in {"loop", "ended"} /\ device'[i] \in {device[i], "gone"}
        BY <1>0, <2>1 DEF RelayKinds
      <4> QED BY <2>2, <3>2, <4>1 DEF Early
    <3> QED BY <3>1, <3>2
  <2> QED BY <2>2
<1>5. \A b \in Browsers : Fresh(b)' => Fresh(b)
  BY <1>2, <1>3, <1>4 DEF Fresh, Carried
<1>6. ASSUME NEW b \in Browsers, Fresh(b)'
      PROVE  FreshFacts(b)'
  <2>1. Fresh(b) /\ FreshFacts(b)
    BY <1>1, <1>5, <1>6
  <2>2. ~AskAgain(i, b)
    <3>1. AskAgain(i, b) => \E r \in got : r[2][1] = b
      BY DEF AskAgain
    <3> QED BY <2>1, <3>1 DEF FreshFacts
  <2>3. asked'[b] = 1
    <3>1. asked' = asked \/ \E c \in Browsers : AskAgain(i, c) /\ asked' = [asked EXCEPT ![c] = @ + 1]
      BY DEF Relay, CreateHandler, CreateServer, Exec, Accepted, DeviceRefuses, AcceptedCheck,
         AcceptedSet, AcceptedRegister, RunPosted, DeviceAnswers, DeviceCloses, AskAgain,
         BrowserCloses, LoopEnds
    <3>2. asked'[b] = asked[b]
      BY <1>0, <2>2, <3>1 DEF DataKinds
    <3> QED BY <2>1, <3>2 DEF FreshFacts
  <2>4. \A r \in got' : r[2][1] # b
    <3>1. \/ got' = got
          \/ pending[i] # <<>> /\ got' = got \cup {<<primary[i], Head(pending[i])>>}
      BY DEF Relay, CreateHandler, CreateServer, Exec, Accepted, DeviceRefuses, AcceptedCheck,
         AcceptedSet, AcceptedRegister, RunPosted, DeviceAnswers, DeviceCloses, AskAgain,
         BrowserCloses, LoopEnds
    <3>2. pending[i] # <<>> => AskedIn(Head(pending[i])[1], pending[i])
      BY <1>0, AskedInFacts DEF DataKinds
    <3>3. ~AskedIn(b, pending[i])
      BY <2>1 DEF FreshFacts, Asks, AskedIn
    <3>4. pending[i] # <<>> => Head(pending[i])[1] # b
      BY <3>2, <3>3
    <3> QED BY <2>1, <3>1, <3>4 DEF FreshFacts
  <2>5. ASSUME NEW j \in Relays, Asks(b, j)'
        PROVE  FALSE
    <3>1. /\ j = i
          /\ \/ AcceptedRegister(i) /\ b = first[i]
             \/ RunPosted(i) /\ b = Head(posted[i])
      BY <1>0, <2>1, <2>2, <2>5, RelayAsks DEF FreshFacts
    <3>2. CASE AcceptedRegister(i) /\ b = first[i]
      <4>1. Trace(b, i) /\ ~Carried(b)
        BY <3>2 DEF Trace, OneRelay
      <4>2. ~Early(i)'
        <5>1. thread'[i] = "loop" /\ device'[i] = "here"
          BY <1>0, <3>2 DEF AcceptedRegister, RelayKinds
        <5> QED BY <5>1 DEF Early
      <4>3. \A k \in Relays : first[k] = b => k = i
        BY <4>1 DEF OneRelay, Trace
      <4>4. \A k \in Relays : ~In(b, posted[k])
        BY <1>1, <3>2 DEF PostedOnce, In
      <4> QED BY <1>2, <1>3, <1>6, <4>1, <4>2, <4>3, <4>4 DEF Fresh, Carried
    <3>3. CASE RunPosted(i) /\ b = Head(posted[i])
      <4>1. In(b, posted[i])
        BY <1>0, <3>3, InFacts DEF RunPosted, DataKinds
      <4>2. Trace(b, i) /\ ~Carried(b)
        BY <4>1 DEF Trace, OneRelay
      <4>3. \A k \in Relays : first[k] # b
        BY <1>1, <4>1 DEF PostedOnce, In
      <4>4. \A k \in Relays : In(b, posted[k]) => k = i
        BY <4>2 DEF OneRelay, Trace
      <4>5. ~In(b, posted[i])'
        <5>1. posted'[i] = Tail(posted[i])
          BY <1>0, <3>3 DEF RunPosted, DataKinds
        <5> QED BY <1>3, <3>3, <5>1 DEF In
      <4> QED BY <1>2, <1>3, <1>6, <4>2, <4>3, <4>4, <4>5 DEF Fresh, Carried
    <3> QED BY <3>1, <3>2, <3>3
  <2> QED BY <2>3, <2>4, <2>5 DEF FreshFacts
<1> QED BY <1>3, <1>6, <1>p

LEMMA NextFirst ==
  ASSUME TypeOK, Kinds, OneRelay, FirstRequest, Next
  PROVE  FirstRequest'
<1>1. CASE Delete \/ Deleting
  <2>1. /\ CallKinds /\ RelayKinds /\ DataKinds
        /\ UNCHANGED <<socket, asked, first, thread, device, posted, pending, got>>
    BY <1>1, KindsParts, DeletingProgress DEF browserVars, madeVars, dataVars
  <2>2. \A b \in Browsers : Carried(b)' => Carried(b)
    <3>1. \/ http' = http \/ http' = Waiting
          \/ http' = [http EXCEPT !.step = "join"] \/ http' = [http EXCEPT !.step = "find"]
      BY <1>1, Zenon DEF Delete, Deleting, NextRelay, StopRelay, JoinRelay, callVars
    <3>2. /\ [http EXCEPT !.step = "join"].b = http.b /\ [http EXCEPT !.step = "find"].b = http.b
          /\ Waiting.b = NoBrowser
      BY <2>1 DEF CallKinds, GoodHttp, Waiting
    <3> QED BY <2>1, <3>1, <3>2, RelayLoopAssumption DEF Carried
  <2>3. \A b \in Browsers : Fresh(b)' => Fresh(b)
    BY <2>1, <2>2 DEF Fresh, Early, In
  <2> QED BY <2>1, <2>3 DEF FirstRequest, Asks
<1> QED BY <1>1, CallersFirst, RelayFirst DEF Next

-----------------------------------------------------------------------------
(* A relay holds the browsers whose requests are in it.                    *)

Has(i, b) ==
  In(b, posted[i]) \/ Asks(b, i) \/ (thread[i] = "register" /\ first[i] = b)

LEMMA HolderParts ==
  RelayKinds /\ DataKinds =>
    (Holder <=> \A i \in Relays, b \in Browsers : Has(i, b) => Keeps(i, b))
<1> SUFFICES ASSUME RelayKinds, DataKinds
             PROVE  Holder <=> \A i \in Relays, b \in Browsers : Has(i, b) => Keeps(i, b)
  OBVIOUS
<1>1. ASSUME NEW i \in Relays
      PROVE  /\ \A n \in DOMAIN posted[i] : posted[i][n] \in Browsers
             /\ \A n \in DOMAIN pending[i] : pending[i][n][1] \in Browsers
             /\ thread[i] = "register" => first[i] \in Browsers
  <2>1. posted[i] \in Seq(Browsers) /\ pending[i] \in Seq(Browsers \X Nat)
    BY DEF DataKinds
  <2>2. \A n \in DOMAIN posted[i] : posted[i][n] \in Browsers
    BY <2>1, ElementOfSeq, LenProperties
  <2>3. \A n \in DOMAIN pending[i] : pending[i][n] \in Browsers \X Nat
    BY <2>1, ElementOfSeq, LenProperties
  <2> QED BY <2>2, <2>3 DEF RelayKinds
<1> QED BY <1>1 DEF Holder, Has, In, Asks

\* Nobody takes a relay from a browser that still waits for it.
LEMMA KeepsKept ==
  ASSUME TypeOK, Kinds, Next
  PROVE  \A i \in Relays, b \in Browsers : Keeps(i, b) => Keeps(i, b)'
<1> USE DEF madeVars, loopVars, dataVars, browserVars, callVars, endVars
<1>0. CallKinds /\ RelayKinds /\ DataKinds
  BY KindsParts
<1>1. stranded \subseteq stranded' /\ \A b \in Browsers : browser[b] = "gone" => browser'[b] = "gone"
  BY <1>0, NextProgress DEF Progress
<1>2. \/ primary' = primary
      \/ \E k \in Relays, c \in Browsers : SetPrimary(k, c)
      \/ \E k \in Relays, c \in Browsers : BrowserCloses(k, c)
  <2>1. CASE Callers
    <3>1. CASE SetClient
      BY <1>0, <3>1, Numbers DEF SetClient, CallKinds, GoodHttp, Held
    <3> QED BY <2>1, <3>1 DEF Callers, Malformed, Request, SocketRequest, Taken, ReadyPrimary,
                SkipSocket, ReadyDevice, AddRequest, NewRelay, NewSocketRelay, Make, UseAfterFree
  <2>2. ASSUME NEW i \in Relays, Relay(i)
        PROVE  \/ primary' = primary
               \/ \E k \in Relays, c \in Browsers : SetPrimary(k, c)
               \/ \E k \in Relays, c \in Browsers : BrowserCloses(k, c)
    <3>1. CASE AcceptedSet(i)
      BY <1>0, <3>1 DEF AcceptedSet, RelayKinds
    <3>2. CASE \E c \in Browsers : BrowserCloses(i, c)
      BY <3>2
    <3> QED BY <2>2, <3>1, <3>2 DEF Relay, CreateHandler, CreateServer, Exec, Accepted,
                DeviceRefuses, AcceptedCheck, AcceptedRegister, RunPosted, DeviceAnswers,
                DeviceCloses, AskAgain, LoopEnds
  <2>3. CASE Delete \/ Deleting
    BY <2>3 DEF Delete, Deleting, NextRelay, StopRelay, JoinRelay
  <2> QED BY <2>1, <2>2, <2>3 DEF Next
<1>3. SUFFICES ASSUME NEW i \in Relays, NEW b \in Browsers, primary[i] = b
               PROVE  primary'[i] = b \/ browser'[b] = "gone" \/ b \in stranded'
  BY <1>1 DEF Keeps
<1>4. ASSUME NEW k \in Relays, NEW c \in Browsers, SetPrimary(k, c)
      PROVE  primary'[i] = b \/ b \in stranded'
  BY <1>0, <1>3, <1>4 DEF SetPrimary, DataKinds
<1>5. ASSUME NEW k \in Relays, NEW c \in Browsers, BrowserCloses(k, c)
      PROVE  primary'[i] = b \/ browser'[b] = "gone"
  BY <1>0, <1>3, <1>5 DEF BrowserCloses, DataKinds
<1> QED BY <1>2, <1>3, <1>4, <1>5

LEMMA NextHolder ==
  ASSUME TypeOK, Kinds, OneRelay, Holder, Next
  PROVE  Holder'
<1> USE DEF madeVars, loopVars, dataVars, browserVars, callVars, endVars
<1>0. CallKinds /\ RelayKinds /\ DataKinds /\ RelayKinds' /\ DataKinds'
  BY KindsParts, NextKinds
<1>p. Holder' <=> \A i \in Relays, b \in Browsers : Has(i, b)' => Keeps(i, b)'
  <2>1. (RelayKinds /\ DataKinds =>
          (Holder <=> \A i \in Relays, b \in Browsers : Has(i, b) => Keeps(i, b)))'
    BY HolderParts, PTL
  <2> QED BY <1>0, <2>1
<1>1. \A i \in Relays, b \in Browsers : Has(i, b) => Keeps(i, b)
  BY <1>0, HolderParts
<1>2. \A i \in Relays, b \in Browsers : Keeps(i, b) => Keeps(i, b)'
  BY KeepsKept
<1>3. CASE Callers
  <2>1. UNCHANGED pending /\ \A i \in Relays, b \in Browsers : Asks(b, i)' <=> Asks(b, i)
    BY <1>3 DEF Callers, Malformed, Request, SocketRequest, Taken, ReadyPrimary, SkipSocket,
         ReadyDevice, AddRequest, SetClient, NewRelay, NewSocketRelay, Make, UseAfterFree, Asks
  <2>2. CASE SetClient
    <3>1. http.b \in Browsers /\ http.i \in Relays
      BY <1>0, <2>2, Numbers DEF SetClient, CallKinds, GoodHttp, Held
    <3>2. PICK c \in Browsers, k \in Relays : c = http.b /\ k = http.i
      BY <3>1
    <3>3. /\ primary' = [primary EXCEPT ![k] = c]
          /\ posted' = [posted EXCEPT ![k] = Append(@, c)]
          /\ UNCHANGED <<first, thread>>
      BY <2>2, <3>2 DEF SetClient, SetPrimary
    <3>4. ASSUME NEW i \in Relays, NEW b \in Browsers, Has(i, b)'
          PROVE  Has(i, b) \/ (i = k /\ b = c)
      <4>1. In(b, posted'[i]) => In(b, posted[i]) \/ (i = k /\ b = c)
        <5>1. posted'[i] = IF i = k THEN Append(posted[i], c) ELSE posted[i]
          BY <1>0, <3>3 DEF DataKinds
        <5>2. In(b, Append(posted[i], c)) => In(b, posted[i]) \/ b = c
          BY <1>0, InFacts DEF DataKinds
        <5> QED BY <5>1, <5>2
      <4>2. In(b, posted[i])' <=> In(b, posted'[i])
        BY DEF In
      <4> QED BY <2>1, <3>3, <3>4, <4>1, <4>2 DEF Has
    <3>5. Keeps(k, c)'
      BY <1>0, <3>3 DEF Keeps, DataKinds
    <3> QED BY <1>1, <1>2, <1>p, <3>4, <3>5
  <2>3. CASE ~SetClient
    <3>1. /\ posted' = posted
          /\ \/ UNCHANGED <<first, thread>>
             \/ /\ thread' = [thread EXCEPT ![made'] = "start"]
                /\ \E c : first' = [first EXCEPT ![made'] = c]
      BY <1>3, <2>3 DEF Callers, Malformed, Request, SocketRequest, Taken, ReadyPrimary, SkipSocket,
         ReadyDevice, AddRequest, NewRelay, NewSocketRelay, Make, UseAfterFree
    <3>2. \A i \in Relays : thread'[i] = "register" => thread[i] = "register" /\ first'[i] = first[i]
      BY <1>0, <3>1 DEF RelayKinds
    <3>3. \A i \in Relays, b \in Browsers : In(b, posted[i])' <=> In(b, posted[i])
      BY <3>1 DEF In
    <3>4. \A i \in Relays, b \in Browsers : Has(i, b)' => Has(i, b)
      BY <2>1, <3>2, <3>3 DEF Has
    <3> QED BY <1>1, <1>2, <1>p, <3>4
  <2> QED BY <2>2, <2>3
<1>4. ASSUME NEW k \in Relays, Relay(k)
      PROVE  Holder'
  <2>1. /\ first' = first
        /\ \A i \in Relays, b \in Browsers : In(b, posted[i])' => In(b, posted[i])
    <3>1. first' = first
      BY <1>4 DEF Relay, CreateHandler, CreateServer, Exec, Accepted, DeviceRefuses, AcceptedCheck,
         AcceptedSet, AcceptedRegister, RunPosted, DeviceAnswers, DeviceCloses, AskAgain,
         BrowserCloses, LoopEnds
    <3>2. \/ posted' = posted
          \/ posted' = [posted EXCEPT ![k] = <<>>]
          \/ posted[k] # <<>> /\ posted' = [posted EXCEPT ![k] = Tail(@)]
      BY <1>4 DEF Relay, CreateHandler, CreateServer, Exec, Accepted, DeviceRefuses, AcceptedCheck,
         AcceptedSet, AcceptedRegister, RunPosted, DeviceAnswers, DeviceCloses,
         AskAgain, BrowserCloses, LoopEnds
    <3>3. \A i \in Relays :
            \/ posted'[i] = posted[i]
            \/ posted'[i] = <<>>
            \/ posted[i] # <<>> /\ posted'[i] = Tail(posted[i])
      BY <1>0, <3>2 DEF DataKinds
    <3>4. \A i \in Relays, b \in Browsers :
            ~In(b, <<>>) /\ (posted[i] # <<>> /\ In(b, Tail(posted[i])) => In(b, posted[i]))
      BY <1>0, InFacts DEF DataKinds
    <3>5. \A i \in Relays, b \in Browsers : In(b, posted'[i]) => In(b, posted[i])
      BY <3>3, <3>4
    <3> QED BY <3>1, <3>5 DEF In
  <2>2. ASSUME NEW i \in Relays, NEW b \in Browsers, Asks(b, i)'
        PROVE  Has(i, b) \/ Keeps(i, b)
    <3>1. posted[k] # <<>> => In(Head(posted[k]), posted[k])
      BY <1>0, InFacts DEF DataKinds
    <3> QED BY <1>0, <1>4, <2>2, <3>1, RelayAsks DEF Has, Keeps, RunPosted, AcceptedRegister
  <2>3. ASSUME NEW i \in Relays, thread'[i] = "register"
        PROVE  thread[i] = "register" \/ AcceptedSet(i)
    <3>1. CASE i = k
      <4>1. CASE AcceptedSet(k)
        BY <3>1, <4>1
      <4>2. \/ thread' = thread \/ AcceptedSet(k)
            \/ \E s \in {"create", "bound", "failed", "loop", "accept", "assign", "ended"} :
                  thread' = [thread EXCEPT ![k] = s]
        BY <1>4 DEF Relay, CreateHandler, CreateServer, Exec, Accepted, DeviceRefuses, AcceptedCheck,
           AcceptedRegister, RunPosted, DeviceAnswers, DeviceCloses, AskAgain,
           BrowserCloses, LoopEnds
      <4> QED BY <1>0, <2>3, <3>1, <4>1, <4>2 DEF RelayKinds
    <3>2. CASE i # k
      <4>1. thread' = thread \/ \E s : thread' = [thread EXCEPT ![k] = s]
        BY <1>4 DEF Relay, CreateHandler, CreateServer, Exec, Accepted, DeviceRefuses, AcceptedCheck,
           AcceptedSet, AcceptedRegister, RunPosted, DeviceAnswers, DeviceCloses, AskAgain,
           BrowserCloses, LoopEnds
      <4> QED BY <1>0, <2>3, <3>2, <4>1 DEF RelayKinds
    <3> QED BY <3>1, <3>2
  <2>4. ASSUME NEW i \in Relays, NEW b \in Browsers, AcceptedSet(i), first[i] = b
        PROVE  Keeps(i, b)'
    BY <1>0, <2>4 DEF AcceptedSet, SetPrimary, Keeps, DataKinds
  <2>5. ASSUME NEW i \in Relays, NEW b \in Browsers, Has(i, b)'
        PROVE  Keeps(i, b)'
    <3>1. \/ In(b, posted[i])' \/ Asks(b, i)' \/ (thread'[i] = "register" /\ first'[i] = b)
      BY <2>5 DEF Has
    <3> QED BY <1>1, <1>2, <2>1, <2>2, <2>3, <2>4, <3>1 DEF Has
  <2> QED BY <1>p, <2>5
<1>5. CASE Delete \/ Deleting
  <2>1. UNCHANGED <<thread, first, posted, pending>>
    BY <1>0, <1>5, DeletingProgress
  <2>2. \A i \in Relays, b \in Browsers : Has(i, b)' => Has(i, b)
    BY <2>1 DEF Has, In, Asks
  <2> QED BY <1>1, <1>2, <1>p, <2>2
<1> QED BY <1>3, <1>4, <1>5 DEF Next

LEMMA NextNoMix ==
  ASSUME TypeOK, Kinds, Holder, NoMixedResponses, Next
  PROVE  NoMixedResponses'
<1> USE DEF madeVars, loopVars, dataVars, browserVars, callVars, endVars
<1>0. CallKinds /\ RelayKinds /\ DataKinds
  BY KindsParts
<1>1. stranded \subseteq stranded' /\ \A b \in Browsers : browser[b] = "gone" => browser'[b] = "gone"
  BY <1>0, NextProgress DEF Progress
<1>2. ASSUME NEW r \in got
      PROVE  r[1] = r[2][1] \/ browser'[r[2][1]] = "gone" \/ r[2][1] \in stranded'
  <2>1. r[2][1] \in Browsers
    BY <1>0, <1>2 DEF DataKinds
  <2> QED BY <1>1, <1>2, <2>1 DEF NoMixedResponses
<1>3. \/ got' = got
      \/ \E i \in Relays : DeviceAnswers(i) /\ primary[i] # NoBrowser
  <2>1. CASE Callers
    BY <2>1 DEF Callers, Malformed, Request, SocketRequest, Taken, ReadyPrimary, SkipSocket,
         ReadyDevice, AddRequest, SetClient, NewRelay, NewSocketRelay, Make, UseAfterFree
  <2>2. ASSUME NEW i \in Relays, Relay(i)
        PROVE  got' = got \/ (DeviceAnswers(i) /\ primary[i] # NoBrowser)
    <3>1. CASE DeviceAnswers(i)
      BY <3>1 DEF DeviceAnswers
    <3> QED BY <2>2, <3>1 DEF Relay, CreateHandler, CreateServer, Exec, Accepted, DeviceRefuses,
             AcceptedCheck, AcceptedSet, AcceptedRegister, RunPosted, DeviceCloses, AskAgain,
             BrowserCloses, LoopEnds
  <2>3. CASE Delete \/ Deleting
    BY <2>3 DEF Delete, Deleting, NextRelay, StopRelay, JoinRelay
  <2> QED BY <2>1, <2>2, <2>3 DEF Next
<1>4. ASSUME NEW i \in Relays, DeviceAnswers(i), primary[i] # NoBrowser
      PROVE  NoMixedResponses'
  <2> DEFINE q == Head(pending[i])
  <2>1. got' = got \cup {<<primary[i], q>>} /\ UNCHANGED <<browser, stranded>> /\ pending[i] # <<>>
    BY <1>4 DEF DeviceAnswers
  <2>2. 1 \in DOMAIN pending[i] /\ pending[i][1] = q
    BY <1>0, <2>1, TailFacts DEF DataKinds
  <2>3. Keeps(i, q[1])
    BY <2>2 DEF Holder
  <2> HIDE DEF q
  <2>4. primary[i] = q[1] \/ browser'[q[1]] = "gone" \/ q[1] \in stranded'
    BY <2>1, <2>3 DEF Keeps
  <2>5. \A r \in got' : r[1] = r[2][1] \/ browser'[r[2][1]] = "gone" \/ r[2][1] \in stranded'
    BY <1>2, <2>1, <2>4
  <2> QED BY <2>5 DEF NoMixedResponses
<1>5. CASE got' = got
  BY <1>2, <1>5 DEF NoMixedResponses
<1> QED BY <1>3, <1>4, <1>5

-----------------------------------------------------------------------------
(* A browser is answered, stranded, or its request is on its way.          *)

Answered(b) == <<b, <<b, asked[b]>>>> \in got
Pends(b) == \E i \in Relays : In(<<b, asked[b]>>, pending[i])
Cared(b) == Answered(b) \/ b \in stranded \/ process # "up" \/ Fresh(b) \/ Pends(b)

LEMMA NoneParts ==
  NoneForgotten <=> \A b \in Browsers : browser[b] = "here" => Cared(b)
<1>1. ASSUME NEW b \in Browsers
      PROVE  (\/ <<b, <<b, asked[b]>>>> \in got
              \/ b \in stranded
              \/ process # "up"
              \/ http.b = b \/ socket.b = b
              \/ \E i \in Relays :
                   \/ first[i] = b
                      /\ thread[i] \in {"start", "create", "accept", "assign", "register"}
                   \/ first[i] = b /\ device[i] = "asked"
                   \/ \E n \in DOMAIN posted[i] : posted[i][n] = b
                   \/ \E n \in DOMAIN pending[i] : pending[i][n] = <<b, asked[b]>>)
             <=> Cared(b)
  BY DEF Cared, Answered, Pends, Fresh, Carried, Early, In
<1> QED BY <1>1 DEF NoneForgotten

\* Nothing is lost of a browser while a thread carries it.
LEMMA CarriedCared ==
  ASSUME TypeOK, Kinds, OneRelay, Callers, NEW b \in Browsers, Carried(b)
  PROVE  Cared(b)'
<1> USE DEF madeVars, loopVars, dataVars, browserVars, callVars, endVars
<1>0. CallKinds /\ RelayKinds /\ DataKinds /\ NoBrowser \notin Browsers
  BY KindsParts, RelayLoopAssumption
<1>1. CASE Carried(b)'
  BY <1>1 DEF Cared, Fresh
<1>2. CASE b \in stranded' \/ process' # "up"
  BY <1>2 DEF Cared
<1>3. CASE \E i \in Relays : (first'[i] = b /\ thread'[i] = "start") \/ In(b, posted'[i])
  BY <1>3 DEF Cared, Fresh, Early, In
<1>4. CASE NewRelay
  <2>1. PICK c \in Browsers : c = http.b
    BY <1>0, <1>4 DEF NewRelay, CallKinds, GoodHttp
  <2>2. socket' = socket /\ Make(c) /\ Carried(c)
    BY <1>4, <2>1 DEF NewRelay, Carried
  <2>3. CASE b = c
    <3>1. made + 1 \in Relays /\ first' = [first EXCEPT ![made + 1] = c]
          /\ thread' = [thread EXCEPT ![made + 1] = "start"]
      BY <1>0, <2>2, MakeKinds DEF Make
    <3>2. first'[made + 1] = b /\ thread'[made + 1] = "start"
      BY <1>0, <2>3, <3>1 DEF RelayKinds
    <3> QED BY <1>3, <3>1, <3>2
  <2>4. CASE b # c
    BY <1>1, <2>1, <2>2, <2>4 DEF Carried
  <2> QED BY <2>3, <2>4
<1>5. CASE NewSocketRelay
  <2>1. PICK c \in Browsers : c = socket.b
    BY <1>0, <1>5, RelayLoopAssumption DEF NewSocketRelay, CallKinds, GoodSocket
  <2>2. http' = http /\ Make(c) /\ Carried(c)
    BY <1>5, <2>1 DEF NewSocketRelay, Carried
  <2>3. CASE b = c
    <3>1. made + 1 \in Relays /\ first' = [first EXCEPT ![made + 1] = c]
          /\ thread' = [thread EXCEPT ![made + 1] = "start"]
      BY <1>0, <2>2, MakeKinds DEF Make
    <3>2. first'[made + 1] = b /\ thread'[made + 1] = "start"
      BY <1>0, <2>3, <3>1 DEF RelayKinds
    <3> QED BY <1>3, <3>1, <3>2
  <2>4. CASE b # c
    BY <1>1, <2>1, <2>2, <2>4 DEF Carried
  <2> QED BY <2>3, <2>4
<1>6. CASE SetClient
  <2>1. http.i \in Relays
    BY <1>0, <1>6, Numbers DEF SetClient, CallKinds, GoodHttp, Held
  <2>2. posted' = [posted EXCEPT ![http.i] = Append(@, http.b)] /\ socket' = socket
    BY <1>6 DEF SetClient
  <2>3. CASE b = http.b
    <3>1. posted'[http.i] = Append(posted[http.i], b)
      BY <1>0, <2>1, <2>2, <2>3 DEF DataKinds
    <3>2. In(b, posted'[http.i])
      BY <1>0, <2>1, <3>1, InFacts DEF DataKinds
    <3> QED BY <1>3, <2>1, <3>2
  <2>4. CASE b # http.b
    BY <1>1, <2>2, <2>4 DEF Carried
  <2> QED BY <2>3, <2>4
<1>7. CASE AddRequest
  <2>1. CASE LetGo(http.i, NoBrowser) /\ stranded' = stranded \cup {http.b} /\ socket' = socket
    BY <1>1, <1>2, <2>1 DEF Carried
  <2>2. CASE http' = [http EXCEPT !.step = "set"] /\ socket' = socket
    <3>1. http'.b = http.b
      BY <1>0, <2>2 DEF CallKinds, GoodHttp
    <3> QED BY <1>1, <2>2, <3>1 DEF Carried
  <2> QED BY <1>7, <2>1, <2>2 DEF AddRequest
<1>8. CASE ReadyPrimary \/ SkipSocket \/ ReadyDevice
  <2>1. CASE process' # "up"
    BY <1>2, <2>1
  <2>2. CASE http'.b = http.b /\ socket' = socket
    BY <1>1, <2>2 DEF Carried
  <2>3. /\ socket' = socket
        /\ \/ Abort \/ Crash \/ LetGo(http.i, http.b)
           \/ \E s : http' = [http EXCEPT !.step = s]
           \/ http' = [http EXCEPT !.i = @ + 1]
    BY <1>8 DEF ReadyPrimary, SkipSocket, ReadyDevice
  <2>4. /\ LetGo(http.i, http.b) => http'.b = http.b
        /\ \A s : [http EXCEPT !.step = s].b = http.b
        /\ [http EXCEPT !.i = @ + 1].b = http.b
        /\ Abort \/ Crash => process' # "up"
    BY <1>0 DEF LetGo, Waiting, CallKinds, GoodHttp, Abort, Crash
  <2>5. (\E s : http' = [http EXCEPT !.step = s]) => http'.b = http.b
    BY <2>4
  <2>6. http' = [http EXCEPT !.i = @ + 1] => http'.b = http.b
    BY <2>4
  <2> QED BY <2>1, <2>2, <2>3, <2>4, <2>5, <2>6
<1>9. CASE UseAfterFree
  <2>1. \/ process' # "up"
        \/ http' = Waiting /\ stranded' = stranded \cup {http.b} /\ socket' = socket
        \/ socket' = NoSocket /\ stranded' = stranded \cup {socket.b} /\ http' = http
    BY <1>9 DEF UseAfterFree, Crash
  <2> QED BY <1>1, <1>2, <2>1 DEF Carried
<1>10. ASSUME NEW c \in Browsers, Malformed(c) \/ Request(c) \/ SocketRequest(c)
       PROVE  Cared(b)'
  <2>1. CASE http' = http /\ socket' = socket
    BY <1>1, <2>1 DEF Carried
  <2>2. CASE Request(c)
    <3>1. http = Waiting /\ socket' = socket
      BY <2>2 DEF Request
    <3>2. http.b # b
      BY <1>0, <3>1 DEF Waiting
    <3> QED BY <1>1, <3>1, <3>2 DEF Carried
  <2>3. CASE SocketRequest(c)
    <3>1. socket = NoSocket /\ http' = http
      BY <2>3 DEF SocketRequest
    <3>2. socket.b # b
      BY <1>0, <3>1 DEF NoSocket
    <3> QED BY <1>1, <3>1, <3>2 DEF Carried
  <2> QED BY <1>10, <2>1, <2>2, <2>3 DEF Malformed
<1> QED BY <1>4, <1>5, <1>6, <1>7, <1>8, <1>9, <1>10 DEF Callers

\* The threads of the proxy lose no browser.
LEMMA CallersCared ==
  ASSUME TypeOK, Kinds, OneRelay, Callers, process = "up",
         NEW b \in Browsers, browser[b] = "here", Cared(b)
  PROVE  Cared(b)'
<1> USE DEF madeVars, loopVars, dataVars, browserVars, callVars, endVars
<1>0. CallKinds /\ RelayKinds /\ DataKinds /\ NoBrowser \notin Browsers
  BY KindsParts, RelayLoopAssumption
<1>1. CASE Carried(b)
  BY <1>1, CarriedCared
<1>2. stranded \subseteq stranded' /\ UNCHANGED <<got, pending, device>>
  BY <1>0, CallersProgress DEF Progress, Callers, Malformed, Request, SocketRequest, Taken,
     ReadyPrimary, SkipSocket, ReadyDevice, AddRequest, SetClient, NewRelay, NewSocketRelay, Make,
     UseAfterFree
<1>3. asked'[b] = asked[b]
  <2>1. \/ asked' = asked
        \/ \E c \in Browsers : browser[c] = "away" /\ asked' = [asked EXCEPT ![c] = 1]
    BY DEF Callers, Malformed, Request, SocketRequest, Taken, Refused, ReadyPrimary, SkipSocket,
       ReadyDevice, AddRequest, SetClient, NewRelay, NewSocketRelay, Make, UseAfterFree
  <2> QED BY <1>0, <2>1 DEF DataKinds
<1>4. CASE Answered(b) \/ b \in stranded \/ Pends(b)
  BY <1>2, <1>3, <1>4 DEF Cared, Answered, Pends, In
<1>5. ASSUME NEW i \in Relays, first[i] = b, Early(i)
      PROVE  Cared(b)'
  <2>1. \/ UNCHANGED <<first, thread>>
        \/ \E c \in Browsers : Carried(c) /\ Make(c)
    <3>1. NewRelay => Carried(http.b) /\ Make(http.b) /\ http.b \in Browsers
      BY <1>0 DEF NewRelay, Carried, CallKinds, GoodHttp
    <3>2. NewSocketRelay => Carried(socket.b) /\ Make(socket.b) /\ socket.b \in Browsers
      BY <1>0, RelayLoopAssumption DEF NewSocketRelay, Carried, CallKinds, GoodSocket
    <3> QED BY <3>1, <3>2 DEF Callers, Malformed, Request, SocketRequest, Taken, ReadyPrimary,
            SkipSocket, ReadyDevice, AddRequest, SetClient, UseAfterFree
  <2>2. ASSUME NEW c \in Browsers, Carried(c), Make(c)
        PROVE  first'[i] = first[i] /\ thread'[i] = thread[i]
    <3>1. /\ made + 1 \in Relays /\ first' = [first EXCEPT ![made + 1] = c]
          /\ first[made + 1] = NoBrowser
          /\ thread' = [thread EXCEPT ![made + 1] = "start"]
      BY <1>0, <2>2, MakeKinds DEF Make
    <3>2. i # made + 1
      BY <1>0, <1>5, <3>1
    <3> QED BY <1>0, <3>1, <3>2 DEF RelayKinds
  <2>3. first'[i] = b /\ Early(i)'
    BY <1>2, <1>5, <2>1, <2>2 DEF Early
  <2> QED BY <2>3 DEF Cared, Fresh
<1>6. ASSUME NEW i \in Relays, In(b, posted[i])
      PROVE  Cared(b)'
  <2>1. CASE SetClient
    <3>1. posted' = [posted EXCEPT ![http.i] = Append(@, http.b)] /\ http.b \in Browsers
      BY <1>0, <2>1 DEF SetClient, CallKinds, GoodHttp, Held
    <3>2. posted'[i] = posted[i] \/ posted'[i] = Append(posted[i], http.b)
      BY <1>0, <3>1 DEF DataKinds
    <3>3. In(b, Append(posted[i], http.b))
      BY <1>0, <1>6, <3>1, InFacts DEF DataKinds
    <3>4. In(b, posted'[i])
      BY <1>6, <3>2, <3>3
    <3> QED BY <3>4 DEF Cared, Fresh, In
  <2>2. CASE posted' = posted
    BY <1>6, <2>2 DEF Cared, Fresh, In
  <2> QED BY <2>1, <2>2 DEF Callers, Malformed, Request, SocketRequest, Taken, ReadyPrimary,
          SkipSocket, ReadyDevice, AddRequest, NewRelay, NewSocketRelay, Make, UseAfterFree
<1> QED BY <1>1, <1>4, <1>5, <1>6 DEF Cared, Fresh

LEMMA HeadOrTail ==
  ASSUME NEW S, NEW s \in Seq(S), s # <<>>, NEW b, In(b, s)
  PROVE  b = Head(s) \/ In(b, Tail(s))
<1>1. PICK n \in DOMAIN s : s[n] = b
  BY DEF In
<1>2. /\ s[1] = Head(s)
      /\ n # 1 => n - 1 \in DOMAIN Tail(s) /\ Tail(s)[n - 1] = s[n]
  BY TailFacts
<1> QED BY <1>1, <1>2 DEF In

\* The callback gives the first request of its browser to the device.
LEMMA CallbackCared ==
  ASSUME DataKinds, NEW i \in Relays, NEW b \in Browsers, Callback(i, b),
         device[i] \in {"here", "gone"}, asked[b] = 1, asked' = asked
  PROVE  Cared(b)'
<1>1. CASE Crash \/ b \in stranded'
  BY <1>1 DEF Cared, Crash
<1>2. CASE pending' = [pending EXCEPT ![i] = Append(@, <<b, 1>>)]
  <2> DEFINE e == <<b, 1>>
  <2>1. e \in Browsers \X Nat /\ e = <<b, asked'[b]>>
    OBVIOUS
  <2>2. pending'[i] = Append(pending[i], e) /\ pending[i] \in Seq(Browsers \X Nat)
    BY <1>2 DEF DataKinds
  <2>3. In(e, Append(pending[i], e))
    <3> HIDE DEF e
    <3> QED BY <2>1, <2>2, InFacts
  <2>4. In(<<b, asked'[b]>>, pending'[i])
    BY <2>1, <2>2, <2>3
  <2> QED BY <2>4 DEF Cared, Pends, In
<1> QED BY <1>1, <1>2 DEF Callback

\* Nor does a relay lose a browser whose request waits in it, or is with the device.
LEMMA RelayCared ==
  ASSUME TypeOK, Kinds, OneRelay, FirstRequest, Holder, NEW i \in Relays, Relay(i),
         NEW b \in Browsers, browser[b] = "here", Cared(b), process = "up"
  PROVE  Cared(b)'
<1> USE DEF madeVars, loopVars, dataVars, browserVars, callVars, endVars
<1>0. RelayKinds /\ DataKinds
  BY KindsParts
<1>1. stranded \subseteq stranded' /\ got \subseteq got'
  BY <1>0, RelayProgress DEF Progress
<1>2. CASE b \in stranded' \/ process' # "up"
  BY <1>2 DEF Cared
<1>3. CASE AskAgain(i, b)
  <2>1. asked'[b] = asked[b] + 1 /\ asked[b] + 1 \in Nat
    BY <1>0, <1>3 DEF AskAgain, DataKinds
  <2>2. \/ b \in stranded' \/ process' # "up"
        \/ pending' = [pending EXCEPT ![i] = Append(@, <<b, asked[b] + 1>>)]
    BY <1>3 DEF AskAgain, Crash
  <2>3. CASE pending' = [pending EXCEPT ![i] = Append(@, <<b, asked[b] + 1>>)]
    <3> DEFINE e == <<b, asked[b] + 1>>
    <3>1. e \in Browsers \X Nat /\ e = <<b, asked'[b]>>
      BY <2>1
    <3>2. pending'[i] = Append(pending[i], e) /\ pending[i] \in Seq(Browsers \X Nat)
      BY <1>0, <2>3 DEF DataKinds
    <3>3. In(e, Append(pending[i], e))
      <4> HIDE DEF e
      <4> QED BY <3>1, <3>2, InFacts
    <3>4. In(<<b, asked'[b]>>, pending'[i])
      BY <3>1, <3>2, <3>3
    <3> QED BY <3>4 DEF Cared, Pends, In
  <2> QED BY <1>2, <2>2, <2>3
<1>4. ASSUME ~AskAgain(i, b)
      PROVE  asked'[b] = asked[b]
  <2>1. asked' = asked \/ \E c \in Browsers : AskAgain(i, c) /\ asked' = [asked EXCEPT ![c] = @ + 1]
    BY DEF Relay, CreateHandler, CreateServer, Exec, Accepted, DeviceRefuses, AcceptedCheck,
       AcceptedSet, AcceptedRegister, RunPosted, DeviceAnswers, DeviceCloses, AskAgain,
       BrowserCloses, LoopEnds
  <2> QED BY <1>0, <1>4, <2>1 DEF DataKinds
<1>5. CASE Answered(b) /\ ~AskAgain(i, b)
  BY <1>1, <1>4, <1>5 DEF Cared, Answered
<1>6. ASSUME Pends(b), ~AskAgain(i, b)
      PROVE  Cared(b)'
  <2> DEFINE q == <<b, asked[b]>>
  <2>1. q \in Browsers \X Nat /\ q[1] = b /\ q = <<b, asked'[b]>>
    BY <1>0, <1>4, <1>6 DEF DataKinds
  <2>2. PICK j \in Relays : In(q, pending[j])
    BY <1>6 DEF Pends
  <2>3. /\ pending \in [Relays -> Seq(Browsers \X Nat)] /\ pending[i] \in Seq(Browsers \X Nat)
    BY <1>0 DEF DataKinds
  <2> HIDE DEF q
  <2>4. ASSUME NEW k \in Relays, In(q, pending'[k])
        PROVE  Cared(b)'
    BY <2>1, <2>4 DEF Cared, Pends, In
  <2>5. CASE pending' = pending
    BY <2>2, <2>4, <2>5
  <2>6. ASSUME NEW e \in Browsers \X Nat, pending' = [pending EXCEPT ![i] = Append(@, e)]
        PROVE  Cared(b)'
    <3>1. pending'[j] = pending[j] \/ (j = i /\ pending'[j] = Append(pending[i], e))
      BY <2>3, <2>6
    <3>2. j = i => In(q, Append(pending[i], e))
      BY <2>2, <2>3, InFacts
    <3> QED BY <2>2, <2>4, <3>1, <3>2
  <2>7. CASE DeviceAnswers(i)
    <3>1. /\ pending[i] # <<>> /\ pending' = [pending EXCEPT ![i] = Tail(@)]
          /\ primary[i] # NoBrowser => <<primary[i], Head(pending[i])>> \in got'
          /\ stranded' = stranded
      BY <2>7 DEF DeviceAnswers
    <3>2. CASE In(q, pending'[j])
      BY <2>4, <3>2
    <3>3. CASE ~In(q, pending'[j])
      <4>1. j = i
        BY <2>2, <2>3, <3>1, <3>3
      <4>2. pending'[i] = Tail(pending[i])
        BY <2>3, <3>1
      <4>3. q = Head(pending[i])
        BY <2>2, <2>3, <3>1, <3>3, <4>1, <4>2, HeadOrTail
      <4>4. Keeps(i, b)
        BY <2>1, <2>2, <4>1 DEF Holder, In
      <4>5. primary[i] = b \/ b \in stranded
        BY <4>4 DEF Keeps
      <4>6. CASE primary[i] = b
        <5>1. <<b, q>> \in got'
          BY <3>1, <4>3, <4>6, RelayLoopAssumption
        <5> QED BY <2>1, <5>1 DEF Cared, Answered
      <4> QED BY <1>1, <1>2, <4>5, <4>6
    <3> QED BY <3>2, <3>3
  <2>8. CASE DeviceCloses(i) \/ LoopEnds(i)
    <3>1. /\ pending' = [pending EXCEPT ![i] = <<>>]
          /\ {pending[i][n][1] : n \in DOMAIN pending[i]} \subseteq stranded'
      BY <2>8 DEF DeviceCloses, LoopEnds
    <3>2. CASE j = i
      <4>1. \E n \in DOMAIN pending[i] : pending[i][n][1] = b
        BY <2>1, <2>2, <3>2 DEF In
      <4> QED BY <1>2, <3>1, <4>1
    <3>3. CASE j # i
      <4>1. pending'[j] = pending[j]
        BY <2>3, <3>1, <3>3
      <4> QED BY <2>2, <2>4, <4>1
    <3> QED BY <3>2, <3>3
  <2>9. CASE AcceptedRegister(i) \/ RunPosted(i)
    <3>1. \/ pending' = pending
          \/ pending' = [pending EXCEPT ![i] = Append(@, <<first[i], 1>>)] /\ AcceptedRegister(i)
          \/ pending' = [pending EXCEPT ![i] = Append(@, <<Head(posted[i]), 1>>)] /\ RunPosted(i)
      BY <2>9 DEF AcceptedRegister, RunPosted, Callback
    <3>2. AcceptedRegister(i) => <<first[i], 1>> \in Browsers \X Nat
      BY <1>0 DEF AcceptedRegister, RelayKinds
    <3>3. RunPosted(i) => <<Head(posted[i]), 1>> \in Browsers \X Nat
      BY <1>0, TailFacts DEF RunPosted, DataKinds
    <3> QED BY <2>5, <2>6, <3>1, <3>2, <3>3
  <2>10. ASSUME NEW c \in Browsers, AskAgain(i, c)
         PROVE  Cared(b)'
    <3>1. pending' = pending \/ pending' = [pending EXCEPT ![i] = Append(@, <<c, asked[c] + 1>>)]
      BY <2>10 DEF AskAgain
    <3>2. <<c, asked[c] + 1>> \in Browsers \X Nat
      BY <1>0 DEF DataKinds
    <3> QED BY <2>5, <2>6, <3>1, <3>2
  <2> QED BY <2>5, <2>7, <2>8, <2>9, <2>10 DEF Relay, CreateHandler, CreateServer, Exec, Accepted,
          DeviceRefuses, AcceptedCheck, AcceptedSet, BrowserCloses
<1>7. CASE Carried(b)
  <2>1. http' = http /\ socket' = socket
    BY DEF Relay, CreateHandler, CreateServer, Exec, Accepted, DeviceRefuses, AcceptedCheck,
       AcceptedSet, AcceptedRegister, RunPosted, DeviceAnswers, DeviceCloses, AskAgain,
       BrowserCloses, LoopEnds
  <2> QED BY <1>7, <2>1 DEF Cared, Fresh, Carried
<1>8. first' = first
  BY DEF Relay, CreateHandler, CreateServer, Exec, Accepted, DeviceRefuses, AcceptedCheck,
       AcceptedSet, AcceptedRegister, RunPosted, DeviceAnswers, DeviceCloses, AskAgain,
       BrowserCloses, LoopEnds
<1>9. ASSUME NEW k \in Relays, first[k] = b, Early(k), ~AskAgain(i, b)
      PROVE  Cared(b)'
  <2>1. CASE Early(k)'
    BY <1>8, <1>9, <2>1 DEF Cared, Fresh
  <2>2. CASE k # i
    <3>1. /\ thread' = thread \/ \E s : thread' = [thread EXCEPT ![i] = s]
          /\ device' = device \/ \E d : device' = [device EXCEPT ![i] = d]
      BY DEF Relay, CreateHandler, CreateServer, Exec, Accepted, DeviceRefuses, AcceptedCheck,
         AcceptedSet, AcceptedRegister, RunPosted, DeviceAnswers, DeviceCloses, AskAgain,
         BrowserCloses, LoopEnds
    <3>2. thread'[k] = thread[k] /\ device'[k] = device[k]
      BY <1>0, <2>2, <3>1 DEF RelayKinds
    <3> QED BY <1>9, <2>1, <3>2 DEF Early
  <2>3. ASSUME k = i, ~Early(i)'
        PROVE  Cared(b)'
    <3>1. CASE AcceptedRegister(i)
      <4>1. Callback(i, b) /\ asked' = asked /\ device[i] = "here"
        BY <1>0, <1>9, <2>3, <3>1 DEF AcceptedRegister, RelayKinds
      <4>2. asked[b] = 1
        BY <1>9 DEF FirstRequest, Fresh
      <4> QED BY <1>0, <4>1, <4>2, CallbackCared
    <3>2. CASE CreateHandler(i) \/ CreateServer(i)
      <4>1. \/ process' # "up" \/ first[i] \in stranded'
            \/ thread' = [thread EXCEPT ![i] = "create"]
            \/ device' = [device EXCEPT ![i] = "asked"]
        BY <3>2 DEF CreateHandler, CreateServer, Crash
      <4>2. process' # "up" \/ first[i] \in stranded'
        BY <1>0, <2>3, <4>1 DEF Early, RelayKinds
      <4> QED BY <1>2, <1>9, <2>3, <4>2
    <3>3. CASE Accepted(i) \/ AcceptedCheck(i) \/ AcceptedSet(i)
      <4>1. \/ first[i] \in stranded'
            \/ thread' = [thread EXCEPT ![i] = "accept"]
            \/ thread' = [thread EXCEPT ![i] = "assign"]
            \/ thread' = [thread EXCEPT ![i] = "register"]
        BY <3>3 DEF Accepted, AcceptedCheck, AcceptedSet
      <4>2. first[i] \in stranded'
        BY <1>0, <2>3, <4>1 DEF Early, RelayKinds
      <4> QED BY <1>2, <1>9, <2>3, <4>2
    <3>4. CASE DeviceRefuses(i)
      <4>1. first[i] \in stranded'
        BY <3>4 DEF DeviceRefuses
      <4> QED BY <1>2, <1>9, <2>3, <4>1
    <3>5. CASE Exec(i)
      <4>1. device[i] = "asked" /\ device' = device
        BY <1>9, <2>3, <3>5 DEF Exec, Early
      <4> QED BY <2>3, <4>1 DEF Early
    <3>6. CASE LoopEnds(i)
      <4>1. device[i] = "asked"
        BY <1>9, <2>3, <3>6 DEF LoopEnds, Early
      <4>2. first[i] \in stranded'
        BY <3>6, <4>1 DEF LoopEnds
      <4> QED BY <1>2, <1>9, <2>3, <4>2
    <3>7. CASE DeviceCloses(i)
      <4>1. FALSE
        BY <1>9, <2>3, <3>7 DEF DeviceCloses, Early
      <4> QED BY <4>1
    <3>8. CASE UNCHANGED <<thread, device>>
      BY <1>9, <2>3, <3>8 DEF Early
    <3> QED BY <3>1, <3>2, <3>3, <3>4, <3>5, <3>6, <3>7, <3>8 DEF Relay, RunPosted, DeviceAnswers,
            AskAgain, BrowserCloses
  <2> QED BY <1>9, <2>1, <2>2, <2>3
<1>10. ASSUME NEW k \in Relays, In(b, posted[k])
       PROVE  Cared(b)'
  <2>1. CASE In(b, posted'[k])
    BY <2>1 DEF Cared, Fresh, In
  <2>2. /\ posted \in [Relays -> Seq(Browsers)] /\ posted[i] \in Seq(Browsers)
    BY <1>0 DEF DataKinds
  <2>3. CASE RunPosted(i)
    <3>1. /\ posted[i] # <<>> /\ posted' = [posted EXCEPT ![i] = Tail(@)]
          /\ asked' = asked /\ Callback(i, Head(posted[i]))
      BY <2>3 DEF RunPosted
    <3>2. CASE k # i
      <4>1. posted'[k] = posted[k]
        BY <2>2, <3>1, <3>2
      <4> QED BY <1>10, <2>1, <4>1
    <3>3. CASE k = i /\ b = Head(posted[i])
      <4>1. asked[b] = 1
        BY <1>10 DEF FirstRequest, Fresh
      <4>2. device[i] \in {"here", "gone"}
        BY <1>0, <3>1 DEF DataKinds
      <4> QED BY <1>0, <3>1, <3>3, <4>1, <4>2, CallbackCared
    <3>4. CASE k = i /\ b # Head(posted[i])
      <4>1. posted'[k] = Tail(posted[i])
        BY <2>2, <3>1, <3>4
      <4>2. In(b, Tail(posted[i]))
        BY <1>10, <2>2, <3>1, <3>4, HeadOrTail
      <4> QED BY <2>1, <4>1, <4>2
    <3> QED BY <3>2, <3>3, <3>4
  <2>4. CASE LoopEnds(i)
    <3>1. /\ posted' = [posted EXCEPT ![i] = <<>>]
          /\ {posted[i][n] : n \in DOMAIN posted[i]} \subseteq stranded'
      BY <2>4 DEF LoopEnds
    <3>2. CASE k = i
      BY <1>2, <1>10, <3>1, <3>2 DEF In
    <3>3. CASE k # i
      <4>1. posted'[k] = posted[k]
        BY <2>2, <3>1, <3>3
      <4> QED BY <1>10, <2>1, <4>1
    <3> QED BY <3>2, <3>3
  <2>5. CASE posted' = posted
    BY <1>10, <2>1, <2>5
  <2> QED BY <2>3, <2>4, <2>5 DEF Relay, CreateHandler, CreateServer, Exec, Accepted, DeviceRefuses,
          AcceptedCheck, AcceptedSet, AcceptedRegister, DeviceAnswers, DeviceCloses, AskAgain,
          BrowserCloses
<1> QED BY <1>1, <1>2, <1>3, <1>5, <1>6, <1>7, <1>9, <1>10 DEF Cared, Fresh

LEMMA NextNone ==
  ASSUME TypeOK, Kinds, OneRelay, FirstRequest, Holder, NoneForgotten, Next
  PROVE  NoneForgotten'
<1> USE DEF madeVars, loopVars, dataVars, browserVars, callVars, endVars
<1>0. /\ CallKinds /\ RelayKinds /\ DataKinds
      /\ \A b \in Browsers : browser[b] = "here" => Cared(b)
      /\ process = "up"
  BY KindsParts, NoneParts DEF Next
<1>p. NoneForgotten' <=> \A b \in Browsers : browser'[b] = "here" => Cared(b)'
  <2>1. (NoneForgotten <=> \A b \in Browsers : browser[b] = "here" => Cared(b))'
    BY NoneParts, PTL
  <2> QED BY <2>1
<1>1. SUFFICES ASSUME NEW b \in Browsers, browser'[b] = "here"
               PROVE  Cared(b)'
  BY <1>p
<1>2. CASE Callers
  <2>1. CASE browser[b] = "here"
    BY <1>0, <1>2, <2>1, CallersCared
  <2>2. CASE browser[b] # "here"
    <3>1. Carried(b)'
      <4>1. \/ browser' = browser
            \/ \E c \in Browsers : Refused(c)
            \/ \E c \in Browsers :
                 /\ browser' = [browser EXCEPT ![c] = "here"]
                 /\ http'.b = c \/ socket'.b = c
        BY <1>2 DEF Callers, Malformed, Request, SocketRequest, Taken, ReadyPrimary, SkipSocket,
         ReadyDevice, AddRequest, SetClient, NewRelay, NewSocketRelay, Make, UseAfterFree
      <4> QED BY <1>0, <1>1, <2>2, <4>1 DEF DataKinds, Refused, Carried
    <3> QED BY <3>1 DEF Cared, Fresh
  <2> QED BY <2>1, <2>2
<1>3. ASSUME NEW i \in Relays, Relay(i)
      PROVE  Cared(b)'
  <2>1. browser[b] = "here"
    <3>1. browser' = browser \/ \E c \in Browsers : browser' = [browser EXCEPT ![c] = "gone"]
      BY <1>3 DEF Relay, CreateHandler, CreateServer, Exec, Accepted, DeviceRefuses, AcceptedCheck,
         AcceptedSet, AcceptedRegister, RunPosted, DeviceAnswers, DeviceCloses, AskAgain,
         BrowserCloses, LoopEnds
    <3> QED BY <1>0, <1>1, <3>1 DEF DataKinds
  <2> QED BY <1>0, <1>3, <2>1, RelayCared
<1>4. CASE Delete \/ Deleting
  <2>1. UNCHANGED <<process, socket, browser, asked, first, thread, device, posted, pending, got,
                    stranded>>
    BY <1>0, <1>4, DeletingProgress
  <2>2. http.b = b => http'.b = b
    <3>1. \/ http' = http \/ (http' = Waiting /\ http.b = NoBrowser)
          \/ http' = [http EXCEPT !.step = "join"] \/ http' = [http EXCEPT !.step = "find"]
      BY <1>4, Zenon DEF Delete, Deleting, NextRelay, StopRelay, JoinRelay
    <3>2. [http EXCEPT !.step = "join"].b = http.b /\ [http EXCEPT !.step = "find"].b = http.b
      BY <1>0 DEF CallKinds, GoodHttp
    <3> QED BY <3>1, <3>2, RelayLoopAssumption
  <2>3. Cared(b)
    BY <1>0, <1>1, <2>1
  <2>4. Fresh(b) => Fresh(b)'
    BY <2>1, <2>2 DEF Fresh, Carried, Early, In
  <2>5. (Answered(b) => Answered(b)') /\ (Pends(b) => Pends(b)')
    BY <2>1 DEF Answered, Pends, In
  <2> QED BY <2>1, <2>3, <2>4, <2>5 DEF Cared
<1> QED BY <1>0, <1>2, <1>3, <1>4 DEF Next

-----------------------------------------------------------------------------
(* The theorems.                                                           *)

LEMMA InitHolds == Init => IInv
<1> SUFFICES ASSUME Init
             PROVE  IInv
  OBVIOUS
<1>1. /\ Cardinality(Browsers) \in Nat /\ Relays \subseteq Nat \ {0}
      /\ NoBrowser \notin Browsers /\ Sockets \subseteq Browsers
      /\ \A b \in Browsers : MaxAsks[b] \in Nat \ {0}
  BY Numbers, RelayLoopAssumption
<1>2. <<>> \in Seq(Browsers) /\ <<>> \in Seq(Browsers \X Nat) /\ DOMAIN <<>> = {}
  OBVIOUS
<1>3. CallKinds
  BY <1>1 DEF Init, CallKinds, GoodHttp, GoodSocket, Waiting, NoSocket, Held
<1>4. EndKinds
  BY <1>1 DEF Init, EndKinds
<1>5. RelayKinds
  BY <1>1 DEF Init, RelayKinds
<1>6. DataKinds
  BY <1>1, <1>2 DEF Init, DataKinds
<1>7. \A b \in Browsers : ~Carried(b) /\ \A i \in Relays : ~Trace(b, i)
  BY <1>1, <1>2 DEF Init, Carried, Trace, In, Asks, Waiting, NoSocket
<1>8. OneRelay
  BY <1>7 DEF OneRelay
<1>9. FirstRequest
  <2>1. \A b \in Browsers : ~Fresh(b)
    BY <1>1, <1>2, <1>7 DEF Init, Fresh, Early, In
  <2> QED BY <1>2, <2>1 DEF Init, FirstRequest
<1>10. Holder /\ NoMixedResponses /\ NoneForgotten
  BY <1>2 DEF Init, Holder, NoMixedResponses, NoneForgotten
<1> QED BY <1>3, <1>4, <1>5, <1>6, <1>8, <1>9, <1>10, KindsParts DEF IInv

LEMMA NextKeeps == IInv /\ [Next]_vars => IInv'
<1> SUFFICES ASSUME IInv, [Next]_vars
             PROVE  IInv'
  OBVIOUS
<1>1. CASE Next
  BY <1>1, NextKinds, NextOneRelay, NextFirst, NextHolder, NextNoMix, NextNone DEF IInv
<1>2. CASE UNCHANGED vars
  <2> USE <1>2 DEF vars, callVars, endVars, browserVars, madeVars, loopVars, dataVars
  <2>1. TypeOK'
    BY DEF IInv, TypeOK, AskedOf
  <2>2. Kinds'
    BY DEF IInv, Kinds
  <2>3. OneRelay'
    BY DEF IInv, OneRelay, Trace, Carried, In, Asks
  <2>4. FirstRequest'
    BY DEF IInv, FirstRequest, Fresh, Early, Carried, In, Asks
  <2>5. Holder'
    BY DEF IInv, Holder, Keeps
  <2>6. NoMixedResponses' /\ NoneForgotten'
    BY DEF IInv, NoMixedResponses, NoneForgotten
  <2> QED BY <2>1, <2>2, <2>3, <2>4, <2>5, <2>6 DEF IInv
<1> QED BY <1>1, <1>2

\* The invariant of the relays of a connection.
THEOREM Invariance == Spec => []IInv
BY InitHolds, NextKeeps, PTL DEF Spec

\* The threads, the relays and the browsers are in the steps of the code.
THEOREM TypeCorrect == Spec => []TypeOK
<1>1. IInv => TypeOK
  BY DEF IInv
<1> QED BY <1>1, Invariance, PTL

\* Two loops never watch one browser's socket, and no relay holds it while
\* another does or was made for it: setClient and addHttpRelayClient hand it over.
THEOREM SocketHasOneOwner == Spec => []OneOwner
<1>1. IInv => OneOwner
  <2> SUFFICES ASSUME IInv, NEW b \in Browsers
               PROVE  /\ Cardinality(home[b]) <= 1
                      /\ \A i, j \in Relays :
                           /\ primary[i] = b /\ primary[j] = b => i = j
                           /\ primary[i] = b /\ first[j] = b => i = j
    BY DEF OneOwner
  <2>1. \A i, j \in Relays : Trace(b, i) /\ Trace(b, j) => i = j
    BY DEF IInv, OneRelay
  <2>2. home[b] \subseteq Relays
    BY DEF IInv, TypeOK
  <2>3. CASE home[b] = {}
    BY <2>1, <2>3, FS_EmptySet DEF Trace
  <2>4. CASE home[b] # {}
    <3>1. PICK i \in home[b] : TRUE
      BY <2>4
    <3>2. home[b] = {i}
      BY <2>1, <2>2, <3>1 DEF Trace
    <3>3. Cardinality(home[b]) = 1
      BY <3>2, FS_Singleton
    <3> QED BY <2>1, <3>3 DEF Trace
  <2> QED BY <2>3, <2>4
<1> QED BY <1>1, Invariance, PTL

\* DataReceived gives the device's response to the browser that asked, but for
\* one that left or was dropped for another.
THEOREM ResponsesAreNotMixed == Spec => []NoMixedResponses
<1>1. IInv => NoMixedResponses
  BY DEF IInv
<1> QED BY <1>1, Invariance, PTL

\* A browser the proxy took is answered, or its request is on its way, or the
\* code has a reason to leave it.
THEOREM NobodyIsForgotten == Spec => []NoneForgotten
<1>1. IInv => NoneForgotten
  BY DEF IInv
<1> QED BY <1>1, Invariance, PTL
=============================================================================
