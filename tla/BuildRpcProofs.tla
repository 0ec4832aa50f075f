--------------------------- MODULE BuildRpcProofs ---------------------------
(***************************************************************************)
(* Proofs about BuildRpc.  A job is in one place: in the queue of the      *)
(* platform, or at one server the broker knows to have it.  So the         *)
(* messages on a response queue come from one build at a time, and the     *)
(* first response among them follows the status 100 of the same build,     *)
(* whatever connections ended before.                                      *)
(***************************************************************************)
EXTENDS BuildRpc, SequenceTheorems, TLAPS

Messages == [type : {"status", "responce"}, value : 0..100]
Marks == {0, 20, 70, 80, 100}
Busy == {"configure", "make", "load", "complete", "respond", "ack"}

\* The broker knows server s to have the job of r.
Holds(s, r) == connected[s] /\ server[s].req = r

\* A server has a job exactly in the steps of a build; a queue that is not open is
\* empty, and a request that was not made has none; the statuses are marks of the
\* bar.
Kinds ==
  /\ \A s \in Servers : server[s].req \in Requests <=> server[s].step \in Busy
  /\ \A r \in Requests :
       /\ entry[r] = "new" => queue[r] = "none"
       /\ queue[r] # "open" => inbox[r] = <<>>
       /\ \A i \in 1..Len(inbox[r]) :
            inbox[r][i].type = "status" => inbox[r][i].value \in Marks

\* A job is once in the queue or at one server, and was published.
OnePlace ==
  /\ \A i, j \in 1..Len(jobs) : jobs[i] = jobs[j] => i = j
  /\ \A s \in Servers, i \in 1..Len(jobs) : ~Holds(s, jobs[i])
  /\ \A s, t \in Servers, r \in Requests : Holds(s, r) /\ Holds(t, r) => s = t
  /\ \A i \in 1..Len(jobs) : queue[jobs[i]] \in {"open", "lost"}
  /\ \A s \in Servers, r \in Requests : Holds(s, r) => queue[r] \in {"open", "lost"}

\* Where a server is, in each step: where earlier errors left it, and in between
\* one directory below, that of the build.
Level ==
  \A s \in Servers :
    /\ server[s].step \in {"idle", "configure", "complete", "respond", "ack"} =>
         depth[s] = uncaught[s]
    /\ server[s].step \in {"make", "load"} => depth[s] = uncaught[s] + 1

\* The response is in the inbox of r.
HasResponse(r) == \E i \in 1..Len(inbox[r]) : inbox[r][i].type = "responce"

\* A job that will be acknowledged was answered.
Acknowledged ==
  \A s \in Servers, r \in Requests :
    Holds(s, r) /\ server[s].step = "ack" /\ entry[r] = "waiting" /\ queue[r] = "open"
      => HasResponse(r)

\* The bar stands at 100 when the first i messages of the inbox are read.
Stands(r, i) == IF i = 0 THEN progress[r] = 100 ELSE inbox[r][i] = Status(100)

\* The first response of a request that waits comes right after the status 100,
\* and a server that is to respond has just sent that one.
Bar ==
  \A r \in Requests : entry[r] = "waiting" =>
    /\ \A i \in 1..Len(inbox[r]) :
         inbox[r][i].type = "responce" =>
           Stands(r, i - 1) \/ \E j \in 1..(i - 1) : inbox[r][j].type = "responce"
    /\ queue[r] = "open" => \A s \in Servers : Holds(s, r) /\ server[s].step = "respond" =>
                              Stands(r, Len(inbox[r])) \/ HasResponse(r)

\* Only a request that is deleted has a result.
Told == \A r \in Requests : final[r] # <<>> => entry[r] = "deleted"

\* The inductive invariant.
IInv ==
  /\ TypeOK
  /\ Kinds
  /\ OnePlace
  /\ Level
  /\ NothingForgotten
  /\ Acknowledged
  /\ Bar
  /\ Told

-----------------------------------------------------------------------------
(* The sequences: what a queue or an inbox is after a step.                *)

\* The type invariant with the set of messages by its name.
LEMMA Types ==
  ASSUME TypeOK
  PROVE  /\ inbox \in [Requests -> Seq(Messages)]
         /\ jobs \in Seq(Requests)
         /\ \A s \in Servers :
              /\ server[s].step \in {"down", "idle"} \cup Busy
              /\ server[s].req \in Requests \cup {NoRequest}
              /\ server[s].ok \in BOOLEAN
BY DEF TypeOK, Messages, Busy

\* Statuses and responses are messages.
LEMMA AreMessages ==
  /\ \A n \in 0..100 : <<Status(n)>> \in Seq(Messages)
  /\ \A n, m \in 0..100 : <<Status(n), Status(m)>> \in Seq(Messages)
  /\ \A ok \in BOOLEAN : <<Response(ok)>> \in Seq(Messages)
  /\ <<>> \in Seq(Messages)
<1>1. \A n \in 0..100 : Status(n) \in Messages
  BY DEF Status, Messages
<1>2. \A ok \in BOOLEAN : Response(ok) \in Messages
  <2> TAKE ok \in BOOLEAN
  <2>1. (IF ok THEN 1 ELSE 0) \in 0..100
    OBVIOUS
  <2> QED BY <2>1 DEF Response, Messages
<1> QED BY <1>1, <1>2

\* Messages that are delivered come last in an open queue.
LEMMA DeliverSteps ==
  ASSUME TypeOK, NEW q \in Requests, NEW ms \in Seq(Messages), Deliver(q, ms)
  PROVE  /\ inbox' \in [Requests -> Seq(Messages)]
         /\ \A r \in Requests : r # q => inbox'[r] = inbox[r]
         /\ queue[q] # "open" => inbox'[q] = inbox[q]
         /\ queue[q] = "open" => inbox'[q] = inbox[q] \o ms
<1>1. inbox \in [Requests -> Seq(Messages)]
  BY Types
<1>2. inbox[q] \o ms \in Seq(Messages)
  BY <1>1, ConcatProperties
<1> QED BY <1>1, <1>2 DEF Deliver

-----------------------------------------------------------------------------
(* The steps of a server: it has the job of r, or takes it, and sends ms.  *)

ServerStates == [step : {"down", "idle"} \cup Busy, req : Requests \cup {NoRequest}, ok : BOOLEAN]

\* Server s sends ms for request r and goes on to another step.
Sends(s, r, ms) ==
  /\ r \in Requests /\ ms \in Seq(Messages)
  /\ \A i \in 1..Len(ms) : ms[i].type = "status" => ms[i].value \in Marks
  /\ inbox' \in [Requests -> Seq(Messages)]
  /\ \A q \in Requests : q # r => inbox'[q] = inbox[q]
  /\ connected[s] /\ queue[r] = "open" => inbox'[r] = inbox[r] \o ms
  /\ ~connected[s] \/ queue[r] # "open" => inbox'[r] = inbox[r]
  /\ server' \in [Servers -> ServerStates]
  /\ \A t \in Servers : t # s => server'[t] = server[t]
  /\ server'[s].req \in Requests <=> server'[s].step \in Busy
  /\ \/ server[s].req = r /\ jobs' = jobs
     \/ /\ connected[s] /\ server[s].step = "idle"
        /\ jobs # <<>> /\ r = Head(jobs) /\ jobs' = Tail(jobs)
  /\ \/ server'[s].req = r
     \/ server'[s].req = NoRequest /\ (connected[s] => server[s].step = "ack" /\ ms = <<>>)
  /\ \/ /\ \A i \in 1..Len(ms) : ms[i].type = "status"
        /\ server'[s].step # "ack"
        /\ server'[s].step = "respond" => ms = <<Status(100)>>
     \/ /\ server[s].step = "respond" /\ server'[s].step = "ack"
        /\ \E ok \in BOOLEAN : ms = <<Response(ok)>>
  /\ UNCHANGED <<feVars, declared, connected, failures, gone>>

\* A server whose connection is cut ends when it sends.
LEMMA SendSteps ==
  ASSUME TypeOK, NEW s \in Servers, server[s].req \in Requests, NEW ms \in Seq(Messages),
         NEW step \in Busy, Send(s, ms, step)
  PROVE  LET r == server[s].req IN
         /\ inbox' \in [Requests -> Seq(Messages)]
         /\ \A q \in Requests : q # r => inbox'[q] = inbox[q]
         /\ connected[s] /\ queue[r] = "open" => inbox'[r] = inbox[r] \o ms
         /\ ~connected[s] \/ queue[r] # "open" => inbox'[r] = inbox[r]
         /\ server' \in [Servers -> ServerStates]
         /\ \A t \in Servers : t # s => server'[t] = server[t]
         /\ connected[s] => server'[s] = [server[s] EXCEPT !.step = step]
         /\ ~connected[s] => server'[s] = Down
         /\ UNCHANGED <<feVars, jobs, declared, connected, failures, gone>>
<1> DEFINE r == server[s].req
<1>1. server \in [Servers -> ServerStates]
  BY DEF TypeOK, ServerStates, Busy
<1>2. UNCHANGED <<feVars, jobs, declared, connected, failures, gone>>
  BY DEF Send
<1>3. CASE connected[s]
  <2>1. server' = [server EXCEPT ![s].step = step] /\ Deliver(r, ms)
    BY <1>3 DEF Send, GoTo
  <2>2. [server[s] EXCEPT !.step = step] \in ServerStates
    BY <1>1 DEF ServerStates
  <2>3. /\ inbox' \in [Requests -> Seq(Messages)]
        /\ \A q \in Requests : q # r => inbox'[q] = inbox[q]
        /\ queue[r] # "open" => inbox'[r] = inbox[r]
        /\ queue[r] = "open" => inbox'[r] = inbox[r] \o ms
    BY <2>1, DeliverSteps
  <2> QED BY <1>1, <1>2, <1>3, <2>1, <2>2, <2>3
<1>4. CASE ~connected[s]
  <2>1. server' = [server EXCEPT ![s] = Down] /\ inbox' = inbox
    BY <1>4 DEF Send
  <2>2. Down \in ServerStates
    BY DEF Down, Idle, ServerStates
  <2>3. inbox \in [Requests -> Seq(Messages)]
    BY Types
  <2> QED BY <1>1, <1>2, <1>4, <2>1, <2>2, <2>3
<1> QED BY <1>3, <1>4

\* What is sent in the steps of a build.
LEMMA SendSends ==
  ASSUME TypeOK, NEW s \in Servers, server[s].req \in Requests, NEW ms \in Seq(Messages),
         NEW step \in Busy, Send(s, ms, step),
         \A i \in 1..Len(ms) : ms[i].type = "status" => ms[i].value \in Marks,
         \/ /\ \A i \in 1..Len(ms) : ms[i].type = "status"
            /\ step # "ack"
            /\ step = "respond" => ms = <<Status(100)>>
         \/ /\ server[s].step = "respond" /\ step = "ack"
            /\ \E ok \in BOOLEAN : ms = <<Response(ok)>>
  PROVE  \E m : Sends(s, server[s].req, m)
<1> DEFINE r == server[s].req
<1>1. /\ inbox' \in [Requests -> Seq(Messages)]
      /\ \A q \in Requests : q # r => inbox'[q] = inbox[q]
      /\ connected[s] /\ queue[r] = "open" => inbox'[r] = inbox[r] \o ms
      /\ ~connected[s] \/ queue[r] # "open" => inbox'[r] = inbox[r]
      /\ server' \in [Servers -> ServerStates]
      /\ \A t \in Servers : t # s => server'[t] = server[t]
      /\ connected[s] => server'[s] = [server[s] EXCEPT !.step = step]
      /\ ~connected[s] => server'[s] = Down
      /\ UNCHANGED <<feVars, jobs, declared, connected, failures, gone>>
  BY SendSteps
<1>2. CASE connected[s]
  <2>1. server'[s].step = step /\ server'[s].req = r
    BY <1>1, <1>2 DEF TypeOK
  <2>2. Sends(s, r, ms)
    BY <1>1, <1>2, <2>1 DEF Sends
  <2> QED BY <2>2
<1>3. CASE ~connected[s]
  <2>1. server'[s].step = "down" /\ server'[s].req = NoRequest
    BY <1>1, <1>3 DEF Down, Idle
  <2>2. <<>> \in Seq(Messages) /\ Len(<<>>) = 0
    OBVIOUS
  <2>3. server'[s].req \in Requests <=> server'[s].step \in Busy
    BY <2>1, BuildRpcAssumption DEF Busy
  <2>4. Sends(s, r, <<>>)
    BY <1>1, <1>3, <2>1, <2>2, <2>3 DEF Sends
  <2> QED BY <2>4
<1> QED BY <1>2, <1>3

\* A step of a build that sends nothing.
LEMMA MoveSends ==
  ASSUME TypeOK, NEW s \in Servers, server[s].req \in Requests, NEW new \in ServerStates,
         server' = [server EXCEPT ![s] = new],
         \/ new.req = server[s].req /\ new.step \in Busy \ {"ack", "respond"}
         \/ new.req = NoRequest /\ new.step \notin Busy /\ server[s].step = "ack",
         UNCHANGED <<feVars, brokerVars, connected, failures, gone>>
  PROVE  Sends(s, server[s].req, <<>>)
<1>1. server \in [Servers -> ServerStates]
  BY DEF TypeOK, ServerStates, Busy
<1>2. server'[s] = new
  BY <1>1
<1>3. <<>> \in Seq(Messages) /\ Len(<<>>) = 0
  OBVIOUS
<1>4. inbox' = inbox /\ inbox \in [Requests -> Seq(Messages)]
  BY Types DEF brokerVars
<1>5. inbox[server[s].req] \o <<>> = inbox[server[s].req]
  BY <1>4, ConcatEmptySeq
<1>6. new.req \in Requests <=> new.step \in Busy
  BY BuildRpcAssumption
<1>7. /\ \A i \in 1..Len(<<>>) : <<>>[i].type = "status"
      /\ new.step # "ack" /\ new.step # "respond"
  BY <1>3 DEF Busy
<1>8. server' \in [Servers -> ServerStates] /\ \A t \in Servers : t # s => server'[t] = server[t]
  BY <1>1
<1> QED BY <1>1, <1>2, <1>3, <1>4, <1>5, <1>6, <1>7, <1>8 DEF Sends, brokerVars

LEMMA TakeSends ==
  ASSUME TypeOK, NEW s \in Servers, Take(s)
  PROVE  Sends(s, Head(jobs), <<Status(0)>>)
<1> DEFINE r == Head(jobs)
           new == [step |-> "configure", req |-> r, ok |-> FALSE]
           ms == <<Status(0)>>
<1>1. /\ server[s].step = "idle" /\ connected[s] /\ jobs # <<>> /\ jobs' = Tail(jobs)
      /\ server' = [server EXCEPT ![s] = new]
      /\ Deliver(r, ms)
      /\ UNCHANGED <<feVars, declared, connected, failures, gone>>
  BY DEF Take, history
<1>2. server \in [Servers -> ServerStates]
  BY DEF TypeOK, ServerStates, Busy
<1>3. r \in Requests
  BY <1>1, Types, HeadTailProperties
<1>4. new \in ServerStates /\ new.step \in Busy /\ new.step # "ack" /\ new.step # "respond"
  BY <1>3 DEF ServerStates, Busy
<1>5. ms \in Seq(Messages) /\ Len(ms) = 1 /\ ms[1].type = "status" /\ ms[1].value = 0
  <2>1. ms \in Seq(Messages)
    BY AreMessages
  <2>2. Len(ms) = 1 /\ ms[1] = Status(0)
    OBVIOUS
  <2> QED BY <2>1, <2>2 DEF Status
<1>6. /\ inbox' \in [Requests -> Seq(Messages)]
      /\ \A q \in Requests : q # r => inbox'[q] = inbox[q]
      /\ queue[r] # "open" => inbox'[r] = inbox[r]
      /\ queue[r] = "open" => inbox'[r] = inbox[r] \o ms
  BY <1>1, <1>3, <1>5, DeliverSteps
<1>7. server'[s] = new /\ server' \in [Servers -> ServerStates]
      /\ \A t \in Servers : t # s => server'[t] = server[t]
  BY <1>1, <1>2, <1>4
<1>8. \A i \in 1..Len(ms) : ms[i].type = "status" /\ ms[i].value \in Marks
  BY <1>5 DEF Marks
<1> QED BY <1>1, <1>3, <1>4, <1>5, <1>6, <1>7, <1>8 DEF Sends

\* A build that fails goes on to the answer.
LEMMA FailSends ==
  ASSUME TypeOK, NEW s \in Servers, server[s].req \in Requests, Fail(s),
         UNCHANGED <<feVars, brokerVars, connected, failures, gone>>
  PROVE  Sends(s, server[s].req, <<>>)
<1> DEFINE new == [server[s] EXCEPT !.step = "complete"]
<1>0. server[s] \in ServerStates
  BY DEF TypeOK, ServerStates, Busy
<1>1. new \in ServerStates /\ new.req = server[s].req /\ new.step = "complete"
  BY <1>0 DEF ServerStates, Busy
<1>2. server' = [server EXCEPT ![s] = new]
  BY DEF Fail, GoTo
<1>3. new.step \in Busy \ {"ack", "respond"}
  BY <1>1 DEF Busy
<1> HIDE DEF new
<1> QED BY <1>1, <1>2, <1>3, MoveSends

LEMMA ConfigureSends ==
  ASSUME TypeOK, NEW s \in Servers, server[s].req \in Requests, Configure(s)
  PROVE  \E ms : Sends(s, server[s].req, ms)
<1>1. CASE Fail(s) /\ UNCHANGED <<feVars, brokerVars, connected, failures, gone>>
  BY <1>1, FailSends
<1>2. CASE Send(s, <<Status(20)>>, "make")
  <2>1. <<Status(20)>> \in Seq(Messages)
    BY AreMessages
  <2>2. \A i \in 1..Len(<<Status(20)>>) :
          <<Status(20)>>[i].type = "status" /\ <<Status(20)>>[i].value \in Marks
    BY DEF Status, Marks
  <2>3. "make" \in Busy /\ "make" # "ack" /\ "make" # "respond"
    BY DEF Busy
  <2> QED BY <1>2, <2>1, <2>2, <2>3, SendSends
<1> QED BY <1>1, <1>2 DEF Configure, history

LEMMA MakeSends ==
  ASSUME TypeOK, NEW s \in Servers, server[s].req \in Requests, Make(s)
  PROVE  \E ms : Sends(s, server[s].req, ms)
<1>1. CASE Fail(s) /\ UNCHANGED <<feVars, brokerVars, connected, failures, gone>>
  BY <1>1, FailSends
<1>2. CASE Send(s, <<Status(70)>>, "complete")
  <2>1. <<Status(70)>> \in Seq(Messages)
    BY AreMessages
  <2>2. \A i \in 1..Len(<<Status(70)>>) :
          <<Status(70)>>[i].type = "status" /\ <<Status(70)>>[i].value \in Marks
    BY DEF Status, Marks
  <2>3. "complete" \in Busy /\ "complete" # "ack" /\ "complete" # "respond"
    BY DEF Busy
  <2> QED BY <1>2, <2>1, <2>2, <2>3, SendSends
<1>3. CASE Send(s, <<Status(70), Status(80)>>, "load")
  <2>1. <<Status(70), Status(80)>> \in Seq(Messages)
    BY AreMessages
  <2>2. \A i \in 1..Len(<<Status(70), Status(80)>>) :
          /\ <<Status(70), Status(80)>>[i].type = "status"
          /\ <<Status(70), Status(80)>>[i].value \in Marks
    BY DEF Status, Marks
  <2>3. "load" \in Busy /\ "load" # "ack" /\ "load" # "respond"
    BY DEF Busy
  <2> QED BY <1>3, <2>1, <2>2, <2>3, SendSends
<1> QED BY <1>1, <1>2, <1>3 DEF Make, history

LEMMA LoadSends ==
  ASSUME TypeOK, NEW s \in Servers, server[s].req \in Requests, Load(s)
  PROVE  \E ms : Sends(s, server[s].req, ms)
<1>1. CASE Fail(s) /\ UNCHANGED <<feVars, brokerVars, connected, failures, gone>>
  BY <1>1, FailSends
<1>2. CASE /\ server' = [server EXCEPT ![s].step = "complete", ![s].ok = TRUE]
           /\ UNCHANGED <<feVars, brokerVars, connected, failures, gone>>
  <2> DEFINE new == [server[s] EXCEPT !.step = "complete", !.ok = TRUE]
  <2>0. server[s] \in ServerStates
    BY DEF TypeOK, ServerStates, Busy
  <2>1. new \in ServerStates /\ new.req = server[s].req /\ new.step = "complete"
    BY <2>0 DEF ServerStates, Busy
  <2>2. server' = [server EXCEPT ![s] = new]
    BY <1>2 DEF TypeOK
  <2>3. new.step \in Busy \ {"ack", "respond"}
    BY <2>1 DEF Busy
  <2> HIDE DEF new
  <2> QED BY <1>2, <2>1, <2>2, <2>3, MoveSends
<1> QED BY <1>1, <1>2 DEF Load, history

LEMMA CompleteSends ==
  ASSUME TypeOK, NEW s \in Servers, server[s].req \in Requests, Complete(s)
  PROVE  \E ms : Sends(s, server[s].req, ms)
<1>1. Send(s, <<Status(100)>>, "respond")
  BY DEF Complete
<1>2. <<Status(100)>> \in Seq(Messages)
  BY AreMessages
<1>3. \A i \in 1..Len(<<Status(100)>>) :
        <<Status(100)>>[i].type = "status" /\ <<Status(100)>>[i].value \in Marks
  BY DEF Status, Marks
<1>4. "respond" \in Busy /\ "respond" # "ack"
  BY DEF Busy
<1> QED BY <1>1, <1>2, <1>3, <1>4, SendSends

LEMMA RespondSends ==
  ASSUME TypeOK, NEW s \in Servers, server[s].req \in Requests, Respond(s)
  PROVE  \E ms : Sends(s, server[s].req, ms)
<1> DEFINE ms == <<Response(server[s].ok)>>
<1>1. Send(s, ms, "ack") /\ server[s].step = "respond"
  BY DEF Respond
<1>2. ms \in Seq(Messages) /\ server[s].ok \in BOOLEAN
  BY AreMessages, Types
<1>3. \A i \in 1..Len(ms) : ms[i].type # "status"
  BY DEF Response
<1>4. "ack" \in Busy
  BY DEF Busy
<1> QED BY <1>1, <1>2, <1>3, <1>4, SendSends

LEMMA AckSends ==
  ASSUME TypeOK, NEW s \in Servers, server[s].req \in Requests, Ack(s)
  PROVE  \E ms : Sends(s, server[s].req, ms)
<1> DEFINE new == IF connected[s] THEN Idle ELSE Down
<1>1. new \in ServerStates /\ new.req = NoRequest /\ new.step \notin Busy
  BY DEF Idle, Down, ServerStates, Busy
<1>2. /\ server[s].step = "ack" /\ server' = [server EXCEPT ![s] = new]
      /\ UNCHANGED <<feVars, brokerVars, connected, failures, gone>>
  BY DEF Ack, history
<1> HIDE DEF new
<1> QED BY <1>1, <1>2, MoveSends

\* Every step of a server.
LEMMA ServerSends ==
  ASSUME TypeOK, Kinds, NEW s \in Servers, ServerStep(s)
  PROVE  \E r, ms : Sends(s, r, ms)
<1>1. CASE Take(s)
  BY <1>1, TakeSends
<1>2. CASE ~Take(s)
  <2>1. server[s].step \in Busy
    BY <1>2 DEF ServerStep, Configure, Make, Load, Complete, Respond, Ack, Busy
  <2>2. server[s].req \in Requests
    BY <2>1 DEF Kinds
  <2> QED BY <1>2, <2>2, ConfigureSends, MakeSends, LoadSends, CompleteSends, RespondSends,
             AckSends DEF ServerStep
<1> QED BY <1>1, <1>2

-----------------------------------------------------------------------------
(* The types.                                                              *)

\* The directory of a server after a step of it.
LEMMA DepthSteps ==
  ASSUME TypeOK, Level, NEW s \in Servers, ServerStep(s)
  PROVE  depth' \in [Servers -> Nat] /\ uncaught' \in [Servers -> Nat]
<1> USE DEF history
<1>1. depth \in [Servers -> Nat] /\ uncaught \in [Servers -> Nat]
  BY DEF TypeOK
<1>2. server[s].step \in {"make", "load"} => depth[s] - 1 \in Nat
  BY <1>1 DEF Level
<1>3. CASE Take(s)
  BY <1>1, <1>3 DEF Take
<1>4. CASE Configure(s)
  <2>1. depth' = depth \/ depth' = [depth EXCEPT ![s] = @ + 1]
    BY <1>4 DEF Configure
  <2>2. uncaught' = uncaught \/ uncaught' = [uncaught EXCEPT ![s] = @ + 1]
    BY <1>4 DEF Configure, Escape
  <2> QED BY <1>1, <2>1, <2>2
<1>5. CASE Make(s)
  <2>1. depth' = depth \/ depth' = [depth EXCEPT ![s] = @ - 1]
    BY <1>5 DEF Make, Restored
  <2>2. uncaught' = uncaught \/ uncaught' = [uncaught EXCEPT ![s] = @ + 1]
    BY <1>5 DEF Make, Escape
  <2>3. server[s].step = "make"
    BY <1>5 DEF Make
  <2> QED BY <1>1, <1>2, <2>1, <2>2, <2>3
<1>6. CASE Load(s)
  <2>1. depth' = [depth EXCEPT ![s] = @ - 1] /\ uncaught' = uncaught
    BY <1>6 DEF Load, Restored
  <2>2. server[s].step = "load"
    BY <1>6 DEF Load
  <2> QED BY <1>1, <1>2, <2>1, <2>2
<1>7. CASE Complete(s) \/ Respond(s) \/ Ack(s)
  BY <1>1, <1>7 DEF Complete, Respond, Ack
<1> QED BY <1>3, <1>4, <1>5, <1>6, <1>7 DEF ServerStep

LEMMA ServerTypes ==
  ASSUME TypeOK, Kinds, Level, NEW s \in Servers, ServerStep(s)
  PROVE  TypeOK'
<1>1. PICK r, ms : Sends(s, r, ms)
  BY ServerSends
<1>2. inbox' \in [Requests -> Seq([type : {"status", "responce"}, value : 0..100])]
  BY <1>1 DEF Sends, Messages
<1>3. server' \in [Servers -> [step : {"down", "idle", "configure", "make", "load",
                                       "complete", "respond", "ack"},
                               req : Requests \cup {NoRequest}, ok : BOOLEAN]]
  <2>1. {"down", "idle"} \cup Busy = {"down", "idle", "configure", "make", "load",
                                      "complete", "respond", "ack"}
    BY DEF Busy
  <2> QED BY <1>1, <2>1 DEF Sends, ServerStates
<1>4. jobs' \in Seq(Requests)
  BY <1>1, Types, HeadTailProperties DEF Sends
<1>5. UNCHANGED <<feVars, declared, connected, failures, gone>>
  BY <1>1 DEF Sends
<1>6. depth' \in [Servers -> Nat] /\ uncaught' \in [Servers -> Nat]
  BY DepthSteps
<1> QED BY <1>2, <1>3, <1>4, <1>5, <1>6 DEF TypeOK, feVars

\* A page is told of an error.
LEMMA TellErrorSteps ==
  ASSUME TypeOK, NEW r \in Requests, TellError(r)
  PROVE  /\ progress' \in [Requests -> {0, 20, 70, 80, 100}] /\ progress'[r] = 100
         /\ final' \in [Requests -> Seq({"body", "error"})]
         /\ entry' \in [Requests -> {"new", "waiting", "deleted", "lost"}]
         /\ entry'[r] = "deleted"
         /\ \A q \in Requests : q # r => /\ entry'[q] = entry[q]
                                         /\ progress'[q] = progress[q]
                                         /\ final'[q] = final[q]
<1>1. Append(final[r], "error") \in Seq({"body", "error"})
  BY AppendProperties DEF TypeOK
<1> QED BY <1>1 DEF TellError, TypeOK

\* What the page and the inbox are when the first message was read.
LEMMA ConsumeSteps ==
  ASSUME TypeOK, Kinds, NEW r \in Requests, Consume(r)
  PROVE  LET m == Head(inbox[r])
             answered == m.type = "responce" /\ entry[r] = "waiting" IN
         /\ inbox[r] # <<>> /\ m \in Messages /\ m = inbox[r][1]
         /\ inbox' \in [Requests -> Seq(Messages)] /\ inbox'[r] = Tail(inbox[r])
         /\ progress' \in [Requests -> {0, 20, 70, 80, 100}]
         /\ progress'[r] = IF m.type = "status" /\ entry[r] = "waiting"
                           THEN m.value ELSE progress[r]
         /\ final' \in [Requests -> Seq({"body", "error"})]
         /\ ~answered => final'[r] = final[r] /\ entry'[r] = entry[r]
         /\ answered => entry'[r] = "deleted"
         /\ entry' \in [Requests -> {"new", "waiting", "deleted", "lost"}]
         /\ \A q \in Requests : q # r => /\ inbox'[q] = inbox[q]
                                         /\ entry'[q] = entry[q]
                                         /\ progress'[q] = progress[q]
                                         /\ final'[q] = final[q]
         /\ UNCHANGED <<queue, jobs, declared, buildVars, failures, history>>
<1> DEFINE m == Head(inbox[r])
           answered == m.type = "responce" /\ entry[r] = "waiting"
           result == IF m.value = 1 THEN "body" ELSE "error"
<1>1. inbox \in [Requests -> Seq(Messages)] /\ inbox[r] # <<>>
  BY Types DEF Consume
<1>2. m \in Messages /\ m = inbox[r][1] /\ Tail(inbox[r]) \in Seq(Messages) /\ 1 \in 1..Len(inbox[r])
  BY <1>1, HeadTailProperties, EmptySeq
<1>3. m.type = "status" => m.value \in {0, 20, 70, 80, 100}
  BY <1>2 DEF Kinds, Marks
<1>4. /\ inbox' = [inbox EXCEPT ![r] = Tail(@)]
      /\ progress' = [progress EXCEPT ![r] = IF m.type = "status" /\ entry[r] = "waiting"
                                             THEN m.value ELSE @]
      /\ final' = [final EXCEPT ![r] = IF answered THEN Append(@, result) ELSE @]
      /\ entry' = [entry EXCEPT ![r] = IF answered THEN "deleted" ELSE @]
      /\ UNCHANGED <<queue, jobs, declared, buildVars, failures, history>>
  BY DEF Consume, Forwards
<1>5. final[r] \in Seq({"body", "error"}) /\ Append(final[r], result) \in Seq({"body", "error"})
  BY AppendProperties DEF TypeOK
<1>6. final' \in [Requests -> Seq({"body", "error"})] /\ (~answered => final'[r] = final[r])
      /\ \A q \in Requests : q # r => final'[q] = final[q]
  BY <1>4, <1>5 DEF TypeOK
<1>7. /\ entry' \in [Requests -> {"new", "waiting", "deleted", "lost"}]
      /\ ~answered => entry'[r] = entry[r]
      /\ answered => entry'[r] = "deleted"
      /\ \A q \in Requests : q # r => entry'[q] = entry[q]
  BY <1>4 DEF TypeOK
<1>8. /\ progress' \in [Requests -> {0, 20, 70, 80, 100}]
      /\ progress'[r] = IF m.type = "status" /\ entry[r] = "waiting" THEN m.value ELSE progress[r]
      /\ \A q \in Requests : q # r => progress'[q] = progress[q]
  BY <1>3, <1>4 DEF TypeOK
<1>9. /\ inbox' \in [Requests -> Seq(Messages)] /\ inbox'[r] = Tail(inbox[r])
      /\ \A q \in Requests : q # r => inbox'[q] = inbox[q]
  BY <1>1, <1>2, <1>4
<1> QED BY <1>1, <1>2, <1>4, <1>6, <1>7, <1>8, <1>9

\* What becomes of the response queues.
LEMMA LoseQueuesSteps ==
  ASSUME TypeOK, NEW lost, LoseQueues(lost)
  PROVE  /\ inbox' \in [Requests -> Seq(Messages)]
         /\ \A r \in Requests : inbox'[r] = <<>>
         /\ queue' \in [Requests -> {"none", "asked", "open", "lost"}]
         /\ \A r \in Requests : /\ queue'[r] # "open"
                                /\ queue[r] \in {"open", "lost"} => queue'[r] = "lost"
                                /\ queue[r] = "none" => queue'[r] = "none"
<1>1. <<>> \in Seq(Messages)
  OBVIOUS
<1> QED BY <1>1 DEF LoseQueues, TypeOK

\* A connection that ends gives its job back.
LEMMA DisconnectSteps ==
  ASSUME TypeOK, NEW s \in Servers, Disconnect(s)
  PROVE  /\ connected[s] /\ connected' = [connected EXCEPT ![s] = FALSE]
         /\ jobs' \in Seq(Requests)
         /\ server[s].req \in Requests => jobs' = <<server[s].req>> \o jobs
         /\ server[s].req \notin Requests => jobs' = jobs
         /\ server' = [server EXCEPT ![s] = Down] \/ server' = server
         /\ server' \in [Servers -> ServerStates]
         /\ failures' \in 0..MaxFailures
         /\ UNCHANGED <<feVars, declared, inbox, depth, history>>
<1>1. server \in [Servers -> ServerStates] /\ jobs \in Seq(Requests)
  BY Types DEF TypeOK, ServerStates, Busy
<1>2. Down \in ServerStates
  BY DEF Down, Idle, ServerStates
<1>3. connected[s] /\ failures < MaxFailures /\ failures' = failures + 1
  BY DEF Disconnect
<1>4. failures' \in 0..MaxFailures
  BY <1>3, BuildRpcAssumption DEF TypeOK
<1>5. CASE server[s].req \in Requests
  <2>1. jobs' = <<server[s].req>> \o jobs
    BY <1>3, <1>5, BuildRpcAssumption DEF Disconnect, Unacknowledged
  <2>2. jobs' \in Seq(Requests)
    BY <1>1, <1>5, <2>1, ConcatProperties
  <2> QED BY <1>1, <1>2, <1>3, <1>4, <1>5, <2>1, <2>2 DEF Disconnect
<1>6. CASE server[s].req \notin Requests
  <2>1. server[s].req = NoRequest
    BY <1>6, Types
  <2>2. jobs' = <<>> \o jobs
    BY <2>1 DEF Disconnect, Unacknowledged
  <2>3. jobs' = jobs
    BY <1>1, <2>2, ConcatEmptySeq
  <2> QED BY <1>1, <1>2, <1>3, <1>4, <1>6, <2>3 DEF Disconnect
<1> QED BY <1>5, <1>6

\* A job is published on a queue that was declared.
LEMMA PublishSteps ==
  ASSUME TypeOK, NEW r \in Requests, Publish(r)
  PROVE  /\ queue[r] = "asked" /\ queue' = [queue EXCEPT ![r] = "open"]
         /\ jobs' \in Seq(Requests)
         /\ \/ jobs' = Append(jobs, r) /\ gone' = gone
            \/ jobs' = jobs /\ gone' = gone \cup {r}
         /\ UNCHANGED <<entry, progress, final, declared, inbox, buildVars>>
         /\ UNCHANGED <<failures, uncaught>>
<1>1. jobs \in Seq(Requests) /\ Append(jobs, r) \in Seq(Requests)
  BY AppendProperties DEF TypeOK
<1> QED BY <1>1 DEF Publish

\* The broker comes back empty.
LEMMA RestartBrokerSteps ==
  ASSUME TypeOK, RestartBroker
  PROVE  /\ jobs' = <<>> /\ declared' = FALSE /\ LoseQueues({})
         /\ \A s \in Servers : ~connected'[s]
         /\ connected' \in [Servers -> BOOLEAN]
         /\ \A s \in Servers : server'[s] = server[s] \/ server'[s] = Down
         /\ server' \in [Servers -> ServerStates]
         /\ failures' \in 0..MaxFailures
         /\ UNCHANGED <<entry, progress, final, depth, history>>
<1>1. server \in [Servers -> ServerStates]
  BY DEF TypeOK, ServerStates, Busy
<1>2. Down \in ServerStates
  BY DEF Down, Idle, ServerStates
<1>3. failures' \in 0..MaxFailures
  BY BuildRpcAssumption DEF RestartBroker, TypeOK
<1> QED BY <1>1, <1>2, <1>3 DEF RestartBroker

LEMMA TypeStep ==
  ASSUME TypeOK, Kinds, Level, Next
  PROVE  TypeOK'
<1> USE DEF feVars, brokerVars, buildVars, history
<1>1. ASSUME NEW r \in Requests, MkdirFails(r) \/ Timeout(r)
      PROVE  TypeOK'
  <2>1. TellError(r) /\ UNCHANGED <<queue, brokerVars, buildVars, failures, history>>
    BY <1>1 DEF MkdirFails, Timeout
  <2>2. /\ progress' \in [Requests -> {0, 20, 70, 80, 100}]
        /\ final' \in [Requests -> Seq({"body", "error"})]
        /\ entry' \in [Requests -> {"new", "waiting", "deleted", "lost"}]
    BY <2>1, TellErrorSteps
  <2> QED BY <2>1, <2>2 DEF TypeOK
<1>2. ASSUME NEW r \in Requests, MakeRequest(r)
      PROVE  TypeOK'
  BY <1>2 DEF MakeRequest, TypeOK
<1>3. ASSUME NEW r \in Requests, Publish(r)
      PROVE  TypeOK'
  <2>1. /\ queue' = [queue EXCEPT ![r] = "open"] /\ jobs' \in Seq(Requests)
        /\ gone' = gone \/ gone' = gone \cup {r}
        /\ UNCHANGED <<entry, progress, final, declared, inbox, buildVars>>
        /\ UNCHANGED <<failures, uncaught>>
    BY <1>3, PublishSteps
  <2> QED BY <2>1 DEF TypeOK
<1>4. ASSUME NEW r \in Requests, Consume(r)
      PROVE  TypeOK'
  <2>1. /\ inbox' \in [Requests -> Seq(Messages)]
        /\ progress' \in [Requests -> {0, 20, 70, 80, 100}]
        /\ final' \in [Requests -> Seq({"body", "error"})]
        /\ entry' \in [Requests -> {"new", "waiting", "deleted", "lost"}]
        /\ UNCHANGED <<queue, jobs, declared, buildVars, failures, history>>
    BY <1>4, ConsumeSteps
  <2> QED BY <2>1 DEF TypeOK, Messages
<1>5. CASE RestartFrontEnd
  <2>1. /\ failures < MaxFailures /\ failures' = failures + 1 /\ LoseQueues(Requests)
        /\ entry' \in [Requests -> {"new", "waiting", "deleted", "lost"}]
        /\ UNCHANGED <<progress, final, jobs, declared, buildVars, history>>
    BY <1>5 DEF RestartFrontEnd, TypeOK
  <2>2. failures' \in 0..MaxFailures
    BY <2>1, BuildRpcAssumption DEF TypeOK
  <2>3. inbox' \in [Requests -> Seq(Messages)]
        /\ queue' \in [Requests -> {"none", "asked", "open", "lost"}]
    BY <2>1, LoseQueuesSteps
  <2> QED BY <2>1, <2>2, <2>3 DEF TypeOK, Messages
<1>6. ASSUME NEW s \in Servers, Start(s)
      PROVE  TypeOK'
  BY <1>6 DEF Start, Idle, TypeOK
<1>7. ASSUME NEW s \in Servers, ServerStep(s)
      PROVE  TypeOK'
  BY <1>7, ServerTypes
<1>8. ASSUME NEW s \in Servers, Disconnect(s)
      PROVE  TypeOK'
  <2>1. /\ connected' = [connected EXCEPT ![s] = FALSE] /\ jobs' \in Seq(Requests)
        /\ server' \in [Servers -> ServerStates] /\ failures' \in 0..MaxFailures
        /\ UNCHANGED <<feVars, declared, inbox, depth, history>>
    BY <1>8, DisconnectSteps
  <2>2. {"down", "idle"} \cup Busy = {"down", "idle", "configure", "make", "load",
                                      "complete", "respond", "ack"}
    BY DEF Busy
  <2> QED BY <2>1, <2>2 DEF TypeOK, ServerStates
<1>9. CASE RestartBroker
  <2>1. /\ jobs' = <<>> /\ declared' = FALSE /\ LoseQueues({})
        /\ connected' \in [Servers -> BOOLEAN]
        /\ server' \in [Servers -> ServerStates] /\ failures' \in 0..MaxFailures
        /\ UNCHANGED <<entry, progress, final, depth, history>>
    BY <1>9, RestartBrokerSteps
  <2>2. {"down", "idle"} \cup Busy = {"down", "idle", "configure", "make", "load",
                                      "complete", "respond", "ack"}
    BY DEF Busy
  <2>3. inbox' \in [Requests -> Seq(Messages)]
        /\ queue' \in [Requests -> {"none", "asked", "open", "lost"}]
    BY <2>1, LoseQueuesSteps
  <2>4. <<>> \in Seq(Requests)
    OBVIOUS
  <2> QED BY <2>1, <2>2, <2>3, <2>4 DEF TypeOK, ServerStates, Messages
<1> QED BY <1>1, <1>2, <1>3, <1>4, <1>5, <1>6, <1>7, <1>8, <1>9 DEF Next

-----------------------------------------------------------------------------
(* The parts of the inductive invariant, one after the other.              *)

\* The messages of request r that were sent in a step of a server.
LEMMA InboxAfter ==
  ASSUME TypeOK, NEW s \in Servers, NEW r, NEW ms, Sends(s, r, ms), connected[s], queue[r] = "open"
  PROVE  /\ Len(inbox[r]) \in Nat /\ Len(ms) \in Nat
         /\ Len(inbox'[r]) = Len(inbox[r]) + Len(ms)
         /\ \A i \in 1..Len(inbox[r]) : inbox'[r][i] = inbox[r][i]
         /\ \A i \in 1..Len(inbox'[r]) :
              i \notin 1..Len(inbox[r]) => /\ i - Len(inbox[r]) \in 1..Len(ms)
                                           /\ inbox'[r][i] = ms[i - Len(inbox[r])]
<1>1. inbox[r] \in Seq(Messages) /\ ms \in Seq(Messages) /\ inbox'[r] = inbox[r] \o ms
  BY Types DEF Sends
<1> QED BY <1>1, ConcatProperties, LenProperties

LEMMA KindsStep ==
  ASSUME TypeOK, Kinds, Next
  PROVE  Kinds'
<1> USE DEF feVars, brokerVars, buildVars, history
<1>1. ASSUME NEW r \in Requests, MkdirFails(r) \/ Timeout(r)
      PROVE  Kinds'
  <2>1. TellError(r) /\ UNCHANGED <<queue, brokerVars, buildVars, failures, history>>
    BY <1>1 DEF MkdirFails, Timeout
  <2>2. entry'[r] = "deleted" /\ \A q \in Requests : q # r => entry'[q] = entry[q]
    BY <2>1, TellErrorSteps
  <2> QED BY <2>1, <2>2 DEF Kinds
<1>2. ASSUME NEW r \in Requests, MakeRequest(r)
      PROVE  Kinds'
  BY <1>2 DEF MakeRequest, Kinds, TypeOK
<1>3. ASSUME NEW r \in Requests, Publish(r)
      PROVE  Kinds'
  <2>1. /\ queue[r] = "asked" /\ queue' = [queue EXCEPT ![r] = "open"]
        /\ UNCHANGED <<entry, inbox, server>>
    BY <1>3, PublishSteps
  <2> QED BY <2>1 DEF Kinds, TypeOK
<1>4. ASSUME NEW r \in Requests, Consume(r)
      PROVE  Kinds'
  <2>1. /\ inbox[r] # <<>> /\ inbox'[r] = Tail(inbox[r])
        /\ entry'[r] = entry[r] \/ entry'[r] = "deleted"
        /\ \A q \in Requests : q # r => inbox'[q] = inbox[q] /\ entry'[q] = entry[q]
        /\ UNCHANGED <<queue, buildVars>>
    BY <1>4, ConsumeSteps
  <2>2. inbox[r] \in Seq(Messages)
    BY Types
  <2>3. /\ Len(inbox[r]) \in Nat /\ Len(inbox'[r]) = Len(inbox[r]) - 1
        /\ \A i \in 1..Len(inbox'[r]) : inbox'[r][i] = inbox[r][i + 1]
    BY <2>1, <2>2, HeadTailProperties, LenProperties
  <2>4. queue[r] = "open"
    BY <2>1 DEF Kinds
  <2>5. \A i \in 1..Len(inbox'[r]) :
          inbox'[r][i].type = "status" => inbox'[r][i].value \in Marks
    BY <2>3 DEF Kinds
  <2> QED BY <2>1, <2>4, <2>5 DEF Kinds
<1>5. CASE RestartFrontEnd
  <2>1. /\ LoseQueues(Requests) /\ UNCHANGED server
        /\ \A r \in Requests : entry'[r] = "new" => entry[r] = "new"
    BY <1>5 DEF RestartFrontEnd, TypeOK
  <2>2. \A r \in Requests : inbox'[r] = <<>> /\ (queue[r] = "none" => queue'[r] = "none")
    BY <2>1, LoseQueuesSteps
  <2> QED BY <2>1, <2>2 DEF Kinds
<1>6. ASSUME NEW s \in Servers, Start(s)
      PROVE  Kinds'
  <2>1. server' = [server EXCEPT ![s] = Idle] /\ UNCHANGED <<feVars, inbox>>
    BY <1>6 DEF Start
  <2>2. Idle.req \notin Requests /\ Idle.step \notin Busy
    BY BuildRpcAssumption DEF Idle, Busy
  <2> QED BY <2>1, <2>2 DEF Kinds, TypeOK
<1>7. ASSUME NEW s \in Servers, ServerStep(s)
      PROVE  Kinds'
  <2>1. PICK r, ms : Sends(s, r, ms)
    BY <1>7, ServerSends
  <2>2. \A t \in Servers : server'[t].req \in Requests <=> server'[t].step \in Busy
    BY <2>1 DEF Sends, Kinds
  <2>3. UNCHANGED <<entry, queue>> /\ \A q \in Requests : q # r => inbox'[q] = inbox[q]
    BY <2>1 DEF Sends
  <2>4. CASE connected[s] /\ queue[r] = "open"
    <3>1. r \in Requests /\ \A i \in 1..Len(ms) : ms[i].type = "status" => ms[i].value \in Marks
      BY <2>1 DEF Sends
    <3>2. \A i \in 1..Len(inbox[r]) : inbox[r][i].type = "status" => inbox[r][i].value \in Marks
      BY <3>1 DEF Kinds
    <3>3. /\ \A i \in 1..Len(inbox[r]) : inbox'[r][i] = inbox[r][i]
          /\ \A i \in 1..Len(inbox'[r]) :
               i \notin 1..Len(inbox[r]) => /\ i - Len(inbox[r]) \in 1..Len(ms)
                                            /\ inbox'[r][i] = ms[i - Len(inbox[r])]
      BY <2>1, <2>4, InboxAfter
    <3>4. \A i \in 1..Len(inbox'[r]) :
            inbox'[r][i].type = "status" => inbox'[r][i].value \in Marks
      <4> SUFFICES ASSUME NEW i \in 1..Len(inbox'[r]), inbox'[r][i].type = "status"
                   PROVE  inbox'[r][i].value \in Marks
        OBVIOUS
      <4>1. CASE i \in 1..Len(inbox[r])
        BY <3>2, <3>3, <4>1
      <4>2. CASE i \notin 1..Len(inbox[r])
        BY <3>1, <3>3, <4>2
      <4> QED BY <4>1, <4>2
    <3> QED BY <2>2, <2>3, <2>4, <3>4 DEF Kinds
  <2>5. CASE ~connected[s] \/ queue[r] # "open"
    <3>1. inbox'[r] = inbox[r]
      BY <2>1, <2>5 DEF Sends
    <3> QED BY <2>2, <2>3, <3>1 DEF Kinds
  <2> QED BY <2>4, <2>5
<1>8. ASSUME NEW s \in Servers, Disconnect(s)
      PROVE  Kinds'
  <2>1. /\ server' = [server EXCEPT ![s] = Down] \/ server' = server
        /\ UNCHANGED <<feVars, inbox>>
    BY <1>8, DisconnectSteps
  <2>2. Down.req \notin Requests /\ Down.step \notin Busy
    BY BuildRpcAssumption DEF Idle, Down, Busy
  <2> QED BY <2>1, <2>2 DEF Kinds, TypeOK
<1>9. CASE RestartBroker
  <2>1. /\ LoseQueues({}) /\ UNCHANGED entry
        /\ \A s \in Servers : server'[s] = server[s] \/ server'[s] = Down
    BY <1>9, RestartBrokerSteps
  <2>2. \A r \in Requests : inbox'[r] = <<>> /\ (queue[r] = "none" => queue'[r] = "none")
    BY <2>1, LoseQueuesSteps
  <2>3. Down.req \notin Requests /\ Down.step \notin Busy
    BY BuildRpcAssumption DEF Idle, Down, Busy
  <2> QED BY <2>1, <2>2, <2>3 DEF Kinds
<1> QED BY <1>1, <1>2, <1>3, <1>4, <1>5, <1>6, <1>7, <1>8, <1>9 DEF Next

LEMMA LevelStep ==
  ASSUME TypeOK, Level, Next
  PROVE  Level'
<1> USE DEF feVars, brokerVars, buildVars, history
<1>1. ASSUME UNCHANGED <<server, depth, uncaught>>
      PROVE  Level'
  BY <1>1 DEF Level
<1>2. ASSUME NEW r \in Requests,
             MkdirFails(r) \/ MakeRequest(r) \/ Publish(r) \/ Timeout(r) \/ Consume(r)
      PROVE  Level'
  <2>1. UNCHANGED <<server, depth, uncaught>>
    BY <1>2 DEF MkdirFails, MakeRequest, Publish, Timeout, Consume
  <2> QED BY <1>1, <2>1
<1>3. CASE RestartFrontEnd
  <2>1. UNCHANGED <<server, depth, uncaught>>
    BY <1>3 DEF RestartFrontEnd
  <2> QED BY <1>1, <2>1
<1>4. ASSUME NEW s \in Servers, Start(s)
      PROVE  Level'
  BY <1>4 DEF Start, Idle, Level, TypeOK
<1>5. ASSUME NEW s \in Servers, Take(s)
      PROVE  Level'
  BY <1>5 DEF Take, Level, TypeOK
<1>6. ASSUME NEW s \in Servers, Configure(s)
      PROVE  Level'
  <2>1. server[s].step = "configure" /\ depth[s] \in Nat /\ uncaught[s] \in Nat
    BY <1>6 DEF Configure, TypeOK
  <2>2. CASE Fail(s) /\ UNCHANGED <<depth, uncaught>>
    BY <2>1, <2>2 DEF Fail, GoTo, Level, TypeOK
  <2>3. CASE Fail(s) /\ depth' = [depth EXCEPT ![s] = @ + 1] /\ Escape(s)
    BY <2>1, <2>3 DEF Fail, Escape, GoTo, Level, TypeOK
  <2>4. CASE /\ Send(s, <<Status(20)>>, "make")
             /\ depth' = [depth EXCEPT ![s] = @ + 1] /\ uncaught' = uncaught
    <3>1. \/ server' = [server EXCEPT ![s].step = "make"]
          \/ server' = [server EXCEPT ![s] = Down]
      BY <2>4 DEF Send, GoTo
    <3> QED BY <2>1, <2>4, <3>1 DEF Down, Idle, Level, TypeOK
  <2> QED BY <1>6, <2>2, <2>3, <2>4 DEF Configure
<1>7. ASSUME NEW s \in Servers, Make(s)
      PROVE  Level'
  <2>1. server[s].step = "make" /\ depth[s] \in Nat /\ uncaught[s] \in Nat
    BY <1>7 DEF Make, TypeOK
  <2>2. CASE Fail(s) /\ Restored(s) /\ UNCHANGED uncaught
    BY <2>1, <2>2 DEF Fail, GoTo, Restored, Level, TypeOK
  <2>3. CASE Fail(s) /\ Escape(s) /\ UNCHANGED depth
    BY <2>1, <2>3 DEF Fail, GoTo, Escape, Level, TypeOK
  <2>4. CASE Send(s, <<Status(70)>>, "complete") /\ Escape(s) /\ UNCHANGED depth
    <3>1. \/ server' = [server EXCEPT ![s].step = "complete"]
          \/ server' = [server EXCEPT ![s] = Down]
      BY <2>4 DEF Send, GoTo
    <3> QED BY <2>1, <2>4, <3>1 DEF Down, Idle, Escape, Level, TypeOK
  <2>5. CASE Send(s, <<Status(70), Status(80)>>, "load") /\ UNCHANGED <<depth, uncaught>>
    <3>1. \/ server' = [server EXCEPT ![s].step = "load"]
          \/ server' = [server EXCEPT ![s] = Down]
      BY <2>5 DEF Send, GoTo
    <3>2. /\ \A t \in Servers : t # s => server'[t] = server[t]
          /\ server'[s].step \in {"load", "down"}
      <4>1. CASE server' = [server EXCEPT ![s].step = "load"]
        BY <4>1 DEF TypeOK
      <4>2. CASE server' = [server EXCEPT ![s] = Down]
        BY <4>2 DEF Down, Idle, TypeOK
      <4> QED BY <3>1, <4>1, <4>2
    <3> QED BY <2>1, <2>5, <3>2 DEF Level
  <2> QED BY <1>7, <2>2, <2>3, <2>4, <2>5 DEF Make
<1>8. ASSUME NEW s \in Servers, Load(s)
      PROVE  Level'
  <2>1. server[s].step = "load" /\ depth[s] \in Nat /\ Restored(s) /\ UNCHANGED uncaught
    BY <1>8 DEF Load, TypeOK
  <2>2. \/ server' = [server EXCEPT ![s].step = "complete", ![s].ok = TRUE]
        \/ server' = [server EXCEPT ![s].step = "complete"]
    BY <1>8 DEF Load, Fail, GoTo
  <2> QED BY <2>1, <2>2 DEF Restored, Level, TypeOK
<1>9. ASSUME NEW s \in Servers, Complete(s) \/ Respond(s)
      PROVE  Level'
  <2>1. server[s].step \in {"complete", "respond"} /\ UNCHANGED <<depth, uncaught>>
    BY <1>9 DEF Complete, Respond
  <2>2. \/ server' = [server EXCEPT ![s].step = "respond"]
        \/ server' = [server EXCEPT ![s].step = "ack"]
        \/ server' = [server EXCEPT ![s] = Down]
    BY <1>9 DEF Complete, Respond, Send, GoTo
  <2>3. /\ \A t \in Servers : t # s => server'[t] = server[t]
        /\ server'[s].step \in {"respond", "ack", "down"}
    BY <2>2 DEF Down, Idle, TypeOK
  <2>4. depth'[s] = uncaught'[s]
    BY <2>1 DEF Level
  <2> QED BY <2>1, <2>3, <2>4 DEF Level
<1>10. ASSUME NEW s \in Servers, Ack(s)
       PROVE  Level'
  BY <1>10 DEF Ack, Down, Idle, Level, TypeOK
<1>11. ASSUME NEW s \in Servers, Disconnect(s)
       PROVE  Level'
  <2>1. /\ server' = [server EXCEPT ![s] = Down] \/ server' = server
        /\ UNCHANGED <<depth, uncaught>>
    BY <1>11, DisconnectSteps
  <2>2. \A t \in Servers : server'[t] = server[t] \/ server'[t] = Down
    BY <2>1 DEF TypeOK
  <2> QED BY <2>1, <2>2 DEF Down, Idle, Level
<1>12. CASE RestartBroker
  <2>1. /\ \A s \in Servers : server'[s] = server[s] \/ server'[s] = Down
        /\ UNCHANGED <<depth, uncaught>>
    BY <1>12, RestartBrokerSteps
  <2> QED BY <2>1 DEF Down, Idle, Level
<1> QED BY <1>2, <1>3, <1>4, <1>5, <1>6, <1>7, <1>8, <1>9, <1>10, <1>11, <1>12
        DEF Next, ServerStep

\* A step of a server takes the first job, or none.
LEMMA HoldsAfter ==
  ASSUME TypeOK, Kinds, NEW s \in Servers, NEW r, NEW ms, Sends(s, r, ms)
  PROVE  \/ /\ jobs' = jobs
            /\ \A t \in Servers, q \in Requests : Holds(t, q)' => Holds(t, q)
         \/ /\ jobs # <<>> /\ r = Head(jobs) /\ jobs' = Tail(jobs) /\ connected[s]
            /\ ~\E q \in Requests : Holds(s, q)
            /\ \A t \in Servers, q \in Requests : Holds(t, q)' => Holds(t, q) \/ (t = s /\ q = r)
<1>1. /\ connected' = connected
      /\ \A t \in Servers : t # s => server'[t] = server[t]
      /\ server'[s].req = r \/ server'[s].req = NoRequest
  BY DEF Sends
<1>2. CASE server[s].req = r /\ jobs' = jobs
  BY <1>1, <1>2, BuildRpcAssumption DEF Holds
<1>3. CASE /\ connected[s] /\ server[s].step = "idle"
           /\ jobs # <<>> /\ r = Head(jobs) /\ jobs' = Tail(jobs)
  <2>1. \A t \in Servers, q \in Requests : Holds(t, q)' => Holds(t, q) \/ (t = s /\ q = r)
    BY <1>1, BuildRpcAssumption DEF Holds
  <2>2. ~\E q \in Requests : Holds(s, q)
    BY <1>3 DEF Kinds, Holds, Busy
  <2> QED BY <1>3, <2>1, <2>2
<1> QED BY <1>2, <1>3 DEF Sends

LEMMA OnePlaceStep ==
  ASSUME TypeOK, Kinds, OnePlace, Next
  PROVE  OnePlace'
<1> USE DEF feVars, brokerVars, buildVars, history
<1>1. jobs \in Seq(Requests) /\ Len(jobs) \in Nat /\ \A i \in 1..Len(jobs) : jobs[i] \in Requests
  BY Types, LenProperties, ElementOfSeq
<1>2. ASSUME UNCHANGED <<jobs, server, connected>>,
             \A r \in Requests : queue[r] \in {"open", "lost"} => queue'[r] \in {"open", "lost"}
      PROVE  OnePlace'
  BY <1>1, <1>2 DEF OnePlace, Holds
<1>3. ASSUME NEW r \in Requests, MkdirFails(r) \/ Timeout(r) \/ Consume(r)
      PROVE  OnePlace'
  <2>1. UNCHANGED <<jobs, server, connected, queue>>
    BY <1>3 DEF MkdirFails, Timeout, Consume
  <2> QED BY <1>2, <2>1
<1>4. ASSUME NEW r \in Requests, MakeRequest(r)
      PROVE  OnePlace'
  <2>1. /\ entry[r] = "new" /\ queue' = [queue EXCEPT ![r] = "asked"]
        /\ UNCHANGED <<jobs, server, connected>>
    BY <1>4 DEF MakeRequest
  <2>2. queue[r] = "none"
    BY <2>1 DEF Kinds
  <2> QED BY <1>2, <2>1, <2>2 DEF TypeOK
<1>5. ASSUME NEW r \in Requests, Publish(r)
      PROVE  OnePlace'
  <2>1. /\ queue[r] = "asked" /\ queue' = [queue EXCEPT ![r] = "open"]
        /\ jobs' = Append(jobs, r) \/ jobs' = jobs
        /\ UNCHANGED <<server, connected>>
    BY <1>5, PublishSteps
  <2>2. \A q \in Requests : queue[q] \in {"open", "lost"} => queue'[q] \in {"open", "lost"}
    BY <2>1 DEF TypeOK
  <2>3. CASE jobs' = jobs
    BY <1>2, <2>1, <2>2, <2>3
  <2>4. CASE jobs' = Append(jobs, r)
    <3>1. /\ Len(jobs') = Len(jobs) + 1 /\ jobs'[Len(jobs) + 1] = r
          /\ \A i \in 1..Len(jobs) : jobs'[i] = jobs[i]
      BY <1>1, <2>4, AppendProperties
    <3>2. \A i \in 1..Len(jobs) : jobs[i] # r
      BY <2>1 DEF OnePlace
    <3>3. \A s \in Servers : ~Holds(s, r)
      BY <2>1 DEF OnePlace
    <3>4. queue'[r] = "open"
      BY <2>1 DEF TypeOK
    <3>5. \A s \in Servers, q \in Requests : Holds(s, q)' <=> Holds(s, q)
      BY <2>1 DEF Holds
    <3>6. \A i, j \in 1..Len(jobs') : jobs'[i] = jobs'[j] => i = j
      BY <1>1, <3>1, <3>2 DEF OnePlace
    <3>7. \A i \in 1..Len(jobs') : jobs'[i] \in Requests
      BY <1>1, <3>1
    <3>8. \A s \in Servers, i \in 1..Len(jobs') : ~Holds(s, jobs[i])'
      BY <1>1, <3>1, <3>3, <3>5, <3>7 DEF OnePlace
    <3>9. \A i \in 1..Len(jobs') : queue'[jobs'[i]] \in {"open", "lost"}
      BY <1>1, <2>2, <3>1, <3>4 DEF OnePlace
    <3> QED BY <2>2, <3>5, <3>6, <3>8, <3>9 DEF OnePlace
  <2> QED BY <2>1, <2>3, <2>4
<1>6. CASE RestartFrontEnd
  <2>1. LoseQueues(Requests) /\ UNCHANGED <<jobs, server, connected>>
    BY <1>6 DEF RestartFrontEnd
  <2> QED BY <1>2, <2>1, LoseQueuesSteps
<1>7. ASSUME NEW s \in Servers, Start(s)
      PROVE  OnePlace'
  <2>1. /\ server' = [server EXCEPT ![s] = Idle] /\ UNCHANGED <<jobs, queue>>
        /\ connected' = [connected EXCEPT ![s] = TRUE]
    BY <1>7 DEF Start
  <2>2. \A t \in Servers, q \in Requests : Holds(t, q)' => Holds(t, q)
    BY <2>1, BuildRpcAssumption DEF Holds, Idle, TypeOK
  <2> QED BY <1>1, <2>1, <2>2 DEF OnePlace
<1>8. ASSUME NEW s \in Servers, ServerStep(s)
      PROVE  OnePlace'
  <2>1. PICK r, ms : Sends(s, r, ms)
    BY <1>8, ServerSends
  <2>2. r \in Requests /\ queue' = queue
    BY <2>1 DEF Sends
  <2>3. CASE jobs' = jobs /\ \A t \in Servers, q \in Requests : Holds(t, q)' => Holds(t, q)
    BY <1>1, <2>2, <2>3 DEF OnePlace
  <2>4. CASE /\ jobs # <<>> /\ r = Head(jobs) /\ jobs' = Tail(jobs)
             /\ ~\E q \in Requests : Holds(s, q)
             /\ \A t \in Servers, q \in Requests :
                  Holds(t, q)' => Holds(t, q) \/ (t = s /\ q = r)
    <3>1. /\ r = jobs[1] /\ Len(jobs') = Len(jobs) - 1 /\ 1 \in 1..Len(jobs)
          /\ \A i \in 1..Len(jobs') : jobs'[i] = jobs[i + 1]
      BY <1>1, <2>4, HeadTailProperties, EmptySeq
    <3>2. \A t \in Servers : ~Holds(t, r)
      BY <3>1 DEF OnePlace
    <3>3. \A i \in 1..Len(jobs') : i + 1 \in 1..Len(jobs) /\ i + 1 # 1 /\ jobs'[i] \in Requests
      BY <1>1, <3>1
    <3>4. \A i \in 1..Len(jobs') : jobs'[i] # r
      BY <3>1, <3>3 DEF OnePlace
    <3>5. \A i, j \in 1..Len(jobs') : jobs'[i] = jobs'[j] => i = j
      BY <1>1, <3>1, <3>3 DEF OnePlace
    <3>6. \A t \in Servers, i \in 1..Len(jobs') : ~Holds(t, jobs[i])'
      <4> SUFFICES ASSUME NEW t \in Servers, NEW i \in 1..Len(jobs'), Holds(t, jobs[i])'
                   PROVE  FALSE
        OBVIOUS
      <4> DEFINE q == jobs'[i]
      <4>1. q \in Requests /\ q # r /\ q = jobs[i + 1] /\ i + 1 \in 1..Len(jobs)
        BY <3>1, <3>3, <3>4
      <4>2. connected'[t] /\ server'[t].req = q
        BY DEF Holds
      <4>3. Holds(t, q)
        BY <2>4, <4>1, <4>2 DEF Holds
      <4> QED BY <4>1, <4>3 DEF OnePlace
    <3>7. \A t, u \in Servers, q \in Requests : Holds(t, q)' /\ Holds(u, q)' => t = u
      BY <2>4, <3>2 DEF OnePlace
    <3>8. queue[r] \in {"open", "lost"}
      BY <3>1 DEF OnePlace
    <3>9. \A i \in 1..Len(jobs') : queue'[jobs'[i]] \in {"open", "lost"}
      BY <2>2, <3>1, <3>3 DEF OnePlace
    <3>10. \A t \in Servers, q \in Requests : Holds(t, q)' => queue'[q] \in {"open", "lost"}
      BY <2>2, <2>4, <3>8 DEF OnePlace
    <3> QED BY <3>5, <3>6, <3>7, <3>9, <3>10 DEF OnePlace
  <2> QED BY <2>1, <2>3, <2>4, HoldsAfter
<1>9. ASSUME NEW s \in Servers, Disconnect(s)
      PROVE  OnePlace'
  <2> DEFINE r == server[s].req
  <2>1. /\ connected[s] /\ connected' = [connected EXCEPT ![s] = FALSE]
        /\ r \in Requests => jobs' = <<r>> \o jobs
        /\ r \notin Requests => jobs' = jobs
        /\ server' = [server EXCEPT ![s] = Down] \/ server' = server
        /\ UNCHANGED queue
    BY <1>9, DisconnectSteps
  <2>2. \A t \in Servers : t # s => server'[t] = server[t] /\ connected'[t] = connected[t]
    BY <2>1 DEF TypeOK
  <2>3. ~connected'[s]
    BY <2>1 DEF TypeOK
  <2>4. \A t \in Servers, q \in Requests : Holds(t, q)' => Holds(t, q) /\ t # s
    BY <2>2, <2>3 DEF Holds
  <2>5. CASE r \notin Requests
    BY <1>1, <2>1, <2>4, <2>5 DEF OnePlace
  <2>6. CASE r \in Requests
    <3>1. /\ Len(jobs') = Len(jobs) + 1 /\ jobs'[1] = r
          /\ \A i \in 1..Len(jobs') : i # 1 => jobs'[i] = jobs[i - 1] /\ i - 1 \in 1..Len(jobs)
      <4>1. <<r>> \in Seq(Requests) /\ Len(<<r>>) = 1 /\ <<r>>[1] = r
        BY <2>6
      <4> QED BY <1>1, <2>1, <2>6, <4>1, ConcatProperties
    <3>2. Holds(s, r)
      BY <2>1 DEF Holds
    <3>3. \A i \in 1..Len(jobs) : jobs[i] # r
      BY <3>2 DEF OnePlace
    <3>4. \A t \in Servers : t # s => ~Holds(t, r)
      BY <2>6, <3>2 DEF OnePlace
    <3>5. \A i, j \in 1..Len(jobs') : jobs'[i] = jobs'[j] => i = j
      <4> SUFFICES ASSUME NEW i \in 1..Len(jobs'), NEW j \in 1..Len(jobs'), jobs'[i] = jobs'[j]
                   PROVE  i = j
        OBVIOUS
      <4>1. CASE i = 1 \/ j = 1
        BY <3>1, <3>3, <4>1
      <4>2. CASE i # 1 /\ j # 1
        <5>1. i - 1 = j - 1
          BY <3>1, <4>2 DEF OnePlace
        <5> QED BY <1>1, <3>1, <5>1
      <4> QED BY <4>1, <4>2
    <3>6. \A t \in Servers, i \in 1..Len(jobs') : ~Holds(t, jobs[i])'
      <4> SUFFICES ASSUME NEW t \in Servers, NEW i \in 1..Len(jobs'), Holds(t, jobs[i])'
                   PROVE  FALSE
        OBVIOUS
      <4> DEFINE q == jobs'[i]
      <4>1. connected'[t] /\ server'[t].req = q
        BY DEF Holds
      <4>2. t # s /\ Holds(t, q)
        BY <2>2, <2>3, <4>1 DEF Holds
      <4>3. CASE i = 1
        BY <3>1, <3>4, <4>2, <4>3
      <4>4. CASE i # 1
        BY <3>1, <4>2, <4>4 DEF OnePlace
      <4> QED BY <4>3, <4>4
    <3>7. queue[r] \in {"open", "lost"}
      BY <2>6, <3>2 DEF OnePlace
    <3>8. \A i \in 1..Len(jobs') : queue'[jobs'[i]] \in {"open", "lost"}
      BY <2>1, <3>1, <3>7 DEF OnePlace
    <3> QED BY <2>1, <2>4, <3>5, <3>6, <3>8 DEF OnePlace
  <2> QED BY <2>5, <2>6
<1>10. CASE RestartBroker
  <2>1. jobs' = <<>> /\ \A s \in Servers : ~connected'[s]
    BY <1>10, RestartBrokerSteps
  <2> QED BY <2>1 DEF OnePlace, Holds
<1> QED BY <1>3, <1>4, <1>5, <1>6, <1>7, <1>8, <1>9, <1>10 DEF Next

\* Messages that arrive leave a response where it is.
LEMMA ResponseStays ==
  ASSUME TypeOK, NEW s \in Servers, NEW r, NEW ms, Sends(s, r, ms),
         NEW q \in Requests, HasResponse(q)
  PROVE  HasResponse(q)'
<1>1. CASE q = r /\ connected[s] /\ queue[r] = "open"
  <2>1. /\ Len(inbox[r]) \in Nat /\ Len(ms) \in Nat
        /\ Len(inbox'[r]) = Len(inbox[r]) + Len(ms)
        /\ \A i \in 1..Len(inbox[r]) : inbox'[r][i] = inbox[r][i]
    <3>1. inbox[r] \in Seq(Messages) /\ ms \in Seq(Messages) /\ inbox'[r] = inbox[r] \o ms
      BY <1>1, Types DEF Sends
    <3> QED BY <3>1, ConcatProperties, LenProperties
  <2>2. \A i \in 1..Len(inbox[r]) : i \in 1..Len(inbox'[r])
    BY <2>1
  <2> QED BY <1>1, <2>1, <2>2 DEF HasResponse
<1>2. CASE ~(q = r /\ connected[s] /\ queue[r] = "open")
  <2>1. inbox'[q] = inbox[q]
    BY <1>2 DEF Sends
  <2> QED BY <2>1 DEF HasResponse
<1> QED BY <1>1, <1>2

\* A request that waits after a message was read waited before, and its response
\* is still to be read.
LEMMA ResponseUnread ==
  ASSUME TypeOK, Kinds, NEW r \in Requests, Consume(r),
         NEW q \in Requests, entry'[q] = "waiting", HasResponse(q)
  PROVE  entry[q] = "waiting" /\ HasResponse(q)'
<1> DEFINE m == Head(inbox[r])
           answered == m.type = "responce" /\ entry[r] = "waiting"
<1>1. /\ inbox[r] # <<>> /\ m \in Messages /\ m = inbox[r][1] /\ inbox'[r] = Tail(inbox[r])
      /\ ~answered => entry'[r] = entry[r]
      /\ answered => entry'[r] = "deleted"
      /\ \A p \in Requests : p # r => inbox'[p] = inbox[p] /\ entry'[p] = entry[p]
  BY ConsumeSteps
<1>2. CASE q # r
  BY <1>1, <1>2 DEF HasResponse
<1>3. CASE q = r
  <2>1. entry[q] = "waiting" /\ m.type # "responce"
    BY <1>1, <1>3
  <2>2. inbox[r] \in Seq(Messages)
    BY Types
  <2>3. /\ Len(inbox[r]) \in Nat /\ Len(inbox'[r]) = Len(inbox[r]) - 1
        /\ \A i \in 1..Len(inbox'[r]) : inbox'[r][i] = inbox[r][i + 1]
    BY <1>1, <2>2, HeadTailProperties, LenProperties
  <2>4. PICK i \in 1..Len(inbox[r]) : inbox[r][i].type = "responce"
    BY <1>3 DEF HasResponse
  <2>5. i # 1
    BY <1>1, <1>3, <2>1, <2>4
  <2>6. i - 1 \in 1..Len(inbox'[r]) /\ inbox'[r][i - 1] = inbox[r][i]
    BY <2>3, <2>5
  <2> QED BY <1>3, <2>1, <2>4, <2>6 DEF HasResponse
<1> QED BY <1>2, <1>3

LEMMA AcknowledgedStep ==
  ASSUME TypeOK, Kinds, OnePlace, Acknowledged, Next
  PROVE  Acknowledged'
<1> USE DEF feVars, brokerVars, buildVars, history
<1>1. ASSUME UNCHANGED <<queue, inbox>>,
             \A r \in Requests : entry'[r] = "waiting" => entry[r] = "waiting",
             \A s \in Servers, r \in Requests :
               Holds(s, r)' /\ server'[s].step = "ack" => Holds(s, r) /\ server[s].step = "ack"
      PROVE  Acknowledged'
  BY <1>1 DEF Acknowledged, HasResponse
<1>2. ASSUME NEW r \in Requests, MkdirFails(r) \/ Timeout(r)
      PROVE  Acknowledged'
  <2>1. TellError(r) /\ UNCHANGED <<queue, brokerVars, buildVars, failures, history>>
    BY <1>2 DEF MkdirFails, Timeout
  <2>2. \A q \in Requests : entry'[q] = "waiting" => entry[q] = "waiting"
    BY <2>1, TellErrorSteps
  <2> QED BY <1>1, <2>1, <2>2 DEF Holds
<1>3. ASSUME NEW r \in Requests, MakeRequest(r)
      PROVE  Acknowledged'
  <2>1. /\ queue' = [queue EXCEPT ![r] = "asked"] /\ entry' = [entry EXCEPT ![r] = "waiting"]
        /\ UNCHANGED <<inbox, server, connected>>
    BY <1>3 DEF MakeRequest
  <2>2. /\ queue'[r] = "asked"
        /\ \A q \in Requests : q # r => queue'[q] = queue[q] /\ entry'[q] = entry[q]
    BY <2>1 DEF TypeOK
  <2> QED BY <2>1, <2>2 DEF Acknowledged, HasResponse, Holds
<1>4. ASSUME NEW r \in Requests, Publish(r)
      PROVE  Acknowledged'
  <2>1. /\ queue[r] = "asked" /\ queue' = [queue EXCEPT ![r] = "open"]
        /\ UNCHANGED <<entry, inbox, server, connected>>
    BY <1>4, PublishSteps
  <2>2. \A s \in Servers : ~Holds(s, r)
    BY <2>1 DEF OnePlace
  <2>3. \A q \in Requests : q # r => queue'[q] = queue[q]
    BY <2>1 DEF TypeOK
  <2>4. \A s \in Servers, q \in Requests : Holds(s, q)' => Holds(s, q)
    BY <2>1 DEF Holds
  <2>5. \A q \in Requests : HasResponse(q) => HasResponse(q)'
    BY <2>1 DEF HasResponse
  <2> QED BY <2>1, <2>2, <2>3, <2>4, <2>5 DEF Acknowledged
<1>5. ASSUME NEW r \in Requests, Consume(r)
      PROVE  Acknowledged'
  <2>1. UNCHANGED <<queue, buildVars>>
    BY <1>5, ConsumeSteps
  <2>2. \A q \in Requests : entry'[q] = "waiting" => entry[q] = "waiting"
    BY <1>5, ConsumeSteps
  <2> SUFFICES ASSUME NEW s \in Servers, NEW q \in Requests, Holds(s, q)',
                      server'[s].step = "ack", entry'[q] = "waiting", queue'[q] = "open"
               PROVE  HasResponse(q)'
    BY DEF Acknowledged
  <2>3. HasResponse(q)
    BY <2>1, <2>2 DEF Acknowledged, Holds
  <2> QED BY <1>5, <2>3, ResponseUnread
<1>6. CASE RestartFrontEnd \/ RestartBroker
  <2>1. PICK lost : LoseQueues(lost)
    BY <1>6 DEF RestartFrontEnd, RestartBroker
  <2>2. \A r \in Requests : queue'[r] # "open"
    BY <2>1, LoseQueuesSteps
  <2> QED BY <2>2 DEF Acknowledged
<1>7. ASSUME NEW s \in Servers, Start(s)
      PROVE  Acknowledged'
  <2>1. /\ server' = [server EXCEPT ![s] = Idle] /\ UNCHANGED <<feVars, inbox>>
        /\ connected' = [connected EXCEPT ![s] = TRUE]
    BY <1>7 DEF Start
  <2>2. /\ server'[s].step # "ack"
        /\ \A t \in Servers : t # s => server'[t] = server[t] /\ connected'[t] = connected[t]
    BY <2>1 DEF Idle, TypeOK
  <2> QED BY <1>1, <2>1, <2>2 DEF Holds
<1>8. ASSUME NEW s \in Servers, ServerStep(s)
      PROVE  Acknowledged'
  <2>1. PICK r, ms : Sends(s, r, ms)
    BY <1>8, ServerSends
  <2> SUFFICES ASSUME NEW t \in Servers, NEW q \in Requests, Holds(t, q)',
                      server'[t].step = "ack", entry'[q] = "waiting", queue'[q] = "open"
               PROVE  HasResponse(q)'
    BY DEF Acknowledged
  <2>2. /\ entry[q] = "waiting" /\ queue[q] = "open" /\ connected' = connected
        /\ \A u \in Servers : u # s => server'[u] = server[u]
    BY <2>1 DEF Sends
  <2>3. CASE t # s
    <3>1. HasResponse(q)
      BY <2>2, <2>3 DEF Acknowledged, Holds
    <3> QED BY <2>1, <3>1, ResponseStays
  <2>4. CASE t = s
    <3>1. connected[s] /\ server'[s].req = q
      BY <2>2, <2>4 DEF Holds
    <3>2. q = r
      BY <2>1, <3>1, BuildRpcAssumption DEF Sends
    <3>3. PICK ok \in BOOLEAN : ms = <<Response(ok)>>
      BY <2>1, <2>4 DEF Sends
    <3>4. Len(ms) = 1 /\ ms[1].type = "responce"
      BY <3>3 DEF Response
    <3>5. /\ Len(inbox[r]) \in Nat /\ Len(inbox'[r]) = Len(inbox[r]) + Len(ms)
          /\ \A i \in 1..Len(inbox'[r]) :
               i \notin 1..Len(inbox[r]) => /\ i - Len(inbox[r]) \in 1..Len(ms)
                                            /\ inbox'[r][i] = ms[i - Len(inbox[r])]
      <4>1. connected[s] /\ queue[r] = "open"
        BY <2>2, <3>1, <3>2
      <4> QED BY <2>1, <4>1, InboxAfter
    <3>6. /\ Len(inbox[r]) + 1 \in 1..Len(inbox'[r])
          /\ inbox'[r][Len(inbox[r]) + 1].type = "responce"
      BY <3>4, <3>5
    <3> QED BY <3>2, <3>6 DEF HasResponse
  <2> QED BY <2>3, <2>4
<1>9. ASSUME NEW s \in Servers, Disconnect(s)
      PROVE  Acknowledged'
  <2>1. /\ connected' = [connected EXCEPT ![s] = FALSE]
        /\ server' = [server EXCEPT ![s] = Down] \/ server' = server
        /\ UNCHANGED <<feVars, inbox>>
    BY <1>9, DisconnectSteps
  <2>2. /\ ~connected'[s]
        /\ \A t \in Servers : t # s => server'[t] = server[t] /\ connected'[t] = connected[t]
    BY <2>1 DEF TypeOK
  <2> QED BY <1>1, <2>1, <2>2 DEF Holds
<1> QED BY <1>2, <1>3, <1>4, <1>5, <1>6, <1>7, <1>8, <1>9 DEF Next

\* Where a published job is.
Kept(r) ==
  \/ r \in ToSet(jobs) \cup gone
  \/ \E s \in Servers : Holds(s, r)
  \/ HasResponse(r)

LEMMA KeptForgotten ==
  NothingForgotten <=>
    \A r \in Requests : entry[r] = "waiting" /\ queue[r] = "open" => Kept(r)
BY DEF NothingForgotten, Kept, Holds, HasResponse

LEMMA ForgottenStep ==
  ASSUME TypeOK, TypeOK', Kinds, Acknowledged, NothingForgotten, Next
  PROVE  NothingForgotten'
<1> USE DEF feVars, brokerVars, buildVars, history
<1>1. /\ jobs \in Seq(Requests) /\ Len(jobs) \in Nat /\ DOMAIN jobs = 1..Len(jobs)
      /\ jobs' \in Seq(Requests) /\ Len(jobs') \in Nat /\ DOMAIN jobs' = 1..Len(jobs')
  <2>1. jobs \in Seq(Requests) /\ jobs' \in Seq(Requests)
    BY DEF TypeOK
  <2> QED BY <2>1, LenProperties
<1> SUFFICES ASSUME NEW r \in Requests, entry'[r] = "waiting", queue'[r] = "open"
             PROVE  Kept(r)'
  BY DEF NothingForgotten, Kept, Holds, HasResponse
<1>2. ASSUME entry[r] = "waiting", queue[r] = "open"
      PROVE  Kept(r)
  BY <1>2, KeptForgotten
<1>3. ASSUME NEW q \in Requests, MkdirFails(q) \/ Timeout(q)
      PROVE  Kept(r)'
  <2>1. TellError(q) /\ UNCHANGED <<queue, brokerVars, buildVars, failures, history>>
    BY <1>3 DEF MkdirFails, Timeout
  <2>2. entry[r] = "waiting"
    BY <2>1, TellErrorSteps
  <2> QED BY <1>2, <2>1, <2>2 DEF Kept, Holds, HasResponse
<1>4. ASSUME NEW q \in Requests, MakeRequest(q)
      PROVE  Kept(r)'
  <2>1. q # r
    BY <1>4 DEF MakeRequest, TypeOK
  <2>2. entry[r] = "waiting" /\ queue[r] = "open"
    BY <1>4, <2>1 DEF MakeRequest, TypeOK
  <2>3. UNCHANGED <<brokerVars, buildVars, gone>>
    BY <1>4 DEF MakeRequest
  <2> QED BY <1>2, <2>2, <2>3 DEF Kept, Holds, HasResponse
<1>5. ASSUME NEW q \in Requests, Publish(q)
      PROVE  Kept(r)'
  <2>1. /\ queue' = [queue EXCEPT ![q] = "open"]
        /\ \/ jobs' = Append(jobs, q) /\ gone' = gone
           \/ jobs' = jobs /\ gone' = gone \cup {q}
        /\ UNCHANGED <<entry, inbox, server, connected>>
    BY <1>5, PublishSteps
  <2>2. ToSet(jobs') \cup gone' = ToSet(jobs) \cup gone \cup {q}
    <3>1. CASE jobs' = Append(jobs, q) /\ gone' = gone
      <4>1. /\ Len(jobs') = Len(jobs) + 1 /\ jobs'[Len(jobs) + 1] = q
            /\ \A i \in 1..Len(jobs) : jobs'[i] = jobs[i]
        BY <1>1, <3>1, AppendProperties
      <4>2. ToSet(jobs') = ToSet(jobs) \cup {q}
        BY <1>1, <4>1 DEF ToSet
      <4> QED BY <3>1, <4>2
    <3>2. CASE jobs' = jobs /\ gone' = gone \cup {q}
      BY <3>2
    <3> QED BY <2>1, <3>1, <3>2
  <2>3. CASE q = r
    BY <2>2, <2>3 DEF Kept
  <2>4. CASE q # r
    <3>1. Kept(r)
      BY <1>2, <2>1, <2>4 DEF TypeOK
    <3> QED BY <2>1, <2>2, <3>1 DEF Kept, Holds, HasResponse
  <2> QED BY <2>3, <2>4
<1>6. ASSUME NEW q \in Requests, Consume(q)
      PROVE  Kept(r)'
  <2>1. UNCHANGED <<queue, jobs, declared, buildVars, failures, history>>
    BY <1>6, ConsumeSteps
  <2>2. entry[r] = "waiting"
    BY <1>6, ConsumeSteps
  <2>3. Kept(r)
    BY <1>2, <2>1, <2>2
  <2>4. HasResponse(r) => HasResponse(r)'
    BY <1>6, ResponseUnread
  <2> QED BY <2>1, <2>3, <2>4 DEF Kept, Holds
<1>7. CASE RestartFrontEnd \/ RestartBroker
  <2>1. PICK lost : LoseQueues(lost)
    BY <1>7 DEF RestartFrontEnd, RestartBroker
  <2> QED BY <2>1, LoseQueuesSteps
<1>8. ASSUME NEW s \in Servers, Start(s)
      PROVE  Kept(r)'
  <2>1. /\ server[s].step = "down" /\ server' = [server EXCEPT ![s] = Idle]
        /\ connected' = [connected EXCEPT ![s] = TRUE]
        /\ UNCHANGED <<feVars, jobs, inbox, gone>>
    BY <1>8 DEF Start
  <2>2. server[s].req # r
    BY <2>1 DEF Kinds, Busy
  <2>3. \A t \in Servers : Holds(t, r) => Holds(t, r)'
    BY <2>1, <2>2 DEF Holds, TypeOK
  <2> QED BY <1>2, <2>1, <2>3 DEF Kept, HasResponse
<1>9. ASSUME NEW s \in Servers, ServerStep(s)
      PROVE  Kept(r)'
  <2>1. PICK q, ms : Sends(s, q, ms)
    BY <1>9, ServerSends
  <2>2. /\ UNCHANGED <<entry, queue, gone, connected>>
        /\ \A t \in Servers : t # s => server'[t] = server[t]
    BY <2>1 DEF Sends
  <2>3. Kept(r)
    BY <1>2, <2>2
  <2>4. HasResponse(r) => HasResponse(r)'
    BY <2>1, ResponseStays
  <2>5. ASSUME r \in ToSet(jobs)
        PROVE  r \in ToSet(jobs') \/ Holds(s, r)'
    <3>1. CASE jobs' = jobs
      BY <2>5, <3>1
    <3>2. CASE /\ connected[s] /\ server[s].step = "idle"
               /\ jobs # <<>> /\ q = Head(jobs) /\ jobs' = Tail(jobs)
      <4>1. /\ q = jobs[1] /\ Len(jobs') = Len(jobs) - 1
            /\ \A i \in 1..Len(jobs') : jobs'[i] = jobs[i + 1]
        BY <1>1, <3>2, HeadTailProperties
      <4>2. PICK i \in 1..Len(jobs) : jobs[i] = r
        BY <1>1, <2>5 DEF ToSet
      <4>3. CASE i = 1
        <5>1. server'[s].req = q
          BY <2>1, <3>2 DEF Sends
        <5> QED BY <2>2, <3>2, <4>1, <4>2, <4>3, <5>1 DEF Holds
      <4>4. CASE i # 1
        <5>1. i - 1 \in 1..Len(jobs') /\ jobs'[i - 1] = r
          BY <1>1, <4>1, <4>2, <4>4
        <5> QED BY <1>1, <5>1 DEF ToSet
      <4> QED BY <4>3, <4>4
    <3> QED BY <2>1, <3>1, <3>2 DEF Sends
  <2>6. ASSUME NEW t \in Servers, Holds(t, r)
        PROVE  Holds(t, r)' \/ HasResponse(r)
    <3>1. CASE t # s
      BY <2>2, <2>6, <3>1 DEF Holds
    <3>2. CASE t = s
      <4>1. connected[s] /\ server[s].req = r
        BY <2>6, <3>2 DEF Holds
      <4>2. q = r
        BY <2>1, <4>1 DEF Sends, Kinds, Busy
      <4>3. CASE server'[s].req = q
        BY <2>2, <3>2, <4>1, <4>2, <4>3 DEF Holds
      <4>4. CASE server[s].step = "ack"
        BY <2>2, <2>6, <3>2, <4>4 DEF Acknowledged
      <4> QED BY <2>1, <4>1, <4>3, <4>4 DEF Sends
    <3> QED BY <3>1, <3>2
  <2> QED BY <2>2, <2>3, <2>4, <2>5, <2>6 DEF Kept
<1>10. ASSUME NEW s \in Servers, Disconnect(s)
       PROVE  Kept(r)'
  <2>1. /\ connected' = [connected EXCEPT ![s] = FALSE]
        /\ server[s].req \in Requests => jobs' = <<server[s].req>> \o jobs
        /\ server[s].req \notin Requests => jobs' = jobs
        /\ server' = [server EXCEPT ![s] = Down] \/ server' = server
        /\ UNCHANGED <<feVars, inbox, gone>>
    BY <1>10, DisconnectSteps
  <2>2. /\ \A t \in Servers : t # s => server'[t] = server[t] /\ connected'[t] = connected[t]
    BY <2>1 DEF TypeOK
  <2>3. Kept(r)
    BY <1>2, <2>1
  <2>4. CASE server[s].req \notin Requests
    <3>1. \A t \in Servers : Holds(t, r) => Holds(t, r)'
      BY <2>2, <2>4 DEF Holds
    <3> QED BY <2>1, <2>3, <2>4, <3>1 DEF Kept, HasResponse
  <2>5. CASE server[s].req \in Requests
    <3> DEFINE q == server[s].req
    <3>1. /\ Len(jobs') = Len(jobs) + 1 /\ jobs'[1] = q
          /\ \A i \in 1..Len(jobs) : i + 1 \in 1..Len(jobs') /\ jobs'[i + 1] = jobs[i]
      <4>1. <<q>> \in Seq(Requests) /\ Len(<<q>>) = 1 /\ <<q>>[1] = q
        BY <2>5
      <4>2. jobs' = <<q>> \o jobs
        BY <2>1, <2>5
      <4> HIDE DEF q
      <4>3. /\ Len(jobs') = 1 + Len(jobs)
            /\ \A i \in 1..(1 + Len(jobs)) :
                 jobs'[i] = IF i <= 1 THEN <<q>>[i] ELSE jobs[i - 1]
        BY <1>1, <4>1, <4>2, ConcatProperties
      <4>4. \A i \in 1..Len(jobs) : i + 1 \in 1..(1 + Len(jobs)) /\ ~(i + 1 <= 1) /\ (i + 1) - 1 = i
        BY <1>1
      <4> QED BY <1>1, <4>1, <4>3, <4>4
    <3>2. 1 \in 1..Len(jobs')
      BY <1>1, <3>1
    <3>3. ToSet(jobs) \cup {q} \subseteq ToSet(jobs')
      BY <1>1, <3>1, <3>2 DEF ToSet
    <3>4. \A t \in Servers : Holds(t, r) => Holds(t, r)' \/ r = q
      BY <2>2 DEF Holds
    <3> QED BY <2>1, <2>3, <3>3, <3>4 DEF Kept, HasResponse
  <2> QED BY <2>4, <2>5
<1> QED BY <1>3, <1>4, <1>5, <1>6, <1>7, <1>8, <1>9, <1>10 DEF Next

LEMMA BarStep ==
  ASSUME TypeOK, Kinds, OnePlace, Bar, Next
  PROVE  Bar'
<1> USE DEF feVars, brokerVars, buildVars, history
<1> DEFINE First(r) == \A i \in 1..Len(inbox[r]) :
                         inbox[r][i].type = "responce" =>
                           \/ Stands(r, i - 1)
                           \/ \E j \in 1..(i - 1) : inbox[r][j].type = "responce"
           Ready(r) == queue[r] = "open" =>
                         \A s \in Servers : Holds(s, r) /\ server[s].step = "respond" =>
                           Stands(r, Len(inbox[r])) \/ HasResponse(r)
<1>1. inbox \in [Requests -> Seq(Messages)] /\ \A r \in Requests : Len(inbox[r]) \in Nat
  <2>1. inbox \in [Requests -> Seq(Messages)]
    BY Types
  <2> QED BY <2>1, LenProperties
<1>2. ASSUME NEW r \in Requests, entry[r] = "waiting"
      PROVE  First(r) /\ Ready(r)
  BY <1>2 DEF Bar
<1>3. SUFFICES ASSUME NEW r \in Requests, entry'[r] = "waiting"
               PROVE  First(r)' /\ Ready(r)'
  BY DEF Bar
<1>4. ASSUME entry[r] = "waiting", inbox'[r] = inbox[r], progress'[r] = progress[r],
             queue'[r] = "open" => queue[r] = "open",
             queue'[r] = "open" =>
               \A s \in Servers : Holds(s, r)' /\ server'[s].step = "respond"
                                    => Holds(s, r) /\ server[s].step = "respond"
      PROVE  First(r)' /\ Ready(r)'
  <2>1. First(r) /\ Ready(r)
    BY <1>2, <1>4
  <2>2. \A i : Stands(r, i) => Stands(r, i)'
    BY <1>4 DEF Stands
  <2>3. First(r)'
    BY <1>4, <2>1, <2>2
  <2>4. Ready(r)'
    BY <1>4, <2>1, <2>2 DEF HasResponse
  <2> QED BY <2>3, <2>4
<1>5. ASSUME inbox'[r] = <<>>, queue'[r] # "open"
      PROVE  First(r)' /\ Ready(r)'
  BY <1>5
<1>6. ASSUME NEW q \in Requests, MkdirFails(q) \/ Timeout(q)
      PROVE  First(r)' /\ Ready(r)'
  <2>1. TellError(q) /\ UNCHANGED <<queue, brokerVars, buildVars, failures, history>>
    BY <1>6 DEF MkdirFails, Timeout
  <2>2. entry[r] = "waiting" /\ progress'[r] = progress[r]
    BY <1>3, <2>1, TellErrorSteps
  <2> QED BY <1>4, <2>1, <2>2 DEF Holds
<1>7. ASSUME NEW q \in Requests, MakeRequest(q)
      PROVE  First(r)' /\ Ready(r)'
  <2>1. /\ entry[q] = "new" /\ entry' = [entry EXCEPT ![q] = "waiting"]
        /\ queue' = [queue EXCEPT ![q] = "asked"]
        /\ UNCHANGED <<progress, brokerVars, buildVars>>
    BY <1>7 DEF MakeRequest
  <2>2. CASE q = r
    <3>1. inbox[r] = <<>>
      BY <2>1, <2>2 DEF Kinds
    <3> QED BY <1>5, <2>1, <2>2, <3>1 DEF TypeOK
  <2>3. CASE q # r
    <3>1. entry[r] = "waiting" /\ queue'[r] = queue[r]
      BY <1>3, <2>1, <2>3 DEF TypeOK
    <3> QED BY <1>4, <2>1, <3>1 DEF Holds
  <2> QED BY <2>2, <2>3
<1>8. ASSUME NEW q \in Requests, Publish(q)
      PROVE  First(r)' /\ Ready(r)'
  <2>1. /\ queue[q] = "asked" /\ queue' = [queue EXCEPT ![q] = "open"]
        /\ UNCHANGED <<entry, progress, inbox, server, connected>>
    BY <1>8, PublishSteps
  <2>2. CASE q = r
    <3>1. inbox'[r] = <<>>
      BY <2>1, <2>2 DEF Kinds
    <3>2. \A s \in Servers : ~Holds(s, r)
      BY <2>1, <2>2 DEF OnePlace
    <3>3. \A s \in Servers : ~Holds(s, r)'
      BY <2>1, <3>2 DEF Holds
    <3> QED BY <3>1, <3>3
  <2>3. CASE q # r
    <3>1. entry[r] = "waiting" /\ queue'[r] = queue[r]
      BY <1>3, <2>1, <2>3 DEF TypeOK
    <3> QED BY <1>4, <2>1, <3>1 DEF Holds
  <2> QED BY <2>2, <2>3
<1>9. ASSUME NEW q \in Requests, Consume(q)
      PROVE  First(r)' /\ Ready(r)'
  <2> DEFINE m == Head(inbox[q])
             answered == m.type = "responce" /\ entry[q] = "waiting"
  <2>1. /\ inbox[q] # <<>> /\ m \in Messages /\ m = inbox[q][1] /\ inbox'[q] = Tail(inbox[q])
        /\ progress'[q] = IF m.type = "status" /\ entry[q] = "waiting"
                          THEN m.value ELSE progress[q]
        /\ ~answered => entry'[q] = entry[q]
        /\ answered => entry'[q] = "deleted"
        /\ \A p \in Requests : p # q => /\ inbox'[p] = inbox[p]
                                        /\ entry'[p] = entry[p]
                                        /\ progress'[p] = progress[p]
        /\ UNCHANGED <<queue, buildVars>>
    BY <1>9, ConsumeSteps
  <2>2. CASE q # r
    BY <1>3, <1>4, <2>1, <2>2 DEF Holds
  <2>3. CASE q = r
    <3>1. entry[r] = "waiting" /\ m.type = "status" /\ m = inbox[r][1] /\ progress'[r] = m.value
      BY <1>3, <2>1, <2>3 DEF Messages
    <3>2. /\ Len(inbox'[r]) = Len(inbox[r]) - 1
          /\ \A i \in 1..Len(inbox'[r]) : inbox'[r][i] = inbox[r][i + 1]
      <4>1. inbox[r] \in Seq(Messages) /\ inbox[r] # <<>> /\ inbox'[r] = Tail(inbox[r])
        BY <1>1, <2>1, <2>3
      <4> QED BY <4>1, HeadTailProperties
    <3>3. First(r) /\ Ready(r)
      BY <1>2, <3>1
    <3>4. ASSUME NEW i \in Nat, i <= Len(inbox'[r]), Stands(r, i + 1)
          PROVE  Stands(r, i)'
      <4>1. inbox[r][i + 1] = Status(100)
        BY <3>4 DEF Stands
      <4>2. CASE i = 0
        BY <3>1, <4>1, <4>2 DEF Stands, Status
      <4>3. CASE i # 0
        <5>1. i \in 1..Len(inbox'[r])
          BY <3>4, <4>3
        <5> QED BY <3>2, <4>1, <4>3, <5>1 DEF Stands
      <4> QED BY <4>2, <4>3
    <3>5. First(r)'
      <4> SUFFICES ASSUME NEW i \in 1..Len(inbox'[r]), inbox'[r][i].type = "responce"
                   PROVE  \/ Stands(r, i - 1)'
                          \/ \E j \in 1..(i - 1) : inbox'[r][j].type = "responce"
        OBVIOUS
      <4>1. i + 1 \in 1..Len(inbox[r]) /\ inbox[r][i + 1].type = "responce"
        BY <1>1, <3>2
      <4>2. \/ Stands(r, (i + 1) - 1)
            \/ \E j \in 1..((i + 1) - 1) : inbox[r][j].type = "responce"
        BY <3>3, <4>1
      <4>3. (i + 1) - 1 = (i - 1) + 1 /\ i - 1 \in Nat /\ i - 1 <= Len(inbox'[r])
        BY <1>1, <3>2
      <4>4. CASE Stands(r, (i + 1) - 1)
        BY <3>4, <4>3, <4>4
      <4>5. ASSUME NEW j \in 1..((i + 1) - 1), inbox[r][j].type = "responce"
            PROVE  \E k \in 1..(i - 1) : inbox'[r][k].type = "responce"
        <5>1. j # 1
          BY <3>1, <4>5
        <5>2. j - 1 \in 1..(i - 1) /\ j - 1 \in 1..Len(inbox'[r]) /\ (j - 1) + 1 = j
          BY <1>1, <3>2, <5>1
        <5> QED BY <3>2, <4>5, <5>2
      <4> QED BY <4>2, <4>4, <4>5
    <3>6. Ready(r)'
      <4> SUFFICES ASSUME queue'[r] = "open", NEW s \in Servers, Holds(s, r)',
                          server'[s].step = "respond"
                   PROVE  Stands(r, Len(inbox[r]))' \/ HasResponse(r)'
        OBVIOUS
      <4>1. Stands(r, Len(inbox[r])) \/ HasResponse(r)
        BY <2>1, <3>3 DEF Holds
      <4>2. CASE HasResponse(r)
        BY <1>3, <1>9, <2>3, <4>2, ResponseUnread
      <4>3. CASE Stands(r, Len(inbox[r]))
        <5>1. /\ Len(inbox'[r]) \in Nat /\ Len(inbox'[r]) <= Len(inbox'[r])
              /\ Len(inbox[r]) = Len(inbox'[r]) + 1
          BY <1>1, <2>1, <2>3, <3>2, EmptySeq
        <5>2. Stands(r, Len(inbox'[r]) + 1)
          BY <4>3, <5>1
        <5> QED BY <3>4, <5>1, <5>2 DEF Stands
      <4> QED BY <4>1, <4>2, <4>3
    <3> QED BY <3>5, <3>6
  <2> QED BY <2>2, <2>3
<1>10. CASE RestartFrontEnd \/ RestartBroker
  <2>1. PICK lost : LoseQueues(lost)
    BY <1>10 DEF RestartFrontEnd, RestartBroker
  <2> QED BY <1>5, <2>1, LoseQueuesSteps
<1>11. ASSUME NEW s \in Servers, Start(s)
       PROVE  First(r)' /\ Ready(r)'
  <2>1. /\ server' = [server EXCEPT ![s] = Idle] /\ UNCHANGED <<feVars, inbox>>
        /\ connected' = [connected EXCEPT ![s] = TRUE]
    BY <1>11 DEF Start
  <2>2. /\ server'[s].step # "respond"
        /\ \A t \in Servers : t # s => server'[t] = server[t] /\ connected'[t] = connected[t]
    BY <2>1 DEF Idle, TypeOK
  <2> QED BY <1>3, <1>4, <2>1, <2>2 DEF Holds
<1>12. ASSUME NEW s \in Servers, Disconnect(s)
       PROVE  First(r)' /\ Ready(r)'
  <2>1. /\ connected' = [connected EXCEPT ![s] = FALSE]
        /\ server' = [server EXCEPT ![s] = Down] \/ server' = server
        /\ UNCHANGED <<feVars, inbox>>
    BY <1>12, DisconnectSteps
  <2>2. /\ ~connected'[s]
        /\ \A t \in Servers : t # s => server'[t] = server[t] /\ connected'[t] = connected[t]
    BY <2>1 DEF TypeOK
  <2> QED BY <1>3, <1>4, <2>1, <2>2 DEF Holds
<1>13. ASSUME NEW s \in Servers, ServerStep(s)
       PROVE  First(r)' /\ Ready(r)'
  <2>1. PICK q, ms : Sends(s, q, ms)
    BY <1>13, ServerSends
  <2>2. /\ UNCHANGED <<entry, queue, progress, connected>>
        /\ \A t \in Servers : t # s => server'[t] = server[t]
        /\ ms \in Seq(Messages)
    BY <2>1 DEF Sends
  <2>3. First(r) /\ Ready(r)
    BY <1>2, <1>3, <2>2
  <2>4. CASE ~(q = r /\ connected[s] /\ queue[r] = "open")
    <3>1. inbox'[r] = inbox[r]
      BY <2>1, <2>4 DEF Sends
    <3>2. ASSUME queue'[r] = "open", NEW t \in Servers, Holds(t, r)', server'[t].step = "respond"
          PROVE  Holds(t, r) /\ server[t].step = "respond"
      <4>1. t # s
        BY <2>1, <2>2, <2>4, <3>2, BuildRpcAssumption DEF Holds, Sends
      <4> QED BY <2>2, <3>2, <4>1 DEF Holds
    <3> QED BY <1>3, <1>4, <2>2, <3>1, <3>2
  <2>5. CASE q = r /\ connected[s] /\ queue[r] = "open"
    <3>1. /\ Len(inbox[r]) \in Nat /\ Len(ms) \in Nat
          /\ Len(inbox'[r]) = Len(inbox[r]) + Len(ms)
          /\ \A i \in 1..Len(inbox[r]) : inbox'[r][i] = inbox[r][i]
          /\ \A i \in 1..Len(inbox'[r]) :
               i \notin 1..Len(inbox[r]) => /\ i - Len(inbox[r]) \in 1..Len(ms)
                                            /\ inbox'[r][i] = ms[i - Len(inbox[r])]
      <4>1. Sends(s, r, ms)
        BY <2>1, <2>5
      <4>2. connected[s] /\ queue[r] = "open"
        BY <2>5
      <4> HIDE DEF First, Ready
      <4> QED BY <4>1, <4>2, InboxAfter
    <3>2. Holds(s, r) \/ (1 \in 1..Len(jobs) /\ jobs[1] = r)
      <4>1. CASE server[s].req = r
        BY <2>5, <4>1 DEF Holds
      <4>2. CASE jobs # <<>> /\ r = Head(jobs)
        <5>1. jobs \in Seq(Requests)
          BY Types
        <5> QED BY <4>2, <5>1, HeadTailProperties, EmptySeq
      <4> QED BY <2>1, <2>5, <4>1, <4>2 DEF Sends
    <3>3. \A t \in Servers : Holds(t, r) => t = s
      BY <3>2 DEF OnePlace
    <3>4. ASSUME NEW i \in 0..Len(inbox[r]), Stands(r, i)
          PROVE  Stands(r, i)'
      BY <2>2, <3>1, <3>4 DEF Stands
    <3>5. ASSUME NEW k \in 1..Len(ms), ms[k].type = "responce"
          PROVE  k = 1 /\ Holds(s, r) /\ server[s].step = "respond"
      <4>1. /\ server[s].step = "respond"
            /\ \E ok \in BOOLEAN : ms = <<Response(ok)>>
        BY <2>1, <3>5 DEF Sends
      <4>2. Len(ms) = 1
        BY <4>1
      <4>3. server[s].req = r
        BY <2>1, <2>5, <4>1 DEF Sends
      <4> QED BY <2>5, <3>5, <4>1, <4>2, <4>3 DEF Holds
    <3>6. First(r)'
      <4> SUFFICES ASSUME NEW i \in 1..Len(inbox'[r]), inbox'[r][i].type = "responce"
                   PROVE  \/ Stands(r, i - 1)'
                          \/ \E j \in 1..(i - 1) : inbox'[r][j].type = "responce"
        OBVIOUS
      <4>1. CASE i \in 1..Len(inbox[r])
        <5>1. inbox[r][i].type = "responce" /\ i - 1 \in 0..Len(inbox[r])
          BY <3>1, <4>1
        <5>2. \/ Stands(r, i - 1)
              \/ \E j \in 1..(i - 1) : inbox[r][j].type = "responce"
          BY <2>3, <4>1, <5>1
        <5>3. \A j \in 1..(i - 1) : j \in 1..Len(inbox[r])
          BY <3>1, <4>1
        <5> QED BY <3>1, <3>4, <5>1, <5>2, <5>3
      <4>2. CASE i \notin 1..Len(inbox[r])
        <5>1. i - Len(inbox[r]) \in 1..Len(ms) /\ ms[i - Len(inbox[r])].type = "responce"
          BY <3>1, <4>2
        <5>2. i - Len(inbox[r]) = 1 /\ Holds(s, r) /\ server[s].step = "respond"
          BY <3>5, <5>1
        <5>3. i - 1 = Len(inbox[r])
          BY <3>1, <5>2
        <5>4. Stands(r, i - 1) \/ HasResponse(r)
          BY <2>3, <2>5, <5>2, <5>3
        <5>5. CASE Stands(r, i - 1)
          BY <3>1, <3>4, <5>3, <5>5
        <5>6. CASE HasResponse(r)
          BY <3>1, <5>3, <5>6 DEF HasResponse
        <5> QED BY <5>4, <5>5, <5>6
      <4> QED BY <4>1, <4>2
    <3>7. Ready(r)'
      <4> SUFFICES ASSUME NEW t \in Servers, Holds(t, r)', server'[t].step = "respond"
                   PROVE  Stands(r, Len(inbox[r]))' \/ HasResponse(r)'
        OBVIOUS
      <4>1. CASE t # s
        BY <2>2, <3>3, <4>1 DEF Holds
      <4>2. CASE t = s
        <5>1. ms = <<Status(100)>>
          BY <2>1, <4>2 DEF Sends
        <5>2. Len(ms) = 1 /\ ms[1] = Status(100)
          BY <5>1
        <5>3. /\ Len(inbox'[r]) \in 1..Len(inbox'[r]) /\ Len(inbox'[r]) \notin 1..Len(inbox[r])
              /\ Len(inbox'[r]) - Len(inbox[r]) = 1 /\ Len(inbox'[r]) # 0
          BY <3>1, <5>2
        <5>4. inbox'[r][Len(inbox'[r])] = Status(100)
          BY <3>1, <5>2, <5>3
        <5> QED BY <5>3, <5>4 DEF Stands
      <4> QED BY <4>1, <4>2
    <3> QED BY <3>6, <3>7
  <2> QED BY <2>4, <2>5
<1> QED BY <1>6, <1>7, <1>8, <1>9, <1>10, <1>11, <1>12, <1>13 DEF Next

\* What a step does to the results of the pages.
LEMMA ResultSteps ==
  ASSUME TypeOK, Kinds, Bar, Told, Next, NEW r \in Requests
  PROVE  /\ final[r] # <<>> => /\ entry'[r] = "deleted"
                               /\ final'[r] = final[r]
                               /\ progress'[r] = progress[r]
         /\ final'[r] # final[r] => entry'[r] = "deleted" /\ progress'[r] = 100
<1> USE DEF feVars, brokerVars, buildVars, history
<1>1. final[r] # <<>> => entry[r] = "deleted"
  BY DEF Told
<1>2. ASSUME final'[r] = final[r], progress'[r] = progress[r],
             entry[r] = "deleted" => entry'[r] = "deleted"
      PROVE  /\ final[r] # <<>> => /\ entry'[r] = "deleted"
                                   /\ final'[r] = final[r]
                                   /\ progress'[r] = progress[r]
             /\ final'[r] # final[r] => entry'[r] = "deleted" /\ progress'[r] = 100
  BY <1>1, <1>2
<1>3. ASSUME NEW q \in Requests, MkdirFails(q) \/ Timeout(q)
      PROVE  /\ final[r] # <<>> => /\ entry'[r] = "deleted"
                                   /\ final'[r] = final[r]
                                   /\ progress'[r] = progress[r]
             /\ final'[r] # final[r] => entry'[r] = "deleted" /\ progress'[r] = 100
  <2>1. TellError(q) /\ entry[q] \in {"new", "waiting"}
    BY <1>3 DEF MkdirFails, Timeout
  <2>2. /\ entry'[q] = "deleted" /\ progress'[q] = 100
        /\ \A p \in Requests : p # q => /\ entry'[p] = entry[p]
                                        /\ progress'[p] = progress[p]
                                        /\ final'[p] = final[p]
    BY <2>1, TellErrorSteps
  <2>3. CASE q = r
    BY <1>1, <2>1, <2>2, <2>3
  <2>4. CASE q # r
    BY <1>2, <2>2, <2>4
  <2> QED BY <2>3, <2>4
<1>4. ASSUME NEW q \in Requests, MakeRequest(q) \/ Publish(q)
      PROVE  /\ final'[r] = final[r] /\ progress'[r] = progress[r]
             /\ entry[r] = "deleted" => entry'[r] = "deleted"
  BY <1>4 DEF MakeRequest, Publish, TypeOK
<1>5. ASSUME NEW q \in Requests, Consume(q)
      PROVE  /\ final[r] # <<>> => /\ entry'[r] = "deleted"
                                   /\ final'[r] = final[r]
                                   /\ progress'[r] = progress[r]
             /\ final'[r] # final[r] => entry'[r] = "deleted" /\ progress'[r] = 100
  <2> DEFINE m == Head(inbox[q])
             answered == m.type = "responce" /\ entry[q] = "waiting"
  <2>1. /\ inbox[q] # <<>> /\ m \in Messages /\ m = inbox[q][1]
        /\ progress'[q] = IF m.type = "status" /\ entry[q] = "waiting"
                          THEN m.value ELSE progress[q]
        /\ ~answered => final'[q] = final[q] /\ entry'[q] = entry[q]
        /\ answered => entry'[q] = "deleted"
        /\ \A p \in Requests : p # q => /\ entry'[p] = entry[p]
                                        /\ progress'[p] = progress[p]
                                        /\ final'[p] = final[p]
    BY <1>5, ConsumeSteps
  <2>2. CASE q # r
    BY <1>2, <2>1, <2>2
  <2>3. CASE q = r /\ ~answered
    <3>1. CASE entry[r] = "waiting"
      BY <1>1, <2>1, <2>3, <3>1
    <3>2. CASE entry[r] # "waiting"
      BY <1>2, <2>1, <2>3, <3>2
    <3> QED BY <3>1, <3>2
  <2>4. CASE q = r /\ answered
    <3>1. 1 \in 1..Len(inbox[r])
      <4>1. inbox[r] \in Seq(Messages) /\ inbox[r] # <<>>
        BY <2>1, <2>4, Types
      <4> QED BY <4>1, EmptySeq
    <3>2. inbox[r][1].type = "responce" /\ entry[r] = "waiting"
      BY <2>1, <2>4
    <3>3. Stands(r, 1 - 1) \/ \E j \in 1..(1 - 1) : inbox[r][j].type = "responce"
      BY <3>1, <3>2 DEF Bar
    <3>4. progress[r] = 100
      BY <3>3 DEF Stands
    <3> QED BY <1>1, <2>1, <2>4, <3>2, <3>4
  <2> QED BY <2>2, <2>3, <2>4
<1>6. CASE RestartFrontEnd
  <2>1. /\ entry[r] # "waiting" => entry'[r] = entry[r]
        /\ UNCHANGED <<progress, final>>
    BY <1>6 DEF RestartFrontEnd
  <2> QED BY <1>2, <2>1
<1>7. ASSUME NEW s \in Servers, Start(s) \/ Disconnect(s)
      PROVE  UNCHANGED <<entry, progress, final>>
  BY <1>7 DEF Start, Disconnect
<1>8. ASSUME NEW s \in Servers, ServerStep(s)
      PROVE  UNCHANGED <<entry, progress, final>>
  <2>1. PICK q, ms : Sends(s, q, ms)
    BY <1>8, ServerSends
  <2> QED BY <2>1 DEF Sends
<1>9. CASE RestartBroker
  BY <1>2, <1>9, RestartBrokerSteps
<1> QED BY <1>2, <1>3, <1>4, <1>5, <1>6, <1>7, <1>8, <1>9 DEF Next

-----------------------------------------------------------------------------
(* The theorems.                                                           *)

LEMMA InitInv ==
  Init => IInv
<1> SUFFICES ASSUME Init
             PROVE  IInv
  OBVIOUS
<1>1. TypeOK
  <2>1. Down \in [step : {"down", "idle", "configure", "make", "load",
                         "complete", "respond", "ack"},
                 req : Requests \cup {NoRequest}, ok : BOOLEAN]
    BY DEF Down, Idle
  <2>2. 0 \in 0..MaxFailures
    BY BuildRpcAssumption
  <2>3. server \in [Servers -> [step : {"down", "idle", "configure", "make", "load",
                                       "complete", "respond", "ack"},
                               req : Requests \cup {NoRequest}, ok : BOOLEAN]]
    BY <2>1 DEF Init
  <2>4. /\ inbox \in [Requests -> Seq([type : {"status", "responce"}, value : 0..100])]
        /\ final \in [Requests -> Seq({"body", "error"})]
        /\ jobs \in Seq(Requests)
    BY DEF Init
  <2>5. 0 \in Nat
    OBVIOUS
  <2> QED BY <2>2, <2>3, <2>4, <2>5 DEF Init, TypeOK
<1>2. Kinds
  BY BuildRpcAssumption DEF Init, Kinds, Down, Idle, Busy
<1>3. OnePlace
  BY DEF Init, OnePlace, Holds
<1>4. Level
  BY DEF Init, Level, Down, Idle
<1>5. NothingForgotten
  BY DEF Init, NothingForgotten
<1>6. Acknowledged /\ Bar /\ Told
  BY DEF Init, Acknowledged, Bar, Told
<1> QED BY <1>1, <1>2, <1>3, <1>4, <1>5, <1>6 DEF IInv

LEMMA StutterInv ==
  ASSUME IInv, UNCHANGED vars
  PROVE  IInv'
<1> USE DEF vars, feVars, brokerVars, buildVars, history
<1>1. TypeOK' /\ Kinds' /\ Level'
  BY DEF IInv, TypeOK, Kinds, Level
<1>2. OnePlace'
  BY DEF IInv, OnePlace, Holds
<1>3. NothingForgotten' /\ Acknowledged'
  BY DEF IInv, NothingForgotten, Acknowledged, Holds, HasResponse
<1>4. Bar' /\ Told'
  BY DEF IInv, Bar, Told, Holds, HasResponse, Stands
<1> QED BY <1>1, <1>2, <1>3, <1>4 DEF IInv

LEMMA StepInv ==
  ASSUME IInv, Next
  PROVE  IInv'
<1>1. TypeOK' /\ Kinds' /\ OnePlace' /\ Level'
  BY TypeStep, KindsStep, OnePlaceStep, LevelStep DEF IInv
<1>2. NothingForgotten' /\ Acknowledged' /\ Bar'
  BY <1>1, ForgottenStep, AcknowledgedStep, BarStep DEF IInv
<1>3. Told'
  <2> SUFFICES ASSUME NEW r \in Requests, final'[r] # <<>>
               PROVE  entry'[r] = "deleted"
    BY DEF Told
  <2> QED BY ResultSteps DEF IInv
<1> QED BY <1>1, <1>2, <1>3 DEF IInv

\* IInv holds in every state: a job is in one place and its messages are in the
\* order of one build.
THEOREM Invariance ==
  Spec => []IInv
<1>1. IInv /\ [Next]_vars => IInv'
  BY StutterInv, StepInv
<1> QED BY InitInv, <1>1, PTL DEF Spec

\* Every variable keeps its type; no server leaves more directories than it
\* entered.
THEOREM TypeCorrect ==
  Spec => []TypeOK
<1>1. IInv => TypeOK
  BY DEF IInv
<1> QED BY Invariance, <1>1, PTL

\* A published job whose request waits is in the queue, at a server the broker
\* knows to have it, or answered, whichever connections end in whatever step.
THEOREM NothingIsForgotten ==
  Spec => []NothingForgotten
<1>1. IInv => NothingForgotten
  BY DEF IInv
<1> QED BY Invariance, <1>1, PTL

\* Every build but one with an error that build_package does not catch, in any order
\* with any ends of connections, leaves the server in the directory it began in.
THEOREM ServersComeHome ==
  Spec => []AtHome
<1>1. IInv => AtHome
  BY DEF IInv, Level, AtHome
<1> QED BY Invariance, <1>1, PTL

\* The result of a request comes when its bar stands at 100, and nothing comes
\* after it.
THEOREM ResultIsLast ==
  Spec => FinalIsLast
<1> DEFINE A == \A r \in Requests :
                  /\ final[r] # <<>> => /\ final'[r] = final[r]
                                        /\ progress'[r] = progress[r]
                  /\ final'[r] # final[r] => progress'[r] = 100
<1>1. IInv /\ [Next]_vars => [A]_vars
  BY ResultSteps DEF IInv
<1>2. Spec => [][A]_vars
  BY Invariance, <1>1, PTL DEF Spec
<1> QED BY <1>2 DEF FinalIsLast
=============================================================================
