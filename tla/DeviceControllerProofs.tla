------------------------ MODULE DeviceControllerProofs ------------------------
(***************************************************************************)
(* Proofs about DeviceController, for every set of configurations and      *)
(* relays and every number of changes.  That one server at a time exists   *)
(* rests on where the event thread stands (Steps); that a private site is  *)
(* guarded rests on where each relay came from (Marked) and on the events  *)
(* being counted (Counted), so that no server is made twice.               *)
(***************************************************************************)
EXTENDS DeviceController, SequenceTheorems, TLAPS

\* Where the event thread stands says whether there is a server.
Steps ==
  /\ main.step \in {"connect", "apply", "end"} => server = NoServer
  /\ main.step \in {"stop", "join"} => server # NoServer
  /\ main.step \in {"connect", "wait", "apply"} => ~main.exits

\* Each accepted change is waiting, being handled, or was applied.
Pending == \/ main.step \in {"connect", "apply"}
           \/ main.step \in {"stop", "join"} /\ ~main.exits
Counted ==
  /\ applied + Len(events) + (IF Pending THEN 1 ELSE 0) = accepted + 1
  /\ accepted <= MaxChanges
  /\ made <= applied

\* Servers are made in order, and nobody knows one that is not made.
Made ==
  /\ \A g \in Servers : g > made => thread[g] = "none" /\ g \notin unchecked
  /\ server # NoServer => thread[server] # "none"

\* The copies of the configuration agree.
Agree ==
  /\ innerConfig = config
  /\ server # NoServer => using[server] = config

\* A relay is on a server that was made, and marked after its configuration,
\* unless that server has ended.
OnServer(g) == g \in Servers /\ thread[g] # "none"
Marked ==
  /\ \A r \in Relays : relay[r].state \in {"made", "posted", "open"} =>
       /\ OnServer(relay[r].on)
       /\ thread[relay[r].on] # "ended" =>
            /\ relay[r].kind = using[relay[r].on].kind
            /\ relay[r].authenticated = ~using[relay[r].on].private
  /\ inner.step \in {"make", "post"} => inner.relay \in Relays /\ OnServer(inner.on)
  /\ inner.step = "post" => relay[inner.relay].state \in {"made", "posted", "open"}

IInv == /\ TypeOK /\ Steps /\ Counted /\ Made /\ OneServer /\ Agree /\ Marked
        /\ PrivateGuarded

USE DeviceControllerAssumption DEF Servers, NoServer

-----------------------------------------------------------------------------
(* Type correctness.                                                       *)

LEMMA InitTypeOK == Init => TypeOK
<1> SUFFICES ASSUME Init PROVE TypeOK
  OBVIOUS
<1> USE DEF Init
<1>1. relay \in [Relays -> RelayRecords]
  <2>1. NoRelay \in RelayRecords
    BY DEF NoRelay, Kinds, RelayRecords
  <2> QED BY <2>1
<1>2. main \in MainRecords
  BY DEF MainRecords
<1>3. inner \in InnerRecords
  BY DEF InnerRecords
<1>4. /\ thread \in [Servers -> {"none", "start", "bind", "exec", "run", "ended"}]
      /\ loop \in [Servers -> {"none", "made", "set", "gone"}]
      /\ using \in [Servers -> Configs]
      /\ events \in Seq(Configs)
  OBVIOUS
<1> QED BY <1>1, <1>2, <1>3, <1>4 DEF TypeOK

\* What the updates of the records return.
LEMMA MainUpdate ==
  ASSUME main \in MainRecords,
         NEW s \in {"connect", "wait", "stop", "join", "apply", "end"}, NEW c \in Configs
  PROVE  /\ [main EXCEPT !.step = s] \in MainRecords
         /\ [main EXCEPT !.step = s, !.next = c] \in MainRecords
         /\ [main EXCEPT !.step = s, !.exits = TRUE] \in MainRecords
BY DEF MainRecords

LEMMA InnerUpdate ==
  ASSUME inner \in InnerRecords,
         NEW s \in {"start", "create", "loop", "offline", "make", "post"}
  PROVE  [inner EXCEPT !.step = s] \in InnerRecords
BY DEF InnerRecords

LEMMA RelayUpdate ==
  ASSUME relay \in [Relays -> RelayRecords], NEW r,
         NEW s \in {"none", "refused", "made", "posted", "open"}
  PROVE  [relay EXCEPT ![r].state = s] \in [Relays -> RelayRecords]
<1>1. ASSUME r \in Relays PROVE [relay[r] EXCEPT !.state = s] \in RelayRecords
  <2>1. relay[r] \in RelayRecords
    BY <1>1
  <2> QED BY <2>1 DEF RelayRecords
<1> QED BY <1>1

\* The steps of the event thread.
LEMMA MainTypes == TypeOK /\ Steps /\ Counted /\ Main => TypeOK'
<1> SUFFICES ASSUME TypeOK, Steps, Counted, Main PROVE TypeOK'
  OBVIOUS
<1> USE DEF TypeOK
<1>1. CASE Connect
  <2>1. CASE server = NoServer /\ config.kind # "invalid"
    <3>1. main.step = "connect" /\ made' = made + 1
      BY <1>1, <2>1 DEF Connect
    <3>2. applied + Len(events) = accepted /\ accepted <= MaxChanges /\ made <= applied
      <4>1. applied + Len(events) + 1 = accepted + 1
        BY <3>1 DEF Counted, Pending
      <4>2. Len(events) \in Nat /\ applied \in Nat /\ accepted \in Nat
        OBVIOUS
      <4>3. accepted <= MaxChanges /\ made <= applied
        BY DEF Counted
      <4> QED BY <4>1, <4>2, <4>3
    <3>3. made' \in Servers
      <4>1. Len(events) \in Nat
        OBVIOUS
      <4> QED BY <3>1, <3>2, <4>1
    <3>4. /\ main' = [main EXCEPT !.step = "wait"]
          /\ applied' = applied + 1
          /\ server' = made'
          /\ thread' = [thread EXCEPT ![made'] = "start"]
          /\ using' = [using EXCEPT ![made'] = config]
          /\ checks' \in {checks, checks \cup {made'}}
          /\ UNCHANGED <<process, config, events, innerVars, loop, stopping, accepted,
                         missed, unchecked>>
      BY <1>1, <2>1 DEF Connect
    <3>5. /\ main' \in MainRecords
          /\ thread' \in [Servers -> {"none", "start", "bind", "exec", "run", "ended"}]
          /\ using' \in [Servers -> Configs]
          /\ checks' \in SUBSET Servers
      BY <3>3, <3>4, MainUpdate
    <3> QED BY <3>3, <3>4, <3>5 DEF innerVars
  <2>2. CASE ~(server = NoServer /\ config.kind # "invalid")
    <3>1. /\ main' = [main EXCEPT !.step = "wait"]
          /\ applied' = applied + 1
          /\ process' \in {process, "up", "dead"}
          /\ UNCHANGED <<config, server, made, events, innerVars, serverVars, accepted,
                         missed, unchecked>>
      BY <1>1, <2>2 DEF Connect, serverVars
    <3>2. main' \in MainRecords
      BY <3>1, MainUpdate
    <3> QED BY <3>1, <3>2 DEF innerVars, serverVars
  <2> QED BY <2>1, <2>2
<1>2. CASE HandleEvent
  <2>1. Head(events) \in Configs /\ Tail(events) \in Seq(Configs)
    BY <1>2 DEF HandleEvent
  <2> QED BY <1>2, <2>1, MainUpdate DEF HandleEvent, Idle, innerVars, serverVars
<1>3. CASE Exit
  BY <1>3, MainUpdate DEF Exit, Idle, innerVars, serverVars
<1>4. CASE Stop
  BY <1>4, MainUpdate DEF Stop, Steps, innerVars
<1>5. CASE Join
  BY <1>5, MainUpdate DEF Join, innerVars
<1>6. CASE SetConfig
  <2>1. main' \in MainRecords
    BY <1>6, MainUpdate DEF SetConfig
  <2>2. config' \in Configs /\ innerConfig' \in Configs
    BY <1>6 DEF SetConfig, MainRecords
  <2> QED BY <1>6, <2>1, <2>2 DEF SetConfig, serverVars
<1>7. CASE TornConfig
  BY <1>7 DEF TornConfig, mainVars, innerVars, serverVars
<1>8. CASE End
  BY <1>8 DEF End, mainVars, innerVars, serverVars
<1> QED BY <1>1, <1>2, <1>3, <1>4, <1>5, <1>6, <1>7, <1>8 DEF Main

\* The steps of the inner thread.
LEMMA InnerTypes == TypeOK /\ Inner => TypeOK'
<1> SUFFICES ASSUME TypeOK, Inner PROVE TypeOK'
  OBVIOUS
<1> USE DEF TypeOK, InnerOnly, serverVars
<1>1. CASE CreateHandler
  BY <1>1, InnerUpdate DEF CreateHandler
<1>2. CASE CreateChecker
  BY <1>2, InnerUpdate DEF CreateChecker
<1>3. ASSUME NEW c \in Configs, PleaseSetConfig(c) PROVE TypeOK'
  BY <1>3 DEF PleaseSetConfig, innerVars
<1>4. ASSUME NEW r \in Relays, PleaseConnect(r) PROVE TypeOK'
  <2>1. relay' \in [Relays -> RelayRecords]
    <3>1. [relay EXCEPT ![r].state = "refused"] \in [Relays -> RelayRecords]
      BY RelayUpdate
    <3> QED BY <1>4, <3>1 DEF PleaseConnect
  <2>2. inner' \in InnerRecords
    BY <1>4 DEF PleaseConnect, InnerRecords
  <2> QED BY <1>4, <2>1, <2>2 DEF PleaseConnect
<1>5. CASE MakeRelay
  <2>1. innerConfig.kind \in Kinds /\ innerConfig.private \in BOOLEAN
    OBVIOUS
  <2> QED BY <1>5, <2>1, InnerUpdate DEF MakeRelay, RelayRecords, InnerRecords
<1>6. CASE PostRelay
  <2>1. relay' \in [Relays -> RelayRecords]
    <3>1. [relay EXCEPT ![inner.relay].state = "posted"] \in [Relays -> RelayRecords]
      BY RelayUpdate
    <3> QED BY <1>6, <3>1 DEF PostRelay
  <2>2. inner' \in InnerRecords
    BY <1>6 DEF PostRelay, InnerRecords
  <2> QED BY <1>6, <2>1, <2>2 DEF PostRelay
<1> QED BY <1>1, <1>2, <1>3, <1>4, <1>5, <1>6 DEF Inner

\* The steps of the thread of a server.
LEMMA ServerTypes ==
  ASSUME TypeOK, NEW g \in Servers, Server(g) PROVE TypeOK'
<1> USE DEF TypeOK, ServerOnly, mainVars
<1>1. CASE CreateServer(g)
  BY <1>1 DEF CreateServer
<1>2. CASE Bind(g)
  BY <1>2 DEF Bind
<1>3. CASE Exec(g)
  BY <1>3 DEF Exec
<1>4. ASSUME NEW r \in Relays, RegisterRelay(g, r) PROVE TypeOK'
  BY <1>4, RelayUpdate DEF RegisterRelay
<1>5. ASSUME NEW r \in Relays, ServeRelay(g, r) PROVE TypeOK'
  BY <1>5 DEF ServeRelay
<1>6. CASE ServeDirect(g)
  BY <1>6 DEF ServeDirect
<1>7. CASE EndLoop(g)
  BY <1>7 DEF EndLoop
<1> QED BY <1>1, <1>2, <1>3, <1>4, <1>5, <1>6, <1>7 DEF Server

-----------------------------------------------------------------------------
(* The event thread, the changes and the servers.                          *)

\* Records of the event thread after a step.
LEMMA MainFields ==
  ASSUME TypeOK, NEW s, NEW c
  PROVE  /\ [main EXCEPT !.step = s].step = s
         /\ [main EXCEPT !.step = s].exits = main.exits
         /\ [main EXCEPT !.step = s, !.next = c].step = s
         /\ [main EXCEPT !.step = s, !.next = c].exits = main.exits
         /\ [main EXCEPT !.step = s, !.exits = TRUE].step = s
         /\ [main EXCEPT !.step = s, !.exits = TRUE].exits = TRUE
BY DEF TypeOK, MainRecords

\* What the steps of the event thread do to the thread's own state.
LEMMA MainSteps ==
  ASSUME TypeOK, Steps, Main
  PROVE  Steps'
<1> USE DEF Steps
<1>1. CASE Connect
  BY <1>1, MainFields DEF Connect, TypeOK
<1>2. CASE HandleEvent
  BY <1>2, MainFields DEF HandleEvent, Idle
<1>3. CASE Exit
  BY <1>3, MainFields DEF Exit, Idle
<1>4. CASE Stop
  BY <1>4, MainFields DEF Stop
<1>5. CASE Join
  BY <1>5, MainFields DEF Join
<1>6. CASE SetConfig
  BY <1>6, MainFields DEF SetConfig
<1>7. CASE TornConfig
  BY <1>7 DEF TornConfig, mainVars
<1>8. CASE End
  BY <1>8 DEF End, mainVars
<1> QED BY <1>1, <1>2, <1>3, <1>4, <1>5, <1>6, <1>7, <1>8 DEF Main

\* An event is taken from the queue, or a step of the handling is made.
LEMMA MainCounted ==
  ASSUME TypeOK, Steps, Counted, Main
  PROVE  Counted'
<1>0. /\ Len(events) \in Nat /\ applied \in Nat /\ accepted \in Nat /\ made \in Nat
      /\ accepted <= MaxChanges
      /\ made <= applied
      /\ applied + Len(events) + (IF Pending THEN 1 ELSE 0) = accepted + 1
  BY DEF TypeOK, Counted
<1>1. CASE Connect
  <2>1. Pending /\ ~Pending'
    BY <1>1, MainFields DEF Connect, Pending
  <2>2. /\ applied' = applied + 1
        /\ made' \in {made, made + 1}
        /\ UNCHANGED <<events, accepted>>
    BY <1>1 DEF Connect
  <2> QED BY <1>0, <2>1, <2>2 DEF Counted
<1>2. CASE HandleEvent
  <2>1. ~Pending /\ Pending'
    BY <1>2, MainFields DEF HandleEvent, Idle, Pending, Steps
  <2>2. Len(events') = Len(events) - 1
    BY <1>2 DEF HandleEvent, TypeOK
  <2>3. UNCHANGED <<applied, accepted, made>>
    BY <1>2 DEF HandleEvent, Idle
  <2> QED BY <1>0, <2>1, <2>2, <2>3 DEF Counted
<1>3. CASE Exit
  <2>1. ~Pending /\ ~Pending'
    BY <1>3, MainFields DEF Exit, Idle, Pending, Steps
  <2>2. UNCHANGED <<events, applied, accepted, made>>
    BY <1>3 DEF Exit, Idle
  <2> QED BY <1>0, <2>1, <2>2 DEF Counted
<1>4. CASE Stop \/ Join \/ SetConfig \/ TornConfig \/ End
  <2>1. Pending' <=> Pending
    <3>1. CASE Stop
      BY <3>1, MainFields DEF Stop, Pending
    <3>2. CASE Join
      BY <3>2, MainFields DEF Join, Pending
    <3>3. CASE SetConfig
      BY <3>3, MainFields DEF SetConfig, Pending
    <3>4. CASE TornConfig \/ End
      BY <3>4 DEF TornConfig, End, mainVars, Pending
    <3> QED BY <1>4, <3>1, <3>2, <3>3, <3>4
  <2>2. UNCHANGED <<events, applied, accepted, made>>
    BY <1>4 DEF Stop, Join, SetConfig, TornConfig, End, mainVars
  <2> QED BY <1>0, <2>1, <2>2 DEF Counted
<1> QED BY <1>1, <1>2, <1>3, <1>4 DEF Main

\* Connect makes the next server, which nobody knows yet; Join forgets one that
\* has ended.
LEMMA MainServers ==
  ASSUME TypeOK, TypeOK', Steps, Made, OneServer, Agree, Main
  PROVE  /\ Made' /\ OneServer' /\ Agree'
<1> USE DEF Made, OneServer, Agree
<1>1. CASE Connect
  <2>1. CASE made' = made
    BY <1>1, <2>1 DEF Connect, TypeOK, innerVars
  <2>2. CASE made' # made
    <3>1. /\ server = NoServer /\ made' = made + 1 /\ server' = made'
          /\ thread' = [thread EXCEPT ![made'] = "start"]
          /\ using' = [using EXCEPT ![made'] = config]
          /\ UNCHANGED <<config, innerConfig, loop, unchecked>>
      BY <1>1, <2>2 DEF Connect, innerVars
    <3>2. made' \in Servers /\ made \in Nat
      BY <2>2, <3>1 DEF TypeOK
    <3>3. thread'[made'] = "start" /\ using'[made'] = config
      BY <3>1, <3>2 DEF TypeOK
    <3>4. \A g \in Servers : g # made' => thread'[g] = thread[g]
      BY <3>1 DEF TypeOK
    <3> QED BY <3>1, <3>2, <3>3, <3>4
  <2> QED BY <2>1, <2>2
<1>2. CASE Join
  BY <1>2 DEF Join, TypeOK, innerVars
<1>3. CASE SetConfig
  BY <1>3 DEF SetConfig, Steps, serverVars
<1>4. CASE HandleEvent \/ Exit \/ Stop \/ TornConfig \/ End
  BY <1>4 DEF HandleEvent, Exit, Idle, Stop, TornConfig, End, mainVars, innerVars,
              serverVars
<1> QED BY <1>1, <1>2, <1>3, <1>4 DEF Main

\* The inner thread accepts a change, and touches nothing else of these.
LEMMA InnerKeeps ==
  ASSUME TypeOK, Steps, Counted, Made, OneServer, Agree, Inner
  PROVE  Steps' /\ Counted' /\ Made' /\ OneServer' /\ Agree'
<1> USE DEF InnerOnly, serverVars
<1>1. /\ UNCHANGED <<main, config, server, made, applied, thread, loop, using, unchecked>>
      /\ innerConfig' \in {innerConfig, config}
  BY DEF Inner, CreateHandler, CreateChecker, PleaseSetConfig, PleaseConnect, MakeRelay,
         PostRelay, innerVars
<1>2. Counted'
  <2>1. CASE UNCHANGED <<events, accepted>>
    BY <1>1, <2>1 DEF Counted, Pending
  <2>2. ASSUME NEW c \in Configs, PleaseSetConfig(c) PROVE Counted'
    <3>1. /\ Len(events) \in Nat /\ applied \in Nat /\ accepted \in Nat
          /\ MaxChanges \in Nat
      BY DEF TypeOK
    <3>2. /\ accepted < MaxChanges /\ accepted' = accepted + 1
          /\ events' = Append(events, c)
      BY <2>2 DEF PleaseSetConfig
    <3>3. Len(events') = Len(events) + 1
      BY <3>2 DEF TypeOK
    <3>4. Pending' <=> Pending
      BY <1>1 DEF Pending
    <3>5. applied + Len(events') + (IF Pending THEN 1 ELSE 0) = accepted' + 1
      BY <3>1, <3>2, <3>3 DEF Counted
    <3> QED BY <1>1, <3>1, <3>2, <3>4, <3>5 DEF Counted
  <2> QED BY <2>1, <2>2 DEF Inner, CreateHandler, CreateChecker, PleaseConnect, MakeRelay,
                            PostRelay
<1>3. Steps' /\ Made' /\ OneServer'
  BY <1>1 DEF Steps, Made, OneServer
<1>4. Agree'
  BY <1>1 DEF Agree
<1> QED BY <1>2, <1>3, <1>4

\* A thread that does a step is the one of the server.
LEMMA ServerIsServer ==
  ASSUME TypeOK, OneServer, NEW g \in Servers, Server(g)
  PROVE  g = server
BY DEF OneServer, Server, CreateServer, Bind, Exec, RegisterRelay, ServeRelay, ServeDirect,
       EndLoop

LEMMA ServerKeeps ==
  ASSUME TypeOK, Steps, Counted, Made, OneServer, Agree, NEW g \in Servers, Server(g)
  PROVE  Steps' /\ Counted' /\ Made' /\ OneServer' /\ Agree'
<1>1. /\ UNCHANGED <<main, config, server, made, events, applied, accepted, innerConfig, using>>
      /\ \A d \in Servers : d # g => thread'[d] = thread[d] /\ loop'[d] = loop[d]
      /\ thread'[g] # "none"
      /\ unchecked' \in {unchecked, unchecked \cup {g}}
  BY DEF TypeOK, Server, CreateServer, Bind, Exec, RegisterRelay, ServeRelay, ServeDirect,
         EndLoop, ServerOnly, mainVars
<1>2. g = server /\ thread[g] # "none"
  BY ServerIsServer DEF Made
<1>3. Steps' /\ Counted' /\ Agree'
  BY <1>1 DEF Steps, Counted, Pending, Agree
<1>4. OneServer'
  BY <1>1, <1>2 DEF OneServer
<1>5. Made'
  <2>1. \A d \in Servers : d > made => thread'[d] = "none" /\ d \notin unchecked'
    BY <1>1, <1>2 DEF Made
  <2> QED BY <1>1, <1>2, <2>1 DEF Made
<1> QED BY <1>3, <1>4, <1>5

-----------------------------------------------------------------------------
(* Relays and private sites.                                               *)

\* A server's thread does not start again, and its configuration stays.
Later ==
  \A g \in Servers : thread[g] # "none" =>
    /\ thread'[g] # "none"
    /\ thread[g] = "ended" => thread'[g] = "ended"
    /\ using'[g] = using[g]

LEMMA MainLater ==
  ASSUME TypeOK, Made, Main
  PROVE  Later
<1>1. CASE Connect
  <2>1. CASE made' = made
    BY <1>1, <2>1 DEF Connect, TypeOK, Later
  <2>2. CASE made' # made
    <3>1. /\ made' = made + 1
          /\ thread' = [thread EXCEPT ![made'] = "start"]
          /\ using' = [using EXCEPT ![made'] = config]
      BY <1>1, <2>2 DEF Connect
    <3>2. \A g \in Servers : thread[g] # "none" => g # made'
      BY <3>1 DEF Made, TypeOK
    <3> QED BY <3>1, <3>2 DEF TypeOK, Later
  <2> QED BY <2>1, <2>2
<1>2. CASE ~Connect
  <2>1. UNCHANGED <<thread, using>>
    BY <1>2 DEF Main, HandleEvent, Exit, Idle, Stop, Join, SetConfig, TornConfig, End, serverVars
  <2> QED BY <2>1 DEF Later
<1> QED BY <1>1, <1>2

LEMMA ServerLater ==
  ASSUME TypeOK, NEW g \in Servers, Server(g)
  PROVE  Later
BY DEF TypeOK, Later, Server, CreateServer, Bind, Exec, RegisterRelay, ServeRelay, ServeDirect,
       EndLoop, ServerOnly

\* Marks stay right while the relays and the inner thread stay as they are.
LEMMA KeepMarked ==
  ASSUME TypeOK, Marked, Later, UNCHANGED <<inner, relay>>
  PROVE  Marked'
BY DEF Marked, OnServer, Later

\* The inner thread finds the loop of the server, and marks the relay as the
\* server is configured, or as one that has been replaced in the meantime.
LEMMA InnerMarked ==
  ASSUME TypeOK, Made, OneServer, Agree, Marked, Inner
  PROVE  Marked'
<1> USE DEF InnerOnly, serverVars
<1>1. UNCHANGED <<thread, loop, using>>
  BY DEF Inner, CreateHandler, CreateChecker, PleaseSetConfig, PleaseConnect, MakeRelay, PostRelay
<1>2. CASE CreateHandler \/ CreateChecker
  <2>1. inner'.step \in {"create", "loop", "offline"} /\ UNCHANGED relay
    BY <1>2 DEF CreateHandler, CreateChecker, TypeOK, InnerRecords
  <2> QED BY <1>1, <2>1 DEF Marked, OnServer
<1>3. ASSUME NEW c \in Configs, PleaseSetConfig(c) PROVE Marked'
  BY <1>1, <1>3 DEF PleaseSetConfig, innerVars, Marked, OnServer
<1>4. ASSUME NEW r \in Relays, PleaseConnect(r) PROVE Marked'
  <2>1. CASE UNCHANGED inner
    <3>1. relay' = [relay EXCEPT ![r].state = "refused"] /\ inner.step = "loop"
      BY <1>4, <2>1 DEF PleaseConnect, TypeOK, InnerRecords
    <3>2. /\ relay'[r].state = "refused"
          /\ \A q \in Relays : q # r => relay'[q] = relay[q]
      BY <3>1 DEF TypeOK, RelayRecords
    <3> QED BY <1>1, <2>1, <3>1, <3>2 DEF Marked, OnServer
  <2>2. CASE ~UNCHANGED inner
    <3>1. PICK g \in Servers : /\ loop[g] \in {"made", "set"}
                               /\ inner' = [step |-> "make", relay |-> r, on |-> g]
      BY <1>4, <2>2 DEF PleaseConnect
    <3>2. g = server /\ thread[g] # "none"
      BY <3>1 DEF OneServer, Made
    <3>3. UNCHANGED relay
      BY <1>4, <2>2 DEF PleaseConnect
    <3> QED BY <1>1, <3>1, <3>2, <3>3 DEF Marked, OnServer
  <2> QED BY <2>1, <2>2
<1>5. CASE MakeRelay
  <2> DEFINE r == inner.relay
             m == [on |-> inner.on, authenticated |-> ~innerConfig.private,
                   kind |-> innerConfig.kind, state |-> "made"]
  <2>1. r \in Relays /\ OnServer(inner.on)
    BY <1>5 DEF MakeRelay, Marked
  <2>2. /\ relay' = [relay EXCEPT ![r] = m]
        /\ inner' = [inner EXCEPT !.step = "post"]
    BY <1>5 DEF MakeRelay
  <2>3. /\ relay'[r] = m
        /\ \A q \in Relays : q # r => relay'[q] = relay[q]
    BY <2>1, <2>2 DEF TypeOK
  <2>4. inner'.step = "post" /\ inner'.relay = r /\ inner'.on = inner.on
    BY <2>2 DEF TypeOK, InnerRecords
  <2>5. thread[inner.on] # "ended" => m.kind = using[inner.on].kind
                                    /\ m.authenticated = ~using[inner.on].private
    BY <2>1 DEF OneServer, OnServer, Agree
  <2> QED BY <1>1, <2>1, <2>3, <2>4, <2>5 DEF Marked, OnServer
<1>6. CASE PostRelay
  <2> DEFINE r == inner.relay
  <2>1. inner'.step = "loop"
    BY <1>6 DEF PostRelay
  <2>2. r \in Relays /\ relay[r].state \in {"made", "posted", "open"}
    BY <1>6 DEF PostRelay, Marked
  <2>3. relay' = relay \/ relay' = [relay EXCEPT ![r].state = "posted"]
    BY <1>6 DEF PostRelay
  <2>4. \A q \in Relays :
          /\ relay'[q].on = relay[q].on
          /\ relay'[q].kind = relay[q].kind
          /\ relay'[q].authenticated = relay[q].authenticated
          /\ q # r => relay'[q].state = relay[q].state
    <3>1. CASE relay' = relay
      BY <3>1
    <3>2. CASE relay' = [relay EXCEPT ![r].state = "posted"]
      BY <2>2, <3>2 DEF TypeOK, RelayRecords
    <3> QED BY <2>3, <3>1, <3>2
  <2> QED BY <1>1, <2>1, <2>2, <2>4 DEF Marked, OnServer
<1> QED BY <1>2, <1>3, <1>4, <1>5, <1>6 DEF Inner

\* A server registers a relay that was posted to it.
LEMMA ServerMarked ==
  ASSUME TypeOK, Marked, NEW g \in Servers, Server(g)
  PROVE  Marked'
<1>1. CASE \E r \in Relays : RegisterRelay(g, r)
  <2>1. PICK r \in Relays : RegisterRelay(g, r)
    BY <1>1
  <2>2. \A q \in Relays :
          /\ relay'[q].on = relay[q].on
          /\ relay'[q].kind = relay[q].kind
          /\ relay'[q].authenticated = relay[q].authenticated
          /\ q # r => relay'[q].state = relay[q].state
          /\ q = r => relay[q].state = "posted" /\ relay'[q].state = "open"
    BY <2>1 DEF RegisterRelay, TypeOK, RelayRecords
  <2>3. UNCHANGED <<inner, thread, using>>
    BY <2>1 DEF RegisterRelay, ServerOnly
  <2> QED BY <2>2, <2>3 DEF Marked, OnServer
<1>2. CASE ~\E r \in Relays : RegisterRelay(g, r)
  <2>1. UNCHANGED <<inner, relay>>
    BY <1>2 DEF Server, CreateServer, Bind, Exec, ServeRelay, ServeDirect, EndLoop, ServerOnly
  <2> QED BY <2>1, ServerLater, KeepMarked
<1> QED BY <1>1, <1>2

LEMMA MainMarked ==
  ASSUME TypeOK, Made, Marked, Main
  PROVE  Marked'
<1>1. UNCHANGED <<inner, relay>>
  BY DEF Main, Connect, HandleEvent, Exit, Idle, Stop, Join, SetConfig, TornConfig, End, innerVars
<1> QED BY <1>1, MainLater, KeepMarked

\* A new server has served nobody; an old one keeps its configuration.
LEMMA MainGuarded ==
  ASSUME TypeOK, Made, PrivateGuarded, Main
  PROVE  PrivateGuarded'
<1>1. UNCHANGED unchecked
  BY DEF Main, Connect, HandleEvent, Exit, Idle, Stop, Join, SetConfig, TornConfig, End
<1>2. CASE made' = made + 1 /\ Connect
  <2>1. made' \notin unchecked
    BY <1>2 DEF Made, TypeOK
  <2>2. /\ checks' \in {checks, checks \cup {made'}}
        /\ \A g \in Servers : g # made' => using'[g] = using[g]
    BY <1>2 DEF Connect, TypeOK, serverVars
  <2>3. unchecked \subseteq Servers
    BY DEF TypeOK
  <2> QED BY <1>1, <2>1, <2>2, <2>3 DEF PrivateGuarded
<1>3. CASE ~(made' = made + 1 /\ Connect)
  <2>1. UNCHANGED <<checks, using>>
    BY <1>3 DEF Main, Connect, HandleEvent, Exit, Idle, Stop, Join, SetConfig, TornConfig, End,
                serverVars
  <2> QED BY <1>1, <2>1 DEF PrivateGuarded
<1> QED BY <1>2, <1>3

\* A relay was marked as its server is configured.
LEMMA ServerGuarded ==
  ASSUME TypeOK, Marked, PrivateGuarded, NEW g \in Servers, Server(g)
  PROVE  PrivateGuarded'
<1>1. UNCHANGED <<checks, using>>
  BY DEF Server, CreateServer, Bind, Exec, RegisterRelay, ServeRelay, ServeDirect, EndLoop,
         ServerOnly
<1>2. ASSUME NEW r \in Relays, ServeRelay(g, r) PROVE PrivateGuarded'
  <2>1. /\ relay[r].on = g /\ relay[r].state = "open" /\ thread[g] = "run"
        /\ relay[r].kind = "external" \/ g \notin checks \/ relay[r].authenticated
        /\ unchecked' = unchecked \cup {g}
    BY <1>2 DEF ServeRelay, Unasked
  <2>2. relay[r].kind = using[g].kind /\ relay[r].authenticated = ~using[g].private
    BY <2>1 DEF Marked
  <2> QED BY <1>1, <2>1, <2>2 DEF PrivateGuarded
<1>3. CASE ServeDirect(g)
  BY <1>1, <1>3 DEF ServeDirect, Unasked, PrivateGuarded
<1>4. CASE UNCHANGED unchecked
  BY <1>1, <1>4 DEF PrivateGuarded
<1> QED BY <1>2, <1>3, <1>4 DEF Server, CreateServer, Bind, Exec, RegisterRelay, EndLoop

-----------------------------------------------------------------------------
(* The theorems.                                                           *)

LEMMA InitInv == Init => IInv
<1> SUFFICES ASSUME Init PROVE IInv
  OBVIOUS
<1>1. TypeOK
  BY InitTypeOK
<1>2. Steps /\ Made /\ OneServer /\ Agree /\ PrivateGuarded
  BY DEF Init, Steps, Made, OneServer, Agree, PrivateGuarded
<1>3. Counted
  BY DEF Init, Counted, Pending
<1>4. Marked
  BY DEF Init, Marked, NoRelay
<1> QED BY <1>1, <1>2, <1>3, <1>4 DEF IInv

LEMMA StepInv == IInv /\ [Next]_vars => IInv'
<1> SUFFICES ASSUME IInv, [Next]_vars PROVE IInv'
  OBVIOUS
<1> USE DEF IInv
<1>1. CASE Main
  <2>1. TypeOK'
    BY <1>1, MainTypes
  <2> QED BY <1>1, <2>1, MainSteps, MainCounted, MainServers, MainMarked, MainGuarded
<1>2. CASE Inner
  <2>1. PrivateGuarded'
    BY <1>2 DEF Inner, CreateHandler, CreateChecker, PleaseSetConfig, PleaseConnect, MakeRelay,
                PostRelay, InnerOnly, serverVars, PrivateGuarded
  <2> QED BY <1>2, <2>1, InnerTypes, InnerKeeps, InnerMarked
<1>3. ASSUME NEW g \in Servers, Server(g) PROVE IInv'
  BY <1>3, ServerTypes, ServerKeeps, ServerMarked, ServerGuarded
<1>4. CASE UNCHANGED vars
  BY <1>4 DEF vars, mainVars, innerVars, serverVars, TypeOK, Steps, Counted, Pending, Made,
              OneServer, Agree, Marked, OnServer, PrivateGuarded
<1> QED BY <1>1, <1>2, <1>3, <1>4 DEF Next

\* The inductive invariant holds of every reachable state.
THEOREM Invariance == Spec => []IInv
BY InitInv, StepInv, PTL DEF Spec

\* Every variable of the device's threads keeps its type; in particular no more
\* servers are made than changes were accepted, and one.
THEOREM TypeCorrect == Spec => []TypeOK
BY Invariance, PTL DEF IInv

\* disConnect and connect leave one web server at a time: the thread of every
\* other has ended and its loop is gone.
THEOREM OneServerAtATime == Spec => []OneServer
BY Invariance, PTL DEF IInv

\* When no event is handled, the controller, the inner handler and the web
\* server have the same configuration.
THEOREM ConfigurationsAgree == Spec => []ConfigAgrees
<1>1. IInv => ConfigAgrees
  BY DEF IInv, Agree, ConfigAgrees
<1> QED BY Invariance, <1>1, PTL

\* A web server with an auth checker serves a private site of the device to
\* nobody without asking, over a relay or directly, whatever configuration the
\* relay was made under.
THEOREM PrivateSitesAreGuarded == Spec => []PrivateGuarded
BY Invariance, PTL DEF IInv
=============================================================================
