------------------------- MODULE ServerProcessProofs -------------------------
(***************************************************************************)
(* Proofs about ServerProcess, for every number of signals and of starts   *)
(* of the redis thread.  The order in which main deletes rests on where it *)
(* is (Position), the exit code on the results it has joined so far        *)
(* (Verdict), and the end of the redis thread on the order of its starts   *)
(* (RedisOrder).                                                           *)
(***************************************************************************)
EXTENDS ServerProcess, TLAPS

USE ServerProcessAssumption

Before == {"boot", "config", "chdir", "start"}
After  == {"servers", "stuck", "handlers", "redis", "rest", "end"}

\* The directory was not there: no loop was ever started.
NeverStarted == \A x \in Loops : loop[x] = "new"

\* What main has made, deleted and joined where it is.
Position ==
  /\ objects = CASE main = "boot"     -> {}
                 [] main = "stuck"    -> Objects \ {"http"}
                 [] main = "handlers" -> Objects \ Loops
                 [] main = "redis"    -> {"innerHandler", "httpHandler", "sub"}
                 [] main = "rest"     -> {"httpHandler"}
                 [] main = "end"      -> {}
                 [] OTHER             -> Objects
  /\ main \in Before => NeverStarted
  /\ main = "inner" => loop["http"] = "end"
  /\ main = "websocket" => loop["http"] = "end" /\ loop["inner"] = "end"
  /\ main \in After => NeverStarted \/ \A x \in Loops : loop[x] = "end"
  /\ process = "ended" <=> main = "end"

\* The exit code tells what the joined threads returned.
Verdict ==
  /\ \A x \in Loops : result[x] = 1 => loop[x] = "end"
  /\ failed <=> (\E x \in Loops : result[x] = 1) \/ (main \in After /\ NeverStarted)
  /\ code = 1 <=> CASE main \in Before     -> TRUE
                    [] main = "http"       -> FALSE
                    [] main = "inner"      -> result["http"] = 1
                    [] main = "websocket"  -> result["http"] = 1 \/ result["inner"] = 1
                    [] OTHER               -> failed

\* The redis threads are started in order, and one has ended when their object is
\* deleted.
RedisOrder ==
  /\ \A l \in Started : \A k \in Listeners : k < l => k \in Started
  /\ main \in {"rest", "end"} => \E l \in Started : listener[l] = "end"

IInv == TypeOK /\ Position /\ Verdict /\ RedisOrder

-----------------------------------------------------------------------------

LEMMA InitInv == Init => IInv
<1> SUFFICES ASSUME Init PROVE IInv
  OBVIOUS
<1> USE DEF Init
<1>1. TypeOK
  <2>1. 0 \in 0..MaxSignals
    OBVIOUS
  <2> QED BY <2>1 DEF TypeOK
<1>2. Position
  BY DEF Position, NeverStarted, Before, After
<1>3. Verdict
  BY DEF Verdict, Before, After
<1>4. RedisOrder
  BY DEF RedisOrder, Started
<1> QED BY <1>1, <1>2, <1>3, <1>4 DEF IInv

LEMMA Implies == IInv => OrderlyEnd
<1> SUFFICES ASSUME IInv PROVE OrderlyEnd
  OBVIOUS
<1>1. ASSUME main # "boot", NEW x \in Loops \ objects PROVE loop[x] \in {"new", "end"}
  BY <1>1 DEF IInv, TypeOK, Position, Objects, Loops, Before, After, NeverStarted
<1>2. ASSUME main # "boot", "sub" \notin objects PROVE listener[1] = "end" \/ 2 \in Started
  <2>1. main \in {"rest", "end"}
    BY <1>2 DEF IInv, TypeOK, Position, Objects, Loops
  <2>2. PICK l \in Started : listener[l] = "end"
    BY <2>1 DEF IInv, RedisOrder
  <2>3. CASE l = 1
    BY <2>2, <2>3
  <2>4. CASE l # 1
    <3>1. l \in Nat /\ 1 <= l /\ l <= MaxListeners /\ 2 \in Listeners
      BY <2>2, <2>4 DEF Started, Listeners
    <3>2. l = 2 \/ 2 < l
      BY <2>4, <3>1
    <3> QED BY <2>2, <3>1, <3>2 DEF IInv, RedisOrder
  <2> QED BY <2>3, <2>4
<1>3. process = "ended" => (code = 1 <=> failed)
  BY DEF IInv, Position, Verdict, Before
<1> QED BY <1>1, <1>2, <1>3 DEF OrderlyEnd

LEMMA StorageConfig ==
  ASSUME TypeOK, RedisOrder, SetStorageConfig
  PROVE  /\ listener' \in [Listeners -> {"none", "connect", "wait", "handle", "stuck", "end"}]
         /\ \A l \in Started' : \A k \in Listeners : k < l => k \in Started'
         /\ \A l \in Started : listener'[l] = listener[l]
<1>1. CASE UNCHANGED listener
  BY <1>1 DEF TypeOK, RedisOrder, Started
<1>2. ASSUME NEW l \in Listeners \ Started,
             \A k \in Listeners : k < l => k \in Started,
             listener' = [listener EXCEPT ![l] = "connect"]
      PROVE  /\ \A m \in Started' : \A k \in Listeners : k < m => k \in Started'
             /\ \A m \in Started : listener'[m] = listener[m]
  <2>1. Started' = Started \cup {l}
    BY <1>2 DEF TypeOK, Started
  <2>2. \A m \in Started : listener'[m] = listener[m]
    BY <1>2 DEF TypeOK, Started
  <2> QED BY <1>2, <2>1, <2>2 DEF RedisOrder
<1>3. listener' \in [Listeners -> {"none", "connect", "wait", "handle", "stuck", "end"}]
  BY DEF TypeOK, SetStorageConfig
<1> QED BY <1>1, <1>2, <1>3 DEF SetStorageConfig

LEMMA MainInv == IInv /\ MainStep => IInv'
<1> SUFFICES ASSUME IInv, MainStep PROVE IInv'
  OBVIOUS
<1> USE DEF IInv, At, loopVars
<1>1. CASE Construct
  BY <1>1 DEF Construct, TypeOK, Position, Verdict, RedisOrder, NeverStarted, Started,
              Before, After
<1>2. CASE SyncConfig
  <2>1. SetStorageConfig
    BY <1>2 DEF SyncConfig
  <2> QED BY <1>2, <2>1, StorageConfig
          DEF SyncConfig, TypeOK, Position, Verdict, RedisOrder, NeverStarted, Before, After
<1>3. CASE ChangeDirectory
  <2>1. TypeOK'
    BY <1>3 DEF ChangeDirectory, TypeOK
  <2>2. Position'
    BY <1>3 DEF ChangeDirectory, Position, NeverStarted, Before, After
  <2>3. ~failed /\ code = 1 /\ NeverStarted
    BY <1>3 DEF ChangeDirectory, TypeOK, Position, Verdict, NeverStarted, Before, After
  <2>4. Verdict'
    BY <1>3, <2>3 DEF ChangeDirectory, Verdict, NeverStarted, Before, After
  <2>5. RedisOrder'
    BY <1>3 DEF ChangeDirectory, RedisOrder, Started
  <2> QED BY <2>1, <2>2, <2>4, <2>5
<1>4. CASE StartThreads
  BY <1>4 DEF StartThreads, TypeOK, Position, Verdict, RedisOrder, NeverStarted, Started,
              Before, After, Loops
<1>5. CASE Join("http", "inner")
  BY <1>5 DEF Join, Joined, TypeOK, Position, Verdict, RedisOrder, NeverStarted, Started,
              Before, After, Loops
<1>6. CASE Join("inner", "websocket")
  BY <1>6 DEF Join, Joined, TypeOK, Position, Verdict, RedisOrder, NeverStarted, Started,
              Before, After, Loops
<1>7. CASE Join("websocket", "servers")
  BY <1>7 DEF Join, Joined, TypeOK, Position, Verdict, RedisOrder, NeverStarted, Started,
              Before, After, Loops
<1>8. CASE DeleteServers
  BY <1>8 DEF DeleteServers, TypeOK, Position, Verdict, RedisOrder, NeverStarted, Started,
              Before, After
<1>9. CASE StopRedis
  BY <1>9 DEF StopRedis, TypeOK, Position, Verdict, RedisOrder, NeverStarted, Started,
              Before, After, Objects, Loops
<1>10. CASE JoinRedis
  BY <1>10 DEF JoinRedis, RedisJoined, TypeOK, Position, Verdict, RedisOrder, NeverStarted,
               Started, Before, After
<1>11. CASE DeleteRest
  BY <1>11 DEF DeleteRest, TypeOK, Position, Verdict, RedisOrder, NeverStarted, Started,
               Before, After
<1> QED BY <1>1, <1>2, <1>3, <1>4, <1>5, <1>6, <1>7, <1>8, <1>9, <1>10, <1>11 DEF MainStep

LEMMA LoopInv ==
  IInv /\ (\E x \in Loops : ExecFails(x) \/ Exec(x) \/ LoopEnds(x) \/ Hangs(x)) => IInv'
<1> SUFFICES ASSUME IInv, NEW x \in Loops, ExecFails(x) \/ Exec(x) \/ LoopEnds(x) \/ Hangs(x) PROVE IInv'
  OBVIOUS
<1> USE DEF IInv, mainVars
<1>1. main \notin Before \cup After /\ loop[x] \in {"bind", "run"}
  BY DEF ExecFails, Exec, LoopEnds, Hangs, Position, TypeOK, NeverStarted, Before, After
<1>2. UNCHANGED <<process, main, code, objects, listener, stop, signals, quit, told>>
  BY DEF ExecFails, Exec, LoopEnds, Hangs
<1>3. TypeOK'
  BY <1>2 DEF ExecFails, Exec, LoopEnds, Hangs, TypeOK
<1>4. Position'
  <2>1. \A y \in Loops : loop[y] = "end" => loop'[y] = "end"
    BY DEF ExecFails, Exec, LoopEnds, Hangs, TypeOK
  <2> QED BY <1>1, <1>2, <2>1 DEF Position, Loops, Before, After
<1>5. Verdict'
  <2>1. CASE ExecFails(x)
    <3>1. /\ loop' = [loop EXCEPT ![x] = "end"]
          /\ result' = [result EXCEPT ![x] = 1] /\ failed' = TRUE
      BY <2>1 DEF ExecFails
    <3>2. result'[x] = 1 /\ loop'[x] = "end" /\ result[x] = 0
      BY <1>1, <3>1 DEF TypeOK, Verdict
    <3>3. \A y \in Loops : y # x => result'[y] = result[y] /\ loop'[y] = loop[y]
      BY <3>1 DEF TypeOK
    <3>4. /\ main = "inner" => x # "http"
          /\ main = "websocket" => x # "http" /\ x # "inner"
      BY <1>1 DEF Position
    <3> QED BY <1>1, <1>2, <3>1, <3>2, <3>3, <3>4 DEF TypeOK, Verdict, Loops, Before, After
  <2>2. CASE ~ExecFails(x)
    BY <1>1, <1>2, <2>2 DEF Exec, LoopEnds, Hangs, TypeOK, Verdict
  <2> QED BY <2>1, <2>2
<1>6. RedisOrder'
  BY <1>2 DEF RedisOrder, Started
<1> QED BY <1>3, <1>4, <1>5, <1>6

LEMMA ListenerInv ==
  IInv /\ (\E l \in Listeners : Subscribe(l) \/ GetMessage(l) \/ GetError(l) \/ Handled(l)) => IInv'
<1> SUFFICES ASSUME IInv,
                    NEW l \in Listeners, NEW from \in {"connect", "wait", "handle"},
                    NEW to \in {"wait", "handle", "stuck", "end"}, Listener(l, from, to)
             PROVE  IInv'
  BY DEF Subscribe, GetMessage, GetError, Handled, Again
<1>1. UNCHANGED <<process, main, code, loop, result, told, objects, stop, signals, failed, quit>>
  BY DEF Listener, mainVars, loopVars
<1>2. listener[l] = from /\ listener' = [listener EXCEPT ![l] = to]
  BY DEF Listener
<1>3. TypeOK'
  BY <1>1, <1>2 DEF IInv, TypeOK
<1>4. Position' /\ Verdict'
  BY <1>1 DEF IInv, Position, Verdict, NeverStarted
<1>5. RedisOrder'
  BY <1>1, <1>2 DEF IInv, TypeOK, RedisOrder, Started
<1> QED BY <1>3, <1>4, <1>5 DEF IInv

LEMMA SignalInv == IInv /\ (SigQuit \/ SigHup \/ Die \/ UNCHANGED vars) => IInv'
<1> SUFFICES ASSUME IInv, SigQuit \/ SigHup \/ Die \/ UNCHANGED vars PROVE IInv'
  OBVIOUS
<1> USE DEF IInv, mainVars, loopVars, Signal
<1>1. CASE SigQuit
  BY <1>1 DEF SigQuit, StopServers, TypeOK, Position, Verdict, RedisOrder, NeverStarted, Started
<1>2. CASE SigHup
  <2>1. SetStorageConfig \/ UNCHANGED listener
    BY <1>2 DEF SigHup
  <2>2. UNCHANGED <<process, main, code, loop, result, told, objects, stop, failed, quit>>
    BY <1>2 DEF SigHup
  <2>3. TypeOK'
    BY <1>2, <2>1, <2>2, StorageConfig DEF SigHup, TypeOK
  <2>4. Position' /\ Verdict'
    BY <2>2 DEF Position, Verdict, NeverStarted
  <2>5. RedisOrder'
    <3>1. CASE SetStorageConfig
      <4>1. \A l \in Started : l \in Started'
        BY <3>1, StorageConfig DEF Started
      <4> QED BY <2>2, <3>1, <4>1, StorageConfig DEF RedisOrder
    <3>2. CASE UNCHANGED listener
      BY <2>2, <3>2 DEF RedisOrder, Started
    <3> QED BY <2>1, <3>1, <3>2
  <2> QED BY <2>3, <2>4, <2>5
<1>3. CASE Die
  BY <1>3 DEF Die, BadSignal, BadRedis, TypeOK, Position, Verdict, RedisOrder, NeverStarted,
              Started
<1>4. CASE UNCHANGED vars
  BY <1>4 DEF vars, TypeOK, Position, Verdict, RedisOrder, NeverStarted, Started
<1> QED BY <1>1, <1>2, <1>3, <1>4

\* The inductive invariant holds in every state of the process.
THEOREM Invariance == Spec => []IInv
<1>1. IInv /\ [Next]_vars => IInv'
  BY MainInv, LoopInv, ListenerInv, SignalInv DEF Next
<1> QED BY InitInv, <1>1, PTL DEF Spec

\* Every variable keeps its type.
THEOREM TypeCorrect == Spec => []TypeOK
BY Invariance, PTL DEF IInv

\* main deletes what a thread uses only after that thread, and its exit code tells
\* whether every server came up.
THEOREM EndIsOrderly == Spec => []OrderlyEnd
BY Invariance, Implies, PTL
=============================================================================
