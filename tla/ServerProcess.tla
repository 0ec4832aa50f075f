--------------------------- MODULE ServerProcess ---------------------------
(***************************************************************************)
(* The process of the proxy: main, which builds the server, starts its     *)
(* three loops, joins them one after the other and deletes everything;     *)
(* the threads of the loops; the redis thread, which listens for commands  *)
(* and looks at stop_ only between two messages; and the signals, which    *)
(* are handled on whatever thread they interrupt.  SIGQUIT stops the       *)
(* loops, SIGHUP reads the configuration again, and starts the redis       *)
(* thread again, which is how main started it in the first place.          *)
(*                                                                         *)
(* Of the external library the callers rely on: Stop ends a loop that      *)
(* runs, and may be forgotten by one that does not run yet; Start of a     *)
(* thread that was started is ignored or starts one more.  An access to    *)
(* what was deleted, or to a string while it is assigned, may end the      *)
(* process.                                                                *)
(***************************************************************************)
EXTENDS Naturals

CONSTANTS MaxSignals,    \* bound: signals
          MaxListeners   \* bound: starts of the redis thread that have an effect

ASSUME ServerProcessAssumption ==
         MaxSignals \in Nat /\ MaxListeners \in Nat \ {0}

Loops == {"http", "inner", "websocket"}
Listeners == 1..MaxListeners

VARIABLES
  process,   \* up, ended with an exit code, or dead
  main,      \* the step of main
  code,      \* its return code: 1 is EXIT_FAILURE
  loop,      \* the thread of each server
  result,    \* what it returned
  told,      \* loops that will end: Stop was called and not forgotten
  objects,   \* what HttpServerHost owns and has not deleted
  listener,  \* the redis threads
  stop,      \* RedisSub::stop_
  signals,   \* signals so far
  \* history
  failed,    \* a server could not bind or listen, or the directory is not there
  quit       \* SIGQUIT came when every loop had come up or ended

mainVars == <<process, main, code>>
loopVars == <<loop, result>>
vars == <<mainVars, loopVars, told, objects, listener, stop, signals, failed, quit>>

Objects == Loops \cup {"websocketHandler", "innerHandler", "httpHandler", "sub"}

TypeOK ==
  /\ process \in {"up", "ended", "dead"}
  /\ main \in {"boot", "config", "chdir", "start", "http", "inner", "websocket",
               "servers", "stuck", "handlers", "redis", "rest", "end"}
  /\ code \in {0, 1}
  /\ loop \in [Loops -> {"new", "bind", "run", "stuck", "end"}]
  /\ result \in [Loops -> {0, 1}]
  /\ told \in SUBSET Loops
  /\ objects \in SUBSET Objects
  /\ listener \in [Listeners -> {"none", "connect", "wait", "handle", "stuck", "end"}]
  /\ stop \in BOOLEAN
  /\ signals \in 0..MaxSignals
  /\ failed \in BOOLEAN
  /\ quit \in BOOLEAN

\* From the registration of the signals on.
Init ==
  /\ process = "up"
  /\ main = "boot"
  /\ code = 1
  /\ loop = [x \in Loops |-> "new"]
  /\ result = [x \in Loops |-> 0]
  /\ told = {}
  /\ objects = {}
  /\ listener = [l \in Listeners |-> "none"]
  /\ stop = FALSE
  /\ signals = 0
  /\ failed = FALSE
  /\ quit = FALSE

Started == {l \in Listeners : listener[l] # "none"}

-----------------------------------------------------------------------------
(* main.                                                                   *)

At(step, next) == process = "up" /\ main = step /\ main' = next

\* The constructor makes the handlers, the servers and the threads.
Construct ==
  /\ At("boot", "config")
  /\ objects' = Objects
  /\ UNCHANGED <<process, code, loopVars, told, listener, stop, signals, failed, quit>>

\* setStorageConfig: the redis thread is started with the configuration; the
\* second time that is ignored, or one more listens.
SetStorageConfig ==
  \/ /\ \E l \in Listeners \ Started :
          /\ \A k \in Listeners : k < l => k \in Started
          /\ listener' = [listener EXCEPT ![l] = "connect"]
  \/ Started # {} /\ UNCHANGED listener

SyncConfig ==
  /\ At("config", "chdir")
  /\ SetStorageConfig
  /\ UNCHANGED <<process, code, loopVars, told, objects, stop, signals, failed, quit>>

\* Without its directory the server is deleted at once.
ChangeDirectory ==
  /\ \/ At("chdir", "start") /\ UNCHANGED failed
     \/ At("chdir", "servers") /\ failed' = TRUE
  /\ UNCHANGED <<process, code, loopVars, told, objects, listener, stop, signals, quit>>

StartThreads ==
  /\ At("start", "http")
  /\ loop' = [x \in Loops |-> "bind"]
  /\ code' = 0
  /\ UNCHANGED <<process, result, told, objects, listener, stop, signals, failed, quit>>

\* Mutant of Joined: results are added.
JoinedSum(x) == code + result[x]

\* JoinAndGet and |= of the result.
Joined(x) == IF result[x] = 1 THEN 1 ELSE code

Join(x, next) ==
  /\ At(x, next)
  /\ loop[x] = "end"
  /\ code' = Joined(x)
  /\ UNCHANGED <<process, loopVars, told, objects, listener, stop, signals, failed, quit>>

\* The destructor: the servers, with the connections of theirs.  Where loops have
\* run, the deletion of a device's connection may join a relay that missed its
\* stop (see RelayLoop), and does not come back.
DeleteServers ==
  /\ \/ At("servers", "handlers") /\ objects' = objects \ Loops
     \/ /\ At("servers", "stuck")
        /\ loop["inner"] = "end"
        /\ objects' = objects \ {"http"}
  /\ UNCHANGED <<process, code, loopVars, told, listener, stop, signals, failed, quit>>

\* The websocket handler, and the beginning of the inner handler's destructor.
StopRedis ==
  /\ At("handlers", "redis")
  /\ objects' = objects \ {"websocketHandler"}
  /\ stop' = TRUE
  /\ UNCHANGED <<process, code, loopVars, told, listener, signals, failed, quit>>

\* Mutant of RedisJoined: it is stopped and not joined.
RedisJoinedNot == TRUE

\* Join waits for one thread, whichever it is when several were started.
RedisJoined == \E l \in Started : listener[l] = "end"

JoinRedis ==
  /\ At("redis", "rest")
  /\ RedisJoined
  /\ objects' = objects \ {"sub", "innerHandler"}
  /\ UNCHANGED <<process, code, loopVars, told, listener, stop, signals, failed, quit>>

DeleteRest ==
  /\ At("rest", "end")
  /\ objects' = {}
  /\ process' = "ended"
  /\ UNCHANGED <<code, loopVars, told, listener, stop, signals, failed, quit>>

MainStep ==
  \/ Construct \/ SyncConfig \/ ChangeDirectory \/ StartThreads
  \/ Join("http", "inner") \/ Join("inner", "websocket")
  \/ Join("websocket", "servers")
  \/ DeleteServers \/ StopRedis \/ JoinRedis \/ DeleteRest

-----------------------------------------------------------------------------
(* The threads of the servers.                                             *)

\* A server that cannot bind or listen returns; the others serve on.
ExecFails(x) ==
  /\ process = "up"
  /\ loop[x] = "bind"
  /\ loop' = [loop EXCEPT ![x] = "end"]
  /\ result' = [result EXCEPT ![x] = 1]
  /\ failed' = TRUE
  /\ UNCHANGED <<mainVars, told, objects, listener, stop, signals, quit>>

Exec(x) ==
  /\ process = "up"
  /\ loop[x] = "bind"
  /\ loop' = [loop EXCEPT ![x] = "run"]
  /\ UNCHANGED <<mainVars, result, told, objects, listener, stop, signals, failed, quit>>

LoopEnds(x) ==
  /\ process = "up"
  /\ loop[x] = "run"
  /\ x \in told
  /\ loop' = [loop EXCEPT ![x] = "end"]
  /\ UNCHANGED <<mainVars, result, told, objects, listener, stop, signals, failed, quit>>

\* A handler of the loop that never returns: redis does not answer it, which it
\* waits for without a timeout, or it joins a relay that missed its stop.
Hangs(x) ==
  /\ process = "up"
  /\ loop[x] = "run"
  /\ loop' = [loop EXCEPT ![x] = "stuck"]
  /\ UNCHANGED <<mainVars, result, told, objects, listener, stop, signals, failed, quit>>

-----------------------------------------------------------------------------
(* RedisSub::listen.                                                       *)

Listener(l, from, to) ==
  /\ process = "up"
  /\ listener[l] = from
  /\ listener' = [listener EXCEPT ![l] = to]
  /\ UNCHANGED <<mainVars, loopVars, told, objects, stop, signals, failed, quit>>

\* The loop's condition.
Again(l) == IF stop THEN "end" ELSE "wait"

\* Subscribing, and the publishing of an answer, wait for a reply of redis, which
\* may never come.
Subscribe(l)  == \E to \in {Again(l), "end", "stuck"} : Listener(l, "connect", to)
GetMessage(l) == Listener(l, "wait", "handle")
GetError(l)   == Listener(l, "wait", "end")
Handled(l)    == \E to \in {Again(l), "stuck"} : Listener(l, "handle", to)

-----------------------------------------------------------------------------
(* The signals, and what they and the redis thread can run into.           *)

Signal == process = "up" /\ signals < MaxSignals /\ signals' = signals + 1

\* Mutant of StopServers: the websocket server is forgotten.
StopServersTwo(kept) ==
  told' = told \cup ({x \in Loops \ {"websocket"} : loop[x] = "run"} \cup kept)

\* Stop of each server: one that does not run yet may forget it.
StopServers(kept) ==
  told' = told \cup ({x \in Loops : loop[x] = "run"} \cup kept)

SigQuit ==
  /\ Signal
  /\ main # "boot"
  /\ \E kept \in SUBSET {x \in Loops : loop[x] \in {"new", "bind"}} : StopServers(kept)
  /\ quit' = (quit \/ \A x \in Loops : loop[x] \in {"run", "stuck", "end"})
  /\ UNCHANGED <<mainVars, loopVars, objects, listener, stop, failed>>

SigHup ==
  /\ Signal
  /\ main # "boot"
  /\ IF "innerHandler" \in objects THEN SetStorageConfig ELSE UNCHANGED listener
  /\ UNCHANGED <<mainVars, loopVars, told, objects, stop, failed, quit>>

\* The process ends where a signal finds no server yet or one that is being
\* deleted, where SIGHUP assigns the configuration while another thread reads it,
\* or where the redis thread follows the registry to a connection of a loop that
\* has ended, or uses itself after it was deleted.
BadSignal ==
  /\ Signal
  /\ \/ main = "boot"
     \/ main # "boot" /\ objects # Objects
     \/ \E l \in Listeners : listener[l] \in {"connect", "handle"}
     \/ loop["inner"] = "run"
     \/ main = "config"

BadRedis ==
  /\ process = "up"
  /\ UNCHANGED signals
  /\ \E l \in Listeners :
       \/ listener[l] = "handle" /\ loop["inner"] = "end"
       \/ listener[l] \in {"connect", "wait", "handle"} /\ "sub" \notin objects

Die ==
  /\ BadSignal \/ BadRedis
  /\ process' = "dead"
  /\ UNCHANGED <<main, code, loopVars, told, objects, listener, stop, failed, quit>>

Next ==
  \/ MainStep
  \/ \E x \in Loops : ExecFails(x) \/ Exec(x) \/ LoopEnds(x) \/ Hangs(x)
  \/ \E l \in Listeners : Subscribe(l) \/ GetMessage(l) \/ GetError(l) \/ Handled(l)
  \/ SigQuit \/ SigHup
  \/ Die

\* The threads are scheduled.  Messages and errors of redis, and signals, may
\* never come, and what waits for somebody else may be stuck.
Fairness ==
  /\ WF_vars(MainStep)
  /\ \A x \in Loops : WF_vars(ExecFails(x) \/ Exec(x)) /\ WF_vars(LoopEnds(x))
  /\ \A l \in Listeners : WF_vars(Subscribe(l)) /\ WF_vars(Handled(l))

Spec == Init /\ [][Next]_vars
FairSpec == Spec /\ Fairness

-----------------------------------------------------------------------------
(* Properties.                                                             *)

\* What a thread uses is deleted after it has ended: a server after its loop,
\* the subscription after the redis thread, unless a SIGHUP has started a second
\* one, of which only one is joined.  And a process that comes to its end tells by
\* its exit code whether everything came up: it is EXIT_FAILURE if the directory
\* was not there or any of the three servers could not bind, however long the
\* others served on, and only then.
OrderlyEnd ==
  /\ main # "boot" =>
       /\ \A x \in Loops \ objects : loop[x] \in {"new", "end"}
       /\ "sub" \notin objects => listener[1] = "end" \/ 2 \in Started
  /\ process = "ended" => (code = 1 <=> failed)

\* What keeps the process from its end once it was told to: a handler or a
\* deletion that never returns, or a redis thread that waits for redis, be it for
\* a reply or for a message before it will look at stop_.
Kept == \/ main = "stuck"
        \/ \E x \in Loops : loop[x] = "stuck"
        \/ main = "redis" /\ \E l \in Listeners : listener[l] \in {"wait", "stuck"}

\* A SIGQUIT that finds no loop on its way up ends the process, or a signal or the
\* redis thread killed it, or one of those waits keeps it.
QuitEnds == quit ~> (process # "up" \/ Kept)
=============================================================================
