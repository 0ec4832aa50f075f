------------------------------ MODULE BuildRpc ------------------------------
(***************************************************************************)
(* Packages built on request.  A page asks the front end over its socket;  *)
(* the front end makes the user's directory, opens a response queue of     *)
(* its own for the request, starts a timer and publishes a job on the      *)
(* broker's queue of the platform.  A build server takes one job at a      *)
(* time, publishes how far it is and at last a response on the response    *)
(* queue, and then acknowledges the job.  The broker gives a job that was  *)
(* not acknowledged to another server when the connection it was taken on  *)
(* ends, which happens to a server that dies and to one that is cut off:   *)
(* a build blocks the thread that would answer the broker's heartbeats.    *)
(*                                                                         *)
(* A build works in a directory it changes to, and the errors that it does *)
(* not catch there leave the server in it: the next build then looks for   *)
(* the sources in the wrong place.                                         *)
(***************************************************************************)
EXTENDS Integers, Sequences, SequencesExt

CONSTANTS Requests,     \* what the pages ask, one element per message
          Servers,      \* the build servers of one platform
          NoRequest,    \* no job at hand
          Unsplit,      \* those whose variables shlex cannot split
          MaxFailures,  \* bound: ends of connections, and restarts
          MaxInbox      \* bound: messages waiting for the front end to read them

ASSUME BuildRpcAssumption ==
         /\ NoRequest \notin Requests
         /\ Unsplit \subseteq Requests
         /\ MaxFailures \in Nat
         /\ MaxInbox \in Nat \ {0, 1}

VARIABLES
  \* the front end
  entry,      \* the request in AmqpRpc: life of its entry and its timer
  queue,      \* its response queue
  inbox,      \* the messages in it
  progress,   \* what the page's bar shows
  final,      \* the message_rabbitmq events the page got
  \* the broker
  jobs,       \* the queue of the platform
  declared,   \* it exists: a server has declared it
  \* the build servers
  server,     \* step, job and outcome
  connected,  \* the connection to the broker
  depth,      \* how many directories below its own a server works
  failures,   \* ends of connections and restarts so far
  \* history
  gone,       \* jobs published before a server had declared the queue
  uncaught    \* errors since its start that left a server in a build's directory

feVars     == <<entry, queue, progress, final>>
brokerVars == <<jobs, declared, inbox>>
buildVars  == <<server, connected, depth>>
history    == <<gone, uncaught>>
vars == <<feVars, brokerVars, buildVars, failures, history>>

Status(n)    == [type |-> "status", value |-> n]
Response(ok) == [type |-> "responce", value |-> IF ok THEN 1 ELSE 0]
Idle == [step |-> "idle", req |-> NoRequest, ok |-> FALSE]
Down == [Idle EXCEPT !.step = "down"]

TypeOK ==
  /\ entry \in [Requests -> {"new", "waiting", "deleted", "lost"}]
  /\ queue \in [Requests -> {"none", "asked", "open", "lost"}]
  /\ inbox \in [Requests -> Seq([type : {"status", "responce"}, value : 0..100])]
  /\ progress \in [Requests -> {0, 20, 70, 80, 100}]
  /\ final \in [Requests -> Seq({"body", "error"})]
  /\ jobs \in Seq(Requests)
  /\ declared \in BOOLEAN
  /\ server \in [Servers -> [step : {"down", "idle", "configure", "make", "load",
                                     "complete", "respond", "ack"},
                             req : Requests \cup {NoRequest}, ok : BOOLEAN]]
  /\ connected \in [Servers -> BOOLEAN]
  /\ depth \in [Servers -> Nat]
  /\ failures \in 0..MaxFailures
  /\ gone \in SUBSET Requests
  /\ uncaught \in [Servers -> Nat]

Init ==
  /\ entry = [r \in Requests |-> "new"]
  /\ queue = [r \in Requests |-> "none"]
  /\ inbox = [r \in Requests |-> <<>>]
  /\ progress = [r \in Requests |-> 0]
  /\ final = [r \in Requests |-> <<>>]
  /\ jobs = <<>>
  /\ declared = FALSE
  /\ server = [s \in Servers |-> Down]
  /\ connected = [s \in Servers |-> FALSE]
  /\ depth = [s \in Servers |-> 0]
  /\ failures = 0
  /\ gone = {}
  /\ uncaught = [s \in Servers |-> 0]

-----------------------------------------------------------------------------
(* The front end: one thread, one callback at a time.                      *)

\* A failure as the page is told of it: status_rabbitmq with 100, then
\* message_rabbitmq with the error.
TellError(r) ==
  /\ progress' = [progress EXCEPT ![r] = 100]
  /\ final' = [final EXCEPT ![r] = Append(@, "error")]
  /\ entry' = [entry EXCEPT ![r] = "deleted"]

\* publish_rabbitmq of a page, when mkdirp of the user's directory fails.
MkdirFails(r) ==
  /\ entry[r] = "new"
  /\ TellError(r)
  /\ UNCHANGED <<queue, brokerVars, buildVars, failures, history>>

\* When it does not: makeRequest, the timer and the entry first, then
\* setupResponseQueue.
MakeRequest(r) ==
  /\ entry[r] = "new"
  /\ entry' = [entry EXCEPT ![r] = "waiting"]
  /\ queue' = [queue EXCEPT ![r] = "asked"]
  /\ UNCHANGED <<progress, final, brokerVars, buildVars, failures, history>>

\* The broker made the queue: subscribe, then publish the job, also when the
\* timer has deleted the entry meanwhile.  A queue no server has declared drops it.
Publish(r) ==
  /\ queue[r] = "asked"
  /\ queue' = [queue EXCEPT ![r] = "open"]
  /\ IF declared THEN jobs' = Append(jobs, r) /\ UNCHANGED gone
                 ELSE gone' = gone \cup {r} /\ UNCHANGED jobs
  /\ UNCHANGED <<entry, progress, final, declared, inbox, buildVars>>
  /\ UNCHANGED <<failures, uncaught>>

\* Mutant of Timeout: the first status clears the timer.
TimeoutUnlessBuilt(r) ==
  /\ entry[r] = "waiting"
  /\ progress[r] = 0
  /\ TellError(r)
  /\ UNCHANGED <<queue, brokerVars, buildVars, failures, history>>

\* The timer: five minutes from makeRequest, however far the build is.
Timeout(r) ==
  /\ entry[r] = "waiting"
  /\ TellError(r)
  /\ UNCHANGED <<queue, brokerVars, buildVars, failures, history>>

\* Mutant of Forwards: statuses of a request that is gone are shown.
ForwardsAny(r, m) == m.type = "status"

\* The consumer drops what is not for a pending request, calls the status
\* callback, and for a response clears the timer, deletes the entry and calls
\* back, once: a redelivered job answers again.
Forwards(r, m) == m.type = "status" /\ entry[r] = "waiting"

Consume(r) ==
  LET m == Head(inbox[r])
      answered == m.type = "responce" /\ entry[r] = "waiting" IN
  /\ inbox[r] # <<>>
  /\ inbox' = [inbox EXCEPT ![r] = Tail(@)]
  /\ progress' = [progress EXCEPT ![r] = IF Forwards(r, m) THEN m.value ELSE @]
  /\ final' = [final EXCEPT ![r] = IF answered
                 THEN Append(@, IF m.value = 1 THEN "body" ELSE "error") ELSE @]
  /\ entry' = [entry EXCEPT ![r] = IF answered THEN "deleted" ELSE @]
  /\ UNCHANGED <<queue, jobs, declared, buildVars, failures, history>>

\* What the end of the front end, or of its connection, does to the exclusive
\* response queues.
LoseQueues(lost) ==
  /\ queue' = [r \in Requests |-> IF queue[r] = "open" THEN "lost"
                                  ELSE IF queue[r] = "asked" /\ r \in lost
                                       THEN "none" ELSE queue[r]]
  /\ inbox' = [r \in Requests |-> <<>>]

\* The front end is started again: it knows no request, and nobody answers the
\* page.
RestartFrontEnd ==
  LET lost == {r \in Requests : entry[r] = "waiting"} IN
  /\ failures < MaxFailures
  /\ failures' = failures + 1
  /\ entry' = [r \in Requests |-> IF r \in lost THEN "lost" ELSE entry[r]]
  /\ LoseQueues(Requests)
  /\ UNCHANGED <<progress, final, jobs, declared, buildVars, history>>

-----------------------------------------------------------------------------
(* The build servers.                                                      *)

\* BuildRpcServer(): declare the queue, prefetch one, consume.
Start(s) ==
  /\ server[s].step = "down"
  /\ server' = [server EXCEPT ![s] = Idle]
  /\ connected' = [connected EXCEPT ![s] = TRUE]
  /\ depth' = [depth EXCEPT ![s] = 0]
  /\ declared' = TRUE
  /\ uncaught' = [uncaught EXCEPT ![s] = 0]
  /\ UNCHANGED <<feVars, jobs, inbox, failures, gone>>

\* Server s goes on to step.
GoTo(s, step) == server' = [server EXCEPT ![s].step = step]

\* The messages arrive when the response queue is there.
Deliver(r, ms) ==
  IF queue[r] = "open"
  THEN /\ Len(inbox[r]) + Len(ms) <= MaxInbox
       /\ inbox' = [inbox EXCEPT ![r] = @ \o ms]
  ELSE UNCHANGED inbox

\* on_request of the next job: status 0.  (Its body is JSON, as the front end
\* publishes it; another body would raise outside of the try and end the server.)
Take(s) ==
  /\ server[s].step = "idle"
  /\ connected[s]
  /\ jobs # <<>>
  /\ server' = [server EXCEPT ![s] = [step |-> "configure", req |-> Head(jobs), ok |-> FALSE]]
  /\ Deliver(Head(jobs), <<Status(0)>>)
  /\ jobs' = Tail(jobs)
  /\ UNCHANGED <<feVars, declared, connected, depth, failures, history>>

\* An error of the build goes on to the answer.
Fail(s) == GoTo(s, "complete")

\* One that no clause catches in the build's directory goes on from there.
Escape(s) == uncaught' = [uncaught EXCEPT ![s] = @ + 1]

\* Messages to the response queue, dropped when it is gone.  Publishing on a
\* connection that is cut raises; the error is answered, which raises again,
\* and the server ends.
Send(s, ms, step) ==
  /\ IF connected[s]
     THEN GoTo(s, step) /\ Deliver(server[s].req, ms)
     ELSE server' = [server EXCEPT ![s] = Down] /\ UNCHANGED inbox
  /\ UNCHANGED <<feVars, jobs, declared, connected, failures, gone>>

\* Mutants of Restored: the directory is not restored; it is, twice.
RestoredNot(s) == UNCHANGED depth
RestoredTwice(s) == depth' = [depth EXCEPT ![s] = @ - 2]

\* os.chdir(pwd), from the build's directory.
Restored(s) == depth' = [depth EXCEPT ![s] = @ - 1]

\* build_package up to cmake.  A package that is refused, or whose directory
\* cannot be made, fails where the server is, and so does a cmake that ends with
\* an error, CalledProcessError, after which the directory is restored.  Variables
\* that cannot be split, or a cmake that cannot be started (it is not there, an
\* argument is too long or has a NUL), raise what nothing restores it for.  ../../
\* are the sources only from a directory of the server's own; one below, it has
\* nothing; two below, it may be what another build configured.
Configure(s) ==
  /\ server[s].step = "configure"
  /\ \/ /\ Fail(s)
        /\ UNCHANGED <<feVars, brokerVars, connected, depth, failures, history>>
     \/ /\ Fail(s)
        /\ depth' = [depth EXCEPT ![s] = @ + 1]
        /\ Escape(s)
        /\ UNCHANGED <<feVars, brokerVars, connected, failures, gone>>
     \/ /\ server[s].req \notin Unsplit /\ depth[s] # 1
        /\ Send(s, <<Status(20)>>, "make")
        /\ depth' = [depth EXCEPT ![s] = @ + 1]
        /\ UNCHANGED uncaught

\* make package, which below another build's directory finds nothing to make, and
\* may not be there to be started; then the name of the package is read from
\* CPackConfig.cmake.  Nothing restores the directory after an error in the
\* start of make or in the reading.
Make(s) ==
  /\ server[s].step = "make"
  /\ \/ /\ Fail(s)
        /\ Restored(s)
        /\ UNCHANGED <<feVars, brokerVars, connected, failures, history>>
     \/ /\ Fail(s)
        /\ Escape(s)
        /\ UNCHANGED <<feVars, brokerVars, connected, depth, failures, gone>>
     \/ /\ depth[s] = 1
        /\ Send(s, <<Status(70)>>, "complete")
        /\ Escape(s)
        /\ UNCHANGED depth
     \/ /\ depth[s] = 1
        /\ Send(s, <<Status(70), Status(80)>>, "load")
        /\ UNCHANGED <<depth, uncaught>>

\* config.post_install_step.
Load(s) ==
  /\ server[s].step = "load"
  /\ \/ server' = [server EXCEPT ![s].step = "complete", ![s].ok = TRUE]
     \/ Fail(s)
  /\ Restored(s)
  /\ UNCHANGED <<feVars, brokerVars, connected, failures, history>>

Complete(s) ==
  /\ server[s].step = "complete"
  /\ Send(s, <<Status(100)>>, "respond")
  /\ UNCHANGED <<depth, uncaught>>

Respond(s) ==
  /\ server[s].step = "respond"
  /\ Send(s, <<Response(server[s].ok)>>, "ack")
  /\ UNCHANGED <<depth, uncaught>>

Ack(s) ==
  /\ server[s].step = "ack"
  /\ server' = [server EXCEPT ![s] = IF connected[s] THEN Idle ELSE Down]
  /\ UNCHANGED <<feVars, brokerVars, connected, depth, failures, history>>

\* Mutant of Unacknowledged: the job was acknowledged when it was taken.
UnacknowledgedNone(s) == <<>>

\* The job the broker has to give to another server.
Unacknowledged(s) ==
  IF connected[s] /\ server[s].req # NoRequest THEN <<server[s].req>> ELSE <<>>

\* The connection of a server ends: it died, or it is cut off and goes on with
\* its build until it publishes.  An idle one ends with its connection.
Disconnect(s) ==
  /\ connected[s]
  /\ failures < MaxFailures
  /\ failures' = failures + 1
  /\ connected' = [connected EXCEPT ![s] = FALSE]
  /\ jobs' = Unacknowledged(s) \o jobs
  /\ \/ server' = [server EXCEPT ![s] = Down]
     \/ server[s].req # NoRequest /\ UNCHANGED server
  /\ UNCHANGED <<feVars, declared, inbox, depth, history>>

\* The broker is started again: its queues do not survive it, and every
\* connection ends.  A queue that is asked for is made when it is back.
RestartBroker ==
  /\ failures < MaxFailures
  /\ failures' = failures + 1
  /\ jobs' = <<>>
  /\ declared' = FALSE
  /\ LoseQueues({})
  /\ connected' = [s \in Servers |-> FALSE]
  /\ server' = [s \in Servers |-> IF server[s].req = NoRequest THEN Down ELSE server[s]]
  /\ UNCHANGED <<entry, progress, final, depth, history>>

ServerStep(s) ==
  \/ Take(s) \/ Configure(s) \/ Make(s) \/ Load(s)
  \/ Complete(s) \/ Respond(s) \/ Ack(s)

Next ==
  \/ \E r \in Requests : \/ MkdirFails(r) \/ MakeRequest(r)
                         \/ Publish(r) \/ Timeout(r) \/ Consume(r)
  \/ RestartFrontEnd
  \/ \E s \in Servers : Start(s) \/ ServerStep(s) \/ Disconnect(s)
  \/ RestartBroker

\* The callbacks of the front end and its timers run, and so does a server that
\* was started; nobody has to start one.
Fairness ==
  /\ \A r \in Requests : /\ WF_vars(Publish(r))
                         /\ WF_vars(Timeout(r))
                         /\ WF_vars(Consume(r))
  /\ \A s \in Servers : WF_vars(ServerStep(s))

Spec == Init /\ [][Next]_vars
FairSpec == Spec /\ Fairness

-----------------------------------------------------------------------------
(* Properties.                                                             *)

\* A published job whose request still waits is in the queue, at a server that
\* the broker knows to have it, or answered, if there was a queue to publish it
\* to.  A server that dies in any step of a build loses nothing; a response queue
\* that is lost leaves the request to its timer.
NothingForgotten ==
  \A r \in Requests :
    entry[r] = "waiting" /\ queue[r] = "open" =>
      \/ r \in ToSet(jobs) \cup gone
      \/ \E s \in Servers : connected[s] /\ server[s].req = r
      \/ \E i \in 1..Len(inbox[r]) : inbox[r][i].type = "responce"

\* A server takes a job as many directories below its own as builds have left it
\* there since it was started, and these are the ones with an error that
\* build_package does not catch: variables that cannot be split, a cmake or a make
\* that cannot be started, a configuration of the package that cannot be read.  A
\* refusal, a command that ends with an error and a failing post-install step bring
\* the server back to where it was, and so does a build that succeeds.
AtHome == \A s \in Servers : server[s].step = "idle" => depth[s] = uncaught[s]

\* The page's bar stands at 100 when the result comes, and nothing comes after
\* it: no second result from a redelivered job or from a late timer, and no
\* status of a build that goes on after its request is gone.
FinalIsLast ==
  [][\A r \in Requests :
       /\ final[r] # <<>> => /\ final'[r] = final[r]
                             /\ progress'[r] = progress[r]
       /\ final'[r] # final[r] => progress'[r] = 100]_vars

\* The page of a request that is waiting is told how it ended, by the timer at
\* the latest, unless the front end is started again.
Answered ==
  \A r \in Requests : entry[r] = "waiting" ~> (final[r] # <<>> \/ entry[r] = "lost")
=============================================================================
