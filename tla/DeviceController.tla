--------------------------- MODULE DeviceController ---------------------------
(***************************************************************************)
(* The program on the device.  Three threads: the event thread, which      *)
(* starts, stops and replaces the web server and applies changes of the    *)
(* configuration; the inner thread, which holds the command connection and *)
(* handles plz_set_config and plz_connect_http; and the thread of the web  *)
(* server, which serves the relays the inner thread hands to its loop.     *)
(*                                                                         *)
(* A web server is an ILoopThreadController: a new object, with a new      *)
(* thread, each time the configuration changes.  What the threads share    *)
(* (auth_checker_, loop_, the loops known by name, the configuration of    *)
(* the inner handler) they share without a lock.                           *)
(***************************************************************************)
EXTENDS Naturals, Sequences

CONSTANTS Configs,    \* the configurations the file and the pages contain
          MaxChanges, \* bound: changes of the configuration
          Relays      \* plz_connect_http commands, with their relay clients

Kinds == {"local",     \* server_type 0
          "external",  \* server_type 1 with a valid external host
          "invalid"}   \* anything else

ASSUME DeviceControllerAssumption ==
         /\ Configs \subseteq [private : BOOLEAN, kind : Kinds]
         /\ MaxChanges \in Nat

Servers == 1..(MaxChanges + 1)
NoServer == 0
NoRelay == [on |-> NoServer, authenticated |-> FALSE, kind |-> "local", state |-> "none"]

VARIABLES
  process,     \* the program runs, has ended, or died of undefined behaviour
  \* the event thread: its step, the configuration of the event it handles
  main,
  config,      \* NetworkController::config_
  server,      \* NetworkController::server_
  made,        \* servers made so far
  events,      \* ConfigChangedEvents not handled yet
  \* the inner thread: its step, and the relay it is making
  inner,
  innerConfig, \* InnerServerHandler::config_
  authChecker, \* NetworkController::auth_checker_ is set
  relay,       \* the relay clients it made
  \* the servers
  thread,      \* the thread of a server
  loop,        \* its loop: made (known by name), set (in loop_), or gone
  stopping,    \* servers whose loop was told to stop
  checks,      \* servers whose handler has an auth checker
  using,       \* the configuration a server was made with
  \* history
  accepted,    \* changes answered with ok
  applied,     \* configurations that connect has gone through
  missed,      \* servers that were told to stop when they could not hear it
  unchecked    \* servers that served somebody without asking who it is

mainVars   == <<main, config, server, made, events>>
innerVars  == <<inner, innerConfig, authChecker, relay>>
serverVars == <<thread, loop, stopping, checks, using>>
vars == <<process, mainVars, innerVars, serverVars, accepted, applied, missed, unchecked>>

MainRecords == [step : {"connect", "wait", "stop", "join", "apply", "end"},
                next : Configs, exits : BOOLEAN]
InnerRecords == [step : {"start", "create", "loop", "offline", "make", "post"},
                 relay : Relays \cup {NoServer}, on : Servers \cup {NoServer}]
RelayRecords == [on : Servers \cup {NoServer}, authenticated : BOOLEAN, kind : Kinds,
                 state : {"none", "refused", "made", "posted", "open"}]

TypeOK ==
  /\ process \in {"up", "ended", "dead"}
  /\ main \in MainRecords
  /\ config \in Configs
  /\ server \in Servers \cup {NoServer}
  /\ made \in Servers \cup {NoServer}
  /\ events \in Seq(Configs)
  /\ inner \in InnerRecords
  /\ innerConfig \in Configs
  /\ authChecker \in BOOLEAN
  /\ relay \in [Relays -> RelayRecords]
  /\ thread \in [Servers -> {"none", "start", "bind", "exec", "run", "ended"}]
  /\ loop \in [Servers -> {"none", "made", "set", "gone"}]
  /\ stopping \in SUBSET Servers
  /\ checks \in SUBSET Servers
  /\ using \in [Servers -> Configs]
  /\ accepted \in Nat
  /\ applied \in Nat
  /\ missed \in SUBSET Servers
  /\ unchecked \in SUBSET Servers

\* The constructor of NetworkController has read the configuration and started
\* the inner thread; PreExecImpl goes on with connect.
Init ==
  /\ process = "up"
  /\ config \in Configs
  /\ main = [step |-> "connect", next |-> config, exits |-> FALSE]
  /\ server = NoServer
  /\ made = 0
  /\ events = <<>>
  /\ inner = [step |-> "start", relay |-> NoServer, on |-> NoServer]
  /\ innerConfig = config
  /\ authChecker = FALSE
  /\ relay = [r \in Relays |-> NoRelay]
  /\ thread = [g \in Servers |-> "none"]
  /\ loop = [g \in Servers |-> "none"]
  /\ stopping = {}
  /\ checks = {}
  /\ using = [g \in Servers |-> config]
  /\ accepted = 0
  /\ applied = 0
  /\ missed = {}
  /\ unchecked = {}

-----------------------------------------------------------------------------
(* The event thread.                                                       *)

\* connect: the controller of the new server takes auth_checker_ as it is now.
\* A configuration it has no server for is NOTREACHED.
Connect ==
  /\ main.step = "connect"
  /\ main' = [main EXCEPT !.step = "wait"]
  /\ applied' = applied + 1
  /\ \/ /\ server = NoServer
        /\ config.kind # "invalid"
        /\ made' = made + 1
        /\ server' = made'
        /\ thread' = [thread EXCEPT ![made'] = "start"]
        /\ using' = [using EXCEPT ![made'] = config]
        /\ checks' = IF authChecker THEN checks \cup {made'} ELSE checks
        /\ UNCHANGED process
     \/ /\ server = NoServer
        /\ config.kind = "invalid"
        /\ process' \in {"up", "dead"}
        /\ UNCHANGED <<made, server, thread, using, checks>>
     \/ /\ server # NoServer
        /\ UNCHANGED <<process, made, server, thread, using, checks>>
  /\ UNCHANGED <<config, events, innerVars, loop, stopping>>
  /\ UNCHANGED <<accepted, missed, unchecked>>

Idle == main.step = "wait" /\ UNCHANGED <<config, server, made, innerVars, serverVars>>

\* handleEvent of a ConfigChangedEvent: disConnect, setConfig, connect.
HandleEvent ==
  /\ Idle
  /\ events # <<>>
  /\ events' = Tail(events)
  /\ main' = [main EXCEPT !.step = IF server = NoServer THEN "apply" ELSE "stop",
                          !.next = Head(events)]
  /\ UNCHANGED <<process, accepted, applied, missed, unchecked>>

\* ExitImpl: disConnect, and no more events.
Exit ==
  /\ Idle
  /\ main' = [main EXCEPT !.step = IF server = NoServer THEN "end" ELSE "stop",
                          !.exits = TRUE]
  /\ UNCHANGED <<process, events, accepted, applied, missed, unchecked>>

\* Mutant of Stop: the server is not told.
StopNot ==
  /\ main.step = "stop"
  /\ main' = [main EXCEPT !.step = "join"]
  /\ UNCHANGED <<process, config, server, made, events, innerVars, serverVars>>
  /\ UNCHANGED <<accepted, applied, missed, unchecked>>

\* stop reads loop_, which the server's thread sets; a loop that does not run
\* yet may not hear it.
Stop ==
  /\ main.step = "stop"
  /\ main' = [main EXCEPT !.step = "join"]
  /\ \/ /\ loop[server] = "set"
        /\ stopping' = stopping \cup {server}
        /\ UNCHANGED missed
     \/ /\ loop[server] # "set" \/ thread[server] = "exec"
        /\ missed' = missed \cup {server}
        /\ UNCHANGED stopping
  /\ UNCHANGED <<process, config, server, made, events, innerVars>>
  /\ UNCHANGED <<thread, loop, checks, using, accepted, applied, unchecked>>

\* Mutant of Join: the thread is not joined.
JoinNot ==
  /\ main.step = "join"
  /\ loop' = [loop EXCEPT ![server] = "gone"]
  /\ server' = NoServer
  /\ main' = [main EXCEPT !.step = IF main.exits THEN "end" ELSE "apply"]
  /\ UNCHANGED <<process, config, made, events, innerVars>>
  /\ UNCHANGED <<thread, stopping, checks, using, accepted, applied, missed, unchecked>>

\* join, and the server and its loop are deleted.
Join ==
  /\ main.step = "join"
  /\ thread[server] = "ended"
  /\ loop' = [loop EXCEPT ![server] = "gone"]
  /\ server' = NoServer
  /\ main' = [main EXCEPT !.step = IF main.exits THEN "end" ELSE "apply"]
  /\ UNCHANGED <<process, config, made, events, innerVars>>
  /\ UNCHANGED <<thread, stopping, checks, using, accepted, applied, missed, unchecked>>

\* Mutant of SetConfig: the inner handler keeps its configuration.
SetConfigHere ==
  /\ main.step = "apply"
  /\ main' = [main EXCEPT !.step = "connect"]
  /\ config' = main.next
  /\ UNCHANGED <<process, server, made, events, innerVars, serverVars>>
  /\ UNCHANGED <<accepted, applied, missed, unchecked>>

\* setConfig, of the controller and of the inner thread's handler.
SetConfig ==
  /\ main.step = "apply"
  /\ main' = [main EXCEPT !.step = "connect"]
  /\ config' = main.next
  /\ innerConfig' = main.next
  /\ UNCHANGED <<process, server, made, events, inner, authChecker, relay, serverVars>>
  /\ UNCHANGED <<accepted, applied, missed, unchecked>>

\* The inner thread reads the strings of the configuration that setConfig is
\* assigning.
TornConfig ==
  /\ main.step = "apply"
  /\ inner.step \notin {"start", "offline"}
  /\ process' = "dead"
  /\ UNCHANGED <<mainVars, innerVars, serverVars, accepted, applied, missed, unchecked>>

\* PostExecImpl deletes the controller, and the process ends; the inner thread
\* still runs in the loop and the handler that are deleted with it.
End ==
  /\ main.step = "end"
  /\ process' \in {"ended", "dead"}
  /\ UNCHANGED <<mainVars, innerVars, serverVars, accepted, applied, missed, unchecked>>

Main == \/ Connect \/ HandleEvent \/ Exit \/ Stop \/ Join \/ SetConfig
        \/ TornConfig \/ End

-----------------------------------------------------------------------------
(* The inner thread.                                                       *)

InnerOnly ==
  /\ UNCHANGED <<main, config, server, made, serverVars>>
  /\ UNCHANGED <<applied, missed, unchecked>>

\* CreateHandler: the handler copies the configuration, then the auth checker
\* that asks the handler is made.  The connection may fail; it is tried once.
CreateHandler ==
  /\ InnerOnly
  /\ inner.step = "start"
  /\ inner' = [inner EXCEPT !.step = "create"]
  /\ innerConfig' = config
  /\ UNCHANGED <<process, events, authChecker, relay, accepted>>

CreateChecker ==
  /\ InnerOnly
  /\ inner.step = "create"
  /\ authChecker' = TRUE
  /\ \E step \in {"loop", "offline"} : inner' = [inner EXCEPT !.step = step]
  /\ UNCHANGED <<process, events, innerConfig, relay, accepted>>

\* Mutant of PleaseSetConfig: the event is posted twice.
PleaseSetConfigTwice(c) ==
  /\ InnerOnly
  /\ inner.step = "loop"
  /\ accepted < MaxChanges
  /\ accepted' = accepted + 1
  /\ events' = events \o <<c, c>>
  /\ UNCHANGED <<process, innerVars>>

\* plz_set_config: ok is answered, and the event posted.
PleaseSetConfig(c) ==
  /\ InnerOnly
  /\ inner.step = "loop"
  /\ accepted < MaxChanges
  /\ accepted' = accepted + 1
  /\ events' = Append(events, c)
  /\ UNCHANGED <<process, innerVars>>

\* plz_connect_http: the device connects to the proxy's relay, and looks for the
\* loop of a web server by its name.
PleaseConnect(r) ==
  /\ InnerOnly
  /\ inner.step = "loop"
  /\ relay[r].state = "none"
  /\ \/ /\ relay' = [relay EXCEPT ![r].state = "refused"]
        /\ UNCHANGED inner
     \/ /\ \E g \in Servers : /\ loop[g] \in {"made", "set"}
                              /\ inner' = [step |-> "make", relay |-> r, on |-> g]
        /\ UNCHANGED relay
  /\ UNCHANGED <<process, events, innerConfig, authChecker, accepted>>

\* Mutant of MakeRelay: the other way round.
MakeRelayPrivate ==
  /\ InnerOnly
  /\ inner.step = "make"
  /\ relay' = [relay EXCEPT ![inner.relay] =
                 [on |-> inner.on, authenticated |-> innerConfig.private,
                  kind |-> innerConfig.kind, state |-> "made"]]
  /\ inner' = [inner EXCEPT !.step = "post"]
  /\ UNCHANGED <<process, events, innerConfig, authChecker, accepted>>

\* The relay client is made after the configuration of the inner handler.
MakeRelay ==
  /\ InnerOnly
  /\ inner.step = "make"
  /\ relay' = [relay EXCEPT ![inner.relay] =
                 [on |-> inner.on, authenticated |-> ~innerConfig.private,
                  kind |-> innerConfig.kind, state |-> "made"]]
  /\ inner' = [inner EXCEPT !.step = "post"]
  /\ UNCHANGED <<process, events, innerConfig, authChecker, accepted>>

\* ExecInLoopThread of a loop that may have been deleted in the meantime.
PostRelay ==
  /\ InnerOnly
  /\ inner.step = "post"
  /\ \/ /\ relay' = [relay EXCEPT ![inner.relay].state = "posted"]
        /\ UNCHANGED process
     \/ /\ loop[inner.on] = "gone"
        /\ process' = "dead"
        /\ UNCHANGED relay
  /\ inner' = [step |-> "loop", relay |-> NoServer, on |-> NoServer]
  /\ UNCHANGED <<events, innerConfig, authChecker, accepted>>

Inner == \/ CreateHandler
         \/ CreateChecker
         \/ \E c \in Configs : PleaseSetConfig(c)
         \/ \E r \in Relays : PleaseConnect(r)
         \/ MakeRelay
         \/ PostRelay

-----------------------------------------------------------------------------
(* The thread of server g: ILoopController::exec.                          *)

ServerOnly ==
  UNCHANGED <<process, mainVars, inner, innerConfig, authChecker, stopping,
              checks, using, accepted, applied, missed>>

\* CreateHandler of the server has no effect of its own; the loop it makes next
\* is known by name from then on.
CreateServer(g) ==
  /\ ServerOnly
  /\ thread[g] = "start"
  /\ thread' = [thread EXCEPT ![g] = "bind"]
  /\ loop' = [loop EXCEPT ![g] = "made"]
  /\ UNCHANGED <<relay, unchecked>>

\* A local server binds its port; when it cannot, the thread ends.
Bind(g) ==
  /\ ServerOnly
  /\ thread[g] = "bind"
  /\ \/ /\ thread' = [thread EXCEPT ![g] = "exec"]
        /\ loop' = [loop EXCEPT ![g] = "set"]
     \/ /\ using[g].kind = "local"
        /\ thread' = [thread EXCEPT ![g] = "ended"]
        /\ loop' = [loop EXCEPT ![g] = "gone"]
  /\ UNCHANGED <<relay, unchecked>>

Exec(g) ==
  /\ ServerOnly
  /\ thread[g] = "exec"
  /\ thread' = [thread EXCEPT ![g] = "run"]
  /\ UNCHANGED <<loop, relay, unchecked>>

\* The callback that registers a relay client.
RegisterRelay(g, r) ==
  /\ ServerOnly
  /\ thread[g] = "run"
  /\ relay[r].on = g
  /\ relay[r].state = "posted"
  /\ relay' = [relay EXCEPT ![r].state = "open"]
  /\ UNCHANGED <<thread, loop, unchecked>>

\* tryAuthenticateIfNeeded: the visitor is not asked for a password.
Unasked(g, authenticated) == g \notin checks \/ authenticated

\* A request on a relay: it is passed to the external host, or answered here.
ServeRelay(g, r) ==
  /\ ServerOnly
  /\ thread[g] = "run"
  /\ relay[r].on = g
  /\ relay[r].state = "open"
  /\ relay[r].kind = "external" \/ Unasked(g, relay[r].authenticated)
  /\ unchecked' = unchecked \cup {g}
  /\ UNCHANGED <<thread, loop, relay>>

\* A request of a visitor in the device's own network.
ServeDirect(g) ==
  /\ ServerOnly
  /\ thread[g] = "run"
  /\ using[g].kind = "local"
  /\ Unasked(g, ~using[g].private)
  /\ unchecked' = unchecked \cup {g}
  /\ UNCHANGED <<thread, loop, relay>>

\* The loop was told to stop, and the thread ends.
EndLoop(g) ==
  /\ ServerOnly
  /\ thread[g] = "run"
  /\ g \in stopping
  /\ thread' = [thread EXCEPT ![g] = "ended"]
  /\ UNCHANGED <<loop, relay, unchecked>>

Server(g) == \/ CreateServer(g)
             \/ Bind(g)
             \/ Exec(g)
             \/ \E r \in Relays : RegisterRelay(g, r) \/ ServeRelay(g, r)
             \/ ServeDirect(g)
             \/ EndLoop(g)

Next == process = "up" /\ (Main \/ Inner \/ \E g \in Servers : Server(g))

Spec == Init /\ [][Next]_vars

-----------------------------------------------------------------------------
(* Properties.                                                             *)

\* One web server at a time: the thread of a server that was replaced has ended,
\* and its loop can be found no more, when the next one binds the port.
OneServer ==
  \A g \in Servers : g # server => /\ thread[g] \in {"none", "ended"}
                                   /\ loop[g] \in {"none", "gone"}

\* Between two events the three copies of the configuration agree: the one of
\* the controller, the one of the inner handler, from which the device answers
\* plz_config and who_are_you and marks relays, and the one of the server.
ConfigAgrees ==
  main.step = "wait" =>
    /\ innerConfig = config
    /\ server # NoServer => using[server] = config

\* A private site that the device serves itself is only served to visitors who
\* gave the password, if its server was made after the auth checker: neither a
\* visitor of its own network nor a relay marked under another configuration
\* gets around it.
PrivateGuarded ==
  \A g \in unchecked \cap checks : using[g].kind = "local" => ~using[g].private

\* A private site is only served to visitors who gave the password (README.md).
PrivateSite == \A g \in unchecked : ~using[g].private

\* The event thread joins a server that runs and was never told to stop.
Stuck == main.step = "join" /\ server \in missed /\ thread[server] = "run"
Over == process # "up"

Fairness ==
  /\ WF_vars(process = "up" /\ (Connect \/ HandleEvent \/ Stop \/ Join \/ SetConfig \/ End))
  /\ WF_vars(process = "up" /\ (CreateHandler \/ CreateChecker \/ MakeRelay \/ PostRelay))
  /\ \A g \in Servers :
       WF_vars(process = "up" /\ (CreateServer(g) \/ Bind(g) \/ Exec(g) \/ EndLoop(g)))

FairSpec == Spec /\ Fairness

\* A change that was answered with ok is applied, in its order, and an exit ends
\* the process, unless a server missed its stop and join waits forever, or the
\* process dies.
Obeyed ==
  /\ \A n \in 1..MaxChanges :
       accepted >= n ~> (applied > n \/ main.exits \/ Stuck \/ Over)
  /\ main.exits ~> (Stuck \/ Over)
=============================================================================
