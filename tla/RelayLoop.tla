------------------------------ MODULE RelayLoop ------------------------------
(***************************************************************************)
(* The relays of one device connection.  The http thread of the proxy      *)
(* hands a browser's socket and its request to the first relay of the      *)
(* connection that is ready, or to a new relay; the websocket thread makes *)
(* a new relay for every socket.  A relay is a thread with a loop of its   *)
(* own: it listens, asks the device over the command connection to         *)
(* connect, and then copies bytes between the device and the browser it    *)
(* holds.  When the device's connection ends, the inner thread deletes it  *)
(* and with it its relays: it stops and joins one after the other.         *)
(*                                                                         *)
(* The http thread reads and writes the fields of the relay's handler      *)
(* while the relay's thread does, without a lock, so readyForRequest and   *)
(* setClient are cut at their accesses; and nothing keeps the inner thread *)
(* from deleting the connection while the others use it.  A relay itself   *)
(* is shared: the last of the two threads that lets go of it deletes it.   *)
(***************************************************************************)
EXTENDS Naturals, Sequences, FiniteSets

CONSTANTS Browsers,  \* the sockets of browsers
          Sockets,   \* those that speak websocket
          NoBrowser, \* NULL
          MaxAsks    \* bound: requests of each browser

ASSUME RelayLoopAssumption ==
         /\ IsFiniteSet(Browsers) /\ Sockets \subseteq Browsers
         /\ NoBrowser \notin Browsers
         /\ MaxAsks \in [Browsers -> Nat \ {0}]

\* Every browser makes at most one relay.
Relays == 1..Cardinality(Browsers)

VARIABLES
  process,   \* the proxy: up, aborted by a CHECK, or crashed
  http,      \* the http thread: its step, its browser, the relay it looks at
  socket,    \* the websocket thread: its step and its browser
  inner,     \* the inner thread: the step of the deletion, and its relay
  left,      \* relays in the vectors of the connection
  browser,   \* life of a browser's socket
  asked,     \* requests of a browser so far
  made,      \* relays of both vectors
  first,     \* request_: the browser a relay was made for
  thread,    \* the relay's thread
  told,      \* relays whose loop will end
  handler,   \* relays whose handler_ is set
  device,    \* client_device_ of a relay, and what became before of it
  primary,   \* client_primary_ of a relay
  posted,    \* requests whose callback waits for the relay's loop
  pending,   \* <<b, n>>: the n-th request of b, for the device to answer, in order
  home,      \* home[b]: the relays whose loop watches the socket of b
  got,       \* <<b, q>>: browser b received the response to request q
  \* history
  stranded,  \* browsers nobody will ever answer (see NoneForgotten)
  missed     \* a loop was told to stop before it ran

callVars == <<http, socket>>
endVars == <<inner, left, told, missed>>
browserVars == <<browser, asked>>
madeVars == <<made, first>>
loopVars == <<thread, handler, device>>
dataVars == <<posted, pending, home, got>>
vars == <<process, callVars, endVars, browserVars, madeVars, loopVars, primary, dataVars,
          stranded>>

Waiting == [step |-> "wait", b |-> NoBrowser, i |-> 0]
NoSocket == [step |-> "wait", b |-> NoBrowser]

AskedOf(b) == {<<b, n>> : n \in 1..asked[b]}

\* The threads, the relays and the browsers are in the steps of the code, and
\* whatever waits in a relay is a request of a browser.
TypeOK ==
  /\ process \in {"up", "abort", "crash"}
  /\ http \in [step : {"wait", "find", "device", "add", "set", "stop", "join"},
               b : Browsers \cup {NoBrowser}, i : Nat]
  /\ socket \in [step : {"wait", "new"}, b : Sockets \cup {NoBrowser}]
  /\ inner \in [step : {"here", "next", "stop", "join", "freed"}, i : Relays \cup {0}]
  /\ left \subseteq 1..made
  /\ browser \in [Browsers -> {"away", "here", "refused", "gone"}]
  /\ \A b \in Browsers : asked[b] \in 0..MaxAsks[b]
  /\ made \in 0..Cardinality(Browsers)
  /\ first \in [Relays -> Browsers \cup {NoBrowser}]
  /\ thread \in [Relays -> {"none", "start", "create", "bound", "loop", "accept", "assign",
                            "register", "failed", "ended"}]
  /\ told \subseteq 1..made /\ handler \subseteq 1..made
  /\ device \in [Relays -> {"none", "asked", "here", "gone"}]
  /\ primary \in [Relays -> Browsers \cup {NoBrowser}]
  /\ posted \in [Relays -> Seq(Browsers)]
  /\ \A i \in Relays : \A n \in DOMAIN pending[i] :
       \E b \in Browsers : pending[i][n] \in AskedOf(b)
  /\ home \in [Browsers -> SUBSET Relays]
  /\ \A r \in got : r[1] \in Browsers /\ \E b \in Browsers : r[2] \in AskedOf(b)
  /\ stranded \subseteq Browsers
  /\ missed \in BOOLEAN

Init ==
  /\ process = "up"
  /\ http = Waiting
  /\ socket = NoSocket
  /\ inner = [step |-> "here", i |-> 0]
  /\ left = {}
  /\ browser = [b \in Browsers |-> "away"]
  /\ asked = [b \in Browsers |-> 0]
  /\ made = 0
  /\ first = [i \in Relays |-> NoBrowser]
  /\ thread = [i \in Relays |-> "none"]
  /\ told = {}
  /\ handler = {}
  /\ device = [i \in Relays |-> "none"]
  /\ primary = [i \in Relays |-> NoBrowser]
  /\ posted = [i \in Relays |-> <<>>]
  /\ pending = [i \in Relays |-> <<>>]
  /\ home = [b \in Browsers |-> {}]
  /\ got = {}
  /\ stranded = {}
  /\ missed = FALSE

Abort == process' = "abort"
Crash == process' = "crash"

-----------------------------------------------------------------------------
(* The http thread and the websocket thread.                               *)

Registered == inner.step = "here"

\* A browser whose first read fails, or holds no request, is closed.
Refused(b) == browser' = [browser EXCEPT ![b] = "refused"] /\ UNCHANGED asked
Malformed(b) ==
  /\ browser[b] = "away"
  /\ IF b \in Sockets THEN socket = NoSocket ELSE http = Waiting
  /\ Refused(b)
  /\ UNCHANGED <<process, callVars, endVars, madeVars, loopVars, primary, dataVars, stranded>>

\* The connection is found by the host and the browser taken from its loop, or
\* told that the host is not there and closed.
Taken(b) ==
  /\ browser[b] = "away"
  /\ IF Registered
     THEN browser' = [browser EXCEPT ![b] = "here"] /\ asked' = [asked EXCEPT ![b] = 1]
     ELSE Refused(b)
  /\ UNCHANGED <<process, endVars, madeVars, loopVars, primary, dataVars, stranded>>
Request(b) ==
  /\ b \notin Sockets /\ http = Waiting
  /\ Taken(b)
  /\ http' = IF Registered THEN [step |-> "find", b |-> b, i |-> 1] ELSE http
  /\ UNCHANGED socket
SocketRequest(b) ==
  /\ b \in Sockets /\ socket = NoSocket
  /\ Taken(b)
  /\ socket' = IF Registered THEN [step |-> "new", b |-> b] ELSE socket
  /\ UNCHANGED http

\* Relays of relays_http_ that were not destroyed.
Usable(i) == i \in left /\ first[i] \notin Sockets

\* The http thread is done with relay i and goes on with the next one for b, or
\* returns when that is NoBrowser; if the vector was destroyed in the meantime, it
\* deletes the relay first.
LetGo(i, b) ==
  http' = IF i \notin left THEN [step |-> "stop", b |-> b, i |-> i]
          ELSE IF b = NoBrowser THEN Waiting
          ELSE [step |-> "find", b |-> b, i |-> i + 1]

\* readyForRequest, up to its read of client_primary_: a handler that is not
\* there yet, or not any more, fails the CHECK and the process aborts.
ReadyPrimary ==
  /\ http.step = "find"
  /\ Usable(http.i)
  /\ IF http.i \notin handler
     THEN Abort /\ UNCHANGED http
     ELSE /\ IF primary[http.i] # NoBrowser
             THEN LetGo(http.i, http.b)
             ELSE http' = [http EXCEPT !.step = "device"]
          /\ UNCHANGED process
  /\ UNCHANGED <<socket, endVars, browserVars, madeVars, loopVars, primary, dataVars, stranded>>

\* A relay of the other vector is none of this one.
SkipSocket ==
  /\ Registered
  /\ http.step = "find" /\ http.i <= made /\ first[http.i] \in Sockets
  /\ http' = [http EXCEPT !.i = @ + 1]
  /\ UNCHANGED <<process, socket, endVars, browserVars, madeVars, loopVars, primary, dataVars,
                 stranded>>

\* Mutant of ReadyDevice: the relay needs no device.
ReadyAnyway ==
  /\ http.step = "device"
  /\ http' = [http EXCEPT !.step = "add"]
  /\ UNCHANGED <<process, socket, endVars, browserVars, madeVars, loopVars, primary, dataVars,
                 stranded>>

\* Its read of client_device_.  (If the handler was deleted in the meantime, the
\* memory says no, or the process crashes.)
ReadyDevice ==
  /\ http.step = "device"
  /\ IF device[http.i] = "here"
     THEN http' = [http EXCEPT !.step = "add"] /\ UNCHANGED process
     ELSE \/ LetGo(http.i, http.b) /\ UNCHANGED process
          \/ http.i \notin handler /\ Crash /\ UNCHANGED http
  /\ UNCHANGED <<socket, endVars, browserVars, madeVars, loopVars, primary, dataVars, stranded>>

\* addRequest: setClient first looks whether the relay holds a browser, which
\* must not be; if it does, the new browser is dropped.
AddRequest ==
  /\ http.step = "add"
  /\ IF primary[http.i] # NoBrowser
     THEN LetGo(http.i, NoBrowser) /\ stranded' = stranded \cup {http.b}
     ELSE http' = [http EXCEPT !.step = "set"] /\ UNCHANGED stranded
  /\ UNCHANGED <<process, socket, endVars, browserVars, madeVars, loopVars, primary, dataVars>>

\* A browser that is overwritten here is in no field any more.
SetPrimary(i, b) ==
  /\ primary' = [primary EXCEPT ![i] = b]
  /\ stranded' = stranded \cup (IF primary[i] \in Browsers THEN {primary[i], b} ELSE {})

\* Mutant of SetClient: addHttpRelayClient does not return.
SetAndGoOn ==
  /\ http.step = "set"
  /\ SetPrimary(http.i, http.b)
  /\ posted' = [posted EXCEPT ![http.i] = Append(@, http.b)]
  /\ LetGo(http.i, http.b)
  /\ UNCHANGED <<process, socket, endVars, browserVars, madeVars, loopVars, pending, home, got>>

\* setClient stores the browser and posts its callback to the relay's loop.
SetClient ==
  /\ http.step = "set"
  /\ SetPrimary(http.i, http.b)
  /\ posted' = [posted EXCEPT ![http.i] = Append(@, http.b)]
  /\ LetGo(http.i, NoBrowser)
  /\ UNCHANGED <<process, socket, endVars, browserVars, madeVars, loopVars, pending, home, got>>

\* A relay is made for b and its thread started.
Make(b) ==
  /\ made' = made + 1
  /\ first' = [first EXCEPT ![made'] = b]
  /\ thread' = [thread EXCEPT ![made'] = "start"]
  /\ left' = left \cup {made'}
  /\ UNCHANGED <<process, inner, told, missed, browserVars, handler, device, primary, dataVars,
                 stranded>>

\* No relay is ready.
NewRelay ==
  /\ http.step = "find" /\ http.i > made /\ Registered
  /\ Make(http.b)
  /\ http' = Waiting
  /\ UNCHANGED socket

\* addWebsocketRelayClient.
NewSocketRelay ==
  /\ socket.step = "new" /\ Registered
  /\ Make(socket.b)
  /\ socket' = NoSocket
  /\ UNCHANGED http

\* The connection, the vector or the relay they use is being deleted, or gone:
\* the request is lost in it, or the process crashes.
UseAfterFree ==
  /\ ~Registered
  /\ \/ /\ http.step = "find" /\ ~Usable(http.i)
        /\ \/ Crash /\ UNCHANGED <<http, stranded>>
           \/ http' = Waiting /\ stranded' = stranded \cup {http.b} /\ UNCHANGED process
        /\ UNCHANGED socket
     \/ /\ socket # NoSocket
        /\ \/ Crash /\ UNCHANGED <<socket, stranded>>
           \/ socket' = NoSocket /\ stranded' = stranded \cup {socket.b} /\ UNCHANGED process
        /\ UNCHANGED http
  /\ UNCHANGED <<endVars, browserVars, madeVars, loopVars, primary, dataVars>>

Callers == \/ \E b \in Browsers : Malformed(b) \/ Request(b) \/ SocketRequest(b)
           \/ ReadyPrimary
           \/ SkipSocket
           \/ ReadyDevice
           \/ AddRequest
           \/ SetClient
           \/ NewRelay
           \/ NewSocketRelay
           \/ UseAfterFree

-----------------------------------------------------------------------------
(* The thread of relay i.                                                  *)

\* A thread is in the destructor of relay i: the object is only an
\* IInnerRelayLoop by now, whose CreateHandler and CreateServer are pure.
Dying(i) == \/ inner.i = i
            \/ http.i = i /\ http.step \in {"stop", "join"}

CreateHandler(i) ==
  /\ thread[i] = "start"
  /\ IF Dying(i)
     THEN Crash /\ UNCHANGED <<handler, thread>>
     ELSE /\ handler' = handler \cup {i}
          /\ thread' = [thread EXCEPT ![i] = "create"]
          /\ UNCHANGED process
  /\ UNCHANGED <<callVars, endVars, browserVars, madeVars, device, primary, dataVars, stranded>>

\* CreateServer asks the device to connect; when it cannot listen, or not write
\* the command, as on a connection that was closed, exec deletes the handler and
\* the thread ends.
CreateServer(i) ==
  /\ thread[i] = "create"
  /\ \/ /\ Registered
        /\ thread' = [thread EXCEPT ![i] = "bound"]
        /\ device' = [device EXCEPT ![i] = "asked"]
        /\ UNCHANGED <<process, handler, stranded>>
     \/ /\ ~Dying(i)
        /\ thread' = [thread EXCEPT ![i] = "failed"]
        /\ handler' = handler \ {i}
        /\ stranded' = stranded \cup {first[i]}
        /\ UNCHANGED <<process, device>>
     \/ /\ Dying(i) \/ inner.step = "freed"
        /\ Crash /\ UNCHANGED <<loopVars, stranded>>
  /\ UNCHANGED <<callVars, endVars, browserVars, madeVars, primary, dataVars>>

Exec(i) ==
  /\ thread[i] = "bound"
  /\ thread' = [thread EXCEPT ![i] = "loop"]
  /\ UNCHANGED <<process, callVars, endVars, browserVars, madeVars, handler, device, primary,
                 dataVars, stranded>>

\* Accepted: the device has connected.
Accepted(i) ==
  /\ thread[i] = "loop"
  /\ device[i] = "asked"
  /\ device' = [device EXCEPT ![i] = "here"]
  /\ thread' = [thread EXCEPT ![i] = "accept"]
  /\ UNCHANGED <<process, callVars, endVars, browserVars, madeVars, handler, primary, dataVars,
                 stranded>>

\* The device fails to connect, and the server ignores its answer.
DeviceRefuses(i) ==
  /\ device[i] = "asked"
  /\ device' = [device EXCEPT ![i] = "gone"]
  /\ stranded' = stranded \cup {first[i]}
  /\ UNCHANGED <<process, callVars, endVars, browserVars, madeVars, thread, handler, primary,
                 dataVars>>

\* Accepted goes on with setClient for the browser the relay was made for.
AcceptedCheck(i) ==
  /\ thread[i] = "accept"
  /\ IF primary[i] # NoBrowser
     THEN /\ thread' = [thread EXCEPT ![i] = "loop"]
          /\ stranded' = stranded \cup {first[i]}
     ELSE /\ thread' = [thread EXCEPT ![i] = "assign"]
          /\ UNCHANGED stranded
  /\ UNCHANGED <<process, callVars, endVars, browserVars, madeVars, handler, device, primary,
                 dataVars>>

AcceptedSet(i) ==
  /\ thread[i] = "assign"
  /\ SetPrimary(i, first[i])
  /\ thread' = [thread EXCEPT ![i] = "register"]
  /\ UNCHANGED <<process, callVars, endVars, browserVars, madeVars, handler, device, dataVars>>

\* The callback of setClient registers the socket the relay now holds, and
\* writes the request of b, for which it was made, to the device.  When the relay
\* holds none any more, registering NULL ends the process.
Callback(i, b) ==
  IF primary[i] # NoBrowser
  THEN /\ home' = [home EXCEPT ![primary[i]] = @ \cup {i}]
       /\ pending' = IF device[i] = "here"
                     THEN [pending EXCEPT ![i] = Append(@, <<b, 1>>)] ELSE pending
       /\ stranded' = IF device[i] = "gone" THEN stranded \cup {b} ELSE stranded
       /\ UNCHANGED process
  ELSE Crash /\ UNCHANGED <<home, pending, stranded>>

\* It runs at once on the relay's own thread, else when the loop gets to it.
AcceptedRegister(i) ==
  /\ thread[i] = "register"
  /\ Callback(i, first[i])
  /\ thread' = [thread EXCEPT ![i] = "loop"]
  /\ UNCHANGED <<callVars, endVars, browserVars, madeVars, handler, device, primary, posted, got>>

RunPosted(i) ==
  /\ thread[i] = "loop"
  /\ posted[i] # <<>>
  /\ Callback(i, Head(posted[i]))
  /\ posted' = [posted EXCEPT ![i] = Tail(@)]
  /\ UNCHANGED <<callVars, endVars, browserVars, madeVars, loopVars, primary, got>>

\* Mutants of DeviceAnswers: the response goes to the browser the relay was made
\* for; client_primary_ is not compared with NULL.
AnswersFirst(i) ==
  /\ thread[i] = "loop" /\ device[i] = "here" /\ pending[i] # <<>>
  /\ pending' = [pending EXCEPT ![i] = Tail(@)]
  /\ got' = got \cup {<<first[i], Head(pending[i])>>}
  /\ UNCHANGED <<process, callVars, endVars, browserVars, madeVars, loopVars, primary, posted,
                 home, stranded>>
AnswersUnchecked(i) ==
  /\ thread[i] = "loop" /\ device[i] = "here" /\ pending[i] # <<>>
  /\ pending' = [pending EXCEPT ![i] = Tail(@)]
  /\ got' = got \cup {<<primary[i], Head(pending[i])>>}
  /\ UNCHANGED <<process, callVars, endVars, browserVars, madeVars, loopVars, primary, posted,
                 home, stranded>>

\* DataReceived from the device: the browser the relay now holds gets it.
DeviceAnswers(i) ==
  /\ thread[i] = "loop" /\ device[i] = "here" /\ pending[i] # <<>>
  /\ pending' = [pending EXCEPT ![i] = Tail(@)]
  /\ got' = IF primary[i] = NoBrowser
            THEN got ELSE got \cup {<<primary[i], Head(pending[i])>>}
  /\ UNCHANGED <<process, callVars, endVars, browserVars, madeVars, loopVars, primary, posted,
                 home, stranded>>

\* The device closes its end, or the relay closes it because the browser could
\* not be written to: the relay forgets the device, and keeps the browser.
DeviceCloses(i) ==
  /\ thread[i] = "loop"
  /\ device[i] = "here"
  /\ device' = [device EXCEPT ![i] = "gone"]
  /\ pending' = [pending EXCEPT ![i] = <<>>]
  /\ stranded' = stranded \cup {pending[i][n][1] : n \in DOMAIN pending[i]}
  /\ UNCHANGED <<process, callVars, endVars, browserVars, madeVars, thread, handler, primary,
                 posted, home, got>>

\* DataReceived from a browser that has its response and asks once more on the
\* same socket: without a device it is read and dropped, and for a browser the
\* relay does not hold the code says NOTREACHED, which ends the process or not,
\* depending on the build.
AskAgain(i, b) ==
  /\ thread[i] = "loop" /\ i \in home[b]
  /\ browser[b] = "here" /\ asked[b] < MaxAsks[b]
  /\ <<b, <<b, asked[b]>>>> \in got
  /\ asked' = [asked EXCEPT ![b] = @ + 1]
  /\ IF primary[i] = b
     THEN /\ pending' = IF device[i] = "here"
                        THEN [pending EXCEPT ![i] = Append(@, <<b, asked[b] + 1>>)] ELSE pending
          /\ stranded' = IF device[i] = "here" THEN stranded ELSE stranded \cup {b}
          /\ UNCHANGED process
     ELSE /\ \/ Crash /\ UNCHANGED stranded
             \/ stranded' = stranded \cup {b} /\ UNCHANGED process
          /\ UNCHANGED pending
  /\ UNCHANGED <<callVars, endVars, browser, madeVars, loopVars, primary, posted, home, got>>

\* A browser closes its socket; the relay whose loop watches it forgets it.
BrowserCloses(i, b) ==
  /\ thread[i] = "loop"
  /\ i \in home[b]
  /\ browser[b] = "here"
  /\ browser' = [browser EXCEPT ![b] = "gone"]
  /\ home' = [home EXCEPT ![b] = @ \ {i}]
  /\ primary' = [primary EXCEPT ![i] = IF @ = b THEN NoBrowser ELSE @]
  /\ UNCHANGED <<process, callVars, endVars, asked, madeVars, loopVars, posted, pending, got,
                 stranded>>

\* The loop was told to stop: what waits in it is not done any more, and no
\* browser it holds is answered again.
LoopEnds(i) ==
  /\ thread[i] = "loop" /\ i \in told
  /\ thread' = [thread EXCEPT ![i] = "ended"]
  /\ stranded' = stranded
       \cup (IF device[i] = "asked" THEN {first[i]} ELSE {})
       \cup {posted[i][n] : n \in DOMAIN posted[i]}
       \cup {pending[i][n][1] : n \in DOMAIN pending[i]}
  /\ device' = [device EXCEPT ![i] = "gone"]
  /\ posted' = [posted EXCEPT ![i] = <<>>]
  /\ pending' = [pending EXCEPT ![i] = <<>>]
  /\ UNCHANGED <<process, callVars, endVars, browserVars, madeVars, handler, primary, home, got>>

Relay(i) == \/ CreateHandler(i)
            \/ CreateServer(i)
            \/ Exec(i)
            \/ Accepted(i)
            \/ DeviceRefuses(i)
            \/ AcceptedCheck(i)
            \/ AcceptedSet(i)
            \/ AcceptedRegister(i)
            \/ RunPosted(i)
            \/ DeviceAnswers(i)
            \/ DeviceCloses(i)
            \/ \E b \in Browsers : AskAgain(i, b) \/ BrowserCloses(i, b)
            \/ LoopEnds(i)

-----------------------------------------------------------------------------
(* The inner thread, and the deletion of relays.                           *)

\* The device's connection is closed, which unregisters it, and is deleted.
Delete ==
  /\ inner.step = "here"
  /\ inner' = [step |-> "next", i |-> 0]
  /\ UNCHANGED <<process, callVars, left, told, missed, browserVars, madeVars, loopVars, primary,
                 dataVars, stranded>>

\* The vectors are destroyed, the websocket relays first; a relay the http thread
\* holds is left to it.
NextRelay ==
  LET sockets == {i \in left : first[i] \in Sockets}
      vector == IF sockets # {} THEN sockets ELSE left
      next == IF left = {} THEN 0 ELSE CHOOSE i \in vector : \A j \in vector : i <= j
      held == http.i = next /\ http.step \in {"device", "add", "set"}
  IN  /\ inner.step = "next"
      /\ left' = left \ {next}
      /\ inner' = IF next = 0 THEN [inner EXCEPT !.step = "freed"]
                  ELSE IF held THEN inner ELSE [step |-> "stop", i |-> next]
      /\ UNCHANGED <<process, callVars, told, missed, browserVars, madeVars, loopVars, primary,
                     dataVars, stranded>>

\* Mutant of Stop: the destructor only joins.
OnlyJoin(i) == UNCHANGED <<told, missed>>

\* stop needs a loop, and a loop that is not stored yet, or does not run yet, may
\* miss it.
Stop(i) ==
  CASE thread[i] \in {"start", "create", "failed"} -> UNCHANGED <<told, missed>>
    [] thread[i] = "bound" -> \/ told' = told \cup {i} /\ UNCHANGED missed
                              \/ missed' = TRUE /\ UNCHANGED told
    [] OTHER -> told' = told \cup {i} /\ UNCHANGED missed

\* ~IInnerRelayLoop, on the inner thread or on the http thread: stop,
StopRelay ==
  /\ \/ /\ inner.step = "stop"
        /\ Stop(inner.i)
        /\ inner' = [inner EXCEPT !.step = "join"]
        /\ UNCHANGED http
     \/ /\ http.step = "stop"
        /\ Stop(http.i)
        /\ http' = [http EXCEPT !.step = "join"]
        /\ UNCHANGED inner
  /\ UNCHANGED <<process, socket, left, browserVars, madeVars, loopVars, primary, dataVars,
                 stranded>>

\* and join; then the loop and the handler are deleted.
Over(i) == thread[i] \in {"failed", "ended"} /\ handler' = handler \ {i}
JoinRelay ==
  /\ \/ /\ inner.step = "join"
        /\ Over(inner.i)
        /\ inner' = [step |-> "next", i |-> 0]
        /\ UNCHANGED http
     \/ /\ http.step = "join"
        /\ Over(http.i)
        /\ http' = IF http.b = NoBrowser THEN Waiting ELSE [http EXCEPT !.step = "find"]
        /\ UNCHANGED inner
  /\ UNCHANGED <<process, socket, left, told, missed, browserVars, madeVars, thread, device,
                 primary, dataVars, stranded>>

Deleting == NextRelay \/ StopRelay \/ JoinRelay

Next == process = "up" /\ (Callers \/ (\E i \in Relays : Relay(i)) \/ Delete \/ Deleting)

\* The threads go on; devices and browsers do as they like.
Fairness ==
  /\ WF_vars(process = "up" /\ Deleting)
  /\ \A i \in Relays :
       WF_vars(process = "up" /\ (\/ CreateHandler(i) \/ CreateServer(i) \/ Exec(i)
                                  \/ AcceptedCheck(i) \/ AcceptedSet(i) \/ AcceptedRegister(i)))
  /\ \A i \in Relays : WF_vars(process = "up" /\ LoopEnds(i))

Spec == Init /\ [][Next]_vars
FairSpec == Spec /\ Fairness

-----------------------------------------------------------------------------
(* Properties.                                                             *)

\* The ownership of a browser's socket moves to one relay ("move ovnerships",
\* inner_tcp_client.h): two loops never watch it, and no relay holds it while
\* another does or was made for it.
OneOwner ==
  \A b \in Browsers :
    /\ Cardinality(home[b]) <= 1
    /\ \A i, j \in Relays :
         /\ primary[i] = b /\ primary[j] = b => i = j
         /\ primary[i] = b /\ first[j] = b => i = j

\* A browser only gets the response to another's request when the other left
\* before its response came, or when both were handed to a relay at once.
NoMixedResponses ==
  \A r \in got : LET asker == r[2][1] IN
    r[1] = asker \/ browser[asker] = "gone" \/ asker \in stranded

\* A browser that waits for a response is on its way to a relay, its relay is on
\* its way to the device, or its request is with the device.  Else it has left,
\* or it is stranded: its relay could not be started, the device did not connect
\* or closed the relay first, it was dropped for another browser, it asked once
\* more after the device had closed, or the connection was deleted under it.
NoneForgotten ==
  \A b \in Browsers : browser[b] = "here" =>
    \/ <<b, <<b, asked[b]>>>> \in got
    \/ b \in stranded
    \/ process # "up"
    \/ http.b = b \/ socket.b = b
    \/ \E i \in Relays :
         \/ first[i] = b /\ thread[i] \in {"start", "create", "accept", "assign", "register"}
         \/ first[i] = b /\ device[i] = "asked"
         \/ \E n \in DOMAIN posted[i] : posted[i][n] = b
         \/ \E n \in DOMAIN pending[i] : pending[i][n] = <<b, asked[b]>>

\* The inner thread, which serves all devices, comes back from the deletion of a
\* connection however many relays it has, whatever they are doing; but for a
\* relay that was told to stop between the moment its loop was there and the
\* moment it ran, and for the end of the process.
DeletionEnds == inner.step = "next" ~> inner.step = "freed" \/ missed \/ process # "up"

\* readyForRequest finds a handler: CHECK(hand), inner_tcp_client.cpp.
HandlerFound == process # "abort"
=============================================================================
