----------------------------- MODULE InnerServer -----------------------------
(***************************************************************************)
(* The inner server of the proxy: devices connect to it over TCP, it asks  *)
(* each of them "who_are_you", looks the answer up in the user store,      *)
(* enters the device in the host registry and announces it on the redis    *)
(* channel of client states.  Pings in both directions, closing, restart   *)
(* of the server and the death of devices are modelled as well.            *)
(*                                                                         *)
(* One thread (the inner loop) runs the server's handlers.  The blocking   *)
(* calls to redis inside a handler are where other processes overtake it,  *)
(* so a handler is cut there: `task' says what the thread has still to do  *)
(* before it returns to its loop, and nothing else runs on it before.      *)
(***************************************************************************)
EXTENDS Naturals, Sequences

CONSTANTS Hosts,       \* the host names devices are configured with
          Users,       \* the accounts (login and password) of the user store
          Conns,       \* the connection objects, one per accepted socket
          NoConn,      \* "not found" of a lookup in the registry
          NoInfo,      \* UserAuthInfo(): an identity that is not valid
          NoIdentity,  \* what answers who_are_you without an identity
          MaxPings,    \* bound: pings written to a living peer, either way
          MaxRestarts, \* bound: restarts of the server process
          Coalesce     \* a read may return several commands at once

ASSUME InnerServerAssumption ==
         /\ NoConn \notin Conns
         /\ MaxPings \in Nat
         /\ MaxRestarts \in Nat
         /\ Coalesce \in BOOLEAN

\* UserAuthInfo of infos.h.  A device whose identity string does not parse, or
\* has no login or host, gives the server the invalid one.
Infos == [login : Users, host : Hosts]

ASSUME NoInfoAssumption == NoInfo \notin Infos /\ NoIdentity \notin Infos \cup {NoInfo}

VARIABLES
  \* the server process
  client,       \* life of the InnerTcpServerClient object of a connection
  hinfo,        \* its hinfo_: the identity it was registered under
  connections,  \* HttpServerHost::connections_, the host registry
  task,         \* what the inner thread does between two of its handlers
  pingTodo,     \* connections the running ping round has not reached yet
  restarts,     \* restarts so far
  \* redis
  users,        \* the "users" hash: the hosts of every account
  owned,        \* history: every <<login, host>> the hash has ever held
  state,        \* the last message of the clients_state channel about a host
  unheard,      \* hosts whose last message could not be published
  \* the network
  peer,         \* the device's end of a connection, as the kernel sees it
  down,         \* bytes on their way to the device, as commands
  up,           \* bytes on their way to the server
  \* the devices
  device,       \* what the device program knows of its connection
  answer,       \* the identity it is configured with
  pinged,       \* pings the server wrote to a living device
  devPinged     \* pings the device wrote

serverVars == <<client, hinfo, connections, task, pingTodo, restarts>>
redisVars  == <<users, owned, state, unheard>>
netVars    == <<peer, down, up>>
deviceVars == <<device, answer, pinged, devPinged>>
vars == <<serverVars, redisVars, netVars, deviceVars>>

DownMsgs == {"who_are_you", "ping", "pong", "approve_ping",
             "approve_ok", "approve_fail", "state_fail"}
UpMsgs   == {"i_am", "ping", "pong", "approve_ping", "state_fail"}

Steps == {"idle", "register", "online", "offline"}
Idle == [step |-> "idle", conn |-> NoConn]
Doing(step, c) == [step |-> step, conn |-> c]

TypeOK ==
  /\ client \in [Conns -> {"none", "open", "closed", "deleted"}]
  /\ hinfo \in [Conns -> Infos \cup {NoInfo}]
  /\ connections \in [Hosts -> Conns \cup {NoConn}]
  /\ task \in [step : Steps, conn : Conns \cup {NoConn}]
  /\ pingTodo \in SUBSET Conns
  /\ restarts \in Nat
  /\ users \in [Users -> SUBSET Hosts]
  /\ owned \in SUBSET (Users \X Hosts)
  /\ state \in [Hosts -> {"never", "connected", "disconnected"}]
  /\ unheard \in SUBSET Hosts
  /\ peer \in [Conns -> {"none", "here", "fin", "dead", "rst"}]
  /\ down \in [Conns -> Seq(DownMsgs)]
  /\ up \in [Conns -> Seq(UpMsgs)]
  /\ device \in [Conns -> {"off", "in", "approved", "gone"}]
  /\ answer \in [Conns -> Infos \cup {NoInfo, NoIdentity}]
  /\ pinged \in [Conns -> Nat]
  /\ devPinged \in [Conns -> Nat]

Init ==
  /\ client = [c \in Conns |-> "none"]
  /\ hinfo = [c \in Conns |-> NoInfo]
  /\ connections = [h \in Hosts |-> NoConn]
  /\ task = Idle
  /\ pingTodo = {}
  /\ restarts = 0
  /\ users = [u \in Users |-> {}]
  /\ owned = {}
  /\ state = [h \in Hosts |-> "never"]
  /\ unheard = {}
  /\ peer = [c \in Conns |-> "none"]
  /\ down = [c \in Conns |-> <<>>]
  /\ up = [c \in Conns |-> <<>>]
  /\ device = [c \in Conns |-> "off"]
  /\ answer = [c \in Conns |-> NoInfo]
  /\ pinged = [c \in Conns |-> 0]
  /\ devPinged = [c \in Conns |-> 0]

-----------------------------------------------------------------------------
(* Reading and writing a socket.                                           *)

\* A read takes the first k commands waiting on the socket; the parser handles
\* the first and drops the rest of the buffer.
ReadSizes(q) == IF Coalesce THEN 1..Len(q) ELSE {1} \cap 1..Len(q)
After(q, k) == SubSeq(q, k + 1, Len(q))

\* A write fails once the kernel knows that the peer is gone; the first write
\* after the peer went away is accepted, and is what makes the kernel know.
WriteFails(c) == peer[c] = "rst"
PeerAfterWrite(c) ==
  [peer EXCEPT ![c] = IF @ \in {"fin", "dead"} THEN "rst" ELSE @]
DownAfterWrite(c, m) ==
  [down EXCEPT ![c] = IF peer[c] = "here" THEN Append(@, m) ELSE @]
Write(c, m) == /\ down' = DownAfterWrite(c, m)
               /\ peer' = PeerAfterWrite(c)

\* The inner thread is in its event loop, free to run the next handler.
Free == task = Idle /\ pingTodo = {}

\* Mutants of UnRegistered: nothing is erased; the host the device claims is.
UnRegisteredNot(c) == connections
UnRegisteredByClaim(c) ==
  IF answer[c] \in Infos THEN [connections EXCEPT ![answer[c].host] = NoConn]
                         ELSE connections

\* unRegisterInnerConnectionByHost: only a connection with a valid identity is
\* in the registry, and the entry of its host is erased.
IsValid(info) == info \in Infos
UnRegistered(c) ==
  IF IsValid(hinfo[c]) THEN [connections EXCEPT ![hinfo[c].host] = NoConn]
                       ELSE connections

\* client->Close() calls the observer's Closed, which unregisters; a connection
\* that was registered is announced as gone before it is deleted.
Close(c) ==
  /\ connections' = UnRegistered(c)
  /\ IF IsValid(hinfo[c])
     THEN /\ client' = [client EXCEPT ![c] = "closed"]
          /\ task' = Doing("offline", c)
     ELSE /\ client' = [client EXCEPT ![c] = "deleted"]
          /\ task' = Idle
  /\ UNCHANGED <<hinfo, restarts>>

-----------------------------------------------------------------------------
(* The devices.                                                            *)

\* PreLooped: the program connects once, with the identity it is configured
\* with; nothing connects again after the connection is lost.  (The device of
\* this repository always sends an identity, which may not be valid; the server
\* has a branch for a device that does not.)
DeviceConnect(c) ==
  /\ device[c] = "off"
  /\ device' = [device EXCEPT ![c] = "in"]
  /\ peer' = [peer EXCEPT ![c] = "here"]
  /\ \E info \in Infos \cup {NoInfo, NoIdentity} : answer' = [answer EXCEPT ![c] = info]
  /\ UNCHANGED <<serverVars, redisVars, down, up, pinged, devPinged>>

Running(c) == device[c] \in {"in", "approved"}

\* A write of the device arrives while the server has not closed its socket.
UpAfterWrite(c, q, m) ==
  [up EXCEPT ![c] = IF client[c] \in {"none", "open"} THEN Append(q, m) ELSE q]

\* TimerEmited of the device: a ping every 30 seconds.
DevicePing(c) ==
  /\ Running(c)
  /\ devPinged[c] < MaxPings
  /\ devPinged' = [devPinged EXCEPT ![c] = @ + 1]
  /\ up' = UpAfterWrite(c, up[c], "ping")
  /\ UNCHANGED <<serverVars, redisVars, peer, down, device, answer, pinged>>

\* Mutant of Reply: the request is sent back.
ReplyEcho == [who_are_you |-> "who_are_you", ping |-> "pong",
              pong |-> "approve_ping"]

\* The reply the device's handlers write to a command of the server.
Reply == [who_are_you |-> "i_am", ping |-> "pong", pong |-> "approve_ping"]

DeviceReceive(c, k) ==
  LET m == Head(down[c]) IN
  /\ Running(c)
  /\ k \in ReadSizes(down[c])
  /\ down' = [down EXCEPT ![c] = After(@, k)]
  /\ up' = IF m \in DOMAIN Reply THEN UpAfterWrite(c, up[c], Reply[m]) ELSE up
  /\ device' = [device EXCEPT ![c] = IF m = "approve_ok" THEN "approved" ELSE @]
  /\ UNCHANGED <<serverVars, redisVars, peer, answer, pinged, devPinged>>

\* A read that ends inside a command: the parser answers state_command and
\* closes the connection.
DeviceFragment(c) ==
  /\ Coalesce
  /\ Running(c)
  /\ down[c] # <<>>
  /\ up' = UpAfterWrite(c, up[c], "state_fail")
  /\ device' = [device EXCEPT ![c] = "gone"]
  /\ peer' = [peer EXCEPT ![c] = "fin"]
  /\ UNCHANGED <<serverVars, redisVars, down, answer, pinged, devPinged>>

\* The server closed the socket (what it wrote before may be lost), the program
\* exits, or the machine dies and leaves a half-open connection behind.
DeviceEof(c) ==
  /\ Running(c)
  /\ client[c] \in {"closed", "deleted"}
  /\ device' = [device EXCEPT ![c] = "gone"]
  /\ peer' = [peer EXCEPT ![c] = "fin"]
  /\ UNCHANGED <<serverVars, redisVars, down, up, answer, pinged, devPinged>>

DeviceLeave(c) ==
  /\ Running(c)
  /\ device' = [device EXCEPT ![c] = "gone"]
  /\ \E end \in {"fin", "dead"} : peer' = [peer EXCEPT ![c] = end]
  /\ UNCHANGED <<serverVars, redisVars, down, up, answer, pinged, devPinged>>

Device(c) == \/ DeviceConnect(c)
             \/ DevicePing(c)
             \/ \E k \in 1..Len(down[c]) : DeviceReceive(c, k)
             \/ DeviceFragment(c)
             \/ DeviceEof(c)
             \/ DeviceLeave(c)

-----------------------------------------------------------------------------
(* The inner thread of the server.                                         *)

\* Accepted: the first command of every connection.
Accepted(c) ==
  /\ Free
  /\ client[c] = "none"
  /\ peer[c] # "none"
  /\ client' = [client EXCEPT ![c] = "open"]
  /\ Write(c, "who_are_you")
  /\ UNCHANGED <<hinfo, connections, task, pingTodo, restarts>>
  /\ UNCHANGED <<redisVars, up, deviceVars>>

\* DataReceived takes the first k commands of connection c; m is the first.
Received(c, k, m) ==
  /\ Free
  /\ client[c] = "open"
  /\ k \in ReadSizes(up[c])
  /\ m = Head(up[c])
  /\ up' = [up EXCEPT ![c] = After(@, k)]
  /\ UNCHANGED <<pingTodo, redisVars, deviceVars>>

\* handleInnerRequestCommand: an error of the write is ignored.
ReceivePing(c, k) ==
  /\ Received(c, k, "ping")
  /\ Write(c, "pong")
  /\ UNCHANGED <<client, hinfo, connections, task, restarts>>

\* handleInnerResponceCommand, ping: an error of the write closes.
ReceivePong(c, k) ==
  /\ Received(c, k, "pong")
  /\ Write(c, "approve_ping")
  /\ IF WriteFails(c)
     THEN Close(c)
     ELSE UNCHANGED <<client, hinfo, connections, task, restarts>>

\* findUser: the account exists, its password is right and it has the host;
\* false as well when redis cannot be reached.
FindUser(info, reachable) == reachable /\ info.host \in users[info.login]

\* Mutants of Accepts: without the user store, without the double connection.
AcceptsStranger(info, reachable) ==
  IsValid(info) /\ connections[info.host] = NoConn
AcceptsTwice(info, reachable) == IsValid(info) /\ FindUser(info, reachable)

\* handleInnerResponceCommand, who_are_you, in the order of its checks.
Accepts(info, reachable) ==
  /\ IsValid(info)                       \* or invalid_user
  /\ FindUser(info, reachable)           \* or unregistered_user
  /\ connections[info.host] = NoConn     \* or double_connection_host

\* Mutant of RefuseDevice: the connection is left open.
RefuseAndKeep(c, k) ==
  /\ Received(c, k, "i_am")
  /\ answer[c] # NoIdentity
  /\ \E reachable \in BOOLEAN : ~Accepts(answer[c], reachable)
  /\ Write(c, "approve_fail")
  /\ UNCHANGED <<client, hinfo, connections, task, restarts>>

RefuseDevice(c, k) ==
  /\ Received(c, k, "i_am")
  /\ answer[c] # NoIdentity
  /\ \E reachable \in BOOLEAN : ~Accepts(answer[c], reachable)
  /\ Write(c, "approve_fail")
  /\ Close(c)

\* An answer without an identity, argc > 2 does not hold: the refusal is written,
\* and the connection is neither closed nor registered.  One that says it failed
\* is passed over without a word.
RefuseUnnamed(c, k) ==
  /\ Received(c, k, "i_am")
  /\ answer[c] = NoIdentity
  /\ Write(c, "approve_fail") \/ UNCHANGED <<down, peer>>
  /\ UNCHANGED <<client, hinfo, connections, task, restarts>>

\* The approve is written before the registry is touched; if it cannot be
\* written a second one is tried and the connection is closed.
ApproveDevice(c, k) ==
  /\ Received(c, k, "i_am")
  /\ Accepts(answer[c], TRUE)
  /\ Write(c, "approve_ok")
  /\ IF WriteFails(c)
     THEN Close(c)
     ELSE /\ task' = Doing("register", c)
          /\ UNCHANGED <<client, hinfo, connections, restarts>>

\* Mutant of Register: the registration is not announced.
RegisterSilently ==
  LET c == task.conn IN
  /\ task.step = "register"
  /\ hinfo' = [hinfo EXCEPT ![c] = answer[c]]
  /\ connections' = [connections EXCEPT ![answer[c].host] = c]
  /\ task' = Idle
  /\ UNCHANGED <<client, pingTodo, restarts, redisVars, netVars, deviceVars>>

\* registerInnerConnectionByUser, after the approve was written.
Register ==
  LET c == task.conn IN
  /\ task.step = "register"
  /\ hinfo' = [hinfo EXCEPT ![c] = answer[c]]
  /\ connections' = [connections EXCEPT ![answer[c].host] = c]
  /\ task' = Doing("online", c)
  /\ UNCHANGED <<client, pingTodo, restarts, redisVars, netVars, deviceVars>>

\* Approves of pings, and failures a device reports, change nothing.
ReceiveNoted(c, k) ==
  /\ \E m \in {"approve_ping", "state_fail"} : Received(c, k, m)
  /\ UNCHANGED <<client, hinfo, connections, task, restarts, down, peer>>

\* A read that ends inside a command (see DeviceFragment).
ReceiveFragment(c) ==
  /\ Coalesce
  /\ Free
  /\ client[c] = "open"
  /\ up[c] # <<>>
  /\ Write(c, "state_fail")
  /\ Close(c)
  /\ UNCHANGED <<pingTodo, redisVars, up, deviceVars>>

\* A read that returns nothing or an error.
ReceiveEnd(c) ==
  /\ Free
  /\ client[c] = "open"
  /\ \/ peer[c] = "fin" /\ up[c] = <<>>
     \/ peer[c] = "rst"
  /\ Close(c)
  /\ UNCHANGED <<pingTodo, redisVars, netVars, deviceVars>>

\* publish_clients_state, which fails when redis cannot be reached.  The
\* handler that closes a connection deletes it after the announcement.
Announce ==
  LET c == task.conn
      h == hinfo[c].host IN
  /\ task.step \in {"online", "offline"}
  /\ \/ /\ state' = [state EXCEPT ![h] = IF task.step = "online"
                                         THEN "connected" ELSE "disconnected"]
        /\ unheard' = unheard \ {h}
     \/ /\ unheard' = unheard \cup {h}
        /\ UNCHANGED state
  /\ client' = IF task.step = "offline"
               THEN [client EXCEPT ![c] = "deleted"] ELSE client
  /\ task' = Idle
  /\ UNCHANGED <<hinfo, connections, pingTodo, restarts>>
  /\ UNCHANGED <<users, owned, netVars, deviceVars>>

\* Mutant of TimerEmited: the timer is not the one the handler created.
TimerIgnored == Free /\ UNCHANGED vars

\* TimerEmited, every 60 seconds: the round goes over the open connections.
\* (Living peers are left out of it once they had MaxPings pings.)
TimerEmited ==
  LET online == {c \in Conns : /\ client[c] = "open"
                               /\ peer[c] = "here" => pinged[c] < MaxPings} IN
  /\ Free
  /\ online # {}
  /\ pingTodo' = online
  /\ UNCHANGED <<client, hinfo, connections, task, restarts>>
  /\ UNCHANGED <<redisVars, netVars, deviceVars>>

\* One iteration of its loop: a ping that cannot be written closes.
PingClient(c) ==
  /\ task = Idle
  /\ c \in pingTodo
  /\ pingTodo' = pingTodo \ {c}
  /\ Write(c, "ping")
  /\ pinged' = [pinged EXCEPT ![c] = IF peer[c] = "here" THEN @ + 1 ELSE @]
  /\ IF WriteFails(c)
     THEN Close(c)
     ELSE UNCHANGED <<client, hinfo, connections, task, restarts>>
  /\ UNCHANGED <<redisVars, up, device, answer, devPinged>>

\* The process dies and is started again: its registry is empty, nothing was
\* announced, and the kernel closed every socket.
Restart ==
  /\ restarts < MaxRestarts
  /\ restarts' = restarts + 1
  /\ client' = [c \in Conns |-> IF peer[c] = "none" THEN "none" ELSE "deleted"]
  /\ connections' = [h \in Hosts |-> NoConn]
  /\ task' = Idle
  /\ pingTodo' = {}
  /\ unheard' = unheard
       \cup {h \in Hosts : connections[h] # NoConn}
       \cup (IF task.step = "offline" THEN {hinfo[task.conn].host} ELSE {})
  /\ UNCHANGED <<hinfo, users, owned, state, netVars, deviceVars>>

Receive(c) == \E k \in 1..Len(up[c]) :
                \/ ReceivePing(c, k)
                \/ ReceivePong(c, k)
                \/ RefuseDevice(c, k)
                \/ RefuseUnnamed(c, k)
                \/ ApproveDevice(c, k)
                \/ ReceiveNoted(c, k)

Server == \/ \E c \in Conns : Accepted(c)
          \/ \E c \in Conns : Receive(c)
          \/ \E c \in Conns : ReceiveFragment(c)
          \/ \E c \in Conns : ReceiveEnd(c)
          \/ Register
          \/ Announce
          \/ TimerEmited
          \/ \E c \in Conns : PingClient(c)

\* The front end writes the hosts of an account to the "users" hash when one of
\* its domains is added or removed (front_end/app/routes.js).
UpdateUser ==
  \E u \in Users, h \in Hosts :
    /\ users' = [users EXCEPT ![u] = IF h \in @ THEN @ \ {h} ELSE @ \cup {h}]
    /\ owned' = owned \cup {<<u, h>>}
    /\ UNCHANGED <<serverVars, state, unheard, netVars, deviceVars>>

Next == \/ \E c \in Conns : Device(c)
        \/ Server
        \/ Restart
        \/ UpdateUser

Spec == Init /\ [][Next]_vars

-----------------------------------------------------------------------------
(* Properties.                                                             *)

Registered(c) == \E h \in Hosts : connections[h] = c

\* connections_ holds raw pointers that the http, websocket and redis threads
\* follow.  An entry never points to a connection that was closed, it points to
\* one that was registered under that very host, and no open connection that
\* was registered is missing from it (so it can be reached and unregistered).
RegistryExact ==
  /\ \A h \in Hosts : connections[h] # NoConn =>
       /\ client[connections[h]] = "open"
       /\ hinfo[connections[h]] # NoInfo
       /\ hinfo[connections[h]].host = h
  /\ \A c \in Conns : client[c] = "open" /\ hinfo[c] # NoInfo =>
       connections[hinfo[c].host] = c

\* The pages that follow the clients_state channel see what the registry holds:
\* unless redis lost the last message, or the inner thread is about to publish
\* one, a host was announced "connected" exactly when it has a connection.
AnnouncedExact ==
  \A h \in Hosts :
    \/ h \in unheard
    \/ task.step \in {"online", "offline"} /\ hinfo[task.conn].host = h
    \/ (state[h] = "connected") <=> (connections[h] # NoConn)

\* A device that posted InnerClientConnectedEvent is in the registry as long as
\* the server keeps its connection; only the step between the approve and the
\* registration comes before (a command for the host fails in that window).
ApprovedIsRegistered ==
  \A c \in Conns : device[c] = "approved" /\ client[c] = "open" =>
    Registered(c) \/ task = Doing("register", c)

\* A host is only ever served by a device of an account that had the host in
\* the user store, whatever the front end changes while it is looked up.
OwnerHadHost ==
  \A h \in Hosts : connections[h] # NoConn =>
    <<hinfo[connections[h]].login, h>> \in owned

\* A living device is not thrown out of the registry: neither a second device
\* with the same host, nor a refusal, a ping round or the end of some other
\* connection does it.  (Reads that stop inside a command do: Coalesce.)
LivingOwnerStays ==
  [][\A h \in Hosts : LET c == connections[h] IN
       c # NoConn /\ connections'[h] # c =>
         \/ peer[c] # "here"
         \/ restarts' # restarts]_vars

\* The registry is a host directory (see HostDirectory).
claimed == {c \in Conns : hinfo[c] # NoInfo}
Directory == INSTANCE HostDirectory WITH dir <- connections, claimed <- claimed
ImplementsDirectory == Directory!Spec

-----------------------------------------------------------------------------
(* The event loop serves every ready socket, the calls to redis return, and *)
(* the timer of the ping round keeps firing.  Nothing makes a device read,  *)
(* answer, ping or leave.                                                  *)

Fairness ==
  /\ WF_vars(Register) /\ WF_vars(Announce) /\ WF_vars(TimerEmited)
  /\ \A c \in Conns :
       /\ WF_vars(Accepted(c))
       /\ WF_vars(Receive(c))
       /\ WF_vars(ReceiveEnd(c))
       /\ WF_vars(PingClient(c))

FairSpec == Spec /\ Fairness

\* The host of a device that went away, even without closing its socket, is
\* freed again, so that the device can come back under it.
HostFreed ==
  \A c \in Conns : (Registered(c) /\ peer[c] # "here") ~> ~Registered(c)

\* A device that is there and has not read the server's question yet.
Unread(c) == Running(c) /\ \E i \in 1..Len(down[c]) : down[c][i] = "who_are_you"

\* The server does not keep a connection in between: every device it accepted
\* ends up registered or closed, once it has read the question.  (One that
\* answers without an identity is refused but kept: see RefuseUnnamed.)
HandshakeEnds ==
  \A c \in Conns :
    (client[c] = "open" /\ ~Unread(c) /\ answer[c] # NoIdentity)
      ~> (Registered(c) \/ client[c] = "deleted")
=============================================================================
