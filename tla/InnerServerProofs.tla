-------------------------- MODULE InnerServerProofs --------------------------
(***************************************************************************)
(* Proofs about InnerServer, for every set of hosts, accounts and          *)
(* connections and every bound.  RegistryExact and AnnouncedExact are not  *)
(* inductive: what the inner thread is about to do (TaskOK), what a        *)
(* connection that was never accepted looks like (Fresh) and where an      *)
(* identity comes from (Vouched) are needed as well.  That a living device *)
(* stays registered rests on its being asked once who it is (AskedOnce).   *)
(***************************************************************************)
EXTENDS InnerServer, SequenceTheorems, TLAPS

\* A connection that is not there yet has no state anywhere.
Fresh == \A c \in Conns :
  /\ device[c] = "off" => peer[c] = "none"
  /\ peer[c] = "none" => client[c] = "none"
  /\ client[c] = "none" => hinfo[c] = NoInfo

\* Identities come from the device's configuration, and hosts from the store.
Vouched ==
  /\ \A u \in Users : \A h \in users[u] : <<u, h>> \in owned
  /\ \A c \in Conns : hinfo[c] # NoInfo =>
       /\ hinfo[c] = answer[c]
       /\ <<hinfo[c].login, hinfo[c].host>> \in owned

\* What the inner thread knows about the connections it is busy with.
TaskOK ==
  /\ \A c \in pingTodo : client[c] = "open"
  /\ task.step # "idle" => task.conn \in Conns
  /\ task.step = "register" =>
       /\ client[task.conn] = "open"
       /\ hinfo[task.conn] = NoInfo
       /\ answer[task.conn] \in Infos
       /\ connections[answer[task.conn].host] = NoConn
       /\ <<answer[task.conn].login, answer[task.conn].host>> \in owned
  /\ task.step = "online" =>
       /\ client[task.conn] = "open"
       /\ hinfo[task.conn] # NoInfo
  /\ task.step = "offline" =>
       /\ client[task.conn] = "closed"
       /\ hinfo[task.conn] # NoInfo
       /\ connections[hinfo[task.conn].host] = NoConn

Core == Fresh /\ Vouched /\ TaskOK /\ RegistryExact /\ AnnouncedExact

\* Where an approve is on its way or was handled, the server has registered the
\* connection, is about to, or has closed it.
Approving(c) == \/ device[c] = "approved"
                \/ \E i \in 1..Len(down[c]) : down[c][i] = "approve_ok"
ApprovedOK ==
  \A c \in Conns : Approving(c) =>
    \/ client[c] \in {"closed", "deleted"}
    \/ hinfo[c] # NoInfo
    \/ task = Doing("register", c)

\* Each connection is asked once who it is, and answers once: where the question or
\* the answer is still on its way, it is not registered and not about to be.
Has(q, m) == \E i \in 1..Len(q) : q[i] = m
Once(q, m) == \A i, j \in 1..Len(q) : q[i] = m /\ q[j] = m => i = j
Unanswered(c) == Has(down[c], "who_are_you") \/ Has(up[c], "i_am")
AskedAt(c) ==
  /\ Once(down[c], "who_are_you") /\ Once(up[c], "i_am")
  /\ ~(Has(down[c], "who_are_you") /\ Has(up[c], "i_am"))
  /\ Unanswered(c) => client[c] # "none" /\ hinfo[c] = NoInfo /\ task # Doing("register", c)
AskedOnce == \A c \in Conns : AskedAt(c)

IInv == TypeOK /\ Core /\ ApprovedOK /\ AskedOnce

-----------------------------------------------------------------------------
(* What the socket operators return.                                       *)

\* A read of a queue takes an element of it and leaves a queue whose elements
\* were all in it.
LEMMA AfterRead ==
  ASSUME NEW S, NEW q \in Seq(S), NEW k \in ReadSizes(q)
  PROVE  /\ Head(q) \in S
         /\ Len(q) \in Nat
         /\ 1 \in 1..Len(q) /\ Head(q) = q[1]
         /\ After(q, k) \in Seq(S)
         /\ \A i \in 1..Len(After(q, k)) :
              \E j \in 1..Len(q) : After(q, k)[i] = q[j]
<1>1. k \in 1..Len(q) /\ Len(q) \in Nat
  BY DEF ReadSizes
<1>2. \A i \in k+1..Len(q) : q[i] \in S
  BY <1>1
<1>3. /\ SubSeq(q, k+1, Len(q)) \in Seq(S)
      /\ Len(SubSeq(q, k+1, Len(q))) = IF k+1 <= Len(q) THEN Len(q)-k ELSE 0
      /\ \A i \in 1..Len(q)-k : SubSeq(q, k+1, Len(q))[i] = q[k+i]
  BY <1>1, <1>2, SubSeqProperties
<1>4. Head(q) \in S /\ Head(q) = q[1]
  BY <1>1
<1>5. ASSUME NEW i \in 1..Len(After(q, k))
      PROVE  \E j \in 1..Len(q) : After(q, k)[i] = q[j]
  <2>1. i \in 1..Len(q)-k /\ k+i \in 1..Len(q)
    BY <1>1, <1>3 DEF After
  <2>2. After(q, k)[i] = q[k+i]
    BY <1>3, <2>1 DEF After
  <2> QED BY <2>1, <2>2
<1> QED BY <1>1, <1>3, <1>4, <1>5 DEF After

\* A write appends to the queue of its connection, or to none.
LEMMA WriteTypes ==
  ASSUME TypeOK, NEW c \in Conns, NEW m \in DownMsgs, Write(c, m)
  PROVE  /\ down' \in [Conns -> Seq(DownMsgs)]
         /\ peer' \in [Conns -> {"none", "here", "fin", "dead", "rst"}]
         /\ \A d \in Conns : peer'[d] = "none" <=> peer[d] = "none"
BY DEF TypeOK, Write, DownAfterWrite, PeerAfterWrite

\* A write of anything but the approve of a device adds no approve.
LEMMA WriteApproves ==
  ASSUME TypeOK, NEW c \in Conns, NEW m \in DownMsgs, Write(c, m),
         NEW d \in Conns, NEW i \in 1..Len(down'[d]),
         down'[d][i] = "approve_ok", m # "approve_ok" \/ d # c
  PROVE  \E j \in 1..Len(down[d]) : down[d][j] = "approve_ok"
<1>1. down[d] \in Seq(DownMsgs)
  BY DEF TypeOK
<1>2. CASE d = c /\ peer[c] = "here"
  <2>1. down'[d] = Append(down[d], m)
    BY <1>2 DEF TypeOK, Write, DownAfterWrite
  <2> QED BY <1>1, <1>2, <2>1
<1>3. CASE ~(d = c /\ peer[c] = "here")
  <2>1. down'[d] = down[d]
    BY <1>3 DEF TypeOK, Write, DownAfterWrite
  <2> QED BY <2>1
<1> QED BY <1>2, <1>3

\* A write of the device keeps the queue to the server one of its commands.
LEMMA UpTypes ==
  ASSUME TypeOK, NEW c \in Conns, NEW q \in Seq(UpMsgs), NEW m \in UpMsgs
  PROVE  UpAfterWrite(c, q, m) \in [Conns -> Seq(UpMsgs)]
BY DEF TypeOK, UpAfterWrite

\* The identities a connection may have been registered under.
LEMMA Identity ==
  ASSUME TypeOK, NEW c \in Conns
  PROVE  IsValid(hinfo[c]) <=> hinfo[c] # NoInfo
BY NoInfoAssumption DEF TypeOK, IsValid

-----------------------------------------------------------------------------
(* Type correctness.                                                       *)

LEMMA InitTypeOK == Init => TypeOK
BY InnerServerAssumption DEF Init, TypeOK, Idle, Steps

\* Closing a connection.
LEMMA CloseTypes ==
  ASSUME TypeOK, NEW c \in Conns, Close(c)
  PROVE  /\ client' \in [Conns -> {"none", "open", "closed", "deleted"}]
         /\ hinfo' \in [Conns -> Infos \cup {NoInfo}]
         /\ connections' \in [Hosts -> Conns \cup {NoConn}]
         /\ task' \in [step : Steps, conn : Conns \cup {NoConn}]
         /\ restarts' \in Nat
<1>1. connections' \in [Hosts -> Conns \cup {NoConn}]
  BY DEF TypeOK, Close, UnRegistered
<1>2. /\ client' \in [Conns -> {"none", "open", "closed", "deleted"}]
      /\ task' \in [step : Steps, conn : Conns \cup {NoConn}]
  <2>1. Idle \in [step : Steps, conn : Conns \cup {NoConn}]
    BY DEF Idle, Steps
  <2>2. Doing("offline", c) \in [step : Steps, conn : Conns \cup {NoConn}]
    BY DEF Doing, Steps
  <2>3. \A s \in {"closed", "deleted"} : [client EXCEPT ![c] = s]
                 \in [Conns -> {"none", "open", "closed", "deleted"}]
    BY DEF TypeOK
  <2> QED BY <2>1, <2>2, <2>3 DEF Close
<1>3. UNCHANGED <<hinfo, restarts>>
  BY DEF Close
<1> QED BY <1>1, <1>2, <1>3 DEF TypeOK

\* A device step.
LEMMA DeviceTypes ==
  ASSUME TypeOK, NEW c \in Conns, Device(c)
  PROVE  TypeOK'
<1> USE DEF serverVars, redisVars
<1>1. CASE DeviceConnect(c)
  BY <1>1 DEF TypeOK, DeviceConnect
<1>2. CASE DevicePing(c)
  <2>1. up' \in [Conns -> Seq(UpMsgs)]
    <3>1. up[c] \in Seq(UpMsgs) /\ "ping" \in UpMsgs /\ up' = UpAfterWrite(c, up[c], "ping")
      BY <1>2 DEF TypeOK, DevicePing, UpMsgs
    <3> QED BY <3>1, UpTypes
  <2>2. devPinged' \in [Conns -> Nat]
    BY <1>2 DEF TypeOK, DevicePing
  <2> QED BY <1>2, <2>1, <2>2 DEF TypeOK, DevicePing
<1>3. CASE \E k \in 1..Len(down[c]) : DeviceReceive(c, k)
  <2> PICK k \in 1..Len(down[c]) : DeviceReceive(c, k)
    BY <1>3
  <2>1. k \in ReadSizes(down[c]) /\ down[c] \in Seq(DownMsgs)
    BY DEF DeviceReceive, TypeOK
  <2>2. After(down[c], k) \in Seq(DownMsgs)
    BY <2>1, AfterRead
  <2>3. up' \in [Conns -> Seq(UpMsgs)]
    <3>1. \A m \in DOMAIN Reply : Reply[m] \in UpMsgs
      BY DEF Reply, UpMsgs
    <3>2. up[c] \in Seq(UpMsgs) /\ up \in [Conns -> Seq(UpMsgs)]
      BY DEF TypeOK
    <3>3. up' = IF Head(down[c]) \in DOMAIN Reply
                THEN UpAfterWrite(c, up[c], Reply[Head(down[c])]) ELSE up
      BY DEF DeviceReceive
    <3> QED BY <3>1, <3>2, <3>3, UpTypes
  <2>4. down' \in [Conns -> Seq(DownMsgs)]
    BY <2>2 DEF DeviceReceive, TypeOK
  <2>5. device' \in [Conns -> {"off", "in", "approved", "gone"}]
    BY DEF DeviceReceive, TypeOK
  <2> QED BY <2>3, <2>4, <2>5 DEF TypeOK, DeviceReceive
<1>4. CASE DeviceFragment(c)
  <2>1. up' \in [Conns -> Seq(UpMsgs)]
    BY <1>4, UpTypes DEF TypeOK, DeviceFragment, UpMsgs
  <2> QED BY <1>4, <2>1 DEF TypeOK, DeviceFragment
<1>5. CASE DeviceEof(c)
  BY <1>5 DEF TypeOK, DeviceEof
<1>6. CASE DeviceLeave(c)
  BY <1>6 DEF TypeOK, DeviceLeave
<1> QED BY <1>1, <1>2, <1>3, <1>4, <1>5, <1>6 DEF Device

\* A step of the inner thread that receives a command.
LEMMA ReceiveTypes ==
  ASSUME TypeOK, NEW c \in Conns, Receive(c)
  PROVE  TypeOK'
<1> PICK k \in 1..Len(up[c]) : \/ ReceivePing(c, k)
                              \/ ReceivePong(c, k)
                              \/ RefuseDevice(c, k)
                              \/ RefuseUnnamed(c, k)
                              \/ ApproveDevice(c, k)
                              \/ ReceiveNoted(c, k)
  BY DEF Receive
<1>1. PICK m : Received(c, k, m)
  BY DEF ReceivePing, ReceivePong, RefuseDevice, RefuseUnnamed, ApproveDevice, ReceiveNoted
<1>2. up' \in [Conns -> Seq(UpMsgs)]
  <2>1. k \in ReadSizes(up[c]) /\ up[c] \in Seq(UpMsgs)
    BY <1>1 DEF Received, TypeOK
  <2>2. After(up[c], k) \in Seq(UpMsgs)
    BY <2>1, AfterRead
  <2> QED BY <1>1, <2>2 DEF Received, TypeOK
<1>3. /\ pingTodo' \in SUBSET Conns
      /\ users' \in [Users -> SUBSET Hosts]
      /\ owned' \in SUBSET (Users \X Hosts)
      /\ state' \in [Hosts -> {"never", "connected", "disconnected"}]
      /\ unheard' \in SUBSET Hosts
      /\ device' \in [Conns -> {"off", "in", "approved", "gone"}]
      /\ answer' \in [Conns -> Infos \cup {NoInfo, NoIdentity}]
      /\ pinged' \in [Conns -> Nat]
      /\ devPinged' \in [Conns -> Nat]
  BY <1>1 DEF Received, redisVars, deviceVars, TypeOK
<1>4. /\ down' \in [Conns -> Seq(DownMsgs)]
      /\ peer' \in [Conns -> {"none", "here", "fin", "dead", "rst"}]
  <2>1. (\E msg \in DownMsgs : Write(c, msg)) \/ UNCHANGED <<down, peer>>
    BY DEF ReceivePing, ReceivePong, RefuseDevice, RefuseUnnamed, ApproveDevice, ReceiveNoted,
           DownMsgs
  <2> QED BY <2>1, WriteTypes DEF TypeOK
<1>5. /\ client' \in [Conns -> {"none", "open", "closed", "deleted"}]
      /\ hinfo' \in [Conns -> Infos \cup {NoInfo}]
      /\ connections' \in [Hosts -> Conns \cup {NoConn}]
      /\ task' \in [step : Steps, conn : Conns \cup {NoConn}]
      /\ restarts' \in Nat
  <2>1. \/ Close(c)
        \/ UNCHANGED <<client, hinfo, connections, task, restarts>>
        \/ /\ task' = Doing("register", c)
           /\ UNCHANGED <<client, hinfo, connections, restarts>>
    BY DEF ReceivePing, ReceivePong, RefuseDevice, RefuseUnnamed, ApproveDevice, ReceiveNoted
  <2> QED BY <2>1, CloseTypes DEF TypeOK, Doing, Steps
<1> QED BY <1>2, <1>3, <1>4, <1>5 DEF TypeOK

\* TypeOK alone is not inductive: that an announced host is a host needs what
\* the inner thread knows about the connection it announces.
LEMMA StepTypes == TypeOK /\ TaskOK /\ [Next]_vars => TypeOK'
<1> SUFFICES ASSUME TypeOK, TaskOK, [Next]_vars PROVE TypeOK'
  OBVIOUS
<1>0. task.step \in {"online", "offline"} => hinfo[task.conn].host \in Hosts
  BY DEF TypeOK, TaskOK, Infos
<1> USE DEF serverVars, redisVars, netVars, deviceVars
<1>1. CASE \E c \in Conns : Device(c)
  BY <1>1, DeviceTypes
<1>2. CASE \E c \in Conns : Accepted(c)
  <2> PICK c \in Conns : Accepted(c)
    BY <1>2
  <2>1. /\ down' \in [Conns -> Seq(DownMsgs)]
        /\ peer' \in [Conns -> {"none", "here", "fin", "dead", "rst"}]
    BY WriteTypes DEF Accepted, DownMsgs
  <2> QED BY <2>1 DEF Accepted, TypeOK
<1>3. CASE \E c \in Conns : Receive(c)
  BY <1>3, ReceiveTypes
<1>4. CASE \E c \in Conns : ReceiveFragment(c)
  <2> PICK c \in Conns : ReceiveFragment(c)
    BY <1>4
  <2>1. /\ down' \in [Conns -> Seq(DownMsgs)]
        /\ peer' \in [Conns -> {"none", "here", "fin", "dead", "rst"}]
    BY WriteTypes DEF ReceiveFragment, DownMsgs
  <2>2. Close(c)
    BY DEF ReceiveFragment
  <2> QED BY <2>1, <2>2, CloseTypes DEF ReceiveFragment, TypeOK
<1>5. CASE \E c \in Conns : ReceiveEnd(c)
  <2> PICK c \in Conns : ReceiveEnd(c)
    BY <1>5
  <2>1. Close(c)
    BY DEF ReceiveEnd
  <2> QED BY <2>1, CloseTypes DEF ReceiveEnd, TypeOK
<1>6. CASE Register
  <2>1. task.conn \in Conns /\ answer[task.conn] \in Infos
    BY <1>6 DEF Register, TaskOK
  <2> QED BY <1>6, <2>1 DEF Register, TypeOK, Doing, Steps
<1>7. CASE Announce
  BY <1>0, <1>7 DEF Announce, TypeOK, Idle, Steps
<1>8. CASE TimerEmited
  BY <1>8 DEF TimerEmited, TypeOK
<1>9. CASE \E c \in Conns : PingClient(c)
  <2> PICK c \in Conns : PingClient(c)
    BY <1>9
  <2>1. /\ down' \in [Conns -> Seq(DownMsgs)]
        /\ peer' \in [Conns -> {"none", "here", "fin", "dead", "rst"}]
    BY WriteTypes DEF PingClient, DownMsgs
  <2>2. Close(c) \/ UNCHANGED <<client, hinfo, connections, task, restarts>>
    BY DEF PingClient
  <2>3. pinged' \in [Conns -> Nat]
    BY DEF PingClient, TypeOK
  <2> QED BY <2>1, <2>2, <2>3, CloseTypes DEF PingClient, TypeOK
<1>10. CASE Restart
  BY <1>0, <1>10 DEF Restart, TypeOK, Idle, Steps
<1>11. CASE UpdateUser
  BY <1>11 DEF UpdateUser, TypeOK
<1>12. CASE UNCHANGED vars
  BY <1>12 DEF vars, TypeOK
<1> QED BY <1>1, <1>2, <1>3, <1>4, <1>5, <1>6, <1>7, <1>8, <1>9, <1>10,
           <1>11, <1>12 DEF Next, Server

-----------------------------------------------------------------------------
(* The registry.                                                           *)

\* Closing an open connection from the loop keeps the core of the invariant.
LEMMA CloseCore ==
  ASSUME TypeOK, Core, NEW c \in Conns, Close(c),
         client[c] = "open", task = Idle, pingTodo' \subseteq pingTodo \ {c},
         UNCHANGED <<users, owned, state, unheard, device, answer>>,
         \A d \in Conns : peer'[d] = "none" <=> peer[d] = "none"
  PROVE  Core'
<1> USE DEF Idle, Doing
<1>1. CASE hinfo[c] = NoInfo
  <2>1. /\ client' = [client EXCEPT ![c] = "deleted"]
        /\ task' = Idle
        /\ UNCHANGED <<connections, hinfo>>
    BY <1>1, Identity DEF Close, UnRegistered
  <2>2. \A h \in Hosts : connections[h] # c
    BY <1>1, InnerServerAssumption DEF Core, RegistryExact
  <2>3. Fresh' /\ Vouched' /\ TaskOK'
    BY <2>1 DEF Core, Fresh, Vouched, TaskOK, TypeOK
  <2>4. RegistryExact'
    BY <2>1, <2>2 DEF Core, RegistryExact, TypeOK
  <2>5. AnnouncedExact'
    BY <2>1 DEF Core, AnnouncedExact
  <2> QED BY <2>3, <2>4, <2>5 DEF Core
<1>2. CASE hinfo[c] # NoInfo
  <2> DEFINE h == hinfo[c].host
  <2>0. h \in Hosts /\ connections[h] = c /\ c # NoConn
    BY <1>2, InnerServerAssumption DEF Core, RegistryExact, TypeOK, Infos
  <2>1. /\ client' = [client EXCEPT ![c] = "closed"]
        /\ task' = Doing("offline", c)
        /\ connections' = [connections EXCEPT ![h] = NoConn]
        /\ UNCHANGED hinfo
    BY <1>2, Identity DEF Close, UnRegistered
  <2>3. Fresh' /\ Vouched'
    BY <2>1 DEF Core, Fresh, Vouched, TypeOK
  <2>4. TaskOK'
    BY <1>2, <2>0, <2>1 DEF Core, TaskOK, TypeOK
  <2>5. RegistryExact'
    <3>1. ASSUME NEW g \in Hosts, connections'[g] # NoConn
          PROVE  /\ client'[connections'[g]] = "open"
                 /\ hinfo'[connections'[g]] # NoInfo
                 /\ hinfo'[connections'[g]].host = g
      <4>1. g # h /\ connections'[g] = connections[g] /\ connections[g] \in Conns
        BY <2>0, <2>1, <3>1 DEF TypeOK
      <4>2. connections[g] # c
        BY <4>1, <3>1 DEF Core, RegistryExact
      <4> QED BY <4>1, <4>2, <2>1, <3>1 DEF Core, RegistryExact, TypeOK
    <3>2. ASSUME NEW d \in Conns, client'[d] = "open", hinfo'[d] # NoInfo
          PROVE  connections'[hinfo'[d].host] = d
      <4>1. d # c /\ client[d] = "open" /\ hinfo'[d] = hinfo[d]
        BY <2>1, <3>2 DEF TypeOK
      <4>2. connections[hinfo[d].host] = d
        BY <4>1, <3>2 DEF Core, RegistryExact
      <4>3. hinfo[d].host # h
        BY <4>1, <4>2, <2>0
      <4> QED BY <4>1, <4>2, <4>3, <2>1 DEF TypeOK
    <3> QED BY <3>1, <3>2 DEF RegistryExact
  <2>6. AnnouncedExact'
    BY <2>0, <2>1 DEF Core, AnnouncedExact, TypeOK
  <2> QED BY <2>3, <2>4, <2>5, <2>6 DEF Core
<1> QED BY <1>1, <1>2

\* A step that touches neither the registry nor what the core says of it.
LEMMA KeepCore ==
  ASSUME TypeOK, Core,
         UNCHANGED <<client, hinfo, connections, task>>,
         \A c \in pingTodo' : client[c] = "open",
         UNCHANGED <<users, owned, state, unheard, answer>>,
         \A c \in Conns : device'[c] = "off" =>
                            device[c] = "off" /\ peer'[c] = peer[c],
         \A c \in Conns : peer'[c] = "none" => peer[c] = "none"
  PROVE  Core'
<1>1. Fresh'
  <2> SUFFICES ASSUME NEW c \in Conns
               PROVE  /\ device'[c] = "off" => peer'[c] = "none"
                      /\ peer'[c] = "none" => client[c] = "none"
                      /\ client[c] = "none" => hinfo[c] = NoInfo
    BY DEF Fresh
  <2>1. device'[c] = "off" => peer'[c] = "none"
    BY DEF Core, Fresh
  <2>2. peer'[c] = "none" => client[c] = "none"
    BY DEF Core, Fresh
  <2>3. client[c] = "none" => hinfo[c] = NoInfo
    BY DEF Core, Fresh
  <2> QED BY <2>1, <2>2, <2>3
<1>2. Vouched' /\ TaskOK'
  BY DEF Core, Vouched, TaskOK
<1>3. RegistryExact' /\ AnnouncedExact'
  BY DEF Core, RegistryExact, AnnouncedExact
<1> QED BY <1>1, <1>2, <1>3 DEF Core

LEMMA InitCore == Init => Core
BY DEF Init, Core, Fresh, Vouched, TaskOK, RegistryExact, AnnouncedExact, Idle

\* The devices only add connections, or end them on their side.
LEMMA DeviceCore ==
  ASSUME TypeOK, Core, NEW c \in Conns, Device(c)
  PROVE  Core'
<1> USE DEF serverVars, redisVars
<1>1. CASE DeviceConnect(c)
  <2>1. client[c] = "none" /\ hinfo[c] = NoInfo /\ device[c] = "off"
    BY <1>1 DEF DeviceConnect, Core, Fresh
  <2>2. Fresh' /\ Vouched'
    BY <1>1, <2>1 DEF DeviceConnect, Core, Fresh, Vouched, TypeOK
  <2>3. TaskOK'
    <3>1. task.step = "register" => task.conn # c
      BY <2>1 DEF Core, TaskOK
    <3>2. \A d \in Conns : d # c => answer'[d] = answer[d]
      BY <1>1 DEF DeviceConnect, TypeOK
    <3> QED BY <1>1, <3>1, <3>2 DEF DeviceConnect, Core, TaskOK
  <2>4. RegistryExact' /\ AnnouncedExact'
    BY <1>1 DEF DeviceConnect, Core, RegistryExact, AnnouncedExact
  <2> QED BY <2>2, <2>3, <2>4 DEF Core
<1>2. CASE ~DeviceConnect(c)
  <2>1. /\ UNCHANGED <<client, hinfo, connections, task, pingTodo>>
        /\ UNCHANGED <<users, owned, state, unheard, answer>>
        /\ \A d \in pingTodo' : client[d] = "open"
    BY <1>2 DEF Device, DevicePing, DeviceReceive, DeviceFragment, DeviceEof,
                DeviceLeave, Core, TaskOK
  <2>2. peer[c] # "none" => peer'[c] # "none"
    BY <1>2 DEF Device, DevicePing, DeviceReceive, DeviceFragment, DeviceEof,
                DeviceLeave, TypeOK
  <2>3. /\ Running(c)
        /\ \A d \in Conns : device'[d] = "off" => device[d] = "off"
    BY <1>2 DEF Device, DevicePing, DeviceReceive, DeviceFragment, DeviceEof,
                DeviceLeave, TypeOK, Running
  <2>4. \A d \in Conns : d # c => peer'[d] = peer[d]
    BY <1>2 DEF Device, DevicePing, DeviceReceive, DeviceFragment, DeviceEof,
                DeviceLeave, TypeOK
  <2> QED BY <2>1, <2>2, <2>3, <2>4, KeepCore DEF Running
<1> QED BY <1>1, <1>2

\* A step of the inner thread that receives a command.
LEMMA ReceiveCore ==
  ASSUME TypeOK, Core, NEW c \in Conns, Receive(c)
  PROVE  Core'
<1> PICK k \in 1..Len(up[c]) : \/ ReceivePing(c, k)
                              \/ ReceivePong(c, k)
                              \/ RefuseDevice(c, k)
                              \/ RefuseUnnamed(c, k)
                              \/ ApproveDevice(c, k)
                              \/ ReceiveNoted(c, k)
  BY DEF Receive
<1>1. PICK m : Received(c, k, m)
  BY DEF ReceivePing, ReceivePong, RefuseDevice, RefuseUnnamed, ApproveDevice, ReceiveNoted
<1>2. /\ client[c] = "open" /\ task = Idle
      /\ pingTodo = {} /\ pingTodo' = {}
      /\ UNCHANGED <<users, owned, state, unheard, device, answer>>
  BY <1>1 DEF Received, Free, redisVars, deviceVars
<1>3. \A d \in Conns : peer'[d] = "none" <=> peer[d] = "none"
  <2>1. (\E n \in DownMsgs : Write(c, n)) \/ UNCHANGED <<down, peer>>
    BY DEF ReceivePing, ReceivePong, RefuseDevice, RefuseUnnamed, ApproveDevice, ReceiveNoted,
           DownMsgs
  <2> QED BY <2>1, WriteTypes
<1>4. CASE Close(c)
  BY <1>2, <1>3, <1>4, CloseCore
<1>5. CASE UNCHANGED <<client, hinfo, connections, task, restarts>>
  <2>1. \A d \in Conns : device'[d] = "off" => device[d] = "off" /\ peer'[d] = peer[d]
    BY <1>2, <1>3 DEF Core, Fresh
  <2> QED BY <1>2, <1>3, <1>5, <2>1, KeepCore
<1>6. CASE ApproveDevice(c, k) /\ ~WriteFails(c)
  <2>1. /\ task' = Doing("register", c)
        /\ UNCHANGED <<client, hinfo, connections>>
    BY <1>6 DEF ApproveDevice
  <2>2. /\ answer[c] \in Infos
        /\ answer[c].host \in users[answer[c].login]
        /\ connections[answer[c].host] = NoConn
    BY <1>6 DEF ApproveDevice, Accepts, FindUser, IsValid
  <2>3. <<answer[c].login, answer[c].host>> \in owned
    BY <2>2 DEF Core, Vouched, Infos
  <2>4. hinfo[c] = NoInfo
    \* Otherwise the host of c would be taken, by c itself.
    <3>1. hinfo[c] # NoInfo => hinfo[c] = answer[c] /\ connections[hinfo[c].host] = c
      BY <1>2 DEF Core, Vouched, RegistryExact
    <3> QED BY <2>2, <3>1, InnerServerAssumption
  <2>5. TaskOK'
    BY <1>2, <2>1, <2>2, <2>3, <2>4, NoInfoAssumption DEF Core, TaskOK, Doing
  <2>6. Fresh' /\ Vouched' /\ RegistryExact'
    BY <1>2, <1>3, <2>1 DEF Core, Fresh, Vouched, RegistryExact
  <2>7. AnnouncedExact'
    BY <1>2, <2>1 DEF Core, AnnouncedExact, Idle
  <2> QED BY <2>5, <2>6, <2>7 DEF Core
<1> QED BY <1>4, <1>5, <1>6
           DEF ReceivePing, ReceivePong, RefuseDevice, RefuseUnnamed, ApproveDevice, ReceiveNoted

\* Entering the approved device in the registry.
LEMMA RegisterCore ==
  ASSUME TypeOK, Core, Register
  PROVE  Core'
<1> DEFINE c == task.conn
           h == answer[c].host
<1>1. /\ c \in Conns /\ client[c] = "open" /\ hinfo[c] = NoInfo
      /\ answer[c] \in Infos /\ h \in Hosts
      /\ connections[h] = NoConn
      /\ <<answer[c].login, h>> \in owned
  BY DEF Register, Core, TaskOK, TypeOK, Infos
<1>2. /\ hinfo' = [hinfo EXCEPT ![c] = answer[c]]
      /\ connections' = [connections EXCEPT ![h] = c]
      /\ task' = Doing("online", c)
      /\ UNCHANGED <<client, users, owned, state, unheard, peer, device, answer>>
  BY DEF Register, redisVars, netVars, deviceVars
<1>3. answer[c] # NoInfo /\ c # NoConn
  BY <1>1, NoInfoAssumption, InnerServerAssumption
<1>4. Fresh' /\ Vouched'
  <2>1. Fresh'
    BY <1>1, <1>2 DEF Core, Fresh, TypeOK
  <2>2. \A d \in Conns : hinfo'[d] # NoInfo =>
          /\ hinfo'[d] = answer'[d]
          /\ <<hinfo'[d].login, hinfo'[d].host>> \in owned'
    BY <1>1, <1>2 DEF Core, Vouched, TypeOK
  <2> QED BY <1>2, <2>1, <2>2 DEF Core, Vouched
<1>5. TaskOK'
  <2>1. pingTodo' = pingTodo
    BY DEF Register
  <2> QED BY <1>1, <1>2, <1>3, <2>1 DEF Core, TaskOK, Doing, TypeOK
<1>6. RegistryExact'
  <2>1. ASSUME NEW g \in Hosts, connections'[g] # NoConn
        PROVE  /\ client'[connections'[g]] = "open"
               /\ hinfo'[connections'[g]] # NoInfo
               /\ hinfo'[connections'[g]].host = g
    <3>1. CASE g = h
      BY <1>1, <1>2, <1>3, <3>1 DEF TypeOK
    <3>2. CASE g # h
      <4>1. connections'[g] = connections[g] /\ connections[g] \in Conns
        BY <1>1, <1>2, <3>2, <2>1 DEF TypeOK
      <4>2. connections[g] # c
        BY <1>1, <2>1, <4>1 DEF Core, RegistryExact
      <4> QED BY <1>2, <2>1, <4>1, <4>2 DEF Core, RegistryExact, TypeOK
    <3> QED BY <3>1, <3>2
  <2>2. ASSUME NEW d \in Conns, client'[d] = "open", hinfo'[d] # NoInfo
        PROVE  connections'[hinfo'[d].host] = d
    <3>1. CASE d = c
      BY <1>1, <1>2, <3>1 DEF TypeOK
    <3>2. CASE d # c
      <4>1. client[d] = "open" /\ hinfo'[d] = hinfo[d]
        BY <1>2, <2>2, <3>2 DEF TypeOK
      <4>2. connections[hinfo[d].host] = d
        BY <2>2, <4>1 DEF Core, RegistryExact
      <4>3. hinfo[d].host # h
        BY <1>1, <4>2, InnerServerAssumption
      <4> QED BY <1>2, <4>1, <4>2, <4>3 DEF TypeOK
    <3> QED BY <3>1, <3>2
  <2> QED BY <2>1, <2>2 DEF RegistryExact
<1>7. AnnouncedExact'
  <2>1. ASSUME NEW g \in Hosts, g # h
        PROVE  g \in unheard \/ ((state[g] = "connected") <=> (connections[g] # NoConn))
    BY DEF Register, Core, AnnouncedExact
  <2>2. task'.step = "online" /\ hinfo'[task'.conn].host = h
    BY <1>1, <1>2 DEF Doing, TypeOK
  <2>3. \A g \in Hosts : g # h => connections'[g] = connections[g]
    BY <1>2 DEF TypeOK
  <2> QED BY <1>2, <2>1, <2>2, <2>3 DEF AnnouncedExact
<1> QED BY <1>4, <1>5, <1>6, <1>7 DEF Core

\* Announcing it, or the end of a connection, which is deleted then.
LEMMA AnnounceCore ==
  ASSUME TypeOK, Core, Announce
  PROVE  Core'
<1> DEFINE c == task.conn
           h == hinfo[c].host
<1>1. /\ c \in Conns /\ hinfo[c] # NoInfo /\ h \in Hosts
      /\ task.step = "online" => client[c] = "open" /\ connections[h] = c
      /\ task.step = "offline" => client[c] = "closed" /\ connections[h] = NoConn
  BY DEF Announce, Core, TaskOK, RegistryExact, TypeOK, Infos
<1>2. /\ task' = Idle
      /\ UNCHANGED <<hinfo, connections, users, owned, peer, device, answer>>
      /\ UNCHANGED pingTodo
      /\ task.step \in {"online", "offline"}
  BY DEF Announce, netVars, deviceVars
<1>3. /\ \A d \in Conns : d # c => client'[d] = client[d]
      /\ task.step = "online" => client' = client
      /\ task.step = "offline" => client'[c] = "deleted"
  BY <1>1 DEF Announce, TypeOK
<1>4. Fresh' /\ Vouched' /\ TaskOK'
  <2>1. Fresh'
    BY <1>1, <1>2, <1>3 DEF Core, Fresh
  <2>2. Vouched'
    BY <1>2 DEF Core, Vouched
  <2>3. TaskOK'
    <3>1. \A d \in pingTodo : d \in Conns /\ client[d] = "open"
      BY DEF Core, TaskOK, TypeOK
    <3>2. \A d \in pingTodo : client'[d] = "open"
      BY <1>1, <1>2, <1>3, <3>1
    <3> QED BY <1>2, <3>2 DEF TaskOK, Idle
  <2> QED BY <2>1, <2>2, <2>3
<1>5. RegistryExact'
  <2>1. \A d \in Conns : client'[d] = "open" <=> client[d] = "open"
    BY <1>1, <1>2, <1>3
  <2>2. \A g \in Hosts : connections[g] # NoConn => connections[g] \in Conns
    BY DEF TypeOK
  <2> QED BY <1>2, <2>1, <2>2 DEF Core, RegistryExact
<1>6. AnnouncedExact'
  <2>1. ASSUME NEW g \in Hosts, g # h
        PROVE  /\ g \in unheard' <=> g \in unheard
               /\ state'[g] = state[g]
               /\ g \in unheard \/ ((state[g] = "connected") <=> (connections[g] # NoConn))
    <3>1. g \in unheard' <=> g \in unheard
      BY <2>1 DEF Announce
    <3>2. state'[g] = state[g]
      BY <2>1 DEF Announce, TypeOK
    <3>3. g \in unheard \/ ((state[g] = "connected") <=> (connections[g] # NoConn))
      BY <2>1 DEF Core, AnnouncedExact
    <3> QED BY <3>1, <3>2, <3>3
  <2>2. h \in unheard' \/ ((state'[h] = "connected") <=> (connections[h] # NoConn))
    <3>1. CASE h \in unheard'
      BY <3>1
    <3>2. CASE h \notin unheard'
      <4>1. state'[h] = IF task.step = "online" THEN "connected" ELSE "disconnected"
        BY <1>1, <3>2 DEF Announce, TypeOK
      <4> QED BY <1>1, <1>2, <4>1, InnerServerAssumption
    <3> QED BY <3>1, <3>2
  <2> QED BY <1>2, <2>1, <2>2 DEF AnnouncedExact
<1> QED BY <1>4, <1>5, <1>6 DEF Core

\* A restart leaves no connection, and nobody is told.
LEMMA RestartCore ==
  ASSUME TypeOK, Core, Restart
  PROVE  Core'
<1>1. /\ client' = [c \in Conns |-> IF peer[c] = "none" THEN "none" ELSE "deleted"]
      /\ connections' = [h \in Hosts |-> NoConn]
      /\ task' = Idle
      /\ pingTodo' = {}
      /\ UNCHANGED <<hinfo, users, owned, state, peer, device, answer>>
  BY DEF Restart, netVars, deviceVars
<1>2. Fresh' /\ Vouched' /\ TaskOK'
  BY <1>1 DEF Core, Fresh, Vouched, TaskOK, Idle
<1>3. RegistryExact'
  BY <1>1 DEF RegistryExact
<1>4. AnnouncedExact'
  <2> SUFFICES ASSUME NEW h \in Hosts
               PROVE  h \in unheard' \/ state'[h] # "connected"
    BY <1>1 DEF AnnouncedExact
  <2>1. CASE connections[h] # NoConn
    BY <2>1 DEF Restart
  <2>2. CASE task.step = "offline" /\ hinfo[task.conn].host = h
    BY <2>2 DEF Restart
  <2>3. CASE connections[h] = NoConn /\ ~(task.step = "offline" /\ hinfo[task.conn].host = h)
    <3>1. h \in unheard => h \in unheard'
      BY DEF Restart
    <3>2. ~(task.step = "online" /\ hinfo[task.conn].host = h)
      BY <2>3, InnerServerAssumption DEF Core, TaskOK, RegistryExact
    <3> QED BY <1>1, <2>3, <3>1, <3>2 DEF Core, AnnouncedExact
  <2> QED BY <2>1, <2>2, <2>3
<1> QED BY <1>2, <1>3, <1>4 DEF Core

LEMMA StepCore == TypeOK /\ Core /\ [Next]_vars => Core'
<1> SUFFICES ASSUME TypeOK, Core, [Next]_vars PROVE Core'
  OBVIOUS
<1> USE DEF serverVars, redisVars, netVars, deviceVars
<1>1. CASE \E c \in Conns : Device(c)
  BY <1>1, DeviceCore
<1>2. CASE \E c \in Conns : Accepted(c)
  <2> PICK c \in Conns : Accepted(c)
    BY <1>2
  <2>1. /\ client' = [client EXCEPT ![c] = "open"]
        /\ client[c] = "none" /\ peer[c] # "none" /\ task = Idle
        /\ pingTodo' = {}
        /\ UNCHANGED <<hinfo, connections, task>>
        /\ UNCHANGED <<users, owned, state, unheard, device, answer>>
    BY DEF Accepted, Free
  <2>2. \A d \in Conns : peer'[d] = "none" <=> peer[d] = "none"
    BY WriteTypes DEF Accepted, DownMsgs
  <2>3. hinfo[c] = NoInfo
    BY <2>1 DEF Core, Fresh
  <2>4. Fresh' /\ Vouched' /\ TaskOK'
    BY <2>1, <2>2, <2>3 DEF Core, Fresh, Vouched, TaskOK, TypeOK, Idle
  <2>5. RegistryExact'
    BY <2>1, <2>3 DEF Core, RegistryExact, TypeOK
  <2>6. AnnouncedExact'
    BY <2>1 DEF Core, AnnouncedExact
  <2> QED BY <2>4, <2>5, <2>6 DEF Core
<1>3. CASE \E c \in Conns : Receive(c)
  BY <1>3, ReceiveCore
<1>4. CASE \E c \in Conns : ReceiveFragment(c)
  <2> PICK c \in Conns : ReceiveFragment(c)
    BY <1>4
  <2>1. /\ Close(c) /\ client[c] = "open" /\ task = Idle
        /\ pingTodo = {} /\ pingTodo' = {}
        /\ UNCHANGED <<users, owned, state, unheard, device, answer>>
    BY DEF ReceiveFragment, Free
  <2>2. \A d \in Conns : peer'[d] = "none" <=> peer[d] = "none"
    BY WriteTypes DEF ReceiveFragment, DownMsgs
  <2> QED BY <2>1, <2>2, CloseCore
<1>5. CASE \E c \in Conns : ReceiveEnd(c)
  <2> PICK c \in Conns : ReceiveEnd(c)
    BY <1>5
  <2>1. /\ Close(c) /\ client[c] = "open" /\ task = Idle
        /\ pingTodo = {} /\ pingTodo' = {}
        /\ UNCHANGED <<users, owned, state, unheard, device, answer, peer>>
    BY DEF ReceiveEnd, Free
  <2> QED BY <2>1, CloseCore
<1>6. CASE Register
  BY <1>6, RegisterCore
<1>7. CASE Announce
  BY <1>7, AnnounceCore
<1>8. CASE TimerEmited
  <2>1. /\ UNCHANGED <<client, hinfo, connections, task>>
        /\ UNCHANGED <<redisVars, netVars, deviceVars>>
        /\ \A c \in pingTodo' : client[c] = "open"
    BY <1>8 DEF TimerEmited
  <2> QED BY <2>1, KeepCore
<1>9. CASE \E c \in Conns : PingClient(c)
  <2> PICK c \in Conns : PingClient(c)
    BY <1>9
  <2>1. /\ task = Idle /\ client[c] = "open"
        /\ pingTodo' = pingTodo \ {c}
        /\ \A d \in pingTodo' : client[d] = "open"
        /\ UNCHANGED <<users, owned, state, unheard, device, answer>>
    BY DEF PingClient, Core, TaskOK
  <2>2. \A d \in Conns : peer'[d] = "none" <=> peer[d] = "none"
    BY WriteTypes DEF PingClient, DownMsgs
  <2>3. CASE Close(c)
    BY <2>1, <2>2, <2>3, CloseCore
  <2>4. CASE UNCHANGED <<client, hinfo, connections, task, restarts>>
    <3>1. \A d \in Conns : device'[d] = "off" => device[d] = "off" /\ peer'[d] = peer[d]
      BY <2>1, <2>2 DEF Core, Fresh
    <3> QED BY <2>1, <2>2, <2>4, <3>1, KeepCore
  <2> QED BY <2>3, <2>4 DEF PingClient
<1>10. CASE Restart
  BY <1>10, RestartCore
<1>11. CASE UpdateUser
  <2>1. /\ UNCHANGED <<client, hinfo, connections, task, state, unheard>>
        /\ UNCHANGED <<pingTodo, peer, device, answer>>
    BY <1>11 DEF UpdateUser
  <2>2. owned \subseteq owned'
    BY <1>11 DEF UpdateUser
  <2>3. \A u \in Users : \A h \in users'[u] : <<u, h>> \in owned'
    <3> PICK u \in Users, h \in Hosts :
          /\ users' = [users EXCEPT ![u] = IF h \in @ THEN @ \ {h} ELSE @ \cup {h}]
          /\ owned' = owned \cup {<<u, h>>}
      BY <1>11 DEF UpdateUser
    <3> QED BY DEF Core, Vouched, TypeOK
  <2>4. Fresh' /\ Vouched' /\ TaskOK'
    BY <2>1, <2>2, <2>3 DEF Core, Fresh, Vouched, TaskOK
  <2>5. RegistryExact' /\ AnnouncedExact'
    BY <2>1 DEF Core, RegistryExact, AnnouncedExact
  <2> QED BY <2>4, <2>5 DEF Core
<1>12. CASE UNCHANGED vars
  <2>1. /\ UNCHANGED <<client, hinfo, connections, task, pingTodo>>
        /\ UNCHANGED <<users, owned, state, unheard, device, answer, peer>>
    BY <1>12 DEF vars
  <2> QED BY <2>1, KeepCore DEF Core, TaskOK
<1> QED BY <1>1, <1>2, <1>3, <1>4, <1>5, <1>6, <1>7, <1>8, <1>9, <1>10,
           <1>11, <1>12 DEF Next, Server

-----------------------------------------------------------------------------
(* Approves.                                                               *)

\* What accounts for an approve.
Settled(c) == \/ client[c] \in {"closed", "deleted"}
              \/ hinfo[c] # NoInfo
              \/ task = Doing("register", c)

LEMMA InitApproved == Init => ApprovedOK
<1> SUFFICES ASSUME Init, NEW c \in Conns PROVE ~Approving(c)
  BY DEF ApprovedOK
<1>1. device[c] = "off" /\ down[c] = <<>>
  BY DEF Init
<1> QED BY <1>1 DEF Approving

\* A step in which no approve is added and no connection gets unsettled.
LEMMA KeepApproved ==
  ASSUME ApprovedOK,
         \A c \in Conns : Approving(c)' => Approving(c),
         \A c \in Conns : Settled(c) => Settled(c)'
  PROVE  ApprovedOK'
BY DEF ApprovedOK, Settled

\* Closing a connection settles it.
LEMMA CloseSettles ==
  ASSUME TypeOK, NEW c \in Conns, Close(c), task = Idle
  PROVE  \A d \in Conns : Settled(d) => Settled(d)'
<1> TAKE d \in Conns
<1>1. task # Doing("register", d)
  BY DEF Idle, Doing
<1>2. client'[d] \in {"closed", "deleted"} \/ client'[d] = client[d]
  BY DEF Close, TypeOK
<1>3. hinfo' = hinfo
  BY DEF Close
<1> QED BY <1>1, <1>2, <1>3 DEF Settled

\* Writing anything but the approve.
LEMMA WriteKeeps ==
  ASSUME TypeOK, NEW c \in Conns, NEW m \in DownMsgs, Write(c, m),
         m # "approve_ok", device' = device
  PROVE  \A d \in Conns : Approving(d)' => Approving(d)
BY WriteApproves DEF Approving

\* A device step: what it handles was on its way to it before.
LEMMA DeviceApproved ==
  ASSUME TypeOK, Core, ApprovedOK, NEW c \in Conns, Device(c)
  PROVE  ApprovedOK'
<1>1. \A d \in Conns : Settled(d) => Settled(d)'
  BY DEF Device, DeviceConnect, DevicePing, DeviceReceive, DeviceFragment,
         DeviceEof, DeviceLeave, Settled, serverVars
<1>2. CASE \E k \in 1..Len(down[c]) : DeviceReceive(c, k)
  <2> PICK k \in 1..Len(down[c]) : DeviceReceive(c, k)
    BY <1>2
  <2>1. /\ k \in ReadSizes(down[c]) /\ down[c] \in Seq(DownMsgs)
        /\ down' = [down EXCEPT ![c] = After(@, k)]
        /\ device' = [device EXCEPT ![c] =
             IF Head(down[c]) = "approve_ok" THEN "approved" ELSE @]
    BY DEF DeviceReceive, TypeOK
  <2>2. ASSUME NEW d \in Conns, Approving(d)'
        PROVE  Approving(d)
    <3>1. CASE d = c
      <4>1. down'[c] = After(down[c], k)
        BY <2>1 DEF TypeOK
      <4>2. \A i \in 1..Len(down'[c]) :
              \E j \in 1..Len(down[c]) : down'[c][i] = down[c][j]
        BY <2>1, <4>1, AfterRead
      <4>3. device'[c] = "approved" => device[c] = "approved" \/ Head(down[c]) = "approve_ok"
        BY <2>1 DEF TypeOK
      <4>4. 1 \in 1..Len(down[c]) /\ Head(down[c]) = down[c][1]
        BY <2>1, AfterRead
      <4> QED BY <2>2, <3>1, <4>2, <4>3, <4>4 DEF Approving
    <3>2. CASE d # c
      BY <2>1, <2>2, <3>2 DEF Approving, TypeOK
    <3> QED BY <3>1, <3>2
  <2> QED BY <1>1, <2>2, KeepApproved
<1>3. CASE ~\E k \in 1..Len(down[c]) : DeviceReceive(c, k)
  <2>1. /\ down' = down
        /\ \A d \in Conns : device'[d] = "approved" => device[d] = "approved"
    BY <1>3 DEF Device, DeviceConnect, DevicePing, DeviceFragment, DeviceEof,
                DeviceLeave, TypeOK
  <2> QED BY <1>1, <2>1, KeepApproved DEF Approving
<1> QED BY <1>2, <1>3

\* A step of the inner thread that receives a command.
LEMMA ReceiveApproved ==
  ASSUME TypeOK, Core, ApprovedOK, NEW c \in Conns, Receive(c)
  PROVE  ApprovedOK'
<1> PICK k \in 1..Len(up[c]) : \/ ReceivePing(c, k)
                              \/ ReceivePong(c, k)
                              \/ RefuseDevice(c, k)
                              \/ RefuseUnnamed(c, k)
                              \/ ApproveDevice(c, k)
                              \/ ReceiveNoted(c, k)
  BY DEF Receive
<1>1. PICK m : Received(c, k, m)
  BY DEF ReceivePing, ReceivePong, RefuseDevice, RefuseUnnamed, ApproveDevice, ReceiveNoted
<1>2. task = Idle /\ device' = device
  BY <1>1 DEF Received, Free, deviceVars
<1>3. CASE ~ApproveDevice(c, k)
  <2>1. \A d \in Conns : Approving(d)' => Approving(d)
    <3>1. \/ \E n \in DownMsgs : Write(c, n) /\ n # "approve_ok"
          \/ UNCHANGED <<down, peer>>
      BY <1>3 DEF ReceivePing, ReceivePong, RefuseDevice, RefuseUnnamed, ReceiveNoted, DownMsgs
    <3> QED BY <1>2, <3>1, WriteKeeps DEF Approving
  <2>2. \A d \in Conns : Settled(d) => Settled(d)'
    <3>1. Close(c) \/ UNCHANGED <<client, hinfo, connections, task, restarts>>
      BY <1>3 DEF ReceivePing, ReceivePong, RefuseDevice, RefuseUnnamed, ReceiveNoted
    <3> QED BY <1>2, <3>1, CloseSettles DEF Settled
  <2> QED BY <2>1, <2>2, KeepApproved
<1>4. CASE ApproveDevice(c, k)
  <2>1. Write(c, "approve_ok") /\ "approve_ok" \in DownMsgs
    BY <1>4 DEF ApproveDevice, DownMsgs
  <2>2. ASSUME NEW d \in Conns, d # c, Approving(d)'
        PROVE  Approving(d)
    <3>1. CASE device'[d] = "approved"
      BY <1>2, <3>1 DEF Approving
    <3>2. CASE device'[d] # "approved"
      <4>1. PICK i \in 1..Len(down'[d]) : down'[d][i] = "approve_ok"
        BY <2>2, <3>2 DEF Approving
      <4>2. \E j \in 1..Len(down[d]) : down[d][j] = "approve_ok"
        BY <2>1, <2>2, <4>1, WriteApproves
      <4> QED BY <4>2 DEF Approving
    <3> QED BY <3>1, <3>2
  <2>3. CASE Close(c)
    <3>1. client'[c] \in {"closed", "deleted"}
      BY <2>3 DEF Close, TypeOK
    <3>2. \A d \in Conns : Settled(d) => Settled(d)'
      BY <1>2, <2>3, CloseSettles
    <3> QED BY <2>2, <3>1, <3>2 DEF ApprovedOK, Settled
  <2>4. CASE task' = Doing("register", c) /\ UNCHANGED <<client, hinfo>>
    <3>1. \A d \in Conns : task # Doing("register", d)
      BY <1>2 DEF Idle, Doing
    <3> QED BY <2>2, <2>4, <3>1 DEF ApprovedOK
  <2> QED BY <1>4, <2>3, <2>4 DEF ApproveDevice
<1> QED BY <1>3, <1>4

LEMMA StepApproved == TypeOK /\ Core /\ ApprovedOK /\ [Next]_vars => ApprovedOK'
<1> SUFFICES ASSUME TypeOK, Core, ApprovedOK, [Next]_vars PROVE ApprovedOK'
  OBVIOUS
<1> USE DEF serverVars, redisVars, netVars, deviceVars
<1>1. CASE \E c \in Conns : Device(c)
  BY <1>1, DeviceApproved
<1>2. CASE \E c \in Conns : Accepted(c)
  <2> PICK c \in Conns : Accepted(c)
    BY <1>2
  <2>1. \A d \in Conns : Approving(d)' => Approving(d)
    BY WriteKeeps DEF Accepted, DownMsgs
  <2>2. \A d \in Conns : Settled(d) => Settled(d)'
    BY DEF Accepted, Settled, TypeOK
  <2> QED BY <2>1, <2>2, KeepApproved
<1>3. CASE \E c \in Conns : Receive(c)
  BY <1>3, ReceiveApproved
<1>4. CASE \E c \in Conns : ReceiveFragment(c) \/ ReceiveEnd(c)
  <2> PICK c \in Conns : ReceiveFragment(c) \/ ReceiveEnd(c)
    BY <1>4
  <2>1. Close(c) /\ task = Idle /\ device' = device
    BY DEF ReceiveFragment, ReceiveEnd, Free
  <2>2. Write(c, "state_fail") \/ down' = down
    BY DEF ReceiveFragment, ReceiveEnd
  <2>3. \A d \in Conns : Approving(d)' => Approving(d)
    BY <2>1, <2>2, WriteKeeps DEF Approving, DownMsgs
  <2> QED BY <2>1, <2>3, CloseSettles, KeepApproved
<1>5. CASE Register
  <2>1. task.conn \in Conns /\ answer[task.conn] # NoInfo
    BY <1>5, NoInfoAssumption DEF Register, Core, TaskOK
  <2>2. \A d \in Conns : Settled(d) => Settled(d)'
    <3>1. hinfo' = [hinfo EXCEPT ![task.conn] = answer[task.conn]] /\ client' = client
      BY <1>5 DEF Register
    <3> QED BY <2>1, <3>1 DEF Settled, Doing, TypeOK
  <2>3. device' = device /\ down' = down
    BY <1>5 DEF Register
  <2> QED BY <2>2, <2>3, KeepApproved DEF Approving
<1>6. CASE Announce
  <2>1. \A d \in Conns : task # Doing("register", d)
    BY <1>6 DEF Announce, Doing
  <2>2. \A d \in Conns : client'[d] = client[d] \/ client'[d] = "deleted"
    BY <1>6 DEF Announce, TypeOK
  <2>3. hinfo' = hinfo /\ device' = device /\ down' = down
    BY <1>6 DEF Announce
  <2>4. \A d \in Conns : Settled(d) => Settled(d)'
    BY <2>1, <2>2, <2>3 DEF Settled
  <2> QED BY <2>3, <2>4, KeepApproved DEF Approving
<1>7. CASE TimerEmited \/ UpdateUser \/ UNCHANGED vars
  <2>1. UNCHANGED <<client, hinfo, task, device, down>>
    BY <1>7 DEF TimerEmited, UpdateUser, vars
  <2> QED BY <2>1, KeepApproved DEF Approving, Settled
<1>8. CASE \E c \in Conns : PingClient(c)
  <2> PICK c \in Conns : PingClient(c)
    BY <1>8
  <2>1. \A d \in Conns : Approving(d)' => Approving(d)
    BY WriteKeeps DEF PingClient, DownMsgs
  <2>2. \A d \in Conns : Settled(d) => Settled(d)'
    BY CloseSettles DEF PingClient, Settled
  <2> QED BY <2>1, <2>2, KeepApproved
<1>9. CASE Restart
  \* The connection about to be registered goes with all others.
  <2>1. ASSUME NEW d \in Conns, Approving(d)
        PROVE  Settled(d)'
    <3>1. Settled(d)
      BY <2>1 DEF ApprovedOK, Settled
    <3>2. hinfo' = hinfo /\ client'[d] = IF peer[d] = "none" THEN "none" ELSE "deleted"
      BY <1>9 DEF Restart
    <3>3. peer[d] = "none" => client[d] = "none" /\ task # Doing("register", d)
      BY DEF Core, Fresh, TaskOK, Doing
    <3> QED BY <3>1, <3>2, <3>3 DEF Settled
  <2>2. device' = device /\ down' = down
    BY <1>9 DEF Restart
  <2> QED BY <2>1, <2>2 DEF ApprovedOK, Settled, Approving
<1> QED BY <1>1, <1>2, <1>3, <1>4, <1>5, <1>6, <1>7, <1>8, <1>9
           DEF Next, Server

-----------------------------------------------------------------------------
(* Questions and identities.                                               *)

\* A read takes a message for good.
LEMMA ReadOnce ==
  ASSUME NEW S, NEW q \in Seq(S), NEW k \in ReadSizes(q), NEW m
  PROVE  /\ Has(After(q, k), m) => Has(q, m)
         /\ Once(q, m) => Once(After(q, k), m)
         /\ Once(q, m) /\ Head(q) = m => ~Has(After(q, k), m)
<1>1. k \in 1..Len(q) /\ Len(q) \in Nat
  BY DEF ReadSizes
<1>2. \A i \in k+1..Len(q) : q[i] \in S
  BY <1>1
<1>3. /\ SubSeq(q, k+1, Len(q)) \in Seq(S)
      /\ Len(SubSeq(q, k+1, Len(q))) = IF k+1 <= Len(q) THEN Len(q)-k ELSE 0
      /\ \A i \in 1..Len(q)-k : SubSeq(q, k+1, Len(q))[i] = q[k+i]
  BY <1>1, <1>2, SubSeqProperties
<1>4. \A i \in 1..Len(After(q, k)) :
        /\ i \in Nat /\ k+i \in 1..Len(q) /\ k+i # 1 /\ After(q, k)[i] = q[k+i]
  <2> TAKE i \in 1..Len(After(q, k))
  <2>1. i \in 1..Len(q)-k /\ k+i \in 1..Len(q) /\ k+i # 1 /\ i \in Nat
    BY <1>1, <1>3 DEF After
  <2> QED BY <1>3, <2>1 DEF After
<1>5. Has(After(q, k), m) => Has(q, m)
  BY <1>4 DEF Has
<1>6. ASSUME Once(q, m) PROVE Once(After(q, k), m)
  <2> SUFFICES ASSUME NEW i \in 1..Len(After(q, k)), NEW j \in 1..Len(After(q, k)),
                      After(q, k)[i] = m, After(q, k)[j] = m
               PROVE  i = j
    BY DEF Once
  <2>1. k+i = k+j
    BY <1>4, <1>6 DEF Once
  <2> QED BY <1>1, <1>4, <2>1
<1>7. ASSUME Once(q, m), Head(q) = m PROVE ~Has(After(q, k), m)
  <2>1. 1 \in 1..Len(q) /\ q[1] = m
    BY <1>1, <1>7
  <2> QED BY <1>4, <1>7, <2>1 DEF Once, Has
<1> QED BY <1>5, <1>6, <1>7

LEMMA AppendOnce ==
  ASSUME NEW S, NEW q \in Seq(S), NEW x \in S, NEW m
  PROVE  /\ Has(Append(q, x), m) => Has(q, m) \/ x = m
         /\ Once(q, m) /\ (x # m \/ ~Has(q, m)) => Once(Append(q, x), m)
<1>1. /\ Len(q) \in Nat /\ Len(Append(q, x)) = Len(q) + 1
      /\ \A i \in 1..Len(q) : Append(q, x)[i] = q[i]
      /\ Append(q, x)[Len(q) + 1] = x
  BY AppendProperties, LenProperties
<1>2. \A i \in 1..(Len(q) + 1) : i \in 1..Len(q) \/ i = Len(q) + 1
  BY <1>1
<1>3. Has(Append(q, x), m) => Has(q, m) \/ x = m
  BY <1>1, <1>2 DEF Has
<1>4. Once(q, m) /\ (x # m \/ ~Has(q, m)) => Once(Append(q, x), m)
  BY <1>1, <1>2 DEF Has, Once
<1> QED BY <1>3, <1>4

\* A write to connection c adds one message there.
LEMMA WriteOnce ==
  ASSUME TypeOK, NEW c \in Conns, NEW m \in DownMsgs, Write(c, m), NEW d \in Conns, NEW n
  PROVE  /\ Has(down'[d], n) => Has(down[d], n) \/ (d = c /\ n = m)
         /\ Once(down[d], n) /\ (d # c \/ m # n \/ ~Has(down[d], n)) => Once(down'[d], n)
<1>1. down[d] \in Seq(DownMsgs)
  BY DEF TypeOK
<1>2. \/ d = c /\ down'[d] = Append(down[d], m)
      \/ down'[d] = down[d]
  BY DEF TypeOK, Write, DownAfterWrite
<1>3. /\ Has(Append(down[d], m), n) => Has(down[d], n) \/ m = n
      /\ Once(down[d], n) /\ (m # n \/ ~Has(down[d], n)) => Once(Append(down[d], m), n)
  BY <1>1, AppendOnce
<1>4. CASE d = c /\ down'[d] = Append(down[d], m)
  BY <1>3, <1>4
<1>5. CASE down'[d] = down[d]
  BY <1>5
<1> QED BY <1>2, <1>4, <1>5

\* A connection where nothing is asked or answered that was not before.
LEMMA KeepAsked ==
  ASSUME NEW d, AskedAt(d),
         Once(down'[d], "who_are_you"), Once(up'[d], "i_am"),
         Has(down'[d], "who_are_you") => Has(down[d], "who_are_you"),
         Has(up'[d], "i_am") => Has(up[d], "i_am"),
         Unanswered(d) => client'[d] # "none" /\ hinfo'[d] = hinfo[d] /\ task' # Doing("register", d)
  PROVE  AskedAt(d)'
BY DEF AskedAt, Unanswered

\* Closing forgets no connection and registers none.
LEMMA CloseAsks ==
  ASSUME TypeOK, NEW c \in Conns, Close(c), NEW d \in Conns, client[d] # "none"
  PROVE  client'[d] # "none" /\ hinfo'[d] = hinfo[d] /\ task' # Doing("register", d)
BY DEF Close, TypeOK, Doing, Idle

LEMMA DeviceAsked ==
  ASSUME TypeOK, AskedOnce, NEW c \in Conns, Device(c)
  PROVE  AskedOnce'
<1> SUFFICES ASSUME NEW d \in Conns PROVE AskedAt(d)'
  BY DEF AskedOnce
<1>1. AskedAt(d) /\ up[d] \in Seq(UpMsgs) /\ down[d] \in Seq(DownMsgs)
  BY DEF AskedOnce, TypeOK
<1>2. UNCHANGED <<client, hinfo, task>>
  BY DEF Device, DeviceConnect, DevicePing, DeviceReceive, DeviceFragment, DeviceEof,
         DeviceLeave, serverVars
<1>3. CASE UNCHANGED <<down, up>>
  BY <1>1, <1>2, <1>3, KeepAsked DEF AskedAt
\* What the device says of its own accord.
<1>4. ASSUME NEW m \in UpMsgs \ {"i_am"}, UNCHANGED down, up' = UpAfterWrite(c, up[c], m)
      PROVE  AskedAt(d)'
  <2>1. up'[d] = up[d] \/ up'[d] = Append(up[d], m)
    BY <1>4 DEF UpAfterWrite, TypeOK
  <2>2. Once(up'[d], "i_am") /\ (Has(up'[d], "i_am") => Has(up[d], "i_am"))
    <3>1. Once(up[d], "i_am")
      BY <1>1 DEF AskedAt
    <3>2. /\ Has(Append(up[d], m), "i_am") => Has(up[d], "i_am") \/ m = "i_am"
          /\ m # "i_am" => Once(Append(up[d], m), "i_am")
      BY <1>1, <3>1, AppendOnce
    <3> QED BY <2>1, <3>1, <3>2
  <2> QED BY <1>1, <1>2, <1>4, <2>2, KeepAsked DEF AskedAt
\* What it replies.
<1>5. ASSUME NEW k \in 1..Len(down[c]), DeviceReceive(c, k)
      PROVE  AskedAt(d)'
  <2> DEFINE m == Head(down[c])
  <2>1. /\ k \in ReadSizes(down[c]) /\ down' = [down EXCEPT ![c] = After(@, k)]
        /\ up' = IF m \in DOMAIN Reply THEN UpAfterWrite(c, up[c], Reply[m]) ELSE up
    BY <1>5 DEF DeviceReceive
  <2>2. DOMAIN Reply = {"who_are_you", "ping", "pong"}
        /\ Reply["who_are_you"] = "i_am" /\ Reply["ping"] = "pong" /\ Reply["pong"] = "approve_ping"
    BY DEF Reply
  <2>3. CASE d # c
    <3>1. down'[d] = down[d] /\ up'[d] = up[d]
      BY <2>1, <2>3 DEF UpAfterWrite, TypeOK
    <3> QED BY <1>1, <1>2, <3>1, KeepAsked DEF AskedAt
  <2>4. CASE d = c
    <3>1. down'[c] = After(down[c], k)
      BY <2>1 DEF TypeOK
    <3>2. /\ Has(down'[c], "who_are_you") => Has(down[c], "who_are_you")
          /\ Once(down'[c], "who_are_you")
          /\ m = "who_are_you" => ~Has(down'[c], "who_are_you")
      BY <1>1, <2>1, <2>4, <3>1, ReadOnce DEF AskedAt
    <3>3. CASE m = "who_are_you"
      <4>1. Has(down[c], "who_are_you")
        BY <1>1, <2>1, <2>4, <3>3, AfterRead DEF Has
      <4>2. up'[c] = up[c] \/ up'[c] = Append(up[c], "i_am")
        BY <2>1, <2>2, <3>3 DEF UpAfterWrite, TypeOK
      <4>3. ~Has(up[c], "i_am") /\ Once(up[c], "i_am")
        BY <1>1, <2>4, <4>1 DEF AskedAt
      <4>4. Once(up'[c], "i_am")
        <5>1. "i_am" \in UpMsgs /\ up[c] \in Seq(UpMsgs)
          BY <1>1, <2>4 DEF UpMsgs
        <5>2. Once(Append(up[c], "i_am"), "i_am")
          BY <4>3, <5>1, AppendOnce
        <5> QED BY <4>2, <4>3, <5>2
      <4> QED BY <1>1, <1>2, <2>4, <3>2, <3>3, <4>1, <4>4 DEF AskedAt, Unanswered
    <3>4. CASE m # "who_are_you"
      <4>1. \/ up'[c] = up[c]
            \/ \E r \in UpMsgs \ {"i_am"} : up'[c] = Append(up[c], r)
        <5>1. {"pong", "approve_ping"} \subseteq UpMsgs \ {"i_am"}
          BY DEF UpMsgs
        <5> QED BY <2>1, <2>2, <3>4, <5>1 DEF UpAfterWrite, TypeOK
      <4>2. Once(up'[c], "i_am") /\ (Has(up'[c], "i_am") => Has(up[c], "i_am"))
        <5>1. Once(up[c], "i_am") /\ up[c] \in Seq(UpMsgs)
          BY <1>1, <2>4 DEF AskedAt
        <5>2. \A r \in UpMsgs \ {"i_am"} :
                /\ Once(Append(up[c], r), "i_am")
                /\ Has(Append(up[c], r), "i_am") => Has(up[c], "i_am")
          BY <5>1, AppendOnce
        <5>3. CASE up'[c] = up[c]
          BY <5>1, <5>3
        <5>4. ASSUME NEW r \in UpMsgs \ {"i_am"}, up'[c] = Append(up[c], r)
              PROVE  Once(up'[c], "i_am") /\ (Has(up'[c], "i_am") => Has(up[c], "i_am"))
          BY <5>2, <5>4
        <5> QED BY <4>1, <5>3, <5>4
      <4> QED BY <1>1, <1>2, <2>4, <3>2, <4>2, KeepAsked DEF AskedAt
    <3> QED BY <3>3, <3>4
  <2> QED BY <2>3, <2>4
<1>6. CASE DeviceConnect(c) \/ DeviceEof(c) \/ DeviceLeave(c)
  BY <1>3, <1>6 DEF DeviceConnect, DeviceEof, DeviceLeave
<1>7. CASE DevicePing(c) \/ DeviceFragment(c)
  <2>1. {"ping", "state_fail"} \subseteq UpMsgs \ {"i_am"}
    BY DEF UpMsgs
  <2> QED BY <1>4, <1>7, <2>1 DEF DevicePing, DeviceFragment
<1> QED BY <1>5, <1>6, <1>7 DEF Device

\* A step of the inner thread that receives a command.
LEMMA ReceiveAsked ==
  ASSUME TypeOK, Core, AskedOnce, NEW c \in Conns, Receive(c)
  PROVE  AskedOnce'
<1> SUFFICES ASSUME NEW d \in Conns PROVE AskedAt(d)'
  BY DEF AskedOnce
<1>1. AskedAt(d) /\ up[d] \in Seq(UpMsgs)
  BY DEF AskedOnce, TypeOK
<1> PICK k \in 1..Len(up[c]) : \/ ReceivePing(c, k)
                              \/ ReceivePong(c, k)
                              \/ RefuseDevice(c, k)
                              \/ RefuseUnnamed(c, k)
                              \/ ApproveDevice(c, k)
                              \/ ReceiveNoted(c, k)
  BY DEF Receive
<1>2. PICK m : Received(c, k, m)
  BY DEF ReceivePing, ReceivePong, RefuseDevice, RefuseUnnamed, ApproveDevice, ReceiveNoted
<1>3. /\ task = Idle /\ k \in ReadSizes(up[c]) /\ up' = [up EXCEPT ![c] = After(@, k)]
  BY <1>2 DEF Received, Free
<1>4. /\ Has(up'[d], "i_am") => Has(up[d], "i_am")
      /\ Once(up'[d], "i_am")
      /\ d = c /\ Head(up[c]) = "i_am" => ~Has(up'[d], "i_am")
  <2>1. CASE d = c
    <3>1. up'[d] = After(up[d], k)
      BY <1>3, <2>1 DEF TypeOK
    <3> QED BY <1>1, <1>3, <2>1, <3>1, ReadOnce DEF AskedAt
  <2>2. CASE d # c
    <3>1. up'[d] = up[d]
      BY <1>3, <2>2 DEF TypeOK
    <3> QED BY <1>1, <2>2, <3>1 DEF AskedAt
  <2> QED BY <2>1, <2>2
<1>5. /\ Has(down'[d], "who_are_you") => Has(down[d], "who_are_you")
      /\ Once(down'[d], "who_are_you")
  <2>1. \/ \E n \in DownMsgs : Write(c, n) /\ n # "who_are_you"
        \/ UNCHANGED <<down, peer>>
    BY DEF ReceivePing, ReceivePong, RefuseDevice, RefuseUnnamed, ApproveDevice, ReceiveNoted, DownMsgs
  <2>2. CASE UNCHANGED <<down, peer>>
    BY <1>1, <2>2 DEF AskedAt
  <2>3. ASSUME NEW n \in DownMsgs, Write(c, n), n # "who_are_you"
        PROVE  /\ Has(down'[d], "who_are_you") => Has(down[d], "who_are_you")
               /\ Once(down'[d], "who_are_you")
    BY <1>1, <2>3, WriteOnce DEF AskedAt
  <2> QED BY <2>1, <2>2, <2>3
<1>6. CASE Close(c) \/ UNCHANGED <<client, hinfo, task>>
  <2>1. client[d] # "none" =>
          client'[d] # "none" /\ hinfo'[d] = hinfo[d] /\ task' # Doing("register", d)
    BY <1>3, <1>6, CloseAsks DEF Idle, Doing
  <2> QED BY <1>1, <1>4, <1>5, <2>1, KeepAsked DEF AskedAt
\* The answer that is approved was the only one.
<1>7. CASE ApproveDevice(c, k) /\ task' = Doing("register", c) /\ UNCHANGED <<client, hinfo>>
  <2>1. Head(up[c]) = "i_am"
    BY <1>7 DEF ApproveDevice, Received
  <2>2. CASE d # c
    <3>1. task' # Doing("register", d)
      BY <1>7, <2>2 DEF Doing
    <3> QED BY <1>1, <1>4, <1>5, <1>7, <3>1, KeepAsked DEF AskedAt
  <2>3. CASE d = c
    <3>1. Has(up[c], "i_am")
      BY <1>1, <1>3, <2>1, <2>3, AfterRead DEF Has
    <3>2. ~Has(down[d], "who_are_you")
      BY <1>1, <2>3, <3>1 DEF AskedAt
    <3> QED BY <1>1, <1>4, <1>5, <2>1, <2>3, <3>2 DEF AskedAt, Unanswered
  <2> QED BY <2>2, <2>3
<1> QED BY <1>6, <1>7 DEF ReceivePing, ReceivePong, RefuseDevice, RefuseUnnamed, ApproveDevice, ReceiveNoted

LEMMA StepAsked == TypeOK /\ Core /\ AskedOnce /\ [Next]_vars => AskedOnce'
<1> SUFFICES ASSUME TypeOK, Core, AskedOnce, [Next]_vars PROVE AskedOnce'
  OBVIOUS
<1> USE DEF serverVars, redisVars, netVars, deviceVars
\* A step that leaves the queues alone, or writes something else.
<1>1. ASSUME NEW d \in Conns, UNCHANGED up,
             UNCHANGED down \/ \E c \in Conns, m \in DownMsgs : Write(c, m) /\ m # "who_are_you",
             Unanswered(d) => /\ client'[d] # "none" /\ hinfo'[d] = hinfo[d]
                              /\ task' # Doing("register", d)
      PROVE  AskedAt(d)'
  <2>1. AskedAt(d)
    BY DEF AskedOnce
  <2>2. /\ Has(down'[d], "who_are_you") => Has(down[d], "who_are_you")
        /\ Once(down'[d], "who_are_you")
    <3>1. CASE UNCHANGED down
      BY <2>1, <3>1 DEF AskedAt
    <3>2. ASSUME NEW c \in Conns, NEW m \in DownMsgs, Write(c, m), m # "who_are_you"
          PROVE  /\ Has(down'[d], "who_are_you") => Has(down[d], "who_are_you")
                 /\ Once(down'[d], "who_are_you")
      BY <2>1, <3>2, WriteOnce DEF AskedAt
    <3> QED BY <1>1, <3>1, <3>2
  <2> QED BY <1>1, <2>1, <2>2, KeepAsked DEF AskedAt
<1>2. ASSUME NEW c \in Conns, Close(c), NEW d \in Conns, Unanswered(d)
      PROVE  client'[d] # "none" /\ hinfo'[d] = hinfo[d] /\ task' # Doing("register", d)
  <2>1. client[d] # "none"
    BY <1>2 DEF AskedOnce, AskedAt
  <2> QED BY <1>2, <2>1, CloseAsks
<1>3. ASSUME NEW d \in Conns, Unanswered(d)
      PROVE  client[d] # "none" /\ hinfo[d] = NoInfo /\ task # Doing("register", d)
  BY <1>3 DEF AskedOnce, AskedAt
<1>4. CASE \E c \in Conns : Device(c)
  BY <1>4, DeviceAsked
<1>5. CASE \E c \in Conns : Receive(c)
  BY <1>5, ReceiveAsked
<1>6. ASSUME NEW c \in Conns, Accepted(c), NEW d \in Conns
      PROVE  AskedAt(d)'
  <2>1. /\ client[c] = "none" /\ Write(c, "who_are_you") /\ "who_are_you" \in DownMsgs
        /\ client' = [client EXCEPT ![c] = "open"] /\ UNCHANGED <<hinfo, up>>
        /\ task' = Idle
    BY <1>6 DEF Accepted, Free, DownMsgs
  <2>2. AskedAt(d) /\ task' # Doing("register", d)
    BY <2>1 DEF AskedOnce, Idle, Doing
  <2>3. /\ Has(down'[d], "who_are_you") => Has(down[d], "who_are_you") \/ d = c
        /\ Once(down[d], "who_are_you") /\ (d # c \/ ~Has(down[d], "who_are_you"))
             => Once(down'[d], "who_are_you")
    BY <2>1, WriteOnce
  <2>4. CASE d = c
    <3>1. ~Unanswered(c) /\ hinfo[c] = NoInfo /\ client'[c] = "open"
      BY <1>3, <2>1 DEF Core, Fresh, TypeOK
    <3> QED BY <2>1, <2>2, <2>3, <2>4, <3>1 DEF AskedAt, Unanswered
  <2>5. CASE d # c
    <3>1. client'[d] = client[d]
      BY <2>1, <2>5 DEF TypeOK
    <3> QED BY <1>3, <2>1, <2>2, <2>3, <2>5, <3>1, KeepAsked DEF AskedAt
  <2> QED BY <2>4, <2>5
<1>7. ASSUME NEW c \in Conns, ReceiveFragment(c) \/ ReceiveEnd(c), NEW d \in Conns
      PROVE  AskedAt(d)'
  <2>1. /\ Close(c) /\ UNCHANGED up /\ "state_fail" \in DownMsgs
        /\ UNCHANGED down \/ Write(c, "state_fail")
    BY <1>7 DEF ReceiveFragment, ReceiveEnd, DownMsgs
  <2> QED BY <1>1, <1>2, <2>1
<1>8. ASSUME Register, NEW d \in Conns
      PROVE  AskedAt(d)'
  <2>1. /\ task.step = "register" /\ UNCHANGED <<client, up, down>>
        /\ hinfo' = [hinfo EXCEPT ![task.conn] = answer[task.conn]]
        /\ task' = Doing("online", task.conn)
    BY <1>8 DEF Register
  <2>2. task = Doing("register", task.conn)
    BY <2>1 DEF TypeOK, Doing
  <2>3. ASSUME Unanswered(d)
        PROVE  client'[d] # "none" /\ hinfo'[d] = hinfo[d] /\ task' # Doing("register", d)
    <3>1. d # task.conn
      BY <1>3, <2>2, <2>3
    <3> QED BY <1>3, <2>1, <2>3, <3>1 DEF TypeOK, Doing
  <2> QED BY <1>1, <2>1, <2>3
<1>9. ASSUME Announce, NEW d \in Conns
      PROVE  AskedAt(d)'
  <2>1. /\ UNCHANGED <<hinfo, up, down>> /\ task' = Idle
        /\ client'[d] = client[d] \/ client'[d] = "deleted"
    BY <1>9 DEF Announce, TypeOK
  <2> QED BY <1>1, <1>3, <2>1 DEF Idle, Doing
<1>10. ASSUME TimerEmited \/ UpdateUser \/ UNCHANGED vars, NEW d \in Conns
       PROVE  AskedAt(d)'
  <2>1. UNCHANGED <<client, hinfo, task, up, down>>
    BY <1>10 DEF TimerEmited, UpdateUser, vars
  <2> QED BY <1>1, <1>3, <2>1
<1>11. ASSUME NEW c \in Conns, PingClient(c), NEW d \in Conns
       PROVE  AskedAt(d)'
  <2>1. /\ Write(c, "ping") /\ "ping" \in DownMsgs /\ UNCHANGED up
        /\ Close(c) \/ UNCHANGED <<client, hinfo, task>>
    BY <1>11 DEF PingClient, DownMsgs
  <2> QED BY <1>1, <1>2, <1>3, <2>1
<1>12. ASSUME Restart, NEW d \in Conns
       PROVE  AskedAt(d)'
  <2>1. /\ UNCHANGED <<hinfo, up, down>> /\ task' = Idle
        /\ client'[d] = IF peer[d] = "none" THEN "none" ELSE "deleted"
    BY <1>12 DEF Restart
  <2>2. peer[d] = "none" => client[d] = "none"
    BY DEF Core, Fresh
  <2> QED BY <1>1, <1>3, <2>1, <2>2 DEF Idle, Doing
<1> QED BY <1>4, <1>5, <1>6, <1>7, <1>8, <1>9, <1>10, <1>11, <1>12
        DEF Next, Server, AskedOnce

LEMMA InitAsked == Init => AskedOnce
<1> SUFFICES ASSUME Init, NEW c \in Conns PROVE AskedAt(c)
  BY DEF AskedOnce
<1>1. down[c] = <<>> /\ up[c] = <<>> /\ Len(<<>>) = 0 /\ 1..0 = {}
  BY DEF Init
<1> QED BY <1>1 DEF AskedAt, Unanswered, Has, Once

-----------------------------------------------------------------------------
(* The results.                                                            *)

\* The inductive invariant.
THEOREM Invariance == Spec => []IInv
<1>1. Init => IInv
  BY InitTypeOK, InitCore, InitApproved, InitAsked DEF IInv
<1>2. IInv /\ [Next]_vars => IInv'
  BY StepTypes, StepCore, StepApproved, StepAsked DEF IInv, Core
<1> QED BY <1>1, <1>2, PTL DEF Spec

\* Every variable keeps its type, whatever the constants are.
THEOREM TypeCorrect == Spec => []TypeOK
<1>1. IInv => TypeOK
  BY DEF IInv
<1> QED BY <1>1, Invariance, PTL

\* The registry never points to a closed connection, nor to one of another
\* host, and misses no open connection that was registered.
THEOREM RegistryIsExact == Spec => []RegistryExact
<1>1. IInv => RegistryExact
  BY DEF IInv, Core
<1> QED BY <1>1, Invariance, PTL

\* What was last announced of a host agrees with the registry, but for
\* announcements that redis lost or that are about to be made.
THEOREM AnnouncementsAreExact == Spec => []AnnouncedExact
<1>1. IInv => AnnouncedExact
  BY DEF IInv, Core
<1> QED BY <1>1, Invariance, PTL

\* A host is only served by a device of an account that had it.
THEOREM OwnersHadTheirHost == Spec => []OwnerHadHost
<1>1. IInv => OwnerHadHost
  <2> SUFFICES ASSUME IInv, NEW h \in Hosts, connections[h] # NoConn
               PROVE  <<hinfo[connections[h]].login, h>> \in owned
    BY DEF OwnerHadHost
  <2>1. connections[h] \in Conns
    BY DEF IInv, TypeOK
  <2>2. hinfo[connections[h]] # NoInfo /\ hinfo[connections[h]].host = h
    BY DEF IInv, Core, RegistryExact
  <2> QED BY <2>1, <2>2 DEF IInv, Core, Vouched
<1> QED BY <1>1, Invariance, PTL

\* A device that was told it is connected can be found by its host.
THEOREM ApprovedAreRegistered == Spec => []ApprovedIsRegistered
<1>1. IInv => ApprovedIsRegistered
  <2> SUFFICES ASSUME IInv, NEW c \in Conns,
                      device[c] = "approved", client[c] = "open",
                      task # Doing("register", c)
               PROVE  Registered(c)
    BY DEF ApprovedIsRegistered
  <2>1. hinfo[c] # NoInfo
    BY DEF IInv, ApprovedOK, Approving
  <2>2. hinfo[c].host \in Hosts /\ connections[hinfo[c].host] = c
    BY <2>1 DEF IInv, TypeOK, Infos, Core, RegistryExact
  <2> QED BY <2>2 DEF Registered
<1> QED BY <1>1, Invariance, PTL

\* A connection leaves the registry by being closed itself.
LEMMA CloseOnly ==
  ASSUME TypeOK, Core, NEW h \in Hosts, connections[h] # NoConn, connections'[h] # connections[h],
         NEW d \in Conns, client[d] = "open", Close(d)
  PROVE  d = connections[h]
<1>1. hinfo[d] # NoInfo /\ connections' = [connections EXCEPT ![hinfo[d].host] = NoConn]
  BY Identity DEF Close, UnRegistered
<1>2. hinfo[d].host = h
  BY <1>1 DEF TypeOK
<1>3. connections[hinfo[d].host] = d
  BY <1>1 DEF Core, RegistryExact
<1> QED BY <1>2, <1>3

\* A device that is registered and there is only closed by a read that ends inside a
\* command.
LEMMA OwnerLeaves ==
  ASSUME TypeOK, Core, AskedOnce, [Next]_vars, restarts' = restarts,
         NEW h \in Hosts, connections[h] # NoConn, connections'[h] # connections[h],
         peer[connections[h]] = "here"
  PROVE  ReceiveFragment(connections[h])
<1> DEFINE c == connections[h]
<1>1. /\ c \in Conns /\ client[c] = "open" /\ hinfo[c] # NoInfo
      /\ peer[c] = "here" /\ ~WriteFails(c)
  BY DEF TypeOK, Core, RegistryExact, WriteFails
<1>2. up[c] \in Seq(UpMsgs) /\ ~Has(up[c], "i_am")
  BY <1>1 DEF AskedOnce, AskedAt, Unanswered, TypeOK
<1>3. ASSUME NEW d \in Conns, client[d] = "open", Close(d)
      PROVE  d = c
  BY <1>3, CloseOnly
<1> HIDE DEF c
<1>4. ASSUME UNCHANGED connections PROVE FALSE
  BY <1>4
<1>5. CASE Register
  <2>1. /\ connections' = [connections EXCEPT ![answer[task.conn].host] = task.conn]
        /\ connections[answer[task.conn].host] = NoConn
    BY <1>5 DEF Register, Core, TaskOK
  <2>2. answer[task.conn].host # h
    BY <2>1
  <2> QED BY <1>4, <2>1, <2>2 DEF TypeOK
<1>6. ASSUME NEW d \in Conns, Receive(d) PROVE FALSE
  <2> PICK k \in 1..Len(up[d]) : \/ ReceivePing(d, k)
                                \/ ReceivePong(d, k)
                                \/ RefuseDevice(d, k)
                                \/ RefuseUnnamed(d, k)
                                \/ ApproveDevice(d, k)
                                \/ ReceiveNoted(d, k)
    BY <1>6 DEF Receive
  <2>1. client[d] = "open" /\ k \in ReadSizes(up[d])
    BY DEF ReceivePing, ReceivePong, RefuseDevice, RefuseUnnamed, ApproveDevice, ReceiveNoted, Received
  <2>2. CASE ReceivePing(d, k) \/ RefuseUnnamed(d, k) \/ ReceiveNoted(d, k)
    BY <1>4, <2>2 DEF ReceivePing, RefuseUnnamed, ReceiveNoted
  <2>3. CASE ReceivePong(d, k)
    BY <1>1, <1>3, <1>4, <2>1, <2>3 DEF ReceivePong
  <2>4. CASE RefuseDevice(d, k) \/ ApproveDevice(d, k)
    <3>1. Head(up[d]) = "i_am"
      BY <2>4 DEF RefuseDevice, ApproveDevice, Received
    <3>2. Has(up[d], "i_am")
      <4>1. up[d] \in Seq(UpMsgs)
        BY DEF TypeOK
      <4> QED BY <2>1, <3>1, <4>1, AfterRead DEF Has
    <3>3. Close(d)
      BY <1>4, <2>4 DEF RefuseDevice, ApproveDevice
    <3> QED BY <1>2, <1>3, <2>1, <3>2, <3>3
  <2> QED BY <2>2, <2>3, <2>4
<1>7. ASSUME NEW d \in Conns, ReceiveEnd(d) PROVE FALSE
  BY <1>1, <1>3, <1>7 DEF ReceiveEnd
<1>8. ASSUME NEW d \in Conns, PingClient(d) PROVE FALSE
  <2>1. client[d] = "open"
    BY <1>8 DEF PingClient, Core, TaskOK
  <2> QED BY <1>1, <1>3, <1>4, <1>8, <2>1 DEF PingClient
<1>9. ASSUME NEW d \in Conns, ReceiveFragment(d) PROVE ReceiveFragment(c)
  BY <1>3, <1>9 DEF ReceiveFragment
<1>10. ~Restart
  BY DEF Restart, TypeOK
<1>11. ASSUME NEW d \in Conns, Device(d) \/ Accepted(d) PROVE FALSE
  BY <1>4, <1>11 DEF Device, DeviceConnect, DevicePing, DeviceReceive, DeviceFragment, DeviceEof,
                     DeviceLeave, Accepted, serverVars
<1>12. ~(Announce \/ TimerEmited \/ UpdateUser \/ UNCHANGED vars)
  BY <1>4 DEF Announce, TimerEmited, UpdateUser, vars, serverVars
<1> QED BY <1>5, <1>6, <1>7, <1>8, <1>9, <1>10, <1>11, <1>12 DEF Next, Server, c

\* As long as commands arrive one by one, a device that is there stays registered
\* until the server restarts: no refusal, no ping and no other connection closes it.
THEOREM LivingOwnersStay ==
  ASSUME Coalesce = FALSE
  PROVE  Spec => LivingOwnerStays
<1>1. IInv /\ [Next]_vars =>
        [\A h \in Hosts : LET c == connections[h] IN
           c # NoConn /\ connections'[h] # c =>
             \/ peer[c] # "here"
             \/ restarts' # restarts]_vars
  <2> SUFFICES ASSUME IInv, [Next]_vars, NEW h \in Hosts,
                      connections[h] # NoConn, connections'[h] # connections[h],
                      peer[connections[h]] = "here", restarts' = restarts
               PROVE  FALSE
    OBVIOUS
  <2>1. ReceiveFragment(connections[h])
    BY OwnerLeaves DEF IInv
  <2> QED BY <2>1 DEF ReceiveFragment
<1> QED BY <1>1, Invariance, PTL DEF Spec, LivingOwnerStays

-----------------------------------------------------------------------------
(* The registry implements the host directory.                             *)

\* Closing a connection releases the host it was registered under, if any.
LEMMA CloseReleases ==
  ASSUME TypeOK, RegistryExact, NEW c \in Conns, client[c] = "open", Close(c)
  PROVE  Directory!Next \/ UNCHANGED <<connections, claimed>>
<1>1. hinfo' = hinfo /\ claimed' = claimed
  BY DEF Close, claimed
<1>2. CASE hinfo[c] = NoInfo
  BY <1>1, <1>2, Identity DEF Close, UnRegistered
<1>3. CASE hinfo[c] # NoInfo
  <2> DEFINE h == hinfo[c].host
  <2>1. h \in Hosts
    BY <1>3 DEF TypeOK, Infos
  <2>2. connections[h] = c /\ c # NoConn
    BY <1>3, InnerServerAssumption DEF RegistryExact
  <2>3. connections' = [g \in Hosts |-> IF g \in {h} THEN NoConn ELSE connections[g]]
    BY <1>3, <2>1, Identity DEF Close, UnRegistered, TypeOK
  <2>4. Directory!Release({h})
    BY <1>1, <2>2, <2>3 DEF Directory!Release
  <2> QED BY <2>1, <2>4 DEF Directory!Next
<1> QED BY <1>2, <1>3

\* A registration claims a free host for a connection that never had one.
LEMMA RegisterClaims ==
  ASSUME TypeOK, TaskOK, Register
  PROVE  Directory!Next
<1> DEFINE c == task.conn
           h == answer[c].host
<1>1. /\ c \in Conns
      /\ hinfo[c] = NoInfo
      /\ answer[c] \in Infos
      /\ connections[h] = NoConn
  BY DEF Register, TaskOK
<1>2. answer[c] # NoInfo /\ h \in Hosts
  BY <1>1, NoInfoAssumption DEF Infos
<1>3. hinfo' = [hinfo EXCEPT ![c] = answer[c]]
      /\ connections' = [connections EXCEPT ![h] = c]
  BY DEF Register
<1>4. c \notin claimed /\ claimed' = claimed \cup {c}
  BY <1>1, <1>2, <1>3 DEF claimed, TypeOK
<1>5. Directory!Claim(h, c)
  BY <1>1, <1>3, <1>4 DEF Directory!Claim
<1> QED BY <1>1, <1>2, <1>5 DEF Directory!Next

\* A restart releases every host that had an owner.
LEMMA RestartReleases ==
  ASSUME TypeOK, Restart
  PROVE  Directory!Next
<1> DEFINE S == {h \in Hosts : connections[h] # NoConn}
<1>1. claimed' = claimed /\ connections' = [h \in Hosts |-> NoConn]
  BY DEF Restart, claimed
<1>2. connections' = [h \in Hosts |-> IF h \in S THEN NoConn ELSE connections[h]]
  BY <1>1 DEF TypeOK
<1>3. Directory!Release(S)
  BY <1>1, <1>2 DEF Directory!Release
<1>4. S \in SUBSET Hosts
  OBVIOUS
<1> QED BY <1>3, <1>4 DEF Directory!Next

\* Every step of the server is a claim, a release or leaves the registry alone.
LEMMA StepDirectory ==
  IInv /\ [Next]_vars => [Directory!Next]_(Directory!vars)
<1> SUFFICES ASSUME IInv, [Next]_vars
             PROVE  Directory!Next \/ UNCHANGED <<connections, claimed>>
  BY DEF Directory!vars
<1> USE DEF IInv, Core
<1>1. ASSUME UNCHANGED <<connections, hinfo>>
      PROVE  UNCHANGED <<connections, claimed>>
  BY <1>1 DEF claimed
<1>2. CASE \E c \in Conns : Device(c)
  BY <1>1, <1>2 DEF Device, DeviceConnect, DevicePing, DeviceReceive,
     DeviceFragment, DeviceEof, DeviceLeave, serverVars
<1>3. CASE \E c \in Conns : Accepted(c)
  BY <1>1, <1>3 DEF Accepted
<1>4. CASE \E c \in Conns : Receive(c)
  <2> PICK c \in Conns : Receive(c)
    BY <1>4
  <2> PICK k \in 1..Len(up[c]) :
        \/ ReceivePing(c, k)
        \/ ReceivePong(c, k)
        \/ RefuseDevice(c, k)
        \/ RefuseUnnamed(c, k)
        \/ ApproveDevice(c, k)
        \/ ReceiveNoted(c, k)
    BY DEF Receive
  <2>1. client[c] = "open"
    BY DEF ReceivePing, ReceivePong, RefuseDevice, RefuseUnnamed, ApproveDevice, ReceiveNoted,
           Received
  <2>2. Close(c) \/ UNCHANGED <<connections, hinfo>>
    BY DEF ReceivePing, ReceivePong, RefuseDevice, RefuseUnnamed, ApproveDevice, ReceiveNoted
  <2> QED BY <1>1, <2>1, <2>2, CloseReleases
<1>5. CASE \E c \in Conns : ReceiveFragment(c) \/ ReceiveEnd(c)
  BY <1>5, CloseReleases DEF ReceiveFragment, ReceiveEnd
<1>6. CASE Register
  BY <1>6, RegisterClaims
<1>7. CASE Announce \/ TimerEmited \/ UpdateUser \/ UNCHANGED vars
  BY <1>1, <1>7 DEF Announce, TimerEmited, UpdateUser, vars, serverVars
<1>8. CASE \E c \in Conns : PingClient(c)
  <2> PICK c \in Conns : PingClient(c)
    BY <1>8
  <2>1. client[c] = "open"
    BY DEF PingClient, TaskOK
  <2>2. Close(c) \/ UNCHANGED <<connections, hinfo>>
    BY DEF PingClient
  <2> QED BY <1>1, <2>1, <2>2, CloseReleases
<1>9. CASE Restart
  BY <1>9, RestartReleases
<1> QED BY <1>2, <1>3, <1>4, <1>5, <1>6, <1>7, <1>8, <1>9 DEF Next, Server

\* The registry of the server is a host directory.
THEOREM Refinement == Spec => ImplementsDirectory
<1>1. Init => Directory!Init
  BY DEF Init, Directory!Init, claimed
<1> QED BY <1>1, StepDirectory, Invariance, PTL
        DEF Spec, ImplementsDirectory, Directory!Spec
=============================================================================
