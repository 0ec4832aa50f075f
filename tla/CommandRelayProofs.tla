------------------------- MODULE CommandRelayProofs -------------------------
(***************************************************************************)
(* Proofs about CommandRelay, for every set of requests, accounts, hosts   *)
(* and connections, with and without coalesced reads.  That a request is   *)
(* answered once rests on its being in one place at a time (OnePlace);     *)
(* that every request is accounted for rests on the subscription and the   *)
(* command, which go different ways, not losing each other (Paired).       *)
(***************************************************************************)
EXTENDS CommandRelay, SequenceTheorems, TLAPS

\* The steps of the two threads and what they hold.
Steps ==
  /\ redis.step = "listen" <=> redis.req = NoRequest
  /\ redis.step = "listen" => redis = Listen
  /\ redis.step \in {"write", "subscribe"} => redis.conn \in Conns
  /\ inner.step = "idle" => inner = Idle
  /\ inner.step = "fire" => inner.req \in Requests
  /\ inner.step = "close" => inner.conn \in Conns
  /\ inner.step # "fire" => inner.todo = {} /\ inner.seen = {}

\* A callback that the search of the inner thread matched.
Matched(q) == inner.step = "fire" /\ q \in inner.seen /\ Matching(q, inner.req)

\* A queue without duplicates.
NoTwice(q) == \A i, j \in DOMAIN q : q[i] = q[j] => i = j

\* A request without an answer is in one place: in the channel, with the redis
\* thread, or subscribed; one with an answer is in none, but for a callback that
\* has run and waits to be erased.
OnePlace ==
  /\ NoTwice(channelIn)
  /\ ToSet(channelIn) \subseteq sent
  /\ \A r \in ToSet(channelIn) : answers[r] = 0 /\ r # redis.req /\ r \notin subscribed
  /\ redis.req \in Requests => /\ redis.req \in sent
                               /\ answers[redis.req] = 0
                               /\ redis.req \notin subscribed
  /\ subscribed \subseteq sent
  /\ inner.todo \subseteq inner.seen /\ inner.seen \subseteq subscribed
  /\ \A q \in inner.todo : Matched(q) /\ answers[q] = 0
  /\ \A q \in subscribed : answers[q] = 0 \/ (Matched(q) /\ q \notin inner.todo)
  /\ \A r \in Requests : answers[r] > 0 => r \in sent

\* On a connection, as a command or as its response.
OnConn(r) == \E c \in Conns : r \in ToSet(down[c]) \cup ToSet(up[c])

\* Nothing befell r and it has no answer.
Open(r) == answers[r] = 0 /\ r \notin lost

\* What is subscribed, or about to be, has its command or response on a
\* connection, or its callback is about to run; and what is on a connection is
\* subscribed or about to be.
Paired ==
  /\ \A r \in subscribed : Open(r) => OnConn(r) \/ r \in inner.todo
  /\ redis.step = "subscribe" /\ Open(redis.req) => OnConn(redis.req)
  /\ \A r \in Requests : Open(r) /\ OnConn(r) => r \in subscribed \/ r = redis.req
  /\ \A q \in Requests : Matched(q) /\ Open(q) => q \in inner.todo

IInv == TypeOK /\ Steps /\ OnePlace /\ RightAnswers /\ Paired /\ Accounted

USE CommandRelayAssumption

-----------------------------------------------------------------------------
(* Queues and the sets of what is in them.                                 *)

\* A queue that gets one more element has that and what it had.
LEMMA ToSetAppend ==
  ASSUME NEW S, NEW q \in Seq(S), NEW x \in S
  PROVE  Append(q, x) \in Seq(S) /\ ToSet(Append(q, x)) = ToSet(q) \cup {x}
<1>1. /\ Append(q, x) \in Seq(S) /\ Len(q) \in Nat
      /\ DOMAIN Append(q, x) = 1..Len(q) + 1 /\ DOMAIN q = 1..Len(q)
      /\ \A i \in 1..Len(q) : Append(q, x)[i] = q[i]
      /\ Append(q, x)[Len(q) + 1] = x
  BY AppendProperties
<1>2. \A i \in 1..Len(q) + 1 : i \in 1..Len(q) \/ i = Len(q) + 1
  BY <1>1
<1> QED BY <1>1, <1>2 DEF ToSet

\* What is in a queue is its elements.
LEMMA ToSetTypes ==
  ASSUME NEW S, NEW q \in Seq(S)
  PROVE  ToSet(q) \subseteq S /\ ToSet(<<>>) = {}
BY DEF ToSet

\* A read takes the head and drops what it read besides; the rest stays.
LEMMA ReadSplits ==
  ASSUME NEW S, NEW q \in Seq(S), NEW k \in ReadSizes(q)
  PROVE  /\ Head(q) \in S
         /\ After(q, k) \in Seq(S)
         /\ ToSet(q) = {Head(q)} \cup Dropped(q, k) \cup ToSet(After(q, k))
<1>1. k \in 1..Len(q) /\ Len(q) \in Nat /\ DOMAIN q = 1..Len(q)
  BY DEF ReadSizes
<1>2. Head(q) = q[1] /\ q[1] \in S
  BY <1>1
<1>3. /\ After(q, k) \in Seq(S)
      /\ DOMAIN After(q, k) = 1..Len(q) - k
      /\ \A i \in 1..Len(q) - k : After(q, k)[i] = q[k + i]
  <2>1. \A i \in k + 1..Len(q) : q[i] \in S
    BY <1>1
  <2> QED BY <1>1, <2>1, SubSeqProperties DEF After
<1>4. /\ DOMAIN SubSeq(q, 2, k) = 1..k - 1
      /\ \A i \in 1..k - 1 : SubSeq(q, 2, k)[i] = q[1 + i]
  <2>1. \A i \in 2..k : q[i] \in S
    BY <1>1
  <2> QED BY <1>1, <2>1, SubSeqProperties
<1>5. ASSUME NEW x \in ToSet(q)
      PROVE  x \in {Head(q)} \cup Dropped(q, k) \cup ToSet(After(q, k))
  <2>1. PICK i \in 1..Len(q) : x = q[i]
    BY <1>1, <1>5 DEF ToSet
  <2>2. CASE i = 1
    BY <1>2, <2>1, <2>2
  <2>3. CASE i \in 2..k
    <3>1. i - 1 \in 1..k - 1 /\ SubSeq(q, 2, k)[i - 1] = q[i]
      BY <1>1, <1>4, <2>3
    <3> QED BY <1>4, <2>1, <3>1 DEF Dropped, ToSet
  <2>4. CASE i \in k + 1..Len(q)
    <3>1. i - k \in 1..Len(q) - k /\ After(q, k)[i - k] = q[i]
      BY <1>1, <1>3, <2>4
    <3> QED BY <1>3, <2>1, <3>1 DEF ToSet
  <2> QED BY <1>1, <2>2, <2>3, <2>4
<1>6. ASSUME NEW x \in {Head(q)} \cup Dropped(q, k) \cup ToSet(After(q, k))
      PROVE  x \in ToSet(q)
  <2>1. CASE x = Head(q)
    BY <1>1, <1>2, <2>1 DEF ToSet
  <2>2. CASE x \in Dropped(q, k)
    <3>1. PICK i \in 1..k - 1 : x = q[1 + i]
      BY <1>4, <2>2 DEF Dropped, ToSet
    <3> QED BY <1>1, <3>1 DEF ToSet
  <2>3. CASE x \in ToSet(After(q, k))
    <3>1. PICK i \in 1..Len(q) - k : x = q[k + i]
      BY <1>3, <2>3 DEF ToSet
    <3> QED BY <1>1, <3>1 DEF ToSet
  <2> QED BY <1>6, <2>1, <2>2, <2>3
<1> QED BY <1>2, <1>3, <1>5, <1>6

\* A queue without duplicates stays one when it gets a new element at its end or
\* loses its head.
LEMMA NoTwiceAppend ==
  ASSUME NEW S, NEW q \in Seq(S), NEW x \in S, x \notin ToSet(q), NoTwice(q)
  PROVE  NoTwice(Append(q, x))
<1>1. /\ Len(q) \in Nat
      /\ DOMAIN Append(q, x) = 1..Len(q) + 1 /\ DOMAIN q = 1..Len(q)
      /\ \A i \in 1..Len(q) : Append(q, x)[i] = q[i]
      /\ Append(q, x)[Len(q) + 1] = x
  BY AppendProperties
<1>2. \A i \in 1..Len(q) : q[i] # x
  BY <1>1 DEF ToSet
<1>3. \A i \in 1..Len(q) + 1 : i \in 1..Len(q) \/ i = Len(q) + 1
  BY <1>1
<1> QED BY <1>1, <1>2, <1>3 DEF NoTwice

LEMMA NoTwiceTail ==
  ASSUME NEW S, NEW q \in Seq(S), q # <<>>, NoTwice(q)
  PROVE  /\ Head(q) \in S /\ Tail(q) \in Seq(S) /\ NoTwice(Tail(q))
         /\ ToSet(q) = {Head(q)} \cup ToSet(Tail(q))
         /\ Head(q) \notin ToSet(Tail(q))
<1>1. /\ Len(q) \in Nat \ {0} /\ DOMAIN q = 1..Len(q)
      /\ Head(q) = q[1] /\ q[1] \in S
      /\ Tail(q) \in Seq(S) /\ DOMAIN Tail(q) = 1..Len(q) - 1
      /\ \A i \in 1..Len(q) - 1 : Tail(q)[i] = q[i + 1]
  BY HeadTailProperties
<1>2. \A i \in 1..Len(q) : i = 1 \/ i - 1 \in 1..Len(q) - 1
  BY <1>1
<1>3. \A i \in 1..Len(q) - 1 : i + 1 \in 1..Len(q) /\ i + 1 # 1
  BY <1>1
<1>4. NoTwice(Tail(q))
  <2> SUFFICES ASSUME NEW i \in 1..Len(q) - 1, NEW j \in 1..Len(q) - 1, q[i + 1] = q[j + 1]
               PROVE  i = j
    BY <1>1 DEF NoTwice
  <2>1. i + 1 = j + 1
    BY <1>1, <1>3 DEF NoTwice
  <2> QED BY <2>1
<1>5. ToSet(q) = {Head(q)} \cup ToSet(Tail(q))
  <2>1. ASSUME NEW i \in 1..Len(q) PROVE q[i] \in {Head(q)} \cup ToSet(Tail(q))
    <3>1. CASE i = 1
      BY <1>1, <3>1
    <3>2. CASE i # 1
      <4>1. i - 1 \in 1..Len(q) - 1 /\ Tail(q)[i - 1] = q[i]
        BY <1>1, <1>2, <3>2
      <4> QED BY <1>1, <4>1 DEF ToSet
    <3> QED BY <3>1, <3>2
  <2>2. \A i \in 1..Len(q) - 1 : Tail(q)[i] \in ToSet(q)
    BY <1>1, <1>3 DEF ToSet
  <2>3. Head(q) \in ToSet(q)
    BY <1>1 DEF ToSet
  <2> QED BY <1>1, <2>1, <2>2, <2>3 DEF ToSet
<1>6. Head(q) \notin ToSet(Tail(q))
  BY <1>1, <1>3 DEF ToSet, NoTwice
<1> QED BY <1>1, <1>4, <1>5, <1>6

-----------------------------------------------------------------------------
(* Type correctness, and the steps of the threads.                         *)

RedisRecords == [step : {"listen", "write", "refuse", "subscribe"},
                 req : Requests \cup {NoRequest}, conn : Conns \cup {NoConn}]
InnerRecords == [step : {"idle", "fire", "close"},
                 conn : Conns \cup {NoConn}, req : Requests \cup {NoRequest},
                 todo : SUBSET Requests, seen : SUBSET Requests]

LEMMA Constants ==
  /\ Listen \in RedisRecords /\ Idle \in InnerRecords
  /\ Listen.step = "listen" /\ Listen.req = NoRequest
  /\ Idle.step = "idle" /\ Idle.todo = {} /\ Idle.seen = {}
BY DEF Listen, Idle, RedisRecords, InnerRecords

LEMMA RedisUpdate ==
  ASSUME redis \in RedisRecords, NEW s \in {"listen", "write", "refuse", "subscribe"}
  PROVE  /\ [redis EXCEPT !.step = s] \in RedisRecords
         /\ [redis EXCEPT !.step = s].step = s
         /\ [redis EXCEPT !.step = s].req = redis.req
         /\ [redis EXCEPT !.step = s].conn = redis.conn
BY DEF RedisRecords

LEMMA InnerUpdate ==
  ASSUME inner \in InnerRecords, NEW q \in inner.todo
  PROVE  /\ [inner EXCEPT !.todo = @ \ {q}] \in InnerRecords
         /\ [inner EXCEPT !.todo = @ \ {q}].todo = inner.todo \ {q}
         /\ [inner EXCEPT !.todo = @ \ {q}].step = inner.step
         /\ [inner EXCEPT !.todo = @ \ {q}].req = inner.req
         /\ [inner EXCEPT !.todo = @ \ {q}].conn = inner.conn
         /\ [inner EXCEPT !.todo = @ \ {q}].seen = inner.seen
BY DEF InnerRecords

Types == TypeOK /\ Steps

LEMMA InitTypes == Init => Types
BY Constants DEF Init, Types, TypeOK, Steps, RedisRecords, InnerRecords

LEMMA AnswerTypes ==
  ASSUME TypeOK, NEW r \in Requests, NEW q \in Requests, Answer(r, q)
  PROVE  /\ answers' \in [Requests -> Nat]
         /\ content' \in SUBSET (Requests \X Requests)
         /\ lost' \in SUBSET Requests
<1>0. answers \in [Requests -> Nat] /\ answers[r] + 1 \in Nat
  BY DEF TypeOK
<1>1. answers' \in [Requests -> Nat]
  BY <1>0 DEF Answer, answerVars
<1>2. content' \in SUBSET (Requests \X Requests)
  BY DEF TypeOK, Answer, answerVars
<1>3. lost' \in SUBSET Requests
  BY DEF TypeOK, Answer
<1> QED BY <1>1, <1>2, <1>3

LEMMA RedisTypes ==
  Types /\ (Find \/ WriteCommand \/ Refuse \/ SubscribeRequest) => Types'
<1> SUFFICES ASSUME Types, Find \/ WriteCommand \/ Refuse \/ SubscribeRequest
             PROVE  Types'
  OBVIOUS
<1> USE Constants DEF Types
<1>0. redis \in RedisRecords /\ channelIn \in Seq(Requests)
  BY DEF TypeOK, RedisRecords
<1>1. CASE Find
  <2> DEFINE r == Head(channelIn)
             c == connections[Host[r]]
  <2>1. r \in Requests /\ Tail(channelIn) \in Seq(Requests) /\ c \in Conns \cup {NoConn}
    BY <1>0, <1>1 DEF Find, TypeOK
  <2>2. redis' = [step |-> IF c = NoConn THEN "refuse" ELSE "write", req |-> r, conn |-> c]
    BY <1>1 DEF Find
  <2>3. redis' \in RedisRecords
    BY <2>1, <2>2 DEF RedisRecords
  <2> HIDE DEF r, c
  <2>4. TypeOK'
    BY <1>1, <2>1, <2>3 DEF Find, TypeOK, RedisRecords, answerVars, connVars, r
  <2>5. Steps'
    BY <1>1, <2>1, <2>2 DEF Find, Steps
  <2> QED BY <2>4, <2>5
<1>2. CASE WriteCommand
  <2>1. redis.step = "write" /\ redis.conn \in Conns /\ redis.req \in Requests
    BY <1>0, <1>2 DEF WriteCommand, Steps, RedisRecords
  <2>2. \E s \in {"refuse", "subscribe"} : redis' = [redis EXCEPT !.step = s]
    BY <1>2 DEF WriteCommand
  <2>3. redis' \in RedisRecords
    BY <1>0, <2>2, RedisUpdate
  <2>4. down' \in [Conns -> Seq(Requests)] /\ lost' \in SUBSET Requests
    <3>1. down[redis.conn] \in Seq(Requests)
      BY <2>1 DEF TypeOK
    <3>2. Append(down[redis.conn], redis.req) \in Seq(Requests)
      BY <2>1, <3>1, ToSetAppend
    <3>3. down' \in [Conns -> Seq(Requests)]
      <4>1. \/ down' = down
            \/ down' = [down EXCEPT ![redis.conn] = Append(down[redis.conn], redis.req)]
        BY <1>2 DEF WriteCommand
      <4>2. down \in [Conns -> Seq(Requests)]
        BY DEF TypeOK
      <4> QED BY <2>1, <3>2, <4>1, <4>2
    <3>4. lost' \in SUBSET Requests
      BY <1>2, <2>1 DEF WriteCommand, TypeOK
    <3> QED BY <3>3, <3>4
  <2>5. TypeOK'
    BY <1>2, <2>3, <2>4 DEF WriteCommand, TypeOK, RedisRecords, pageVars, answerVars, connVars
  <2>6. /\ redis'.step \in {"refuse", "subscribe"} /\ redis'.req = redis.req
        /\ redis'.conn = redis.conn
    BY <1>0, <2>2, RedisUpdate
  <2>7. Steps'
    BY <1>2, <2>1, <2>6 DEF WriteCommand, Steps
  <2> QED BY <2>5, <2>7
<1>3. CASE Refuse
  <2>1. redis.req \in Requests
    BY <1>0, <1>3 DEF Refuse, Steps, RedisRecords
  <2>2. TypeOK'
    BY <1>3, <2>1, AnswerTypes
       DEF Refuse, TypeOK, RedisRecords, InnerRecords, pageVars, connVars
  <2>3. Steps'
    BY <1>3 DEF Refuse, Steps
  <2> QED BY <2>2, <2>3
<1>4. CASE SubscribeRequest
  <2>1. redis.req \in Requests
    BY <1>0, <1>4 DEF SubscribeRequest, Steps, RedisRecords
  <2>2. TypeOK'
    BY <1>4, <2>1
       DEF SubscribeRequest, TypeOK, RedisRecords, InnerRecords, pageVars, answerVars, connVars
  <2>3. Steps'
    BY <1>4 DEF SubscribeRequest, Steps
  <2> QED BY <2>2, <2>3
<1> QED BY <1>1, <1>2, <1>3, <1>4

LEMMA InnerTypes ==
  ASSUME Types,
         \/ \E c \in Conns : \E k \in 1..Len(up[c]) : Receive(c, k)
         \/ RunCallback \/ EraseRequests \/ (\E c \in Conns : Close(c)) \/ Delete
  PROVE  Types'
<1> USE Constants DEF Types
<1>0. inner \in InnerRecords
  BY DEF TypeOK, InnerRecords
<1>1. ASSUME NEW c \in Conns, NEW k \in 1..Len(up[c]), Receive(c, k) PROVE Types'
  <2> DEFINE r == Head(up[c])
  <2>1. /\ up[c] \in Seq(Requests) /\ k \in ReadSizes(up[c])
        /\ up' = [up EXCEPT ![c] = After(@, k)]
    BY <1>1 DEF Receive, TypeOK
  <2>2. /\ r \in Requests
        /\ After(up[c], k) \in Seq(Requests)
        /\ ToSet(up[c]) = {r} \cup Dropped(up[c], k) \cup ToSet(After(up[c], k))
    BY <2>1, ReadSplits
  <2>3. Dropped(up[c], k) \subseteq Requests
    BY <2>1, <2>2, ToSetTypes
  <2>4. inner' = [step |-> "fire", conn |-> c, req |-> r,
                  todo |-> {q \in subscribed : Matching(q, r)}, seen |-> subscribed]
    BY <1>1 DEF Receive
  <2> HIDE DEF r
  <2>5. inner' \in InnerRecords
    BY <2>2, <2>4 DEF InnerRecords, TypeOK
  <2>6. up' \in [Conns -> Seq(Requests)]
    BY <2>1, <2>2 DEF TypeOK
  <2>7. lost' \in SUBSET Requests
    BY <1>1, <2>2, <2>3 DEF Receive, TypeOK, r
  <2>8. TypeOK'
    BY <1>1, <2>5, <2>6, <2>7
       DEF Receive, TypeOK, InnerRecords, pageVars, answerVars, connVars
  <2>9. Steps'
    BY <1>1, <2>2, <2>4 DEF Receive, Steps
  <2> QED BY <2>8, <2>9
<1>2. CASE RunCallback
  <2>1. PICK q \in inner.todo :
          Answer(q, inner.req) /\ inner' = [inner EXCEPT !.todo = @ \ {q}]
    BY <1>2 DEF RunCallback
  <2>2. q \in Requests /\ inner.req \in Requests /\ inner.step = "fire"
    BY <1>0, <1>2 DEF RunCallback, InnerRecords, Steps
  <2>3. /\ inner' \in InnerRecords
        /\ inner'.step = "fire" /\ inner'.req \in Requests
    BY <1>0, <2>1, <2>2, InnerUpdate
  <2>4. TypeOK'
    BY <1>2, <2>1, <2>2, <2>3, AnswerTypes
       DEF RunCallback, TypeOK, InnerRecords, pageVars, connVars
  <2>5. Steps'
    BY <1>2, <2>3 DEF RunCallback, Steps
  <2> QED BY <2>4, <2>5
<1>3. CASE EraseRequests
  <2>1. subscribed' \in SUBSET Requests /\ lost' \in SUBSET Requests
    BY <1>0, <1>3 DEF EraseRequests, Kept, TypeOK, InnerRecords
  <2>2. inner' = Idle
    BY <1>3 DEF EraseRequests
  <2>3. TypeOK'
    BY <1>3, <2>1, <2>2
       DEF EraseRequests, TypeOK, InnerRecords, pageVars, answerVars, connVars
  <2>4. Steps'
    BY <1>3, <2>2 DEF EraseRequests, Steps
  <2> QED BY <2>3, <2>4
<1>4. ASSUME NEW c \in Conns, Close(c) PROVE Types'
  <2>1. /\ inner' = [Idle EXCEPT !.step = "close", !.conn = c]
        /\ inner' \in InnerRecords
        /\ inner'.step = "close" /\ inner'.conn = c /\ inner'.todo = {} /\ inner'.seen = {}
    BY <1>4 DEF Close, Idle, InnerRecords
  <2>2. lost' \in SUBSET Requests
    <3>1. down[c] \in Seq(Requests) /\ up[c] \in Seq(Requests)
      BY DEF TypeOK
    <3>2. ToSet(down[c]) \subseteq Requests /\ ToSet(up[c]) \subseteq Requests
      BY <3>1, ToSetTypes
    <3> QED BY <1>4, <3>2 DEF Close, TypeOK
  <2>3. /\ down' \in [Conns -> Seq(Requests)] /\ up' \in [Conns -> Seq(Requests)]
        /\ connections' \in [Hosts -> Conns \cup {NoConn}]
    <3>1. <<>> \in Seq(Requests)
      OBVIOUS
    <3>2. down' \in [Conns -> Seq(Requests)]
      BY <1>4, <3>1 DEF Close, TypeOK
    <3>3. up' \in [Conns -> Seq(Requests)]
      BY <1>4, <3>1 DEF Close, TypeOK
    <3>4. connections' \in [Hosts -> Conns \cup {NoConn}]
      BY <1>4 DEF Close, TypeOK
    <3> QED BY <3>2, <3>3, <3>4
  <2>4. TypeOK'
    BY <1>4, <2>1, <2>2, <2>3 DEF Close, TypeOK, InnerRecords, pageVars, answerVars
  <2>5. Steps'
    BY <1>4, <2>1 DEF Close, Steps
  <2> QED BY <2>4, <2>5
<1>5. CASE Delete
  <2>1. TypeOK'
    BY <1>5 DEF Delete, TypeOK, InnerRecords, pageVars, answerVars
  <2>2. Steps'
    BY <1>5 DEF Delete, Steps
  <2> QED BY <2>1, <2>2
<1> QED BY <1>1, <1>2, <1>3, <1>4, <1>5

LEMMA OtherTypes ==
  ASSUME Types,
         \/ \E r \in Requests : Publish(r)
         \/ SubscriptionEnds
         \/ \E h \in Hosts, c \in Conns : Register(h, c)
         \/ Die
         \/ \E c \in Conns : \E k \in 1..Len(down[c]) : DeviceAnswer(c, k)
         \/ \E c \in Conns : DeviceLeave(c)
         \/ UNCHANGED vars
  PROVE  Types'
<1> USE Constants DEF Types
<1>1. ASSUME NEW r \in Requests, Publish(r) PROVE Types'
  <2>1. TypeOK'
    <3>1. channelIn' \in Seq(Requests)
      <4>1. Append(channelIn, r) \in Seq(Requests)
        BY DEF TypeOK
      <4> QED BY <1>1, <4>1 DEF Publish, TypeOK
    <3>2. lost' \in SUBSET Requests /\ sent' \in SUBSET Requests
      BY <1>1 DEF Publish, TypeOK
    <3> QED BY <1>1, <3>1, <3>2 DEF Publish, TypeOK, answerVars, connVars
  <2> QED BY <1>1, <2>1 DEF Publish, Steps
<1>2. CASE SubscriptionEnds
  <2>1. TypeOK'
    <3>1. ToSet(channelIn) \subseteq Requests
      BY ToSetTypes DEF TypeOK
    <3>2. lost' \in SUBSET Requests /\ channelIn' \in Seq(Requests)
      BY <1>2, <3>1 DEF SubscriptionEnds, TypeOK
    <3> QED BY <1>2, <3>2 DEF SubscriptionEnds, TypeOK, answerVars, connVars
  <2> QED BY <1>2, <2>1 DEF SubscriptionEnds, Steps
<1>3. ASSUME NEW h \in Hosts, NEW c \in Conns, Register(h, c) PROVE Types'
  <2>1. TypeOK'
    BY <1>3 DEF Register, TypeOK, pageVars, answerVars
  <2> QED BY <1>3, <2>1 DEF Register, Steps
<1>4. CASE Die
  <2>1. redis' = Listen /\ inner' = Idle /\ UNCHANGED <<sent, answers, content>>
    BY <1>4 DEF Die, answerVars
  <2>2. redis' \in RedisRecords /\ inner' \in InnerRecords
    BY <2>1 DEF RedisRecords, InnerRecords, Listen, Idle
  <2>3. /\ listening' = TRUE /\ channelIn' = <<>> /\ alive' = {} /\ subscribed' = {}
        /\ lost' \in SUBSET Requests
        /\ connections' \in [Hosts -> Conns \cup {NoConn}]
    BY <1>4 DEF Die, TypeOK
  <2>4. client' \in [Conns -> {"none", "open", "closed", "deleted"}]
    BY <1>4 DEF Die
  <2>5. down' \in [Conns -> Seq(Requests)] /\ up' \in [Conns -> Seq(Requests)]
    BY <1>4 DEF Die
  <2>6. TypeOK'
    <3>1. /\ sent' \in SUBSET Requests /\ answers' \in [Requests -> Nat]
          /\ content' \in SUBSET (Requests \X Requests)
      BY <2>1 DEF TypeOK
    <3>2. channelIn' \in Seq(Requests) /\ listening' \in BOOLEAN
          /\ alive' \in SUBSET Conns /\ subscribed' \in SUBSET Requests
      BY <2>3
    <3> QED BY <2>2, <2>3, <2>4, <2>5, <3>1, <3>2, Zenon DEF TypeOK, RedisRecords, InnerRecords
  <2> QED BY <2>1, <2>6 DEF Steps, Listen, Idle
<1>5. ASSUME NEW c \in Conns, NEW k \in 1..Len(down[c]), DeviceAnswer(c, k) PROVE Types'
  <2>1. /\ down[c] \in Seq(Requests) /\ k \in ReadSizes(down[c])
        /\ up[c] \in Seq(Requests)
    BY <1>5 DEF DeviceAnswer, TypeOK
  <2>2. /\ Head(down[c]) \in Requests
        /\ After(down[c], k) \in Seq(Requests)
        /\ Dropped(down[c], k) \subseteq Requests
    BY <2>1, ReadSplits, ToSetTypes
  <2>3. down' \in [Conns -> Seq(Requests)] /\ up' \in [Conns -> Seq(Requests)]
    BY <1>5, <2>1, <2>2 DEF DeviceAnswer, TypeOK
  <2>4. TypeOK'
    BY <1>5, <2>2, <2>3 DEF DeviceAnswer, TypeOK, pageVars, answerVars, connVars
  <2> QED BY <1>5, <2>4 DEF DeviceAnswer, Steps
<1>6. ASSUME NEW c \in Conns, DeviceLeave(c) PROVE Types'
  <2>0. ToSet(down[c]) \subseteq Requests
    BY ToSetTypes DEF TypeOK
  <2>1. TypeOK'
    <3>1. down' \in [Conns -> Seq(Requests)] /\ lost' \in SUBSET Requests /\ alive' \in SUBSET Conns
      BY <1>6, <2>0 DEF DeviceLeave, TypeOK
    <3> QED BY <1>6, <3>1 DEF DeviceLeave, TypeOK, pageVars, answerVars
  <2> QED BY <1>6, <2>1 DEF DeviceLeave, Steps
<1>7. CASE UNCHANGED vars
  BY <1>7 DEF vars, pageVars, answerVars, connVars, TypeOK, Steps
<1> QED BY <1>1, <1>2, <1>3, <1>4, <1>5, <1>6, <1>7

LEMMA StepTypes == Types /\ [Next]_vars => Types'
BY RedisTypes, InnerTypes, OtherTypes DEF Next

-----------------------------------------------------------------------------
(* One place at a time, and so one answer.                                 *)

Places == OnePlace /\ RightAnswers

LEMMA InitPlaces == Init => Places
BY DEF Init, Places, OnePlace, NoTwice, RightAnswers, ToSet, Listen, Idle

\* An answer to a request that had none is its first.
LEMMA FirstAnswer ==
  ASSUME TypeOK, RightAnswers, NEW r \in Requests, NEW q \in Requests, Answer(r, q),
         answers[r] = 0, Account[r] = Account[q]
  PROVE  /\ RightAnswers'
         /\ answers'[r] > 0 \/ r \in lost'
         /\ lost \subseteq lost' /\ lost' \subseteq lost \cup {r}
         /\ \A p \in Requests : p # r => answers'[p] = answers[p]
<1>1. CASE answers' = [answers EXCEPT ![r] = @ + 1]
           /\ content' = content \cup {<<r, q>>} /\ UNCHANGED lost
  <2>1. answers'[r] = 1 /\ \A p \in Requests : p # r => answers'[p] = answers[p]
    BY <1>1 DEF TypeOK
  <2> QED BY <1>1, <2>1 DEF RightAnswers
<1>2. CASE lost' = lost \cup {r} /\ UNCHANGED answerVars
  BY <1>2 DEF RightAnswers, answerVars
<1> QED BY <1>1, <1>2 DEF Answer

\* Steps that neither answer nor move a request between its places.
LEMMA KeepPlaces ==
  ASSUME Places, UNCHANGED <<sent, channelIn, answers, content, redis, inner, subscribed>>
  PROVE  Places'
BY DEF Places, OnePlace, NoTwice, RightAnswers, Matched, Matching

LEMMA PagePlaces ==
  ASSUME Types, Places, (\E r \in Requests : Publish(r)) \/ SubscriptionEnds
  PROVE  Places'
<1>1. ASSUME NEW r \in Requests, Publish(r) PROVE Places'
  <2>1. /\ r \notin ToSet(channelIn) /\ r # redis.req /\ r \notin subscribed
        /\ answers[r] = 0 /\ sent' = sent \cup {r}
    BY <1>1 DEF Publish, Places, OnePlace, Types, TypeOK
  <2>2. /\ NoTwice(channelIn') /\ ToSet(channelIn') \subseteq ToSet(channelIn) \cup {r}
    <3>1. CASE listening
      <4>1. channelIn' = Append(channelIn, r) /\ channelIn \in Seq(Requests)
        BY <1>1, <3>1 DEF Publish, Types, TypeOK
      <4>2. NoTwice(channelIn)
        BY DEF Places, OnePlace
      <4>3. NoTwice(Append(channelIn, r))
        BY <2>1, <4>1, <4>2, NoTwiceAppend
      <4>4. ToSet(Append(channelIn, r)) = ToSet(channelIn) \cup {r}
        BY <4>1, ToSetAppend
      <4> QED BY <4>1, <4>3, <4>4
    <3>2. CASE ~listening
      BY <1>1, <3>2 DEF Publish, Places, OnePlace
    <3> QED BY <3>1, <3>2
  <2>3. UNCHANGED <<answers, content, redis, inner, subscribed>>
    BY <1>1 DEF Publish, answerVars
  <2> QED BY <2>1, <2>2, <2>3 DEF Places, OnePlace, RightAnswers, Matched, Matching, NoTwice
<1>2. CASE SubscriptionEnds
  BY <1>2, ToSetTypes
     DEF SubscriptionEnds, answerVars, Places, OnePlace, NoTwice, RightAnswers, Matched, Matching,
         ToSet
<1> QED BY <1>1, <1>2

LEMMA RedisPlaces ==
  ASSUME Types, Places, Find \/ WriteCommand \/ Refuse \/ SubscribeRequest
  PROVE  Places'
<1> USE Constants DEF Types, Places
<1>0. redis \in RedisRecords /\ channelIn \in Seq(Requests)
  BY DEF TypeOK, RedisRecords
<1>1. CASE Find
  <2> DEFINE r == Head(channelIn)
  <2>1. /\ r \in Requests /\ NoTwice(Tail(channelIn))
        /\ ToSet(channelIn) = {r} \cup ToSet(Tail(channelIn))
        /\ r \notin ToSet(Tail(channelIn))
    BY <1>0, <1>1, NoTwiceTail DEF Find, OnePlace
  <2>2. redis'.req = r /\ channelIn' = Tail(channelIn)
    BY <1>1 DEF Find
  <2> HIDE DEF r
  <2>3. UNCHANGED <<sent, answers, content, inner, subscribed>>
    BY <1>1 DEF Find, answerVars
  <2>4. OnePlace'
    BY <2>1, <2>2, <2>3 DEF OnePlace, Matched, Matching
  <2> QED BY <2>3, <2>4 DEF RightAnswers
<1>2. CASE WriteCommand
  <2>1. redis'.req = redis.req
    BY <1>0, <1>2, RedisUpdate DEF WriteCommand
  <2>2. UNCHANGED <<sent, channelIn, answers, content, inner, subscribed>>
    BY <1>2 DEF WriteCommand, pageVars, answerVars
  <2> QED BY <2>1, <2>2 DEF OnePlace, NoTwice, Matched, Matching, RightAnswers
<1>3. CASE Refuse
  <2>1. redis.req \in Requests /\ answers[redis.req] = 0 /\ redis.req \in sent
    BY <1>0, <1>3 DEF Refuse, Steps, RedisRecords, OnePlace
  <2>2. /\ RightAnswers'
        /\ \A p \in Requests : p # redis.req => answers'[p] = answers[p]
    BY <1>3, <2>1, FirstAnswer DEF Refuse
  <2>3. redis' = Listen /\ UNCHANGED <<sent, channelIn, inner, subscribed>>
    BY <1>3 DEF Refuse, pageVars
  <2>4. /\ redis.req \notin ToSet(channelIn) /\ redis.req \notin subscribed
        /\ ToSet(channelIn) \subseteq Requests
    BY <1>0, <2>1, ToSetTypes DEF OnePlace
  <2>6. \A q \in Requests : Matched(q)' <=> Matched(q)
    BY <2>3 DEF Matched, Matching
  <2>5. OnePlace'
    <3>1. NoTwice(channelIn)' /\ ToSet(channelIn)' = ToSet(channelIn)
      BY <2>3 DEF NoTwice, OnePlace
    <3>2. \A r \in ToSet(channelIn)' : answers'[r] = 0 /\ r # redis'.req /\ r \notin subscribed'
      BY <2>1, <2>2, <2>3, <2>4, <3>1 DEF OnePlace, Listen
    <3>3. redis'.req \in Requests => /\ redis'.req \in sent'
                                     /\ answers'[redis'.req] = 0
                                     /\ redis'.req \notin subscribed'
      BY <2>1, <2>2, <2>3, <2>4 DEF OnePlace, Listen
    <3>4. /\ inner'.todo \subseteq inner'.seen /\ inner'.seen \subseteq subscribed'
          /\ \A q \in inner'.todo : Matched(q)' /\ answers'[q] = 0
      BY <2>1, <2>2, <2>3, <2>4, <2>6 DEF OnePlace, TypeOK
    <3>5. \A q \in subscribed' : answers'[q] = 0 \/ (Matched(q)' /\ q \notin inner'.todo)
      BY <2>1, <2>2, <2>3, <2>4, <2>6 DEF OnePlace, TypeOK
    <3>6. \A r \in Requests : answers'[r] > 0 => r \in sent'
      BY <2>1, <2>2, <2>3, <2>4 DEF OnePlace
    <3> QED BY <2>3, <3>1, <3>2, <3>3, <3>4, <3>5, <3>6 DEF OnePlace
  <2> QED BY <2>2, <2>5
<1>4. CASE SubscribeRequest
  <2>1. redis.req \in Requests /\ answers[redis.req] = 0 /\ redis.req \in sent
    BY <1>0, <1>4 DEF SubscribeRequest, Steps, RedisRecords, OnePlace
  <2>2. /\ redis' = Listen /\ subscribed' = subscribed \cup {redis.req}
        /\ UNCHANGED <<sent, channelIn, answers, content, inner>>
    BY <1>4 DEF SubscribeRequest, pageVars, answerVars
  <2>3. redis.req \notin ToSet(channelIn)
    BY <2>1 DEF OnePlace
  <2>4. \A q : Matched(q)' <=> Matched(q)
    BY <2>2 DEF Matched, Matching
  <2>5. NoTwice(channelIn)' /\ ToSet(channelIn)' = ToSet(channelIn)
    BY <2>2 DEF OnePlace
  <2>6. redis'.req \notin Requests /\ redis'.req = NoRequest
    BY <2>2
  <2>7. \A r \in ToSet(channelIn) : r \in Requests
    BY <1>0, ToSetTypes
  <2>8. OnePlace'
    BY <2>1, <2>2, <2>3, <2>4, <2>5, <2>6, <2>7 DEF OnePlace
  <2> QED BY <2>2, <2>8 DEF RightAnswers
<1> QED BY <1>1, <1>2, <1>3, <1>4

LEMMA InnerPlaces ==
  ASSUME Types, Places,
         \/ \E c \in Conns : \E k \in 1..Len(up[c]) : Receive(c, k)
         \/ RunCallback \/ EraseRequests \/ (\E c \in Conns : Close(c)) \/ Delete
         \/ Die
  PROVE  Places'
<1> USE Constants DEF Types, Places
<1>0. inner \in InnerRecords /\ ToSet(channelIn) \subseteq Requests
  BY ToSetTypes DEF TypeOK, InnerRecords
<1>1. ASSUME NEW c \in Conns, NEW k \in 1..Len(up[c]), Receive(c, k) PROVE Places'
  <2> DEFINE r == Head(up[c])
  <2>1. /\ inner'.step = "fire" /\ inner'.req = r /\ inner'.seen = subscribed
        /\ inner'.todo = {q \in subscribed : Matching(q, r)}
    BY <1>1 DEF Receive
  <2> HIDE DEF r
  <2>2. /\ inner.step = "idle"
        /\ UNCHANGED <<sent, channelIn, answers, content, redis, subscribed>>
    BY <1>1 DEF Receive, pageVars, answerVars
  <2>3. \A q \in subscribed : answers[q] = 0
    BY <2>2 DEF OnePlace, Matched
  <2>4. \A q \in inner'.todo : q \in inner'.seen /\ Matched(q)'
    BY <2>1 DEF Matched, Matching
  <2>5. inner'.todo \subseteq inner'.seen /\ inner'.seen = subscribed
    BY <2>1
  <2>6. NoTwice(channelIn)' /\ ToSet(channelIn)' = ToSet(channelIn)
    BY <2>2 DEF OnePlace
  <2>7. OnePlace'
    BY <2>2, <2>3, <2>4, <2>5, <2>6 DEF OnePlace
  <2> QED BY <2>2, <2>7 DEF RightAnswers
<1>2. CASE RunCallback
  <2>1. PICK q \in inner.todo :
          Answer(q, inner.req) /\ inner' = [inner EXCEPT !.todo = @ \ {q}]
    BY <1>2 DEF RunCallback
  <2>2. /\ q \in Requests /\ q \in subscribed /\ q \in sent /\ Matched(q) /\ answers[q] = 0
        /\ inner.req \in Requests /\ inner.step = "fire"
    BY <1>0, <1>2 DEF RunCallback, InnerRecords, Steps, OnePlace
  <2>3. /\ RightAnswers'
        /\ \A p \in Requests : p # q => answers'[p] = answers[p]
    BY <2>1, <2>2, FirstAnswer DEF Matched, Matching
  <2>4. /\ inner'.todo = inner.todo \ {q} /\ inner'.step = "fire" /\ inner'.req = inner.req
        /\ inner'.seen = inner.seen
    BY <1>0, <2>1, <2>2, InnerUpdate
  <2>5. UNCHANGED <<sent, channelIn, redis, subscribed>>
    BY <1>2 DEF RunCallback, pageVars
  <2>6. \A p \in Requests : Matched(p)' <=> Matched(p)
    BY <2>2, <2>4 DEF Matched, Matching
  <2>7. OnePlace'
    <3>1. NoTwice(channelIn)' /\ ToSet(channelIn)' = ToSet(channelIn)
      BY <2>5 DEF NoTwice, OnePlace
    <3>2. \A r \in ToSet(channelIn)' : answers'[r] = 0 /\ r # redis'.req /\ r \notin subscribed'
      <4>1. ToSet(channelIn) \subseteq Requests
        BY <1>0, ToSetTypes DEF TypeOK
      <4> QED BY <2>2, <2>3, <2>5, <3>1, <4>1 DEF OnePlace
    <3>3. redis'.req \in Requests => /\ redis'.req \in sent'
                                     /\ answers'[redis'.req] = 0
                                     /\ redis'.req \notin subscribed'
      BY <2>2, <2>3, <2>4, <2>5, <2>6 DEF OnePlace
    <3>4. /\ inner'.todo \subseteq inner'.seen /\ inner'.seen \subseteq subscribed'
          /\ \A p \in inner'.todo : Matched(p)' /\ answers'[p] = 0
      BY <2>2, <2>3, <2>4, <2>5, <2>6 DEF OnePlace, TypeOK
    <3>5. \A p \in subscribed' : answers'[p] = 0 \/ (Matched(p)' /\ p \notin inner'.todo)
      BY <2>2, <2>3, <2>4, <2>5, <2>6 DEF OnePlace, TypeOK
    <3>6. \A r \in Requests : answers'[r] > 0 => r \in sent'
      BY <2>2, <2>3, <2>4, <2>5, <2>6 DEF OnePlace
    <3> QED BY <2>5, <3>1, <3>2, <3>3, <3>4, <3>5, <3>6 DEF OnePlace
  <2> QED BY <2>3, <2>7
<1>3. CASE EraseRequests
  <2>1. /\ inner' = Idle /\ inner.step = "fire" /\ inner.todo = {}
        /\ UNCHANGED <<sent, channelIn, answers, content, redis>>
    BY <1>3 DEF EraseRequests, pageVars, answerVars
  <2>2. /\ subscribed' \subseteq subscribed
        /\ \A q \in subscribed' : ~Matched(q)
    BY <1>0, <1>3 DEF EraseRequests, Kept, Matched, OnePlace
  <2>3. OnePlace'
    BY <2>1, <2>2 DEF OnePlace, NoTwice
  <2> QED BY <2>1, <2>3 DEF RightAnswers
<1>4. ASSUME NEW c \in Conns, Close(c) PROVE Places'
  <2>1. inner'.step = "close" /\ inner'.todo = {} /\ inner'.seen = {} /\ inner.step = "idle"
    BY <1>4 DEF Close, Idle
  <2>2. UNCHANGED <<sent, channelIn, answers, content, redis, subscribed>>
    BY <1>4 DEF Close, pageVars, answerVars
  <2> QED BY <2>1, <2>2 DEF OnePlace, NoTwice, RightAnswers, Matched
<1>5. CASE Delete
  <2>1. /\ inner' = Idle /\ inner.step = "close"
        /\ UNCHANGED <<sent, channelIn, answers, content, redis, subscribed>>
    BY <1>5 DEF Delete, pageVars, answerVars
  <2> QED BY <2>1 DEF OnePlace, NoTwice, RightAnswers, Matched
<1>6. CASE Die
  <2>1. /\ inner' = Idle /\ redis' = Listen /\ channelIn' = <<>> /\ subscribed' = {}
        /\ UNCHANGED <<sent, answers, content>>
    BY <1>6 DEF Die, answerVars
  <2> QED BY <2>1, ToSetTypes DEF OnePlace, NoTwice, RightAnswers, ToSet
<1> QED BY <1>1, <1>2, <1>3, <1>4, <1>5, <1>6

LEMMA StepPlaces == Types /\ Places /\ [Next]_vars => Places'
<1> SUFFICES ASSUME Types, Places, [Next]_vars PROVE Places'
  OBVIOUS
<1>1. ASSUME NEW h \in Hosts, NEW c \in Conns, Register(h, c) PROVE Places'
  BY <1>1, KeepPlaces DEF Register, pageVars, answerVars
<1>2. ASSUME NEW c \in Conns, NEW k \in 1..Len(down[c]), DeviceAnswer(c, k) PROVE Places'
  BY <1>2, KeepPlaces DEF DeviceAnswer, pageVars, answerVars
<1>3. ASSUME NEW c \in Conns, DeviceLeave(c) PROVE Places'
  BY <1>3, KeepPlaces DEF DeviceLeave, pageVars, answerVars
<1>4. CASE UNCHANGED vars
  BY <1>4, KeepPlaces DEF vars, pageVars, answerVars
<1> QED BY <1>1, <1>2, <1>3, <1>4, PagePlaces, RedisPlaces, InnerPlaces DEF Next

-----------------------------------------------------------------------------
(* No request is forgotten.                                                *)

Traced == Paired /\ Accounted

LEMMA InitTraced == Init => Traced
BY Constants DEF Init, Traced, Paired, Accounted, OnConn, ToSet, Matched

\* Steps that move nothing on the connections, and give no answer, keep what is
\* traced if they move none of the subscriptions and callbacks.
LEMMA KeepTraced ==
  ASSUME Types, Traced,
         UNCHANGED <<sent, channelIn, answers, subscribed, redis, inner>>,
         lost \subseteq lost',
         \A r \in Requests : r \notin lost' => (OnConn(r) <=> OnConn(r)')
  PROVE  Traced'
<1>1. \A r \in Requests : Open(r)' => Open(r) /\ (OnConn(r) <=> OnConn(r)')
  BY DEF Open
<1>2. \A r \in Requests : Matched(r)' <=> Matched(r)
  BY DEF Matched, Matching
<1>3. subscribed \subseteq Requests /\ sent \subseteq Requests /\ redis.req \in Requests \cup {NoRequest}
  BY DEF Types, TypeOK
<1>4. Paired'
  <2>1. redis.step = "subscribe" => redis.req \in Requests
    BY <1>3 DEF Types, Steps
  <2> QED BY <1>1, <1>2, <1>3, <2>1 DEF Traced, Paired
<1>5. Accounted'
  BY <1>3 DEF Traced, Accounted, InFlight, OnConn
<1> QED BY <1>4, <1>5 DEF Traced

LEMMA PageTraced ==
  ASSUME Types, Places, Traced, (\E r \in Requests : Publish(r)) \/ SubscriptionEnds
  PROVE  Traced'
<1>1. ASSUME NEW r \in Requests, Publish(r) PROVE Traced'
  <2>1. /\ r \in lost' \/ r \in ToSet(channelIn)'
        /\ ToSet(channelIn) \subseteq ToSet(channelIn)'
        /\ sent' = sent \cup {r} /\ lost \subseteq lost'
    <3>1. channelIn \in Seq(Requests)
      BY DEF Types, TypeOK
    <3>2. ToSet(Append(channelIn, r)) = ToSet(channelIn) \cup {r}
      BY <3>1, ToSetAppend
    <3> QED BY <1>1, <3>2 DEF Publish
  <2>2. UNCHANGED <<answers, redis, inner, subscribed, down, up>>
    BY <1>1 DEF Publish, answerVars
  <2> QED BY <2>1, <2>2
          DEF Traced, Paired, Open, OnConn, Matched, Matching, Accounted, InFlight
<1>2. CASE SubscriptionEnds
  <2>1. lost' = lost \cup ToSet(channelIn) /\ UNCHANGED <<sent, answers, redis, inner,
                                                         subscribed, down, up>>
    BY <1>2 DEF SubscriptionEnds, answerVars
  <2> QED BY <2>1 DEF Traced, Paired, Open, OnConn, Matched, Matching, Accounted, InFlight
<1> QED BY <1>1, <1>2

LEMMA RedisTraced ==
  ASSUME Types, Places, Traced, Find \/ WriteCommand \/ Refuse \/ SubscribeRequest
  PROVE  Traced'
<1> USE Constants DEF Types, Places, Traced
<1>0. /\ redis \in RedisRecords /\ channelIn \in Seq(Requests)
      /\ sent \subseteq Requests /\ subscribed \subseteq Requests
  BY DEF TypeOK, RedisRecords
<1>1. CASE Find
  <2> DEFINE r == Head(channelIn)
  <2>1. r \in Requests /\ ToSet(channelIn) = {r} \cup ToSet(Tail(channelIn))
    BY <1>0, <1>1, NoTwiceTail DEF Find, OnePlace
  <2>2. /\ redis'.req = r /\ channelIn' = Tail(channelIn)
        /\ redis'.step \in {"write", "refuse"} /\ redis.req = NoRequest
    BY <1>1 DEF Find
  <2> HIDE DEF r
  <2>3. UNCHANGED <<sent, answers, lost, inner, subscribed, down, up>>
    BY <1>1 DEF Find, answerVars
  <2>4. Paired'
    BY <2>2, <2>3 DEF Paired, Open, OnConn, Matched, Matching
  <2>5. Accounted'
    BY <1>0, <2>1, <2>2, <2>3 DEF Accounted, InFlight
  <2> QED BY <2>4, <2>5
<1>2. CASE WriteCommand
  <2> DEFINE c == redis.conn
             r == redis.req
  <2>1. redis'.req = r /\ r \in Requests /\ c \in Conns /\ redis.step = "write"
    BY <1>0, <1>2, RedisUpdate DEF WriteCommand, Steps, RedisRecords
  <2>2. UNCHANGED <<sent, channelIn, answers, inner, subscribed, up>> /\ lost \subseteq lost'
    BY <1>2 DEF WriteCommand, pageVars, answerVars
  <2>3. redis'.step = "subscribe" => r \in lost' \/ OnConn(r)'
    <3>1. CASE client[c] = "open" /\ c \in alive /\ down' = [down EXCEPT ![c] = Append(@, r)]
      <4>1. down'[c] = Append(down[c], r) /\ down[c] \in Seq(Requests)
        BY <2>1, <3>1 DEF TypeOK
      <4>2. r \in ToSet(down'[c])
        BY <2>1, <4>1, ToSetAppend
      <4> QED BY <2>1, <4>2 DEF OnConn
    <3>2. CASE r \in lost'
      BY <3>2
    <3>3. CASE redis' = [redis EXCEPT !.step = "refuse"]
      BY <1>0, <3>3, RedisUpdate
    <3> QED BY <1>2, <3>1, <3>2, <3>3 DEF WriteCommand
  <2>4. \A p \in Requests : /\ OnConn(p) => OnConn(p)'
                            /\ OnConn(p)' => OnConn(p) \/ p = r
    <3>1. \A d \in Conns : /\ ToSet(down[d]) \subseteq ToSet(down'[d])
                           /\ ToSet(down'[d]) \subseteq ToSet(down[d]) \cup {r}
      <4>1. CASE down' = [down EXCEPT ![c] = Append(@, r)]
        <5> SUFFICES ASSUME NEW d \in Conns
                     PROVE  /\ ToSet(down[d]) \subseteq ToSet(down'[d])
                            /\ ToSet(down'[d]) \subseteq ToSet(down[d]) \cup {r}
          OBVIOUS
        <5>1. down[d] \in Seq(Requests) /\ down'[d] \in {down[d], Append(down[d], r)}
          BY <4>1 DEF TypeOK
        <5>2. ToSet(Append(down[d], r)) = ToSet(down[d]) \cup {r}
          BY <2>1, <5>1, ToSetAppend
        <5> QED BY <5>1, <5>2
      <4>2. CASE UNCHANGED down
        BY <4>2
      <4> QED BY <1>2, <4>1, <4>2 DEF WriteCommand
    <3> QED BY <2>2, <3>1 DEF OnConn
  <2> HIDE DEF c, r
  <2>5. Paired'
    BY <1>0, <2>1, <2>2, <2>3, <2>4 DEF Paired, Open, Matched, Matching, r
  <2>6. Accounted'
    <3>1. ASSUME NEW p \in sent', InFlight(p) PROVE InFlight(p)'
      BY <1>0, <2>1, <2>2, <2>4, <3>1 DEF InFlight, OnConn, r
    <3> QED BY <2>2, <3>1 DEF Accounted
  <2> QED BY <2>5, <2>6
<1>3. CASE Refuse
  <2>1. redis.req \in Requests /\ answers[redis.req] = 0 /\ redis.req \notin subscribed
    BY <1>0, <1>3 DEF Refuse, Steps, RedisRecords, OnePlace
  <2>2. /\ answers'[redis.req] > 0 \/ redis.req \in lost'
        /\ lost \subseteq lost'
        /\ \A p \in Requests : p # redis.req => answers'[p] = answers[p]
    BY <1>3, <2>1, FirstAnswer DEF Refuse
  <2>3. /\ redis' = Listen
        /\ UNCHANGED <<sent, channelIn, inner, subscribed, down, up>>
    BY <1>3 DEF Refuse, pageVars
  <2>4. Paired'
    BY <1>0, <2>1, <2>2, <2>3 DEF Paired, Open, OnConn, Matched, Matching
  <2>5. Accounted'
    BY <1>0, <2>1, <2>2, <2>3 DEF Accounted, InFlight
  <2> QED BY <2>4, <2>5
<1>4. CASE SubscribeRequest
  <2>1. /\ redis' = Listen /\ subscribed' = subscribed \cup {redis.req}
        /\ UNCHANGED <<sent, channelIn, answers, lost, inner, down, up>>
        /\ redis.step = "subscribe" /\ redis.req \in Requests
    BY <1>0, <1>4 DEF SubscribeRequest, pageVars, answerVars, Steps, RedisRecords
  <2>2. Paired'
    BY <2>1 DEF Paired, Open, OnConn, Matched, Matching
  <2>3. Accounted'
    <3>1. ASSUME NEW p \in sent, p = redis.req
          PROVE  answers[p] > 0 \/ p \in lost \/ InFlight(p)'
      <4>1. answers[p] \in Nat /\ (Open(p) => OnConn(p)')
        BY <1>0, <2>1, <3>1 DEF Paired, OnConn, TypeOK
      <4> QED BY <4>1 DEF InFlight, OnConn, Open
    <3>2. \A p \in sent : InFlight(p) => InFlight(p)' \/ p = redis.req
      BY <2>1 DEF InFlight
    <3> QED BY <2>1, <3>1, <3>2 DEF Accounted
  <2> QED BY <2>2, <2>3
<1> QED BY <1>1, <1>2, <1>3, <1>4

LEMMA InnerTraced ==
  ASSUME Types, Places, Traced,
         \/ \E c \in Conns : \E k \in 1..Len(up[c]) : Receive(c, k)
         \/ RunCallback \/ EraseRequests \/ (\E c \in Conns : Close(c)) \/ Delete
         \/ Die
  PROVE  Traced'
<1> USE Constants DEF Types, Places, Traced
<1>0. /\ inner \in InnerRecords /\ sent \subseteq Requests /\ subscribed \subseteq Requests
      /\ redis.req \in Requests \cup {NoRequest}
      /\ \A r \in Requests : answers[r] \in Nat
  BY DEF TypeOK, InnerRecords, RedisRecords
<1>1. ASSUME NEW c \in Conns, NEW k \in 1..Len(up[c]), Receive(c, k) PROVE Traced'
  <2> DEFINE r == Head(up[c])
  <2>1. /\ inner'.step = "fire" /\ inner'.req = r /\ inner'.seen = subscribed
        /\ inner'.todo = {q \in subscribed : Matching(q, r)}
        /\ inner.step = "idle" /\ inner.todo = {}
    BY <1>1 DEF Receive, Steps
  <2>2. /\ up[c] \in Seq(Requests) /\ k \in ReadSizes(up[c])
        /\ up' = [up EXCEPT ![c] = After(@, k)]
        /\ UNCHANGED <<sent, channelIn, answers, redis, subscribed, down>>
    BY <1>1 DEF Receive, TypeOK, pageVars, answerVars
  <2>3. /\ r \in Requests
        /\ ToSet(up[c]) = {r} \cup Dropped(up[c], k) \cup ToSet(After(up[c], k))
    BY <2>2, ReadSplits
  <2>4. /\ lost \subseteq lost' /\ Dropped(up[c], k) \subseteq lost'
        /\ redis.step = "subscribe" /\ redis.req = r => r \in lost'
    BY <1>1 DEF Receive
  <2> HIDE DEF r
  <2>5. \A p : /\ OnConn(p)' => OnConn(p)
               /\ OnConn(p) => OnConn(p)' \/ p = r \/ p \in lost'
    BY <2>2, <2>3, <2>4 DEF OnConn, TypeOK
  <2>6. OnConn(r)
    BY <2>3 DEF OnConn
  <2>7. \A q : Matched(q)' => q \in inner'.todo
    BY <2>1, <2>2 DEF Matched, Matching
  <2>8. r \in subscribed => r \in inner'.todo
    BY <2>1 DEF Matching
  <2>9. Paired'
    <3>1. \A p : Open(p)' => Open(p)
      BY <2>2, <2>4 DEF Open
    <3>2. \A p \in Requests : Open(p)' /\ OnConn(p) => OnConn(p)' \/ p = r
      BY <2>5 DEF Open
    <3>3. ASSUME NEW p \in subscribed, Open(p)' PROVE OnConn(p)' \/ p \in inner'.todo
      BY <1>0, <2>1, <2>8, <3>1, <3>2, <3>3 DEF Paired
    <3>4. redis.step = "subscribe" /\ Open(redis.req)' => OnConn(redis.req)'
      BY <1>0, <2>2, <2>4, <2>5, <3>1 DEF Paired, Open, Steps
    <3>5. \A p \in Requests : Open(p)' /\ OnConn(p)' => p \in subscribed \/ p = redis.req
      BY <2>5, <3>1 DEF Paired
    <3> QED BY <2>2, <2>7, <3>3, <3>4, <3>5 DEF Paired
  <2>10. Accounted'
    <3>1. ASSUME NEW p \in sent, InFlight(p), p \notin lost', answers[p] = 0 PROVE InFlight(p)'
      <4>1. CASE OnConn(p) /\ p = r
        <5>1. p \in subscribed \/ p = redis.req
          BY <1>0, <2>4, <3>1, <4>1 DEF Paired, Open
        <5> QED BY <2>2, <2>8, <4>1, <5>1 DEF InFlight
      <4>2. CASE OnConn(p) /\ p # r
        BY <2>5, <3>1, <4>2 DEF InFlight, OnConn
      <4>3. CASE ~OnConn(p)
        BY <2>1, <2>2, <3>1, <4>3 DEF InFlight, OnConn
      <4> QED BY <4>1, <4>2, <4>3
    <3>2. \A p \in sent : answers[p] = 0 \/ answers[p] > 0
      BY <1>0
    <3> QED BY <2>2, <2>4, <3>1, <3>2 DEF Accounted
  <2> QED BY <2>9, <2>10
<1>2. CASE RunCallback
  <2>1. PICK q \in inner.todo :
          Answer(q, inner.req) /\ inner' = [inner EXCEPT !.todo = @ \ {q}]
    BY <1>2 DEF RunCallback
  <2>2. /\ q \in Requests /\ Matched(q) /\ answers[q] = 0
        /\ inner.req \in Requests /\ inner.step = "fire"
    BY <1>0, <1>2 DEF RunCallback, InnerRecords, Steps, OnePlace
  <2>3. /\ answers'[q] > 0 \/ q \in lost'
        /\ lost \subseteq lost' /\ lost' \subseteq lost \cup {q}
        /\ \A p \in Requests : p # q => answers'[p] = answers[p]
    BY <2>1, <2>2, FirstAnswer DEF Matched, Matching
  <2>4. /\ inner'.todo = inner.todo \ {q} /\ inner'.step = "fire" /\ inner'.req = inner.req
        /\ inner'.seen = inner.seen
    BY <1>0, <2>1, <2>2, InnerUpdate
  <2>5. UNCHANGED <<sent, channelIn, redis, subscribed, down, up>>
    BY <1>2 DEF RunCallback, pageVars
  <2>6. \A p : (Matched(p)' <=> Matched(p)) /\ (OnConn(p)' <=> OnConn(p))
    BY <2>2, <2>4, <2>5 DEF Matched, Matching, OnConn
  <2>7. \A p \in Requests : Open(p)' => Open(p) /\ p # q
    BY <2>3 DEF Open
  <2>8. Paired'
    <3>1. redis.step = "subscribe" => redis.req \in Requests
      BY <1>0 DEF Steps
    <3> QED BY <1>0, <2>4, <2>5, <2>6, <2>7, <3>1 DEF Paired
  <2>9. Accounted'
    <3>1. \A p \in sent : InFlight(p) /\ p # q => InFlight(p)'
      BY <2>4, <2>5 DEF InFlight
    <3> QED BY <1>0, <2>3, <2>5, <3>1 DEF Accounted
  <2> QED BY <2>8, <2>9
<1>3. CASE EraseRequests
  <2>1. /\ inner' = Idle /\ inner.step = "fire" /\ inner.todo = {}
        /\ UNCHANGED <<sent, channelIn, answers, redis, down, up>>
        /\ lost \subseteq lost'
    BY <1>3 DEF EraseRequests, pageVars, answerVars
  <2>2. /\ subscribed' \subseteq subscribed
        /\ \A q \in subscribed \ subscribed' : Matched(q) \/ q \in lost'
    BY <1>0, <1>3 DEF EraseRequests, Kept, Matched, OnePlace
  <2>3. \A p : (OnConn(p)' <=> OnConn(p)) /\ (Open(p)' => Open(p))
    BY <2>1 DEF OnConn, Open
  <2>4. Paired'
    <3>1. \A p \in subscribed : Open(p)' => p \in subscribed'
      BY <1>0, <2>1, <2>2, <2>3 DEF Paired, Open
    <3>2. redis.step = "subscribe" => redis.req \in Requests
      BY <1>0 DEF Steps
    <3> QED BY <1>0, <2>1, <2>2, <2>3, <3>1, <3>2 DEF Paired, Matched
  <2>5. Accounted'
    BY <2>1 DEF Accounted, InFlight
  <2> QED BY <2>4, <2>5
<1>4. ASSUME NEW c \in Conns, Close(c) PROVE Traced'
  <2>1. inner'.step = "close" /\ inner'.todo = {} /\ inner'.seen = {} /\ inner.step = "idle"
        /\ inner.todo = {}
    BY <1>4 DEF Close, Idle
  <2>2. /\ UNCHANGED <<sent, channelIn, answers, redis, subscribed>>
        /\ lost' = lost \cup ToSet(down[c]) \cup ToSet(up[c])
        /\ down' = [down EXCEPT ![c] = <<>>] /\ up' = [up EXCEPT ![c] = <<>>]
    BY <1>4 DEF Close, pageVars, answerVars
  <2>3. ToSet(<<>>) = {}
    BY DEF ToSet
  <2>4. \A p : /\ OnConn(p)' => OnConn(p)
               /\ OnConn(p) => OnConn(p)' \/ p \in lost'
    BY <2>2, <2>3 DEF OnConn, TypeOK
  <2>5. Paired'
    BY <1>0, <2>1, <2>2, <2>4 DEF Paired, Matched, Open, Steps
  <2>6. Accounted'
    BY <2>1, <2>2, <2>4 DEF Accounted, InFlight, OnConn
  <2> QED BY <2>5, <2>6
<1>5. CASE Delete
  <2>1. /\ inner' = Idle /\ inner.step = "close" /\ inner.todo = {}
        /\ UNCHANGED <<sent, channelIn, answers, redis, subscribed, lost, down, up>>
    BY <1>5 DEF Delete, pageVars, answerVars, Steps
  <2>2. Paired'
    BY <2>1 DEF Paired, Matched, Open, OnConn
  <2>3. Accounted'
    BY <2>1 DEF Accounted, InFlight
  <2> QED BY <2>2, <2>3
<1>6. CASE Die
  <2>1. /\ inner' = Idle /\ redis' = Listen /\ subscribed' = {} /\ lost' = lost \cup sent
        /\ sent' = sent /\ down' = [c \in Conns |-> <<>>] /\ up' = [c \in Conns |-> <<>>]
    BY <1>6 DEF Die
  <2>2. \A p : ~OnConn(p)'
    BY <2>1 DEF OnConn, ToSet
  <2> QED BY <2>1, <2>2 DEF Paired, Matched, Accounted
<1> QED BY <1>1, <1>2, <1>3, <1>4, <1>5, <1>6

LEMMA StepTraced == Types /\ Places /\ Traced /\ [Next]_vars => Traced'
<1> SUFFICES ASSUME Types, Places, Traced, [Next]_vars PROVE Traced'
  OBVIOUS
<1>1. ASSUME NEW h \in Hosts, NEW c \in Conns, Register(h, c) PROVE Traced'
  BY <1>1, KeepTraced DEF Register, pageVars, answerVars, OnConn
<1>2. ASSUME NEW c \in Conns, NEW k \in 1..Len(down[c]), DeviceAnswer(c, k) PROVE Traced'
  <2> DEFINE r == Head(down[c])
  <2>1. /\ down[c] \in Seq(Requests) /\ up[c] \in Seq(Requests) /\ k \in ReadSizes(down[c])
        /\ down' = [down EXCEPT ![c] = After(@, k)]
        /\ up' = [up EXCEPT ![c] = Append(@, r)]
        /\ lost' = lost \cup Dropped(down[c], k)
        /\ UNCHANGED <<sent, channelIn, answers, subscribed, redis, inner>>
    BY <1>2 DEF DeviceAnswer, Types, TypeOK, pageVars, answerVars
  <2>2. /\ r \in Requests
        /\ ToSet(down[c]) = {r} \cup Dropped(down[c], k) \cup ToSet(After(down[c], k))
    BY <2>1, ReadSplits
  <2>3. ToSet(Append(up[c], r)) = ToSet(up[c]) \cup {r}
    BY <2>1, <2>2, ToSetAppend
  <2> HIDE DEF r
  <2>4. down'[c] = After(down[c], k) /\ up'[c] = Append(up[c], r)
    BY <2>1 DEF Types, TypeOK
  <2>5. \A d \in Conns : d # c => down'[d] = down[d] /\ up'[d] = up[d]
    BY <2>1 DEF Types, TypeOK
  <2>6. \A p \in Requests : p \notin lost' => (OnConn(p) <=> OnConn(p)')
    BY <2>1, <2>2, <2>3, <2>4, <2>5 DEF OnConn
  <2> QED BY <2>1, <2>6, KeepTraced
<1>3. ASSUME NEW c \in Conns, DeviceLeave(c) PROVE Traced'
  <2>1. /\ down' = [down EXCEPT ![c] = <<>>] /\ lost' = lost \cup ToSet(down[c])
        /\ UNCHANGED <<sent, channelIn, answers, subscribed, redis, inner, up>>
    BY <1>3 DEF DeviceLeave, pageVars, answerVars
  <2>2. \A p \in Requests : p \notin lost' => (OnConn(p) <=> OnConn(p)')
    BY <2>1 DEF OnConn, ToSet, Types, TypeOK
  <2> QED BY <2>1, <2>2, KeepTraced
<1>4. CASE UNCHANGED vars
  BY <1>4, KeepTraced DEF vars, pageVars, answerVars, OnConn
<1> QED BY <1>1, <1>2, <1>3, <1>4, PageTraced, RedisTraced, InnerTraced DEF Next

-----------------------------------------------------------------------------
(* The theorems.                                                           *)

\* The inductive invariant holds in every state the server reaches.
THEOREM Invariance == Spec => []IInv
<1>1. Init => IInv
  BY InitTypes, InitPlaces, InitTraced DEF IInv, Types, Places, Traced
<1>2. IInv /\ [Next]_vars => IInv'
  BY StepTypes, StepPlaces, StepTraced DEF IInv, Types, Places, Traced
<1> QED BY <1>1, <1>2, PTL DEF Spec

\* Every variable keeps its type.
THEOREM TypeCorrect == Spec => []TypeOK
BY Invariance, PTL DEF IInv

\* No page gets two answers to a request, and none sees what another account
\* asked, whatever the redis thread, the inner thread and the devices do.
THEOREM AnswersAreRight == Spec => []RightAnswers
BY Invariance, PTL DEF IInv

\* A request without an answer is on its way, or one of the named accidents befell
\* it: the server forgets none on its own.
THEOREM NoneIsForgotten == Spec => []Accounted
BY Invariance, PTL DEF IInv
=============================================================================
