---------------------------- MODULE CommandRelay ----------------------------
(***************************************************************************)
(* Commands of the pages to the devices.  A page publishes "host id        *)
(* command" on the redis channel of commands; the redis thread of the      *)
(* server looks the device up, writes the command to its connection and    *)
(* then subscribes a callback under the id; the inner thread, which reads  *)
(* the device's response, runs every callback subscribed under its id, and *)
(* each publishes the response on the channel the pages listen to.         *)
(*                                                                         *)
(* The id is the account of the page, so all requests of an account share  *)
(* it.  The two threads share the registry, the connection objects and the *)
(* subscribed requests without a lock: an access to an object the other    *)
(* thread deleted, or to the vector while it is searched, has every        *)
(* outcome the build can give it, the death of the process included.       *)
(***************************************************************************)
EXTENDS Naturals, Sequences, SequencesExt

CONSTANTS Requests,  \* what the pages ask, one element per published message
          Accounts,  \* the ids of the requests
          Hosts,     \* the hosts they are sent to
          Conns,     \* the connection objects of the inner server
          Account,   \* Account[r]: the id of request r
          Host,      \* Host[r]: its host
          NoConn,    \* "not found" of a lookup in the registry
          NoRequest, \* no request at hand
          Coalesce   \* a read may return several commands at once

ASSUME CommandRelayAssumption ==
         /\ Account \in [Requests -> Accounts]
         /\ Host \in [Requests -> Hosts]
         /\ NoConn \notin Conns
         /\ NoRequest \notin Requests
         /\ Coalesce \in BOOLEAN

VARIABLES
  \* redis and the pages
  sent,         \* requests published so far
  channelIn,    \* those the redis thread has not read yet
  listening,    \* the redis thread is subscribed to the channel
  answers,      \* how often a request was answered on the channel of responses
  content,      \* <<r, q>>: request r was answered with the response to q
  lost,         \* history: requests something befell (see Accounted)
  \* the redis thread: its step, its request, the connection it looked up
  redis,
  \* the inner thread: its step, its connection, the response it handles, the
  \* callbacks still to run and the subscriptions it searches
  inner,
  \* shared by both threads
  connections,  \* HttpServerHost::connections_
  client,       \* life of the InnerTcpServerClient objects
  subscribed,   \* subscribed_requests_, where a request comes at most once
  \* the connections and the devices
  alive,        \* connections with a living device at the other end
  down,         \* commands on their way to the device, as requests
  up            \* responses on their way to the server, as requests

pageVars   == <<sent, channelIn, listening>>
answerVars == <<answers, content>>
connVars   == <<connections, client, alive>>
vars == <<pageVars, answerVars, lost, redis, inner, connVars, subscribed, down, up>>

Listen == [step |-> "listen", req |-> NoRequest, conn |-> NoConn]
Idle == [step |-> "idle", conn |-> NoConn, req |-> NoRequest,
         todo |-> {}, seen |-> {}]

TypeOK ==
  /\ sent \in SUBSET Requests
  /\ channelIn \in Seq(Requests)
  /\ listening \in BOOLEAN
  /\ answers \in [Requests -> Nat]
  /\ content \in SUBSET (Requests \X Requests)
  /\ lost \in SUBSET Requests
  /\ redis \in [step : {"listen", "write", "refuse", "subscribe"},
                req : Requests \cup {NoRequest}, conn : Conns \cup {NoConn}]
  /\ inner \in [step : {"idle", "fire", "close"},
                conn : Conns \cup {NoConn}, req : Requests \cup {NoRequest},
                todo : SUBSET Requests, seen : SUBSET Requests]
  /\ connections \in [Hosts -> Conns \cup {NoConn}]
  /\ client \in [Conns -> {"none", "open", "closed", "deleted"}]
  /\ alive \in SUBSET Conns
  /\ subscribed \in SUBSET Requests
  /\ down \in [Conns -> Seq(Requests)]
  /\ up \in [Conns -> Seq(Requests)]

Init ==
  /\ sent = {}
  /\ channelIn = <<>>
  /\ listening = TRUE
  /\ answers = [r \in Requests |-> 0]
  /\ content = {}
  /\ lost = {}
  /\ redis = Listen
  /\ inner = Idle
  /\ connections = [h \in Hosts |-> NoConn]
  /\ client = [c \in Conns |-> "none"]
  /\ alive = {}
  /\ subscribed = {}
  /\ down = [c \in Conns |-> <<>>]
  /\ up = [c \in Conns |-> <<>>]

\* As in InnerServer: a read takes k commands, and only the first is handled.
ReadSizes(q) == IF Coalesce THEN 1..Len(q) ELSE {1} \cap 1..Len(q)
After(q, k) == SubSeq(q, k + 1, Len(q))
Dropped(q, k) == ToSet(SubSeq(q, 2, k))

\* A message to the pages; publishing fails while redis cannot be reached.
Answer(r, q) ==
  \/ /\ answers' = [answers EXCEPT ![r] = @ + 1]
     /\ content' = content \cup {<<r, q>>}
     /\ UNCHANGED lost
  \/ /\ lost' = lost \cup {r}
     /\ UNCHANGED answerVars

-----------------------------------------------------------------------------
(* The pages, and the subscription of the redis thread.                    *)

\* A message is kept for nobody who is not subscribed.
Publish(r) ==
  /\ r \notin sent
  /\ sent' = sent \cup {r}
  /\ IF listening
     THEN channelIn' = Append(channelIn, r) /\ UNCHANGED lost
     ELSE lost' = lost \cup {r} /\ UNCHANGED channelIn
  /\ UNCHANGED <<listening, answerVars, redis, inner, connVars, subscribed, down, up>>

\* RedisSub::listen returns on the first error, and nothing calls it again.
SubscriptionEnds ==
  /\ listening
  /\ redis = Listen
  /\ listening' = FALSE
  /\ channelIn' = <<>>
  /\ lost' = lost \cup ToSet(channelIn)
  /\ UNCHANGED <<sent, answerVars, redis, inner, connVars, subscribed, down, up>>

-----------------------------------------------------------------------------
(* handleMessage, on the redis thread.                                     *)

Find ==
  /\ redis = Listen
  /\ channelIn # <<>>
  /\ LET r == Head(channelIn)
         c == connections[Host[r]]
     IN redis' = [step |-> IF c = NoConn THEN "refuse" ELSE "write",
                  req |-> r, conn |-> c]
  /\ channelIn' = Tail(channelIn)
  /\ UNCHANGED <<sent, listening, answerVars, lost, inner, connVars>>
  /\ UNCHANGED <<subscribed, down, up>>

\* The write succeeds on a living connection; when the device is gone the
\* kernel may not know yet; a closed object gives an error, a deleted one both.
WriteCommand ==
  LET c == redis.conn
      r == redis.req IN
  /\ redis.step = "write"
  /\ \/ /\ client[c] = "open" /\ c \in alive
        /\ down' = [down EXCEPT ![c] = Append(@, r)]
        /\ redis' = [redis EXCEPT !.step = "subscribe"]
        /\ UNCHANGED lost
     \/ /\ client[c] # "closed" /\ c \notin alive
        /\ lost' = lost \cup {r}
        /\ redis' = [redis EXCEPT !.step = "subscribe"]
        /\ UNCHANGED down
     \/ /\ c \notin alive
        /\ redis' = [redis EXCEPT !.step = "refuse"]
        /\ UNCHANGED <<lost, down>>
  /\ UNCHANGED <<pageVars, answerVars, inner, connVars, subscribed, up>>

\* Mutants of Refuse: the id is taken from the message after it was released;
\* the failure is not published.
RefuseUnnamed ==
  /\ redis.step = "refuse"
  /\ redis' = Listen
  /\ Answer(redis'.req, redis'.req)
  /\ UNCHANGED <<pageVars, inner, connVars, subscribed, down, up>>
RefuseSilently ==
  /\ redis.step = "refuse"
  /\ redis' = Listen
  /\ UNCHANGED <<pageVars, answerVars, lost, inner, connVars, subscribed, down, up>>

\* not_connected or not_handled.
Refuse ==
  /\ redis.step = "refuse"
  /\ Answer(redis.req, redis.req)
  /\ redis' = Listen
  /\ UNCHANGED <<pageVars, inner, connVars, subscribed, down, up>>

SubscribeRequest ==
  /\ redis.step = "subscribe"
  /\ subscribed' = subscribed \cup {redis.req}
  /\ redis' = Listen
  /\ UNCHANGED <<pageVars, answerVars, lost, inner, connVars, down, up>>

-----------------------------------------------------------------------------
(* The inner thread.                                                       *)

\* The handshake of InnerServer, in one step.
Register(h, c) ==
  /\ inner = Idle
  /\ client[c] = "none"
  /\ connections[h] = NoConn
  /\ client' = [client EXCEPT ![c] = "open"]
  /\ connections' = [connections EXCEPT ![h] = c]
  /\ alive' = alive \cup {c}
  /\ UNCHANGED <<pageVars, answerVars, lost, redis, inner, subscribed, down, up>>

\* exec_reqest: a callback is run, and erased, when its id is the packet's.
Matching(q, r) == Account[q] = Account[r]

\* The response to r; it finds no callback for r if the redis thread has not
\* subscribed it yet.
Receive(c, k) ==
  LET r == Head(up[c]) IN
  /\ inner = Idle
  /\ client[c] = "open"
  /\ k \in ReadSizes(up[c])
  /\ up' = [up EXCEPT ![c] = After(@, k)]
  /\ inner' = [step |-> "fire", conn |-> c, req |-> r,
               todo |-> {q \in subscribed : Matching(q, r)}, seen |-> subscribed]
  /\ lost' = lost \cup Dropped(up[c], k)
                  \cup {q \in {r} : redis.step = "subscribe" /\ redis.req = q}
  /\ UNCHANGED <<pageVars, answerVars, redis, connVars, subscribed, down>>

\* processSubscribed, once for each matching callback; nothing depends on their
\* order.
RunCallback ==
  /\ inner.step = "fire"
  /\ \E q \in inner.todo :
       /\ Answer(q, inner.req)
       /\ inner' = [inner EXCEPT !.todo = @ \ {q}]
  /\ UNCHANGED <<pageVars, redis, connVars, subscribed, down, up>>

\* Mutants of Kept: what was run is not erased; everything is.
KeptAll(r) == subscribed
KeptNone(r) == {}

\* The subscriptions that were searched and did not match.
Kept(r) == {q \in inner.seen : ~Matching(q, r)}

\* erase(remove_if(..), end()): a subscription the redis thread added since
\* the search began is kept or erased as well, as the compiler orders the calls.
\* The handler of the response follows; when it cannot write its approve of a
\* ping it closes the connection.
EraseRequests ==
  LET new == subscribed \ inner.seen IN
  /\ inner.step = "fire"
  /\ inner.todo = {}
  /\ \/ subscribed' = Kept(inner.req) \cup new /\ UNCHANGED lost
     \/ /\ new # {}
        /\ subscribed' = Kept(inner.req)
        /\ lost' = lost \cup new
  /\ inner' = Idle
  /\ UNCHANGED <<pageVars, answerVars, redis, connVars, down, up>>

\* The connection ended, a write to it failed, or a read stopped inside a
\* command: it leaves the registry and is closed; its deletion comes after the
\* announcement.
Close(c) ==
  /\ inner = Idle
  /\ client[c] = "open"
  /\ c \notin alive \/ (Coalesce /\ up[c] # <<>>)
  /\ connections' = [h \in Hosts |-> IF connections[h] = c THEN NoConn
                                                           ELSE connections[h]]
  /\ client' = [client EXCEPT ![c] = "closed"]
  /\ alive' = alive \ {c}
  /\ lost' = lost \cup ToSet(down[c]) \cup ToSet(up[c])
  /\ down' = [down EXCEPT ![c] = <<>>]
  /\ up' = [up EXCEPT ![c] = <<>>]
  /\ inner' = [Idle EXCEPT !.step = "close", !.conn = c]
  /\ UNCHANGED <<pageVars, answerVars, redis, subscribed>>

Delete ==
  /\ inner.step = "close"
  /\ client' = [client EXCEPT ![inner.conn] = "deleted"]
  /\ inner' = Idle
  /\ UNCHANGED <<pageVars, answerVars, lost, redis, connections, alive>>
  /\ UNCHANGED <<subscribed, down, up>>

\* The process dies when it follows the pointer to a deleted connection, or when
\* the vector moves while it is searched.  It is started again.
Die ==
  /\ \/ redis.step = "write" /\ client[redis.conn] = "deleted"
     \/ redis.step = "subscribe" /\ inner.step = "fire"
  /\ lost' = lost \cup sent
  /\ listening' = TRUE
  /\ channelIn' = <<>>
  /\ redis' = Listen
  /\ inner' = Idle
  /\ connections' = [h \in Hosts |-> NoConn]
  /\ client' = [c \in Conns |-> IF client[c] = "none" THEN "none" ELSE "deleted"]
  /\ alive' = {}
  /\ subscribed' = {}
  /\ down' = [c \in Conns |-> <<>>]
  /\ up' = [c \in Conns |-> <<>>]
  /\ UNCHANGED <<sent, answerVars>>

-----------------------------------------------------------------------------
(* The devices.                                                            *)

\* A handler of the device answers the command under the command's id.
DeviceAnswer(c, k) ==
  /\ c \in alive
  /\ k \in ReadSizes(down[c])
  /\ down' = [down EXCEPT ![c] = After(@, k)]
  /\ up' = [up EXCEPT ![c] = Append(@, Head(down[c]))]
  /\ lost' = lost \cup Dropped(down[c], k)
  /\ UNCHANGED <<pageVars, answerVars, redis, inner, connVars, subscribed>>

DeviceLeave(c) ==
  /\ c \in alive
  /\ alive' = alive \ {c}
  /\ lost' = lost \cup ToSet(down[c])
  /\ down' = [down EXCEPT ![c] = <<>>]
  /\ UNCHANGED <<pageVars, answerVars, redis, inner, connections, client>>
  /\ UNCHANGED <<subscribed, up>>

Next ==
  \/ \E r \in Requests : Publish(r)
  \/ SubscriptionEnds
  \/ Find
  \/ WriteCommand
  \/ Refuse
  \/ SubscribeRequest
  \/ \E h \in Hosts, c \in Conns : Register(h, c)
  \/ \E c \in Conns : \E k \in 1..Len(up[c]) : Receive(c, k)
  \/ RunCallback
  \/ EraseRequests
  \/ \E c \in Conns : Close(c)
  \/ Delete
  \/ Die
  \/ \E c \in Conns : \E k \in 1..Len(down[c]) : DeviceAnswer(c, k)
  \/ \E c \in Conns : DeviceLeave(c)

Spec == Init /\ [][Next]_vars

-----------------------------------------------------------------------------
(* Properties.                                                             *)

\* A request is answered once, not by the failure to write it and a response, and
\* not by two responses under its id; and the pages of an account never see what
\* another account asked a device.
RightAnswers ==
  /\ \A r \in Requests : answers[r] <= 1
  /\ \A a \in content : Account[a[1]] = Account[a[2]]

\* A request that was published is answered, or it is somewhere on its way, or
\* one of these befell it: nobody listened to the channel, its answer could not
\* be published, the connection ended, it was dropped from a buffer that held
\* two commands, its response overtook its subscription, the vector lost it, or
\* the process died.  There is no other way to leave a page waiting.
InFlight(r) ==
  \/ r \in ToSet(channelIn)
  \/ redis.req = r
  \/ \E c \in Conns : r \in ToSet(down[c]) \cup ToSet(up[c])
  \/ r \in inner.todo
Accounted ==
  \A r \in sent : answers[r] > 0 \/ r \in lost \/ InFlight(r)

\* The redis thread and the inner thread keep working, calls to redis return, and
\* a device that is connected reads its commands and answers them.
Fairness ==
  /\ WF_vars(Find) /\ WF_vars(WriteCommand) /\ WF_vars(Refuse)
  /\ WF_vars(SubscribeRequest)
  /\ WF_vars(RunCallback) /\ WF_vars(EraseRequests) /\ WF_vars(Delete)
  /\ \A c \in Conns :
       /\ WF_vars(\E k \in 1..Len(up[c]) : Receive(c, k))
       /\ WF_vars(\E k \in 1..Len(down[c]) : DeviceAnswer(c, k))

FairSpec == Spec /\ Fairness

\* A page that asked gets an answer, unless something befell its request.
PageAnswered == \A r \in Requests : r \in sent ~> (answers[r] > 0 \/ r \in lost)
=============================================================================
