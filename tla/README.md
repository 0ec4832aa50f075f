# SiteOnYourDevice in TLA+

SiteOnYourDevice lets a device without a public address serve a web site.  The
device keeps a TCP connection (the *command connection*) to a proxy server; the
proxy receives the browsers' requests for the device's host name and passes each
of them to the device over a *relay*, a second connection that the device opens
when it is told to.  A front end (node.js) manages the accounts and their
domains, shows which devices are connected, sends them commands, and has
installers built by a build server.

This directory holds TLA+ models of the parts of that system that carry its
logic, TLC configurations that check them on small instances, and proofs that
TLAPS checks for every instance.  Paths below are relative to the repository;
`back_end/src` and `front_end` are the two halves of the program.

## How to run

    tlc -workers 2 -config CommandRelay.cfg MCCommandRelay.tla
    tlapm InnerServerProofs.tla

`PROJECT.json` lists the runs with the properties each checks, for every
definition the source lines it models, for every property a mutation of the code
that violates it, the hazards of the code, and the proved theorems.

## Inventory

The C++ programs use an external library, `common`, whose sources are not in the
tree: its event loop (one thread, one handler at a time), its sockets and its http
and http/2 codecs.  They are modelled by what their callers rely on.

### The proxy server (`back_end/src/server`)

| Part | State | Operations | Interacts with |
|---|---|---|---|
| host registry, `http_server_host.cpp` | `connections_`: host name to raw pointer of a device connection | register, unregister, find | written by the inner thread, read by the http, websocket and redis threads, no lock |
| inner server, `inner/inner_tcp_server.cpp` | the connections of the inner loop, the identity of each, the ping timer | Accepted, DataReceived, Closed, TimerEmited, handlers of requests, responses and approves | devices (commands over TCP), redis (blocking calls), the registry |
| command parser, `../inner/inner_server_command_seq_parser.cpp` | the counter of ids, `subscribed_requests_` | handleInnerDataReceived, processRequest, subscribeRequest | used on both sides of the command connection; on the server by two threads |
| redis storage and channels, `redis_helpers.cpp` | the subscription of the redis thread | findUser, publish_clients_state, publish_command_out, listen, stop | redis; `listen` runs in a thread of its own |
| command relay, `InnerSubHandler` in `inner/inner_tcp_server.cpp` | none of its own | handleMessage, processSubscribed | redis thread to the command connection, inner thread to redis |
| http and websocket relays, `inner/inner_tcp_client.cpp` | per device connection: its relays; per relay: `client_primary_`, `client_device_`, the request it was made for | addHttpRelayClient, addWebsocketRelayClient, readyForRequest, setClient, the loop's handlers | the http or websocket thread hands sockets to the relay's thread |
| loop controller, `../loop_controller.cpp` | `loop_`, `handler_`, the thread | start, exec, stop, join | one object, its own thread and the thread that controls it |

### The device (`back_end/src`)

| Part | State | Operations |
|---|---|---|
| command connection, `inner/inner_server_handler.cpp` | `inner_connection_`, `config_`, the ping timer | PreLooped (connects once), ping, answers to who_are_you, plz_connect_http, plz_connect_websocket, plz_system_info, plz_config, plz_set_config |
| network controller, `network/network_controller.cpp` | `config_`, `server_`, `auth_checker_` | connect, disConnect, setConfig, readConfig, saveConfig |
| relay clients, `inner/http_inner_server_handler.cpp`, `inner/inner_relay_client.cpp` | the pair of sockets of an external server | DataReceived in both directions, authentication of a private site |
| http and http/2 server, `http/` | the streams of a connection, the chain of callbacks | frames, requests, file and system callbacks |
| websocket server, `websocket/` | state of the handshake and of the frame being read | handshake, decoding and encoding of frames |
| identity codec, `infos.cpp` | none | text of `login:password:host` and back |

### The front end and the build server

| Part | State | Operations |
|---|---|---|
| accounts and domains, `front_end/app/routes.js` | users and domains in the document store, hosts of an account in the redis hash `users` | add_domain, remove_domain, sign up and log in |
| pages, `front_end/views`, `public/scripts/script.js`, `server.js` | what a page shows of a domain | publish commands, handle states and responses |
| rpc over rabbitmq, `front_end/app/amqprpc.js` | the requests waiting for a response, with a timer each | makeRequest, the reply consumer, the timeout |
| build server, `back_end/build/build_server.py` | one build at a time | on_request, status and response messages, acknowledge |

### What is hard in it, and what makes each part correct

* **Registry.**  Four threads share raw pointers.  An entry must never outlive the
  connection it points to, the entry of one device must not be erased by the end
  of another, and the pages must be told what the registry holds
  (`RegistryExact`, `AnnouncedExact`, `ImplementsDirectory`, `LivingOwnerStays`).
* **Handshake.**  Redis is asked while the handler of a response runs, the approve
  is written before the registration, any write can fail: every device must end
  up registered or closed (`HandshakeEnds`, `ApprovedIsRegistered`,
  `OwnerHadHost`), and a dead one must free its host (`HostFreed`).
* **Command relay.**  Requests and responses meet in a vector that two threads use
  without a lock, all requests of an account have the same id, connections end
  between any two steps (`RightAnswers`, `Accounted`, `PageAnswered`).
* **Relays.**  The http thread reads and writes fields of an object another thread
  owns, and the inner thread may delete the connection with all its relays
  meanwhile (`OneOwner`, `NoMixedResponses`, `NoneForgotten`, `DeletionEnds`).
* **The proxy's process.**  Three loops, a redis thread that only looks for its end
  between two messages, and signals that run on any thread (`OrderlyEnd`,
  `QuitEnds`).
* **Device controller.**  Configuration and the check of a private site are set by
  one thread and read by another; stop, join and delete of a web server race with the
  start of its thread (`OneServer`, `ConfigAgrees`, `PrivateGuarded`, `Obeyed`).
* **Device web server.**  A read holds part of a request or several; http/2 streams share
  one connection; authentication is remembered per connection; an external server's
  connection and its relay end independently (`Guarded`, `Answers`, `Survives`, `Echo`,
  `Forwarded`).
* **Accounts.**  A name is looked for and then saved; two stores are written one after the
  other, from a copy of the document (`OneOwner` and `MirrorExact` of `Accounts`).
* **Builds.**  A job may be delivered twice, an answer may be later than its request's
  timer, a failed build may leave the server in another directory (`NothingForgotten`,
  `AtHome`, `FinalIsLast`, `Answered`).

The complete list, with the line where each hazard bites and the properties that
watch it, is `"hazards"` in `PROJECT.json`.

## Modules

| Module | Models | Checked by the runs | Proofs |
|---|---|---|---|
| `HostDirectory` | what the registry promises, abstractly: a host is claimed by a connection that never had one while it is free, and released with it | as `ImplementsDirectory` | refinement |
| `InnerServer` | the inner server, the registry, redis as it uses it, the network and the devices | `registry`, `pings`, `live` | `InnerServerProofs` |
| `CommandRelay` | the commands of the pages: redis thread, inner thread, connections, devices | `command_relay` | `CommandRelayProofs` |
| `RelayLoop` | the http and websocket relays of one device connection, and its deletion | `relay_loop`, `relay_handler` | `RelayLoopProofs` |
| `ServerProcess` | the proxy's process: main, loops, redis thread, signals | `server_process` | `ServerProcessProofs` |
| `DeviceController` | the device's program: event thread, inner thread, threads of its web servers | `device`, `private_local` | `DeviceControllerProofs` |
| `WebServer` | the device's http and http/2 server on one connection | `web_server` | `ExternalRelayProofs` |
| `WebSocketServer` | extends it by the websocket server | `web_server` | `ExternalRelayProofs` |
| `ExternalRelay` | extends that by the relays to an external server; its `Next` is that of any connection of the device | `web_server` | `ExternalRelayProofs` |
| `Accounts` | accounts, sessions and domains of the front end, the document store and the redis hash | `accounts` | `AccountsProofs` |
| `BuildRpc` | the requests for packages: front end, broker, build servers | `build` | `BuildRpcProofs` |

The `MC...` modules give the constants their values where a `.cfg` cannot.  The
specifications meet in what they take from each other: `InnerServer` lets the `users`
hash that `Accounts` writes change at any time; `CommandRelay` and `RelayLoop` start from the
registry of `InnerServer`; `ServerProcess` holds the threads that those three take for granted;
`ExternalRelay` is what happens on a relay that `RelayLoop` opened and `DeviceController` posted.

### InnerServer

`client` is the life of an `InnerTcpServerClient`, `hinfo` its `hinfo_`,
`connections` is `HttpServerHost::connections_`.  The C++ handlers run on one
thread, so each is one action, except where it calls redis: there the actions of
devices and of the front end may come in between, so the rest of the handler is
held in `task` and nothing else happens on the server before it is done
(`ApproveDevice`, `Register`, `Announce`).  A device's connection has an end on
each side: `peer` is what the kernel knows (`here`, `fin` after a close, `dead` when
the device vanished, `rst` after the write that found out), `down` and `up` are the
commands under way.  A write to a vanished device succeeds once and fails from then
on.  With `Coalesce` a read may return several commands or a part of one; the parser
handles the first and drops the rest, or closes the connection.  What a device answers to
who_are_you is any identity, one that does not parse (`NoInfo`), or an answer without one
(`NoIdentity`), which `RefuseUnnamed` refuses and, as the code does, keeps open.  `UpdateUser` is the
front end writing the `users` hash at any time.  `Restart` is the end and the start of
the server process.

`unheard` and `owned` are history: hosts whose last announcement redis lost or a
restart left out, and every host an account ever had.

### CommandRelay

One step of the redis thread's `handleMessage` is `Find`, then `WriteCommand` or
`Refuse`, then `SubscribeRequest`; one step of the inner thread is `Receive`, a
`RunCallback` for each callback the response matched, then `EraseRequests`.  They
interleave freely, as they hold no lock.  Where one follows a pointer the other
deleted, or pushes to the vector the other searches, both outcomes are allowed: it
goes well, or the process dies (`Die`) and is started again.  The commands' bodies are
data: a request is a model value with an account and a host.  `subscribed` is a set, as a request
is subscribed once and nothing depends on the order of the vector; `inner.seen` is what
of it the search of a response went through, so a subscription added later is neither
called back nor lost when the matches are erased, except when the push and the erase collide.

`lost` records by name everything that can befall a request; `Accounted` says the list
is complete.

### RelayLoop

The http thread goes through the relays of the connection (`Request`, `SkipSocket`,
`ReadyPrimary`, `ReadyDevice`, `AddRequest`, `SetClient`, `NewRelay`), each step one access to a field
of the relay's handler; `readyForRequest` with a NULL handler is the `abort` of its `CHECK`.
The websocket thread makes a relay for every socket.  The relay's thread creates the handler, listens, writes plz_connect,
accepts the device (`Accepted`, `AcceptedCheck`, `AcceptedSet`, `AcceptedRegister`: the accesses of
`setClient`), runs posted callbacks and passes the device's answers to `primary`.  Registering NULL is
the `crash`.  A browser may ask again on the relay it is on (`AskAgain`).

`Delete` is the end of the device's connection on the inner thread, at any step of the others.
`NextRelay`, `StopRelay` and `JoinRelay` are the destruction of its vectors.  A relay is
shared: if the http thread holds one, it is the http thread that stops and joins it
(`LetGo`).  A thread that goes on with what was deleted may go on or die (`UseAfterFree`,
`Dying`).  A stop of a loop that is stored but does not run yet may be forgotten (`missed`).

### ServerProcess

`MainStep` is `main` of the proxy with the constructor, `start`, `stop` and destructor of
`HttpServerHost`; `loop[x]` is the thread of a server, `objects` what is not deleted yet.
The redis thread subscribes, waits, handles a message, and looks at `stop` before it waits again.
What waits for somebody else without a timeout may be "stuck" from then on: a redis thread whose SUBSCRIBE or
PUBLISH is not replied to, a handler of a loop that asks redis or joins a relay that missed its
stop (`Hangs`), the deletion of a server that joins such a relay.
A signal is a step between any two others: `SigQuit` stops the loops, `SigHup` reads the
configuration and so starts the redis thread once more.  What a signal or the redis
thread does with an object that is not there may end the process (`Die`).

### DeviceController

`main` is the step of the event thread in `handleEvent` or `ExitImpl`: disConnect
(`Stop`, `Join`), `SetConfig`, `Connect`.  `inner` is the step of the inner thread, which
creates its handler and then the auth checker, accepts changes, and makes relays
(`PleaseConnect`, `MakeRelay`, `PostRelay`).  `thread[g]`, `loop[g]`, `checks` and `using[g]`
belong to the server of number `g`; every `connect` makes a new one.  A stop of a loop
that is not set, or does not run yet, may go unheard (`missed`).  `NOTREACHED` may or may not
end the process, depending on the build.  Reading the strings of a configuration while they are
assigned, posting to a deleted loop and running on in a deleted handler may end the
process (`TornConfig`, `PostRelay`, `End`).

Assumed of `common`: events are handled on one thread, after `PreExecImpl`; `exit` runs on
that thread; a loop that ends runs no further callback.

### WebServer, WebSocketServer, ExternalRelay

One connection of the device's server, of one of four kinds: `protocol` is "text" for HTTP/1.1,
"http2", "websocket", or "external" for a relay to an external server.  The peer appends items of its
vocabulary to `sent`; a read takes some of what is there, so it may hold the end of one item and the
beginning of another.  In `WebServer` the frames of a read go to their streams (`frames`) before its
requests are handled (`reqs`), as in `Http2Client`; both are sets of indices into `sent`, taken in
ascending order (`Lowest`), as the code goes through its vectors.  A handler writes its whole answer, and the write may
find that the peer has gone.  `debug` says whether DCHECK and DNOTREACHED end the process.  In
`WebSocketServer` lengths are bytes: frame headers, `BUF_SIZE` and the switch to 16 and 64 bits are
those of the code, and the rest of a frame whose beginning was read before may look like any
frame (`ReadRest`).  In `ExternalRelay` `eclient` is the relay's pointer, `site` the other connection, `fwd`
what the external server received; a connection may be over as soon as it is made, and the first write
on it is then lost or refused (`Pair`).

Frames that are no websocket frame and no request, and reads that stop inside an http/2 frame, are
assumed to be told apart by the external codecs.

### Accounts

Each request of a page is a record with its kind, its argument and its own `copy` of the
document; `Check`, `SaveAdd`, `SaveRemove`, `SaveNew`, `SaveIdentity` and `Mirror` are the callbacks of the document
store and of redis, in any order among requests.  The removal of a domain is
saved only if mongoose's version is still that of the copy; an addition and a change of other fields
are saved whatever else happened to the document.  `SaveIdentity` saves what the strategy assigned
and what differs from the copy, as mongoose does: a login with a provider renews the token and
leaves the id alone, a link writes an id only where the copy has another, an unlink clears only
what the copy has.  `Crash` is the end of the front end on an exception in a callback.
`contested` and `stale` are history: they name every way in which a name gets two owners, or the hash
differs from the documents.

### BuildRpc

`MakeRequest`, `Publish`, `Consume` and `Timeout` are the callbacks of `amqprpc.js` for one request;
`Take` to `Ack` are the steps of `on_request` of a build server, each of which may end as a failure;
`Disconnect` is the end of a server, or of only its connection, after which the broker gives its
job to another; `RestartFrontEnd` and `RestartBroker` are the ends of those.  `depth` counts the
directories a server has changed into and not left, and `uncaught`, which is history, the builds that
ended in the build's directory with an error that no clause catches: branding variables that cannot be
split, a `cmake` or a `make` that cannot be started, a `CPackConfig.cmake` that cannot be read.

## Runs

| Run | Question | Instance | Size |
|---|---|---|---|
| `registry` | do registry, announcements, approves and user store agree | 2 connections, 2 hosts, 1 account, a restart, split and coalesced reads | safety |
| `pings` | is the registry a host directory, and does a living device keep its host | 2 connections, 1 host, a ping each way | refinement, action property |
| `live` | is the host of a dead device freed, does every handshake end | 2 connections, 1 host, no coalescing | liveness |
| `command_relay` | is every request answered once, by its own account, or is a cause named | 3 requests of 2 accounts to 2 hosts over 2 connections | safety, liveness |
| `relay_loop` | do browsers keep one owner and their own responses, and does a deletion end | 2 browsers, of which one asks twice, a websocket, up to 3 relays, a deletion | safety, liveness |
| `server_process` | is nothing deleted under its thread, does the exit code tell, does SIGQUIT end it | 2 signals, 2 redis threads | safety, liveness |
| `device` | one server, one configuration, guarded sites, no change forgotten | 4 configurations, 2 changes, 1 relay, an exit | safety, liveness |
| `web_server` | is a private site guarded, is every request, message and piece answered or passed on | a vocabulary for each kind of connection, 3 or 4 items, with and without check, release and debug build | safety |
| `accounts` | has a name one owner, does the hash equal the documents | 3 requests on 2 accounts, 2 hosts, 2 emails, 4 profiles of which two are of one provider, an end of the front end | safety |
| `build` | is no job lost, is the result the last word, does a page get one | 2 requests, one not to be split, 2 build servers, 1 failure | safety, liveness |
| `relay_handler`, `private_local` | what the source or the repository's `README.md` asserts and the code does not do | smaller instances of the same models | counterexamples |

*Why the bounds are enough.*  A conflict over a host needs two connections; a third
adds no new kind of owner.  Three requests for commands are two of one account, which share an id,
and one of another, to be mixed up with them.  Three sockets are needed for two to
compete for a relay a third still uses; one browser asks twice, so that a request can come after
the answer to the one before, after the device closed, or before either.  Two changes let the
second arrive in any step of the first, and the exit in any step of either.  Two requests of one
account overlap in every way, and the third is one of the other account or one after both.  Two jobs
and two build servers let a redelivered job meet the server that still builds it; with
`MaxFailures = 2` the same properties hold on 1.2 million states, which takes minutes instead of seconds.  Three texts are enough to be refused, to sign in and to
be served; four frames are the settings, two streams and one frame that comes in between; three
websocket items are a handshake and two frames, in any order, at the lengths 0, 125, 126, one below and
one above the buffer, and 65536; four pieces for an external server are one for each state of its
connection (none, here, closed, found closed).  Pings are bounded because they commute with
all but the end of a connection.

The bounds are the constants `MaxPings`, `MaxRestarts`, `MaxChanges`, `MaxAsks`, `MaxSignals`, `MaxListeners`,
`MaxItems`, `MaxFailures`, `MaxInbox` (how far a build server may be ahead of the front end) and
`MaxCrashes`, and the sizes of the sets.  `Buffer` is no bound: it is 4096, as `BUF_SIZE`; the proofs
hold for any buffer of 14 to 65536 bytes, in which a header fits and no frame with a 64-bit length does.  The queues of
commands need no bound, as each side writes a bounded number.

*Fairness.*  Weak fairness of the handlers of a loop: libev calls the handlers of every ready
descriptor in each of its rounds and the ping timer repeats; of the steps of a thread that
runs, by the operating system's scheduler; of the front end's callbacks and timers; of a
build server's steps.  Nothing is assumed of browsers, of what a page asks, of redis sending a message, of
signals, of restarts, and of anyone starting a build server.  Two things are assumed of others, each where
it is needed and nowhere else:

* Devices: nothing in `InnerServer`, where a device need neither read, answer, ping nor leave.  In
  `CommandRelay` a device that is connected reads and answers its commands (`DeviceAnswer`): `PageAnswered`
  is about the proxy, and a page cannot be answered by a device that never does.
* Redis: in `InnerServer` and `CommandRelay` a call returns, with a reply or an error, as a step of the
  handler that makes it; the code sets no timeout and would wait for ever.  `ServerProcess` does not assume
  this: there any such call may leave its thread stuck.

*Deadlock* is not checked where the system may stop: the requests, connections, browsers or
items of an instance are used up (`command_relay`, `relay_loop`, `accounts`, `build`, `web_server`), and the
processes of the device (`device`) and of the proxy (`server_process`) may end.

*Where a claim stops.*  Each exception is the state of the model that names it, so that anything
else that went wrong would be found.

* `HostFreed` and `HandshakeEnds` are checked without coalesced reads: a ping that arrives in one read
  with the answer to who_are_you makes the server drop the answer, and the device stays
  connected and unregistered.  `HandshakeEnds` speaks of devices that have read the question, and excepts by
  name (`NoIdentity`) an answer without an identity: the server refuses it and neither closes the
  connection nor registers it (`inner/inner_tcp_server.cpp:331-334`).  The device of this repository always sends one.
* `PageAnswered` and `Accounted` name the causes that may leave a page waiting, `NoneForgotten` those that
  may leave a browser.
* `Obeyed` excepts a join that waits for a server that never heard its stop, `DeletionEnds` the same
  of a relay and the end of the process.
* `OrderlyEnd` excepts a second redis thread that a SIGHUP started, `QuitEnds` what keeps the process by
  waiting for others (`Kept`): a redis thread that gets no message or no reply, and a handler or a
  deletion that never returns.
* `OneOwner` of `Accounts` starts from a store in which an email has one owner, and excepts names that two requests were both told are free; `MirrorExact`
  excepts overlapping requests of one user, a failure or an end between the two stores, and a change of
  the email the hash is keyed by.
* `AtHome` says of a build server that takes no build how far it is below its own directory: as many
  levels as builds ended with an error that nothing catches (`uncaught`, above), and no more.  So only these
  errors strand it, and no refusal, no command that ends with an error, no failing post-install step and
  no success moves it up or down.  `NothingForgotten` excepts a
  request whose response queue is gone, which only its timer answers.
* `Answers` claims one complete answer, on the first stream of the connection: a peer with several
  http/2 streams gets all answers there.  It names the answers without an end of their
  stream and the forms that have none.  `Echo` ends with the first read that begins inside a frame.
  `Answers` thus states what the code does with concurrent streams, which is hardly what a peer wants; it would
  find a second answer, a lost one or an order that changes.
  `Survives` names what ends the process: for http/2 a stream opened by the wrong frame or a request
  before anything came on stream 0, where settings go, and in a debug build the assertions.
* `Forwarded` excepts what is written to an external server after it closed and before that was
  noticed.

## Findings

* `relay_handler`: a second request for a device whose relay thread has not created its handler
  yet fails `CHECK(hand)` and aborts the proxy.
* `private_local`: a web server started before the inner thread has set `auth_checker_` serves a
  private site to everyone.

Two more behaviours that a maintainer should know, for which no run is kept:

* A second browser stored between a relay's accept and its first browser makes the first be dropped at a
  `DNOTREACHED` (`RelayLoop`, `stranded`).  No line of the repository says otherwise.
* A private site that is an external server is relayed without a password, although `README.md:78` says that
  with `private_site` "all connection to domain available only after passing phase of authentication".
  `ExternalRelay` has no check to break, so it is by reading the code that one sees it, and
  `PrivateGuarded` speaks of local sites only.

## Proofs

`InnerServerProofs` proves, for all sets of hosts, accounts and connections and all bounds,
from the assumptions of `InnerServer` on its constants:

* `Invariance`: `Spec => []IInv`, with `IInv == TypeOK /\ Core /\ ApprovedOK /\ AskedOnce`.  The invariants of
  the runs are not inductive.  `Core` adds to `RegistryExact` and `AnnouncedExact` that a
  connection not accepted yet is nowhere (`Fresh`), that identities come from the device's
  configuration and hosts from the store (`Vouched`), and what the thread knows of the connection it
  is busy with between two redis calls (`TaskOK`): without it a registration in progress could meet a
  host that is taken.  `ApprovedOK` follows the approve through the queue to the device.
* `TypeCorrect`, `RegistryIsExact`, `AnnouncementsAreExact`, `OwnersHadTheirHost`,
  `ApprovedAreRegistered`: the invariants of run `registry`.
* `Refinement`: the inner server implements `HostDirectory`; each step claims a free host for a fresh
  connection, releases, or stutters.
* `LivingOwnersStay`: the action property of run `pings`, see below.

`DeviceControllerProofs` proves, for all configurations, relays and numbers of changes:

* `Invariance`, with an `IInv` that adds to the invariants of run `device` where the event thread
  stands when there is no server (`Steps`), that accepted changes are waiting, in handling or
  applied (`Counted`, which bounds the servers), that servers are made in order and unknown before
  (`Made`), that the copies of the configuration agree at every step (`Agree`), and that a relay is
  marked as the server it is on is configured, unless that server has ended (`Marked`).  The last is
  what makes `PrivateGuarded` inductive: the loop is looked up before the mark is made, and a
  change may come in between, but then the loop found is one that has ended.
* `TypeCorrect`, `OneServerAtATime`, `ConfigurationsAgree`, `PrivateSitesAreGuarded`.

`CommandRelayProofs`, for all sets of requests, connections, hosts and accounts:

* `Invariance`.  `IInv` adds to the invariants of run `command_relay` where the redis thread stands
  (`Steps`), that a request without an answer is in one place at most of the channel, the redis thread
  and the subscriptions (`OnePlace`), and that a subscription and its command, which go different
  ways, do not lose each other (`Paired`): a command at the device or its response on the way has
  its subscription, is about to get it, or its loss has a name.
* `TypeCorrect`, `AnswersAreRight`, `NoneIsForgotten` (`Accounted`).

`RelayLoopProofs`, for every finite set of browsers and any number of asks:

* `Invariance`.  `OneOwner` is not inductive, as a browser changes hands in several steps of
  three threads.  `OneRelay` says that it leaves a trace (as first client, as primary, as the
  relay's client, in the posted callbacks, in the requests passed to the device) in one relay at most,
  and none while a thread still carries it; `FirstRequest` that a browser whose first
  request has not reached the device left nothing there to be answered; `Holder` that a relay has the
  browsers whose requests are in it, unless they left or are stranded.
* `TypeCorrect`, `SocketHasOneOwner`, `ResponsesAreNotMixed`, `NobodyIsForgotten`.

`ServerProcessProofs`, for any number of signals and redis threads:

* `Invariance`.  `Position` says which loops and objects there are at each step of `main`, `Verdict` what
  its exit code may be by then, `RedisOrder` that the redis threads are started in order and one has
  ended when their object is deleted.
* `TypeCorrect`, `EndIsOrderly`.

`AccountsProofs`, for all accounts, hosts, emails, profiles and requests, from the assumption that each
email has one owner to begin with:

* `Invariance`.  What a request carries decides what it may still write: of whom and about what it is
  (`Kinds`), a domain has its host from the moment it is saved (`Named`), an account that was not made yet
  has nothing and nobody is logged in to it (`Unsaved`), a name that was found free still is
  unless the case is `contested` (`StillFree`), a request that runs alone for its user has a copy equal
  to the document (`AloneIsCurrent`), and the hash of a user who is not `stale` is behind only between a save
  and its `Mirror` (`Mirrored`).
* `TypeCorrect`, `NamesHaveOneOwner`, `HashIsExact`.

`BuildRpcProofs`, for all jobs, build servers and failures:

* `Invariance`.  `OnePlace` says that a job is at most once in the queue or at one server that is
  connected, so the messages of a response queue come from one build at a time; `Bar` that the
  first response comes right after the status of 100 percent, `Told` that only a deleted request has
  a result, `Acknowledged` that a job is acknowledged after its response.  `Level` ties `depth` to the step a server is at: it is `uncaught`, and one more in the build's directory.
* `TypeCorrect`, `NothingIsForgotten`, `ServersComeHome`, and `ResultIsLast`, which is the action property
  `FinalIsLast`.

`ExternalRelayProofs`, for every vocabulary of the peer, every site, every number of items and each of the
four kinds of connection:

* `Invariance`, with an `IInv` that has all invariants of run `web_server` and
  - `Kinds`: which kind of connection has requests, frames, streams or torn frames;
  - `Order`: requests are handled in their order and none is answered before, so that the
    answers to a request are those of one step;
  - `Remembered`: `authed` is true exactly if a request that was handled had good credentials, which is what
    makes `Guarded` inductive;
  - `Streamed`: the server's streams are those the peer's frames opened, in the same order, so that
    the first stream of a type on one side is the first on the other, as `OnFirstStream` needs;
  - `Framed`, and `Paired`, which ties the relay's pointer to the external server's connection.
* `TypeCorrect`, `SiteIsPrivate` (`Guarded`), `RequestsAreAnswered` (`Answers`), `MessagesComeBack` (`Echo`),
  `PiecesAreForwarded` (`Forwarded`), `EndsAreExcused` (`Survives`).

`Total`, the number of bytes of some items, is a recursive function, whose existence no library theorem
gives without an operator parameter; `SumsExist` shows it by the least number for which there is
none, so that `MessagesComeBack` takes nothing on trust.

`LivingOwnersStay` of `InnerServerProofs` needs one fact more than the invariants of run `registry`:
`AskedOnce`, each connection is asked once who it is and answers once.  A second answer would
be refused, as the host is taken, by closing the owner itself.  The theorem is about reads that
return one command, as `LivingOwnerStays` is: a read that ends inside a command closes a living
device (`OwnerLeaves` says that nothing else does, whatever the reads are).

Each `IInv` was checked by TLC on the instance of its run before it was proved.  Attempts that
failed have changed the models where these said too little or too much:

* In `Accounts` a login with a provider wrote the whole id back, as if the copy were the document; with
  four requests, one more than the run has, this took a name back from its new owner.  mongoose saves what
  differs from the copy.
* `Provoked` named a request before the settings; a frame of another type on stream 0 also makes
  the stream that `is_http2` looks for.
* The 64-bit lengths of `Echo` are refused only because a frame with one cannot fit the buffer, which is now
  an assumption on `Buffer`.

Only model-checked: liveness (`HostFreed`, `HandshakeEnds`, `PageAnswered`, `DeletionEnds`, `QuitEnds`,
`Obeyed`, `Answered`), which is out of the prover's reach, as are `ENABLED` and induction over data.  Every
safety property of the passing runs is proved.

## Not modelled

* The codecs of http, http/2 and json and the event loop are in `common`; file access, logging and the
  layout of pages have no behaviour to check here; `event_loop.cpp` is used by nothing; hiredis, sds
  and ini are third-party code.
* The configuration file and the arguments of the two programs: the file is read before the
  first event and written after the last, so the models start from any configuration.
* The text of an identity (`infos.cpp`), a pure function of three strings.
* How a page draws the status of a domain from the responses it filters.
* `build_request.py`, which calls `build_request` with fewer arguments than it takes, and the table of
  platforms of `base.py`, whose refusal is a build that fails.
* Malformed input of the repository's own parts, which do not send it: a pong without its argument
  (`inner/inner_tcp_server.cpp:272-275`), a message of the redis channel that is no well-formed command (`:76-106`,
  where `handleMessage` returns), a job that is no json (`build_server.py:110`, outside the `try`, which ends the
  build server).
* A second redis thread in `CommandRelay`: `ServerProcess` shows that a SIGHUP may start one; what
  `CommandRelay` claims is claimed for one.
* What a signal does inside the memory allocator it interrupts, and the reconnection of the
  front end's library to the broker.
* On the device: plz_connect_websocket, of which only the proxy's view is modelled; the websocket
  controllers that its server starts; garbage that the external codec would take for an http/2 frame;
  and the refusal of an external site without a valid host, where the relay answers and no
  second connection is involved.

## Plan

1. *`Dashboard`*: what a page shows of a domain from the two channels.
2. The configuration file and the text of an identity, as operators against their inverse.
3. *Theorems*: abstract specifications of the command relay (a request is answered at most once, by the
   device of its account) and of the store of accounts, with the refinements that the invariants proved
   here would carry.
