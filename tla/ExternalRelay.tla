--------------------------- MODULE ExternalRelay ---------------------------
(***************************************************************************)
(* A relay of a device whose site is an external server: a RelayClientEx   *)
(* with a ProxyRelayClient, the connection to that server, which is made   *)
(* when the relay has something to write and none is there.  What the one  *)
(* reads is written to the other, and nothing of it is understood.  The    *)
(* two point to each other and end independently: the end of the server's  *)
(* connection is told to the relay, the end of the relay to nobody.        *)
(*                                                                         *)
(* It is the third kind of connection Http2ClientServerHandler serves on   *)
(* the loop of the device's web server, with the peer of WebServer.        *)
(***************************************************************************)
EXTENDS WebSocketServer

ASSUME ExternalRelayAssumption == Vocabulary["external"] \subseteq [k : {"text", "frame"}]

VARIABLES
  eclient,  \* RelayClientEx::eclient_
  site,     \* the connection of the ProxyRelayClient, if there is one
  fwd,      \* what the server received: the piece, and on which connection
  done,     \* how many of fwd it has answered, or never will
  \* history
  ended,    \* connections the server closed
  dropped   \* pieces written to a connection the server had closed

pairVars == <<eclient, site, fwd, done, ended, dropped>>
allVars == <<vars, pairVars>>

\* The connections so far are numbered by those that ended.
Link == Cardinality(ended) + 1

\* The state of the peer's connection is well formed, whatever it carries, and the
\* external server answers what it was sent.
TypeOK ==
  /\ SocketTypeOK
  /\ eclient \in {"null", "set"}
  /\ site \in {"none", "here", "fin", "rst"}
  /\ fwd \in Seq([id : 1..pos, link : Nat])
  /\ done \in 0..Len(fwd)
  /\ ended = 1..Cardinality(ended)
  /\ dropped \subseteq 1..pos

Init ==
  /\ SocketInit
  /\ eclient = "null"
  /\ site = "none"
  /\ fwd = <<>>
  /\ done = 0
  /\ ended = {}
  /\ dropped = {}

-----------------------------------------------------------------------------
(* From the peer to the external server.                                   *)

\* send_error, in the protocol the bytes of the read look like.
Refuse(id) == IF sent[id].k = "text" THEN WriteText(id, 500) ELSE WriteFrames(id, 500, 1)

Forward(ids) ==
  /\ fwd' = fwd \o [i \in DOMAIN ids |-> [id |-> ids[i], link |-> Link]]
  /\ UNCHANGED <<out, process, dropped>>

Lose(ids) ==
  /\ dropped' = dropped \cup {ids[i] : i \in DOMAIN ids}
  /\ UNCHANGED <<out, process>>

\* The connection is there, and the write may show that it has ended: the first
\* one after the server closed goes nowhere, the next ones fail.
WriteExternal(ids) ==
  /\ UNCHANGED <<eclient, done, ended>>
  /\ CASE site = "here" -> Forward(ids) /\ UNCHANGED site
       [] site = "fin" -> Lose(ids) /\ site' = "rst" /\ UNCHANGED fwd
       [] site = "rst" -> Refuse(Head(ids)) /\ UNCHANGED <<site, fwd, dropped>>

\* Mutant of Pair: a connection for every read.
PairAnew(ids) ==
  /\ site' = "here" /\ eclient' = "set"
  /\ fwd' = fwd \o [i \in DOMAIN ids |-> [id |-> ids[i], link |-> Len(fwd) + 1]]
  /\ UNCHANGED <<out, process, done, ended, dropped>>

\* The connection is made and written to, and may be over by then: the write goes
\* nowhere or fails.  Or the peer is told that it cannot be made.
Pair(ids) ==
  IF eclient = "set"
  THEN WriteExternal(ids)
  ELSE \/ /\ site' = "here" /\ eclient' = "set"
          /\ Forward(ids)
          /\ UNCHANGED <<done, ended>>
       \/ /\ site' = "rst" /\ eclient' = "set"
          /\ ended' = ended \cup {Link}
          /\ \/ Lose(ids)
             \/ Refuse(Head(ids)) /\ UNCHANGED dropped
          /\ UNCHANGED <<fwd, done>>
       \/ Refuse(Head(ids)) /\ UNCHANGED pairVars

\* relayExDataReceived takes n pieces.
ReadRelay(n) ==
  /\ Idle /\ pos + n <= Len(sent)
  /\ Pair([i \in 1..n |-> pos + i])
  /\ pos' = pos + n
  /\ UNCHANGED <<buildVars, peer, conn, authed, streams, sent, frames, reqs, handled, shut,
                 socketVars>>

-----------------------------------------------------------------------------
(* From the external server to the peer.                                   *)

Rest == <<buildVars, peer, conn, authed, streams, sent, readVars, handled, shut, socketVars>>

\* proxyDataReceived; the relay may have been deleted.
ReadExternal ==
  /\ process = "up" /\ site = "here" /\ done < Len(fwd)
  /\ done' = done + 1
  /\ IF conn = "open"
     THEN Write(<<Answer("external", 0, fwd[done + 1].id, 0, TRUE)>>)
     ELSE Die \/ UNCHANGED <<out, process>>
  /\ UNCHANGED <<Rest, eclient, site, fwd, ended, dropped>>

ExternalCloses ==
  /\ process = "up" /\ site = "here"
  /\ site' = "fin"
  /\ ended' = ended \cup {Link}
  /\ UNCHANGED <<Rest, out, process, eclient, fwd, done, dropped>>

\* proxyDataReceived reads the end, and Closed tells the relay.
ReadExternalEnd ==
  /\ process = "up" /\ site \in {"fin", "rst"}
  /\ site' = "none"
  /\ done' = Len(fwd)
  /\ IF conn = "open"
     THEN eclient' = "null" /\ UNCHANGED <<out, process>>
     ELSE (Die \/ UNCHANGED <<out, process>>) /\ UNCHANGED eclient
  /\ UNCHANGED <<Rest, fwd, ended, dropped>>

\* The relay reads its end: ReadEnd of WebServer.
RelayNext ==
  \/ (PeerNext \/ ReadEnd) /\ UNCHANGED <<socketVars, pairVars>>
  \/ \E n \in 1..MaxItems[protocol] : ReadRelay(n)
  \/ ReadExternal
  \/ ExternalCloses
  \/ ReadExternalEnd

Next == IF protocol = "external" THEN RelayNext ELSE SocketNext /\ UNCHANGED pairVars

Spec == Init /\ [][Next]_allVars

-----------------------------------------------------------------------------
(* Properties.                                                             *)

\* The external server receives what the peer sent in its order and nothing twice,
\* all of it on one connection until it closes that one itself, so that a request
\* is cut only there; what it does not receive was answered with an error, or
\* was written after the server had closed and before that was noticed.  The peer
\* gets the server's answers in the order of what they answer.
Forwarded ==
  protocol = "external" =>
    /\ \A i, j \in DOMAIN fwd : i < j =>
         /\ fwd[i].id < fwd[j].id
         /\ fwd[i].link # fwd[j].link => fwd[i].link \in ended
    /\ process = "up" /\ peer = "here" =>
         \A id \in 1..pos :
           \/ \E i \in DOMAIN fwd : fwd[i].id = id
           \/ id \in dropped /\ ended # {}
           \/ \E i \in DOMAIN out : /\ out[i].form = "text" /\ out[i].id <= id
                                    /\ \A j \in DOMAIN fwd : fwd[j].id \notin out[i].id..id
    /\ \A i, j \in DOMAIN out :
         i < j /\ out[i].form = "external" /\ out[j].form = "external" => out[i].id < out[j].id

\* The process ends only where a peer gave it a reason: see Excused; on a relay,
\* when the external server's connection outlives the relay it points to, when
\* the error goes to a peer that speaks http/2, for which no stream was opened,
\* or in a debug build to a peer that has left.
Survives ==
  process = "dead" =>
    IF protocol = "external"
    THEN \/ conn = "closed" /\ (fwd # <<>> \/ ended # {})
         \/ \E id \in 1..pos : sent[id].k = "frame"
         \/ debug /\ peer = "gone"
    ELSE Excused
=============================================================================
