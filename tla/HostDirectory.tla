---------------------------- MODULE HostDirectory ----------------------------
(***************************************************************************)
(* What the proxy's map from host names to device connections promises to  *)
(* the threads that look devices up in it: a host has one owner at a time, *)
(* an owner is never replaced by another without being released first, and *)
(* a connection object owns at most one host, once, in its lifetime.  It   *)
(* abstracts HttpServerHost::connections_ (server/http_server_host.cpp).   *)
(***************************************************************************)

CONSTANTS Hosts,    \* the host names devices register
          Conns,    \* the connection objects the server ever creates
          NoConn    \* what a lookup of an unregistered host returns

VARIABLES dir,      \* dir[h]: the connection that owns host h, or NoConn
          claimed   \* the connections that have owned a host

vars == <<dir, claimed>>

Init == /\ dir = [h \in Hosts |-> NoConn]
        /\ claimed = {}

\* A connection that never owned a host becomes the owner of a free one.
Claim(h, c) == /\ dir[h] = NoConn
               /\ c \notin claimed
               /\ dir' = [dir EXCEPT ![h] = c]
               /\ claimed' = claimed \cup {c}

\* The owner of a host goes away; a restart of the server releases them all.
Release(S) == /\ \A h \in S : dir[h] # NoConn
              /\ dir' = [h \in Hosts |-> IF h \in S THEN NoConn ELSE dir[h]]
              /\ UNCHANGED claimed

Next == \/ \E h \in Hosts, c \in Conns : Claim(h, c)
        \/ \E S \in SUBSET Hosts : Release(S)

Spec == Init /\ [][Next]_vars
=============================================================================
