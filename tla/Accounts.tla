------------------------------ MODULE Accounts ------------------------------
(***************************************************************************)
(* The accounts of the front end and their domains.  An account is a       *)
(* document of the store: an email for those who signed up, the ids of     *)
(* social profiles, and the domains.  Every request of a page that is      *)
(* logged in loads its own copy of the document; most ask the store        *)
(* whether a name is free, change the copy, save the change, and answer.   *)
(* The steps are callbacks of one thread, and those of different requests  *)
(* come in any order.  A request that changed the domains then writes all  *)
(* the hosts of its copy to the redis hash under the email of its copy:    *)
(* that hash is what the proxy lets the devices in by.                     *)
(*                                                                         *)
(* Nothing but the question makes a name unique, and nothing but the       *)
(* order of the requests keeps the hash equal to the documents: the        *)
(* histories name every way in which either can go wrong.                  *)
(***************************************************************************)
EXTENDS Naturals, FiniteSets

CONSTANTS Users,       \* the documents of the store
          Requests,    \* the requests; a domain's _id is the request that added it
          Hosts,       \* what can be asked for as a domain
          Emails,
          Profiles,    \* the social profiles
          Provider,    \* Provider[g]: facebook, twitter or google
          Members,     \* the stores to begin with: the email of each account
          None,        \* no user, no email, no profile
          MaxCrashes   \* bound: ends of the front end

Providers == {"facebook", "twitter", "google"}

ASSUME AccountsAssumption ==
         /\ Provider \in [Profiles -> Providers]
         /\ Members \subseteq [Users -> Emails \cup {None}]
         /\ \A m \in Members : \A u, v \in Users :
              m[u] = m[v] => u = v \/ m[u] = None
         /\ None \notin Users \cup Emails \cup Profiles \cup Hosts \cup Requests
         /\ MaxCrashes \in Nat

VARIABLES
  user,      \* the documents; ver is mongoose's __v
  users,     \* the redis hash: the hosts under an email
  session,   \* users that a browser is logged in as
  req,       \* the requests, each with its copy of a document
  name,      \* name[r]: the host of the domain that r added
  crashes,   \* ends of the front end so far
  \* history
  contested, \* names that were asked for by two requests at once, or linked twice
  stale      \* users whose hosts in redis may differ from their domains

history == <<contested, stale>>
vars == <<user, users, session, req, name, crashes, history>>

NoUser == [saved |-> FALSE, email |-> None, domains |-> {}, ver |-> 0,
           id |-> [p \in Providers |-> None], token |-> {}]
NoReq == [step |-> "new", kind |-> "none", arg |-> None, of |-> None,
          copy |-> NoUser, alone |-> FALSE]

Names == Hosts \cup Emails \cup Profiles
UserDocs == [saved : BOOLEAN, email : Emails \cup {None}, ver : Nat,
             domains : SUBSET Requests, token : SUBSET Providers,
             id : [Providers -> Profiles \cup {None}]]

TypeOK ==
  /\ user \in [Users -> UserDocs]
  /\ users \in [Emails -> SUBSET Hosts]
  /\ session \in SUBSET Users
  /\ req \in [Requests ->
                [step : {"new", "check", "save", "mirror", "done"},
                 kind : {"none", "add", "remove", "signup", "connect", "unlink",
                         "drop", "social", "relogin", "link"},
                 arg : Names \cup Requests \cup Providers \cup {None},
                 of : Users \cup {None}, copy : UserDocs, alone : BOOLEAN]]
  /\ name \in [Requests -> Hosts \cup {None}]
  /\ crashes \in 0..MaxCrashes
  /\ contested \in SUBSET Names
  /\ stale \in SUBSET Users

Init ==
  /\ \E m \in Members :
       user = [u \in Users |-> [NoUser EXCEPT !.saved = m[u] # None, !.email = m[u]]]
  /\ users = [e \in Emails |-> {}]
  /\ session = {}
  /\ req = [r \in Requests |-> NoReq]
  /\ name = [r \in Requests |-> None]
  /\ crashes = 0
  /\ contested = {}
  /\ stale = {}

-----------------------------------------------------------------------------
(* The requests.                                                           *)

\* Mutant of HostsOf: the loop goes one past the end of the array.
HostsOfOver(domains) ==
  IF domains = {} THEN {} ELSE {name[d] : d \in domains} \cup {None}

\* redis_hosts.
HostsOf(domains) == {name[d] : d \in domains}

\* The requests that have a copy of u and are not answered.
Active(u) == {r \in Requests : req[r].of = u /\ req[r].step \notin {"new", "done"}}

\* r begins with the document of u; it and the others that run for u are no
\* longer alone.
Begin(r, kind, u, arg, step) ==
  req' = [q \in Requests |->
            IF q = r
            THEN [step |-> step, kind |-> kind, arg |-> arg, of |-> u,
                  copy |-> IF u = None THEN NoUser ELSE user[u],
                  alone |-> u # None /\ Active(u) = {}]
            ELSE IF q \in Active(u) THEN [req[q] EXCEPT !.alone = FALSE] ELSE req[q]]

\* A request that comes with the session of u: deserializeUser.
Start(r, kind, u, arg, step) ==
  /\ req[r].step = "new"
  /\ u \in session
  /\ Begin(r, kind, u, arg, step)
  /\ UNCHANGED <<user, users, session, name, crashes, history>>

AddDomain(r, u, h)    == Start(r, "add", u, h, "check")
RemoveDomain(r, u, d) == name[d] # None /\ Start(r, "remove", u, d, "save")
UnlinkLocal(r, u)     == Start(r, "drop", u, None, "save")
UnlinkFacebook(r, u)  == Start(r, "unlink", u, "facebook", "save")
UnlinkTwitter(r, u)   == Start(r, "unlink", u, "twitter", "save")
UnlinkGoogle(r, u)    == Start(r, "unlink", u, "google", "save")

\* local-signup: without a session a new account, with that of an account that
\* has no email a new email for it, else nothing.
LocalSignup(r, e) ==
  \/ /\ req[r].step = "new"
     /\ Begin(r, "signup", None, e, "check")
     /\ UNCHANGED <<user, users, session, name, crashes, history>>
  \/ \E u \in session : user[u].email = None /\ Start(r, "connect", u, e, "check")

\* The strategy of a provider, called back with profile g: without a session
\* it logs in, with one it links g to the account, whoever else has it.
SocialStrategy(r, p, g) ==
  /\ Provider[g] = p
  /\ \/ /\ req[r].step = "new"
        /\ Begin(r, "social", None, g, "check")
        /\ UNCHANGED <<user, users, session, name, crashes, history>>
     \/ \E u \in session : Start(r, "link", u, g, "save")

FacebookStrategy(r, g) == SocialStrategy(r, "facebook", g)
TwitterStrategy(r, g)  == SocialStrategy(r, "twitter", g)
GoogleStrategy(r, g)   == SocialStrategy(r, "google", g)

Done(r) == req' = [req EXCEPT ![r] = [NoReq EXCEPT !.step = "done"]]

\* Mutant of Owners: only the users who are logged in are asked about.
OwnersPresent(r) ==
  LET k == req[r].kind
      a == req[r].arg
  IN {u \in session : IF k = "add" THEN a \in HostsOf(user[u].domains)
                                   ELSE a = user[u].email}

\* findOne: the users with the domain, or the email, that is asked for.
Owners(r) ==
  LET k == req[r].kind
      a == req[r].arg
  IN {u \in Users : IF k = "add" THEN a \in HostsOf(user[u].domains)
                                 ELSE a = user[u].email}

\* The callback of findOne: the name is taken, or the change is saved.
Check(r) ==
  /\ req[r].step = "check"
  /\ req[r].kind \in {"add", "signup", "connect"}
  /\ IF Owners(r) = {} THEN req' = [req EXCEPT ![r].step = "save"]
                       ELSE Done(r)
  /\ UNCHANGED <<user, users, session, name, crashes, history>>

\* The users with a profile; more than one when it was linked twice.
Linked(g) == {u \in Users : user[u].id[Provider[g]] = g}

\* The callback of a social login: one of them is logged in, and gets its token
\* back if it was unlinked, or an account is made.
CheckSocial(r) ==
  LET g == req[r].arg IN
  /\ req[r].step = "check"
  /\ req[r].kind = "social"
  /\ \/ /\ Linked(g) = {}
        /\ req' = [req EXCEPT ![r].step = "save"]
        /\ UNCHANGED session
     \/ \E u \in Linked(g) :
          /\ session' = session \cup {u}
          /\ IF Provider[g] \in user[u].token THEN Done(r)
             ELSE Begin(r, "relogin", u, g, "save")
  /\ UNCHANGED <<user, users, name, crashes, history>>

\* A query or a save fails: an answer and nothing else.
StoreFails(r) ==
  /\ req[r].step \in {"check", "save"}
  /\ Done(r)
  /\ UNCHANGED <<user, users, session, name, crashes, history>>

-----------------------------------------------------------------------------
(* The saves.                                                              *)

\* Others that were told that the same name is free and have not saved it yet.
Rivals(r) == {q \in Requests \ {r} : /\ req[q].step = "save"
                                     /\ req[q].kind \in {"add", "signup", "connect", "social"}
                                     /\ req[q].arg = req[r].arg}

Contest(r, found) ==
  contested' = contested \cup {req[r].arg : q \in Rivals(r) \cup found}

\* $push of the domain, with no question about the version.  The copy has it too.
SaveAdd(r) ==
  LET u == req[r].of IN
  /\ req[r].step = "save" /\ req[r].kind = "add"
  /\ user' = [user EXCEPT ![u].domains = @ \cup {r}, ![u].ver = @ + 1]
  /\ name' = [name EXCEPT ![r] = req[r].arg]
  /\ req' = [req EXCEPT ![r].step = "mirror", ![r].copy.domains = @ \cup {r}]
  /\ Contest(r, {})
  /\ UNCHANGED <<users, session, crashes, stale>>

\* $pull of the domain, for the version that was loaded: else a VersionError.
SaveRemove(r) ==
  LET u == req[r].of
      d == req[r].arg IN
  /\ req[r].step = "save" /\ req[r].kind = "remove"
  /\ IF user[u].ver = req[r].copy.ver
     THEN /\ user' = [user EXCEPT ![u].domains = @ \ {d}, ![u].ver = @ + 1]
          /\ req' = [req EXCEPT ![r].step = "mirror", ![r].copy.domains = @ \ {d}]
     ELSE Done(r) /\ UNCHANGED user
  /\ UNCHANGED <<users, session, name, crashes, history>>

\* A new account, logged in.  The hash may still have hosts of a user who had
\* the email before.
SaveNew(r) ==
  LET a == req[r].arg IN
  /\ req[r].step = "save" /\ req[r].kind \in {"signup", "social"}
  /\ \E u \in Users :
       /\ ~user[u].saved
       /\ user' = [user EXCEPT ![u] =
            IF req[r].kind = "signup"
            THEN [NoUser EXCEPT !.saved = TRUE, !.email = a]
            ELSE [NoUser EXCEPT !.saved = TRUE, !.id[Provider[a]] = a,
                                !.token = {Provider[a]}]]
       /\ session' = session \cup {u}
       /\ stale' = stale \cup {u}
  /\ Contest(r, {})
  /\ Done(r)
  /\ UNCHANGED <<users, name, crashes>>

\* $set or $unset of the fields that differ from the copy, whatever else happened
\* to the document; redis is not told.
SaveIdentity(r) ==
  LET u == req[r].of
      a == req[r].arg
      k == req[r].kind
      copy == req[r].copy IN
  /\ req[r].step = "save"
  /\ \/ /\ k = "connect" \/ (k = "drop" /\ copy.email # None)
        /\ user' = [user EXCEPT ![u].email = IF k = "connect" THEN a ELSE None]
        /\ stale' = stale \cup {u}
     \/ /\ k = "unlink" /\ a \in copy.token
        /\ user' = [user EXCEPT ![u].token = @ \ {a}]
        /\ UNCHANGED stale
     \/ /\ k \in {"link", "relogin"}
        /\ user' = [user EXCEPT ![u].token = @ \cup {Provider[a]},
             ![u].id[Provider[a]] = IF k = "relogin" \/ copy.id[Provider[a]] = a THEN @ ELSE a]
        /\ UNCHANGED stale
     \/ /\ \/ k = "drop" /\ copy.email = None
           \/ k = "unlink" /\ a \notin copy.token
        /\ UNCHANGED <<user, stale>>
  /\ IF k \in {"connect", "link"}
     THEN Contest(r, IF k = "link" THEN Linked(a) \ {u} ELSE {})
     ELSE UNCHANGED contested
  /\ Done(r)
  /\ UNCHANGED <<users, session, name, crashes>>

\* Mutant of Mirror: the hosts are collected before the domain is pushed.
MirrorOld(r) ==
  LET u == req[r].of
      e == req[r].copy.email IN
  /\ req[r].step = "mirror"
  /\ e # None
  /\ users' = [users EXCEPT ![e] = HostsOf(req[r].copy.domains \ {r})]
  /\ stale' = IF req[r].alone THEN stale \ {u} ELSE stale \cup {u}
  /\ Done(r)
  /\ UNCHANGED <<user, session, name, crashes, contested>>

\* hset of the copy's hosts under the copy's email; no answer is waited for,
\* and without an email it goes under "undefined".
Mirror(r) ==
  LET u == req[r].of
      e == req[r].copy.email
      same == {v \in Users : user[v].email = e /\ v # u} IN
  /\ req[r].step = "mirror"
  /\ \/ /\ e # None
        /\ users' = [users EXCEPT ![e] = HostsOf(req[r].copy.domains)]
        /\ stale' = (IF req[r].alone THEN stale \ {u} ELSE stale \cup {u}) \cup same
     \/ /\ UNCHANGED users
        /\ stale' = stale \cup {u}
  /\ Done(r)
  /\ UNCHANGED <<user, session, name, crashes, contested>>

-----------------------------------------------------------------------------
(* Sessions, and the end of the front end.                                 *)

\* local-login: one of the users with the email; the password was right.
LocalLogin(e) ==
  /\ \E u \in Users \ session : user[u].email = e /\ session' = session \cup {u}
  /\ UNCHANGED <<user, users, req, name, crashes, history>>

Logout(u) ==
  /\ u \in session
  /\ session' = session \ {u}
  /\ UNCHANGED <<user, users, req, name, crashes, history>>

\* The process ends: add_domain of a page without a session, which nothing checks,
\* uses the user that is not there in the callback of findOne, where the name is
\* free (there are more of them than Hosts); a social login that gave a token back
\* answers twice.  The sessions were in its memory.
Crash ==
  /\ crashes < MaxCrashes
  /\ crashes' = crashes + 1
  /\ session' = {}
  /\ stale' = stale \cup {req[r].of : r \in {q \in Requests : req[q].step = "mirror"}}
  /\ req' = [r \in Requests |-> IF req[r].step = "new" THEN NoReq
                                ELSE [NoReq EXCEPT !.step = "done"]]
  /\ UNCHANGED <<user, users, name, contested>>

Next ==
  \/ \E r \in Requests, u \in Users :
       \/ \E h \in Hosts : AddDomain(r, u, h)
       \/ \E d \in Requests : RemoveDomain(r, u, d)
       \/ UnlinkLocal(r, u) \/ UnlinkFacebook(r, u)
       \/ UnlinkTwitter(r, u) \/ UnlinkGoogle(r, u)
  \/ \E r \in Requests :
       \/ \E e \in Emails : LocalSignup(r, e)
       \/ \E g \in Profiles : \/ FacebookStrategy(r, g) \/ TwitterStrategy(r, g)
                              \/ GoogleStrategy(r, g)
       \/ Check(r) \/ CheckSocial(r) \/ StoreFails(r)
       \/ SaveAdd(r) \/ SaveRemove(r) \/ SaveNew(r) \/ SaveIdentity(r)
       \/ Mirror(r)
  \/ \E e \in Emails : LocalLogin(e)
  \/ \E u \in Users : Logout(u)
  \/ Crash

Spec == Init /\ [][Next]_vars

-----------------------------------------------------------------------------
(* Properties.                                                             *)

\* A domain, an email and a social profile have one owner, unless two requests
\* were both told that it is free before either had saved it, or the profile was
\* linked to a second account.
OneOwner ==
  \A u, v \in Users : u # v =>
    /\ HostsOf(user[u].domains) \cap HostsOf(user[v].domains) \subseteq contested
    /\ user[u].email = user[v].email => user[u].email \in contested \cup {None}
    /\ \A p \in Providers : user[u].id[p] = user[v].id[p] =>
                            user[u].id[p] \in contested \cup {None}

\* When no request runs for a user, the proxy's hash has exactly the user's
\* domains, unless since the last change that ran alone one of these happened:
\* two requests of the user overlapped, a write to redis failed or was made
\* under another email, the email changed or was another user's, or the front
\* end died between the two stores.
MirrorExact ==
  \A u \in Users :
    /\ user[u].email # None
    /\ u \notin stale
    /\ Active(u) = {}
    => users[user[u].email] = HostsOf(user[u].domains)
=============================================================================
