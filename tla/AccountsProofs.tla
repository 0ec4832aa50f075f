--------------------------- MODULE AccountsProofs ---------------------------
(***************************************************************************)
(* Proofs about Accounts, for every set of users, requests and names.      *)
(* That a name has one owner rests on the question that was asked about it *)
(* staying true until the save, unless a rival spoils it (StillFree).      *)
(* That the hash of the proxy is the domains rests on the copy of a        *)
(* request that runs alone being its document (AloneIsCurrent).            *)
(***************************************************************************)
EXTENDS Accounts, TLAPS

USE AccountsAssumption

\* A request that has its copy and is not answered.
Running(r) == req[r].step \notin {"new", "done"}

\* What a request of a kind is about, and whose it is.
Kinds ==
  \A r \in Requests : Running(r) =>
    LET k == req[r].kind
        a == req[r].arg
    IN /\ k # "none"
       /\ k = "add" => a \in Hosts
       /\ k \in {"signup", "connect"} => a \in Emails
       /\ k \in {"social", "link", "relogin"} => a \in Profiles
       /\ k = "unlink" => a \in Providers
       /\ k = "remove" => a \in Requests
       /\ IF k \in {"signup", "social"} THEN req[r].of = None ELSE req[r].of \in Users
       /\ req[r].step = "mirror" => k \in {"add", "remove"}

\* A domain has its host from the moment it is saved, which its request does once.
Named ==
  /\ \A u \in Users : \A d \in user[u].domains : name[d] \in Hosts
  /\ \A r \in Requests : \A d \in req[r].copy.domains : name[d] \in Hosts
  /\ \A r \in Requests : req[r].step \in {"new", "check", "save"} => name[r] = None

\* An account that was not made yet has nothing, and nobody is logged in as it.
Unsaved ==
  /\ \A u \in Users : ~user[u].saved =>
       user[u].email = None /\ \A p \in Providers : user[u].id[p] = None
  /\ \A u \in session : user[u].saved
  /\ \A r \in Requests : Running(r) /\ req[r].of \in Users => user[req[r].of].saved

\* A name that the store said is free is so until it is saved, or it is contested.
StillFree ==
  \A r \in Requests : req[r].step = "save" =>
    LET k == req[r].kind
        a == req[r].arg
    IN \A u \in Users :
         /\ k = "add" /\ a \in HostsOf(user[u].domains) => a \in contested
         /\ k \in {"signup", "connect"} /\ a = user[u].email => a \in contested
         /\ k = "social" /\ user[u].id[Provider[a]] = a => a \in contested

\* A request that runs alone for its user has a copy that is the document.
AloneIsCurrent ==
  \A r \in Requests : Running(r) /\ req[r].alone =>
    LET u == req[r].of
    IN /\ u \in Users /\ Active(u) = {r}
       /\ req[r].copy.email = user[u].email
       /\ req[r].copy.domains = user[u].domains

\* The hash has the domains of a user that is not stale, but for the time between
\* the save and the write to redis.
Mirrored ==
  \A u \in Users :
    /\ user[u].email # None
    /\ u \notin stale
    /\ \A r \in Active(u) : req[r].step # "mirror"
    => users[user[u].email] = HostsOf(user[u].domains)

IInv == /\ TypeOK /\ Kinds /\ Named /\ Unsaved
        /\ OneOwner /\ StillFree
        /\ AloneIsCurrent /\ Mirrored

\* The facts that the types and the requests' own steps depend on.
Shape == TypeOK /\ Kinds /\ Named /\ Unsaved

-----------------------------------------------------------------------------
(* What the steps do to a request and to a document.                       *)

ReqRecords == [step : {"new", "check", "save", "mirror", "done"},
               kind : {"none", "add", "remove", "signup", "connect", "unlink",
                       "drop", "social", "relogin", "link"},
               arg : Names \cup Requests \cup Providers \cup {None},
               of : Users \cup {None}, copy : UserDocs, alone : BOOLEAN]

\* A document that was not made, and a request that is answered.
LEMMA Constants ==
  /\ NoUser \in UserDocs /\ NoUser.domains = {} /\ NoUser.email = None /\ ~NoUser.saved
  /\ NoUser.token = {}
  /\ \A p \in Providers : NoUser.id[p] = None
  /\ NoReq \in ReqRecords /\ NoReq.step = "new" /\ NoReq.copy = NoUser
  /\ [NoReq EXCEPT !.step = "done"] \in ReqRecords
  /\ [NoReq EXCEPT !.step = "done"].step = "done"
  /\ [NoReq EXCEPT !.step = "done"].copy = NoUser
<1>1. NoUser \in UserDocs
  BY DEF NoUser, UserDocs
<1>2. NoReq \in ReqRecords
  BY <1>1 DEF NoReq, ReqRecords
<1> HIDE DEF NoReq, NoUser
<1>3. NoUser.domains = {} /\ NoUser.email = None /\ ~NoUser.saved /\ NoUser.token = {}
  BY DEF NoUser
<1>4. \A p \in Providers : NoUser.id[p] = None
  BY DEF NoUser
<1>5. NoReq.step = "new" /\ NoReq.copy = NoUser
  BY DEF NoReq
<1> QED BY <1>1, <1>2, <1>3, <1>4, <1>5 DEF ReqRecords

\* The types, by element.
LEMMA TypeFacts ==
  ASSUME TypeOK
  PROVE  /\ \A u \in Users : user[u] \in UserDocs
         /\ \A r \in Requests : req[r] \in ReqRecords
         /\ req \in [Requests -> ReqRecords]
BY DEF TypeOK, ReqRecords

\* An answer.
LEMMA DoneReq ==
  ASSUME TypeOK, NEW r \in Requests, Done(r)
  PROVE  /\ req' \in [Requests -> ReqRecords]
         /\ req'[r].step = "done" /\ req'[r].copy.domains = {}
         /\ \A q \in Requests : q # r => req'[q] = req[q]
BY Constants, TypeFacts DEF Done

\* A request that goes on to its save.
LEMMA SaveReq ==
  ASSUME TypeOK, NEW r \in Requests, req' = [req EXCEPT ![r].step = "save"]
  PROVE  /\ req' \in [Requests -> ReqRecords]
         /\ req'[r].step = "save" /\ req'[r].kind = req[r].kind /\ req'[r].arg = req[r].arg
         /\ req'[r].of = req[r].of /\ req'[r].copy = req[r].copy
         /\ req'[r].alone = req[r].alone
         /\ \A q \in Requests : q # r => req'[q] = req[q]
BY TypeFacts DEF ReqRecords

\* A domain is pushed to a document and to the copy, or pulled from both.
LEMMA SaveAddSteps ==
  ASSUME Shape, NEW r \in Requests, SaveAdd(r)
  PROVE  LET u == req[r].of
         IN /\ u \in Users /\ req[r].arg \in Hosts /\ name[r] = None
            /\ user' \in [Users -> UserDocs]
            /\ user'[u].domains = user[u].domains \cup {r}
            /\ user'[u].email = user[u].email /\ user'[u].id = user[u].id
            /\ user'[u].saved = user[u].saved
            /\ \A v \in Users : v # u => user'[v] = user[v]
            /\ req' \in [Requests -> ReqRecords]
            /\ req'[r].step = "mirror" /\ req'[r].kind = "add" /\ req'[r].arg = req[r].arg
            /\ req'[r].of = u /\ req'[r].alone = req[r].alone
            /\ req'[r].copy.domains = req[r].copy.domains \cup {r}
            /\ req'[r].copy.email = req[r].copy.email
            /\ \A q \in Requests : q # r => req'[q] = req[q]
            /\ name' = [name EXCEPT ![r] = req[r].arg]
            /\ UNCHANGED <<users, session, crashes, stale>>
<1> DEFINE u == req[r].of
<1>1. u \in Users /\ req[r].arg \in Hosts /\ name[r] = None /\ req[r] \in ReqRecords
  BY TypeFacts DEF SaveAdd, Shape, Kinds, Named, Running
<1>2. user[u] \in UserDocs /\ user[u].ver + 1 \in Nat
  BY <1>1, TypeFacts DEF Shape, UserDocs
<1>3. user' = [user EXCEPT ![u].domains = @ \cup {r}, ![u].ver = @ + 1]
  BY DEF SaveAdd
<1>4. /\ user'[u] \in UserDocs
      /\ user'[u].domains = user[u].domains \cup {r}
      /\ user'[u].email = user[u].email /\ user'[u].id = user[u].id
      /\ user'[u].saved = user[u].saved
      /\ \A v \in Users : v # u => user'[v] = user[v]
  <2> DEFINE old == user[u]
  <2>1. user \in [Users -> UserDocs]
    BY DEF Shape, TypeOK
  <2>2. /\ user'[u] = [old EXCEPT !.domains = @ \cup {r}, !.ver = @ + 1]
        /\ \A v \in Users : v # u => user'[v] = user[v]
    BY <1>1, <1>3, <2>1
  <2>3. old \in UserDocs /\ old.ver + 1 \in Nat
    BY <1>2
  <2> HIDE DEF old
  <2>4. /\ user'[u] \in UserDocs
        /\ user'[u].domains = old.domains \cup {r}
        /\ user'[u].email = old.email /\ user'[u].id = old.id
        /\ user'[u].saved = old.saved
    <3>1. /\ user'[u].domains = old.domains \cup {r}
          /\ user'[u].email = old.email /\ user'[u].id = old.id
          /\ user'[u].saved = old.saved
      BY <2>2, <2>3 DEF UserDocs
    <3>2. user'[u] \in UserDocs
      BY <2>2, <2>3, <3>1 DEF UserDocs
    <3> QED BY <3>1, <3>2
  <2> QED BY <2>2, <2>4 DEF old
<1>5. user' \in [Users -> UserDocs]
  BY <1>3, <1>4 DEF Shape, TypeOK
<1>6. req' = [req EXCEPT ![r].step = "mirror", ![r].copy.domains = @ \cup {r}]
  BY DEF SaveAdd
<1>7. req[r].copy \in UserDocs
  BY <1>1 DEF ReqRecords
<1>8. /\ req'[r].step = "mirror" /\ req'[r].kind = "add" /\ req'[r].arg = req[r].arg
      /\ req'[r].of = u /\ req'[r].alone = req[r].alone
      /\ req'[r].copy = [req[r].copy EXCEPT !.domains = @ \cup {r}]
      /\ \A q \in Requests : q # r => req'[q] = req[q]
  BY <1>1, <1>6 DEF SaveAdd, Shape, TypeOK, ReqRecords
<1>9. /\ req'[r].copy \in UserDocs
      /\ req'[r].copy.domains = req[r].copy.domains \cup {r}
      /\ req'[r].copy.email = req[r].copy.email
  BY <1>7, <1>8 DEF UserDocs
<1>10. req' \in [Requests -> ReqRecords]
  BY <1>1, <1>6, <1>7, <1>9 DEF Shape, TypeOK, ReqRecords
<1> QED BY <1>1, <1>4, <1>5, <1>8, <1>9, <1>10 DEF SaveAdd

LEMMA SaveRemoveSteps ==
  ASSUME Shape, NEW r \in Requests, SaveRemove(r), user[req[r].of].ver = req[r].copy.ver
  PROVE  LET u == req[r].of
         IN /\ u \in Users /\ req[r].arg \in Requests
            /\ user' \in [Users -> UserDocs]
            /\ user'[u].domains = user[u].domains \ {req[r].arg}
            /\ user'[u].email = user[u].email /\ user'[u].id = user[u].id
            /\ user'[u].saved = user[u].saved
            /\ \A v \in Users : v # u => user'[v] = user[v]
            /\ req' \in [Requests -> ReqRecords]
            /\ req'[r].step = "mirror" /\ req'[r].kind = "remove" /\ req'[r].arg = req[r].arg
            /\ req'[r].of = u /\ req'[r].alone = req[r].alone
            /\ req'[r].copy.domains = req[r].copy.domains \ {req[r].arg}
            /\ req'[r].copy.email = req[r].copy.email
            /\ \A q \in Requests : q # r => req'[q] = req[q]
            /\ UNCHANGED <<users, session, name, crashes, history>>
<1> DEFINE u == req[r].of
           d == req[r].arg
<1>1. u \in Users /\ d \in Requests /\ req[r] \in ReqRecords
  BY TypeFacts DEF SaveRemove, Shape, Kinds, Running
<1>2. user[u] \in UserDocs /\ user[u].ver + 1 \in Nat
  BY <1>1, TypeFacts DEF Shape, UserDocs
<1>3. user' = [user EXCEPT ![u].domains = @ \ {d}, ![u].ver = @ + 1]
  BY DEF SaveRemove
<1>4. /\ user'[u] \in UserDocs
      /\ user'[u].domains = user[u].domains \ {d}
      /\ user'[u].email = user[u].email /\ user'[u].id = user[u].id
      /\ user'[u].saved = user[u].saved
      /\ \A v \in Users : v # u => user'[v] = user[v]
  BY <1>1, <1>2, <1>3 DEF Shape, TypeOK, UserDocs
<1>5. user' \in [Users -> UserDocs]
  BY <1>3, <1>4 DEF Shape, TypeOK
<1>6. req' = [req EXCEPT ![r].step = "mirror", ![r].copy.domains = @ \ {d}]
  BY DEF SaveRemove
<1>7. req[r].copy \in UserDocs
  BY <1>1 DEF ReqRecords
<1>8. /\ req'[r].step = "mirror" /\ req'[r].kind = "remove" /\ req'[r].arg = req[r].arg
      /\ req'[r].of = u /\ req'[r].alone = req[r].alone
      /\ req'[r].copy = [req[r].copy EXCEPT !.domains = @ \ {d}]
      /\ \A q \in Requests : q # r => req'[q] = req[q]
  BY <1>1, <1>6 DEF SaveRemove, Shape, TypeOK, ReqRecords
<1>9. /\ req'[r].copy \in UserDocs
      /\ req'[r].copy.domains = req[r].copy.domains \ {d}
      /\ req'[r].copy.email = req[r].copy.email
  BY <1>7, <1>8 DEF UserDocs
<1>10. req' \in [Requests -> ReqRecords]
  BY <1>1, <1>6, <1>7, <1>9 DEF Shape, TypeOK, ReqRecords
<1> QED BY <1>1, <1>4, <1>5, <1>8, <1>9, <1>10 DEF SaveRemove

\* A new document has the name that was asked for and no domain.
LEMMA SaveNewSteps ==
  ASSUME Shape, NEW r \in Requests, SaveNew(r), NEW a, a = req[r].arg
  PROVE  \E u \in Users :
           /\ ~user[u].saved
           /\ user' \in [Users -> UserDocs]
           /\ user'[u].saved /\ user'[u].domains = {}
           /\ IF req[r].kind = "signup"
              THEN /\ a \in Emails /\ user'[u].email = a
                   /\ \A p \in Providers : user'[u].id[p] = None
              ELSE /\ a \in Profiles /\ user'[u].email = None
                   /\ \A p \in Providers :
                        user'[u].id[p] = IF p = Provider[a] THEN a ELSE None
           /\ \A v \in Users : v # u => user'[v] = user[v]
           /\ session' = session \cup {u}
           /\ stale' = stale \cup {u}
<1>0. /\ req[r].step = "save" /\ req[r].kind \in {"signup", "social"}
      /\ req[r].kind = "signup" => a \in Emails
      /\ req[r].kind = "social" => a \in Profiles /\ Provider[a] \in Providers
  BY DEF SaveNew, Shape, Kinds, Running
<1>1. PICK u \in Users :
        /\ ~user[u].saved
        /\ user' = [user EXCEPT ![u] =
             IF req[r].kind = "signup"
             THEN [NoUser EXCEPT !.saved = TRUE, !.email = a]
             ELSE [NoUser EXCEPT !.saved = TRUE, !.id[Provider[a]] = a,
                                 !.token = {Provider[a]}]]
        /\ session' = session \cup {u}
        /\ stale' = stale \cup {u}
  BY DEF SaveNew
<1> DEFINE signed == [NoUser EXCEPT !.saved = TRUE, !.email = a]
           linked == [NoUser EXCEPT !.saved = TRUE, !.id[Provider[a]] = a,
                                    !.token = {Provider[a]}]
<1>2. CASE req[r].kind = "signup"
  <2>1. user'[u] = signed /\ \A v \in Users : v # u => user'[v] = user[v]
    BY <1>1, <1>2 DEF Shape, TypeOK
  <2>2. /\ signed \in UserDocs /\ signed.saved /\ signed.domains = {} /\ signed.email = a
        /\ signed.id = NoUser.id
    BY <1>0, <1>2, Constants DEF UserDocs
  <2>3. \A p \in Providers : signed.id[p] = None
    BY <2>2, Constants
  <2> HIDE DEF signed
  <2>4. user' \in [Users -> UserDocs]
    BY <1>1, <1>2, <2>1, <2>2 DEF Shape, TypeOK, signed
  <2> QED BY <1>0, <1>1, <1>2, <2>1, <2>2, <2>3, <2>4
<1>3. CASE req[r].kind = "social"
  <2>1. user'[u] = linked /\ \A v \in Users : v # u => user'[v] = user[v]
    BY <1>1, <1>3 DEF Shape, TypeOK
  <2>2. /\ linked \in UserDocs /\ linked.saved /\ linked.domains = {} /\ linked.email = None
        /\ linked.id = [NoUser.id EXCEPT ![Provider[a]] = a]
    BY <1>0, <1>3, Constants DEF UserDocs
  <2>3. \A p \in Providers : linked.id[p] = IF p = Provider[a] THEN a ELSE None
    BY <2>2, Constants DEF UserDocs
  <2> HIDE DEF linked
  <2>4. user' \in [Users -> UserDocs]
    BY <1>1, <1>3, <2>1, <2>2 DEF Shape, TypeOK, linked
  <2> QED BY <1>0, <1>1, <1>3, <2>1, <2>2, <2>3, <2>4
<1> QED BY <1>0, <1>2, <1>3

\* A change of who an account is leaves its domains, and the email unless it is
\* connected or dropped.
LEMMA SaveIdentitySteps ==
  ASSUME Shape, NEW r \in Requests, SaveIdentity(r)
  PROVE  LET u == req[r].of
             a == req[r].arg
             k == req[r].kind
         IN /\ u \in Users
            /\ k \in {"connect", "drop", "unlink", "link", "relogin"}
            /\ user' \in [Users -> UserDocs]
            /\ user'[u].domains = user[u].domains /\ user'[u].saved = user[u].saved
            /\ \/ user'[u].email = user[u].email /\ stale' = stale
               \/ user'[u].email = None /\ stale' = stale \cup {u}
               \/ /\ k = "connect" /\ a \in Emails
                  /\ user'[u].email = a /\ stale' = stale \cup {u}
            /\ \/ user'[u].id = user[u].id
               \/ /\ k = "link" /\ a \in Profiles
                  /\ user'[u].id = [user[u].id EXCEPT ![Provider[a]] = a]
            /\ \A v \in Users : v # u => user'[v] = user[v]
<1> DEFINE u == req[r].of
           a == req[r].arg
           k == req[r].kind
<1>1. /\ req[r].step = "save" /\ k \in {"connect", "drop", "unlink", "link", "relogin"}
      /\ u \in Users
      /\ k = "connect" => a \in Emails
      /\ k \in {"link", "relogin"} => a \in Profiles /\ Provider[a] \in Providers
  BY DEF SaveIdentity, Shape, Kinds, Running
<1>2. user[u] \in UserDocs /\ user \in [Users -> UserDocs]
  BY <1>1, TypeFacts DEF Shape, TypeOK
<1>3. CASE \E e \in {a, None} :
              /\ e # None => k = "connect"
              /\ k = "connect" => e = a
              /\ user' = [user EXCEPT ![u].email = e] /\ stale' = stale \cup {u}
  <2>1. PICK e \in {a, None} :
              /\ e # None => k = "connect"
              /\ user' = [user EXCEPT ![u].email = e] /\ stale' = stale \cup {u}
    BY <1>3
  <2>2. e \in Emails \cup {None}
    BY <1>1, <2>1
  <2>3. /\ user'[u] = [user[u] EXCEPT !.email = e]
        /\ \A v \in Users : v # u => user'[v] = user[v]
    BY <1>1, <1>2, <2>1
  <2>4. /\ user'[u] \in UserDocs /\ user'[u].email = e
        /\ user'[u].domains = user[u].domains /\ user'[u].saved = user[u].saved
        /\ user'[u].id = user[u].id
    BY <1>2, <2>2, <2>3 DEF UserDocs
  <2>5. user' \in [Users -> UserDocs]
    BY <1>2, <2>1, <2>4
  <2> QED BY <1>1, <2>1, <2>3, <2>4, <2>5
<1>4. CASE k = "unlink" /\ user' = [user EXCEPT ![u].token = @ \ {a}] /\ UNCHANGED stale
  <2>1. /\ user'[u] = [user[u] EXCEPT !.token = @ \ {a}]
        /\ \A v \in Users : v # u => user'[v] = user[v]
    BY <1>1, <1>2, <1>4
  <2>2. /\ user'[u] \in UserDocs /\ user'[u].email = user[u].email
        /\ user'[u].domains = user[u].domains /\ user'[u].saved = user[u].saved
        /\ user'[u].id = user[u].id
    BY <1>2, <2>1 DEF UserDocs
  <2>3. user' \in [Users -> UserDocs]
    BY <1>2, <1>4, <2>2
  <2> QED BY <1>1, <1>4, <2>1, <2>2, <2>3
<1>5. CASE /\ k \in {"link", "relogin"}
           /\ user' = [user EXCEPT ![u].token = @ \cup {Provider[a]},
                ![u].id[Provider[a]] =
                   IF k = "relogin" \/ req[r].copy.id[Provider[a]] = a THEN @ ELSE a]
           /\ UNCHANGED stale
  <2> DEFINE id2 == [user[u].id EXCEPT ![Provider[a]] =
                       IF k = "relogin" \/ req[r].copy.id[Provider[a]] = a THEN @ ELSE a]
  <2>1. /\ user'[u] = [user[u] EXCEPT !.token = @ \cup {Provider[a]}, !.id = id2]
        /\ \A v \in Users : v # u => user'[v] = user[v]
    BY <1>1, <1>2, <1>5 DEF UserDocs
  <2>2. user[u].id \in [Providers -> Profiles \cup {None}]
    BY <1>2 DEF UserDocs
  <2>3. /\ id2 \in [Providers -> Profiles \cup {None}]
        /\ \/ id2 = user[u].id
           \/ k = "link" /\ id2 = [user[u].id EXCEPT ![Provider[a]] = a]
    BY <1>1, <1>5, <2>2
  <2>4. /\ user'[u] \in UserDocs /\ user'[u].email = user[u].email
        /\ user'[u].domains = user[u].domains /\ user'[u].saved = user[u].saved
        /\ user'[u].id = id2
    <3> DEFINE token2 == user[u].token \cup {Provider[a]}
    <3>1. user'[u] = [user[u] EXCEPT !.token = token2, !.id = id2]
      BY <2>1
    <3>2. token2 \in SUBSET Providers
      BY <1>1, <1>2, <1>5 DEF UserDocs
    <3> HIDE DEF token2, id2
    <3> QED BY <1>2, <2>3, <3>1, <3>2 DEF UserDocs
  <2> HIDE DEF id2
  <2>5. user' = [user EXCEPT ![u] = user'[u]]
    BY <1>1, <1>2, <1>5, <2>1
  <2>6. user' \in [Users -> UserDocs]
    BY <1>2, <2>4, <2>5
  <2> QED BY <1>1, <1>5, <2>1, <2>3, <2>4, <2>6
<1>6. CASE UNCHANGED <<user, stale>>
  BY <1>1, <1>2, <1>6
<1> QED BY <1>3, <1>4, <1>5, <1>6 DEF SaveIdentity

-----------------------------------------------------------------------------
(* The kinds of steps.                                                     *)

\* Nothing but requests and sessions changes.
Quiet ==
  /\ UNCHANGED <<user, users, name, contested, stale>>
  /\ crashes' = crashes
  /\ \A u \in session' : u \in Users /\ user[u].saved

Begins(r, kind, u, arg, step) ==
  /\ Quiet
  /\ Begin(r, kind, u, arg, step)
  /\ req[r].step = "new" \/ (req[r].step = "check" /\ req[r].of = None)
  /\ step = IF kind \in {"add", "signup", "connect", "social"} THEN "check" ELSE "save"
  /\ IF kind \in {"signup", "social"} THEN u = None ELSE u \in Users /\ user[u].saved
  /\ \/ kind = "add" /\ arg \in Hosts
     \/ kind \in {"signup", "connect"} /\ arg \in Emails
     \/ kind \in {"social", "link", "relogin"} /\ arg \in Profiles
     \/ kind = "unlink" /\ arg \in Providers
     \/ kind = "remove" /\ arg \in Requests
     \/ kind = "drop" /\ arg = None

Answers(r) == Quiet /\ req[r].step \in {"check", "save"} /\ Done(r)

Proceeds(r) ==
  /\ Quiet
  /\ req[r].step = "check"
  /\ req' = [req EXCEPT ![r].step = "save"]
  /\ \/ req[r].kind \in {"add", "signup", "connect"} /\ Owners(r) = {}
     \/ req[r].kind = "social" /\ Linked(req[r].arg) = {}

\* Every request that comes in begins.
LEMMA StartBegins ==
  ASSUME Shape, NEW r \in Requests, NEW u \in Users, NEW kind, NEW arg, NEW step,
         Start(r, kind, u, arg, step),
         step = IF kind \in {"add", "signup", "connect", "social"} THEN "check" ELSE "save",
         kind \notin {"signup", "social"},
         \/ kind = "add" /\ arg \in Hosts
         \/ kind = "connect" /\ arg \in Emails
         \/ kind = "link" /\ arg \in Profiles
         \/ kind = "unlink" /\ arg \in Providers
         \/ kind = "remove" /\ arg \in Requests
         \/ kind = "drop" /\ arg = None
  PROVE  Begins(r, kind, u, arg, step)
<1>1. Quiet /\ user[u].saved
  BY DEF Start, Quiet, history, Shape, Unsaved, TypeOK
<1> QED BY <1>1 DEF Begins, Start

LEMMA SocialBegins ==
  ASSUME Shape, NEW r \in Requests, NEW p, NEW g \in Profiles, SocialStrategy(r, p, g)
  PROVE  \/ Begins(r, "social", None, g, "check")
         \/ \E u \in Users : Begins(r, "link", u, g, "save")
<1>1. CASE \E u \in session : Start(r, "link", u, g, "save")
  <2>1. PICK u \in session : Start(r, "link", u, g, "save")
    BY <1>1
  <2>2. u \in Users
    BY DEF Shape, TypeOK
  <2> QED BY <2>1, <2>2, StartBegins
<1>2. CASE /\ req[r].step = "new"
           /\ Begin(r, "social", None, g, "check")
           /\ UNCHANGED <<user, users, session, name, crashes, history>>
  BY <1>2 DEF Begins, Quiet, history, Shape, Unsaved, TypeOK
<1> QED BY <1>1, <1>2 DEF SocialStrategy

\* Every step is one of these.
LEMMA StepKinds ==
  ASSUME Shape, [Next]_vars
  PROVE  \/ \E r \in Requests : \E u \in Users \cup {None} : \E kind, arg, step :
               Begins(r, kind, u, arg, step)
         \/ \E r \in Requests : Answers(r)
         \/ \E r \in Requests : Proceeds(r)
         \/ \E r \in Requests : SaveAdd(r)
         \/ \E r \in Requests : SaveRemove(r) /\ user[req[r].of].ver = req[r].copy.ver
         \/ \E r \in Requests : SaveNew(r)
         \/ \E r \in Requests : SaveIdentity(r)
         \/ \E r \in Requests : Mirror(r)
         \/ Quiet /\ req' = req
         \/ Crash
<1> DEFINE Goal ==
         \/ \E r \in Requests : \E u \in Users \cup {None} : \E kind, arg, step :
               Begins(r, kind, u, arg, step)
         \/ \E r \in Requests : Answers(r)
         \/ \E r \in Requests : Proceeds(r)
         \/ \E r \in Requests : SaveRemove(r) /\ user[req[r].of].ver = req[r].copy.ver
         \/ Quiet /\ req' = req
<1>0. \A u \in session : u \in Users /\ user[u].saved
  BY DEF Shape, Unsaved, TypeOK
<1>1. ASSUME NEW r \in Requests, NEW u \in Users,
             \/ \E h \in Hosts : AddDomain(r, u, h)
             \/ \E d \in Requests : RemoveDomain(r, u, d)
             \/ UnlinkLocal(r, u) \/ UnlinkFacebook(r, u)
             \/ UnlinkTwitter(r, u) \/ UnlinkGoogle(r, u)
      PROVE  Goal
  <2>1. ASSUME NEW h \in Hosts, AddDomain(r, u, h) PROVE Begins(r, "add", u, h, "check")
    BY <2>1, StartBegins DEF AddDomain
  <2>2. ASSUME NEW d \in Requests, RemoveDomain(r, u, d) PROVE Begins(r, "remove", u, d, "save")
    BY <2>2, StartBegins DEF RemoveDomain
  <2>3. UnlinkLocal(r, u) => Begins(r, "drop", u, None, "save")
    BY StartBegins DEF UnlinkLocal
  <2>4. \A p \in Providers : Start(r, "unlink", u, p, "save") => Begins(r, "unlink", u, p, "save")
    BY StartBegins
  <2>5. UnlinkFacebook(r, u) \/ UnlinkTwitter(r, u) \/ UnlinkGoogle(r, u)
        => \E p \in Providers : Begins(r, "unlink", u, p, "save")
    BY <2>4 DEF UnlinkFacebook, UnlinkTwitter, UnlinkGoogle, Providers
  <2> QED BY <1>1, <2>1, <2>2, <2>3, <2>5
<1>2. ASSUME NEW r \in Requests, NEW e \in Emails, LocalSignup(r, e) PROVE Goal
  <2>1. CASE \E u \in session : Start(r, "connect", u, e, "check")
    BY <1>0, <2>1, StartBegins
  <2>2. CASE /\ req[r].step = "new"
             /\ Begin(r, "signup", None, e, "check")
             /\ UNCHANGED <<user, users, session, name, crashes, history>>
    <3>1. Begins(r, "signup", None, e, "check")
      BY <1>0, <2>2 DEF Begins, Quiet, history
    <3> QED BY <3>1
  <2> QED BY <1>2, <2>1, <2>2 DEF LocalSignup
<1>3. ASSUME NEW r \in Requests, NEW g \in Profiles,
             FacebookStrategy(r, g) \/ TwitterStrategy(r, g) \/ GoogleStrategy(r, g)
      PROVE  Goal
  BY <1>3, SocialBegins DEF FacebookStrategy, TwitterStrategy, GoogleStrategy
<1>4. ASSUME NEW r \in Requests, Check(r) PROVE Goal
  <2>1. Quiet
    BY <1>0, <1>4 DEF Check, Quiet, history
  <2> QED BY <1>4, <2>1 DEF Check, Answers, Proceeds
<1>5. ASSUME NEW r \in Requests, CheckSocial(r) PROVE Goal
  <2> DEFINE g == req[r].arg
  <2>1. /\ req[r].step = "check" /\ req[r].kind = "social" /\ req[r].of = None
        /\ g \in Profiles /\ Provider[g] \in Providers
    BY <1>5 DEF CheckSocial, Shape, Kinds, Running
  <2>2. CASE /\ Linked(g) = {}
             /\ req' = [req EXCEPT ![r].step = "save"]
             /\ UNCHANGED session
    BY <1>0, <1>5, <2>1, <2>2 DEF CheckSocial, Proceeds, Quiet, history
  <2>3. ASSUME NEW u \in Linked(g),
               session' = session \cup {u},
               IF Provider[g] \in user[u].token THEN Done(r)
               ELSE Begin(r, "relogin", u, g, "save")
        PROVE  Goal
    <3>1. u \in Users /\ user[u].saved
      BY <2>1 DEF Linked, Shape, Unsaved
    <3>2. Quiet
      BY <1>0, <1>5, <2>3, <3>1 DEF CheckSocial, Quiet, history
    <3>3. CASE Done(r)
      BY <2>1, <3>2, <3>3 DEF Answers
    <3>4. CASE Begin(r, "relogin", u, g, "save")
      <4>1. Begins(r, "relogin", u, g, "save")
        BY <2>1, <3>1, <3>2, <3>4 DEF Begins
      <4> QED BY <3>1, <4>1
    <3> QED BY <2>3, <3>3, <3>4
  <2> QED BY <1>5, <2>2, <2>3 DEF CheckSocial
<1>6. ASSUME NEW r \in Requests, StoreFails(r) PROVE Goal
  BY <1>0, <1>6 DEF StoreFails, Answers, Quiet, history
<1>7. ASSUME NEW r \in Requests, SaveRemove(r) PROVE Goal
  <2>1. CASE user[req[r].of].ver # req[r].copy.ver
    BY <1>0, <1>7, <2>1 DEF SaveRemove, Answers, Quiet, history
  <2> QED BY <1>7, <2>1
<1>8. ASSUME NEW e \in Emails, LocalLogin(e) PROVE Goal
  BY <1>0, <1>8 DEF LocalLogin, Quiet, history, Shape, Unsaved
<1>9. ASSUME NEW u \in Users, Logout(u) PROVE Goal
  BY <1>0, <1>9 DEF Logout, Quiet, history
<1>10. CASE UNCHANGED vars
  BY <1>0, <1>10 DEF vars, Quiet, history
<1> HIDE DEF Goal
<1>11. CASE \/ \E r \in Requests : SaveAdd(r) \/ SaveNew(r) \/ SaveIdentity(r) \/ Mirror(r)
            \/ Crash
  BY <1>11
<1> QED BY <1>1, <1>2, <1>3, <1>4, <1>5, <1>6, <1>7, <1>8, <1>9, <1>10, <1>11 DEF Next, Goal

\* A request that begins: the others of its user are not alone from then on.
LEMMA BeginReq ==
  ASSUME TypeOK, NEW r \in Requests, NEW kind, NEW u \in Users \cup {None}, NEW arg,
         NEW step, Begins(r, kind, u, arg, step)
  PROVE  /\ req' \in [Requests -> ReqRecords]
         /\ req'[r] = [step |-> step, kind |-> kind, arg |-> arg, of |-> u,
                       copy |-> IF u = None THEN NoUser ELSE user[u],
                       alone |-> u # None /\ Active(u) = {}]
         /\ \A q \in Requests : q # r =>
              /\ req'[q].step = req[q].step /\ req'[q].kind = req[q].kind
              /\ req'[q].arg = req[q].arg /\ req'[q].of = req[q].of
              /\ req'[q].copy = req[q].copy
              /\ req'[q].alone => req[q].alone /\ q \notin Active(u)
<1>0. /\ kind \in {"add", "remove", "signup", "connect", "unlink", "drop", "social",
                   "relogin", "link"}
      /\ arg \in Names \cup Requests \cup Providers \cup {None}
      /\ step \in {"check", "save"}
      /\ Begin(r, kind, u, arg, step)
  BY DEF Begins, Names
<1>1. (IF u = None THEN NoUser ELSE user[u]) \in UserDocs
  BY Constants, TypeFacts
<1>2. req'[r] = [step |-> step, kind |-> kind, arg |-> arg, of |-> u,
                 copy |-> IF u = None THEN NoUser ELSE user[u],
                 alone |-> u # None /\ Active(u) = {}]
  BY <1>0 DEF Begin
<1>3. req'[r] \in ReqRecords
  BY <1>0, <1>1, <1>2 DEF ReqRecords
<1>4. ASSUME NEW q \in Requests, q # r
      PROVE  req'[q] = IF q \in Active(u) THEN [req[q] EXCEPT !.alone = FALSE] ELSE req[q]
  BY <1>0, <1>4 DEF Begin
<1>5. ASSUME NEW q \in Requests, q # r
      PROVE  /\ req'[q] \in ReqRecords
             /\ req'[q].step = req[q].step /\ req'[q].kind = req[q].kind
             /\ req'[q].arg = req[q].arg /\ req'[q].of = req[q].of
             /\ req'[q].copy = req[q].copy
             /\ req'[q].alone => req[q].alone /\ q \notin Active(u)
  <2>1. req[q] \in ReqRecords
    BY <1>5, TypeFacts
  <2>2. CASE q \in Active(u)
    <3>1. req'[q] = [req[q] EXCEPT !.alone = FALSE]
      BY <1>4, <1>5, <2>2
    <3> HIDE DEF Begin
    <3> QED BY <2>1, <3>1 DEF ReqRecords
  <2>3. CASE q \notin Active(u)
    BY <1>4, <1>5, <2>1, <2>3
  <2> QED BY <2>2, <2>3
<1>6. DOMAIN req' = Requests /\ req' = [q \in Requests |-> req'[q]]
  BY <1>0 DEF Begin
<1>7. req' \in [Requests -> ReqRecords]
  BY <1>3, <1>5, <1>6
<1> QED BY <1>2, <1>5, <1>7

-----------------------------------------------------------------------------
(* Types, and what the requests are about.                                 *)

LEMMA ContestFacts ==
  ASSUME NEW r \in Requests, NEW found, Contest(r, found), TypeOK, req[r].arg \in Names
  PROVE  /\ contested \subseteq contested' /\ contested' \in SUBSET Names
         /\ contested' \subseteq contested \cup {req[r].arg}
         /\ Rivals(r) \cup found # {} => req[r].arg \in contested'
BY DEF Contest, TypeOK

LEMMA InitShape == Init => Shape
<1> SUFFICES ASSUME Init PROVE Shape
  OBVIOUS
<1> USE Constants
<1>1. PICK m \in Members :
        user = [u \in Users |-> [NoUser EXCEPT !.saved = m[u] # None, !.email = m[u]]]
  BY DEF Init
<1>2. ASSUME NEW u \in Users
      PROVE  /\ user[u] \in UserDocs /\ user[u].domains = {}
             /\ user[u].saved <=> m[u] # None
             /\ user[u].email = m[u] /\ user[u].id = NoUser.id
  <2>1. m[u] \in Emails \cup {None}
    OBVIOUS
  <2>2. user[u] = [NoUser EXCEPT !.saved = m[u] # None, !.email = m[u]]
    BY <1>1
  <2> HIDE DEF NoUser
  <2> QED BY <2>1, <2>2 DEF UserDocs
<1>3. TypeOK
  <2>1. user \in [Users -> UserDocs]
    BY <1>1, <1>2
  <2>2. req \in [Requests -> ReqRecords]
    <3>1. NoReq \in ReqRecords /\ req = [r \in Requests |-> NoReq]
      BY DEF Init
    <3> HIDE DEF NoReq
    <3> QED BY <3>1
  <2>3. crashes \in 0..MaxCrashes
    <3>1. 0 \in 0..MaxCrashes
      OBVIOUS
    <3> QED BY <3>1 DEF Init
  <2> QED BY <2>1, <2>2, <2>3 DEF Init, TypeOK, ReqRecords
<1>4. \A r \in Requests : req[r] = NoReq
  BY DEF Init
<1>5. Kinds /\ Named /\ Unsaved
  BY <1>2, <1>4 DEF Init, Kinds, Named, Unsaved, Running
<1> QED BY <1>3, <1>5 DEF Shape

\* What is in the store is one thing, what the requests are about another.
LEMMA BeginsShape ==
  ASSUME Shape, NEW r \in Requests, NEW u \in Users \cup {None}, NEW kind, NEW arg, NEW step,
         Begins(r, kind, u, arg, step)
  PROVE  Shape'
<1> TypeOK
  BY DEF Shape
<1>1. req'[r] = [step |-> step, kind |-> kind, arg |-> arg, of |-> u,
                 copy |-> IF u = None THEN NoUser ELSE user[u],
                 alone |-> u # None /\ Active(u) = {}]
  BY BeginReq
<1>2. /\ req' \in [Requests -> ReqRecords]
      /\ req'[r].step = step /\ req'[r].kind = kind /\ req'[r].arg = arg /\ req'[r].of = u
      /\ req'[r].copy = IF u = None THEN NoUser ELSE user[u]
      /\ \A q \in Requests : q # r =>
              /\ req'[q].step = req[q].step /\ req'[q].kind = req[q].kind
              /\ req'[q].arg = req[q].arg /\ req'[q].of = req[q].of
              /\ req'[q].copy = req[q].copy
  <2>1. req' \in [Requests -> ReqRecords]
    BY BeginReq
  <2>2. \A q \in Requests : q # r =>
              /\ req'[q].step = req[q].step /\ req'[q].kind = req[q].kind
              /\ req'[q].arg = req[q].arg /\ req'[q].of = req[q].of
              /\ req'[q].copy = req[q].copy
              /\ req'[q].alone => req[q].alone /\ q \notin Active(u)
    BY BeginReq
  <2> QED BY <1>1, <2>1, <2>2
<1>3. Quiet /\ session' \subseteq Users
  BY DEF Begins, Quiet
<1>4. TypeOK'
  BY <1>2, <1>3 DEF Shape, TypeOK, ReqRecords, Quiet
<1>5. Kinds'
  BY <1>2 DEF Shape, Kinds, Running, Begins
<1>6. Named'
  <2>1. name[r] = None
    BY DEF Begins, Shape, Named
  <2>2. \A d \in req'[r].copy.domains : name[d] \in Hosts
    BY <1>2, Constants DEF Shape, Named
  <2>3. \A q \in Requests : \A d \in req'[q].copy.domains : name[d] \in Hosts
    BY <1>2, <2>2 DEF Shape, Named
  <2>4. \A q \in Requests : req'[q].step \in {"new", "check", "save"} => name[q] = None
    BY <1>2, <2>1 DEF Shape, Named
  <2> QED BY <1>3, <2>3, <2>4 DEF Shape, Named, Quiet
<1>7. Unsaved'
  BY <1>2, <1>3 DEF Shape, Unsaved, Running, Quiet, Begins
<1> QED BY <1>4, <1>5, <1>6, <1>7 DEF Shape

LEMMA ReadShape ==
  ASSUME Shape,
         (\E r \in Requests : Answers(r) \/ Proceeds(r)) \/ (Quiet /\ req' = req)
  PROVE  Shape'
<1>1. Quiet /\ session' \subseteq Users
  BY DEF Answers, Proceeds, Quiet
<1>2. /\ req' \in [Requests -> ReqRecords]
      /\ \A q \in Requests :
           \/ req'[q] = req[q]
           \/ req'[q].step = "done" /\ req'[q].copy.domains = {} /\ name[q] = None
           \/ /\ req'[q].step = "save" /\ req[q].step = "check"
              /\ req'[q].kind = req[q].kind /\ req'[q].arg = req[q].arg
              /\ req'[q].of = req[q].of /\ req'[q].copy = req[q].copy
  BY TypeFacts, DoneReq, SaveReq DEF Answers, Proceeds, Shape, Named
<1>3. TypeOK'
  BY <1>1, <1>2 DEF Shape, TypeOK, ReqRecords, Quiet
<1>4. Kinds'
  BY <1>2 DEF Shape, Kinds, Running
<1>5. Named'
  BY <1>1, <1>2 DEF Shape, Named, Quiet
<1>6. Unsaved'
  BY <1>1, <1>2 DEF Shape, Unsaved, Running, Quiet
<1> QED BY <1>3, <1>4, <1>5, <1>6 DEF Shape

LEMMA DomainShape ==
  ASSUME Shape, NEW r \in Requests,
         SaveAdd(r) \/ (SaveRemove(r) /\ user[req[r].of].ver = req[r].copy.ver)
  PROVE  Shape'
<1> DEFINE u == req[r].of
<1>1. /\ u \in Users /\ user' \in [Users -> UserDocs] /\ req' \in [Requests -> ReqRecords]
      /\ user'[u].domains \subseteq user[u].domains \cup {r}
      /\ user'[u].email = user[u].email /\ user'[u].id = user[u].id
      /\ user'[u].saved = user[u].saved
      /\ \A v \in Users : v # u => user'[v] = user[v]
      /\ req'[r].step = "mirror" /\ req'[r].kind = req[r].kind /\ req'[r].arg = req[r].arg
      /\ req'[r].of = u /\ req'[r].kind \in {"add", "remove"}
      /\ req'[r].copy.domains \subseteq req[r].copy.domains \cup {r}
      /\ \A q \in Requests : q # r => req'[q] = req[q]
      /\ UNCHANGED <<users, session, crashes, stale>>
      /\ req[r].step = "save"
  <2>1. CASE SaveAdd(r)
    <3>1. req[r].step = "save" /\ req[r].kind = "add"
      BY <2>1 DEF SaveAdd
    <3> QED BY <2>1, <3>1, SaveAddSteps
  <2>2. CASE SaveRemove(r) /\ user[req[r].of].ver = req[r].copy.ver
    <3>1. req[r].step = "save" /\ req[r].kind = "remove" /\ UNCHANGED <<crashes, stale>>
      BY <2>2 DEF SaveRemove, history
    <3> QED BY <2>2, <3>1, SaveRemoveSteps
  <2> QED BY <2>1, <2>2
<1>2. /\ name' \in [Requests -> Hosts \cup {None}]
      /\ \A q \in Requests : q # r => name'[q] = name[q]
      /\ contested' \in SUBSET Names
      /\ name'[r] \in Hosts
         \/ (/\ name'[r] = name[r] /\ user'[u].domains \subseteq user[u].domains
             /\ req'[r].copy.domains \subseteq req[r].copy.domains)
  <2>1. CASE SaveAdd(r)
    <3>1. req[r].arg \in Hosts /\ name' = [name EXCEPT ![r] = req[r].arg]
      BY <2>1, SaveAddSteps
    <3>2. contested' \in SUBSET Names
      BY <2>1, <3>1, ContestFacts DEF SaveAdd, Names, Shape
    <3> QED BY <3>1, <3>2 DEF Shape, TypeOK
  <2>2. CASE SaveRemove(r) /\ user[req[r].of].ver = req[r].copy.ver
    <3>1. UNCHANGED <<name, contested>>
      BY <2>2 DEF SaveRemove, history
    <3>2. /\ user'[u].domains = user[u].domains \ {req[r].arg}
          /\ req'[r].copy.domains = req[r].copy.domains \ {req[r].arg}
      BY <2>2, SaveRemoveSteps
    <3> QED BY <3>1, <3>2 DEF Shape, TypeOK
  <2> QED BY <2>1, <2>2
<1> HIDE DEF u
<1>3. TypeOK'
  BY <1>1, <1>2 DEF Shape, TypeOK, ReqRecords
<1>4. Kinds'
  BY <1>1 DEF Shape, Kinds, Running, u
<1>5. Named'
  <2>1. \A v \in Users : \A d \in user'[v].domains : name'[d] \in Hosts
    <3> SUFFICES ASSUME NEW v \in Users, NEW d \in user'[v].domains PROVE name'[d] \in Hosts
      OBVIOUS
    <3>1. user'[v] \in UserDocs /\ d \in Requests
      BY <1>1 DEF UserDocs
    <3>2. d \in user[v].domains => name[d] \in Hosts
      BY DEF Shape, Named
    <3>3. CASE d = r
      BY <1>1, <1>2, <3>2, <3>3
    <3>4. CASE d # r
      BY <1>1, <1>2, <3>1, <3>2, <3>4
    <3> QED BY <3>3, <3>4
  <2>2. \A q \in Requests : \A d \in req'[q].copy.domains : name'[d] \in Hosts
    <3> SUFFICES ASSUME NEW q \in Requests, NEW d \in req'[q].copy.domains
                 PROVE  name'[d] \in Hosts
      OBVIOUS
    <3>1. req'[q] \in ReqRecords /\ d \in Requests
      BY <1>1 DEF ReqRecords, UserDocs
    <3>2. d \in req[q].copy.domains => name[d] \in Hosts
      BY DEF Shape, Named
    <3>3. CASE d = r
      BY <1>1, <1>2, <3>2, <3>3
    <3>4. CASE d # r
      BY <1>1, <1>2, <3>1, <3>2, <3>4
    <3> QED BY <3>3, <3>4
  <2> QED BY <1>1, <1>2, <2>1, <2>2 DEF Shape, Named
<1>6. Unsaved'
  <2>1. \A v \in Users : /\ user'[v].saved = user[v].saved
                           /\ user'[v].email = user[v].email /\ user'[v].id = user[v].id
    BY <1>1
  <2>2. \A q \in Requests : Running(q)' => Running(q) /\ req'[q].of = req[q].of
    BY <1>1 DEF Running, u
  <2>3. \A v \in Users : ~user'[v].saved =>
          user'[v].email = None /\ \A p \in Providers : user'[v].id[p] = None
    BY <2>1 DEF Shape, Unsaved
  <2>4. \A v \in session' : user'[v].saved
    BY <1>1, <2>1 DEF Shape, Unsaved, TypeOK
  <2>5. \A q \in Requests : Running(q)' /\ req'[q].of \in Users => user'[req'[q].of].saved
    BY <2>1, <2>2 DEF Shape, Unsaved
  <2> QED BY <2>3, <2>4, <2>5 DEF Unsaved
<1> QED BY <1>3, <1>4, <1>5, <1>6 DEF Shape

LEMMA AccountShape ==
  ASSUME Shape, NEW r \in Requests, SaveNew(r) \/ SaveIdentity(r)
  PROVE  Shape'
<1>1. /\ req[r].step = "save"
      /\ req' \in [Requests -> ReqRecords]
      /\ req'[r].step = "done" /\ req'[r].copy.domains = {}
      /\ \A q \in Requests : q # r => req'[q] = req[q]
      /\ UNCHANGED <<users, name, crashes>>
  <2>1. Done(r) /\ req[r].step = "save" /\ UNCHANGED <<users, name, crashes>>
    BY DEF SaveNew, SaveIdentity
  <2> QED BY <2>1, DoneReq DEF Shape
<1>2. contested' \in SUBSET Names
  <2>1. CASE req[r].kind \in {"signup", "social", "connect", "link"}
    <3>1. req[r].arg \in Names
      BY <1>1, <2>1 DEF Shape, Kinds, Running, Names
    <3>2. (\E found : Contest(r, found)) \/ UNCHANGED contested
      BY DEF SaveNew, SaveIdentity
    <3> QED BY <3>1, <3>2, ContestFacts DEF Shape, TypeOK
  <2>2. CASE req[r].kind \notin {"signup", "social", "connect", "link"}
    <3>1. UNCHANGED contested
      BY <2>2 DEF SaveNew, SaveIdentity
    <3> QED BY <3>1 DEF Shape, TypeOK
  <2> QED BY <2>1, <2>2
<1>3. \E u \in Users :
        /\ user' \in [Users -> UserDocs]
        /\ user'[u].saved \/ ~user[u].saved
        /\ user'[u].domains \in {user[u].domains, {}}
        /\ user[u].saved \/ user'[u].saved
        /\ \A v \in Users : v # u => user'[v] = user[v]
        /\ session' \subseteq session \cup {v \in {u} : user'[u].saved}
        /\ stale' \in SUBSET Users
  <2>1. CASE SaveNew(r)
    <3>1. PICK u \in Users :
           /\ ~user[u].saved
           /\ user' \in [Users -> UserDocs]
           /\ user'[u].saved /\ user'[u].domains = {}
           /\ \A v \in Users : v # u => user'[v] = user[v]
           /\ session' = session \cup {u}
           /\ stale' = stale \cup {u}
      BY <2>1, SaveNewSteps
    <3> QED BY <3>1 DEF Shape, TypeOK
  <2>2. CASE SaveIdentity(r)
    <3> DEFINE u == req[r].of
    <3>1. /\ u \in Users
          /\ user' \in [Users -> UserDocs]
          /\ user'[u].domains = user[u].domains /\ user'[u].saved = user[u].saved
          /\ \A v \in Users : v # u => user'[v] = user[v]
          /\ \/ user'[u].email = user[u].email /\ stale' = stale
             \/ user'[u].email = None /\ stale' = stale \cup {u}
             \/ /\ req[r].kind = "connect" /\ req[r].arg \in Emails
                /\ user'[u].email = req[r].arg /\ stale' = stale \cup {u}
      BY <2>2, SaveIdentitySteps
    <3>2. user[u].saved /\ session' = session
      BY <1>1, <2>2, <3>1 DEF SaveIdentity, Shape, Unsaved, Running
    <3> QED BY <3>1, <3>2 DEF Shape, TypeOK
  <2> QED BY <2>1, <2>2
<1>4. PICK u \in Users :
        /\ user' \in [Users -> UserDocs]
        /\ user'[u].domains \in {user[u].domains, {}}
        /\ user'[u].saved
        /\ \A v \in Users : v # u => user'[v] = user[v]
        /\ session' \subseteq session \cup {u}
        /\ stale' \in SUBSET Users
  BY <1>3
<1>5. TypeOK'
  BY <1>1, <1>2, <1>4 DEF Shape, TypeOK, ReqRecords
<1>6. Kinds'
  BY <1>1 DEF Shape, Kinds, Running
<1>7. Named'
  <2>1. \A v \in Users : user'[v].domains \subseteq user[v].domains
    BY <1>4
  <2>2. name[r] = None
    BY <1>1 DEF Shape, Named
  <2> QED BY <1>1, <2>1, <2>2 DEF Shape, Named
<1>8. Unsaved'
  BY <1>1, <1>4 DEF Shape, Unsaved, Running, TypeOK
<1> QED BY <1>5, <1>6, <1>7, <1>8 DEF Shape

LEMMA MirrorShape ==
  ASSUME Shape, NEW r \in Requests, Mirror(r)
  PROVE  Shape'
<1>1. /\ req[r].step = "mirror"
      /\ req' \in [Requests -> ReqRecords]
      /\ req'[r].step = "done" /\ req'[r].copy.domains = {}
      /\ \A q \in Requests : q # r => req'[q] = req[q]
      /\ UNCHANGED <<user, session, name, crashes, contested>>
  BY DoneReq DEF Mirror, Shape
<1>2. users' \in [Emails -> SUBSET Hosts]
  <2> DEFINE e == req[r].copy.email
  <2>1. e \in Emails \cup {None}
    BY TypeFacts DEF Shape, ReqRecords, UserDocs
  <2>2. HostsOf(req[r].copy.domains) \subseteq Hosts
    BY DEF Shape, Named, HostsOf
  <2>3. \/ UNCHANGED users
        \/ e # None /\ users' = [users EXCEPT ![e] = HostsOf(req[r].copy.domains)]
    BY DEF Mirror
  <2> QED BY <2>1, <2>2, <2>3 DEF Shape, TypeOK
<1>3. stale' \in SUBSET Users
  <2>1. req[r].of \in Users
    BY <1>1 DEF Shape, Kinds, Running
  <2> QED BY <2>1 DEF Mirror, Shape, TypeOK
<1>4. TypeOK'
  BY <1>1, <1>2, <1>3 DEF Shape, TypeOK, ReqRecords
<1>5. Kinds'
  BY <1>1 DEF Shape, Kinds, Running
<1>6. Named'
  BY <1>1 DEF Shape, Named
<1>7. Unsaved'
  BY <1>1 DEF Shape, Unsaved, Running
<1> QED BY <1>4, <1>5, <1>6, <1>7 DEF Shape

LEMMA CrashShape ==
  ASSUME Shape, Crash
  PROVE  Shape'
<1>1. /\ session' = {} /\ crashes < MaxCrashes /\ crashes' = crashes + 1
      /\ stale' = stale \cup {req[r].of : r \in {q \in Requests : req[q].step = "mirror"}}
      /\ req' = [r \in Requests |-> IF req[r].step = "new" THEN NoReq
                                    ELSE [NoReq EXCEPT !.step = "done"]]
      /\ UNCHANGED <<user, users, name, contested>>
  BY DEF Crash
<1>2. \A r \in Requests : /\ req'[r] \in ReqRecords /\ ~Running(r)' /\ req'[r].copy.domains = {}
                          /\ req'[r].step = "new" => req[r].step = "new"
  BY <1>1, Constants DEF Running
<1>3. req' \in [Requests -> ReqRecords]
  BY <1>1, <1>2
<1>4. stale' \in SUBSET Users
  BY <1>1 DEF Shape, Kinds, Running, TypeOK
<1>5. crashes' \in 0..MaxCrashes
  BY <1>1 DEF Shape, TypeOK
<1>6. TypeOK'
  BY <1>1, <1>3, <1>4, <1>5 DEF Shape, TypeOK, ReqRecords
<1>7. Kinds'
  BY <1>2 DEF Kinds
<1>8. Named'
  <2>1. \A r \in Requests : req'[r].step \in {"new", "check", "save"} => req'[r].step = "new"
    BY <1>2 DEF Running
  <2> QED BY <1>1, <1>2, <2>1 DEF Shape, Named
<1>9. Unsaved'
  BY <1>1, <1>2 DEF Shape, Unsaved
<1> QED BY <1>6, <1>7, <1>8, <1>9 DEF Shape

LEMMA StepShape == Shape /\ [Next]_vars => Shape'
BY StepKinds, BeginsShape, ReadShape, DomainShape, AccountShape, MirrorShape, CrashShape

-----------------------------------------------------------------------------
(* One owner of a name.                                                    *)

Free == OneOwner /\ StillFree

LEMMA InitFree == Init => Free
<1> SUFFICES ASSUME Init PROVE Free
  OBVIOUS
<1> USE Constants
<1>1. PICK m \in Members :
        user = [u \in Users |-> [NoUser EXCEPT !.saved = m[u] # None, !.email = m[u]]]
  BY DEF Init
<1>2. ASSUME NEW u \in Users
      PROVE  user[u].domains = {} /\ user[u].email = m[u] /\ user[u].id = NoUser.id
  <2>1. m[u] \in Emails \cup {None} /\ NoUser \in UserDocs
    OBVIOUS
  <2>2. user[u] = [NoUser EXCEPT !.saved = m[u] # None, !.email = m[u]]
    BY <1>1
  <2> HIDE DEF NoUser
  <2> QED BY <2>1, <2>2 DEF UserDocs
<1>3. \A u, v \in Users : m[u] = m[v] => u = v \/ m[u] = None
  OBVIOUS
<1>4. HostsOf({}) = {}
  BY DEF HostsOf
<1>5. OneOwner
  <2>1. \A u \in Users : HostsOf(user[u].domains) = {}
    BY <1>2, <1>4
  <2> QED BY <1>2, <1>3, <2>1 DEF OneOwner
<1>6. StillFree
  BY DEF Init, StillFree
<1> QED BY <1>5, <1>6 DEF Free

\* Steps that leave the documents alone, and in which no question is answered.
LEMMA KeepFree ==
  ASSUME Free, UNCHANGED <<user, name, contested>>,
         \A q \in Requests : req'[q].step = "save" =>
            \/ req'[q].kind \notin {"add", "signup", "connect", "social"}
            \/ /\ req[q].step = "save"
               /\ req'[q].kind = req[q].kind /\ req'[q].arg = req[q].arg
  PROVE  Free'
<1>1. OneOwner'
  BY DEF Free, OneOwner, HostsOf
<1>2. StillFree'
  <2> SUFFICES ASSUME NEW q \in Requests, req'[q].step = "save", NEW u \in Users
               PROVE  /\ req'[q].kind = "add" /\ req'[q].arg \in HostsOf(user[u].domains)
                         => req'[q].arg \in contested
                      /\ req'[q].kind \in {"signup", "connect"} /\ req'[q].arg = user[u].email
                         => req'[q].arg \in contested
                      /\ /\ req'[q].kind = "social"
                         /\ user[u].id[Provider[req'[q].arg]] = req'[q].arg
                         => req'[q].arg \in contested
    BY DEF StillFree, HostsOf
  <2> QED BY DEF Free, StillFree
<1> QED BY <1>1, <1>2 DEF Free

\* The store answered that nobody has the name.
LEMMA ProceedsFree ==
  ASSUME Shape, Free, NEW r \in Requests, Proceeds(r)
  PROVE  Free'
<1> DEFINE a == req[r].arg
           k == req[r].kind
<1>1. /\ UNCHANGED <<user, name, contested>>
      /\ req'[r].kind = k /\ req'[r].arg = a /\ req'[r].step = "save"
      /\ \A q \in Requests : q # r => req'[q] = req[q]
  BY SaveReq DEF Proceeds, Quiet, Shape
<1>2. ASSUME NEW u \in Users
      PROVE  /\ ~(k = "add" /\ a \in HostsOf(user[u].domains))
             /\ ~(k \in {"signup", "connect"} /\ a = user[u].email)
             /\ ~(k = "social" /\ user[u].id[Provider[a]] = a)
  BY DEF Proceeds, Owners, Linked
<1> HIDE DEF a, k
<1>3. OneOwner'
  BY <1>1 DEF Free, OneOwner, HostsOf
<1>4. StillFree'
  <2> SUFFICES ASSUME NEW q \in Requests, req'[q].step = "save", NEW u \in Users
               PROVE  /\ req'[q].kind = "add" /\ req'[q].arg \in HostsOf(user[u].domains)
                         => req'[q].arg \in contested
                      /\ req'[q].kind \in {"signup", "connect"} /\ req'[q].arg = user[u].email
                         => req'[q].arg \in contested
                      /\ /\ req'[q].kind = "social"
                         /\ user[u].id[Provider[req'[q].arg]] = req'[q].arg
                         => req'[q].arg \in contested
    BY <1>1 DEF StillFree, HostsOf
  <2>1. CASE q = r
    BY <1>1, <1>2, <2>1
  <2>2. CASE q # r
    BY <1>1, <2>2 DEF Free, StillFree
  <2> QED BY <2>1, <2>2
<1> QED BY <1>3, <1>4 DEF Free

\* A domain is saved: a rival that was told the same makes it contested.
LEMMA SaveAddFree ==
  ASSUME Shape, Free, NEW r \in Requests, SaveAdd(r)
  PROVE  Free'
<1> DEFINE u == req[r].of
           a == req[r].arg
<1>1. /\ u \in Users /\ a \in Hosts /\ name[r] = None /\ r \notin user[u].domains
      /\ user'[u].domains = user[u].domains \cup {r}
      /\ user'[u].email = user[u].email /\ user'[u].id = user[u].id
      /\ \A v \in Users : v # u => user'[v] = user[v]
      /\ req'[r].step = "mirror"
      /\ \A q \in Requests : q # r => req'[q] = req[q]
      /\ name' = [name EXCEPT ![r] = a]
  <2>1. u \in Users /\ a \in Hosts /\ name[r] = None
    BY SaveAddSteps
  <2>2. r \notin user[u].domains
    BY <2>1 DEF Shape, Named
  <2> QED BY <2>1, <2>2, SaveAddSteps
<1>2. /\ contested \subseteq contested'
      /\ Rivals(r) # {} => a \in contested'
  <2>1. Contest(r, {}) /\ a \in Names
    BY <1>1 DEF SaveAdd, Names
  <2> QED BY <2>1, ContestFacts DEF Shape
<1>3. /\ req[r].step = "save" /\ req[r].kind = "add"
  BY DEF SaveAdd
<1>4. ASSUME NEW v \in Users
      PROVE  {name'[d] : d \in user'[v].domains}
             = IF v = u THEN HostsOf(user[v].domains) \cup {a} ELSE HostsOf(user[v].domains)
  <2>1. r \notin user[v].domains /\ user[v].domains \subseteq Requests
    BY <1>1, TypeFacts DEF Shape, Named, UserDocs
  <2>2. \A d \in user[v].domains : name'[d] = name[d]
    BY <1>1, <2>1 DEF Shape, TypeOK
  <2>3. name'[r] = a
    BY <1>1 DEF Shape, TypeOK
  <2> QED BY <1>1, <2>2, <2>3 DEF HostsOf
<1> HIDE DEF u, a
<1>5. OneOwner'
  <2> SUFFICES ASSUME NEW v \in Users, NEW w \in Users, v # w
               PROVE  /\ {name'[d] : d \in user'[v].domains} \cap {name'[d] : d \in user'[w].domains}
                         \subseteq contested'
                      /\ user'[v].email = user'[w].email => user'[v].email \in contested' \cup {None}
                      /\ \A p \in Providers : user'[v].id[p] = user'[w].id[p] =>
                            user'[v].id[p] \in contested' \cup {None}
    BY DEF OneOwner, HostsOf
  <2>1. \A x \in Users : a \in HostsOf(user[x].domains) => a \in contested
    BY <1>3 DEF Free, StillFree, a
  <2>2. HostsOf(user[v].domains) \cap HostsOf(user[w].domains) \subseteq contested
    BY DEF Free, OneOwner
  <2>3. {name'[d] : d \in user'[v].domains} \cap {name'[d] : d \in user'[w].domains}
        \subseteq contested'
    <3> SUFFICES ASSUME NEW h, h \in {name'[d] : d \in user'[v].domains},
                               h \in {name'[d] : d \in user'[w].domains}
                 PROVE  h \in contested'
      OBVIOUS
    <3>1. /\ h \in HostsOf(user[v].domains) \/ (v = u /\ h = a)
          /\ h \in HostsOf(user[w].domains) \/ (w = u /\ h = a)
      BY <1>4
    <3> QED BY <1>2, <2>1, <2>2, <3>1
  <2> QED BY <1>1, <1>2, <2>3 DEF Free, OneOwner
<1>6. StillFree'
  <2> SUFFICES ASSUME NEW q \in Requests, req'[q].step = "save", NEW v \in Users
               PROVE  /\ /\ req'[q].kind = "add"
                         /\ req'[q].arg \in {name'[d] : d \in user'[v].domains}
                         => req'[q].arg \in contested'
                      /\ req'[q].kind \in {"signup", "connect"} /\ req'[q].arg = user'[v].email
                         => req'[q].arg \in contested'
                      /\ /\ req'[q].kind = "social"
                         /\ user'[v].id[Provider[req'[q].arg]] = req'[q].arg
                         => req'[q].arg \in contested'
    BY DEF StillFree, HostsOf
  <2>1. q # r /\ req'[q] = req[q]
    BY <1>1
  <2>2. req[q].kind = "add" /\ req[q].arg = a => q \in Rivals(r)
    BY <2>1 DEF Rivals, a
  <2>3. user'[v].email = user[v].email /\ user'[v].id = user[v].id
    BY <1>1
  <2>4. req[q].arg \in {name'[d] : d \in user'[v].domains}
        => req[q].arg \in HostsOf(user[v].domains) \/ req[q].arg = a
    BY <1>4
  <2>5. req[q].kind = "add" /\ req[q].arg = a => a \in contested'
    BY <1>2, <2>2
  <2> QED BY <1>2, <2>1, <2>3, <2>4, <2>5 DEF Free, StillFree
<1> QED BY <1>5, <1>6 DEF Free

LEMMA SaveRemoveFree ==
  ASSUME Shape, Free, NEW r \in Requests, SaveRemove(r),
         user[req[r].of].ver = req[r].copy.ver
  PROVE  Free'
<1>1. /\ \A v \in Users : /\ user'[v].domains \subseteq user[v].domains
                           /\ user'[v].email = user[v].email /\ user'[v].id = user[v].id
      /\ \A q \in Requests : req'[q].step = "save" => req'[q] = req[q]
      /\ UNCHANGED <<name, contested>>
  BY SaveRemoveSteps DEF history
<1>2. \A v \in Users : HostsOf(user[v].domains)' \subseteq HostsOf(user[v].domains)
  BY <1>1 DEF HostsOf
<1>3. OneOwner'
  <2> SUFFICES ASSUME NEW v \in Users, NEW w \in Users, v # w
               PROVE  /\ HostsOf(user[v].domains)' \cap HostsOf(user[w].domains)' \subseteq contested'
                      /\ user'[v].email = user'[w].email => user'[v].email \in contested' \cup {None}
                      /\ \A p \in Providers : user'[v].id[p] = user'[w].id[p] =>
                            user'[v].id[p] \in contested' \cup {None}
    BY DEF OneOwner
  <2>1. HostsOf(user[v].domains) \cap HostsOf(user[w].domains) \subseteq contested
    BY DEF Free, OneOwner
  <2>2. /\ user[v].email = user[w].email => user[v].email \in contested \cup {None}
        /\ \A p \in Providers : user[v].id[p] = user[w].id[p] =>
              user[v].id[p] \in contested \cup {None}
    BY DEF Free, OneOwner
  <2>3. HostsOf(user[v].domains)' \cap HostsOf(user[w].domains)' \subseteq contested
    BY <1>2, <2>1
  <2> QED BY <1>1, <2>2, <2>3
<1>4. StillFree'
  <2> SUFFICES ASSUME NEW q \in Requests, req'[q].step = "save", NEW v \in Users
               PROVE  LET k == req'[q].kind
                          b == req'[q].arg
                      IN /\ k = "add" /\ b \in HostsOf(user[v].domains)' => b \in contested'
                         /\ k \in {"signup", "connect"} /\ b = user'[v].email => b \in contested'
                         /\ k = "social" /\ user'[v].id[Provider[b]] = b => b \in contested'
    BY DEF StillFree
  <2>1. req'[q] = req[q] /\ req[q].step = "save"
    BY <1>1
  <2> QED BY <1>1, <1>2, <2>1 DEF Free, StillFree
<1> QED BY <1>3, <1>4 DEF Free

\* What a save of a new account, or of a change of who an account is, does to the
\* names: one user gets a name that the store said is free, or that is contested
\* now, and the rivals' name is contested.
LEMMA NamesFree ==
  ASSUME Shape, Free, NEW r \in Requests, NEW u \in Users, NEW a,
         /\ contested \subseteq contested'
         /\ name' = name
         /\ user'[u].domains \in {user[u].domains, {}}
         /\ user'[u].email \in {user[u].email, None, a}
         /\ \A p \in Providers : user'[u].id[p] \in {user[u].id[p], None, a}
         /\ \A v \in Users : v # u => user'[v] = user[v]
         /\ \A q \in Requests : req'[q].step = "save" => q # r /\ req'[q] = req[q],
         /\ \A v \in Users : v # u /\ user[v].email = a /\ user'[u].email = a => a \in contested'
         /\ \A v \in Users : \A p \in Providers :
              v # u /\ user[v].id[p] = a /\ user'[u].id[p] = a => a \in contested'
         /\ \A q \in Requests : q # r /\ req[q].step = "save" /\ req[q].arg = a
                 /\ req[q].kind \in {"signup", "connect", "social"} => a \in contested'
  PROVE  Free'
<1>1. \A v \in Users : HostsOf(user[v].domains)' \subseteq HostsOf(user[v].domains)
  BY DEF HostsOf
<1>2. OneOwner'
  <2>1. ASSUME NEW v \in Users, NEW w \in Users, v # w
        PROVE  HostsOf(user[v].domains)' \cap HostsOf(user[w].domains)' \subseteq contested'
    <3>1. HostsOf(user[v].domains) \cap HostsOf(user[w].domains) \subseteq contested
      BY <2>1 DEF Free, OneOwner
    <3> QED BY <1>1, <3>1
  <2>2. ASSUME NEW v \in Users, v # u
        PROVE  /\ user'[u].email = user'[v].email => user'[u].email \in contested' \cup {None}
               /\ \A p \in Providers : user'[u].id[p] = user'[v].id[p] =>
                     user'[u].id[p] \in contested' \cup {None}
    BY <2>2 DEF Free, OneOwner
  <2>3. ASSUME NEW v \in Users, NEW w \in Users, v # w
        PROVE  /\ user'[v].email = user'[w].email => user'[v].email \in contested' \cup {None}
               /\ \A p \in Providers : user'[v].id[p] = user'[w].id[p] =>
                     user'[v].id[p] \in contested' \cup {None}
    <3>1. CASE v = u
      BY <2>2, <2>3, <3>1
    <3>2. CASE w = u
      BY <2>2, <2>3, <3>2
    <3>3. CASE v # u /\ w # u
      BY <2>3, <3>3 DEF Free, OneOwner
    <3> QED BY <3>1, <3>2, <3>3
  <2> QED BY <2>1, <2>3 DEF OneOwner
<1>3. StillFree'
  <2> SUFFICES ASSUME NEW q \in Requests, req'[q].step = "save", NEW v \in Users
               PROVE  /\ req'[q].kind = "add" /\ req'[q].arg \in HostsOf(user[v].domains)'
                         => req'[q].arg \in contested'
                      /\ req'[q].kind \in {"signup", "connect"} /\ req'[q].arg = user'[v].email
                         => req'[q].arg \in contested'
                      /\ /\ req'[q].kind = "social"
                         /\ user'[v].id[Provider[req'[q].arg]] = req'[q].arg
                         => req'[q].arg \in contested'
    BY DEF StillFree
  <2>1. q # r /\ req'[q] = req[q] /\ req[q].step = "save"
    OBVIOUS
  <2>2. /\ req[q].kind \in {"signup", "connect"} => req[q].arg \in Emails
        /\ req[q].kind = "social" => /\ req[q].arg \in Profiles
                                    /\ Provider[req[q].arg] \in Providers
    BY <2>1 DEF Shape, Kinds, Running
  <2>3. req[q].kind = "add" /\ req[q].arg \in HostsOf(user[v].domains)' => req[q].arg \in contested'
    BY <1>1, <2>1 DEF Free, StillFree
  <2>4. /\ req[q].kind \in {"signup", "connect"} /\ req[q].arg = user[v].email
           => req[q].arg \in contested'
        /\ req[q].kind = "social" /\ user[v].id[Provider[req[q].arg]] = req[q].arg
           => req[q].arg \in contested'
    BY <2>1 DEF Free, StillFree
  <2>5. CASE v = u
    BY <2>1, <2>2, <2>3, <2>4, <2>5
  <2>6. CASE v # u
    BY <2>1, <2>3, <2>4, <2>6
  <2> QED BY <2>5, <2>6
<1> QED BY <1>2, <1>3 DEF Free

LEMMA AccountFree ==
  ASSUME Shape, Free, NEW r \in Requests, SaveNew(r) \/ SaveIdentity(r)
  PROVE  Free'
<1> DEFINE a == req[r].arg
           k == req[r].kind
<1>1. /\ req[r].step = "save" /\ UNCHANGED name
      /\ \A q \in Requests : req'[q].step = "save" => q # r /\ req'[q] = req[q]
  <2>1. Done(r) /\ req[r].step = "save" /\ UNCHANGED name
    BY DEF SaveNew, SaveIdentity
  <2> QED BY <2>1, DoneReq DEF Shape
<1>2. \A q \in Requests \ {r} :
        req[q].step = "save" /\ req[q].kind \in {"signup", "connect", "social"} /\ req[q].arg = a
        => q \in Rivals(r)
  BY DEF Rivals
<1>3. CASE SaveNew(r)
  <2>1. PICK u \in Users :
           /\ user'[u].domains = {}
           /\ IF k = "signup"
              THEN /\ a \in Emails /\ user'[u].email = a
                   /\ \A p \in Providers : user'[u].id[p] = None
              ELSE /\ a \in Profiles /\ user'[u].email = None
                   /\ \A p \in Providers :
                        user'[u].id[p] = IF p = Provider[a] THEN a ELSE None
           /\ \A v \in Users : v # u => user'[v] = user[v]
    BY <1>3, SaveNewSteps
  <2>2. k \in {"signup", "social"} /\ a \in Names /\ Contest(r, {})
    BY <1>1, <1>3 DEF SaveNew, Shape, Kinds, Running, Names
  <2>3. contested \subseteq contested' /\ (Rivals(r) # {} => a \in contested')
    BY <2>2, ContestFacts DEF Shape
  <2>4. /\ \A v \in Users : k = "signup" /\ user[v].email = a => a \in contested
        /\ \A v \in Users : k = "social" /\ user[v].id[Provider[a]] = a => a \in contested
    BY <1>1 DEF Free, StillFree
  <2>5. None # a
    BY <2>2 DEF Names
  <2> HIDE DEF a, k
  <2>6. /\ contested \subseteq contested'
        /\ name' = name
        /\ user'[u].domains \in {user[u].domains, {}}
        /\ user'[u].email \in {user[u].email, None, a}
        /\ \A p \in Providers : user'[u].id[p] \in {user[u].id[p], None, a}
        /\ \A v \in Users : v # u => user'[v] = user[v]
        /\ \A q \in Requests : req'[q].step = "save" => q # r /\ req'[q] = req[q]
    BY <1>1, <2>1, <2>3
  <2>7. /\ \A v \in Users : v # u /\ user[v].email = a /\ user'[u].email = a => a \in contested'
        /\ \A v \in Users : \A p \in Providers :
             v # u /\ user[v].id[p] = a /\ user'[u].id[p] = a => a \in contested'
        /\ \A q \in Requests : q # r /\ req[q].step = "save" /\ req[q].arg = a
                /\ req[q].kind \in {"signup", "connect", "social"} => a \in contested'
    BY <1>2, <2>1, <2>2, <2>3, <2>4, <2>5
  <2> QED BY <2>6, <2>7, NamesFree
<1>4. CASE SaveIdentity(r)
  <2> DEFINE u == req[r].of
  <2>1. /\ u \in Users
        /\ user'[u].domains = user[u].domains
        /\ \/ user'[u].email \in {user[u].email, None}
           \/ k = "connect" /\ a \in Emails /\ user'[u].email = a
        /\ \/ user'[u].id = user[u].id
           \/ /\ k = "link" /\ a \in Profiles
              /\ user'[u].id = [user[u].id EXCEPT ![Provider[a]] = a]
        /\ \A v \in Users : v # u => user'[v] = user[v]
    BY <1>4, SaveIdentitySteps
  <2>2. /\ k = "connect" => a \in Emails
        /\ k = "link" => a \in Profiles /\ Provider[a] \in Providers
    BY <1>1, <2>1 DEF Shape, Kinds, Running
  <2>3. CASE k = "connect"
    <3>1. Contest(r, {}) /\ a \in Names
      BY <1>4, <2>2, <2>3 DEF SaveIdentity, Names
    <3>2. contested \subseteq contested' /\ (Rivals(r) # {} => a \in contested')
      BY <3>1, ContestFacts DEF Shape
    <3>3. \A v \in Users : user[v].email = a => a \in contested
      BY <1>1, <2>3 DEF Free, StillFree
    <3>4. user'[u].id = user[u].id /\ user'[u].email \in {user[u].email, None, a}
      BY <2>1, <2>3
    <3> HIDE DEF a, k, u
    <3>5. /\ contested \subseteq contested'
          /\ name' = name
          /\ user'[u].domains \in {user[u].domains, {}}
          /\ user'[u].email \in {user[u].email, None, a}
          /\ \A p \in Providers : user'[u].id[p] \in {user[u].id[p], None, a}
          /\ \A v \in Users : v # u => user'[v] = user[v]
          /\ \A q \in Requests : req'[q].step = "save" => q # r /\ req'[q] = req[q]
      BY <1>1, <2>1, <3>2, <3>4
    <3>6. \A v \in Users : \A p \in Providers :
            v # u /\ user[v].id[p] = a /\ user'[u].id[p] = a => a \in contested' \cup {None}
      BY <2>1, <3>2, <3>4 DEF Free, OneOwner
    <3>7. None # a
      BY <3>1 DEF Names
    <3>8. /\ \A v \in Users : v # u /\ user[v].email = a /\ user'[u].email = a => a \in contested'
          /\ \A v \in Users : \A p \in Providers :
               v # u /\ user[v].id[p] = a /\ user'[u].id[p] = a => a \in contested'
          /\ \A q \in Requests : q # r /\ req[q].step = "save" /\ req[q].arg = a
                  /\ req[q].kind \in {"signup", "connect", "social"} => a \in contested'
      BY <1>2, <3>2, <3>3, <3>6, <3>7
    <3> QED BY <2>1, <3>5, <3>8, NamesFree
  <2>4. CASE k = "link"
    <3>1. Contest(r, Linked(a) \ {u}) /\ a \in Names
      BY <1>4, <2>2, <2>4 DEF SaveIdentity, Names
    <3>2. contested \subseteq contested' /\ (Rivals(r) \cup (Linked(a) \ {u}) # {} => a \in contested')
      BY <3>1, ContestFacts DEF Shape
    <3>3. user[u].id \in [Providers -> Profiles \cup {None}]
      BY <2>1, TypeFacts DEF Shape, UserDocs
    <3>4. \A p \in Providers : \/ user'[u].id[p] = user[u].id[p]
                               \/ p = Provider[a] /\ user'[u].id[p] = a
      BY <2>1, <2>2, <2>4, <3>3
    <3>5. user'[u].email \in {user[u].email, None}
      BY <2>1, <2>4
    <3>6. ASSUME NEW v \in Users \ {u}, NEW p \in Providers, user[v].id[p] = a, user'[u].id[p] = a
          PROVE  a \in contested' \cup {None}
      <4>1. CASE p = Provider[a]
        <5>1. v \in Linked(a) \ {u}
          BY <3>6, <4>1 DEF Linked
        <5> QED BY <3>2, <5>1
      <4>2. CASE p # Provider[a]
        <5>1. user[u].id[p] = user[v].id[p]
          BY <3>4, <3>6, <4>2
        <5> QED BY <2>1, <3>2, <3>6, <5>1 DEF Free, OneOwner
      <4> QED BY <4>1, <4>2
    <3> HIDE DEF a, k, u
    <3>7. /\ contested \subseteq contested'
          /\ name' = name
          /\ user'[u].domains \in {user[u].domains, {}}
          /\ user'[u].email \in {user[u].email, None, a}
          /\ \A p \in Providers : user'[u].id[p] \in {user[u].id[p], None, a}
          /\ \A v \in Users : v # u => user'[v] = user[v]
          /\ \A q \in Requests : req'[q].step = "save" => q # r /\ req'[q] = req[q]
      BY <1>1, <2>1, <3>2, <3>4, <3>5
    <3>8. None # a
      BY <3>1 DEF Names
    <3>9. \A v \in Users : v # u /\ user[v].email = a /\ user'[u].email = a => a \in contested'
      BY <2>1, <3>2, <3>5, <3>8 DEF Free, OneOwner
    <3>10. /\ \A v \in Users : v # u /\ user[v].email = a /\ user'[u].email = a => a \in contested'
           /\ \A v \in Users : \A p \in Providers :
                v # u /\ user[v].id[p] = a /\ user'[u].id[p] = a => a \in contested'
           /\ \A q \in Requests : q # r /\ req[q].step = "save" /\ req[q].arg = a
                   /\ req[q].kind \in {"signup", "connect", "social"} => a \in contested'
      BY <1>2, <3>2, <3>6, <3>8, <3>9
    <3> QED BY <2>1, <3>7, <3>10, NamesFree
  <2>5. CASE k \notin {"connect", "link"}
    <3>1. contested' = contested
      BY <1>4, <2>5 DEF SaveIdentity
    <3>2. user'[u].id = user[u].id /\ user'[u].email \in {user[u].email, None}
      BY <2>1, <2>5
    <3>3. \A v \in Users : user'[v].domains = user[v].domains /\ user'[v].id = user[v].id
                           /\ user'[v].email \in {user[v].email, None}
      BY <2>1, <3>2
    <3>4. OneOwner'
      BY <1>1, <3>1, <3>3 DEF Free, OneOwner, HostsOf
    <3>5. StillFree'
      <4>1. \A q \in Requests : req[q].step = "save" /\ req[q].kind \in {"signup", "connect"}
                                => req[q].arg # None
        BY DEF Shape, Kinds, Running
      <4> QED BY <1>1, <3>1, <3>3, <4>1 DEF Free, StillFree, HostsOf
    <3> QED BY <3>4, <3>5 DEF Free
  <2> QED BY <2>3, <2>4, <2>5
<1> QED BY <1>3, <1>4

LEMMA StepFree == Shape /\ Free /\ [Next]_vars => Free'
<1> SUFFICES ASSUME Shape, Free, [Next]_vars PROVE Free'
  OBVIOUS
<1>1. ASSUME NEW r \in Requests, NEW u \in Users \cup {None}, NEW kind, NEW arg, NEW step,
             Begins(r, kind, u, arg, step)
      PROVE  Free'
  <2> TypeOK
    BY DEF Shape
  <2>1. req'[r] = [step |-> step, kind |-> kind, arg |-> arg, of |-> u,
                   copy |-> IF u = None THEN NoUser ELSE user[u],
                   alone |-> u # None /\ Active(u) = {}]
    BY <1>1, BeginReq
  <2>2. \A q \in Requests : q # r =>
              /\ req'[q].step = req[q].step /\ req'[q].kind = req[q].kind
              /\ req'[q].arg = req[q].arg /\ req'[q].of = req[q].of
              /\ req'[q].copy = req[q].copy
              /\ req'[q].alone => req[q].alone /\ q \notin Active(u)
    BY <1>1, BeginReq
  <2>3. /\ UNCHANGED <<user, name, contested>>
        /\ step = "save" => kind \notin {"add", "signup", "connect", "social"}
    BY <1>1 DEF Begins, Quiet
  <2> QED BY <2>1, <2>2, <2>3, KeepFree
<1>2. ASSUME NEW r \in Requests, Answers(r) \/ Mirror(r) PROVE Free'
  <2>1. Done(r) /\ UNCHANGED <<user, name, contested>>
    BY <1>2 DEF Answers, Mirror, Quiet
  <2>2. \A q \in Requests : req'[q].step = "save" => req'[q] = req[q]
    BY <2>1, DoneReq DEF Shape
  <2> QED BY <2>1, <2>2, KeepFree
<1>3. CASE Quiet /\ req' = req
  BY <1>3, KeepFree DEF Quiet
<1>4. CASE Crash
  <2>1. \A r \in Requests : req'[r].step # "save"
    BY <1>4, Constants DEF Crash
  <2> QED BY <1>4, <2>1, KeepFree DEF Crash
<1> HIDE DEF Free, Shape
<1>5. \A r \in Requests :
        /\ Proceeds(r) \/ SaveAdd(r) \/ SaveNew(r) \/ SaveIdentity(r) => Free'
        /\ SaveRemove(r) /\ user[req[r].of].ver = req[r].copy.ver => Free'
  BY ProceedsFree, SaveAddFree, SaveRemoveFree, AccountFree
<1> QED BY <1>1, <1>2, <1>3, <1>4, <1>5, StepKinds

-----------------------------------------------------------------------------
(* The hash of the proxy is the domains.                                   *)

Hash == AloneIsCurrent /\ Mirrored

LEMMA InitHash == Init => Hash
<1> SUFFICES ASSUME Init PROVE Hash
  OBVIOUS
<1>1. TypeOK
  BY InitShape DEF Shape
<1>2. \A u \in Users : user[u].domains = {} /\ user[u].email \in Emails \cup {None}
  <2>1. PICK m \in Members :
          user = [u \in Users |-> [NoUser EXCEPT !.saved = m[u] # None, !.email = m[u]]]
    BY DEF Init
  <2>2. ASSUME NEW u \in Users PROVE user[u].domains = {}
    <3>1. user[u] = [NoUser EXCEPT !.saved = m[u] # None, !.email = m[u]] /\ NoUser \in UserDocs
      BY <2>1, Constants
    <3> HIDE DEF NoUser
    <3> QED BY <3>1, Constants DEF UserDocs
  <2> QED BY <1>1, <2>2, TypeFacts DEF UserDocs
<1>3. Mirrored
  <2>1. HostsOf({}) = {}
    BY DEF HostsOf
  <2> QED BY <1>2, <2>1 DEF Init, Mirrored
<1>4. AloneIsCurrent
  BY Constants DEF Init, AloneIsCurrent, Running
<1> QED BY <1>3, <1>4 DEF Hash

\* Steps that change no document and do not touch the hash.
LEMMA KeepHash ==
  ASSUME Hash,
         UNCHANGED <<user, users, name, stale>>,
         \A q \in Requests :
            \/ /\ req'[q].step = req[q].step \/ {req'[q].step, req[q].step} = {"check", "save"}
               /\ req'[q].of = req[q].of /\ req'[q].copy = req[q].copy
               /\ req'[q].alone = req[q].alone
            \/ req[q].step # "mirror" /\ ~Running(q)'
  PROVE  Hash'
<1>1. \A q \in Requests :
         /\ Running(q)' => Running(q) /\ UNCHANGED <<req[q].of, req[q].copy, req[q].alone>>
         /\ req[q].step = "mirror" => req'[q].step = "mirror" /\ req'[q].of = req[q].of
  BY DEF Running
<1>2. \A u : Active(u)' \subseteq Active(u) /\ \A q \in Active(u) : Running(q)' => q \in Active(u)'
  BY <1>1 DEF Active, Running
<1>3. AloneIsCurrent'
  BY <1>1, <1>2 DEF Hash, AloneIsCurrent, Active, Running
<1>4. Mirrored'
  <2>1. ASSUME NEW u \in Users, \A q \in Active(u)' : req'[q].step # "mirror"
        PROVE  \A q \in Active(u) : req[q].step # "mirror"
    BY <1>1, <1>2, <2>1 DEF Active, Running
  <2> QED BY <2>1 DEF Hash, Mirrored, HostsOf
<1> QED BY <1>3, <1>4 DEF Hash

LEMMA BeginsHash ==
  ASSUME Shape, Hash, NEW r \in Requests, NEW u \in Users \cup {None}, NEW kind, NEW arg,
         NEW step, Begins(r, kind, u, arg, step)
  PROVE  Hash'
<1> TypeOK
  BY DEF Shape
<1>1. req'[r] = [step |-> step, kind |-> kind, arg |-> arg, of |-> u,
                 copy |-> IF u = None THEN NoUser ELSE user[u],
                 alone |-> u # None /\ Active(u) = {}]
  BY BeginReq
<1>2. \A q \in Requests : q # r =>
              /\ req'[q].step = req[q].step /\ req'[q].kind = req[q].kind
              /\ req'[q].arg = req[q].arg /\ req'[q].of = req[q].of
              /\ req'[q].copy = req[q].copy
              /\ req'[q].alone => req[q].alone /\ q \notin Active(u)
  BY BeginReq
<1>3. /\ UNCHANGED <<user, users, name, stale>> /\ step \in {"check", "save"}
      /\ req[r].step = "new" \/ (req[r].step = "check" /\ req[r].of = None)
  BY DEF Begins, Quiet
<1>4. None \notin Users
  OBVIOUS
<1>5. \A v \in Users : /\ r \notin Active(v)
                       /\ Active(v)' = IF v = u THEN Active(v) \cup {r} ELSE Active(v)
  <2>1. \A q \in Requests : \A v \in Users : q # r => (q \in Active(v)' <=> q \in Active(v))
    BY <1>2 DEF Active
  <2>2. \A v \in Users : r \notin Active(v) /\ (r \in Active(v)' <=> v = u)
    BY <1>1, <1>3, <1>4 DEF Active
  <2>3. \A v \in Users : Active(v) \subseteq Requests /\ Active(v)' \subseteq Requests
    BY DEF Active
  <2> QED BY <2>1, <2>2, <2>3
<1>6. AloneIsCurrent'
  <2> SUFFICES ASSUME NEW q \in Requests, Running(q)', req'[q].alone
               PROVE  /\ req'[q].of \in Users /\ Active(req[q].of)' = {q}
                      /\ req'[q].copy.email = user[req'[q].of].email
                      /\ req'[q].copy.domains = user[req'[q].of].domains
    BY <1>3 DEF AloneIsCurrent
  <2>1. CASE q = r
    <3>1. u \in Users /\ Active(u) = {}
      <4>1. req'[r].alone = (u # None /\ Active(u) = {})
        BY <1>1
      <4>2. u # None /\ Active(u) = {}
        BY <2>1, <4>1, Zenon
      <4> QED BY <4>2
    <3>2. req'[q].of = u /\ req'[q].copy = user[u]
      BY <1>1, <1>4, <2>1, <3>1
    <3> QED BY <1>5, <2>1, <3>1, <3>2
  <2>2. CASE q # r
    <3>1. /\ req[q].alone /\ Running(q) /\ q \notin Active(u)
          /\ req'[q].of = req[q].of /\ req'[q].copy = req[q].copy
      BY <1>2, <2>2 DEF Running
    <3>2. req[q].of # u
      BY <3>1 DEF Active, Running
    <3>3. /\ req[q].of \in Users /\ Active(req[q].of) = {q}
          /\ req[q].copy.email = user[req[q].of].email
          /\ req[q].copy.domains = user[req[q].of].domains
      BY <3>1 DEF Hash, AloneIsCurrent
    <3> QED BY <1>5, <3>1, <3>2, <3>3
  <2> QED BY <2>1, <2>2
<1>7. Mirrored'
  <2>1. ASSUME NEW v \in Users, \A q \in Active(v)' : req'[q].step # "mirror"
        PROVE  \A q \in Active(v) : req[q].step # "mirror"
    BY <1>2, <1>5, <2>1 DEF Active
  <2> QED BY <1>3, <2>1 DEF Hash, Mirrored, HostsOf
<1> QED BY <1>6, <1>7 DEF Hash

\* A save of domains: the request that made it has the same in its copy, and the
\* write to redis to come.
LEMMA DomainHash ==
  ASSUME Shape, Hash, NEW r \in Requests,
         SaveAdd(r) \/ (SaveRemove(r) /\ user[req[r].of].ver = req[r].copy.ver)
  PROVE  Hash'
<1> DEFINE u == req[r].of
<1>1. /\ u \in Users /\ req[r].step = "save"
      /\ user'[u].email = user[u].email
      /\ req[r].copy.domains = user[u].domains => req'[r].copy.domains = user'[u].domains
      /\ req'[r].copy.email = req[r].copy.email
      /\ \A v \in Users : v # u => user'[v] = user[v]
      /\ req'[r].step = "mirror" /\ req'[r].of = u /\ req'[r].alone = req[r].alone
      /\ \A q \in Requests : q # r => req'[q] = req[q]
      /\ UNCHANGED <<users, stale>>
  <2>1. CASE SaveAdd(r)
    <3>1. req[r].step = "save"
      BY <2>1 DEF SaveAdd
    <3>2. /\ user'[u].domains = user[u].domains \cup {r}
          /\ req'[r].copy.domains = req[r].copy.domains \cup {r}
      BY <2>1, SaveAddSteps
    <3>3. /\ u \in Users /\ user'[u].email = user[u].email
          /\ req'[r].copy.email = req[r].copy.email
          /\ \A v \in Users : v # u => user'[v] = user[v]
          /\ req'[r].step = "mirror" /\ req'[r].of = u /\ req'[r].alone = req[r].alone
          /\ \A q \in Requests : q # r => req'[q] = req[q]
          /\ UNCHANGED <<users, stale>>
      BY <2>1, SaveAddSteps
    <3> QED BY <3>1, <3>2, <3>3
  <2>2. CASE SaveRemove(r) /\ user[req[r].of].ver = req[r].copy.ver
    <3>1. req[r].step = "save" /\ UNCHANGED stale
      BY <2>2 DEF SaveRemove, history
    <3>2. /\ user'[u].domains = user[u].domains \ {req[r].arg}
          /\ req'[r].copy.domains = req[r].copy.domains \ {req[r].arg}
      BY <2>2, SaveRemoveSteps
    <3>3. /\ u \in Users /\ user'[u].email = user[u].email
          /\ req'[r].copy.email = req[r].copy.email
          /\ \A v \in Users : v # u => user'[v] = user[v]
          /\ req'[r].step = "mirror" /\ req'[r].of = u /\ req'[r].alone = req[r].alone
          /\ \A q \in Requests : q # r => req'[q] = req[q]
          /\ UNCHANGED users
      BY <2>2, SaveRemoveSteps
    <3> QED BY <3>1, <3>2, <3>3
  <2> QED BY <2>1, <2>2
<1>2. \A v \in Users : \A d \in user[v].domains : name'[d] = name[d]
  <2>1. CASE SaveAdd(r)
    <3>1. name[r] = None /\ name' = [name EXCEPT ![r] = req[r].arg]
      BY <2>1, SaveAddSteps
    <3> QED BY <3>1, TypeFacts DEF Shape, Named, TypeOK, UserDocs
  <2>2. CASE SaveRemove(r)
    BY <2>2 DEF SaveRemove
  <2> QED BY <2>1, <2>2
<1> HIDE DEF u
<1>3. r \in Active(u)
  BY <1>1 DEF Active, u
<1>4. \A v \in Users : Active(v)' = Active(v)
  <2>1. \A v \in Users : \A q \in Requests : q \in Active(v)' <=> q \in Active(v)
    BY <1>1 DEF Active, u
  <2>2. \A v \in Users : Active(v) \subseteq Requests /\ Active(v)' \subseteq Requests
    BY DEF Active
  <2> QED BY <2>1, <2>2
<1>5. AloneIsCurrent'
  <2> SUFFICES ASSUME NEW q \in Requests, Running(q)', req'[q].alone
               PROVE  /\ req'[q].of \in Users /\ Active(req[q].of)' = {q}
                      /\ req'[q].copy.email = user'[req'[q].of].email
                      /\ req'[q].copy.domains = user'[req'[q].of].domains
    BY DEF AloneIsCurrent
  <2>0. /\ req[q].alone /\ Running(q) /\ req'[q].of = req[q].of
        /\ req'[q].copy.email = req[q].copy.email
    BY <1>1 DEF Running, u
  <2>1. /\ req[q].of \in Users /\ Active(req[q].of) = {q}
        /\ req[q].copy.email = user[req[q].of].email
        /\ req[q].copy.domains = user[req[q].of].domains
    BY <2>0 DEF Hash, AloneIsCurrent
  <2>2. Active(req[q].of)' = {q}
    <3>1. req[q].of = u => q = r
      BY <1>3, <2>1
    <3>2. \A v \in Users : v = req[q].of => Active(v)' = {q}
      BY <1>4, <2>1
    <3> QED BY <2>0, <2>1, <3>2
  <2>3. CASE q = r
    BY <1>1, <2>0, <2>1, <2>2, <2>3 DEF u
  <2>4. CASE q # r
    <3>1. req[q].of # u
      BY <1>3, <2>1, <2>4
    <3> QED BY <1>1, <2>0, <2>1, <2>2, <2>4, <3>1
  <2> QED BY <2>3, <2>4
<1>6. Mirrored'
  <2> SUFFICES ASSUME NEW v \in Users, user'[v].email # None, v \notin stale,
                      \A q \in Active(v)' : req'[q].step # "mirror"
               PROVE  users[user'[v].email] = {name'[d] : d \in user'[v].domains}
    BY <1>1 DEF Mirrored, HostsOf
  <2>1. v # u
    BY <1>1, <1>3, <1>4
  <2>2. \A q \in Active(v) : req[q].step # "mirror"
    BY <1>1, <1>4, <2>1 DEF Active, u
  <2>3. users[user[v].email] = HostsOf(user[v].domains)
    BY <1>1, <2>1, <2>2 DEF Hash, Mirrored
  <2> QED BY <1>1, <1>2, <2>1, <2>3 DEF HostsOf
<1> QED BY <1>5, <1>6 DEF Hash

LEMMA AccountHash ==
  ASSUME Shape, Hash, NEW r \in Requests, SaveNew(r) \/ SaveIdentity(r)
  PROVE  Hash'
<1>1. /\ req[r].step = "save" /\ req'[r].step = "done"
      /\ \A q \in Requests : q # r => req'[q] = req[q]
      /\ UNCHANGED <<users, name>>
  <2>1. Done(r) /\ req[r].step = "save" /\ UNCHANGED <<users, name>>
    BY DEF SaveNew, SaveIdentity
  <2> QED BY <2>1, DoneReq DEF Shape
<1>2. \E u \in Users :
        /\ \A v \in Users : v # u => user'[v] = user[v]
        /\ \A q \in Requests : Running(q) /\ req[q].alone /\ req[q].of = u => q = r
        /\ stale \subseteq stale'
        /\ u \in stale' \/ (user'[u].email = user[u].email /\ user'[u].domains = user[u].domains)
  <2>1. CASE SaveNew(r)
    <3>1. PICK u \in Users :
            /\ ~user[u].saved
            /\ \A v \in Users : v # u => user'[v] = user[v]
            /\ stale' = stale \cup {u}
      BY <2>1, SaveNewSteps
    <3>2. \A q \in Requests : Running(q) => req[q].of # u
      BY <3>1 DEF Shape, Unsaved
    <3>3. stale \subseteq stale' /\ u \in stale'
      BY <3>1
    <3>4. \A q \in Requests : Running(q) /\ req[q].alone /\ req[q].of = u => q = r
      BY <3>2, Zenon
    <3> QED BY <3>1, <3>3, <3>4
  <2>2. CASE SaveIdentity(r)
    <3> DEFINE u == req[r].of
    <3>1. /\ u \in Users
          /\ user'[u].domains = user[u].domains
          /\ \A v \in Users : v # u => user'[v] = user[v]
      BY <2>2, SaveIdentitySteps
    <3>2. (user'[u].email = user[u].email /\ stale' = stale) \/ stale' = stale \cup {u}
      BY <2>2, SaveIdentitySteps
    <3>3. r \in Active(u)
      BY <1>1 DEF Active
    <3>4. \A q \in Requests : Running(q) /\ req[q].alone /\ req[q].of = u => q = r
      BY <3>3 DEF Hash, AloneIsCurrent
    <3> QED BY <3>1, <3>2, <3>4
  <2> QED BY <2>1, <2>2
<1>3. PICK u \in Users :
        /\ \A v \in Users : v # u => user'[v] = user[v]
        /\ \A q \in Requests : Running(q) /\ req[q].alone /\ req[q].of = u => q = r
        /\ stale \subseteq stale'
        /\ u \in stale' \/ (user'[u].email = user[u].email /\ user'[u].domains = user[u].domains)
  BY <1>2
<1>4. \A v : Active(v)' = Active(v) \ {r}
  <2>1. \A v : \A q \in Requests : q \in Active(v)' <=> q \in Active(v) /\ q # r
    BY <1>1 DEF Active
  <2>2. \A v : Active(v) \subseteq Requests /\ Active(v)' \subseteq Requests
    BY DEF Active
  <2> QED BY <2>1, <2>2
<1>5. AloneIsCurrent'
  <2> SUFFICES ASSUME NEW q \in Requests, Running(q)', req'[q].alone
               PROVE  /\ req'[q].of \in Users /\ Active(req[q].of)' = {q}
                      /\ req'[q].copy.email = user'[req'[q].of].email
                      /\ req'[q].copy.domains = user'[req'[q].of].domains
    BY DEF AloneIsCurrent
  <2>1. q # r /\ req'[q] = req[q] /\ Running(q)
    BY <1>1 DEF Running
  <2>2. /\ req[q].of \in Users /\ Active(req[q].of) = {q}
        /\ req[q].copy.email = user[req[q].of].email
        /\ req[q].copy.domains = user[req[q].of].domains
    BY <2>1 DEF Hash, AloneIsCurrent
  <2>3. req[q].of # u
    BY <1>3, <2>1
  <2>4. Active(req[q].of)' = {q}
    <3>1. \A v : v = req[q].of => Active(v)' = {q}
      BY <1>4, <2>1, <2>2
    <3> QED BY <2>1, <3>1
  <2> QED BY <1>3, <2>1, <2>2, <2>3, <2>4
<1>6. Mirrored'
  <2> SUFFICES ASSUME NEW v \in Users, user'[v].email # None, v \notin stale',
                      \A q \in Active(v)' : req'[q].step # "mirror"
               PROVE  users[user'[v].email] = HostsOf(user[v].domains)'
    BY <1>1 DEF Mirrored
  <2>1. user'[v].email = user[v].email /\ user'[v].domains = user[v].domains /\ v \notin stale
    BY <1>3
  <2>2. \A q \in Active(v) : req[q].step # "mirror"
    BY <1>1, <1>4 DEF Active
  <2>3. users[user[v].email] = HostsOf(user[v].domains)
    BY <2>1, <2>2 DEF Hash, Mirrored
  <2>4. HostsOf(user[v].domains)' = HostsOf(user[v].domains)
    BY <1>1, <2>1 DEF HostsOf
  <2> QED BY <1>1, <2>1, <2>3, <2>4
<1> QED BY <1>5, <1>6 DEF Hash

LEMMA MirrorHash ==
  ASSUME Shape, Hash, NEW r \in Requests, Mirror(r)
  PROVE  Hash'
<1> DEFINE u == req[r].of
           e == req[r].copy.email
<1>1. /\ req[r].step = "mirror" /\ req'[r].step = "done"
      /\ \A q \in Requests : q # r => req'[q] = req[q]
      /\ UNCHANGED <<user, name>>
      /\ u \in Users
  <2>1. Done(r) /\ req[r].step = "mirror" /\ UNCHANGED <<user, name>>
    BY DEF Mirror
  <2>2. u \in Users
    BY <2>1 DEF Shape, Kinds, Running
  <2> QED BY <2>1, <2>2, DoneReq DEF Shape
<1>2. \A v : Active(v)' = Active(v) \ {r}
  <2>1. \A v : \A q \in Requests : q \in Active(v)' <=> q \in Active(v) /\ q # r
    BY <1>1 DEF Active
  <2>2. \A v : Active(v) \subseteq Requests /\ Active(v)' \subseteq Requests
    BY DEF Active
  <2> QED BY <2>1, <2>2
<1>3. r \in Active(u)
  BY <1>1 DEF Active
<1>4. AloneIsCurrent'
  <2> SUFFICES ASSUME NEW q \in Requests, Running(q)', req'[q].alone
               PROVE  /\ req'[q].of \in Users /\ Active(req[q].of)' = {q}
                      /\ req'[q].copy.email = user'[req'[q].of].email
                      /\ req'[q].copy.domains = user'[req'[q].of].domains
    BY DEF AloneIsCurrent
  <2>1. q # r /\ req'[q] = req[q] /\ Running(q)
    BY <1>1 DEF Running
  <2>2. /\ req[q].of \in Users /\ Active(req[q].of) = {q}
        /\ req[q].copy.email = user[req[q].of].email
        /\ req[q].copy.domains = user[req[q].of].domains
    BY <2>1 DEF Hash, AloneIsCurrent
  <2>3. Active(req[q].of)' = {q}
    <3>1. \A v : v = req[q].of => Active(v)' = {q}
      BY <1>2, <2>1, <2>2
    <3> QED BY <2>1, <3>1
  <2> QED BY <1>1, <2>1, <2>2, <2>3
<1>5. Mirrored'
  <2> SUFFICES ASSUME NEW v \in Users, user[v].email # None, v \notin stale',
                      \A q \in Active(v)' : req'[q].step # "mirror"
               PROVE  users'[user[v].email] = HostsOf(user[v].domains)
    BY <1>1 DEF Mirrored, HostsOf
  <2>1. v # u => \A q \in Active(v) : req[q].step # "mirror"
    <3>1. v # u => r \notin Active(v)
      BY DEF Active
    <3> QED BY <1>1, <1>2, <3>1 DEF Active
  <2>2. v # u /\ v \notin stale => users[user[v].email] = HostsOf(user[v].domains)
    BY <2>1 DEF Hash, Mirrored
  <2>3. CASE /\ e # None
             /\ users' = [users EXCEPT ![e] = HostsOf(req[r].copy.domains)]
             /\ stale' = (IF req[r].alone THEN stale \ {u} ELSE stale \cup {u})
                         \cup {w \in Users : user[w].email = e /\ w # u}
    <3>1. e \in Emails /\ users \in [Emails -> SUBSET Hosts]
      BY <2>3, TypeFacts DEF Shape, TypeOK, ReqRecords, UserDocs
    <3>2. user[v].email \in Emails
      BY TypeFacts DEF Shape, UserDocs
    <3>3. CASE v = u
      <4>1. req[r].alone /\ Running(r)
        BY <1>1, <2>3, <3>3 DEF Running
      <4>2. e = user[u].email /\ req[r].copy.domains = user[u].domains
        BY <4>1 DEF Hash, AloneIsCurrent
      <4> HIDE DEF u, e
      <4> QED BY <2>3, <3>1, <3>3, <4>2
    <3>4. CASE v # u
      <4>1. user[v].email # e /\ v \notin stale
        BY <2>3, <3>4
      <4> QED BY <2>2, <2>3, <3>1, <3>2, <3>4, <4>1
    <3> QED BY <3>3, <3>4
  <2>4. CASE UNCHANGED users /\ stale' = stale \cup {u}
    BY <2>2, <2>4
  <2> QED BY <2>3, <2>4 DEF Mirror
<1> QED BY <1>4, <1>5 DEF Hash

LEMMA CrashHash ==
  ASSUME Shape, Hash, Crash
  PROVE  Hash'
<1>1. /\ stale' = stale \cup {req[r].of : r \in {q \in Requests : req[q].step = "mirror"}}
      /\ req' = [r \in Requests |-> IF req[r].step = "new" THEN NoReq
                                    ELSE [NoReq EXCEPT !.step = "done"]]
      /\ UNCHANGED <<user, users, name>>
  BY DEF Crash
<1>2. \A r \in Requests : ~Running(r)'
  BY <1>1, Constants DEF Running
<1>3. AloneIsCurrent'
  BY <1>2 DEF AloneIsCurrent
<1>4. Mirrored'
  <2> SUFFICES ASSUME NEW v \in Users, user[v].email # None, v \notin stale'
               PROVE  users[user[v].email] = HostsOf(user[v].domains)
    <3>1. \A v \in Users : HostsOf(user[v].domains)' = HostsOf(user[v].domains)
      BY <1>1 DEF HostsOf
    <3> QED BY <1>1, <3>1 DEF Mirrored
  <2>1. v \notin stale /\ \A q \in Active(v) : req[q].step # "mirror"
    BY <1>1 DEF Active
  <2> QED BY <2>1 DEF Hash, Mirrored
<1> QED BY <1>3, <1>4 DEF Hash

LEMMA StepHash == Shape /\ Hash /\ [Next]_vars => Hash'
<1> SUFFICES ASSUME Shape, Hash, [Next]_vars PROVE Hash'
  OBVIOUS
<1>1. ASSUME NEW r \in Requests, Answers(r) PROVE Hash'
  <2>1. /\ UNCHANGED <<user, users, name, stale>> /\ req[r].step # "mirror"
        /\ req'[r].step = "done" /\ \A q \in Requests : q # r => req'[q] = req[q]
    BY <1>1, DoneReq DEF Answers, Quiet, Shape
  <2> QED BY <2>1, KeepHash DEF Running
<1>2. ASSUME NEW r \in Requests, Proceeds(r) PROVE Hash'
  <2>1. /\ UNCHANGED <<user, users, name, stale>> /\ req[r].step = "check"
        /\ req'[r].step = "save" /\ req'[r].of = req[r].of /\ req'[r].copy = req[r].copy
        /\ req'[r].alone = req[r].alone
        /\ \A q \in Requests : q # r => req'[q] = req[q]
    BY <1>2, SaveReq DEF Proceeds, Quiet, Shape
  <2> QED BY <2>1, KeepHash
<1>3. CASE Quiet /\ req' = req
  BY <1>3, KeepHash DEF Quiet
<1>4. \A r \in Requests :
        /\ SaveAdd(r) \/ SaveNew(r) \/ SaveIdentity(r) \/ Mirror(r) => Hash'
        /\ SaveRemove(r) /\ user[req[r].of].ver = req[r].copy.ver => Hash'
  BY DomainHash, AccountHash, MirrorHash
<1> HIDE DEF Hash, Shape
<1> QED BY <1>1, <1>2, <1>3, <1>4, StepKinds, BeginsHash, CrashHash

-----------------------------------------------------------------------------
(* The theorems.                                                           *)

\* The inductive invariant holds in every state of the front end and its stores.
THEOREM Invariance == Spec => []IInv
<1>1. Init => IInv
  BY InitShape, InitFree, InitHash DEF IInv, Shape, Free, Hash
<1>2. IInv /\ [Next]_vars => IInv'
  BY StepShape, StepFree, StepHash DEF IInv, Shape, Free, Hash
<1> QED BY <1>1, <1>2, PTL DEF Spec

\* Every variable keeps its type.
THEOREM TypeCorrect == Spec => []TypeOK
BY Invariance, PTL DEF IInv

\* A domain, an email and a profile have one owner, but for those that two requests
\* asked for at once or that were linked twice.
THEOREM NamesHaveOneOwner == Spec => []OneOwner
BY Invariance, PTL DEF IInv

\* The hash by which the proxy lets the devices in is a user's domains, when no
\* request of the user runs and none of the named accidents made it stale.
THEOREM HashIsExact == Spec => []MirrorExact
<1>1. IInv => MirrorExact
  BY DEF IInv, Mirrored, MirrorExact
<1> QED BY <1>1, Invariance, PTL
=============================================================================
