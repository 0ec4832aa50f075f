----------------------------- MODULE MCAccounts -----------------------------
(* Two accounts, one of which may not exist yet, and three requests. *)
EXTENDS Accounts, TLC

CONSTANTS u1, u2, e1, e2, g1, g2, g3, g4

MCMembers == {u1 :> e1 @@ u2 :> e2, u1 :> e1 @@ u2 :> None}
MCProvider == g1 :> "facebook" @@ g2 :> "twitter" @@ g3 :> "google" @@ g4 :> "facebook"
MCSymmetry == Permutations(Requests) \cup Permutations(Hosts)
=============================================================================
