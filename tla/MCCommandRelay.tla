--------------------------- MODULE MCCommandRelay ---------------------------
(* Two pages of one account, on two hosts, and a page of another account. *)
EXTENDS CommandRelay, TLC

CONSTANTS r1, r2, r3, a1, a2, h1, h2

MCAccount == r1 :> a1 @@ r2 :> a1 @@ r3 :> a2
MCHost == r1 :> h1 @@ r2 :> h2 @@ r3 :> h1
=============================================================================
