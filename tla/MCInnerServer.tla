---------------------------- MODULE MCInnerServer ----------------------------
(* Small instances of InnerServer for TLC. *)
EXTENDS InnerServer, TLC

ConnsSymmetry == Permutations(Conns)
=============================================================================
