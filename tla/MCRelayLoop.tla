---------------------------- MODULE MCRelayLoop ----------------------------
(* Small instances of RelayLoop for TLC.                                   *)
EXTENDS RelayLoop, TLC

CONSTANTS b1

\* b1 keeps its connection and asks twice; the others ask once.
MCMaxAsks == [b \in Browsers |-> IF b = b1 THEN 2 ELSE 1]
=============================================================================
