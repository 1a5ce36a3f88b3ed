-------------------------------- MODULE MCRelay --------------------------------
(* A small instance of Relay for TLC.                                       *)
EXTENDS Relay, TLC

CONSTANTS e1, e2, v1, p1, p2, d1, d2

Symmetry == Permutations({p1, p2}) \cup Permutations({d1, d2})
===============================================================================
