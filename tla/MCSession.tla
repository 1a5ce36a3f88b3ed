------------------------------- MODULE MCSession -------------------------------
(* A small instance of Session for TLC.                                     *)
EXTENDS Session, TLC

CONSTANTS s1, s2, l1, l2, c1, c2

Symmetry == Permutations({l1, l2}) \cup Permutations({c1, c2}) \cup Permutations({s1, s2})
===============================================================================
