------------------------------ MODULE MCPosting ------------------------------
(* Small instances of Posting: the values of its constants for TLC.         *)
EXTENDS Posting, TLC

CONSTANTS d1, s1, s2, q1, q2, u1, u2, k1

Leg(dir, amount) == [dir |-> dir, amount |-> amount, currency |-> NoCurrency]
MCOpenings == {<<Leg("debit", 1), Leg("credit", 1)>>}

Symmetry == Permutations({s1, s2}) \cup Permutations({q1, q2})
===============================================================================
