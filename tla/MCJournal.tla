------------------------------ MODULE MCJournal ------------------------------
(* Small instances of Journal: the values of its constants for TLC.         *)
EXTENDS Journal, TLC

CONSTANTS d1, s1, s2

Pair(amount, currency) ==
  <<[dir |-> "debit", amount |-> amount, currency |-> currency],
    [dir |-> "credit", amount |-> amount, currency |-> currency]>>
MCOpenings == {Pair(2, NoCurrency)}

SymmetrySessions == Permutations({s1, s2})
===============================================================================
