------------------------------ MODULE MCApproval ------------------------------
(* Small instances of Approval: the values of its constants for TLC.        *)
EXTENDS Approval, TLC

CONSTANTS u1, u2, u3, r1, s1, s2

MCUsers == {u1, u2, u3}
MCTwoUsers == {u1, u2}
MCPreparers == {u2, NoUser}
MCTwoLevels == {{1, 2}}
MCOneLevel == {{}}

\* Sessions are interchangeable.
SymmetrySessions == Permutations({s1, s2})
===============================================================================
