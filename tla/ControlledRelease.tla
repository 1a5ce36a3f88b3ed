--------------------------- MODULE ControlledRelease ---------------------------
(***************************************************************************)
(* What m22-approval promises the modules that gate on it: a controlled    *)
(* action is released at most once, for good, and only by people other     *)
(* than those who made or prepared it, the last of whom completes a quorum *)
(* of distinct endorsers or overrides it on their own authority.           *)
(* Versions, transactions, returns, escalations and delegations are the    *)
(* business of the implementation.                                         *)
(***************************************************************************)
EXTENDS Integers, FiniteSets

CONSTANTS Users, Requests, NoUser

VARIABLES
  stage,      \* "absent", "open", or how the request ended
  quorum,     \* how many distinct endorsers release it
  barred,     \* who may never endorse it: its maker and its preparer
  endorsers,  \* who has endorsed it so far
  overridden, \* whether somebody released it on their own authority
  releaser    \* who released it, or NoUser

vars == <<stage, quorum, barred, endorsers, overridden, releaser>>

Init ==
  /\ stage = [r \in Requests |-> "absent"]
  /\ quorum = [r \in Requests |-> 1]
  /\ barred = [r \in Requests |-> {}]
  /\ endorsers = [r \in Requests |-> {}]
  /\ overridden = [r \in Requests |-> FALSE]
  /\ releaser = [r \in Requests |-> NoUser]

Open(r) ==
  /\ stage[r] = "absent"
  /\ stage' = [stage EXCEPT ![r] = "open"]
  /\ quorum'[r] \in Nat \ {0} /\ quorum' = [quorum EXCEPT ![r] = quorum'[r]]
  /\ barred'[r] \subseteq Users /\ barred' = [barred EXCEPT ![r] = barred'[r]]
  /\ UNCHANGED <<endorsers, overridden, releaser>>

Joins(r, u) ==
  /\ stage[r] = "open"
  /\ u \notin barred[r]
  /\ endorsers' = [endorsers EXCEPT ![r] = @ \cup {u}]
  /\ UNCHANGED <<quorum, barred>>

Endorse(r, u) ==
  /\ Joins(r, u)
  /\ Cardinality(endorsers[r] \cup {u}) < quorum[r]
  /\ UNCHANGED <<stage, overridden, releaser>>

Releases(r, u) ==
  /\ Joins(r, u)
  /\ stage' = [stage EXCEPT ![r] = "approved"]
  /\ releaser' = [releaser EXCEPT ![r] = u]

\* The endorsement that completes the quorum releases at once.
Complete(r, u) ==
  /\ Cardinality(endorsers[r] \cup {u}) >= quorum[r]
  /\ Releases(r, u)
  /\ UNCHANGED overridden

Override(r, u) ==
  /\ Releases(r, u)
  /\ overridden' = [overridden EXCEPT ![r] = TRUE]

Close(r, how) ==
  /\ stage[r] = "open"
  /\ stage' = [stage EXCEPT ![r] = how]
  /\ UNCHANGED <<quorum, barred, endorsers, overridden, releaser>>

Next ==
  \E r \in Requests :
    \/ Open(r)
    \/ \E u \in Users : Endorse(r, u) \/ Complete(r, u) \/ Override(r, u)
    \/ \E how \in {"rejected", "cancelled"} : Close(r, how)

Spec == Init /\ [][Next]_vars
================================================================================
