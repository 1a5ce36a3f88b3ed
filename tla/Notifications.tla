----------------------------- MODULE Notifications ----------------------------
(* The two machines of packages/m08-notify that workers drive, side by side: *)
(* requests and their dispatch, and the escalation ladders.  The module       *)
(* couples them by nothing but the process that calls both; what a ladder's   *)
(* event leads to is left to its callers.                                     *)
EXTENDS Notify, Ladder

vars == <<requestVars, ladderVars>>

Init == RequestInit /\ LadderInit

Next == \/ RequestNext /\ UNCHANGED ladderVars
        \/ LadderNext /\ UNCHANGED requestVars

Spec == Init /\ [][Next]_vars
FairSpec == Spec /\ RequestFairness /\ LadderFairness
===============================================================================
