-------------------------------- MODULE Ladder --------------------------------
(* Escalation ladders (packages/m08-notify/src/escalation.service): an       *)
(* instance climbs the levels of its policy, one at a time as each falls due,*)
(* until somebody acknowledges, resolves or cancels it or the levels run out.*)
(*                                                                           *)
(* Each operation is a transaction without a call to the outside, made on    *)
(* the version its caller read: it happens as a whole or not at all, and one *)
(* that is lost with its worker leaves the ladder due.  A level is fired by  *)
(* the event of the same transaction; who listens is not in the repository.  *)
EXTENDS Integers, Sequences

CONSTANTS
  Policies,   \* the specs of the policies: how many levels, and whether the
              \* last one is repeated (repeatIntervalMs)
  MaxRepeats  \* bound: how often a last level is repeated

ASSUME LadderAssumption ==
  /\ Policies # {} /\ Policies \subseteq [levels : Nat \ {0}, repeat : BOOLEAN]
  /\ MaxRepeats \in Nat

VARIABLES
  ladder,  \* escalation_instance, with the policy it was opened against
  fired    \* history: the levels of its EscalationAdvanced events

ladderVars == <<ladder, fired>>

EscalationMachine ==
  [pending |-> {"active", "cancelled"},
   active |-> {"active", "acknowledged", "resolved", "cancelled", "exhausted", "expired"},
   acknowledged |-> {"resolved", "cancelled", "expired"},
   resolved |-> {}, cancelled |-> {}, exhausted |-> {}, expired |-> {}]
Settled == {"resolved", "cancelled", "exhausted", "expired"}
Answer == {"acknowledged", "resolved", "cancelled"}
Open == DOMAIN EscalationMachine \ Settled

\* nextEscalation: the level to fire next, and whether there is none.  A last
\* level that is repeated is fired again; the ladder never goes past it.
NextLevel_Skips(policy, level) ==
  IF level + 1 < policy.levels THEN level + 2 ELSE policy.levels
NextLevel(policy, level) == IF level < policy.levels THEN level + 1 ELSE policy.levels
Exhausted(policy, level) == level >= policy.levels /\ ~policy.repeat

Repeats == Len(fired) - ladder.level

-----------------------------------------------------------------------------
LadderInit ==
  /\ \E p \in Policies :
       ladder = [policy |-> p, status |-> "none", level |-> 0, due |-> FALSE]
  /\ fired = << >>

OpenLadder ==
  /\ ladder.status = "none"
  /\ ladder' = [ladder EXCEPT !.status = "active"]
  /\ UNCHANGED fired

\* claimInstance: due, and nobody answered; without a date it is due at once.
MayAdvance_Pending == ladder.status = "pending" /\ ladder.due
MayAdvance == ladder.status \in {"pending", "active"} /\ ladder.due

\* advance: when the next step has no delay (the levels ran out) no date is set.
Advance ==
  /\ MayAdvance
  /\ IF Exhausted(ladder.policy, ladder.level)
     THEN /\ ladder' = [ladder EXCEPT !.status = "exhausted"]
          /\ UNCHANGED fired
     ELSE LET level == NextLevel(ladder.policy, ladder.level) IN
          /\ level = ladder.level => Repeats < MaxRepeats
          /\ ladder' = [ladder EXCEPT !.status = "active", !.level = level,
                                      !.due = Exhausted(ladder.policy, level)]
          /\ fired' = Append(fired, level)

\* instanceTransition: acknowledge, resolve and cancel.
Settle(to) ==
  /\ ladder.status \in Open
  /\ to \in EscalationMachine[ladder.status]
  /\ ladder' = [ladder EXCEPT !.status = to, !.due = TRUE]
  /\ UNCHANGED fired

LadderDue ==
  /\ ladder.status = "active" /\ ~ladder.due
  /\ ladder' = [ladder EXCEPT !.due = TRUE]
  /\ UNCHANGED fired

LadderNext == OpenLadder \/ Advance \/ (\E to \in Answer : Settle(to)) \/ LadderDue

LadderSpec == LadderInit /\ [][LadderNext]_ladderVars
\* As for requests: somebody calls advance on every ladder that is due.
LadderFairness == WF_ladderVars(Advance) /\ WF_ladderVars(LadderDue)

-----------------------------------------------------------------------------
(* Properties                                                              *)

\* Every level fires, in order and once, before a later one; only the last one
\* is ever repeated, and only under a policy that says so.
LevelsFireInOrder ==
  /\ ladder.level = IF fired = << >> THEN 0 ELSE fired[Len(fired)]
  /\ \A i \in DOMAIN fired :
       fired[i] = IF i <= ladder.policy.levels THEN i ELSE ladder.policy.levels
  /\ Len(fired) > ladder.policy.levels => ladder.policy.repeat

\* A ladder that nobody answers reaches its last level, and ends there unless
\* its policy repeats it.
LadderEnds ==
  /\ ladder.status = "active" ~>
       \/ ladder.status \in Answer
       \/ ladder.level = ladder.policy.levels
  /\ (ladder.status = "active" /\ ~ladder.policy.repeat) ~>
       ladder.status \in Answer \cup {"exhausted"}
===============================================================================
