------------------------ MODULE ApprovalLedgerProofs ------------------------
(***************************************************************************)
(* What m22's append-only tables say of the row beside them: the outcome,  *)
(* the history, the counter, the escalations and the grants all            *)
(* agree with it in every state, and the service as a whole keeps the      *)
(* promise of ControlledRelease.  The lever is Invariance: a call that     *)
(* finds its version finds its row, so whatever it writes beside the row   *)
(* was computed from the row it replaces.                                  *)
(***************************************************************************)
EXTENDS ApprovalProofs

\* What every commit that swaps the row keeps of it.
Successor(old, x) ==
  /\ x \in RequestRows /\ x.status # "none" /\ x.version = old.version + 1
  /\ x.maker = old.maker /\ x.preparer = old.preparer /\ x.required = old.required

\* One line of history, from the status replaced to the one written.
Logs(r, x) ==
  /\ AllowedLine([from |-> row[r].status, to |-> x.status])
  /\ history' = [history EXCEPT ![r] = Append(@, [from |-> row[r].status, to |-> x.status])]

\* The five things a commit on a request can be; `x` is the row it writes.
Remarks(t) ==
  /\ t.op \in Remark /\ decisions' = decisions \cup {Decision(t)}
  /\ UNCHANGED <<row, history, outcomes, escalations>>

Approves(t, x) ==
  LET r == t.request IN
  /\ t.op \in Approving /\ decisions' = decisions \cup {Decision(t)}
  /\ x.status = "approved" /\ x.finalApprover = t.actor /\ x.depth = row[r].depth
  /\ t.op = "approve" => /\ x.approvals = Cardinality(ApproversIn(decisions', r))
                         /\ x.approvals >= x.required
  /\ Logs(r, x)
  /\ OutcomeFree(r)
  /\ outcomes' = outcomes \cup {[request |-> r, outcome |-> "approved",
                                 finalApprover |-> t.actor, released |-> TRUE]}
  /\ UNCHANGED escalations

Counts(t, x) ==
  LET r == t.request IN
  /\ t.op = "approve" /\ decisions' = decisions \cup {Decision(t)}
  /\ x.status = row[r].status /\ x.finalApprover = row[r].finalApprover
  /\ x.approvals = Cardinality(ApproversIn(decisions', r)) /\ x.approvals < x.required
  /\ x.depth = row[r].depth
  /\ UNCHANGED <<history, outcomes, escalations>>

\* Neither approved nor counted: only the status, and what it says of the end.
Turns(t, x) ==
  LET r == t.request IN
  /\ x.status \notin {"approved"} /\ x.finalApprover = row[r].finalApprover
  /\ x.approvals = row[r].approvals
  /\ Logs(r, x)
  /\ \/ decisions' = decisions
     \/ t.op \in Deciding \ Approving /\ decisions' = decisions \cup {Decision(t)}

Closes(t, x) ==
  LET r == t.request IN
  /\ Turns(t, x) /\ x.depth = row[r].depth
  /\ UNCHANGED escalations
  /\ \/ UNCHANGED outcomes
     \/ /\ OutcomeFree(r)
        /\ \E o \in OutcomeRows :
             o.request = r /\ ~o.released /\ outcomes' = outcomes \cup {o}

Escalates(t, x) ==
  LET r == t.request IN
  /\ Turns(t, x) /\ x.status = "escalated"
  /\ x.depth = row[r].depth + 1 /\ x.depth <= DepthCeiling
  /\ UNCHANGED outcomes
  /\ \E l \in Nat :
       /\ EscalationUnique(r, l)
       /\ escalations' = escalations \cup {[request |-> r, toLevel |-> l, depth |-> x.depth]}

Writes(t) ==
  \/ Remarks(t)
  \/ /\ t.row = row[t.request] /\ UNCHANGED delegations
     /\ \E x \in RequestRows :
          /\ row' = [row EXCEPT ![t.request] = x]
          /\ Successor(row[t.request], x)
          /\ Approves(t, x) \/ Counts(t, x) \/ Closes(t, x) \/ Escalates(t, x)

-----------------------------------------------------------------------------
(* Every commit is one of them.                                            *)

\* Where a call that closes, returns or resubmits a request takes it.
MovesTo(op, status) ==
  \/ op \in {"submit", "resubmit"} /\ status = "pending"
  \/ op = "cancel" /\ status = "cancelled"
  \/ op \in {"reject", "override_reject"} /\ status = "rejected"
  \/ op = "return" /\ status = "returned"

\* Submit, resubmit, cancel and the decisions that end or return the request.
LEMMA ClosingWrites ==
  ASSUME Ind, NEW s \in Sessions,
         \/ CommitPending(s) \/ CommitCancel(s)
         \/ CommitReject(s) \/ CommitReturn(s) \/ CommitOverrideReject(s)
  PROVE  Writes(tx[s])
<1> DEFINE t == tx[s]
           r == t.request
<1>1. t \in RequestCalls
  BY CallIsTyped DEF CommitPending, CommitCancel, CommitReject, CommitReturn,
     CommitOverrideReject, RequestOps, Recordable, Overrides, Ind
<1>2. r \in Requests /\ row[r] \in RequestRows /\ t.row.status # "none"
  BY <1>1 DEF Ind, TypeOK, RequestCalls, Snapshots, SnapshotOf
<1>3. PICK status \in RequestStatuses \ {"approved"} :
        /\ Update(t, status, row[r]) /\ Log(t, status)
        /\ UNCHANGED <<escalations, delegations>>
        /\ \/ decisions' = decisions
           \/ t.op \in Deciding \ Approving /\ decisions' = decisions \cup {Decision(t)}
        /\ \/ UNCHANGED outcomes
           \/ \E o \in {"rejected", "cancelled", "returned"} : RecordOutcome(t, o, NoUser)
        /\ MovesTo(t.op, status)
  <2>1. {"pending", "cancelled", "rejected", "returned"} \subseteq RequestStatuses \ {"approved"}
    BY DEF RequestStatuses
  <2>2. CASE CommitPending(s)
    BY <2>1, <2>2 DEF CommitPending, MovesTo
  <2>3. CASE CommitCancel(s)
    BY <2>1, <2>3 DEF CommitCancel, MovesTo
  <2>4. CASE CommitReject(s)
    BY <2>1, <2>4 DEF CommitReject, MovesTo, Decide, Deciding, Recordable, Approving
  <2>5. CASE CommitReturn(s)
    BY <2>1, <2>5 DEF CommitReturn, MovesTo, Decide, Deciding, Recordable, Approving
  <2>6. CASE CommitOverrideReject(s)
    BY <2>1, <2>6 DEF CommitOverrideReject, MovesTo, Decide, Deciding, Overrides, Approving
  <2> QED BY <2>2, <2>3, <2>4, <2>5, <2>6
<1>4. t.row = row[r] /\ \E x \in RequestRows :
        /\ row' = [row EXCEPT ![r] = x]
        /\ x.status = status /\ x.version = row[r].version + 1
        /\ x.maker = row[r].maker /\ x.preparer = row[r].preparer
        /\ x.required = row[r].required /\ x.approvals = row[r].approvals
        /\ x.finalApprover = row[r].finalApprover
        /\ x.depth = row[r].depth
  BY <1>1, <1>2, <1>3, UpdateHits DEF Ind
<1>5. PICK x \in RequestRows :
        /\ row' = [row EXCEPT ![r] = x]
        /\ x.status = status
        /\ x.maker = row[r].maker /\ x.preparer = row[r].preparer
        /\ x.required = row[r].required /\ x.approvals = row[r].approvals
        /\ x.finalApprover = row[r].finalApprover
        /\ x.version = row[r].version + 1 /\ x.depth = row[r].depth
  BY <1>4
<1>6. Successor(row[r], x)
  BY <1>5 DEF Successor, RequestStatuses
<1>7. Logs(r, x)
  <2>1. /\ t.op \in Deciding => Actionable(row[r].status)
        /\ t.op \in {"submit", "resubmit"} => CanMove(row[r].status, "pending")
        /\ row[r].status \in RequestStatuses \ Terminal
    BY <1>1, <1>2, <1>4 DEF Ind, Snapshots, SnapshotOf, RequestRows
  <2>2. CanMove(row[r].status, status)
    BY <1>2, <1>3, <2>1 DEF MovesTo, CanMove, RequestMachine, RequestStatuses, Terminal,
       Actionable, Deciding, Recordable, Overrides
  <2> QED BY <1>3, <1>4, <1>5, <2>2 DEF Log, Logs, AllowedLine
<1>8. \/ UNCHANGED outcomes
      \/ /\ OutcomeFree(r)
         /\ \E o \in OutcomeRows :
              o.request = r /\ ~o.released /\ outcomes' = outcomes \cup {o}
  <2>1. CASE UNCHANGED outcomes
    BY <2>1
  <2>2. ASSUME NEW end \in {"rejected", "cancelled", "returned"}, RecordOutcome(t, end, NoUser)
        PROVE  /\ OutcomeFree(r)
               /\ \E o \in OutcomeRows :
                    o.request = r /\ ~o.released /\ outcomes' = outcomes \cup {o}
    <3> DEFINE o == [request |-> r, outcome |-> end, finalApprover |-> NoUser,
                     released |-> end = "approved"]
    <3>1. o \in OutcomeRows /\ o.request = r /\ ~o.released
      BY <1>2 DEF OutcomeRows
    <3>2. OutcomeFree(r) /\ outcomes' = outcomes \cup {o}
      BY <2>2 DEF RecordOutcome
    <3> HIDE DEF o
    <3> QED BY <3>1, <3>2
  <2> QED BY <1>3, <2>1, <2>2
<1>9. Closes(t, x)
  BY <1>3, <1>5, <1>7, <1>8 DEF Closes, Turns
<1> QED BY <1>3, <1>4, <1>5, <1>6, <1>9 DEF Writes

\* Escalations, by decision or by a timer.
LEMMA EscalationWrites ==
  ASSUME Ind, NEW s \in Sessions, CommitEscalate(s) \/ CommitFire(s)
  PROVE  Writes(tx[s])
<1> DEFINE t == tx[s]
           r == t.request
<1>1. t \in RequestCalls
  BY CallIsTyped DEF CommitEscalate, CommitFire, RequestOps, Recordable, Ind
<1>2. /\ r \in Requests /\ row[r] \in RequestRows /\ t.row \in RequestRows
      /\ t.row.level \in Nat /\ t.row.level + 1 \in Nat /\ t.toLevel \in Nat
      /\ t.row.depth + 1 \in Nat
  BY <1>1, SMTT(30) DEF Ind, TypeOK, RequestCalls, RequestRows
<1>3. PICK l \in Nat, level \in Nat : Escalate(t, l, level)
  BY <1>2 DEF CommitEscalate, CommitFire
<1> DEFINE new == [row[r] EXCEPT !.depth = t.row.depth + 1, !.level = level]
<1>4. /\ new \in RequestRows /\ new.depth = t.row.depth + 1
      /\ new.maker = row[r].maker /\ new.preparer = row[r].preparer
      /\ new.required = row[r].required /\ new.approvals = row[r].approvals
      /\ new.finalApprover = row[r].finalApprover
  <2>1. \A d \in Nat : [row[r] EXCEPT !.depth = d, !.level = level] \in RequestRows
    BY <1>2 DEF RequestRows
  <2> QED BY <1>2, <2>1 DEF RequestRows
<1>5. Update(t, "escalated", new)
  BY <1>3 DEF Escalate
<1> HIDE DEF new
<1>6. "escalated" \in RequestStatuses
  BY DEF RequestStatuses
<1>7. t.row = row[r] /\ \E x \in RequestRows :
        /\ row' = [row EXCEPT ![r] = x]
        /\ x.status = "escalated" /\ x.version = row[r].version + 1
        /\ x.maker = new.maker /\ x.preparer = new.preparer
        /\ x.required = new.required /\ x.approvals = new.approvals
        /\ x.finalApprover = new.finalApprover
        /\ x.depth = new.depth
  BY <1>1, <1>4, <1>5, <1>6, UpdateHits DEF Ind
<1>8. PICK x \in RequestRows :
        /\ row' = [row EXCEPT ![r] = x]
        /\ x.status = "escalated"
        /\ x.maker = new.maker /\ x.preparer = new.preparer
        /\ x.required = new.required /\ x.approvals = new.approvals
        /\ x.finalApprover = new.finalApprover
        /\ x.version = row[r].version + 1 /\ x.depth = new.depth
  BY <1>7
<1>9. Successor(row[r], x)
  BY <1>4, <1>8 DEF Successor
<1>10. Turns(t, x)
  <2>1. Logs(r, x)
    <3>1. Actionable(row[r].status)
      BY <1>1, <1>7 DEF Ind, Snapshots, SnapshotOf, CommitEscalate, CommitFire, Deciding, Recordable
    <3>2. AllowedLine([from |-> row[r].status, to |-> "escalated"])
      BY <3>1 DEF AllowedLine, Actionable, CanMove, RequestMachine, RequestStatuses
    <3> QED BY <1>3, <1>7, <1>8, <3>2 DEF Escalate, Log, Logs
  <2>2. \/ decisions' = decisions
        \/ t.op \in Deciding \ Approving /\ decisions' = decisions \cup {Decision(t)}
    BY DEF CommitEscalate, CommitFire, Decide, Deciding, Recordable, Approving
  <2> QED BY <1>4, <1>8, <2>1, <2>2 DEF Turns
<1>11. Escalates(t, x)
  <2>1. x.depth = row[r].depth + 1 /\ x.depth <= DepthCeiling
    BY <1>3, <1>4, <1>7, <1>8 DEF Escalate
  <2>2. UNCHANGED outcomes
    BY DEF CommitEscalate, CommitFire
  <2>3. /\ EscalationUnique(r, l)
        /\ escalations' = escalations \cup {[request |-> r, toLevel |-> l, depth |-> x.depth]}
    BY <1>3, <1>4, <1>8 DEF Escalate
  <2> QED BY <1>8, <1>10, <2>1, <2>2, <2>3 DEF Escalates
<1>12. UNCHANGED delegations
  BY DEF CommitEscalate, CommitFire
<1> QED BY <1>7, <1>8, <1>9, <1>11, <1>12 DEF Writes

\* Approvals and override approvals.
LEMMA ApprovingWrites ==
  ASSUME Ind, NEW s \in Sessions, CommitApprove(s) \/ CommitOverrideApprove(s)
  PROVE  Writes(tx[s])
<1> DEFINE t == tx[s]
           r == t.request
<1>1. /\ t \in RequestCalls /\ t.op \in Approving
      /\ decisions' = decisions \cup {Decision(t)}
      /\ UNCHANGED <<escalations, delegations>>
  BY ApprovalMoves DEF Ind, Moves, Decide, CommitApprove, CommitOverrideApprove
<1>2. /\ r \in Requests /\ row[r] \in RequestRows /\ t.actor \in Users
      /\ t.row \in RequestRows /\ t.row.status \in RequestStatuses
      /\ t.row.required \in Nat /\ Decision(t) \in DecisionRows
  BY <1>1, DecideTyped
  DEF Ind, TypeOK, RequestCalls, RequestRows, Snapshots, SnapshotOf, Deciding, Approving,
      Recordable, Overrides
<1>3. ApproversIn(decisions', r) = ApproversIn(decisions \cup {Decision(t)}, r)
  BY <1>1
<1>4. ApprovalsAfter(t) = Cardinality(ApproversIn(decisions', r)) /\ ApprovalsAfter(t) \in Nat
  BY <1>2, <1>3, ApproversCounted DEF ApprovalsAfter, Ind, TypeOK
<1>5. "approved" \in RequestStatuses
  BY DEF RequestStatuses
<1>6. CASE \/ CommitOverrideApprove(s)
           \/ CommitApprove(s) /\ QuorumMet(ApprovalsAfter(t), t.row.required)
  <2>1. PICK n \in Nat :
          /\ Update(t, "approved", [row[r] EXCEPT !.approvals = n, !.finalApprover = t.actor])
          /\ t.op = "approve" => n = ApprovalsAfter(t) /\ n >= t.row.required
    <3>1. CASE CommitOverrideApprove(s)
      <4>1. Update(t, "approved", [row[r] EXCEPT !.approvals = t.row.required,
                                                !.finalApprover = t.actor])
        BY <3>1 DEF CommitOverrideApprove
      <4>2. t.op # "approve"
        BY <3>1 DEF CommitOverrideApprove
      <4> QED BY <1>2, <4>1, <4>2
    <3>2. CASE CommitApprove(s) /\ QuorumMet(ApprovalsAfter(t), t.row.required)
      <4>1. Update(t, "approved", [row[r] EXCEPT !.approvals = ApprovalsAfter(t),
                                                !.finalApprover = t.actor])
        BY <3>2 DEF CommitApprove
      <4> QED BY <1>4, <3>2, <4>1 DEF QuorumMet
    <3> QED BY <1>6, <3>1, <3>2
  <2> DEFINE new == [row[r] EXCEPT !.approvals = n, !.finalApprover = t.actor]
  <2>2. /\ new \in RequestRows /\ new.depth = row[r].depth
        /\ new.maker = row[r].maker /\ new.preparer = row[r].preparer
        /\ new.required = row[r].required /\ new.approvals = n
        /\ new.finalApprover = t.actor
    BY <1>2 DEF RequestRows
  <2>3. Update(t, "approved", new)
    BY <2>1
  <2> HIDE DEF new
  <2>4. t.row = row[r] /\ \E x \in RequestRows :
          /\ row' = [row EXCEPT ![r] = x]
          /\ x.status = "approved" /\ x.version = row[r].version + 1
          /\ x.maker = new.maker /\ x.preparer = new.preparer
          /\ x.required = new.required /\ x.approvals = new.approvals
          /\ x.finalApprover = new.finalApprover
          /\ x.depth = new.depth
    BY <1>1, <1>5, <2>2, <2>3, UpdateHits DEF Ind
  <2>5. PICK x \in RequestRows :
          /\ row' = [row EXCEPT ![r] = x]
          /\ x.status = "approved"
          /\ x.maker = new.maker /\ x.preparer = new.preparer
          /\ x.required = new.required /\ x.approvals = new.approvals
          /\ x.finalApprover = new.finalApprover
          /\ x.version = row[r].version + 1 /\ x.depth = new.depth
    BY <2>4
  <2>6. Successor(row[r], x)
    BY <2>2, <2>5 DEF Successor
  <2>7. Log(t, "approved") /\ RecordOutcome(t, "approved", t.actor)
    BY <1>6 DEF CommitApprove, CommitOverrideApprove
  <2>8. Logs(r, x)
    <3>1. Actionable(row[r].status)
      BY <1>1, <2>4 DEF Ind, Snapshots, SnapshotOf, Approving, Deciding, Recordable, Overrides
    <3>2. AllowedLine([from |-> row[r].status, to |-> "approved"])
      BY <3>1 DEF AllowedLine, Actionable, CanMove, RequestMachine, RequestStatuses
    <3> QED BY <2>4, <2>5, <2>7, <3>2 DEF Log, Logs
  <2>9. /\ OutcomeFree(r)
        /\ outcomes' = outcomes \cup {[request |-> r, outcome |-> "approved",
                                       finalApprover |-> t.actor, released |-> TRUE]}
    BY <2>7 DEF RecordOutcome
  <2>10. t.op = "approve" => x.approvals = Cardinality(ApproversIn(decisions', r)) /\ x.approvals >= x.required
    BY <1>4, <2>1, <2>2, <2>4, <2>5
  <2>11. Approves(t, x)
    BY <1>1, <2>2, <2>5, <2>8, <2>9, <2>10 DEF Approves
  <2> QED BY <1>1, <2>4, <2>5, <2>6, <2>11 DEF Writes
<1>7. CASE CommitApprove(s) /\ ~QuorumMet(ApprovalsAfter(t), t.row.required)
  <2> DEFINE new == [row[r] EXCEPT !.approvals = ApprovalsAfter(t)]
  <2>1. /\ new \in RequestRows /\ new.depth = row[r].depth
        /\ new.maker = row[r].maker /\ new.preparer = row[r].preparer
        /\ new.required = row[r].required /\ new.approvals = ApprovalsAfter(t)
        /\ new.finalApprover = row[r].finalApprover
    BY <1>2, <1>4 DEF RequestRows
  <2>2. /\ Update(t, t.row.status, new)
        /\ t.op = "approve" /\ UNCHANGED <<history, outcomes>>
    BY <1>7 DEF CommitApprove
  <2> HIDE DEF new
  <2>3. t.row = row[r] /\ \E x \in RequestRows :
          /\ row' = [row EXCEPT ![r] = x]
          /\ x.status = t.row.status /\ x.version = row[r].version + 1
          /\ x.maker = new.maker /\ x.preparer = new.preparer
          /\ x.required = new.required /\ x.approvals = new.approvals
          /\ x.finalApprover = new.finalApprover
          /\ x.depth = new.depth
    BY <1>1, <1>2, <2>1, <2>2, UpdateHits DEF Ind
  <2>4. PICK x \in RequestRows :
          /\ row' = [row EXCEPT ![r] = x]
          /\ x.status = t.row.status
          /\ x.maker = new.maker /\ x.preparer = new.preparer
          /\ x.required = new.required /\ x.approvals = new.approvals
          /\ x.finalApprover = new.finalApprover
          /\ x.version = row[r].version + 1 /\ x.depth = new.depth
    BY <2>3
  <2>5. Successor(row[r], x)
    BY <1>2, <2>1, <2>4 DEF Successor, RequestStatuses
  <2>6. x.approvals = Cardinality(ApproversIn(decisions', r)) /\ x.approvals < x.required
    BY <1>2, <1>4, <1>7, <2>1, <2>3, <2>4 DEF QuorumMet
  <2>7. Counts(t, x)
    BY <1>1, <2>1, <2>2, <2>3, <2>4, <2>6 DEF Counts
  <2> QED BY <1>1, <2>3, <2>4, <2>5, <2>7 DEF Writes
<1> QED BY <1>6, <1>7, SMTT(30)

\* Every commit of a call on a request.
LEMMA CommitWrites ==
  ASSUME Ind, NEW s \in Sessions, CommitOnRequest(s)
  PROVE  /\ Writes(tx[s]) /\ tx[s] \in RequestCalls /\ SnapshotOf(tx[s])
         /\ tx' = [tx EXCEPT ![s] = Idle] /\ UNCHANGED delegations
<1>1. Moves(s)
  BY CommitMoves DEF Ind
<1>2. CommitRemark(s) => Writes(tx[s])
  BY DEF CommitRemark, Decide, Writes, Remarks
<1>3. Writes(tx[s])
  BY <1>2, ClosingWrites, EscalationWrites, ApprovingWrites DEF CommitOnRequest
<1> QED BY <1>1, <1>3 DEF Moves, Ind, Snapshots

\* A create takes an absent row.
Creates(r, new) ==
  /\ row[r].status = "none" /\ new \in RequestRows
  /\ row' = [row EXCEPT ![r] = new]
  /\ new.status = "draft" /\ new.approvals = 0 /\ new.depth = 0
  /\ new.finalApprover = NoUser
  /\ new.maker \in Users \cup {NoUser} /\ new.preparer \in Users \cup {NoUser}
  /\ history' = [history EXCEPT ![r] = <<[from |-> "none", to |-> "draft"]>>]
  /\ UNCHANGED <<decisions, outcomes, escalations>>

\* A create writes a new row, open or released by a zero-step policy.
LEMMA CommitCreates ==
  ASSUME Ind, NEW s \in Sessions, CommitCreate(s)
  PROVE  \E r \in Requests, new \in RequestRows : Creates(r, new)
<1>1. tx[s].key \in Keys \cup {NoKey}
  <2>1. tx[s].op = "create" /\ tx[s] \in {Idle} \cup CreateCalls \cup RequestCalls
    BY DEF CommitCreate, Ind, TypeOK
  <2>2. tx[s] # Idle /\ tx[s] \notin RequestCalls
    BY <2>1 DEF Idle, RequestCalls, RequestOps, Recordable, Overrides
  <2> QED BY <2>1, <2>2 DEF CreateCalls, CommitCreate
<1>2. PICK r \in Requests, maker \in Makers, preparer \in Preparers,
           required \in 1..MaxRequired, plan \in StepPlans :
        /\ row[r].status = "none"
        /\ row' = [row EXCEPT ![r] =
             [NoRow EXCEPT !.status = "draft", !.version = 1, !.maker = maker,
                !.preparer = preparer, !.required = required, !.key = tx[s].key]]
        /\ steps' = [steps EXCEPT ![r] =
             [l \in IF plan = {} THEN {1} ELSE plan |-> "pending"]]
        /\ history' = [history EXCEPT ![r] = <<[from |-> "none", to |-> "draft"]>>]
  BY DEF CommitCreate
<1> DEFINE new == [NoRow EXCEPT !.status = "draft", !.version = 1, !.maker = maker,
                     !.preparer = preparer, !.required = required, !.key = tx[s].key]
<1>3. maker \in Users \cup {NoUser} /\ preparer \in Users \cup {NoUser} /\ required \in Nat \ {0}
  BY UsersAssumption, BoundsAssumption
<1>4. /\ new \in RequestRows
      /\ new.status = "draft" /\ new.approvals = 0 /\ new.depth = 0
      /\ new.finalApprover = NoUser
      /\ new.maker = maker /\ new.preparer = preparer
  BY <1>1, <1>3 DEF NoRow, RequestRows, RequestStatuses
<1>5. row' = [row EXCEPT ![r] = new]
  BY <1>2
<1> HIDE DEF new
<1>6. UNCHANGED <<decisions, outcomes, escalations>>
  BY DEF CommitCreate
<1> QED BY <1>1, <1>2, <1>3, <1>4, <1>5, <1>6 DEF Creates

\* Every step commits a call, creates a request, or leaves these tables alone.
Still == UNCHANGED <<row, decisions, outcomes, escalations, history>>
Commits(s) ==
  /\ Writes(tx[s]) /\ tx[s] \in RequestCalls /\ SnapshotOf(tx[s])
  /\ tx' = [tx EXCEPT ![s] = Idle] /\ UNCHANGED delegations

\* A step writes one row with its ledger, creates one, or leaves both alone.
LEMMA StepCases ==
  ASSUME Ind, [Next]_vars
  PROVE  \/ \E s \in Sessions : Commits(s)
         \/ \E r \in Requests, new \in RequestRows : Creates(r, new)
         \/ Still
<1>1. ASSUME NEW s \in Sessions, Begin(s)
      PROVE  Still
  BY <1>1, BeginPreserves DEF Ind, tables, Still
<1>2. ASSUME NEW s \in Sessions, CommitOnRequest(s)
      PROVE  Commits(s)
  BY <1>2, CommitWrites DEF Commits
<1>3. ASSUME NEW s \in Sessions, CommitCreate(s)
      PROVE  \E r \in Requests, new \in RequestRows : Creates(r, new)
  BY <1>3, CommitCreates
<1>4. ASSUME NEW s \in Sessions, Rollback(s)
      PROVE  Still
  BY <1>4 DEF Rollback, tables, Still
<1>5. CASE Delegation
  BY <1>5 DEF Delegation, GrantDelegation, RevokeDelegation, DelegationEnds, Still
<1>6. CASE UNCHANGED vars
  BY <1>6 DEF vars, Still
<1> QED BY <1>1, <1>2, <1>3, <1>4, <1>5, <1>6 DEF Next, Commit, CommitOnRequest

\* A commit that writes a row writes that row only.
LEMMA WritesOneRow ==
  ASSUME Ind, NEW t \in RequestCalls, NEW x \in RequestRows,
         row' = [row EXCEPT ![t.request] = x], NEW q \in Requests
  PROVE  /\ t.request \in Requests /\ row[t.request] \in RequestRows
         /\ row'[q] = IF q = t.request THEN x ELSE row[q]
BY DEF Ind, TypeOK, RequestCalls

-----------------------------------------------------------------------------
(* Absent rows are blank.                                                  *)

AbsentIsBlank == \A r \in Requests : row[r].status = "none" => row[r] = NoRow

\* No row appears that was not created.
LEMMA RowsKept ==
  ASSUME Ind, AbsentIsBlank, [Next]_vars
  PROVE  AbsentIsBlank'
<1>1. ASSUME NEW s \in Sessions, Commits(s)
      PROVE  AbsentIsBlank'
  <2> DEFINE t == tx[s]
  <2>1. CASE row' = row
    BY <2>1 DEF AbsentIsBlank
  <2>2. CASE row' # row
    <3>1. PICK x \in RequestRows :
            row' = [row EXCEPT ![t.request] = x] /\ Successor(row[t.request], x)
      BY <1>1, <2>2 DEF Commits, Writes, Remarks
    <3>2. \A q \in Requests : row'[q] = IF q = t.request THEN x ELSE row[q]
      BY <1>1, <3>1, WritesOneRow, ZenonT(60) DEF Commits
    <3> QED BY <3>1, <3>2 DEF AbsentIsBlank, Successor
  <2> QED BY <2>1, <2>2
<1>2. ASSUME NEW r \in Requests, NEW new \in RequestRows, Creates(r, new)
      PROVE  AbsentIsBlank'
  <2>1. \A q \in Requests : row'[q] = IF q = r THEN new ELSE row[q]
    BY <1>2 DEF Creates, Ind, TypeOK
  <2>2. new.status = "draft"
    BY <1>2 DEF Creates
  <2> QED BY <2>1, <2>2 DEF AbsentIsBlank
<1>3. CASE Still
  BY <1>3 DEF Still, AbsentIsBlank
<1> QED BY <1>1, <1>2, <1>3, StepCases

-----------------------------------------------------------------------------
(* Outcomes                                                                *)

\* A released outcome belongs to an approved request and names its approver.
ReleasesFollow ==
  \A o \in outcomes : o.released =>
    row[o.request].status = "approved" /\ row[o.request].finalApprover = o.finalApprover

\* A release is written in the step that settles the request, and never again.
LEMMA OutcomesKept ==
  ASSUME Ind, ReleasesFollow, ReleasedOnceApproved, [Next]_vars
  PROVE  ReleasesFollow' /\ ReleasedOnceApproved'
<1> USE DEF ReleasesFollow, ReleasedOnceApproved
<1>0. \A o \in outcomes : o.request \in Requests
  BY DEF Ind, TypeOK, OutcomeRows
<1>1. ASSUME NEW s \in Sessions, Commits(s)
      PROVE  ReleasesFollow' /\ ReleasedOnceApproved'
  <2> DEFINE t == tx[s]
             r == t.request
  <2>1. CASE Remarks(t)
    BY <2>1 DEF Remarks
  <2>2. CASE ~Remarks(t)
    <3>1. PICK x \in RequestRows :
            /\ row' = [row EXCEPT ![r] = x] /\ t.row = row[r]
            /\ Approves(t, x) \/ Counts(t, x) \/ Closes(t, x) \/ Escalates(t, x)
      BY <1>1, <2>2 DEF Commits, Writes
    <3>2. /\ r \in Requests
          /\ \A q \in Requests : row'[q] = IF q = r THEN x ELSE row[q]
      <4>1. r \in Requests
        BY <1>1 DEF Commits, RequestCalls
      <4>2. row' = [row EXCEPT ![r] = x]
        BY <3>1
      <4>3. row \in [Requests -> RequestRows]
        BY DEF Ind, TypeOK
      <4> QED BY <4>1, <4>2, <4>3
    <3>3. row[r].status \notin Terminal /\ row[r].status # "approved"
      BY <1>1, <3>1 DEF Commits, SnapshotOf, Terminal
    <3>4. CASE Approves(t, x)
      <4> DEFINE o == [request |-> r, outcome |-> "approved",
                       finalApprover |-> t.actor, released |-> TRUE]
      <4>1. outcomes' = outcomes \cup {o} /\ OutcomeFree(r)
        BY <3>4 DEF Approves
      <4>2. x.status = "approved" /\ x.finalApprover = t.actor
        BY <3>4 DEF Approves
      <4>3. o.request = r /\ o.released /\ o.finalApprover = t.actor
        OBVIOUS
      <4> HIDE DEF o
      <4>4. \A p \in outcomes : p.request # r
        BY <4>1 DEF OutcomeFree
      <4>5. ReleasesFollow'
        BY <1>0, <3>2, <4>1, <4>2, <4>3, <4>4
      <4>6. \A p, q \in outcomes' : p.request = q.request => p = q
        BY <4>1, <4>3, <4>4
      <4>7. ASSUME NEW q \in Requests
            PROVE  row'[q].status = "approved" <=>
                     \E p \in outcomes' :
                       p.request = q /\ p.released /\ p.finalApprover = row'[q].finalApprover
        <5>1. CASE q = r
          BY <3>2, <4>1, <4>2, <4>3, <5>1
        <5>2. CASE q # r
          BY <3>2, <4>1, <4>3, <5>2
        <5> QED BY <5>1, <5>2
      <4> QED BY <4>5, <4>6, <4>7
    <3>5. ASSUME x.status # "approved"
          PROVE  ReleasesFollow' /\ ReleasedOnceApproved'
      <4>1. PICK new \in SUBSET OutcomeRows :
              /\ outcomes' = outcomes \cup new
              /\ \A o \in new : o.request = r /\ ~o.released
              /\ \A o, p \in new : o = p
              /\ new # {} => OutcomeFree(r)
        <5>1. CASE UNCHANGED outcomes
          <6> WITNESS {} \in SUBSET OutcomeRows
          <6> QED BY <5>1
        <5>2. CASE outcomes' # outcomes
          <6>1. OutcomeFree(r) /\ \E o \in OutcomeRows :
                  o.request = r /\ ~o.released /\ outcomes' = outcomes \cup {o}
            BY <3>1, <3>5, <5>2 DEF Approves, Counts, Closes, Escalates
          <6>2. PICK o \in OutcomeRows :
                  o.request = r /\ ~o.released /\ outcomes' = outcomes \cup {o}
            BY <6>1
          <6> WITNESS {o} \in SUBSET OutcomeRows
          <6> QED BY <6>1, <6>2
        <5> QED BY <5>1, <5>2
      <4>2. \A o \in outcomes : o.released => o.request # r
        BY <3>3
      <4>3. ReleasesFollow'
        BY <1>0, <3>2, <4>1, <4>2
      <4>4. \A p, q \in outcomes' : p.request = q.request => p = q
        BY <4>1 DEF OutcomeFree
      <4>5. ASSUME NEW q \in Requests
            PROVE  row'[q].status = "approved" <=>
                     \E p \in outcomes' :
                       p.request = q /\ p.released /\ p.finalApprover = row'[q].finalApprover
        <5>1. CASE q = r
          BY <3>2, <3>5, <4>1, <4>2, <5>1
        <5>2. CASE q # r
          BY <3>2, <4>1, <5>2
        <5> QED BY <5>1, <5>2
      <4> QED BY <4>3, <4>4, <4>5
    <3>6. x.status = "approved" => Approves(t, x)
      BY <3>1, <3>3 DEF Counts, Closes, Turns, Escalates
    <3> QED BY <3>4, <3>5, <3>6
  <2> QED BY <2>1, <2>2
<1>2. ASSUME NEW r \in Requests, NEW new \in RequestRows, Creates(r, new)
      PROVE  ReleasesFollow' /\ ReleasedOnceApproved'
  <2>1. \A q \in Requests : row'[q] = IF q = r THEN new ELSE row[q]
    BY <1>2 DEF Creates, Ind, TypeOK
  <2>2. new.status = "draft" /\ row[r].status = "none" /\ outcomes' = outcomes
    BY <1>2 DEF Creates
  <2>3. \A o \in outcomes : o.released => o.request # r
    BY <2>2
  <2>4. ReleasesFollow'
    BY <1>0, <2>1, <2>2, <2>3
  <2>5. ASSUME NEW q \in Requests
        PROVE  row'[q].status = "approved" <=>
                 \E p \in outcomes' :
                   p.request = q /\ p.released /\ p.finalApprover = row'[q].finalApprover
    BY <2>1, <2>2, <2>3
  <2> QED BY <2>2, <2>4, <2>5
<1>3. CASE Still
  BY <1>3 DEF Still
<1> QED BY <1>1, <1>2, <1>3, StepCases

-----------------------------------------------------------------------------
(* The counter                                                             *)

\* What one line of the ledger adds to the approvers and overrides of a request.
LEMMA LedgerLine ==
  ASSUME NEW s \in Sessions, Commits(s), NEW q \in Requests
  PROVE  /\ Overridden(q) => Overridden(q)'
         /\ \/ decisions' = decisions
            \/ /\ decisions' = decisions \cup {Decision(tx[s])}
               /\ tx[s].op \in Deciding
         /\ (q # tx[s].request \/ tx[s].op \notin Approving) =>
              /\ Approvers(q)' = Approvers(q)
              /\ Overridden(q)' => Overridden(q)
         /\ tx[s].op \in Approving /\ q = tx[s].request /\ decisions' # decisions =>
              Approvers(q)' = Approvers(q) \cup {tx[s].actor}
<1> DEFINE t == tx[s]
<1>1. \/ decisions' = decisions
      \/ decisions' = decisions \cup {Decision(t)} /\ t.op \in Deciding
  BY DEF Commits, Writes, Remarks, Approves, Counts, Closes, Escalates, Turns,
     Remark, Approving, Deciding, Recordable, Overrides
<1>2. /\ Decision(t).request = t.request /\ Decision(t).kind = t.op
      /\ Decision(t).actor = t.actor
  BY DEF Decision
<1>3. CASE decisions' = decisions
  BY <1>3 DEF Overridden, Approvers, ApproversIn
<1>4. CASE decisions' = decisions \cup {Decision(t)} /\ t.op \in Deciding
  <2>1. Overridden(q) => Overridden(q)'
    BY <1>4 DEF Overridden
  <2>2. ASSUME q # t.request \/ t.op \notin Approving
        PROVE  Approvers(q)' = Approvers(q) /\ (Overridden(q)' => Overridden(q))
    BY <1>2, <1>4, <2>2 DEF Overridden, Approvers, ApproversIn, Approving
  <2>3. ASSUME q = t.request, t.op \in Approving
        PROVE  Approvers(q)' = Approvers(q) \cup {t.actor}
    BY <1>2, <1>4, <2>3 DEF Approvers, ApproversIn
  <2> QED BY <1>4, <2>1, <2>2, <2>3
<1> QED BY <1>1, <1>3, <1>4, SMTT(30)

\* The counter of the row moves with the ledger it counts.
LEMMA CountKept ==
  ASSUME Ind, AbsentIsBlank, CountMatchesLedger, [Next]_vars
  PROVE  CountMatchesLedger'
<1>1. ASSUME NEW s \in Sessions, Commits(s)
      PROVE  CountMatchesLedger'
  <2> DEFINE t == tx[s]
             r == t.request
  <2> SUFFICES ASSUME NEW q \in Requests, ~Overridden(q)'
               PROVE  row'[q].approvals = Cardinality(Approvers(q)')
    BY DEF CountMatchesLedger
  <2>1. ~Overridden(q) /\ row[q].approvals = Cardinality(Approvers(q))
    BY <1>1, LedgerLine DEF CountMatchesLedger
  <2>2. CASE Remarks(t)
    <3>1. t.op \notin Approving /\ row' = row
      BY <2>2 DEF Remarks, Remark, Approving
    <3> QED BY <1>1, <2>1, <3>1, LedgerLine
  <2>3. CASE ~Remarks(t)
    <3>1. PICK x \in RequestRows :
            /\ row' = [row EXCEPT ![r] = x] /\ t.row = row[r]
            /\ Approves(t, x) \/ Counts(t, x) \/ Closes(t, x) \/ Escalates(t, x)
      BY <1>1, <2>3 DEF Commits, Writes
    <3>2. row'[q] = IF q = r THEN x ELSE row[q]
      <4>1. row' = [row EXCEPT ![r] = x]
        BY <3>1
      <4>2. row \in [Requests -> RequestRows]
        BY DEF Ind, TypeOK
      <4> QED BY <4>1, <4>2
    <3>3. CASE q # r
      BY <1>1, <2>1, <3>2, <3>3, LedgerLine
    <3>4. CASE q = r /\ (Closes(t, x) \/ Escalates(t, x))
      <4>1. x.approvals = row[r].approvals /\ (decisions' = decisions \/ t.op \notin Approving)
        BY <3>4 DEF Closes, Escalates, Turns
      <4>2. CASE decisions' = decisions
        BY <2>1, <3>2, <3>4, <4>1, <4>2 DEF Approvers
      <4>3. CASE t.op \notin Approving
        BY <1>1, <2>1, <3>2, <3>4, <4>1, <4>3, LedgerLine
      <4> QED BY <4>1, <4>2, <4>3
    <3>5. CASE q = r /\ (Approves(t, x) \/ Counts(t, x))
      <4>1. t.op # "override_approve"
        <5> SUFFICES ASSUME t.op = "override_approve" PROVE FALSE
          OBVIOUS
        <5>1. Decision(t) \in decisions'
          BY <3>5 DEF Approves, Counts
        <5>2. Decision(t).request = q /\ Decision(t).kind = "override_approve"
          BY <3>5 DEF Decision
        <5>3. Overridden(q)'
          BY <5>1, <5>2 DEF Overridden
        <5> QED BY <5>3
      <4>2. x.approvals = Cardinality(ApproversIn(decisions', r))
        BY <3>5, <4>1 DEF Approves, Counts, Approving
      <4> QED BY <3>2, <3>5, <4>2 DEF Approvers
    <3> QED BY <3>1, <3>3, <3>4, <3>5
  <2> QED BY <2>2, <2>3
<1>2. ASSUME NEW r \in Requests, NEW new \in RequestRows, Creates(r, new)
      PROVE  CountMatchesLedger'
  <2>1. \A q \in Requests : row'[q] = IF q = r THEN new ELSE row[q]
    BY <1>2 DEF Creates, Ind, TypeOK
  <2>2. new.approvals = row[r].approvals
    BY <1>2 DEF Creates, AbsentIsBlank, NoRow
  <2>3. decisions' = decisions
    BY <1>2 DEF Creates
  <2> QED BY <2>1, <2>2, <2>3 DEF CountMatchesLedger, Overridden, Approvers
<1>3. CASE Still
  BY <1>3 DEF Still, CountMatchesLedger, Overridden, Approvers
<1> QED BY <1>1, <1>2, <1>3, StepCases

-----------------------------------------------------------------------------
(* The history                                                             *)

\* A history that ends where the row stands and grows by one line from there.
LEMMA LifeGoesOn ==
  ASSUME NEW h \in Seq(HistoryRows), NEW from \in RequestStatuses,
         NEW to \in RequestStatuses,
         h # <<>>, h[Len(h)].to = from, AllowedLine([from |-> from, to |-> to]),
         \A i \in 2..Len(h) : h[i].from = h[i-1].to /\ AllowedLine(h[i])
  PROVE  LET g == Append(h, [from |-> from, to |-> to]) IN
         /\ g # <<>> /\ g[1] = h[1] /\ g[Len(g)].to = to
         /\ \A i \in 2..Len(g) : g[i].from = g[i-1].to /\ AllowedLine(g[i])
<1> DEFINE e == [from |-> from, to |-> to]
           g == Append(h, e)
<1>1. e \in HistoryRows /\ e.from = from /\ e.to = to /\ AllowedLine(e)
  BY DEF HistoryRows
<1> HIDE DEF e
<1>2. /\ Len(g) = Len(h) + 1 /\ Len(h) \in Nat /\ Len(h) > 0
      /\ \A i \in 1..Len(h) : g[i] = h[i]
      /\ g[Len(h) + 1] = e
  BY <1>1
<1>3. g # <<>> /\ g[1] = h[1] /\ g[Len(g)].to = to
  BY <1>1, <1>2
<1>4. ASSUME NEW i \in 2..Len(g)
      PROVE  g[i].from = g[i-1].to /\ AllowedLine(g[i])
  <2>1. CASE i \in 2..Len(h)
    <3>1. i \in 1..Len(h) /\ i - 1 \in 1..Len(h)
      BY <1>2, <2>1
    <3> QED BY <1>2, <2>1, <3>1
  <2>2. CASE i = Len(h) + 1
    <3>1. i - 1 = Len(h) /\ Len(h) \in 1..Len(h)
      BY <1>2, <2>2
    <3>2. g[i - 1] = h[Len(h)]
      BY <1>2, <3>1
    <3> QED BY <1>1, <1>2, <2>2, <3>2
  <2> QED BY <1>2, <2>1, <2>2
<1> QED BY <1>3, <1>4 DEF e

\* Every entry of the history is the move the row makes.
LEMMA HistoryKept ==
  ASSUME Ind, HistoryIsTheLife, [Next]_vars
  PROVE  HistoryIsTheLife'
<1>0. TypeOK /\ TypeOK'
  BY StepKeepsInd DEF Ind
<1>1. ASSUME NEW s \in Sessions, Commits(s)
      PROVE  HistoryIsTheLife'
  <2> DEFINE t == tx[s]
             r == t.request
  <2>1. CASE Remarks(t)
    BY <2>1 DEF Remarks, HistoryIsTheLife
  <2>2. CASE ~Remarks(t)
    <3>1. PICK x \in RequestRows :
            /\ row' = [row EXCEPT ![r] = x] /\ t.row = row[r] /\ Successor(row[r], x)
            /\ Approves(t, x) \/ Counts(t, x) \/ Closes(t, x) \/ Escalates(t, x)
      BY <1>1, <2>2 DEF Commits, Writes
    <3>2. r \in Requests /\ row[r].status \in RequestStatuses /\ x.status \in RequestStatuses
      BY <1>0, <1>1, <3>1
      DEF Commits, RequestCalls, TypeOK, RequestRows, SnapshotOf, Successor
    <3>3. \/ history' = history /\ x.status = row[r].status
          \/ Logs(r, x)
      BY <3>1 DEF Approves, Counts, Closes, Escalates, Turns
    <3>4. \A q \in Requests : row'[q] = IF q = r THEN x ELSE row[q]
      <4>1. row' = [row EXCEPT ![r] = x]
        BY <3>1
      <4> QED BY <1>0, <4>1 DEF TypeOK
    <3>5. CASE history' = history /\ x.status = row[r].status
      BY <3>2, <3>4, <3>5 DEF HistoryIsTheLife, RequestStatuses
    <3>6. CASE Logs(r, x)
      <4>1. \A q \in Requests :
              history'[q] = IF q = r THEN Append(history[r], [from |-> row[r].status, to |-> x.status])
                            ELSE history[q]
        BY <1>0, <3>6 DEF Logs, TypeOK
      <4>2. /\ history[r] \in Seq(HistoryRows) /\ history[r] # <<>>
            /\ history[r][Len(history[r])].to = row[r].status
            /\ history[r][1] = [from |-> "none", to |-> "draft"]
            /\ \A i \in 2..Len(history[r]) :
                 history[r][i].from = history[r][i-1].to /\ AllowedLine(history[r][i])
            /\ AllowedLine([from |-> row[r].status, to |-> x.status])
        BY <1>0, <3>2, <3>6 DEF TypeOK, HistoryIsTheLife, RequestStatuses, Logs
      <4> DEFINE g == Append(history[r], [from |-> row[r].status, to |-> x.status])
      <4>3. /\ g # <<>> /\ g[1] = [from |-> "none", to |-> "draft"] /\ g[Len(g)].to = x.status
            /\ \A i \in 2..Len(g) : g[i].from = g[i-1].to /\ AllowedLine(g[i])
        BY <3>2, <4>2, LifeGoesOn
      <4>4. \A q \in Requests : history'[q] = IF q = r THEN g ELSE history[q]
        BY <4>1
      <4> HIDE DEF g
      <4> QED BY <3>4, <4>3, <4>4 DEF HistoryIsTheLife
    <3> QED BY <3>3, <3>5, <3>6
  <2> QED BY <2>1, <2>2
<1>2. ASSUME NEW r \in Requests, NEW new \in RequestRows, Creates(r, new)
      PROVE  HistoryIsTheLife'
  <2> DEFINE h == <<[from |-> "none", to |-> "draft"]>>
  <2>1. /\ \A q \in Requests : row'[q] = IF q = r THEN new ELSE row[q]
        /\ \A q \in Requests : history'[q] = IF q = r THEN h ELSE history[q]
        /\ new.status = "draft"
    BY <1>0, <1>2 DEF Creates, TypeOK
  <2>2. /\ h # <<>> /\ Len(h) = 1 /\ h[1].to = "draft"
        /\ h[1] = [from |-> "none", to |-> "draft"]
    OBVIOUS
  <2> HIDE DEF h
  <2> QED BY <2>1, <2>2 DEF HistoryIsTheLife
<1>3. CASE Still
  BY <1>3 DEF Still, HistoryIsTheLife
<1> QED BY <1>1, <1>2, <1>3, StepCases

-----------------------------------------------------------------------------
(* Escalations                                                             *)

\* The ledger of a request holds depths 1 to the depth on its row.
EscalationsFit ==
  /\ IsFiniteSet(escalations)
  /\ \A e \in escalations : e.depth >= 1 /\ e.depth <= row[e.request].depth

\* An escalation and its level are written together.
LEMMA EscalationsKept ==
  ASSUME Ind, AbsentIsBlank, EscalationsFit, EscalationsCounted, [Next]_vars
  PROVE  EscalationsFit' /\ EscalationsCounted'
<1> DEFINE Of(set, q) == {e \in set : e.request = q}
<1>0. /\ \A e \in escalations : e.request \in Requests /\ e.depth \in Nat /\ e.toLevel \in Nat
      /\ \A q \in Requests : row[q] \in RequestRows /\ row[q].depth \in Nat
  BY DEF Ind, TypeOK, RequestRows
<1>1. ASSUME NEW s \in Sessions, Commits(s)
      PROVE  EscalationsFit' /\ EscalationsCounted'
  <2> DEFINE t == tx[s]
             r == t.request
  <2>1. CASE Remarks(t)
    BY <2>1 DEF Remarks, EscalationsFit, EscalationsCounted
  <2>2. CASE ~Remarks(t)
    <3>1. PICK x \in RequestRows :
            /\ row' = [row EXCEPT ![r] = x] /\ t.row = row[r]
            /\ Approves(t, x) \/ Counts(t, x) \/ Closes(t, x) \/ Escalates(t, x)
      BY <1>1, <2>2 DEF Commits, Writes
    <3>2. r \in Requests /\ \A q \in Requests : row'[q] = IF q = r THEN x ELSE row[q]
      <4>1. row' = [row EXCEPT ![r] = x]
        BY <3>1
      <4>2. r \in Requests
        BY <1>1 DEF Commits, RequestCalls
      <4> QED BY <4>1, <4>2 DEF Ind, TypeOK
    <3>3. CASE ~Escalates(t, x)
      <4>1. escalations' = escalations /\ x.depth = row[r].depth
        BY <3>1, <3>3 DEF Approves, Counts, Closes
      <4>2. \A q \in Requests : row'[q].depth = row[q].depth
        BY <3>2, <4>1
      <4> QED BY <1>0, <4>1, <4>2 DEF EscalationsFit, EscalationsCounted
    <3>4. CASE Escalates(t, x)
      <4>1. PICK l \in Nat :
              /\ EscalationUnique(r, l)
              /\ escalations' = escalations \cup
                   {[request |-> r, toLevel |-> l, depth |-> x.depth]}
        BY <3>4 DEF Escalates
      <4> DEFINE e == [request |-> r, toLevel |-> l, depth |-> x.depth]
      <4>2. e.request = r /\ e.toLevel = l /\ e.depth = x.depth
        OBVIOUS
      <4>3. escalations' = escalations \cup {e}
        BY <4>1
      <4> HIDE DEF e
      <4>4. x.depth = row[r].depth + 1 /\ x.depth <= DepthCeiling /\ row[r].depth \in Nat
        BY <1>0, <3>2, <3>4 DEF Escalates
      <4>5. \A f \in escalations : f.request = r => f.toLevel # l /\ f.depth # x.depth
        BY <1>0, <4>1, <4>4 DEF EscalationUnique, EscalatedTo, EscalationsFit
      <4>6. EscalationsFit'
        <5>1. IsFiniteSet(escalations')
          BY <4>3, FS_AddElement DEF EscalationsFit
        <5>2. \A f \in escalations' : f.depth >= 1 /\ f.depth <= row'[f.request].depth
          BY <1>0, <3>2, <4>2, <4>3, <4>4 DEF EscalationsFit
        <5> QED BY <5>1, <5>2 DEF EscalationsFit
      <4>7. \A f, g \in escalations' :
              f.request = g.request /\ (f.toLevel = g.toLevel \/ f.depth = g.depth) => f = g
        BY <4>2, <4>3, <4>5 DEF EscalationsCounted
      <4>8. ASSUME NEW q \in Requests
            PROVE  row'[q].depth = Cardinality(Of(escalations', q)) /\ row'[q].depth <= DepthCeiling
        <5>1. IsFiniteSet(Of(escalations, q))
          BY FS_Subset DEF EscalationsFit
        <5>2. row[q].depth = Cardinality(Of(escalations, q)) /\ row[q].depth <= DepthCeiling
          BY DEF EscalationsCounted
        <5>3. CASE q # r
          <6>1. Of(escalations', q) = Of(escalations, q)
            BY <4>2, <4>3, <5>3
          <6> QED BY <3>2, <5>2, <5>3, <6>1
        <5>4. CASE q = r
          <6>1. Of(escalations', q) = Of(escalations, q) \cup {e} /\ e \notin Of(escalations, q)
            BY <4>2, <4>3, <4>5, <5>4
          <6> HIDE DEF Of
          <6>2. Cardinality(Of(escalations', q)) = Cardinality(Of(escalations, q)) + 1
            BY <5>1, <6>1, FS_AddElement
          <6> QED BY <3>2, <4>4, <5>2, <5>4, <6>2
        <5> QED BY <5>3, <5>4
      <4> QED BY <4>6, <4>7, <4>8 DEF EscalationsCounted
    <3> QED BY <3>3, <3>4
  <2> QED BY <2>1, <2>2
<1>2. ASSUME NEW r \in Requests, NEW new \in RequestRows, Creates(r, new)
      PROVE  EscalationsFit' /\ EscalationsCounted'
  <2>1. \A q \in Requests : row'[q].depth = row[q].depth
    BY <1>2 DEF Creates, Ind, TypeOK, AbsentIsBlank, NoRow
  <2>2. escalations' = escalations
    BY <1>2 DEF Creates
  <2> QED BY <1>0, <2>1, <2>2 DEF EscalationsFit, EscalationsCounted
<1>3. CASE Still
  BY <1>3 DEF Still, EscalationsFit, EscalationsCounted
<1> QED BY <1>1, <1>2, <1>3, StepCases

-----------------------------------------------------------------------------
(* Authority                                                               *)

\* A grant to u from d exists, whatever became of it since.
Granted(u, d) ==
  \E i \in DOMAIN delegations : delegations[i].delegator = d /\ delegations[i].delegate = u
CallsGranted ==
  \A s \in Sessions : tx[s] \in RequestCalls /\ tx[s].behalf # NoUser =>
    Granted(tx[s].actor, tx[s].behalf)

\* Grants are never erased.
LEMMA GrantsStand ==
  ASSUME Ind, [Next]_vars, NEW u, NEW d, Granted(u, d)
  PROVE  Granted(u, d)'
<1> DEFINE Grants == [delegator : Users, delegate : Users,
                      status : {"active", "revoked"}, endsAt : {"never", "future", "past"}]
<1>0. delegations \in Seq(Grants)
  BY DEF Ind, TypeOK
<1>1. CASE delegations' = delegations
  BY <1>1 DEF Granted
<1>2. ASSUME NEW g \in Grants, delegations' = Append(delegations, g)
      PROVE  Granted(u, d)'
  <2> HIDE DEF Grants
  <2>1. \A i \in DOMAIN delegations : i \in DOMAIN delegations' /\ delegations'[i] = delegations[i]
    BY <1>0, <1>2
  <2> QED BY <2>1 DEF Granted
<1>3. ASSUME NEW j \in DOMAIN delegations, RevokeDelegation(j) \/ DelegationEnds(j)
      PROVE  Granted(u, d)'
  <2>1. delegations[j] \in Grants
    <3> HIDE DEF Grants
    <3> QED BY <1>0
  <2>2. PICK g \in Grants :
          /\ delegations' = [delegations EXCEPT ![j] = g]
          /\ g.delegator = delegations[j].delegator /\ g.delegate = delegations[j].delegate
    <3> DEFINE g == IF RevokeDelegation(j) THEN [delegations[j] EXCEPT !.status = "revoked"]
                    ELSE [delegations[j] EXCEPT !.endsAt = "past"]
    <3>1. /\ g \in Grants
          /\ g.delegator = delegations[j].delegator /\ g.delegate = delegations[j].delegate
      BY <2>1
    <3>2. delegations' = [delegations EXCEPT ![j] = g]
      BY <1>3 DEF RevokeDelegation, DelegationEnds
    <3> HIDE DEF g
    <3> QED BY <3>1, <3>2
  <2> HIDE DEF Grants
  <2>3. DOMAIN delegations' = DOMAIN delegations
    BY <2>2
  <2>4. \A i \in DOMAIN delegations :
          /\ delegations'[i].delegator = delegations[i].delegator
          /\ delegations'[i].delegate = delegations[i].delegate
    BY <2>2
  <2> QED BY <2>3, <2>4 DEF Granted
<1>4. ASSUME NEW s \in Sessions, Begin(s) \/ Rollback(s)
      PROVE  delegations' = delegations
  BY <1>4, BeginPreserves DEF Ind, Rollback, tables
<1>5. ASSUME NEW s \in Sessions, Commit(s)
      PROVE  delegations' = delegations
  BY <1>5, CommitWrites DEF Commit, CommitOnRequest, CommitCreate
<1>6. CASE Delegation
  <2>1. ASSUME NEW e \in Users, NEW f \in Users, NEW endsAt \in {"never", "future"},
               GrantDelegation(e, f, endsAt)
        PROVE  Granted(u, d)'
    <3> DEFINE g == [delegator |-> e, delegate |-> f, status |-> "active", endsAt |-> endsAt]
    <3>1. g \in Grants /\ delegations' = Append(delegations, g)
      BY <2>1 DEF GrantDelegation
    <3> HIDE DEF g, Grants
    <3> QED BY <1>2, <3>1
  <2> QED BY <1>3, <1>6, <2>1 DEF Delegation
<1> QED BY <1>1, <1>4, <1>5, <1>6 DEF Next, vars

\* A call opens for somebody else only on a live grant.
LEMMA OpeningGranted ==
  ASSUME Ind, NEW s \in Sessions, Begin(s), tx'[s] \in RequestCalls,
         tx'[s].behalf # NoUser
  PROVE  Granted(tx'[s].actor, tx'[s].behalf)
<1>0. \A c : tx' = [tx EXCEPT ![s] = c] => tx'[s] = c
  BY DEF Ind, TypeOK
<1>1. ASSUME NEW k \in Keys \cup {NoKey}, BeginCreate(s, k)
      PROVE  FALSE
  <2> DEFINE c == [op |-> "create", key |-> k]
  <2>1. tx' = [tx EXCEPT ![s] = c]
    BY <1>1 DEF BeginCreate
  <2>2. c \notin RequestCalls
    BY DEF RequestCalls, RequestOps, Recordable, Overrides
  <2> HIDE DEF c
  <2> QED BY <1>0, <2>1, <2>2
<1>2. ASSUME NEW op, NEW r, NEW u, NEW behalf, NEW l, NEW reassign,
             Read(s, op, r, u, behalf, l, reassign)
      PROVE  tx'[s].actor = u /\ tx'[s].behalf = behalf
  BY <1>0, <1>2 DEF Read
<1>3. ASSUME NEW r \in Requests, BeginSubmit(s, r) \/ BeginResubmit(s, r) \/ BeginCancel(s, r)
      PROVE  FALSE
  <2>1. PICK op \in {"submit", "resubmit", "cancel"} : Read(s, op, r, NoUser, NoUser, 0, FALSE)
    BY <1>3 DEF BeginSubmit, BeginResubmit, BeginCancel
  <2> QED BY <1>2, <2>1
<1>4. ASSUME NEW u \in Users, NEW r \in Requests, NEW kind \in Recordable,
             NEW behalf \in Users \cup {NoUser}, BeginDecision(s, u, r, kind, behalf)
      PROVE  Granted(tx'[s].actor, tx'[s].behalf)
  <2>1. Read(s, kind, r, u, behalf, 0, FALSE) /\ (behalf # NoUser => ActsFor(u, behalf))
    BY <1>4 DEF BeginDecision
  <2>2. tx'[s].actor = u /\ tx'[s].behalf = behalf
    BY <1>2, <2>1
  <2>3. Granted(u, behalf)
    BY <2>1, <2>2 DEF ActsFor, Granted
  <2> QED BY <2>2, <2>3
<1>5. ASSUME NEW u \in Users, NEW r \in Requests, NEW kind \in Overrides,
             BeginOverride(s, u, r, kind)
      PROVE  FALSE
  <2>1. Read(s, kind, r, u, NoUser, 0, FALSE)
    BY <1>5 DEF BeginOverride
  <2> QED BY <1>2, <2>1
<1>6. ASSUME NEW r \in Requests, NEW l \in EscalationLevels, NEW reassign \in BOOLEAN,
             BeginFire(s, r, l, reassign)
      PROVE  FALSE
  <2>1. Read(s, "fire", r, NoUser, NoUser, l, reassign)
    BY <1>6 DEF BeginFire
  <2> QED BY <1>2, <2>1
<1> QED BY <1>1, <1>3, <1>4, <1>5, <1>6 DEF Begin

\* An open call was opened by this step, or was as it is before it.
LEMMA CallsStand ==
  ASSUME Ind, [Next]_vars, NEW q \in Sessions, tx'[q] \in RequestCalls
  PROVE  tx'[q] = tx[q] \/ Begin(q)
<1>1. Idle \notin RequestCalls
  BY DEF Idle, RequestCalls
<1>2. ASSUME NEW s \in Sessions, Begin(s), tx'[q] # tx[q]
      PROVE  s = q
  BY <1>2, ZenonT(60) DEF Begin, BeginCreate, BeginSubmit, BeginResubmit, BeginCancel,
     BeginDecision, BeginOverride, BeginFire, Read, Ind, TypeOK
<1>3. ASSUME NEW s \in Sessions, Finish(s)
      PROVE  tx'[q] = tx[q]
  BY <1>1, <1>3 DEF Finish, Ind, TypeOK
<1>4. ASSUME NEW s \in Sessions, Commit(s) \/ Rollback(s)
      PROVE  Finish(s)
  BY <1>4, CommitWrites DEF Commit, CommitOnRequest, CommitCreate, Finish, Rollback
<1>5. CASE Delegation
  BY <1>5 DEF Delegation, GrantDelegation, RevokeDelegation, DelegationEnds
<1> QED BY <1>2, <1>3, <1>4, <1>5 DEF Next, vars

\* Whoever decides for somebody holds a grant, for grants are never erased.
LEMMA AuthorityKept ==
  ASSUME Ind, CallsGranted, DelegatedAuthority, [Next]_vars
  PROVE  CallsGranted' /\ DelegatedAuthority'
<1>2. ASSUME NEW q \in Sessions, tx'[q] \in RequestCalls, tx'[q].behalf # NoUser
      PROVE  Granted(tx'[q].actor, tx'[q].behalf)
  <2>1. CASE tx'[q] = tx[q]
    BY <1>2, <2>1 DEF CallsGranted
  <2>2. CASE Begin(q)
    BY <1>2, <2>2, OpeningGranted
  <2> QED BY <1>2, <2>1, <2>2, CallsStand
<1>3. CallsGranted'
  <2> SUFFICES ASSUME NEW q \in Sessions, tx'[q] \in RequestCalls, tx'[q].behalf # NoUser
               PROVE  Granted(tx[q].actor, tx[q].behalf)'
    BY DEF CallsGranted
  <2> DEFINE u == tx'[q].actor
             d == tx'[q].behalf
  <2>1. Granted(u, d)
    BY <1>2
  <2>2. \A v, e : Granted(v, e) => Granted(v, e)'
    BY GrantsStand
  <2> QED BY <2>1, <2>2 DEF Granted
<1>4. DelegatedAuthority'
  <2> SUFFICES ASSUME NEW d \in decisions', d.behalf # NoUser
               PROVE  Granted(d.actor, d.behalf)'
    BY DEF DelegatedAuthority, Granted
  <2>1. Granted(d.actor, d.behalf)
    <3>1. CASE d \in decisions
      BY <3>1 DEF DelegatedAuthority, Granted
    <3>2. ASSUME NEW s \in Sessions, Commits(s), d \notin decisions
          PROVE  Granted(d.actor, d.behalf)
      <4>1. d = Decision(tx[s])
        BY <3>2 DEF Commits, Writes, Remarks, Approves, Counts, Closes, Escalates, Turns
      <4>2. d.actor = tx[s].actor /\ d.behalf = tx[s].behalf
        BY <4>1 DEF Decision
      <4> QED BY <3>2, <4>2 DEF Commits, CallsGranted
    <3>3. decisions' # decisions => \E s \in Sessions : Commits(s)
      BY StepCases DEF Creates, Still
    <3> QED BY <3>1, <3>2, <3>3
  <2> QED BY <2>1, GrantsStand
<1> QED BY <1>3, <1>4

-----------------------------------------------------------------------------
(* Distinct approvers                                                      *)

\* While a call can still commit an approval that needs another, its actor is
\* not among those who approved.
PriorsStand ==
  \A s \in Sessions :
    /\ tx[s] \in RequestCalls /\ tx[s].op = "approve"
    /\ CasHits(tx[s]) /\ tx[s].row.required > 1
    => tx[s].actor \notin Approvers(tx[s].request)

\* The call that opens an approval has looked the approvers up.
LEMMA OpeningPriors ==
  ASSUME Ind, NEW s \in Sessions, Begin(s), tx'[s] \in RequestCalls,
         tx'[s].op = "approve", tx'[s].row.required > 1
  PROVE  tx'[s].actor \notin Approvers(tx'[s].request)
<1>0. \A c : tx' = [tx EXCEPT ![s] = c] => tx'[s] = c
  BY DEF Ind, TypeOK
<1>1. ASSUME NEW op, NEW r, NEW u, NEW behalf, NEW l, NEW reassign,
             Read(s, op, r, u, behalf, l, reassign)
      PROVE  /\ op = "approve" /\ tx'[s].actor = u /\ tx'[s].request = r
             /\ tx'[s].row = row[r]
  <2> DEFINE c == [op |-> op, request |-> r, actor |-> u, behalf |-> behalf,
                   toLevel |-> l, reassign |-> reassign, row |-> row[r]]
  <2>1. tx'[s] = c
    BY <1>0, <1>1 DEF Read
  <2>2. c.op = op /\ c.actor = u /\ c.request = r /\ c.row = row[r]
    OBVIOUS
  <2> HIDE DEF c
  <2> QED BY <2>1, <2>2
<1>2. ASSUME NEW k \in Keys \cup {NoKey}, BeginCreate(s, k)
      PROVE  FALSE
  <2> DEFINE c == [op |-> "create", key |-> k]
  <2>1. tx'[s] = c /\ c.op = "create"
    BY <1>0, <1>2 DEF BeginCreate
  <2> HIDE DEF c
  <2> QED BY <2>1
<1>3. ASSUME NEW r \in Requests, BeginSubmit(s, r) \/ BeginResubmit(s, r) \/ BeginCancel(s, r)
      PROVE  FALSE
  <2>1. PICK op \in {"submit", "resubmit", "cancel"} : Read(s, op, r, NoUser, NoUser, 0, FALSE)
    BY <1>3 DEF BeginSubmit, BeginResubmit, BeginCancel
  <2> QED BY <1>1, <2>1
<1>4. ASSUME NEW u \in Users, NEW r \in Requests, NEW kind \in Recordable,
             NEW behalf \in Users \cup {NoUser}, BeginDecision(s, u, r, kind, behalf)
      PROVE  tx'[s].actor \notin Approvers(tx'[s].request)
  <2>1. Read(s, kind, r, u, behalf, 0, FALSE)
    BY <1>4 DEF BeginDecision
  <2>2. /\ kind = "approve" /\ tx'[s].actor = u /\ tx'[s].request = r
        /\ tx'[s].row = row[r]
    BY <1>1, <2>1
  <2>3. SodAllowed(u, row[r], behalf, Approvers(r))
    BY <1>4, <2>2 DEF BeginDecision
  <2> QED BY <2>2, <2>3 DEF SodAllowed
<1>5. ASSUME NEW u \in Users, NEW r \in Requests, NEW kind \in Overrides,
             BeginOverride(s, u, r, kind)
      PROVE  FALSE
  <2>1. Read(s, kind, r, u, NoUser, 0, FALSE) /\ kind # "approve"
    BY <1>5 DEF BeginOverride, Overrides
  <2> QED BY <1>1, <2>1
<1>6. ASSUME NEW r \in Requests, NEW l \in EscalationLevels, NEW reassign \in BOOLEAN,
             BeginFire(s, r, l, reassign)
      PROVE  FALSE
  <2>1. Read(s, "fire", r, NoUser, NoUser, l, reassign)
    BY <1>6 DEF BeginFire
  <2> QED BY <1>1, <2>1
<1> QED BY <1>2, <1>3, <1>4, <1>5, <1>6 DEF Begin

\* A commit that does not approve a request leaves its approvers.
LEMMA OtherApprovers ==
  ASSUME NEW s \in Sessions, Commits(s), NEW r \in Requests,
         tx[s].op \notin Approving \/ r # tx[s].request
  PROVE  ApproversIn(decisions', r) = ApproversIn(decisions, r)
<1>1. Approvers(r)' = Approvers(r)
  BY LedgerLine
<1> QED BY <1>1 DEF Approvers

\* An approval moves the version, so every other call on the request misses.
LEMMA PriorsKept ==
  ASSUME Ind, PriorsStand, [Next]_vars
  PROVE  PriorsStand'
<1> SUFFICES ASSUME NEW q \in Sessions, tx'[q] \in RequestCalls, tx'[q].op = "approve",
                    CasHits(tx[q])', tx'[q].row.required > 1
             PROVE  tx'[q].actor \notin ApproversIn(decisions', tx'[q].request)
  BY Zenon DEF PriorsStand, Approvers
<1> DEFINE t == tx'[q]
           r == t.request
<1>1. CASE Begin(q)
  <2>1. decisions' = decisions
    BY <1>1, BeginPreserves DEF Ind, tables
  <2> QED BY <1>1, <2>1, OpeningPriors DEF Approvers
<1>2. CASE tx'[q] = tx[q]
  <2>1. /\ t \in RequestCalls /\ SnapshotOf(t) /\ r \in Requests
        /\ t.row.version \in Nat /\ row[r].version \in Nat
    BY <1>2 DEF Ind, Snapshots, RequestCalls, RequestRows, TypeOK
  <2>2. row'[r].version = t.row.version
    BY DEF CasHits
  <2>3. row[r].version = t.row.version => t.actor \notin Approvers(r)
    BY <1>2 DEF PriorsStand, CasHits
  <2>4. ASSUME NEW s \in Sessions, Commits(s)
        PROVE  t.actor \notin ApproversIn(decisions', r)
    <3>1. CASE Remarks(tx[s])
      <4>1. row' = row /\ tx[s].op \notin Approving
        BY <3>1 DEF Remarks, Remark, Approving
      <4> QED BY <2>1, <2>2, <2>3, <2>4, <4>1, OtherApprovers DEF Approvers
    <3>2. CASE ~Remarks(tx[s])
      <4>1. PICK x \in RequestRows :
              row' = [row EXCEPT ![tx[s].request] = x] /\ x.version = row[tx[s].request].version + 1
        BY <2>4, <3>2 DEF Commits, Writes, Successor
      <4>2. row'[r] = IF r = tx[s].request THEN x ELSE row[r]
        BY <2>1, <2>4, <4>1, WritesOneRow DEF Commits
      <4>3. r # tx[s].request
        BY <2>1, <2>2, <4>1, <4>2 DEF SnapshotOf
      <4> QED BY <2>1, <2>2, <2>3, <2>4, <4>2, <4>3, OtherApprovers DEF Approvers
    <3> QED BY <3>1, <3>2
  <2>5. ASSUME NEW c \in Requests, NEW new \in RequestRows, Creates(c, new)
        PROVE  t.actor \notin ApproversIn(decisions', r)
    <3>1. r # c
      BY <2>1, <2>5 DEF SnapshotOf, Creates
    <3>2. row'[r] = row[r] /\ decisions' = decisions
      BY <2>1, <2>5, <3>1 DEF Creates, Ind, TypeOK
    <3> QED BY <2>2, <2>3, <3>2 DEF Approvers
  <2>6. CASE Still
    BY <2>2, <2>3, <2>6 DEF Still, Approvers
  <2> QED BY <2>4, <2>5, <2>6, StepCases
<1> QED BY <1>1, <1>2, CallsStand

\* So no approval of the same person joins an earlier one.
LEMMA ApproversStayDistinct ==
  ASSUME Ind, PriorsStand, NobodyApprovesTwice, [Next]_vars
  PROVE  NobodyApprovesTwice'
<1>1. \A r \in Requests : row[r].status # "none" => row'[r].required = row[r].required
  <2>1. ASSUME NEW s \in Sessions, Commits(s), NEW r \in Requests
        PROVE  row'[r].required = row[r].required
    <3>1. CASE row' = row
      BY <3>1
    <3>2. CASE row' # row
      <4>1. PICK x \in RequestRows :
              row' = [row EXCEPT ![tx[s].request] = x] /\ Successor(row[tx[s].request], x)
        BY <2>1, <3>2 DEF Commits, Writes, Remarks
      <4>2. row'[r] = IF r = tx[s].request THEN x ELSE row[r]
        BY <2>1, <4>1, WritesOneRow, ZenonT(60) DEF Commits
      <4> QED BY <4>1, <4>2 DEF Successor
    <3> QED BY <3>1, <3>2
  <2>2. ASSUME NEW c \in Requests, NEW new \in RequestRows, Creates(c, new),
               NEW r \in Requests, row[r].status # "none"
        PROVE  row'[r].required = row[r].required
    BY <2>2 DEF Creates, Ind, TypeOK
  <2> QED BY <2>1, <2>2, StepCases DEF Still
<1>2. \A d \in decisions : d.request \in Requests /\ row[d.request].status # "none"
  BY DEF Ind, TypeOK, LedgerRooted, DecisionRows
<1>3. ASSUME NEW d \in decisions', NEW e \in decisions', d \notin decisions,
             d.kind = "approve", e.kind = "approve", d.request = e.request,
             d.actor = e.actor, row'[d.request].required > 1
      PROVE  d = e
  <2>1. PICK s \in Sessions : Commits(s)
    BY <1>3, StepCases DEF Creates, Still
  <2>2. d = Decision(tx[s]) /\ decisions' = decisions \cup {Decision(tx[s])}
    BY <1>3, <2>1 DEF Commits, Writes, Remarks, Approves, Counts, Closes, Escalates, Turns
  <2>3. /\ d.request = tx[s].request /\ d.kind = tx[s].op /\ d.actor = tx[s].actor
        /\ tx[s] \in RequestCalls /\ tx[s].request \in Requests
    BY <2>1, <2>2 DEF Decision, Commits, RequestCalls
  <2>4. CASE e \in decisions
    <3>1. e.actor \in Approvers(tx[s].request)
      BY <1>3, <2>3, <2>4 DEF Approvers, ApproversIn, Approving
    <3>2. tx[s].row = row[tx[s].request]
      BY <1>3, <2>1, <2>3 DEF Commits, Writes, Remarks, Remark
    <3>3. tx[s].row.required > 1
      BY <1>1, <1>2, <1>3, <2>3, <2>4, <3>2
    <3> QED BY <1>3, <2>3, <3>1, <3>2, <3>3 DEF PriorsStand, CasHits
  <2> QED BY <2>2, <2>4
<1>4. ASSUME NEW d \in decisions, NEW e \in decisions,
             d.kind = "approve", e.kind = "approve", d.request = e.request,
             d.actor = e.actor, row'[d.request].required > 1
      PROVE  d = e
  BY <1>1, <1>2, <1>4 DEF NobodyApprovesTwice
<1> QED BY <1>3, <1>4 DEF NobodyApprovesTwice

-----------------------------------------------------------------------------
(* The theorems                                                            *)

Ledgers ==
  /\ AbsentIsBlank
  /\ ReleasesFollow /\ ReleasedOnceApproved
  /\ CountMatchesLedger /\ HistoryIsTheLife
  /\ EscalationsFit /\ EscalationsCounted
  /\ CallsGranted /\ DelegatedAuthority
  /\ PriorsStand /\ NobodyApprovesTwice

\* The ledgers agree with the empty tables.
LEMMA InitLedgers == Init => Ledgers
<1> SUFFICES ASSUME Init PROVE Ledgers
  OBVIOUS
<1>1. \A r \in Requests : row[r] = NoRow
  BY DEF Init
<1>2. AbsentIsBlank /\ HistoryIsTheLife
  BY <1>1 DEF AbsentIsBlank, HistoryIsTheLife, NoRow
<1>3. ReleasesFollow /\ ReleasedOnceApproved
  BY <1>1 DEF Init, ReleasesFollow, ReleasedOnceApproved, NoRow
<1>4. CountMatchesLedger
  <2>1. \A r \in Requests : Approvers(r) = {}
    BY DEF Init, Approvers, ApproversIn
  <2> QED BY <1>1, <2>1, FS_EmptySet DEF CountMatchesLedger, NoRow
<1>5. EscalationsFit /\ EscalationsCounted
  <2>1. \A r \in Requests : {e \in escalations : e.request = r} = {}
    BY DEF Init
  <2> QED BY <1>1, <2>1, FS_EmptySet, BoundsAssumption
      DEF Init, EscalationsFit, EscalationsCounted, NoRow
<1>6. CallsGranted /\ DelegatedAuthority
  BY DEF Init, CallsGranted, DelegatedAuthority, Idle, RequestCalls
<1>7. PriorsStand /\ NobodyApprovesTwice
  BY DEF Init, PriorsStand, NobodyApprovesTwice, Idle, RequestCalls
<1> QED BY <1>2, <1>3, <1>4, <1>5, <1>6, <1>7 DEF Ledgers

\* Every ledger stays in step with the row it stands beside.
THEOREM LedgerInvariance == Spec => [](Ind /\ Ledgers)
<1>1. Init => Ind /\ Ledgers
  BY InitInd, InitLedgers
<1>2. Ind /\ Ledgers /\ [Next]_vars => Ind' /\ Ledgers'
  BY StepKeepsInd, RowsKept, OutcomesKept, CountKept, HistoryKept, EscalationsKept,
     AuthorityKept, PriorsKept, ApproversStayDistinct DEF Ledgers
<1> QED BY <1>1, <1>2, PTL DEF Spec

\* The released outcome that downstream modules gate on exists exactly when
\* the request is approved, names its final approver, and is its only outcome.
THEOREM ReleaseIsTheApproval == Spec => []ReleasedOnceApproved
<1>1. Ledgers => ReleasedOnceApproved
  BY DEF Ledgers
<1> QED BY <1>1, LedgerInvariance, PTL

\* approvals_count is the number of distinct approvers in the ledger, however
\* approvals, returns and escalations race.
THEOREM CounterIsTrue == Spec => []CountMatchesLedger
<1>1. Ledgers => CountMatchesLedger
  BY DEF Ledgers
<1> QED BY <1>1, LedgerInvariance, PTL

\* The history of a request begins with its creation, goes from status to status
\* by moves the lifecycle allows (or by one more escalation), and ends where the
\* row stands.
THEOREM HistoryIsTrue == Spec => []HistoryIsTheLife
<1>1. Ledgers => HistoryIsTheLife
  BY DEF Ledgers
<1> QED BY <1>1, LedgerInvariance, PTL

\* However timers and people race, a request escalates once per level, its
\* depth counts its escalations, and the depth stays under the ceiling.
THEOREM EscalatesOncePerLevel == Spec => []EscalationsCounted
<1>1. Ledgers => EscalationsCounted
  BY DEF Ledgers
<1> QED BY <1>1, LedgerInvariance, PTL

\* evaluateSod holds at commit although it ran before other calls committed:
\* nobody ever approves what they made or prepared, no delegate approves for the
\* maker, whoever decided for somebody had been granted it, and where the quorum
\* is more than one nobody approves twice.
THEOREM DutiesAreSegregated == Spec => []SegregationOfDuties
<1>1. Ind /\ Ledgers => SegregationOfDuties
  BY DEF Ind, Ledgers, SegregationOfDuties
<1> QED BY <1>1, LedgerInvariance, PTL

\* A decision that moves the request lands only while it is open, although
\* recordDecision checks that before other calls may commit.
THEOREM DecisionsLandInTime == Spec => MovesLandWhileActionable
<1>1. ASSUME Ind, [Next]_vars, NEW d \in decisions' \ decisions, d.kind \notin Remark
      PROVE  Actionable(row[d.request].status)
  <2>1. PICK s \in Sessions : Commits(s)
    BY <1>1, StepCases, SMTT(30) DEF Creates, Still
  <2>2. d = Decision(tx[s]) /\ tx[s].op \in Deciding
    BY <1>1, <2>1, LedgerLine DEF Commits, Writes, Remarks, Approves, Counts, Closes,
       Escalates, Turns, Remark, Deciding, Recordable, Overrides, Approving
  <2>3. d.request = tx[s].request /\ d.kind = tx[s].op
    BY <2>2 DEF Decision
  <2>4. tx[s].row = row[tx[s].request]
    BY <1>1, <2>1, <2>3 DEF Commits, Writes, Remarks
  <2> QED BY <2>1, <2>2, <2>3, <2>4 DEF Commits, SnapshotOf
<1>2. Ind /\ [Next]_vars =>
        [\A d \in decisions' \ decisions :
           d.kind \notin Remark => Actionable(row[d.request].status)]_vars
  BY <1>1
<1> QED BY <1>2, Invariance, PTL DEF Spec, MovesLandWhileActionable

-----------------------------------------------------------------------------
(* The promise of ControlledRelease                                        *)

\* What the promise sees of a request.
SameFace(q) ==
  /\ StageOf(q)' = StageOf(q) /\ row'[q].required = row[q].required
  /\ BarredFrom(q)' = BarredFrom(q) /\ Approvers(q)' = Approvers(q)
  /\ Overridden(q)' = Overridden(q) /\ row'[q].finalApprover = row[q].finalApprover

\* A step no promise of which is touched stutters.
LEMMA FacesKeptStutter ==
  ASSUME \A q \in Requests : SameFace(q)
  PROVE  UNCHANGED Promise!vars
BY DEF SameFace, Promise!vars

\* A row that is not written keeps its face, but for the ledger.
LEMMA FaceOfRow ==
  ASSUME NEW q \in Requests, row'[q] = row[q],
         Approvers(q)' = Approvers(q), Overridden(q)' = Overridden(q)
  PROVE  SameFace(q)
BY DEF SameFace, StageOf, BarredFrom

\* A commit on one request keeps the face of every other.
LEMMA OtherFaces ==
  ASSUME NEW s \in Sessions, Commits(s), NEW q \in Requests, q # tx[s].request,
         row'[q] = row[q]
  PROVE  SameFace(q)
<1>1. Approvers(q)' = Approvers(q) /\ (Overridden(q)' <=> Overridden(q))
  BY LedgerLine
<1>2. Overridden(q)' \in BOOLEAN /\ Overridden(q) \in BOOLEAN
  BY DEF Overridden
<1> QED BY <1>1, <1>2, FaceOfRow

\* The initial state is the initial state of the promise.
LEMMA PromiseStarts == Init => Promise!Init
<1> SUFFICES ASSUME Init PROVE Promise!Init
  OBVIOUS
<1>1. \A r \in Requests : row[r] = NoRow
  BY DEF Init
<1>2. \A r \in Requests :
        /\ StageOf(r) = "absent" /\ row[r].required = 1 /\ BarredFrom(r) = {}
        /\ Approvers(r) = {} /\ Overridden(r) = FALSE /\ row[r].finalApprover = NoUser
  BY <1>1 DEF Init, StageOf, BarredFrom, Approvers, ApproversIn, Overridden, NoRow
<1> QED BY <1>2 DEF Promise!Init

\* A create opens the request to the promise.
LEMMA CreateOpens ==
  ASSUME Ind, AbsentIsBlank, NEW r \in Requests, NEW new \in RequestRows, Creates(r, new)
  PROVE  Promise!Open(r)
<1>1. \A q \in Requests : row'[q] = IF q = r THEN new ELSE row[q]
  BY DEF Creates, Ind, TypeOK
<1>2. decisions' = decisions /\ new.status = "draft" /\ new.finalApprover = NoUser
      /\ row[r].status = "none" /\ row[r].finalApprover = NoUser
      /\ new.required \in Nat \ {0}
      /\ new.maker \in Users \cup {NoUser} /\ new.preparer \in Users \cup {NoUser}
  BY DEF Creates, AbsentIsBlank, NoRow, RequestRows
<1>3. \A q \in Requests : Approvers(q)' = Approvers(q) /\ Overridden(q)' = Overridden(q)
  BY <1>2 DEF Approvers, Overridden
<1>4. \A q \in Requests : row'[q].finalApprover = row[q].finalApprover
  BY <1>1, <1>2
<1>5. \A q \in Requests \ {r} : SameFace(q)
  BY <1>1, <1>3, FaceOfRow
<1>6. StageOf(r) = "absent" /\ StageOf(r)' = "open"
  BY <1>1, <1>2 DEF StageOf, Terminal
<1>7. BarredFrom(r)' \subseteq Users
  BY <1>1, <1>2 DEF BarredFrom
<1> DEFINE stage == [q \in Requests |-> StageOf(q)]
           quorum == [q \in Requests |-> row[q].required]
           barred == [q \in Requests |-> BarredFrom(q)]
<1>8. stage' = [stage EXCEPT ![r] = "open"] /\ stage[r] = "absent"
  BY <1>5, <1>6 DEF SameFace
<1>9. quorum' = [quorum EXCEPT ![r] = quorum'[r]] /\ quorum'[r] \in Nat \ {0}
  BY <1>1, <1>2, <1>5 DEF SameFace
<1>10. barred' = [barred EXCEPT ![r] = barred'[r]] /\ barred'[r] \subseteq Users
  BY <1>5, <1>7 DEF SameFace
<1> QED BY <1>3, <1>4, <1>8, <1>9, <1>10 DEF Promise!Open

\* The promise counts its endorsers as m22 counts its approvers.
LEMMA SameCount == ASSUME NEW S PROVE Promise!Cardinality(S) = Cardinality(S)
BY DEF Promise!Cardinality, Cardinality

\* A commit that writes the row, seen by the promise.
LEMMA CommitKeepsPromise ==
  ASSUME Ind, NEW s \in Sessions, Commits(s)
  PROVE  Promise!Next \/ UNCHANGED Promise!vars
<1> DEFINE t == tx[s]
<1>0. PICK r \in Requests : r = t.request
  BY DEF Commits, RequestCalls
<1>1. CASE Remarks(t)
  <2>1. t.op \notin Approving /\ row' = row
    BY <1>1 DEF Remarks, Remark, Approving
  <2>2. ASSUME NEW q \in Requests
        PROVE  SameFace(q)
    <3>1. Approvers(q)' = Approvers(q) /\ (Overridden(q)' <=> Overridden(q))
      BY <2>1, LedgerLine
    <3>2. Overridden(q)' \in BOOLEAN /\ Overridden(q) \in BOOLEAN
      BY DEF Overridden
    <3> QED BY <2>1, <3>1, <3>2, FaceOfRow
  <2> QED BY <2>2, FacesKeptStutter
<1>2. CASE ~Remarks(t)
  <2>1. PICK x \in RequestRows :
          /\ row' = [row EXCEPT ![r] = x] /\ t.row = row[r] /\ Successor(row[r], x)
          /\ Approves(t, x) \/ Counts(t, x) \/ Closes(t, x) \/ Escalates(t, x)
    BY <1>0, <1>2 DEF Commits, Writes
  <2>2. \A q \in Requests : row'[q] = IF q = r THEN x ELSE row[q]
    <3>1. row' = [row EXCEPT ![r] = x]
      BY <2>1
    <3> QED BY <3>1 DEF Ind, TypeOK
  <2>3. \A q \in Requests \ {r} : SameFace(q)
    BY <1>0, <2>2, OtherFaces
  <2>4. StageOf(r) = "open"
    BY <2>1 DEF Commits, SnapshotOf, StageOf
  <2>5. /\ row'[r] = x /\ x.required = row[r].required /\ BarredFrom(r)' = BarredFrom(r)
        /\ x.status # "none"
    BY <2>1, <2>2 DEF Successor, BarredFrom
  <2> DEFINE u == t.actor
             stage == [q \in Requests |-> StageOf(q)]
             quorum == [q \in Requests |-> row[q].required]
             barred == [q \in Requests |-> BarredFrom(q)]
             endorsers == [q \in Requests |-> Approvers(q)]
             overridden == [q \in Requests |-> Overridden(q)]
             releaser == [q \in Requests |-> row[q].finalApprover]
  <2>6. quorum' = quorum /\ barred' = barred
    BY <2>2, <2>3, <2>5 DEF SameFace
  <2>7. CASE Approves(t, x) \/ Counts(t, x)
    <3>1. t.op \in Approving /\ decisions' = decisions \cup {Decision(t)}
      BY <2>7 DEF Approves, Counts, Approving
    <3>2. /\ Decision(t).request = r /\ Decision(t).kind = t.op
          /\ Decision(t).actor = u
      BY <1>0 DEF Decision
    <3>3. Approvers(r)' = Approvers(r) \cup {u}
      BY <3>1, <3>2 DEF Approvers, ApproversIn
    <3>4. u \in Users /\ u \notin BarredFrom(r)
      BY <2>1, <3>1 DEF Commits, SnapshotOf, BarredFrom, Deciding, Approving, Recordable, Overrides
    <3>5. endorsers' = [endorsers EXCEPT ![r] = @ \cup {u}]
      BY <2>3, <3>3 DEF SameFace
    <3>6. Promise!Joins(r, u)
      BY <2>4, <2>6, <3>4, <3>5 DEF Promise!Joins
    <3>7. Cardinality(Approvers(r) \cup {u}) = Cardinality(ApproversIn(decisions', r))
      BY <3>3 DEF Approvers
    <3>8. t.op = "approve" => overridden' = overridden
      <4> SUFFICES ASSUME t.op = "approve", NEW q \in Requests
                   PROVE  Overridden(q)' = Overridden(q)
        OBVIOUS
      <4>1. Overridden(q)' <=> Overridden(q)
        BY <3>1, <3>2 DEF Overridden
      <4> QED BY <4>1 DEF Overridden
    <3>9. CASE Counts(t, x)
      <4>1. /\ t.op = "approve" /\ x.status = row[r].status
            /\ x.finalApprover = row[r].finalApprover
            /\ Cardinality(Approvers(r) \cup {u}) < row[r].required
        BY <1>0, <2>5, <3>7, <3>9 DEF Counts
      <4>2. stage' = stage
        BY <2>2, <2>3, <4>1 DEF SameFace, StageOf
      <4>3. releaser' = releaser
        BY <2>2, <4>1
      <4>4. Promise!Cardinality(endorsers[r] \cup {u}) < quorum[r]
        <5>1. endorsers[r] = Approvers(r) /\ quorum[r] = row[r].required
          OBVIOUS
        <5>2. Promise!Cardinality(endorsers[r] \cup {u}) = Cardinality(endorsers[r] \cup {u})
          BY SameCount
        <5> QED BY <4>1, <5>1, <5>2
      <4>5. Promise!Endorse(r, u)
        BY <3>6, <3>8, <4>1, <4>2, <4>3, <4>4 DEF Promise!Endorse
      <4> QED BY <3>4, <4>5 DEF Promise!Next
    <3>10. CASE Approves(t, x)
      <4>1. x.status = "approved" /\ x.finalApprover = u
        BY <3>10 DEF Approves
      <4>2. StageOf(r)' = "approved"
        BY <2>5, <4>1 DEF StageOf, Terminal
      <4>3. stage' = [stage EXCEPT ![r] = "approved"]
        BY <2>3, <4>2 DEF SameFace
      <4>4. releaser' = [releaser EXCEPT ![r] = u]
        BY <2>2, <4>1
      <4>5. Promise!Releases(r, u)
        BY <3>6, <4>3, <4>4 DEF Promise!Releases
      <4>6. CASE t.op = "approve"
        <5>1. Cardinality(Approvers(r) \cup {u}) >= row[r].required
          BY <1>0, <2>5, <3>7, <3>10, <4>6 DEF Approves
        <5>2. Promise!Cardinality(endorsers[r] \cup {u}) >= quorum[r]
          <6>1. endorsers[r] = Approvers(r) /\ quorum[r] = row[r].required
            OBVIOUS
          <6>2. Promise!Cardinality(endorsers[r] \cup {u}) = Cardinality(endorsers[r] \cup {u})
            BY SameCount
          <6> QED BY <5>1, <6>1, <6>2
        <5>3. Promise!Complete(r, u)
          BY <3>8, <4>5, <4>6, <5>2 DEF Promise!Complete
        <5> QED BY <3>4, <5>3 DEF Promise!Next
      <4>7. CASE t.op = "override_approve"
        <5>1. Overridden(r)' = TRUE
          BY <3>1, <3>2, <4>7 DEF Overridden
        <5>2. overridden' = [overridden EXCEPT ![r] = TRUE]
          BY <2>3, <5>1 DEF SameFace
        <5>3. Promise!Override(r, u)
          BY <4>5, <5>2 DEF Promise!Override
        <5> QED BY <3>4, <5>3 DEF Promise!Next
      <4> QED BY <3>1, <4>6, <4>7 DEF Approving
    <3> QED BY <2>7, <3>9, <3>10
  <2>8. CASE Closes(t, x) \/ Escalates(t, x)
    <3>1. /\ x.status # "approved" /\ x.finalApprover = row[r].finalApprover
          /\ \/ decisions' = decisions
             \/ t.op \notin Approving
      BY <1>0, <2>8 DEF Closes, Escalates, Turns
    <3>2. ASSUME NEW q \in Requests
          PROVE  Approvers(q)' = Approvers(q) /\ Overridden(q)' = Overridden(q)
      <4>1. Approvers(q)' = Approvers(q) /\ (Overridden(q)' <=> Overridden(q))
        <5>1. CASE decisions' = decisions
          BY <5>1 DEF Approvers, Overridden
        <5>2. CASE t.op \notin Approving
          BY <5>2, LedgerLine
        <5> QED BY <3>1, <5>1, <5>2
      <4>2. Overridden(q)' \in BOOLEAN /\ Overridden(q) \in BOOLEAN
        BY DEF Overridden
      <4> QED BY <4>1, <4>2
    <3>3. releaser' = releaser /\ endorsers' = endorsers /\ overridden' = overridden
      BY <2>2, <3>1, <3>2
    <3>4. CASE x.status \in Terminal
      <4>1. StageOf(r)' = x.status
        BY <2>5, <3>4 DEF StageOf
      <4>2. stage' = [stage EXCEPT ![r] = x.status]
        BY <2>3, <4>1 DEF SameFace
      <4>3. Promise!Close(r, x.status)
        BY <2>4, <2>6, <3>3, <4>2 DEF Promise!Close
      <4> QED BY <3>1, <3>4, <4>3 DEF Promise!Next, Terminal
    <3>5. CASE x.status \notin Terminal
      <4>1. StageOf(r)' = "open"
        BY <2>5, <3>5 DEF StageOf
      <4>2. stage' = stage
        BY <2>3, <2>4, <4>1 DEF SameFace
      <4> QED BY <2>6, <3>3, <4>2 DEF Promise!vars
    <3> QED BY <3>4, <3>5
  <2> QED BY <2>1, <2>7, <2>8
<1> QED BY <1>1, <1>2

\* m22 keeps the promise its callers gate on: every step of it is a step of
\* ControlledRelease or none at all.
THEOREM PromiseIsKept == Spec => KeepsPromise
<1>1. Init => Promise!Init
  BY PromiseStarts
<1>2. ASSUME Ind, Ledgers, [Next]_vars
      PROVE  [Promise!Next]_(Promise!vars)
  <2>1. ASSUME NEW r \in Requests, NEW new \in RequestRows, Creates(r, new)
        PROVE  Promise!Next
    BY <1>2, <2>1, CreateOpens DEF Ledgers, Promise!Next
  <2>2. CASE Still
    <3>1. row' = row /\ decisions' = decisions
      BY <2>2 DEF Still
    <3>2. \A q \in Requests : SameFace(q)
      BY <3>1 DEF SameFace, StageOf, BarredFrom, Approvers, Overridden
    <3> QED BY <3>2, FacesKeptStutter
  <2> QED BY <1>2, <2>1, <2>2, StepCases, CommitKeepsPromise
<1>3. Ind /\ Ledgers /\ [Next]_vars => [Promise!Next]_(Promise!vars)
  BY <1>2
<1> QED BY <1>1, <1>3, LedgerInvariance, PTL DEF Spec, KeepsPromise, Promise!Spec
=============================================================================
