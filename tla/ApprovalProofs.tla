--------------------------- MODULE ApprovalProofs ---------------------------
(***************************************************************************)
(* Theorems about Approval, for every set of users, requests and sessions  *)
(* and every bound.  The argument is the one behind optimistic locking: a  *)
(* call that finds the version it read finds the row it read (Snapshots),  *)
(* so what it checked before other calls committed still holds when it     *)
(* writes.                                                                 *)
(***************************************************************************)
EXTENDS Approval, FiniteSetTheorems, TLAPS

Deciding == Recordable \cup Overrides

\* What an open call knows of the row it read.
SnapshotOf(t) ==
  /\ t.row.status # "none" /\ row[t.request].status # "none"
  /\ t.row.version <= row[t.request].version
  /\ t.row.version = row[t.request].version => t.row = row[t.request]
  /\ t.row.maker = row[t.request].maker
  /\ t.row.preparer = row[t.request].preparer
  /\ t.row.required = row[t.request].required
  /\ t.row.status \notin Terminal
  /\ t.op \in Deciding => Actionable(t.row.status) /\ t.actor \in Users
  /\ t.op \in Approving =>
       /\ t.actor # t.row.maker /\ t.actor # t.row.preparer
       /\ t.behalf # NoUser => t.behalf # t.row.maker
  /\ t.op \in {"submit", "resubmit"} => CanMove(t.row.status, "pending")
  /\ t.op = "fire" => Actionable(t.row.status)

Snapshots == \A s \in Sessions : tx[s] \in RequestCalls => SnapshotOf(tx[s])

\* A ledger line belongs to a request that exists.
LedgerRooted == \A d \in decisions : row[d.request].status # "none"

\* What every call on a request does to the tables, whatever it is.
Moves(s) ==
  LET t == tx[s]
      r == t.request IN
  /\ t \in RequestCalls
  /\ tx' = [tx EXCEPT ![s] = Idle]
  /\ UNCHANGED delegations
  /\ \/ decisions' = decisions
     \/ t.op \in Deciding /\ decisions' = decisions \cup {Decision(t)}
  /\ \/ row' = row
     \/ /\ t.row = row[r]
        /\ \E x \in RequestRows :
             /\ row' = [row EXCEPT ![r] = x]
             /\ x.version = row[r].version + 1
             /\ x.status # "none"
             /\ x.maker = row[r].maker /\ x.preparer = row[r].preparer
             /\ x.required = row[r].required
             /\ x.status = "approved" => t.op \in Approving

-----------------------------------------------------------------------------
(* Typing                                                                  *)

\* A call on a request is one of RequestCalls, not the idle record or a create.
LEMMA CallIsTyped ==
  ASSUME TypeOK, NEW s \in Sessions, tx[s].op \in RequestOps
  PROVE  tx[s] \in RequestCalls
BY DEF TypeOK, Idle, CreateCalls, RequestCalls, RequestOps, Recordable, Overrides

\* The initial state is well typed.
LEMMA InitTyped == Init => TypeOK
BY UsersAssumption, KeysAssumption
DEF Init, TypeOK, NoRow, RequestRows, HistoryRows, RequestStatuses, Idle

\* Reading a row keeps the types.
LEMMA ReadTyped ==
  ASSUME TypeOK, NEW s \in Sessions, NEW op \in RequestOps, NEW r \in Requests,
         NEW actor \in Users \cup {NoUser}, NEW behalf \in Users \cup {NoUser},
         NEW toLevel \in Nat, NEW reassign \in BOOLEAN,
         Read(s, op, r, actor, behalf, toLevel, reassign)
  PROVE  TypeOK'
<1> DEFINE c == [op |-> op, request |-> r, actor |-> actor, behalf |-> behalf,
                 toLevel |-> toLevel, reassign |-> reassign, row |-> row[r]]
<1>1. c \in RequestCalls
  BY DEF RequestCalls, TypeOK
<1>2. tx' \in [Sessions -> {Idle} \cup CreateCalls \cup RequestCalls]
  <2>1. tx' = [tx EXCEPT ![s] = c]
    BY DEF Read
  <2> HIDE DEF c
  <2> QED BY <1>1, <2>1 DEF TypeOK
<1> QED BY <1>2 DEF Read, TypeOK, tables

\* Update hits only the row that was read, and writes a typed row over it.
LEMMA UpdateHits ==
  ASSUME TypeOK, Snapshots, NEW s \in Sessions, tx[s] \in RequestCalls,
         NEW status \in RequestStatuses, NEW new \in RequestRows,
         Update(tx[s], status, new)
  PROVE  LET r == tx[s].request IN
         /\ tx[s].row = row[r]
         /\ row' \in [Requests -> RequestRows]
         /\ \E x \in RequestRows :
              /\ row' = [row EXCEPT ![r] = x]
              /\ x.status = status /\ x.version = row[r].version + 1
              /\ x.maker = new.maker /\ x.preparer = new.preparer
              /\ x.required = new.required /\ x.approvals = new.approvals
              /\ x.finalApprover = new.finalApprover
              /\ x.key = new.key /\ x.depth = new.depth
<1> DEFINE r == tx[s].request
           x == [new EXCEPT !.status = status, !.version = row[r].version + 1]
<1>1. r \in Requests /\ row[r] \in RequestRows /\ row[r].version \in Nat
  BY DEF TypeOK, RequestCalls, RequestRows
<1>2. x \in RequestRows
  <2>1. \A v \in Nat : [new EXCEPT !.status = status, !.version = v] \in RequestRows
    BY DEF RequestRows
  <2>2. row[r].version + 1 \in Nat
    BY <1>1
  <2> QED BY <2>1, <2>2
<1>3. /\ x.status = status /\ x.version = row[r].version + 1
      /\ x.maker = new.maker /\ x.preparer = new.preparer
      /\ x.required = new.required /\ x.approvals = new.approvals
      /\ x.finalApprover = new.finalApprover
      /\ x.key = new.key /\ x.depth = new.depth
  BY DEF RequestRows
<1>4. tx[s].row = row[r]
  BY DEF Update, CasHits, Snapshots, SnapshotOf
<1>5. row' = [row EXCEPT ![r] = x]
  BY DEF Update
<1> HIDE DEF x
<1>6. row' \in [Requests -> RequestRows]
  BY <1>1, <1>2, <1>5 DEF TypeOK
<1> QED BY <1>2, <1>3, <1>4, <1>5, <1>6

\* A logged transition is a history row.
LEMMA LogTyped ==
  ASSUME TypeOK, NEW s \in Sessions, tx[s] \in RequestCalls,
         NEW status \in RequestStatuses, Log(tx[s], status)
  PROVE  history' \in [Requests -> Seq(HistoryRows)]
<1>1. [from |-> tx[s].row.status, to |-> status] \in HistoryRows
  BY DEF RequestCalls, RequestRows, HistoryRows
<1> QED BY <1>1 DEF TypeOK, Log, RequestCalls

\* The decision an open call would record is a ledger row.
LEMMA DecideTyped ==
  ASSUME TypeOK, NEW s \in Sessions, tx[s] \in RequestCalls, SnapshotOf(tx[s]),
         tx[s].op \in Deciding
  PROVE  Decision(tx[s]) \in DecisionRows
BY DEF SnapshotOf, RequestCalls, RequestRows, Decision, DecisionRows, Deciding

\* Ending a call keeps the type of tx.
LEMMA FinishTyped ==
  ASSUME TypeOK, NEW s \in Sessions, Finish(s)
  PROVE  tx' \in [Sessions -> {Idle} \cup CreateCalls \cup RequestCalls]
<1> HIDE DEF Idle, CreateCalls, RequestCalls
<1> QED BY DEF TypeOK, Finish

\* advanceCurrentStep touches the levels of a request, not the set of requests.
LEMMA AdvanceTyped ==
  ASSUME TypeOK, NEW t, NEW to, AdvanceStep(t, to)
  PROVE  DOMAIN steps' = Requests
BY DEF TypeOK, AdvanceStep

\* A recorded outcome is an outcome row.
LEMMA OutcomeTyped ==
  ASSUME TypeOK, NEW s \in Sessions, tx[s] \in RequestCalls,
         NEW outcome \in {"approved", "rejected", "cancelled", "returned"},
         NEW approver \in Users \cup {NoUser}, RecordOutcome(tx[s], outcome, approver)
  PROVE  outcomes' \subseteq OutcomeRows
<1> DEFINE o == [request |-> tx[s].request, outcome |-> outcome,
                 finalApprover |-> approver, released |-> outcome = "approved"]
<1>1. (outcome = "approved") \in BOOLEAN
  OBVIOUS
<1>2. o \in OutcomeRows
  BY <1>1 DEF RequestCalls, OutcomeRows
<1>3. outcomes' = outcomes \cup {o}
  BY DEF RecordOutcome
<1> HIDE DEF o
<1> QED BY <1>2, <1>3 DEF TypeOK

\* A compare-and-swap that keeps maker, preparer and quorum is one of Moves.
LEMMA UpdateMoves ==
  ASSUME TypeOK, Snapshots, NEW s \in Sessions, tx[s] \in RequestCalls,
         NEW status \in RequestStatuses, NEW new \in RequestRows,
         LET r == tx[s].request IN
           /\ new.maker = row[r].maker /\ new.preparer = row[r].preparer
           /\ new.required = row[r].required,
         status = "approved" => tx[s].op \in Approving,
         Update(tx[s], status, new), Finish(s), UNCHANGED delegations,
         \/ decisions' = decisions
         \/ tx[s].op \in Deciding /\ decisions' = decisions \cup {Decision(tx[s])}
  PROVE  Moves(s)
<1>1. status # "none"
  BY DEF RequestStatuses
<1> QED BY <1>1, UpdateHits DEF Moves, Finish

\* The approvers of a request are finitely many, so their number is one.
LEMMA ApproversCounted ==
  ASSUME NEW ledger \in SUBSET DecisionRows, NEW r
  PROVE  /\ IsFiniteSet(ApproversIn(ledger, r))
         /\ Cardinality(ApproversIn(ledger, r)) \in Nat
<1>1. ApproversIn(ledger, r) \subseteq Users
  BY DEF ApproversIn, DecisionRows
<1> QED BY <1>1, UsersAssumption, FS_Subset, FS_CardinalityType

-----------------------------------------------------------------------------
(* Every commit of a call on a request keeps the types and is one of Moves. *)

\* Submit and resubmit.
LEMMA CommitPendingMoves ==
  ASSUME TypeOK, Snapshots, NEW s \in Sessions, CommitPending(s)
  PROVE  TypeOK' /\ Moves(s)
<1> DEFINE r == tx[s].request
<1>1. tx[s] \in RequestCalls
  BY CallIsTyped DEF CommitPending, RequestOps
<1>2. r \in Requests /\ row[r] \in RequestRows
  BY <1>1 DEF TypeOK, RequestCalls
<1>3. "pending" \in RequestStatuses /\ "pending" # "approved"
  BY DEF RequestStatuses
<1>4. Update(tx[s], "pending", row[r]) /\ Log(tx[s], "pending") /\ Finish(s)
  BY DEF CommitPending
<1>5. history' \in [Requests -> Seq(HistoryRows)]
  BY <1>1, <1>3, <1>4, LogTyped
<1>6. TypeOK'
  BY <1>1, <1>2, <1>3, <1>4, <1>5, UpdateHits, FinishTyped DEF TypeOK, CommitPending
<1>7. Moves(s)
  BY <1>1, <1>2, <1>3, <1>4, UpdateMoves DEF CommitPending
<1> QED BY <1>6, <1>7

\* Cancel.
LEMMA CommitCancelMoves ==
  ASSUME TypeOK, Snapshots, NEW s \in Sessions, CommitCancel(s)
  PROVE  TypeOK' /\ Moves(s)
<1> DEFINE r == tx[s].request
<1>1. tx[s] \in RequestCalls
  BY CallIsTyped DEF CommitCancel, RequestOps
<1>2. r \in Requests /\ row[r] \in RequestRows
  BY <1>1 DEF TypeOK, RequestCalls
<1>3. "cancelled" \in RequestStatuses /\ "cancelled" # "approved"
  BY DEF RequestStatuses
<1>4. /\ Update(tx[s], "cancelled", row[r]) /\ Log(tx[s], "cancelled") /\ Finish(s)
      /\ RecordOutcome(tx[s], "cancelled", NoUser)
  BY DEF CommitCancel
<1>5. history' \in [Requests -> Seq(HistoryRows)] /\ outcomes' \subseteq OutcomeRows
  BY <1>1, <1>3, <1>4, LogTyped, OutcomeTyped
<1>6. TypeOK'
  BY <1>1, <1>2, <1>3, <1>4, <1>5, UpdateHits, FinishTyped DEF TypeOK, CommitCancel
<1>7. Moves(s)
  BY <1>1, <1>2, <1>3, <1>4, UpdateMoves DEF CommitCancel
<1> QED BY <1>6, <1>7

\* The three commits that record a decision and end in a fixed status.
LEMMA DecisionMoves ==
  ASSUME TypeOK, Snapshots, NEW s \in Sessions,
         CommitReject(s) \/ CommitReturn(s) \/ CommitOverrideReject(s)
  PROVE  TypeOK' /\ Moves(s)
<1> DEFINE r == tx[s].request
           status == IF tx[s].op = "return" THEN "returned" ELSE "rejected"
<1>1. tx[s] \in RequestCalls /\ tx[s].op \in Deciding
  BY CallIsTyped
  DEF CommitReject, CommitReturn, CommitOverrideReject, RequestOps, Recordable, Overrides, Deciding
<1>2. r \in Requests /\ row[r] \in RequestRows
  BY <1>1 DEF TypeOK, RequestCalls
<1>3. status \in RequestStatuses /\ status # "approved" /\ status \in {"returned", "rejected"}
  BY DEF RequestStatuses
<1>4. /\ Update(tx[s], status, row[r]) /\ Log(tx[s], status) /\ Finish(s)
      /\ RecordOutcome(tx[s], status, NoUser) /\ Decide(tx[s])
      /\ UNCHANGED <<escalations, delegations>>
  BY DEF CommitReject, CommitReturn, CommitOverrideReject
<1>5. DOMAIN steps' = Requests
  BY AdvanceTyped DEF CommitReject, CommitReturn, CommitOverrideReject, TypeOK
<1> HIDE DEF status
<1>6. history' \in [Requests -> Seq(HistoryRows)] /\ outcomes' \subseteq OutcomeRows
  BY <1>1, <1>3, <1>4, LogTyped, OutcomeTyped
<1>7. Decision(tx[s]) \in DecisionRows
  BY <1>1, DecideTyped DEF Snapshots
<1>8. TypeOK'
  BY <1>1, <1>2, <1>3, <1>4, <1>5, <1>6, <1>7, UpdateHits, FinishTyped DEF TypeOK, Decide
<1>9. Moves(s)
  BY <1>1, <1>2, <1>3, <1>4, UpdateMoves DEF Decide
<1> QED BY <1>8, <1>9

\* Abstentions and override requests write the ledger and not the row.
LEMMA CommitRemarkMoves ==
  ASSUME TypeOK, Snapshots, NEW s \in Sessions, CommitRemark(s)
  PROVE  TypeOK' /\ Moves(s)
<1>1. tx[s] \in RequestCalls /\ tx[s].op \in Deciding
  BY CallIsTyped DEF CommitRemark, Remark, RequestOps, Recordable, Overrides, Deciding
<1>2. Decision(tx[s]) \in DecisionRows
  BY <1>1, DecideTyped DEF Snapshots
<1>3. TypeOK'
  BY <1>2, FinishTyped DEF TypeOK, CommitRemark, Decide
<1>4. Moves(s)
  BY <1>1 DEF Moves, CommitRemark, Decide, Finish
<1> QED BY <1>3, <1>4

\* The two commits that may approve; `n` is the approvals_count they store.
LEMMA ApprovalMoves ==
  ASSUME TypeOK, Snapshots, NEW s \in Sessions,
         CommitApprove(s) \/ CommitOverrideApprove(s)
  PROVE  /\ TypeOK' /\ Moves(s)
         /\ Decide(tx[s]) /\ tx[s].op \in Approving
<1> DEFINE t == tx[s]
           r == t.request
<1>1. t \in RequestCalls /\ t.op \in Deciding /\ t.op \in Approving /\ Decide(t)
  BY CallIsTyped
  DEF CommitApprove, CommitOverrideApprove, RequestOps, Recordable, Overrides, Deciding, Approving
<1>2. /\ r \in Requests /\ row[r] \in RequestRows /\ t.actor \in Users
      /\ t.row \in RequestRows /\ t.row.status \in RequestStatuses
      /\ t.row.status # "approved"
  BY <1>1 DEF TypeOK, RequestCalls, RequestRows, Snapshots, SnapshotOf, Actionable
<1>3. Decision(t) \in DecisionRows
  BY <1>1, DecideTyped DEF Snapshots
<1>4. ApprovalsAfter(t) \in Nat /\ t.row.required \in Nat
  BY <1>2, <1>3, ApproversCounted DEF ApprovalsAfter, TypeOK, RequestRows
<1>5. /\ DOMAIN steps' = Requests
      /\ decisions' \subseteq DecisionRows
      /\ tx' \in [Sessions -> {Idle} \cup CreateCalls \cup RequestCalls]
      /\ Finish(s) /\ UNCHANGED <<escalations, delegations>>
  BY <1>1, <1>3, AdvanceTyped, FinishTyped
  DEF CommitApprove, CommitOverrideApprove, TypeOK, Decide
<1>6. "approved" \in RequestStatuses
  BY DEF RequestStatuses
<1>7. PICK status \in RequestStatuses, n \in Nat, final \in Users \cup {NoUser} :
        /\ Update(t, status, [row[r] EXCEPT !.approvals = n, !.finalApprover = final])
        /\ history' \in [Requests -> Seq(HistoryRows)]
        /\ outcomes' \subseteq OutcomeRows
  <2>1. CASE CommitOverrideApprove(s)
    <3>1. Update(t, "approved", [row[r] EXCEPT !.approvals = t.row.required,
                                              !.finalApprover = t.actor])
      BY <2>1 DEF CommitOverrideApprove
    <3>2. history' \in [Requests -> Seq(HistoryRows)] /\ outcomes' \subseteq OutcomeRows
      BY <1>1, <1>2, <1>6, <2>1, LogTyped, OutcomeTyped DEF CommitOverrideApprove
    <3> QED BY <1>2, <1>4, <1>6, <3>1, <3>2
  <2>2. CASE CommitApprove(s) /\ QuorumMet(ApprovalsAfter(t), t.row.required)
    <3>1. Update(t, "approved", [row[r] EXCEPT !.approvals = ApprovalsAfter(t),
                                              !.finalApprover = t.actor])
      BY <2>2 DEF CommitApprove
    <3>2. history' \in [Requests -> Seq(HistoryRows)] /\ outcomes' \subseteq OutcomeRows
      BY <1>1, <1>2, <1>6, <2>2, LogTyped, OutcomeTyped DEF CommitApprove
    <3> QED BY <1>2, <1>4, <1>6, <3>1, <3>2
  <2>3. CASE CommitApprove(s) /\ ~QuorumMet(ApprovalsAfter(t), t.row.required)
    <3>1. Update(t, t.row.status, [row[r] EXCEPT !.approvals = ApprovalsAfter(t)])
      BY <2>3 DEF CommitApprove
    <3>2. [row[r] EXCEPT !.approvals = ApprovalsAfter(t)]
            = [row[r] EXCEPT !.approvals = ApprovalsAfter(t),
                             !.finalApprover = row[r].finalApprover]
      BY <1>2 DEF RequestRows
    <3>3. UNCHANGED <<history, outcomes>>
      BY <2>3 DEF CommitApprove
    <3>4. row[r].finalApprover \in Users \cup {NoUser}
      BY <1>2 DEF RequestRows
    <3> QED BY <1>2, <1>4, <3>1, <3>2, <3>3, <3>4 DEF TypeOK
  <2> QED BY <2>1, <2>2, <2>3
<1> DEFINE new == [row[r] EXCEPT !.approvals = n, !.finalApprover = final]
<1>8. /\ new \in RequestRows
      /\ new.maker = row[r].maker /\ new.preparer = row[r].preparer
      /\ new.required = row[r].required
  BY <1>2, <1>7 DEF RequestRows
<1>9. Update(t, status, new)
  BY <1>7
<1> HIDE DEF new
<1>10. TypeOK'
  BY <1>1, <1>5, <1>7, <1>8, <1>9, UpdateHits DEF TypeOK
<1>11. Moves(s)
  BY <1>1, <1>5, <1>7, <1>8, <1>9, UpdateMoves DEF Decide
<1> QED BY <1>1, <1>10, <1>11

\* The two commits that escalate.
LEMMA EscalationMoves ==
  ASSUME TypeOK, Snapshots, NEW s \in Sessions, CommitEscalate(s) \/ CommitFire(s)
  PROVE  TypeOK' /\ Moves(s)
<1> DEFINE t == tx[s]
           r == t.request
<1>1. t \in RequestCalls /\ (CommitEscalate(s) => t.op \in Deciding)
  BY CallIsTyped DEF CommitEscalate, CommitFire, RequestOps, Recordable, Deciding
<1>2. /\ r \in Requests /\ row[r] \in RequestRows
      /\ t.row.depth + 1 \in Nat /\ t.row.level + 1 \in Nat /\ t.row.level \in Nat
      /\ t.toLevel \in Nat
  BY <1>1, SMTT(30) DEF TypeOK, RequestCalls, RequestRows
<1>3. PICK toLevel \in Nat, level \in Nat : Escalate(t, toLevel, level)
  BY <1>2 DEF CommitEscalate, CommitFire
<1>4. "escalated" \in RequestStatuses /\ "escalated" # "approved"
  BY DEF RequestStatuses
<1> DEFINE new == [row[r] EXCEPT !.depth = t.row.depth + 1, !.level = level]
<1>5. /\ new \in RequestRows
      /\ new.maker = row[r].maker /\ new.preparer = row[r].preparer
      /\ new.required = row[r].required
  <2>1. \A d \in Nat : [row[r] EXCEPT !.depth = d, !.level = level] \in RequestRows
    BY <1>2 DEF RequestRows
  <2>2. new \in RequestRows
    BY <1>2, <2>1
  <2> QED BY <1>2, <2>2 DEF RequestRows
<1>6. Update(t, "escalated", new) /\ Log(t, "escalated") /\ Finish(s)
  BY <1>3 DEF Escalate, CommitEscalate, CommitFire
<1> HIDE DEF new
<1>7. history' \in [Requests -> Seq(HistoryRows)]
  BY <1>1, <1>4, <1>6, LogTyped
<1>8. escalations' \subseteq [request : Requests, toLevel : Nat, depth : Nat]
  BY <1>2, <1>3 DEF Escalate, TypeOK
<1>9. /\ decisions' \subseteq DecisionRows
      /\ \/ decisions' = decisions
         \/ t.op \in Deciding /\ decisions' = decisions \cup {Decision(t)}
  BY <1>1, DecideTyped DEF CommitEscalate, CommitFire, Decide, Snapshots, TypeOK
<1>10. UNCHANGED <<steps, outcomes, delegations>>
  BY DEF CommitEscalate, CommitFire
<1>11. TypeOK'
  BY <1>1, <1>4, <1>5, <1>6, <1>7, <1>8, <1>9, <1>10, UpdateHits, FinishTyped DEF TypeOK
<1>12. Moves(s)
  BY <1>1, <1>4, <1>5, <1>6, <1>9, <1>10, UpdateMoves
<1> QED BY <1>11, <1>12

-----------------------------------------------------------------------------
(* Opening a call                                                          *)

\* The machine has no edge out of a terminal state.
LEMMA OnlyOpenMoves ==
  ASSUME NEW from, NEW to, CanMove(from, to)
  PROVE  from \notin Terminal /\ from # "none"
BY DEF CanMove, RequestMachine, RequestStatuses, Terminal

\* A call that reads an open row, with its checks made, has a good snapshot.
LEMMA ReadSnapshots ==
  ASSUME TypeOK, Snapshots, NEW s \in Sessions, NEW op \in RequestOps, NEW r \in Requests,
         NEW actor \in Users \cup {NoUser}, NEW behalf \in Users \cup {NoUser},
         NEW toLevel \in Nat, NEW reassign \in BOOLEAN,
         Read(s, op, r, actor, behalf, toLevel, reassign),
         row[r].status \notin Terminal, row[r].status # "none",
         op \in Deciding => Actionable(row[r].status) /\ actor \in Users,
         op \in Approving =>
           /\ actor # row[r].maker /\ actor # row[r].preparer
           /\ behalf # NoUser => behalf # row[r].maker,
         op \in {"submit", "resubmit"} => CanMove(row[r].status, "pending"),
         op = "fire" => Actionable(row[r].status)
  PROVE  TypeOK' /\ Snapshots' /\ UNCHANGED tables
<1> DEFINE c == [op |-> op, request |-> r, actor |-> actor, behalf |-> behalf,
                 toLevel |-> toLevel, reassign |-> reassign, row |-> row[r]]
<1>1. TypeOK' /\ UNCHANGED tables
  BY ReadTyped DEF Read
<1>2. tx' = [tx EXCEPT ![s] = c]
  BY DEF Read
<1>3. row[r].version \in Nat
  BY DEF TypeOK, RequestRows
<1>4. SnapshotOf(c)
  BY <1>3 DEF SnapshotOf
<1> HIDE DEF c
<1>5. ASSUME NEW q \in Sessions, tx'[q] \in RequestCalls
      PROVE  SnapshotOf(tx[q])'
  <2>1. tx'[q] = c \/ tx'[q] = tx[q]
    BY <1>2 DEF TypeOK
  <2>2. SnapshotOf(tx'[q])
    BY <1>4, <1>5, <2>1 DEF Snapshots
  <2> QED BY <1>1, <2>2 DEF SnapshotOf, tables
<1> QED BY <1>1, <1>5 DEF Snapshots

\* Opening any call keeps the types and the snapshots and writes no table.
LEMMA BeginPreserves ==
  ASSUME TypeOK, Snapshots, NEW s \in Sessions, Begin(s)
  PROVE  TypeOK' /\ Snapshots' /\ UNCHANGED tables
<1>1. ASSUME NEW k \in Keys \cup {NoKey}, BeginCreate(s, k)
      PROVE  TypeOK' /\ Snapshots' /\ UNCHANGED tables
  <2> DEFINE c == [op |-> "create", key |-> k]
  <2>1. c \in CreateCalls /\ c \notin RequestCalls
    BY DEF CreateCalls, RequestCalls, RequestOps, Recordable, Overrides
  <2>2. tx' = [tx EXCEPT ![s] = c] /\ UNCHANGED tables
    BY <1>1 DEF BeginCreate
  <2> HIDE DEF c
  <2>3. tx' \in [Sessions -> {Idle} \cup CreateCalls \cup RequestCalls]
    BY <2>1, <2>2 DEF TypeOK
  <2>4. TypeOK'
    BY <2>2, <2>3 DEF TypeOK, tables
  <2>5. Snapshots'
    BY <2>1, <2>2 DEF Snapshots, SnapshotOf, TypeOK, tables
  <2> QED BY <2>2, <2>4, <2>5
<1>2. ASSUME NEW r \in Requests, BeginSubmit(s, r) \/ BeginResubmit(s, r) \/ BeginCancel(s, r)
      PROVE  TypeOK' /\ Snapshots' /\ UNCHANGED tables
  <2>1. PICK op \in {"submit", "resubmit", "cancel"} : Read(s, op, r, NoUser, NoUser, 0, FALSE)
    BY <1>2 DEF BeginSubmit, BeginResubmit, BeginCancel
  <2>2. row[r].status \notin Terminal /\ row[r].status # "none"
    BY <1>2, OnlyOpenMoves DEF BeginSubmit, BeginResubmit, BeginCancel, Terminal
  <2>3. op \in RequestOps /\ op \notin Deciding /\ op \notin Approving
    BY DEF RequestOps, Deciding, Approving, Recordable, Overrides
  <2>4. op \in {"submit", "resubmit"} => CanMove(row[r].status, "pending")
    <3>1. CanMove("returned", "pending")
      BY DEF CanMove, RequestMachine, RequestStatuses
    <3>2. CASE BeginSubmit(s, r)
      BY <3>2 DEF BeginSubmit
    <3>3. CASE BeginResubmit(s, r)
      BY <3>1, <3>3 DEF BeginResubmit
    <3>4. CASE BeginCancel(s, r)
      <4>1. tx'[s].op = "cancel" /\ tx'[s].op = op
        BY <2>1, <3>4 DEF BeginCancel, Read, TypeOK
      <4> QED BY <4>1
    <3> QED BY <1>2, <3>2, <3>3, <3>4
  <2> QED BY <2>1, <2>2, <2>3, <2>4, ReadSnapshots
<1>3. ASSUME NEW u \in Users, NEW r \in Requests, NEW kind \in Recordable,
             NEW behalf \in Users \cup {NoUser}, BeginDecision(s, u, r, kind, behalf)
      PROVE  TypeOK' /\ Snapshots' /\ UNCHANGED tables
  <2>1. Actionable(row[r].status) /\ Read(s, kind, r, u, behalf, 0, FALSE)
    BY <1>3 DEF BeginDecision
  <2>2. row[r].status \notin Terminal /\ row[r].status # "none"
    BY <2>1 DEF Actionable, Terminal
  <2>3. kind \in RequestOps /\ (kind \in Approving => kind = "approve") /\ kind \notin {"submit", "resubmit", "fire"}
    BY DEF RequestOps, Approving, Recordable
  <2>4. kind = "approve" =>
          /\ u # row[r].maker /\ u # row[r].preparer
          /\ behalf # NoUser => behalf # row[r].maker
    BY <1>3 DEF BeginDecision, SodAllowed
  <2> QED BY <2>1, <2>2, <2>3, <2>4, ReadSnapshots
<1>4. ASSUME NEW u \in Users, NEW r \in Requests, NEW kind \in Overrides,
             BeginOverride(s, u, r, kind)
      PROVE  TypeOK' /\ Snapshots' /\ UNCHANGED tables
  <2>1. Actionable(row[r].status) /\ Read(s, kind, r, u, NoUser, 0, FALSE)
    BY <1>4 DEF BeginOverride
  <2>2. row[r].status \notin Terminal /\ row[r].status # "none"
    BY <2>1 DEF Actionable, Terminal
  <2>3. kind \in RequestOps /\ (kind \in Approving => kind = "override_approve") /\ kind \notin {"submit", "resubmit", "fire"}
    BY DEF RequestOps, Approving, Overrides
  <2>4. kind = "override_approve" => u # row[r].maker /\ u # row[r].preparer
    BY <1>4 DEF BeginOverride, SodAllowed, TypeOK, RequestRows
  <2> QED BY <2>1, <2>2, <2>3, <2>4, ReadSnapshots
<1>5. ASSUME NEW r \in Requests, NEW l \in EscalationLevels, NEW reassign \in BOOLEAN,
             BeginFire(s, r, l, reassign)
      PROVE  TypeOK' /\ Snapshots' /\ UNCHANGED tables
  <2>1. Actionable(row[r].status) /\ Read(s, "fire", r, NoUser, NoUser, l, reassign)
    BY <1>5 DEF BeginFire
  <2>2. row[r].status \notin Terminal /\ row[r].status # "none"
    BY <2>1 DEF Actionable, Terminal
  <2>3. "fire" \in RequestOps /\ "fire" \notin Deciding /\ "fire" \notin Approving
    BY DEF RequestOps, Deciding, Approving, Recordable, Overrides
  <2>4. l \in Nat
    BY BoundsAssumption
  <2> QED BY <2>1, <2>2, <2>3, <2>4, ReadSnapshots
<1> QED BY <1>1, <1>2, <1>3, <1>4, <1>5 DEF Begin

-----------------------------------------------------------------------------
(* The inductive invariant                                                 *)

Ind ==
  /\ TypeOK
  /\ Snapshots
  /\ LedgerRooted
  /\ MakerIsNoChecker
  /\ ApprovedByQuorum

\* The inductive invariant holds of the empty tables.
LEMMA InitInd == Init => Ind
<1> SUFFICES ASSUME Init PROVE Ind
  OBVIOUS
<1>1. TypeOK
  BY InitTyped
<1>2. Snapshots
  BY DEF Init, Snapshots, Idle, RequestCalls
<1>3. LedgerRooted /\ MakerIsNoChecker
  BY DEF Init, LedgerRooted, MakerIsNoChecker
<1>4. ApprovedByQuorum
  BY DEF Init, ApprovedByQuorum, NoRow
<1> QED BY <1>1, <1>2, <1>3, <1>4 DEF Ind

\* Every commit on a request is one of Moves.
CommitOnRequest(s) ==
  \/ CommitPending(s) \/ CommitCancel(s)
  \/ CommitApprove(s) \/ CommitReject(s) \/ CommitReturn(s) \/ CommitRemark(s)
  \/ CommitOverrideApprove(s) \/ CommitOverrideReject(s)
  \/ CommitEscalate(s) \/ CommitFire(s)

\* Every commit of a call on a request keeps the types and is one of Moves.
LEMMA CommitMoves ==
  ASSUME TypeOK, Snapshots, NEW s \in Sessions, CommitOnRequest(s)
  PROVE  TypeOK' /\ Moves(s)
BY CommitPendingMoves, CommitCancelMoves, DecisionMoves, CommitRemarkMoves,
   ApprovalMoves, EscalationMoves DEF CommitOnRequest

\* A commit leaves the other calls' snapshots as good as they were: it changes
\* the row only together with its version.
LEMMA MovesKeepSnapshots ==
  ASSUME TypeOK, Snapshots, NEW s \in Sessions, Moves(s)
  PROVE  Snapshots'
<1> DEFINE t == tx[s]
           r == t.request
<1>1. r \in Requests /\ row[r] \in RequestRows /\ row[r].version \in Nat
  BY DEF Moves, TypeOK, RequestCalls, RequestRows
<1>2. Idle \notin RequestCalls
  BY DEF Idle, RequestCalls
<1> SUFFICES ASSUME NEW q \in Sessions, tx'[q] \in RequestCalls
             PROVE  SnapshotOf(tx[q])'
  BY DEF Snapshots
<1>3. tx'[q] = tx[q] /\ tx[q] \in RequestCalls
  BY <1>2 DEF Moves, TypeOK
<1>4. SnapshotOf(tx[q])
  BY <1>3 DEF Snapshots
<1>5. CASE row' = row
  BY <1>3, <1>4, <1>5 DEF SnapshotOf
<1>6. CASE row' # row
  <2>1. PICK x \in RequestRows :
          /\ row' = [row EXCEPT ![r] = x]
          /\ x.version = row[r].version + 1 /\ x.status # "none"
          /\ x.maker = row[r].maker /\ x.preparer = row[r].preparer
          /\ x.required = row[r].required
    BY <1>6 DEF Moves
  <2>2. tx[q].request \in Requests /\ tx[q].row.version \in Nat
    BY <1>3 DEF RequestCalls, RequestRows
  <2>3. CASE tx[q].request = r
    <3>1. row'[tx[q].request] = x
      BY <1>1, <2>1, <2>3 DEF TypeOK
    <3> QED BY <1>1, <1>3, <1>4, <2>1, <2>2, <2>3, <3>1 DEF SnapshotOf
  <2>4. CASE tx[q].request # r
    <3>1. row'[tx[q].request] = row[tx[q].request]
      BY <2>1, <2>2, <2>4 DEF TypeOK
    <3> QED BY <1>3, <1>4, <3>1 DEF SnapshotOf
  <2> QED BY <2>3, <2>4
<1> QED BY <1>5, <1>6

\* The rows keep maker, preparer and quorum, and never go back to "none".
LEMMA MovesKeepIdentity ==
  ASSUME TypeOK, NEW s \in Sessions, Moves(s), NEW r \in Requests
  PROVE  /\ row'[r].maker = row[r].maker /\ row'[r].preparer = row[r].preparer
         /\ row'[r].required = row[r].required
         /\ row[r].status # "none" => row'[r].status # "none"
         /\ row'[r] # row[r] => r = tx[s].request /\ tx[s].row = row[r]
<1>1. CASE row' = row
  BY <1>1
<1>2. CASE row' # row
  BY <1>2 DEF Moves, TypeOK
<1> QED BY <1>1, <1>2

\* A recorded approval passed evaluateSod against a maker and a preparer that never change.
LEMMA MovesKeepLedger ==
  ASSUME TypeOK, Snapshots, LedgerRooted, MakerIsNoChecker, NEW s \in Sessions, Moves(s)
  PROVE  LedgerRooted' /\ MakerIsNoChecker'
<1> DEFINE t == tx[s]
<1>1. SnapshotOf(t) /\ t.request \in Requests
  BY DEF Moves, Snapshots, RequestCalls
<1> SUFFICES ASSUME NEW d \in decisions'
             PROVE  /\ row'[d.request].status # "none"
                    /\ d.kind \in Approving =>
                         /\ d.actor # row'[d.request].maker
                         /\ d.actor # row'[d.request].preparer
                         /\ d.behalf # NoUser => d.behalf # row'[d.request].maker
  BY DEF LedgerRooted, MakerIsNoChecker
<1>2. CASE d \in decisions
  <2>1. d.request \in Requests
    BY <1>2 DEF TypeOK, DecisionRows
  <2> QED BY <1>2, <2>1, MovesKeepIdentity DEF LedgerRooted, MakerIsNoChecker
<1>3. CASE d \notin decisions
  <2>1. d = Decision(t)
    BY <1>3 DEF Moves
  <2>2. /\ d.request = t.request /\ d.kind = t.op
        /\ d.actor = t.actor /\ d.behalf = t.behalf
    BY <2>1 DEF Decision
  <2> QED BY <1>1, <2>2, MovesKeepIdentity DEF SnapshotOf
<1> QED BY <1>2, <1>3

-----------------------------------------------------------------------------
(* The quorum                                                              *)

\* What a ledger that only grows does to the approvers it names.
LEMMA ApproversGrow ==
  ASSUME NEW ledger \in SUBSET DecisionRows, NEW more \in SUBSET DecisionRows,
         ledger \subseteq more, NEW r
  PROVE  /\ ApproversIn(ledger, r) \subseteq ApproversIn(more, r)
         /\ Cardinality(ApproversIn(ledger, r)) <= Cardinality(ApproversIn(more, r))
<1>1. ApproversIn(ledger, r) \subseteq ApproversIn(more, r)
  BY DEF ApproversIn
<1> QED BY <1>1, ApproversCounted, FS_Subset

\* A request that was approved stays approved by quorum as the ledger grows.
LEMMA GrowthKeepsQuorum ==
  ASSUME TypeOK, TypeOK', decisions \subseteq decisions', NEW r \in Requests,
         row'[r] = row[r], ApprovedByQuorum
  PROVE  row'[r].status = "approved" =>
           /\ row'[r].finalApprover \in Approvers(r)'
           /\ Cardinality(Approvers(r)') >= row'[r].required \/ Overridden(r)'
<1>1. decisions \in SUBSET DecisionRows /\ decisions' \in SUBSET DecisionRows
  BY DEF TypeOK
<1>2. /\ Approvers(r) \subseteq Approvers(r)'
      /\ Cardinality(Approvers(r)) <= Cardinality(Approvers(r)')
  BY <1>1, ApproversGrow DEF Approvers
<1>3. Cardinality(Approvers(r)) \in Nat /\ Cardinality(Approvers(r)') \in Nat
  BY <1>1, ApproversCounted DEF Approvers
<1>4. Overridden(r) => Overridden(r)'
  BY DEF Overridden
<1>5. row[r].required \in Nat
  BY DEF TypeOK, RequestRows
<1> QED BY <1>2, <1>3, <1>4, <1>5 DEF ApprovedByQuorum

\* The commit that approves does so on a quorum it counts itself, or by override.
LEMMA ApprovalMeetsQuorum ==
  ASSUME TypeOK, Snapshots, NEW s \in Sessions,
         CommitApprove(s) \/ CommitOverrideApprove(s),
         NEW r \in Requests, r = tx[s].request, row'[r].status = "approved"
  PROVE  /\ row'[r].finalApprover \in Approvers(r)'
         /\ Cardinality(Approvers(r)') >= row'[r].required \/ Overridden(r)'
<1> DEFINE t == tx[s]
<1>1. /\ t \in RequestCalls /\ t.op \in Approving
      /\ decisions' = decisions \cup {Decision(t)}
  BY ApprovalMoves DEF Moves, Decide
<1>2. r \in Requests /\ row[r] \in RequestRows /\ SnapshotOf(t)
  BY <1>1 DEF TypeOK, RequestCalls, Snapshots
<1>3. Approvers(r)' = ApproversIn(decisions \cup {Decision(t)}, r)
  BY <1>1 DEF Approvers
<1>4. /\ Decision(t).request = r /\ Decision(t).kind = t.op
      /\ Decision(t).actor = t.actor
  BY DEF Decision
<1> HIDE DEF Decision
<1>5. t.actor \in ApproversIn(decisions \cup {Decision(t)}, r)
  BY <1>1, <1>4 DEF ApproversIn
<1>6. CASE CommitOverrideApprove(s)
  <2>1. t.op = "override_approve"
    BY <1>6 DEF CommitOverrideApprove
  <2>2. Overridden(r)'
    BY <1>1, <1>4, <2>1 DEF Overridden
  <2> DEFINE new == [row[r] EXCEPT !.approvals = t.row.required, !.finalApprover = t.actor]
  <2>3. row' = [row EXCEPT ![r] = [new EXCEPT
                  !.status = "approved", !.version = row[r].version + 1]]
    <3>1. Update(t, "approved", new)
      BY <1>6 DEF CommitOverrideApprove
    <3> HIDE DEF new
    <3> QED BY <3>1 DEF Update
  <2>4. row'[r].finalApprover = t.actor
    BY <1>2, <2>3 DEF TypeOK, RequestRows
  <2> QED BY <1>3, <1>5, <2>2, <2>4
<1>7. CASE CommitApprove(s)
  <2> DEFINE n == ApprovalsAfter(t)
             counted == [row[r] EXCEPT !.approvals = n]
  <2>1. n = Cardinality(Approvers(r)')
    BY <1>3 DEF ApprovalsAfter
  <2>2. QuorumMet(n, t.row.required)
    <3> SUFFICES ASSUME ~QuorumMet(n, t.row.required) PROVE FALSE
      OBVIOUS
    <3>1. row' = [row EXCEPT ![r] = [counted EXCEPT !.status = t.row.status,
                                                   !.version = row[r].version + 1]]
      BY <1>7 DEF CommitApprove, Update
    <3>2. row'[r].status = t.row.status
      BY <1>2, <3>1 DEF TypeOK, RequestRows
    <3> QED BY <1>2, <3>2 DEF SnapshotOf, Terminal
  <2>3. row' = [row EXCEPT ![r] = [[counted EXCEPT !.finalApprover = t.actor]
                  EXCEPT !.status = "approved", !.version = row[r].version + 1]]
    BY <1>7, <2>2 DEF CommitApprove, Update
  <2>4. row'[r].finalApprover = t.actor /\ row'[r].required = t.row.required
    BY <1>2, <2>3 DEF TypeOK, RequestRows, SnapshotOf
  <2> QED BY <1>3, <1>5, <2>1, <2>2, <2>4 DEF QuorumMet
<1> QED BY <1>6, <1>7

\* No commit leaves an approved request without its quorum.
LEMMA CommitKeepsQuorum ==
  ASSUME TypeOK, Snapshots, ApprovedByQuorum, NEW s \in Sessions, CommitOnRequest(s)
  PROVE  ApprovedByQuorum'
<1>1. TypeOK' /\ Moves(s)
  BY CommitMoves
<1>2. decisions \subseteq decisions'
  BY <1>1 DEF Moves
<1> SUFFICES ASSUME NEW r \in Requests, row'[r].status = "approved"
             PROVE  /\ row'[r].finalApprover \in Approvers(r)'
                    /\ Cardinality(Approvers(r)') >= row'[r].required \/ Overridden(r)'
  BY DEF ApprovedByQuorum
<1>3. CASE row'[r] = row[r]
  BY <1>1, <1>2, <1>3, GrowthKeepsQuorum
<1>4. CASE row'[r] # row[r]
  <2>1. r = tx[s].request
    BY <1>1, <1>4, MovesKeepIdentity
  <2>2. tx[s].op \in Approving
    <3>1. row' # row
      BY <1>4
    <3> QED BY <1>1, <2>1, <3>1 DEF Moves, TypeOK
  <2>3. CommitApprove(s) \/ CommitOverrideApprove(s)
    BY <2>2 DEF CommitOnRequest, Approving, CommitPending, CommitCancel, CommitReject,
       CommitReturn, CommitRemark, Remark, CommitOverrideReject, CommitEscalate, CommitFire
  <2> QED BY <2>1, <2>3, ApprovalMeetsQuorum
<1> QED BY <1>3, <1>4

-----------------------------------------------------------------------------
(* The calls that do not move an existing request                          *)

\* A new request takes an absent row, which no open call and no ledger line names.
LEMMA CreateKeepsInd ==
  ASSUME Ind, NEW s \in Sessions, CommitCreate(s)
  PROVE  /\ Ind'
         /\ \A r \in Requests : row[r].status # "none" => row'[r] = row[r]
<1>1. tx[s].key \in Keys \cup {NoKey}
  <2>1. tx[s].op = "create" /\ tx[s] \in {Idle} \cup CreateCalls \cup RequestCalls
    BY DEF CommitCreate, Ind, TypeOK
  <2>2. tx[s] # Idle /\ tx[s] \notin RequestCalls
    BY <2>1 DEF Idle, RequestCalls, RequestOps, Recordable, Overrides
  <2> QED BY <2>1, <2>2 DEF CreateCalls
<1>2. PICK r \in Requests, maker \in Makers, preparer \in Preparers,
           required \in 1..MaxRequired, plan \in StepPlans :
        /\ row[r].status = "none"
        /\ row' = [row EXCEPT ![r] =
             [NoRow EXCEPT !.status = "draft", !.version = 1, !.maker = maker,
                !.preparer = preparer, !.required = required, !.key = tx[s].key]]
        /\ steps' = [steps EXCEPT ![r] =
             [l \in IF plan = {} THEN {1} ELSE plan |-> "pending"]]
        /\ history' = [history EXCEPT ![r] = <<[from |-> "none", to |-> "draft"]>>]
  BY DEF CommitCreate
<1> DEFINE new == [NoRow EXCEPT !.status = "draft", !.version = 1, !.maker = maker,
                     !.preparer = preparer, !.required = required, !.key = tx[s].key]
           h == <<[from |-> "none", to |-> "draft"]>>
<1>3. new \in RequestRows /\ new.status = "draft"
  <2>1. maker \in Users \cup {NoUser} /\ preparer \in Users \cup {NoUser}
    BY UsersAssumption
  <2>2. required \in Nat \ {0}
    BY BoundsAssumption
  <2> QED BY <1>1, <2>1, <2>2 DEF NoRow, RequestRows, RequestStatuses
<1>4. h \in Seq(HistoryRows)
  BY DEF HistoryRows, RequestStatuses
<1>5. row' = [row EXCEPT ![r] = new] /\ history' = [history EXCEPT ![r] = h]
  BY <1>2
<1> HIDE DEF new, h
<1>6. Finish(s) /\ UNCHANGED <<decisions, outcomes, escalations, delegations>>
  BY DEF CommitCreate
<1>7. TypeOK'
  <2>1. row' \in [Requests -> RequestRows]
    BY <1>3, <1>5 DEF Ind, TypeOK
  <2>2. history' \in [Requests -> Seq(HistoryRows)]
    BY <1>4, <1>5 DEF Ind, TypeOK
  <2>3. DOMAIN steps' = Requests
    BY <1>2 DEF Ind, TypeOK
  <2> QED BY <1>6, <2>1, <2>2, <2>3, FinishTyped DEF Ind, TypeOK
<1>8. \A q \in Requests : row[q].status # "none" => row'[q] = row[q]
  BY <1>2, <1>5 DEF Ind, TypeOK
<1>9. Snapshots'
  <2>1. Idle \notin RequestCalls
    BY DEF Idle, RequestCalls
  <2> SUFFICES ASSUME NEW q \in Sessions, tx'[q] \in RequestCalls
               PROVE  SnapshotOf(tx[q])'
    BY DEF Snapshots
  <2>2. tx'[q] = tx[q] /\ tx[q] \in RequestCalls
    BY <1>6, <2>1 DEF Finish, Ind, TypeOK
  <2>3. SnapshotOf(tx[q]) /\ tx[q].request \in Requests
    BY <2>2 DEF Ind, Snapshots, RequestCalls
  <2>4. row'[tx[q].request] = row[tx[q].request]
    BY <1>8, <2>3 DEF SnapshotOf
  <2> QED BY <2>2, <2>3, <2>4 DEF SnapshotOf
<1>10. LedgerRooted' /\ MakerIsNoChecker'
  <2>1. \A d \in decisions' : d \in decisions /\ row'[d.request] = row[d.request]
    BY <1>6, <1>8 DEF Ind, LedgerRooted, TypeOK, DecisionRows
  <2> QED BY <2>1 DEF Ind, LedgerRooted, MakerIsNoChecker
<1>11. ApprovedByQuorum'
  <2> SUFFICES ASSUME NEW q \in Requests, row'[q].status = "approved"
               PROVE  /\ row'[q].finalApprover \in Approvers(q)'
                      /\ Cardinality(Approvers(q)') >= row'[q].required \/ Overridden(q)'
    BY DEF ApprovedByQuorum
  <2>1. row'[q] = row[q]
    BY <1>3, <1>5 DEF Ind, TypeOK
  <2> QED BY <1>6, <1>7, <2>1, GrowthKeepsQuorum DEF Ind
<1> QED BY <1>7, <1>8, <1>9, <1>10, <1>11 DEF Ind

\* What does not touch rows or decisions leaves everything but the types and
\* the snapshots as it was.
LEMMA SameTablesKeepInd ==
  ASSUME Ind, TypeOK', Snapshots', UNCHANGED <<row, decisions>>
  PROVE  Ind'
BY DEF Ind, LedgerRooted, MakerIsNoChecker, ApprovedByQuorum, Approvers, Overridden

\* A failed call leaves the tables alone and closes its own snapshot.
LEMMA RollbackKeepsInd ==
  ASSUME Ind, NEW s \in Sessions, Rollback(s)
  PROVE  Ind'
<1>1. TypeOK'
  BY FinishTyped DEF Ind, TypeOK, Rollback, tables
<1>2. Snapshots'
  <2>1. Idle \notin RequestCalls
    BY DEF Idle, RequestCalls
  <2> QED BY <2>1 DEF Ind, TypeOK, Rollback, Finish, tables, Snapshots, SnapshotOf
<1> QED BY <1>1, <1>2, SameTablesKeepInd DEF Rollback, tables

\* Delegations are read by calls that have yet to start: nothing else moves.
LEMMA DelegationKeepsInd ==
  ASSUME Ind, Delegation
  PROVE  Ind' /\ UNCHANGED row
<1> DEFINE Grants == [delegator : Users, delegate : Users,
                      status : {"active", "revoked"}, endsAt : {"never", "future", "past"}]
<1>1. UNCHANGED <<row, steps, decisions, outcomes, escalations, history, tx>>
  BY DEF Delegation, GrantDelegation, RevokeDelegation, DelegationEnds
<1>2. delegations' \in Seq(Grants)
  <2>1. ASSUME NEW d \in Users, NEW e \in Users, NEW endsAt \in {"never", "future"},
               GrantDelegation(d, e, endsAt)
        PROVE  delegations' \in Seq(Grants)
    BY <2>1 DEF GrantDelegation, Ind, TypeOK
  <2>2. ASSUME NEW i \in DOMAIN delegations, RevokeDelegation(i) \/ DelegationEnds(i)
        PROVE  delegations' \in Seq(Grants)
    <3>1. PICK g \in Grants : delegations' = [delegations EXCEPT ![i] = g]
      <4>1. delegations[i] \in Grants
        <5>1. delegations \in Seq(Grants)
          BY DEF Ind, TypeOK
        <5> HIDE DEF Grants
        <5> QED BY <5>1
      <4>2. /\ [delegations[i] EXCEPT !.status = "revoked"] \in Grants
            /\ [delegations[i] EXCEPT !.endsAt = "past"] \in Grants
        BY <4>1
      <4> QED BY <2>2, <4>2 DEF RevokeDelegation, DelegationEnds
    <3> HIDE DEF Grants
    <3>2. delegations \in Seq(Grants)
      BY DEF Ind, TypeOK, Grants
    <3> QED BY <3>1, <3>2
  <2> QED BY <2>1, <2>2 DEF Delegation
<1>3. TypeOK'
  BY <1>1, <1>2 DEF Ind, TypeOK
<1>4. Snapshots'
  BY <1>1 DEF Ind, Snapshots, SnapshotOf
<1> QED BY <1>1, <1>3, <1>4, SameTablesKeepInd

-----------------------------------------------------------------------------
(* The theorems                                                            *)

\* Every step keeps the inductive invariant, and no step changes a finished request.
LEMMA StepKeepsInd ==
  ASSUME Ind, [Next]_vars
  PROVE  /\ Ind'
         /\ \A r \in Requests : row[r].status \in Terminal => row'[r] = row[r]
<1>1. ASSUME NEW s \in Sessions, Begin(s)
      PROVE  Ind' /\ UNCHANGED row
  <2>1. TypeOK' /\ Snapshots' /\ UNCHANGED tables
    BY <1>1, BeginPreserves DEF Ind
  <2> QED BY <2>1, SameTablesKeepInd DEF tables
<1>2. ASSUME NEW s \in Sessions, CommitOnRequest(s)
      PROVE  /\ Ind'
             /\ \A r \in Requests : row[r].status \in Terminal => row'[r] = row[r]
  <2>1. TypeOK' /\ Moves(s)
    BY <1>2, CommitMoves DEF Ind
  <2>2. Snapshots' /\ LedgerRooted' /\ MakerIsNoChecker' /\ ApprovedByQuorum'
    BY <1>2, <2>1, MovesKeepSnapshots, MovesKeepLedger, CommitKeepsQuorum DEF Ind
  <2>3. ASSUME NEW r \in Requests, row'[r] # row[r]
        PROVE  row[r].status \notin Terminal
    <3>1. tx[s].row = row[r]
      BY <2>1, <2>3, MovesKeepIdentity DEF Ind
    <3> QED BY <2>1, <3>1 DEF Ind, Snapshots, SnapshotOf, Moves
  <2> QED BY <2>1, <2>2, <2>3 DEF Ind
<1>3. ASSUME NEW s \in Sessions, CommitCreate(s)
      PROVE  /\ Ind'
             /\ \A r \in Requests : row[r].status \in Terminal => row'[r] = row[r]
  BY <1>3, CreateKeepsInd DEF Terminal
<1>4. ASSUME NEW s \in Sessions, Rollback(s)
      PROVE  Ind' /\ UNCHANGED row
  BY <1>4, RollbackKeepsInd DEF Rollback, tables
<1>5. CASE Delegation
  BY <1>5, DelegationKeepsInd
<1>6. CASE UNCHANGED vars
  <2>1. TypeOK' /\ Snapshots'
    BY <1>6 DEF vars, Ind, TypeOK, Snapshots, SnapshotOf
  <2> QED BY <1>6, <2>1, SameTablesKeepInd DEF vars
<1> QED BY <1>1, <1>2, <1>3, <1>4, <1>5, <1>6 DEF Next, Commit, CommitOnRequest

\* The inductive invariant holds in every reachable state.
THEOREM Invariance == Spec => []Ind
<1>1. Init => Ind
  BY InitInd
<1>2. Ind /\ [Next]_vars => Ind'
  BY StepKeepsInd
<1> QED BY <1>1, <1>2, PTL DEF Spec

\* Every table and every open call keeps the shape of its columns.
THEOREM TypeCorrect == Spec => []TypeOK
<1>1. Ind => TypeOK
  BY DEF Ind
<1> QED BY <1>1, Invariance, PTL

\* Whatever calls race, an approved request has its quorum of distinct
\* approvers in the ledger, or an override, and its final approver is one of them.
THEOREM ApprovalHasQuorum == Spec => []ApprovedByQuorum
<1>1. Ind => ApprovedByQuorum
  BY DEF Ind
<1> QED BY <1>1, Invariance, PTL

\* No late call, however old the row it read, changes a finished request.
THEOREM FinishedIsFinal == Spec => TerminalIsFinal
<1>1. Ind /\ [Next]_vars =>
        [\A r \in Requests : row[r].status \in Terminal => row'[r] = row[r]]_vars
  BY StepKeepsInd
<1> QED BY <1>1, Invariance, PTL DEF Spec, TerminalIsFinal
=============================================================================
