------------------------------ MODULE Approval ------------------------------
(***************************************************************************)
(* m22-approval: the maker-checker choke point of the finance chain.  An   *)
(* approval request is one row, guarded by a version (compare-and-swap);   *)
(* around it stand append-only ledgers: decisions, status history,         *)
(* escalations, outcomes.  Every service call is one PostgreSQL            *)
(* transaction (READ COMMITTED): it reads the row without a lock, checks   *)
(* it, and then writes with `WHERE id AND version = expected`.             *)
(*                                                                         *)
(* A call is two steps here: Begin* is what the call reads and checks, and *)
(* Commit* is everything it writes, which PostgreSQL makes visible at      *)
(* once.  Other calls may commit in between.  Rollback ends a call at any  *)
(* moment: a 409 on a stale version, a constraint violation, a lost        *)
(* connection or a crash all leave the tables as they were.                *)
(*                                                                         *)
(* Abstracted: titles, amounts, reasons and clocks; the subject type and   *)
(* scope (one of each); the policy catalogue, of which a request keeps the *)
(* quorum and the levels of its steps; participant, timer, notification,   *)
(* workflow and assignment rows, which nothing in m22 reads back; audit    *)
(* and outbox rows, written in the same transaction as the rows here.      *)
(***************************************************************************)
EXTENDS Integers, FiniteSets, Sequences

CONSTANTS
  Users,               \* identities that make, prepare, check and delegate
  Requests,            \* ids of approval requests
  Sessions,            \* database transactions that may be open at once
  Keys,                \* idempotency keys
  NoUser, NoKey,       \* SQL NULL in a user or a key column
  Makers, Preparers,   \* who may stand in requested_by and in prepared_by
  MaxRequired,         \* largest quorum a policy or a caller asks for
  StepPlans,           \* the sets of levels a policy may give its steps
  EscalationLevels,    \* levels a timer may escalate to
  MaxEscalationDepth,  \* M22_LIMITS.maxEscalationDepth
  DepthCeiling,        \* the 20 of decision.service and of the depth CHECK
  MaxDelegations,      \* bound on the number of delegations ever granted
  MaxRemarks           \* bound on abstentions and override requests recorded

ASSUME UsersAssumption == 
  /\ IsFiniteSet(Users) /\ NoUser \notin Users
  /\ Makers \subseteq Users \cup {NoUser} /\ Preparers \subseteq Users \cup {NoUser}
ASSUME KeysAssumption == NoKey \notin Keys
ASSUME BoundsAssumption ==
  /\ MaxRequired \in Nat \ {0}
  /\ StepPlans \subseteq SUBSET (Nat \ {0})
  /\ EscalationLevels \subseteq Nat \ {0}
  /\ MaxEscalationDepth \in Nat /\ DepthCeiling \in Nat
  /\ MaxDelegations \in Nat /\ MaxRemarks \in Nat

VARIABLES
  row,          \* approval_request: the row of each request
  steps,        \* approval_request_step: status of each level of a request
  decisions,    \* approval_decision: append-only ledger
  outcomes,     \* approval_outcome: append-only, UNIQUE (request)
  escalations,  \* approval_escalation: append-only, UNIQUE (request, to_level)
  history,      \* approval_status_history, one sequence per request
  delegations,  \* approval_delegation, in order of creation
  tx            \* what the call of each open transaction has read

tables == <<row, steps, decisions, outcomes, escalations, history, delegations>>
vars == <<row, steps, decisions, outcomes, escalations, history, delegations, tx>>

-----------------------------------------------------------------------------
(* domain/lifecycles.ts                                                    *)

RequestMachine ==
  [draft     |-> {"pending", "cancelled"},
   pending   |-> {"approved", "rejected", "returned", "escalated", "cancelled"},
   escalated |-> {"approved", "rejected", "returned", "cancelled"},
   returned  |-> {"draft", "pending", "cancelled"},
   approved  |-> {}, rejected |-> {}, cancelled |-> {}]

RequestStatuses == {"draft", "pending", "escalated", "returned",
                    "approved", "rejected", "cancelled"}
Terminal == {"approved", "rejected", "cancelled"}
CanMove(from, to) == from \in RequestStatuses /\ to \in RequestMachine[from]
Actionable(status) == status \in {"pending", "escalated"}

StepStatuses == {"none", "pending", "approved", "rejected"}
\* checkStepTransition: the two moves the services ask for leave "pending" only.
StepCanMove(from) == from = "pending"

-----------------------------------------------------------------------------
(* Rows and ledgers                                                        *)

NoRow == [status |-> "none", version |-> 0, maker |-> NoUser, preparer |-> NoUser,
          required |-> 1, approvals |-> 0, finalApprover |-> NoUser,
          level |-> 1, depth |-> 0, key |-> NoKey]

Recordable == {"approve", "reject", "return", "abstain", "escalate"}
Overrides == {"override_request", "override_approve", "override_reject"}
Approving == {"approve", "override_approve"}

\* The CHECK constraints of approval_decision and approval_override.
DecisionRowAllowed(kind, actor, maker) ==
  kind \in Approving \cup Overrides => actor # maker

ApproversIn(ledger, r) ==
  {d.actor : d \in {e \in ledger : e.request = r /\ e.kind \in Approving}}
Approvers(r) == ApproversIn(decisions, r)

\* Neither revoked nor past its end.
Live(i) == delegations[i].status = "active" /\ delegations[i].endsAt # "past"
\* The most recent live delegation to u is the one of `delegator`.
ActsFor(u, delegator) ==
  \E i \in DOMAIN delegations :
    /\ Live(i) /\ delegations[i].delegate = u /\ delegations[i].delegator = delegator
    /\ \A j \in DOMAIN delegations :
         j > i => ~(Live(j) /\ delegations[j].delegate = u)

\* evaluateSod: what blocks an actor from checking.
SodAllowed_ForgetsPriors(actor, request, delegator, prior) ==
  /\ actor # request.maker
  /\ actor # request.preparer
  /\ delegator = NoUser \/ delegator # request.maker
SodAllowed_IgnoresDelegator(actor, request, delegator, prior) ==
  /\ actor # request.maker
  /\ actor # request.preparer
  /\ request.required > 1 => actor \notin prior
SodAllowed(actor, request, delegator, prior) ==
  /\ actor # request.maker
  /\ actor # request.preparer
  /\ delegator = NoUser \/ delegator # request.maker
  /\ request.required > 1 => actor \notin prior

-----------------------------------------------------------------------------
(* A service call as a transaction                                         *)

Idle == [op |-> "idle"]
CreateCalls == [op : {"create"}, key : Keys \cup {NoKey}]
RequestOps == {"submit", "resubmit", "cancel", "fire"} \cup Recordable \cup Overrides

\* The call keeps the row it read; `actor` matters to decisions and overrides,
\* `toLevel` and `reassign` to "fire".
Read(s, op, r, actor, behalf, toLevel, reassign) ==
  /\ tx[s] = Idle
  /\ tx' = [tx EXCEPT ![s] =
       [op |-> op, request |-> r, actor |-> actor, behalf |-> behalf,
        toLevel |-> toLevel, reassign |-> reassign, row |-> row[r]]]
  /\ UNCHANGED tables

Finish(s) == tx' = [tx EXCEPT ![s] = Idle]

\* The WHERE clause of the compare-and-swap.  The version in it is the caller's
\* expectedVersion, one an earlier answer showed them: it is at most the version
\* this call reads, and an older one never hits, which Rollback covers.  Only
\* fireEscalation passes the version it read itself.
CasHits_IgnoresVersion(t) == row[t.request].status # "none"
CasHits(t) == row[t.request].version = t.row.version

\* UPDATE approval_request: `new` holds the columns the statement sets.
Update(t, status, new) ==
  /\ CasHits(t)
  /\ row' = [row EXCEPT ![t.request] =
       [new EXCEPT !.status = status, !.version = row[t.request].version + 1]]

Log_NamesTheCall(t, status) ==
  history' = [history EXCEPT ![t.request] =
                Append(@, [from |-> t.row.status, to |-> t.op])]
Log(t, status) ==
  history' = [history EXCEPT ![t.request] =
                Append(@, [from |-> t.row.status, to |-> status])]

\* `at` is the version the call read: it tells the lines of one actor apart.
Decision(t) ==
  [request |-> t.request, kind |-> t.op, actor |-> t.actor, behalf |-> t.behalf,
   at |-> t.row.version]
Decide(t) ==
  /\ DecisionRowAllowed(t.op, t.actor, t.row.maker)
  /\ decisions' = decisions \cup {Decision(t)}

\* advanceCurrentStep: silently nothing when the level has no open step.
AdvanceStep(t, to) ==
  LET r == t.request
      l == t.row.level
  IN steps' = IF l \in DOMAIN steps[r] /\ StepCanMove(steps[r][l])
              THEN [steps EXCEPT ![r][l] = to] ELSE steps

\* insertOutcome; the row is refused when the request already has one.
OutcomeFree_NoUnique(r) == row[r].status # "none"
OutcomeFree(r) == \A o \in outcomes : o.request # r
RecordOutcome(t, outcome, approver) ==
  /\ OutcomeFree(t.request)
  /\ outcomes' = outcomes \cup
       {[request |-> t.request, outcome |-> outcome, finalApprover |-> approver,
         released |-> outcome = "approved"]}

\* Any failure of the call: no table keeps anything of it.
Rollback(s) ==
  /\ tx[s] # Idle
  /\ Finish(s)
  /\ UNCHANGED tables

-----------------------------------------------------------------------------
(* request.service.ts                                                      *)

KeyTaken(k) == k # NoKey /\ \E r \in Requests : row[r].key = k
\* The unique index on (tenant, idempotency_key), where the key is not NULL.
KeyUnique(k) == ~KeyTaken(k)

\* A call whose key is known returns the existing request and writes nothing.
BeginCreate(s, k) ==
  /\ tx[s] = Idle
  /\ ~KeyTaken(k)
  /\ tx' = [tx EXCEPT ![s] = [op |-> "create", key |-> k]]
  /\ UNCHANGED tables

\* A policy without steps, or no policy, gives the single level 1.
CommitCreate(s) ==
  /\ tx[s].op = "create"
  /\ KeyUnique(tx[s].key)
  /\ \E r \in Requests, maker \in Makers, preparer \in Preparers,
        required \in 1..MaxRequired, plan \in StepPlans :
       /\ row[r].status = "none"
       /\ row' = [row EXCEPT ![r] =
            [NoRow EXCEPT !.status = "draft", !.version = 1, !.maker = maker,
               !.preparer = preparer, !.required = required, !.key = tx[s].key]]
       /\ steps' = [steps EXCEPT ![r] =
            [l \in IF plan = {} THEN {1} ELSE plan |-> "pending"]]
       /\ history' = [history EXCEPT ![r] = <<[from |-> "none", to |-> "draft"]>>]
  /\ Finish(s)
  /\ UNCHANGED <<decisions, outcomes, escalations, delegations>>

\* The machine also lets a returned request in here, not only a draft.
BeginSubmit(s, r) ==
  /\ CanMove(row[r].status, "pending")
  /\ Read(s, "submit", r, NoUser, NoUser, 0, FALSE)

BeginResubmit(s, r) ==
  /\ row[r].status = "returned"
  /\ Read(s, "resubmit", r, NoUser, NoUser, 0, FALSE)

CommitPending(s) ==
  LET t == tx[s] IN
  /\ t.op \in {"submit", "resubmit"}
  /\ Update(t, "pending", row[t.request])
  /\ Log(t, "pending")
  /\ Finish(s)
  /\ UNCHANGED <<steps, decisions, outcomes, escalations, delegations>>

BeginCancel(s, r) ==
  /\ CanMove(row[r].status, "cancelled")
  /\ Read(s, "cancel", r, NoUser, NoUser, 0, FALSE)

CommitCancel(s) ==
  LET t == tx[s] IN
  /\ t.op = "cancel"
  /\ Update(t, "cancelled", row[t.request])
  /\ Log(t, "cancelled")
  /\ RecordOutcome(t, "cancelled", NoUser)
  /\ Finish(s)
  /\ UNCHANGED <<steps, decisions, escalations, delegations>>

-----------------------------------------------------------------------------
(* decision.service.ts                                                     *)

\* A blocked approval throws: its evidence is rolled back with the call.
BeginDecision(s, u, r, kind, behalf) ==
  /\ Actionable(row[r].status)
  /\ behalf # NoUser => ActsFor(u, behalf)
  /\ kind = "approve" => SodAllowed(u, row[r], behalf, Approvers(r))
  /\ kind = "escalate" => row[r].depth + 1 <= DepthCeiling
  /\ Read(s, kind, r, u, behalf, 0, FALSE)

ApprovalsAfter_CountsEveryDecision(t) ==
  Cardinality({d.actor : d \in {e \in decisions \cup {Decision(t)} : e.request = t.request}})
ApprovalsAfter(t) == Cardinality(ApproversIn(decisions \cup {Decision(t)}, t.request))

QuorumMet_OffByOne(n, required) == n + 1 >= required
QuorumMet(n, required) == n >= required

CommitApprove(s) ==
  LET t == tx[s]
      n == ApprovalsAfter(t)
      counted == [row[t.request] EXCEPT !.approvals = n]
  IN
  /\ t.op = "approve"
  /\ Decide(t)
  /\ AdvanceStep(t, "approved")
  /\ \/ /\ QuorumMet(n, t.row.required)
        /\ Update(t, "approved", [counted EXCEPT !.finalApprover = t.actor])
        /\ Log(t, "approved")
        /\ RecordOutcome(t, "approved", t.actor)
     \/ /\ ~QuorumMet(n, t.row.required)
        /\ Update(t, t.row.status, counted)
        /\ UNCHANGED <<history, outcomes>>
  /\ Finish(s)
  /\ UNCHANGED <<escalations, delegations>>

CommitReject(s) ==
  LET t == tx[s] IN
  /\ t.op = "reject"
  /\ Decide(t)
  /\ AdvanceStep(t, "rejected")
  /\ Update(t, "rejected", row[t.request])
  /\ Log(t, "rejected")
  /\ RecordOutcome(t, "rejected", NoUser)
  /\ Finish(s)
  /\ UNCHANGED <<escalations, delegations>>

CommitReturn(s) ==
  LET t == tx[s] IN
  /\ t.op = "return"
  /\ Decide(t)
  /\ Update(t, "returned", row[t.request])
  /\ Log(t, "returned")
  /\ RecordOutcome(t, "returned", NoUser)
  /\ Finish(s)
  /\ UNCHANGED <<steps, escalations, delegations>>

\* "abstain" and "override_request" write the ledger and never the row: no CAS.
Remark == {"abstain", "override_request"}
CommitRemark(s) ==
  LET t == tx[s] IN
  /\ t.op \in Remark
  /\ Cardinality({d \in decisions : d.kind \in Remark}) < MaxRemarks
  /\ Decide(t)
  /\ Finish(s)
  /\ UNCHANGED <<row, steps, outcomes, escalations, history, delegations>>

BeginOverride(s, u, r, kind) ==
  /\ Actionable(row[r].status)
  /\ kind = "override_approve" => SodAllowed(u, [row[r] EXCEPT !.required = 1], NoUser, {})
  /\ Read(s, kind, r, u, NoUser, 0, FALSE)

CommitOverrideApprove(s) ==
  LET t == tx[s] IN
  /\ t.op = "override_approve"
  /\ Decide(t)
  /\ Update(t, "approved", [row[t.request] EXCEPT
       !.approvals = t.row.required, !.finalApprover = t.actor])
  /\ Log(t, "approved")
  /\ RecordOutcome(t, "approved", t.actor)
  /\ Finish(s)
  /\ UNCHANGED <<steps, escalations, delegations>>

CommitOverrideReject(s) ==
  LET t == tx[s] IN
  /\ t.op = "override_reject"
  /\ Decide(t)
  /\ Update(t, "rejected", row[t.request])
  /\ Log(t, "rejected")
  /\ RecordOutcome(t, "rejected", NoUser)
  /\ Finish(s)
  /\ UNCHANGED <<steps, escalations, delegations>>

-----------------------------------------------------------------------------
(* Escalation: the decision "escalate" and escalation.service.ts           *)

EscalatedTo(r, l) == \E e \in escalations : e.request = r /\ e.toLevel = l
EscalationUnique_Dropped(r, l) == row[r].status # "none"
EscalationUnique(r, l) == ~EscalatedTo(r, l)

\* The row, its history line and the ledger line; refused by the UNIQUE key
\* on the target level and by the CHECK on the depth.
Escalate(t, toLevel, level) ==
  /\ EscalationUnique(t.request, toLevel)
  /\ t.row.depth + 1 <= DepthCeiling
  /\ Update(t, "escalated",
       [row[t.request] EXCEPT !.depth = t.row.depth + 1, !.level = level])
  /\ Log(t, "escalated")
  /\ escalations' = escalations \cup
       {[request |-> t.request, toLevel |-> toLevel, depth |-> t.row.depth + 1]}

CommitEscalate(s) ==
  LET t == tx[s] IN
  /\ t.op = "escalate"
  /\ Decide(t)
  /\ Escalate(t, t.row.level + 1, t.row.level)
  /\ Finish(s)
  /\ UNCHANGED <<steps, outcomes, delegations>>

\* A timer that fires twice for one level finds its escalation and does nothing.
\* The depth limit is a parameter of the call that no caller in src/ sets.
BeginFire(s, r, toLevel, reassign) ==
  /\ Actionable(row[r].status)
  /\ ~EscalatedTo(r, toLevel)
  /\ row[r].depth + 1 <= MaxEscalationDepth
  /\ Read(s, "fire", r, NoUser, NoUser, toLevel, reassign)

CommitFire(s) ==
  LET t == tx[s] IN
  /\ t.op = "fire"
  /\ Escalate(t, t.toLevel, IF t.reassign THEN t.toLevel ELSE t.row.level)
  /\ Finish(s)
  /\ UNCHANGED <<steps, decisions, outcomes, delegations>>

-----------------------------------------------------------------------------
(* delegation.service.ts.  A revocation reads and swaps one row that no    *)
(* other call writes, so it is a single step.                              *)

GrantDelegation(delegator, delegate, endsAt) ==
  /\ Len(delegations) < MaxDelegations
  /\ delegator # delegate
  /\ delegations' = Append(delegations,
       [delegator |-> delegator, delegate |-> delegate, status |-> "active", endsAt |-> endsAt])
  /\ UNCHANGED <<row, steps, decisions, outcomes, escalations, history, tx>>

RevokeDelegation(i) ==
  /\ delegations[i].status = "active"
  /\ delegations' = [delegations EXCEPT ![i].status = "revoked"]
  /\ UNCHANGED <<row, steps, decisions, outcomes, escalations, history, tx>>

\* The clock passes ends_at; the status column is not touched.
DelegationEnds(i) ==
  /\ delegations[i].endsAt = "future"
  /\ delegations' = [delegations EXCEPT ![i].endsAt = "past"]
  /\ UNCHANGED <<row, steps, decisions, outcomes, escalations, history, tx>>

-----------------------------------------------------------------------------
Init ==
  /\ row = [r \in Requests |-> NoRow]
  /\ steps = [r \in Requests |-> <<>>]
  /\ decisions = {} /\ outcomes = {} /\ escalations = {}
  /\ history = [r \in Requests |-> <<>>]
  /\ delegations = <<>>
  /\ tx = [s \in Sessions |-> Idle]

Begin(s) ==
  \/ \E k \in Keys \cup {NoKey} : BeginCreate(s, k)
  \/ \E r \in Requests : BeginSubmit(s, r) \/ BeginResubmit(s, r) \/ BeginCancel(s, r)
  \/ \E u \in Users, r \in Requests :
       \/ \E kind \in Recordable, behalf \in Users \cup {NoUser} :
            BeginDecision(s, u, r, kind, behalf)
       \/ \E kind \in Overrides : BeginOverride(s, u, r, kind)
  \/ \E r \in Requests, l \in EscalationLevels, reassign \in BOOLEAN :
       BeginFire(s, r, l, reassign)

Commit(s) ==
  \/ CommitCreate(s) \/ CommitPending(s) \/ CommitCancel(s)
  \/ CommitApprove(s) \/ CommitReject(s) \/ CommitReturn(s) \/ CommitRemark(s)
  \/ CommitOverrideApprove(s) \/ CommitOverrideReject(s)
  \/ CommitEscalate(s) \/ CommitFire(s)

Delegation ==
  \/ \E d, e \in Users, endsAt \in {"never", "future"} : GrantDelegation(d, e, endsAt)
  \/ \E i \in DOMAIN delegations : RevokeDelegation(i) \/ DelegationEnds(i)

Next ==
  \/ \E s \in Sessions : Begin(s) \/ Commit(s) \/ Rollback(s)
  \/ Delegation

Spec == Init /\ [][Next]_vars

-----------------------------------------------------------------------------
(* Properties                                                              *)

DecisionRows == [request : Requests, kind : Recordable \cup Overrides,
                 actor : Users, behalf : Users \cup {NoUser}, at : Nat]
RequestRows ==
  [status : RequestStatuses \cup {"none"}, version : Nat,
   maker : Users \cup {NoUser}, preparer : Users \cup {NoUser},
   required : Nat \ {0}, approvals : Nat, finalApprover : Users \cup {NoUser},
   level : Nat, depth : Nat, key : Keys \cup {NoKey}]
RequestCalls ==
  [op : RequestOps, request : Requests, actor : Users \cup {NoUser},
   behalf : Users \cup {NoUser}, toLevel : Nat, reassign : BOOLEAN, row : RequestRows]
OutcomeRows ==
  [request : Requests, outcome : {"approved", "rejected", "cancelled", "returned"},
   finalApprover : Users \cup {NoUser}, released : BOOLEAN]
HistoryRows == [from : RequestStatuses \cup {"none"}, to : RequestStatuses]

\* Every table and every open call has the shape of its columns.
TypeOK ==
  /\ row \in [Requests -> RequestRows]
  /\ DOMAIN steps = Requests
  /\ decisions \subseteq DecisionRows
  /\ outcomes \subseteq OutcomeRows
  /\ escalations \subseteq [request : Requests, toLevel : Nat, depth : Nat]
  /\ history \in [Requests -> Seq(HistoryRows)]
  /\ delegations \in Seq([delegator : Users, delegate : Users,
       status : {"active", "revoked"}, endsAt : {"never", "future", "past"}])
  /\ tx \in [Sessions -> {Idle} \cup CreateCalls \cup RequestCalls]

\* The three things evaluateSod and the delegation look-up keep of the ledger.
MakerIsNoChecker ==
  \A d \in decisions : d.kind \in Approving =>
    /\ d.actor # row[d.request].maker
    /\ d.actor # row[d.request].preparer
    /\ d.behalf # NoUser => d.behalf # row[d.request].maker
DelegatedAuthority ==
  \A d \in decisions : d.behalf # NoUser =>
    \E i \in DOMAIN delegations :
      delegations[i].delegator = d.behalf /\ delegations[i].delegate = d.actor
NobodyApprovesTwice ==
  \A d, e \in decisions :
    /\ d.kind = "approve" /\ e.kind = "approve"
    /\ d.request = e.request /\ d.actor = e.actor /\ row[d.request].required > 1
    => d = e

\* evaluateSod, whatever the interleaving of calls, delegations and overrides:
\* nobody approves what they made or prepared, no delegate approves for the
\* maker, whoever acts for another was granted it (the grant may have been
\* revoked, or have ended, since the call read it), and where more than one
\* approval is required nobody approves twice, not even once for themselves and
\* once for a delegator.  (The code compares actors only: a delegate of an
\* earlier approver or of the preparer may approve, and an override is no
\* second approval.)
SegregationOfDuties == MakerIsNoChecker /\ DelegatedAuthority /\ NobodyApprovesTwice

Overridden(r) == \E d \in decisions : d.request = r /\ d.kind = "override_approve"

\* A request is approved only with the approvals of `required` different people
\* in the ledger, or an override, and by one of them (approval_request_approved_ck
\* checks the counter column only).
ApprovedByQuorum ==
  \A r \in Requests : row[r].status = "approved" =>
    /\ row[r].finalApprover \in Approvers(r)
    /\ Cardinality(Approvers(r)) >= row[r].required \/ Overridden(r)

\* The counter on the row never drifts from the ledger it summarises, across
\* concurrent approvals, returns and escalations.
CountMatchesLedger ==
  \A r \in Requests : ~Overridden(r) => row[r].approvals = Cardinality(Approvers(r))

\* The released outcome downstream modules gate on exists exactly when the
\* request is approved, names its final approver, and is the only outcome.
ReleasedOnceApproved ==
  /\ \A o, p \in outcomes : o.request = p.request => o = p
  /\ \A r \in Requests : row[r].status = "approved" <=>
       \E o \in outcomes :
         o.request = r /\ o.released /\ o.finalApprover = row[r].finalApprover

\* What a line of the history may say: a move the lifecycle allows, or one more
\* escalation of an escalated request, which escalate and fireEscalation write
\* without asking the lifecycle.
AllowedLine(line) ==
  CanMove(line.from, line.to) \/ (line.from = "escalated" /\ line.to = "escalated")

\* The history is the life of the row: it begins with its creation as a draft,
\* each line starts where the line before it ended and is allowed, and it ends in
\* the current status.
HistoryIsTheLife ==
  \A r \in Requests : row[r].status # "none" =>
    /\ history[r] # <<>>
    /\ history[r][1] = [from |-> "none", to |-> "draft"]
    /\ history[r][Len(history[r])].to = row[r].status
    /\ \A i \in 2..Len(history[r]) :
         history[r][i].from = history[r][i-1].to /\ AllowedLine(history[r][i])

\* Escalation is single-fire per level and the depth on the row counts the ledger.
EscalationsCounted ==
  /\ \A e, f \in escalations :
       e.request = f.request /\ (e.toLevel = f.toLevel \/ e.depth = f.depth) => e = f
  /\ \A r \in Requests :
       /\ row[r].depth = Cardinality({e \in escalations : e.request = r})
       /\ row[r].depth <= DepthCeiling

\* Terminal-state protection: no late call changes a finished request.
TerminalIsFinal ==
  [][\A r \in Requests : row[r].status \in Terminal => row'[r] = row[r]]_vars

\* A decision that moves the request lands only while it is open, although
\* recordDecision checks that before other calls may commit.
MovesLandWhileActionable ==
  [][\A d \in decisions' \ decisions :
       d.kind \notin Remark => Actionable(row[d.request].status)]_vars

StageOf(r) ==
  IF row[r].status = "none" THEN "absent"
  ELSE IF row[r].status \in Terminal THEN row[r].status ELSE "open"
BarredFrom(r) == {row[r].maker, row[r].preparer} \ {NoUser}

\* m22 keeps the promise that m21 and m23 rely on.
Promise == INSTANCE ControlledRelease WITH
  stage <- [r \in Requests |-> StageOf(r)],
  quorum <- [r \in Requests |-> row[r].required],
  barred <- [r \in Requests |-> BarredFrom(r)],
  endorsers <- [r \in Requests |-> Approvers(r)],
  overridden <- [r \in Requests |-> Overridden(r)],
  releaser <- [r \in Requests |-> row[r].finalApprover]
KeepsPromise == Promise!Spec

-----------------------------------------------------------------------------
(* What the comments of the code say                                       *)

\* "Controlled cancellation - from any non-terminal state", and a returned
\* request "goes back to pending for another decision round": a cancel or a
\* reject that read the latest version of an open request can be committed.
\* It cannot once the request was returned, for "returned" already took the
\* request's one row of approval_outcome.
OpenRequestCanEnd ==
  \A s \in Sessions :
    tx[s].op \in {"cancel", "reject"} /\ CasHits(tx[s]) =>
      ENABLED (CommitCancel(s) \/ CommitReject(s))
=============================================================================
