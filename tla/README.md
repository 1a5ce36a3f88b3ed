# Formal models of finapp-dynamics

finapp-dynamics is a multi-tenant finance and legal SaaS: a TypeScript monorepo of
some forty modules over one PostgreSQL database. These specifications model the
parts of it in which several actors meet and a mistake is costly: the chain that
takes a journal from a draft through maker-checker approval to posting, the workflow
engine that hands work to people, the notifications and webhooks that leave the
system, and the sessions people are signed in with.

Every service call of the system is one PostgreSQL transaction under the default
isolation level, READ COMMITTED. A call reads rows without locks, decides, and then
writes with a compare-and-swap (`UPDATE ... WHERE id = $1 AND version = $2`), or
relies on a unique index, a CHECK or an advisory lock. What can go wrong is therefore
nearly always the same kind of thing: what was read is no longer true when something
is written. The models are built around exactly that gap.

## 1. The system

### 1.1 Components

| component | state | operations | modelled in |
|---|---|---|---|
| `m22-approval` requests | `approval_request` (status, version, counter), steps, append-only ledgers of decisions, outcomes, escalations, history, SoD checks; delegations | create, submit, resubmit, cancel, seven decisions, three overrides, escalation by timer, delegation grant and revocation | `Approval`, `ControlledRelease` |
| `m22-approval` catalogue | versions of policies and configurations | draft, publish, retire | no: its effect on a request is a quorum and a set of levels |
| `m21-journal` drafts | `journal_draft` header (status, version, totals), `journal_line` rows with versions | create, add/update/remove line, edit header, validate, submit, withdraw | `Journal` |
| `m21-journal` posting | `posting_request`, `posting_result`, `posting_idempotency` | prepare, authorize, cancel, record result | `Posting` |
| `m21-journal` recommendations | intake of recommendations | receive, accept, reject | only what it does to drafts |
| `m06-workflow` engine | instances, tokens, tasks, timers, SLA clocks, incidents | start, drive, claim, finish (complete, reject), reassign, assign, delegate, escalate, suspend, resume, cancel, retry, resolve, fire timer | `Workflow` |
| `m06-workflow` definitions, outbox | versions of definitions; outbox rows | draft, validate, publish, retire; insert | the rules of a valid definition only |
| `m08-notify` delivery | notification requests with leases, deliveries, inbox; preferences and suppressions | enqueue, dispatch, retry, cancel; set preferences | `Notify` |
| `m08-notify` ladders | escalation instances | open, advance, acknowledge, resolve, cancel | `Ladder` |
| `m36-events` webhook relay | endpoints, reviews, subscriptions, deliveries | lifecycle of endpoints, subscribe, deliver, replay | `Relay` |
| `m02-auth` | credential, login attempts, sessions, refresh tokens | login, resolve, refresh, revoke, change password | `Session` |
| `m23-finance-integration` | executions, attempts, external references | prepare, dispatch, acknowledge, fail, retry, cancel | no |
| `m03-audit` | a hash chain per scope | append, verify | no |
| `m15a-matching`, `m15-recon`, `m20-glrecon` | imports, matches, reconciliations, certifications | match, confirm, certify | no |
| `m19-finance` | fiscal calendar, chart of accounts | open, close, lock a period | no |
| `kernel` | none (transactions, ports) | `withTenant`, `withSystem` | as the shape of every action |
| the others | versioned rows with a lifecycle | one compare-and-swap per call | no (section 5; PROJECT.json says why, module by module) |

### 1.2 How they interact

- A call is made by an HTTP controller of `apps/api`, a worker or a timer. It enters
  one service method, which opens one transaction. There is no shared memory: all
  interaction is through rows.
- Every call writes its audit entry (`m03`) and its events (`m06`'s outbox) in the
  same transaction, so they stand or fall with the rows they are about. An exception
  rolls everything back, the audit entries included.
- `m21` and `m22` never call each other: a posting request stores the id of an
  approval (`approval_ref`) and the approver's name, given by the caller. What ties
  the two modules is a promise: an outcome row with `released = true` exists exactly
  for an approved request. `ControlledRelease` states it.
- `m21` posting shares the draft rows with `m21` drafting, without locking them.
  `Posting` EXTENDS `Journal`, so that the two interleave.
- `m23` acts on a posting request and reports a result back, possibly late or twice;
  `Posting` takes results in any order and number.
- `m06`, `m08` and `m36` are driven from outside: people finish tasks, something fires
  timers, a loop calls `dispatch` and `advance`, a dispatcher hands events to the
  relay. None of those loops is in this repository. `m08` calls a provider inside its
  transaction, `m36` calls an endpoint between two transactions.
- `m02-auth` is entered by every request that carries a token (`resolve`), by logins
  and by clients that refresh.

### 1.3 What is hard, and what makes each component correct

| component | hard | correct when |
|---|---|---|
| approval | several approvers, an override and a cancel at once; timers that fire twice; a request that goes round through "returned"; delegation against segregation of duties | the approved have their quorum of different people, none of them maker or preparer, acting for the maker, or acting for somebody who did not ask them to; the outcome is released once, for good; a finished request never changes; ledgers and counters agree |
| drafts | a line edit touches two rows and reads the header twice; validation, submission and withdrawal race with it | totals are those of the lines; what leaves "draft" balances; no edit of a line is lost |
| posting | results reported late, twice or at once; retries with keys; a draft that goes on changing | one success per request; nothing posts without somebody else's approval; the amount is that of the lines; a key stands for one command |
| workflow | reads before the advisory lock is taken; joins that are come to again; tasks that two tokens share; retry that drives tokens again; an administrator who acts while a drive waits | work is offered once; a parked token keeps its task unless another token's finish takes it, and a retry makes it again; a join opens first for a full set of arrivals; status and tokens agree; the instance comes to its end |
| notification | a dispatch that dies between the provider's answer and the commit; preferences that change; claims that need four things at once | sends bounded and evidenced; nothing is sent for a settled request; every request and every ladder ends |
| webhooks | check, call and record are three steps of a dispatcher that races with others | one "delivered" per event and endpoint; attempts bounded; nothing leaves for an unapproved endpoint |
| sessions | a refresh retried, or raced; logins that count failures before a slow comparison; a password change that has revoked and not committed | one live refresh token per session; after reuse the family is over, and so are the sessions a password change found; the lockout bounds guesses |
| execution (m23) | retry against a late acknowledgement, two limits on attempts | attempts bounded; every failed execution ends |
| audit | concurrent appends under an advisory lock, taken after row locks | the chain has no gap and no fork; no deadlock with the callers' locks |

The hazards, each at its line, are in PROJECT.json.

## 2. The modules

| module | what it is |
|---|---|
| `ControlledRelease` | abstract: what m22 promises. A request is opened with a quorum and a set of barred people, endorsed, and released once |
| `Approval` | m22's calls over its tables |
| `Journal` | m21's drafting calls over header and lines |
| `Posting` | m21's posting calls; EXTENDS `Journal` and interleaves with it |
| `Workflow` | m06's engine: one instance of any valid definition |
| `Notify`, `Ladder` | m08's delivery of requests, and its escalation ladders |
| `Notifications` | the two side by side |
| `Relay` | m36's endpoints and the fan-out of events to them |
| `Session` | m02-auth's password, lockout, sessions and refresh tokens, for one account |
| `ApprovalProofs`, `ApprovalLedgerProofs`, `JournalProofs`, `PostingProofs`, `WorkflowProofs`, `NotificationsProofs`, `RelayProofs`, `SessionProofs` | theorems about them (section 4) |
| `MC...` | the values of the constants for TLC, one per checked module |

Every module has the same layout: constants with their assumptions, tables as
variables, one action per call (or per part of a call between which others may
commit), `Next`, `Spec`, and the properties.

### 2.1 Approval

Variables are tables. `row` is `approval_request`; `steps` the levels of a request;
`decisions`, `outcomes`, `escalations` and `history` the ledgers; `delegations` the
grants in order of creation. `tx[s]` is the call that transaction `s` has open, with
the row it read.

A call is `Begin...` and `Commit...`. `Begin` is the part before the first write: the
row it reads and the checks it makes on it. `Commit` is everything the call writes,
history, ledgers, step and outcome included, which PostgreSQL shows to others at
once. Between the two other calls may commit. `Rollback` may end any open call: it
stands for a stale version (409), for a constraint, for an exception, a lost
connection and a crash, which all leave the same tables. A call that only returns
what exists (a replayed key, an escalation already fired) is a `Begin` that is not
enabled.

The reads that follow the first write in the code, such as counting the distinct
approvers after the decision was inserted, are in `Commit`. That is exact where it
matters: the count could miss an approval that commits in between, but then the
version has moved and the swap fails. The counter, the quorum and the ledgers are
those of the code; the caller's `expectedVersion` is the version the call reads, as
an older one fails and a newer one does not exist.

Constraints are guards of `Commit`: `OutcomeFree` (UNIQUE request), `EscalationUnique`
(UNIQUE NULLS NOT DISTINCT target level), `KeyUnique` (the partial unique index),
`DecisionRowAllowed` (CHECK approver is not maker).

Clocks are reduced to what is asked of them: a delegation ends "never", in the
"future" or in the "past", and `DelegationEnds` moves the second to the third.

### 2.2 Journal

A line edit reads the header twice: `loadEditable` sees that the draft is editable,
and `recomputeTotals` reads it again for the version it swaps on. Under READ COMMITTED
each statement sees what is committed when it starts, so one `Begin` would hide the
gap. A line edit is four steps: `BeginEdit` (first read of header and line),
`WriteLine` (the line's INSERT or UPDATE, and the second read of the header),
`SumLines` (`listLines` and `computeBalance`: the committed lines and the call's own)
and `CommitEdit`. A call that reverted a validated draft holds the row's lock from
then on; it keeps the version it read, which makes every other write to that header
fail or wait until it ends, and the swap at `CommitEdit` says so.

A validation reads header and lines in two statements too (`BeginValidate`,
`CheckLines`, `CommitValidate`). Calls that read one row and swap it (header edit,
submission, withdrawal) are one step, as any write between read and swap moves the
version and fails the call.

The CHECK `status = 'draft' OR total_debits_minor = total_credits_minor` is
`RowAllowed`, asked of every write of a header. `CreateDraft` covers a caller's lines
and the legs of a recommendation. A line's currency stands for everything
`validateDraft` checks of a line by itself.

### 2.3 Posting

`BeginPrepare`/`CommitPrepare` copy the amount of a submitted draft into a new
request. `Authorize` and `CancelRequest` swap one row. A result is `BeginResult` (the
request, its status, and the unlocked question whether the draft has posted),
`ReadDraft` for a success, and `CommitSuccess`, `CommitFailure` or `CommitPending`. A
ready request passes through "submitted" on the way and so gains two versions. When
the draft has moved since it was read, the success is recorded and the draft left as
it is, without an error: the code ignores the failed swap, and so does the model.

### 2.4 Workflow

A definition is data: `out[n]` the successors of a node, `type[n]` its node type.
`IsDefinition` is what `validateDefinition` demands of the graph (one start, arities,
everything reachable; finitely many nodes, as it is a JSON document), and the ASSUME that
all `Definitions` satisfy it is what the proofs use. The variables of an instance are written at its start and never again, so
the edge a gateway chooses is fixed and part of the definition (`take`).

`tokens`, `tasks` and `clocks` are rows in the order of insertion, `inst` is the status,
moved by the machine of `lifecycles.ts` (`Machine`, `Apply`; an action the machine does
not know leaves the status, as in `transitionInstance`).

`Visit` is one pass of the loop of `drive` over the first token of the worklist, with a
disjunct for each node type; `Loop` makes up to `MaxLoopIterations` passes and parks with
an incident when the worklist is not empty then; `Settle` is the status after the loop.
A whole drive is one step, because it runs under the advisory lock of the instance
until it commits. What matters is what is read *before* the lock: `BeginFinish` reads
the task and the token parked at its node and swaps the task row (which stays locked),
`BeginRetry` reads the list of active tokens; `CommitFinish` and `CommitRetry` drive
from what was read then. `consumeToken`'s answer is ignored in the code and so
`Consume` is unconditional. A timer is `BeginFire` (timer and newest clock) and
`CommitFire` (claim of the timer, and the swap of the clock's flag).

Abstracted: "completed" and "rejected" are one verdict, FINISHED; a start that repeats
its business key changes nothing; the version swap of the instance is folded into the
lock; "IN_PROGRESS" is never written by the code; the retry counter of an incident is
left out; `activeTokens` has no ORDER BY and the model takes the order of insertion.
SUB_WORKFLOW and COMPENSATION are refused by the validator, and so is a PARALLEL_SPLIT
without its `joinKey` (`validator.ts:201`). The validator does not ask whether a
SYSTEM_TASK has a handler: `directiveForNode` throws NO_HANDLER at one that has none
(`engine.ts:138`), so every drive that comes to it is rolled back and the token before it
never moves. Such definitions are left out: a `SYSTEM_TASK` of the model has the handler
"noop" or one the engine does not know, which parks. `MaxDisturbances` bounds the
steps of people that undo or hinder progress; it may differ between definitions.

### 2.5 Notify, Ladder, Notifications

A dispatch is `Claim`, `Call` (or `DoWithout`, when the message does not render or no
provider serves its channel) and `Record`. All is one transaction in the code, so the claimed row stays locked from
`Claim` to the end, and nobody sees the claim before: the lease never outlives its
transaction. `Lose` is a dispatch that ends without a commit; its call to the provider
has happened, its attempt and its evidence are gone. `sent` and `landed` are histories
of the calls and of those that succeeded. What `next_attempt_at` and `expires_at` are
compared with is reduced to `due` and `live`, which time moves (`Due`, `Expire`).
Preferences and suppressions are read when a request is created and never again; quiet
hours only defer.

An operation on a ladder is one transaction without a call to the outside, made on the
version its caller read, and is one action. `fired` is the history of the levels in
its events. A repeated last level is bounded by `MaxRepeats`.

### 2.6 Relay

`deliverEvent` is, for each matching subscription, `NextSubscription` (a transaction:
delivered before? endpoint active? how many attempts?), `Post` (the call) and `Record`
(a transaction: the row, and "dead_letter" when the attempt counted before the call was
the last). `replayDelivery` enters at the same place. `Die` ends a dispatcher between
any two. A second "delivered" for one endpoint and event meets the unique index,
raises, and ends the fan-out of that dispatcher. The lifecycle of an endpoint
(register, request review, approve, reject, suspend) is one swap each; `reviews` holds
who asked and who decided.

### 2.7 Session

A login is `BeginLogin` (the lockout's count of failures), `Verify` (the comparison with
the credential it reads), and `OpenSession` (perhaps a rehash, and the session) or
`RefuseLogin` (the failed row). A change of the password is `BeginChange` and
`CommitChange`: the first replaces the secret and revokes the sessions that are active
(`change.found`), which takes the locks of these rows and shows nothing to the others;
the second is the COMMIT. In between a refresh, a resolve or a revocation of one of those
sessions waits (`Locked`), and so does a login that has to rehash; any other login goes
on and may commit its session, which the change does not see. A session is stamped
with the password its login compared (`born`). A
refresh is `BeginRefresh` (the token), `Consume` (the swap that locks it) and `Rotate`,
or `Reuse`, which revokes the family. `BeginResolve`/`EndResolve` is the write of
`resolveToken` on a session it read earlier: only the expiry matters. Passwords are
numbers: `credential.password` is the change that set it. A session's family is its own,
so only its tokens rotate. The window of the lockout is taken as never ending and the
throttle per source address is left out. With `Fallback` every hash is made with the
weak hasher and so to be rehashed at each login; the runs take the other hasher, where
the credential may be weak at first and a rehash makes it strong.

### 2.8 What the models leave out on purpose

Permissions (taken as granted), tenants (one), texts, dates, reasons, currencies
beyond one or two; audit, outbox and other rows that nothing reads back; lock waits
inside a transaction: since a call commits at once, a deadlock that PostgreSQL would
break by aborting one side is one of the causes of a rollback; the representation of
money (JavaScript numbers over bigint columns: exact below 2^53).

## 3. The runs

All pass runs are exhaustive for the instance. Deadlock is not checked: every bound
below ends the model, and the system itself may rest when nobody calls it.

| run | question | instance | states |
|---|---|---|---|
| `ApprovalDecide` | may racing decisions break quorum, segregation of duties, the single release, the ledgers or `ControlledRelease`? | 1 request, quorum 1 or 2, 3 users (a maker, an optional preparer), 2 transactions, 1 abstention | 502 722 |
| `ApprovalEscalate` | do timers and the decision "escalate" count the same escalations, and does a delegation get anybody past the segregation of duties? | 1 request of 2 levels, depth 1 by timer and 2 by decision, 2 users (one of them the maker), 1 delegation either way, 2 transactions | 1 152 198 |
| `JournalEdit` | do racing edits keep totals, balance and every line? | 1 draft of 2 to 3 lines, amounts 1 and 2, 2 transactions, versions up to 4 | 951 767 |
| `PostingFlow` | do racing results and retries keep one success per request, the amount, the approval and the keys? | 1 draft, 2 requests, 1 key, 2 results, 2 transactions, 2 users | 917 714 |
| `WorkflowRun` | who may take a task from a token, what does a join wait for, do status and alerts agree, and does the work end? | 4 definitions that between them have every node type, 2 users (one starts, the other oversees), 2 transactions, 1 disturbance of the parallel one, 5 passes, 2 incidents | 207 076 |
| `NotifyDeliver` | is what is sent bounded and evidenced, do requests and ladders end? | 1 in-app request, 2 workers, 2 attempts, 1 manual retry, 1 change of preferences, 1 lost dispatch; ladders of 2 levels and of 1 repeated level | 404 544 |
| `RelayDeliver` | one delivery, a cap that holds but for the racers, and egress only after approval? | 1 endpoint, 1 event, 2 people, 2 dispatchers, cap 3, 1 death | about 2 370 000 |
| `SessionRefresh` | one chain of tokens, an end after reuse and after a change of the password found the session, a lockout that bounds guesses? | 1 session, 2 logins, 2 clients, lockout at 2, 4 tokens, 1 change, 1 lost call | 2 517 812 |

What each property says is above its definition. Why these bounds are enough to see
something. Two transactions, workers, dispatchers or clients are the least with an
interleaving, and every conflict in the code is between two calls on one row or one
index entry; a third could only repeat the role of one of them. Quorum 2 with three
users has every distribution of roles (maker, preparer, approver, second approver).
Two posting requests of one draft are the least that can post twice. A draft at
version 4 has been created, changed and changed again by both transactions. The
parallel definition has a branch that leads back to the split, so that two tokens wait
at one task and the join is come to again, one that leads to CANCEL and a join behind
both; the served one a gateway, a handler and a service level with
both timers; the third parks at both waits; the last runs into the loop's limit or an
unknown handler. One fault is enough to put the evidence behind the calls by one,
which is what the bounds of `SendsAreBounded`, `CapIsReachedSoon` and `LockoutHolds` count;
the theorems of section 4 hold for any number of them. `Max...` bounds are guards of the
actions that grow something and never of those that finish it; `MaxAttempts`,
`MaxLoopIterations`, `MaxDeliveryAttempts`, `MaxFailures`, `MaxEscalationDepth` and
`DepthCeiling` are limits of the code itself.

Four more runs end in a counterexample, each about one statement of the repository.

| run | statement | what happens |
|---|---|---|
| `ClaimOpenRequestCanEnd` | a request can be cancelled "from any non-terminal state" (m22 `request.service.ts:315`) | after a return and a resubmission it cannot be cancelled, approved, rejected or returned: its outcome row is taken |
| `ClaimNoDuplicate` | "a succeeded result may only be recorded once" (m21 `posting.service.ts:281`) | two requests of one draft succeed |
| `ClaimRetryIsSafe` | retry "is idempotent for parked task nodes" (m06 `instance.service.ts:460`) | a retry that read its tokens before a finish committed opens a task without a token |
| `ClaimPasswordChange` | changing a password takes effect "atomically" (m02 `auth.service.ts:186`) | a login that rehashes the password it compared with writes the old one back |

`OpenRequestCanEnd` uses ENABLED on the commit of an open call with the latest version,
and so needs no fairness.

### 3.1 Fairness

The safety properties need none. Liveness is checked in two runs.

`Workflow`: `ServerFairness` is justified by the code: a transaction ends, by commit or
rollback, and one that is tried over and over commits at last (strong fairness of the
two commits, since a rollback can undo what a begin enabled). `OfficeFairness` is an
assumption about people and not about the code: tasks are claimed, an overseer works
them forward, an operator resumes what is suspended and retries. Under both, `WorkEnds`
says that an instance ends but in the cases where the code itself has no way on: it
stands at a TIMER_WAIT or EVENT_WAIT (nothing in the code resumes those), it ran into the
limit of the loop or an unknown handler, or its starter is the overseer, who may not
approve their own.

`Notify`, `Ladder`: the loop that calls `dispatch` and `advance` is not in the repository
(`STAGE_2_4_M08_NOTIFICATIONS_COMPLETION.md:99`: "No standing dispatcher/timer worker").
Weak fairness of claims, of advancing and of time is therefore an assumption about who
runs the system. What the properties then test is the code's part: whether a row that
waits is always one that a claim can take, whatever was lost, retried or opted out
before.

### 3.2 Divergences without a run

Seen while modelling; the models behave as described, and the properties say what does
hold there. Where a line of the repository promises otherwise, it is quoted.

- m22: a delegate of the preparer, or of an earlier approver, may approve
  (`engine.ts:84` checks the principal against the maker only; `0001_approval.sql:297`
  speaks of laundering). The evidence of a blocked approval is rolled back with it
  (`decision.service.ts:103`). An abstention lands on a request that was finished
  meanwhile. Later steps stay "pending" when the quorum is reached. "escalate" does not
  consult the lifecycle table.
- m21: a header edit keeps "validated" (`draft.service.ts:245` against
  `lifecycles.ts:26`). A line edit in flight lands on a draft that was validated
  meanwhile. An unbalanced draft cannot be withdrawn. A withdrawn draft may still
  receive a succeeded posting. A key used for the create of a posting request is always
  refused for its result. A late "pending" result is recorded on a finished request.
  `approval_ref` is never looked up.
- m06: a fired node timer resumes nothing (`STAGE_2_2_M06_WORKFLOW_ARCHITECTURE.md:154`
  says it does). The lease of a claimed task is never given back when it expires. An SLA
  timer flags the newest clock of the instance, whichever task it was scheduled for.
  Warnings and breaches are promised "EXACTLY ONCE" (`sla.service.ts:3` and `:68`) and
  sent at most once: of a warning and a breach that race for one clock the loser fires
  its timer, finds another version of the clock (`:87`, `:106`), returns "noop" and
  commits, so that its flag is never set and nothing is sent. A join counts every token
  ever consumed at it: its first token takes a full set of arrivals, and after that each
  single arrival passes, as when a branch is done a second time, which `WorkflowRun`
  does (`STAGE_2_2_M06_WORKFLOW_ARCHITECTURE.md:153` has it fire "when all expected
  tokens arrived"). Two branches that lead to one task share it: the finish takes one
  token on and leaves the other without an open task until somebody retries, as happens
  in `WorkflowRun`. So does the finish of a task that a racing retry made, when a token
  arrives at it in the meantime. After a drive that gave up at the limit of the loop,
  tokens it never visited stand anywhere; two retries that race may then drive such a
  token twice, and the instance is completed while a token is active. `ParkedWorkIsKept`
  and `StatusFollowsTokens` (section 4) prove that there are no other ways to strand a
  token or to complete over one.
- m08: quiet hours only defer, and deferred requests are queued at once. A suppression
  after the create does not stop what is queued. A manual retry revives "exhausted". A
  ladder with a repeat interval never ends although the documents call ladders bounded.
  "requested", "processing", "failed" and "expired" are in no committed row. A dispatch
  that crashes each time sends each time, uncounted.
- m36: attempts do not stop at "dead_letter": an event that is handed over or replayed
  again is tried again, and each failure adds a "dead_letter" row (`CapIsReachedSoon`
  bounds the failures before it only). A subscription to "*" beside one to the type
  tries a failing event twice in one pass.
- m02: a refresh ignores the idle expiry and so revives a session that lapsed. The
  suspension of an account does not call `revokeAllForAccount` (`session.service.ts:277`
  says it does). `locked_at` is never written. A session that a login opens between the
  UPDATE of a password change and its COMMIT, or after it on a password compared before,
  survives the change on the old password, although `auth.service.ts:186` has it revoke
  "every existing session for the account, atomically"; section 4 proves that there is
  no other way. A client that retries a refresh whose answer was lost loses its family.

## 4. The proofs

TLC shows the properties on the instances above; the theorems hold for every value of
the constants that satisfies the ASSUMEs of the module: any number of users, requests,
transactions, workers, lines, sessions and any bounds. PROJECT.json lists all of them
with the lemmas left out.

| module | inductive invariant | theorems (property) |
|---|---|---|
| `ApprovalProofs` | `Invariance` | `TypeCorrect` (`TypeOK`), `ApprovalHasQuorum` (`ApprovedByQuorum`), `FinishedIsFinal` (`TerminalIsFinal`) |
| `ApprovalLedgerProofs` | `LedgerInvariance` | `DutiesAreSegregated` (`SegregationOfDuties`), `ReleaseIsTheApproval` (`ReleasedOnceApproved`), `CounterIsTrue` (`CountMatchesLedger`), `HistoryIsTrue` (`HistoryIsTheLife`), `EscalatesOncePerLevel` (`EscalationsCounted`), `DecisionsLandInTime`, `PromiseIsKept` (`KeepsPromise`, the refinement of `ControlledRelease`) |
| `JournalProofs` | `JournalInvariance` | `JournalTypeCorrect`, `HeaderSumsItsLines` (`TotalsMatchLines`), `SubmittedDraftsBalance` (`SubmittedBalances`), `EditsAreNeverLost` (`EveryLineEditCounts`) |
| `PostingProofs` | `PostingInvariance` | `PostingTypeCorrect`, `RequestsPostTheirDrafts` (`AmountIsTheDrafts`), `RequestsSucceedOnce` (`OneSuccessPerRequest`), `NothingPostsUnapproved` (`PostedWasApproved`), `KeysStandForOne` (`KeyStandsForOne`), `DraftsStaySound`, `FinishedRequestsRest`; `DuplicatesBounded`; under a condition `NoDuplicatesApart` (`NoDuplicatePosting`) |
| `WorkflowProofs` | `WorkflowInvariance` (also `Holding`, `Calmness`, `Cover`) | `WorkflowTypeCorrect` (`TypeOK`), `WorkIsOfferedOnce` (`OneOpenTaskPerNode`), `AlertsAreNotRepeated` (`AlertsPerTimer`), `EndedStaysEnded` (`EndedIsFinal`), `ParkedWorkIsKept` (`WorkIsKept`), `JoinLaw` (`JoinCountsArrivals`), `WaitingHasTokens`; under a condition `StatusFollowsTokens` (`StatusAgreesWithTokens`), `RetrySafeWhenApart` (`RetryIsSafe`) |
| `NotificationsProofs` | `NotifyInvariance` | `RequestTypeCorrect`, `EvidenceAgrees` (`DeliveredIsEvidenced`), `SendsStayBounded` (`SendsAreBounded`), `SettledIsNeverSent` (`NoSendOnceSettled`), `LadderClimbsInOrder` (`LevelsFireInOrder`) |
| `RelayProofs` | `RelayInvariance` | `RelayTypeCorrect`, `NoEgressUnapproved` (`EgressWasApproved`), `RecordStaysSound` (`RecordIsSound`), `CapBoundsFailures` (`CapIsReachedSoon`) |
| `SessionProofs` | `SessionInvariance` | `SessionTypeCorrect`, `TokensNeverFork` (`TokensAreOneChain`), `ReuseIsFinal` (`ReuseEndsTheFamily`), `ChangeEndsWhatItFound` (`ChangeEndsSessions`), `EndedSessionsStayEnded` (`EndedMintsNothing`), `LockoutBoundsGuesses` (`LockoutHolds`); under a condition `ChangesStickApart` and `ChangesStickWhenStrong` (`PasswordChangeSticks`), `NoSessionOutlivesItsPassword` |

Hardly any property is inductive by itself: what a call checked is true of the row it
read, not of the row it writes. What each invariant adds is the reason why that is
enough.

- **Approval: optimistic locking** (`Snapshots`). The version an open call read is at
  most the current one; if the versions are equal the rows are equal; what was checked
  holds of the row read; maker, preparer and quorum never change. Hence `UpdateHits`: a
  call whose swap hits works on the very row it checked. Every commit is first reduced
  to `Moves`, what it does to the tables whatever the call, and `Moves` is shown once to
  keep the invariant.
- **Approval's ledgers.** Whatever is written beside a row (`Writes`: remarks, approvals,
  counter, outcome, escalation) is computed from the row it replaces, by the same
  commit; ledgers and grants are never erased. Each history line is a step the lifecycle
  allows from the status before it (`AllowedLine`). That nobody approves twice needs the
  ledger: who approved before the call read is among the priors it checked, and who
  approved since has moved the version. The counter is taken on an unlocked read,
  but with the call's own line in it and on a row that the swap then finds unmoved.
- **Refinement.** `PromiseIsKept` shows step by step that a commit is `Open`, `Endorse`,
  `Release` or `Close` of `ControlledRelease`, or stutters, under the mapping of the
  instance in `Approval`.
- **Journal.** `EditFits` and `ValidateFits`: a call that finds the header version it read
  finds the header *and the lines* it read, because every write of a line ends in a
  write of its header. An edit moves one positive amount, so that it never leads from
  one balance to another; that is why a validated draft with an edit in flight is still
  not submitted unbalanced.
- **Posting.** A draft that left "draft" keeps the sum of its lines (`DraftMoves`), results
  commit on the request row they read, and the ledger knows every key in use. The
  theorems of `Journal` are carried over to `Posting`'s specification, where drafts move
  in one more way.
- **Workflow.** `Drivable`, the state of a drive, is kept by each visit, case by case over
  the node types, and carried over the loop by induction on its passes. Open
  transactions hold rows that are still there (`WorkInv`); rows are only appended, and a
  fired timer pays for one flag at most. The machine has no way out of an ended status.
- **Workflow: tokens, tasks and joins.** `Along` says the same of a drive for what it does
  to tokens and tasks, again by induction on its passes: what a visit consumes it
  replaces, where it parks it opens a task if none is open, and a join's tokens are paid
  for by arrivals (`Counted`). `HoldInv` says what a finish under way keeps of its task
  and its token. On it rest two invariants: `CalmInv` (active tokens rest at nodes that
  park, the status knows whether there are any, joins are counted) and `CoverInv` (an open
  task has a token, and a retry under way knows no task node that has lost its own).
- **Workflow: work is kept.** That every token at a task has its task is not true, so no
  invariant says it. `WorkIsKept` says what a single step may do: `Along` is stated
  relative to the set of tokens whose tasks are accounted for (`Tended`), starts with
  those the drive was given, and ends with every token the drive made or visited
  (`DriveTends`). A finish removes the task of one node only (`FinishStrands`), the swaps
  of the other calls remove none (`SwapStrandsNone`), and a retry visits all it read
  (`RetryHeals`).
- **Notifications.** A worker holds the row it claimed (`RowsHeld`); evidence and status
  agree (`EvidenceStands`); each call of a provider is paid for by an attempt, a manual
  retry or a lost dispatch (`SendsStand`).
- **Relay.** Reviews and deliveries only grow; failures recorded, plus the calls under
  way that were counted below the cap, stay below cap plus dispatchers (`CapStands`).
- **Session.** A call holds a token and a version that were there (`CallsFit`); tokens are
  one chain; the rows a change of the password holds stay active until it commits (`Sweeps`),
  and those it found have ended afterwards; guesses are bounded by recorded
  failures plus the logins under way (`LoginsCounted`).

Loops over data are recursive functions, never RECURSIVE operators. Where an induction
is needed (the passes of a drive, sums over lines), lemma `Induction` states it about a
set of naturals and rests on the least element of a non-empty one, which the backends
can use without a higher-order parameter.

**Theorems under a condition.** Some statements are not true of every behaviour: the status
need not agree with the tokens after a drive gave up, and five claims of the repository
fail (the four runs that end in a counterexample, and the sessions that outlive their
password, section 3.2). The theorems say when they are true, in terms of what the system
is doing:

| theorem | condition | without it |
|---|---|---|
| `StatusFollowsTokens` | `NoLoopLimit`: no incident LOOP_LIMIT was raised | two racing retries drive what an abandoned drive left, and the instance completes over an active token |
| `JoinLaw` | `NoLoopLimit`, which `JoinCountsArrivals` itself names | the same retries drive one token at the join twice |
| `RetrySafeWhenApart` | `RetriesApart`: no retry is under way with a finish | `ClaimRetryIsSafe` |
| `NoDuplicatesApart` | `ResultsApart`: no two results of a draft that found none posted are under way | `ClaimNoDuplicate`; `DuplicatesBounded` says how many |
| `ChangesStickApart` | `ChangesApart`: no change of the password meets a login that compared with a weak hash | `ClaimPasswordChange` |
| `ChangesStickWhenStrong` | the credential and the configured hasher are strong | the same |
| `NoSessionOutlivesItsPassword` | `ChangesAlone`: no login is between its comparison and its commit while a change is open | a session of the old password survives the change |

`NoLoopLimit` is asked of the present state; the others of the whole behaviour, since what
a race has written stays. `WorkflowRun` checks `StatusAgreesWithTokens` without its
condition: on the definitions of `MCWorkflow` only `Spins` reaches the limit of the loop,
and `MaxIncidents` allows no retry of it after that, so that the race of the first row is
outside the run. `ParkedWorkIsKept` and
`ChangeEndsWhatItFound` have no condition.

Only model-checked: the liveness properties `WorkEnds`, `RequestEnds`, `MandatoryIsTried`
and `LadderEnds`, and `OpenRequestCanEnd`, since liveness and ENABLED are beyond the proof
system.

## 5. Not modelled

Most of the repository by lines is of a kind that a model would only repeat: modules
that keep versioned rows and change one row per call by one compare-and-swap (the legal
modules m13, m14, m16 to m18, the platform modules m30 to m35 and m37 to m39, the AI
modules m24 to m29, identity, tenants, administration, catalogues and templates), pure
functions and data (the rule language of m07, parsers, catalogues of codes), the HTTP
controllers and the web client. What protects those rows is the same argument as in
`Snapshots`, made once. So the lines the models stand for are a small share of the
repository; they are the ones in which more than one row, actor or transaction takes
part. PROJECT.json gives the reason for every component.

What would be worth adding, in this order:

1. `Execution` (m23), composed with `Posting`: bounded retry against late
   acknowledgements, and the two limits on attempts that disagree.
2. The order of locks: `m03`'s advisory lock of the audit chain, taken early by one call
   and late by another (m06), and m22's escalation and decision. It needs lock waits as
   steps of the models.
3. `m02-rbac`: two assignments that conflict, racing past the check.
4. Matching (m15a) as a function against a reference definition, and the protocol of
   proposal and confirmation over it.
5. A source of approvals for `posting_request.approval_ref`, once the code relates the two.
