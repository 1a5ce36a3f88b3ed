------------------------------- MODULE Posting -------------------------------
(***************************************************************************)
(* m21-journal, the posting half: posting requests for submitted drafts,   *)
(* their authorization by an approver, and the evidence of posting results *)
(* that comes back (from m23, or from a person).  It shares the drafts and *)
(* the open transactions of Journal, whose calls go on meanwhile.          *)
(*                                                                         *)
(* A request copies its amount from the draft it read and never looks at   *)
(* the draft again until a result succeeds.  The approval reference is an  *)
(* opaque id that nothing here checks against m22: it comes and goes with  *)
(* the approver.  A request's period is "open" from its insert on.         *)
(***************************************************************************)
EXTENDS Journal

CONSTANTS
  Requests,    \* ids of posting requests
  Users,
  NoUser,      \* SQL NULL in requested_by and approved_by
  Makers,      \* who may stand in requested_by
  Keys, NoKey, \* idempotency keys, and none
  MaxResults   \* bound on the posting results recorded

ASSUME PostingAssumption ==
  /\ Drafts # {}
  /\ NoUser \notin Users /\ NoKey \notin Keys
  /\ Makers \subseteq Users \cup {NoUser}
  /\ MaxResults \in Nat

VARIABLES
  request,  \* posting_request: the row of each request
  ledger    \* posting_idempotency: the keys of commands that took effect

vars == <<draft, lines, results, tx, request, ledger>>

-----------------------------------------------------------------------------
PostingMachine ==
  [prepared |-> {"ready", "cancelled"}, ready |-> {"submitted", "cancelled"},
   submitted |-> {"succeeded", "failed"}, succeeded |-> {},
   failed |-> {"ready", "cancelled"}, cancelled |-> {}]
PostingStatuses == {"prepared", "ready", "submitted", "succeeded", "failed", "cancelled"}
CanMoveRequest(from, to) == from \in PostingStatuses /\ to \in PostingMachine[from]
Outcomes == {"pending", "succeeded", "failed"}

NoRequest == [status |-> "none", version |-> 0, draft |-> CHOOSE d \in Drafts : TRUE,
              maker |-> NoUser, approver |-> NoUser, amount |-> 0, key |-> NoKey]

RequestHits_IgnoresVersion(t) == request[t.request].status # "none"
RequestHits(t) == request[t.request].version = t.row.version

MoveRequest(q, status, steps) ==
  request' = [request EXCEPT ![q].status = status, ![q].version = @ + steps]

\* insertPostingIdempotency: a key in the ledger is refused.
LedgerTakes_Overwrites(k) == k \in Keys \cup {NoKey}
LedgerTakes(k) == k \notin ledger
Record(k) == ledger' = IF k = NoKey THEN ledger ELSE ledger \cup {k}

-----------------------------------------------------------------------------
(* posting.service.ts: createPostingRequest                                *)

KeyKnown(k) == k # NoKey /\ \E q \in Requests : request[q].status # "none" /\ request[q].key = k

\* With a known key the call returns that request and writes nothing.
BeginPrepare(s, d, maker, k) ==
  /\ draft[d].status = "submitted"
  /\ draft[d].debits = draft[d].credits /\ draft[d].period = "open"
  /\ ~HasPosted(d)
  /\ ~KeyKnown(k)
  /\ Open(s, [op |-> "prepare", draft |-> d, amount |-> draft[d].debits,
              maker |-> maker, key |-> k])
  /\ UNCHANGED <<draft, lines, results, request, ledger>>

CommitPrepare(s) ==
  LET t == tx[s] IN
  /\ t.op = "prepare"
  /\ ~KeyKnown(t.key) /\ LedgerTakes(t.key)
  /\ \E q \in Requests :
       /\ request[q].status = "none"
       /\ request' = [request EXCEPT ![q] =
            [status |-> "prepared", version |-> 1, draft |-> t.draft, maker |-> t.maker,
             approver |-> NoUser, amount |-> t.amount, key |-> t.key]]
  /\ Record(t.key)
  /\ Finish(s)
  /\ UNCHANGED <<draft, lines, results>>

-----------------------------------------------------------------------------
(* authorizePostingRequest and cancelPostingRequest: read one row, swap it *)

MayApprove_Anybody(q, approver) == approver \in Users
MayApprove(q, approver) == approver # request[q].maker

Authorize(q, approver) ==
  /\ CanMoveRequest(request[q].status, "ready")
  /\ MayApprove(q, approver)
  /\ request' = [request EXCEPT ![q].status = "ready", ![q].version = @ + 1,
                                ![q].approver = approver]
  /\ UNCHANGED <<draft, lines, results, tx, ledger>>

CancelRequest(q) ==
  /\ CanMoveRequest(request[q].status, "cancelled")
  /\ MoveRequest(q, "cancelled", 1)
  /\ UNCHANGED <<draft, lines, results, tx, ledger>>

-----------------------------------------------------------------------------
(* recordPostingResult                                                     *)

BeginResult(s, q, outcome, k) ==
  /\ request[q].status \in {"ready", "submitted"}
  /\ request[q].approver # NoUser
  /\ outcome = "succeeded" => ~HasPosted(request[q].draft)
  /\ Len(results) < MaxResults
  /\ Open(s, [op |-> "result", at |-> "begun", request |-> q, row |-> request[q],
              draft |-> request[q].draft, old |-> NoDraft, outcome |-> outcome, key |-> k])
  /\ UNCHANGED <<draft, lines, results, request, ledger>>

\* findDraft, after the request was moved; only a success looks at the draft.
ReadDraft(s) ==
  LET t == tx[s] IN
  /\ t.op = "result" /\ t.at = "begun" /\ t.outcome = "succeeded"
  /\ Step(s, [t EXCEPT !.at = "read", !.old = draft[t.draft]])
  /\ UNCHANGED <<draft, lines, results, request, ledger>>

\* insertPostingResult; its key is unique among the results.
InsertResult(t) ==
  /\ Len(results) < MaxResults
  /\ t.key # NoKey => \A i \in DOMAIN results : results[i].key # t.key
  /\ results' = Append(results,
       [request |-> t.request, draft |-> t.draft, status |-> t.outcome, key |-> t.key])

\* A ready request passes through "submitted" on the way.
Swaps(t) == IF t.row.status = "ready" THEN 2 ELSE 1

CommitSuccess(s) ==
  LET t == tx[s] IN
  /\ t.op = "result" /\ t.at = "read"
  /\ RequestHits(t)
  /\ InsertResult(t)
  /\ LedgerTakes(t.key) /\ Record(t.key)
  /\ MoveRequest(t.request, "succeeded", Swaps(t))
  /\ IF t.old.status = "submitted" /\ CasHits(t)
     THEN Write(t.draft, [draft[t.draft] EXCEPT !.status = "posted"])
     ELSE UNCHANGED draft
  /\ Finish(s)
  /\ UNCHANGED lines

CommitFailure(s) ==
  LET t == tx[s] IN
  /\ t.op = "result" /\ t.outcome = "failed"
  /\ RequestHits(t)
  /\ InsertResult(t)
  /\ MoveRequest(t.request, "failed", Swaps(t))
  /\ Finish(s)
  /\ UNCHANGED <<draft, lines, ledger>>

\* On a request that was already "submitted" this writes no row but the result.
CommitPending(s) ==
  LET t == tx[s] IN
  /\ t.op = "result" /\ t.outcome = "pending"
  /\ InsertResult(t)
  /\ \/ /\ t.row.status = "ready" /\ RequestHits(t)
        /\ MoveRequest(t.request, "submitted", 1)
     \/ t.row.status = "submitted" /\ UNCHANGED request
  /\ Finish(s)
  /\ UNCHANGED <<draft, lines, ledger>>

-----------------------------------------------------------------------------
Init == JournalInit /\ request = [q \in Requests |-> NoRequest] /\ ledger = {}

PostingCall(s) ==
  \/ \E d \in Drafts, maker \in Makers, k \in Keys \cup {NoKey} :
       BeginPrepare(s, d, maker, k)
  \/ CommitPrepare(s)
  \/ \E q \in Requests, outcome \in Outcomes, k \in Keys \cup {NoKey} :
       BeginResult(s, q, outcome, k)
  \/ ReadDraft(s) \/ CommitSuccess(s) \/ CommitFailure(s) \/ CommitPending(s)

Next ==
  \/ JournalNext /\ UNCHANGED <<request, ledger>>
  \/ \E s \in Sessions : PostingCall(s)
  \/ \E q \in Requests : (\E u \in Users : Authorize(q, u)) \/ CancelRequest(q)

Spec == Init /\ [][Next]_vars

-----------------------------------------------------------------------------
(* Properties                                                              *)

RequestRows ==
  [status : PostingStatuses \cup {"none"}, version : Nat, draft : Drafts,
   maker : Users \cup {NoUser}, approver : Users \cup {NoUser}, amount : Nat,
   key : Keys \cup {NoKey}]
ResultRows ==
  [request : Requests, draft : Drafts, status : Outcomes, key : Keys \cup {NoKey}]
PrepareCalls ==
  [op : {"prepare"}, draft : Drafts, amount : Nat, maker : Users \cup {NoUser},
   key : Keys \cup {NoKey}]
ResultCalls ==
  [op : {"result"}, at : {"begun", "read"}, request : Requests, row : RequestRows,
   draft : Drafts, old : DraftRows, outcome : Outcomes, key : Keys \cup {NoKey}]

\* Every table and every open call, of drafting and of posting, has its shape.
TypeOK ==
  /\ JournalTypeOK
  /\ request \in [Requests -> RequestRows]
  /\ ledger \subseteq Keys
  /\ results \in Seq(ResultRows)
  /\ tx \in [Sessions -> {Idle} \cup EditCalls \cup ValidateCalls \cup PrepareCalls
                          \cup ResultCalls]

ResultsOf(q, status) ==
  {i \in DOMAIN results : results[i].request = q /\ results[i].status = status}

\* What a request posts is what the lines of its draft sum to, at every moment
\* of its life, although nothing locks the draft.
AmountIsTheDrafts ==
  \A q \in Requests : request[q].status # "none" =>
    request[q].amount = Total(lines[request[q].draft], "debit")

\* A request succeeds at most once, whatever results race: its status says so,
\* and no failure is recorded after its success.
OneSuccessPerRequest ==
  \A q \in Requests :
    /\ Cardinality(ResultsOf(q, "succeeded")) = IF request[q].status = "succeeded" THEN 1 ELSE 0
    /\ \A i \in ResultsOf(q, "succeeded"), j \in ResultsOf(q, "failed") : j < i

\* No posting without approval: behind a posted draft is a succeeded result, of
\* a request that somebody other than its maker approved.
PostedWasApproved ==
  \A d \in Drafts : draft[d].status = "posted" =>
    \E i \in DOMAIN results :
      LET q == request[results[i].request] IN
      /\ results[i].draft = d /\ results[i].status = "succeeded"
      /\ q.status = "succeeded" /\ q.approver \in Users /\ q.approver # q.maker

\* A key stands for one command: one request, or one success, and never both.
KeyStandsForOne ==
  /\ \A q, p \in Requests : request[q].key # NoKey /\ request[q].key = request[p].key => q = p
  /\ \A i \in DOMAIN results : results[i].status = "succeeded" /\ results[i].key # NoKey =>
       \A q \in Requests : request[q].key # results[i].key

\* A finished request never changes again.
FinishedRequestIsFinal ==
  [][\A q \in Requests :
       request[q].status \in {"succeeded", "cancelled"} => request'[q] = request[q]]_vars

\* "No duplicate posting - a succeeded result may only be recorded once": a
\* draft has at most one.
NoDuplicatePosting ==
  \A i, j \in DOMAIN results :
    /\ results[i].draft = results[j].draft
    /\ results[i].status = "succeeded" /\ results[j].status = "succeeded"
    => i = j
=============================================================================
