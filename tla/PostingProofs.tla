---------------------------- MODULE PostingProofs ----------------------------
(***************************************************************************)
(* Theorems about Posting, whose calls run among those of Journal on the   *)
(* same drafts.  A request never looks at its draft again, so what it      *)
(* knows must be what no call can change: once a draft was submitted, it   *)
(* stays past validation, and every step leaves the sum of its lines.      *)
(* Results race, but each commits on the request row it read.              *)
(***************************************************************************)
EXTENDS Posting, JournalProofs, FiniteSetTheorems

Late == {"submitted", "posted", "withdrawn"}

\* What a step does to one draft, as far as posting can tell.
DraftMoves(row, ls, row2, ls2) ==
  /\ \/ row2 = row /\ ls2 = ls
     \/ row.status = "none"
     \/ row2.version > row.version
  /\ row.status \in Late =>
       row2.status \in Late /\ Total(ls2, "debit") = Total(ls, "debit")

-----------------------------------------------------------------------------
(* The steps of the drafting half                                          *)

\* The tables and calls that a drafting step leaves alone.
LEMMA JournalTouches ==
  ASSUME JInv, JournalNext
  PROVE  /\ results' = results
         /\ tx' = [s \in Sessions |-> tx'[s]]
         /\ \A s \in Sessions : tx'[s] = tx[s] \/ tx'[s] = Idle \/ tx'[s].op \in Drafting
<1>0. JInv'
  BY JournalStepKeeps
<1>1. ASSUME NEW s \in Sessions, NEW c, tx' = [tx EXCEPT ![s] = c], c = Idle \/ c.op \in Drafting
      PROVE  \A r \in Sessions : tx'[r] = tx[r] \/ tx'[r] = Idle \/ tx'[r].op \in Drafting
  BY <1>1 DEF JInv
<1>2. ASSUME NEW s \in Sessions, EditCall(s) \/ ValidateCall(s) \/ Rollback(s)
      PROVE  /\ results' = results
             /\ \E c : tx' = [tx EXCEPT ![s] = c] /\ (c = Idle \/ c.op \in Drafting)
  <2>1. ASSUME NEW d \in Drafts, NEW op \in Edits, NEW no, NEW line, BeginEdit(s, d, op, no, line)
        PROVE  /\ results' = results
               /\ \E c : tx' = [tx EXCEPT ![s] = c] /\ (c = Idle \/ c.op \in Drafting)
    <3> DEFINE c == [op |-> op, at |-> "begun", draft |-> d, old |-> draft[d],
                     reverts |-> draft[d].status = "validated", no |-> no, line |-> line,
                     debits |-> 0, credits |-> 0]
    <3>1. c.op \in Drafting
      BY DEF Drafting
    <3>2. results' = results /\ tx' = [tx EXCEPT ![s] = c]
      BY <2>1 DEF BeginEdit, Open
    <3> HIDE DEF c
    <3> QED BY <3>1, <3>2
  <2>2. ASSUME NEW d \in Drafts, NEW input \in LineInputs,
               BeginAdd(s, d, input) \/ \E no \in DOMAIN lines[d] : BeginUpdate(s, d, no, input)
        PROVE  \E op \in Edits : \E no, line : BeginEdit(s, d, op, no, line)
    BY <2>2 DEF BeginAdd, BeginUpdate, Edits
  <2>3. ASSUME NEW d \in Drafts, NEW no \in DOMAIN lines[d], BeginRemove(s, d, no)
        PROVE  \E op \in Edits : \E n, line : BeginEdit(s, d, op, n, line)
    BY <2>3 DEF BeginRemove, Edits
  <2>4. ASSUME WriteLine(s) \/ SumLines(s) \/ CheckLines(s)
        PROVE  /\ results' = results
               /\ \E c : tx' = [tx EXCEPT ![s] = c] /\ c.op \in Drafting
    <3>1. /\ results' = results
          /\ \E c : tx' = [tx EXCEPT ![s] = c] /\ c = tx'[s]
      BY <2>4 DEF WriteLine, SumLines, CheckLines, Step, JInv
    <3>2. tx'[s].op = tx[s].op /\ tx[s].op \in Drafting
      <4>1. CASE WriteLine(s)
        <5>1. tx[s] \in EditCalls /\ tx[s].op \in Edits
          BY <4>1, EditKnown DEF WriteLine
        <5> QED BY <4>1, <5>1 DEF WriteLine, Step, JInv, EditCalls, Drafting
      <4>2. CASE SumLines(s)
        <5>1. tx[s] \in EditCalls /\ tx[s].op \in Edits
          BY <4>2, EditKnown DEF SumLines
        <5> QED BY <4>2, <5>1 DEF SumLines, Step, JInv, EditCalls, Drafting
      <4>3. CASE CheckLines(s)
        <5>1. tx[s] \in ValidateCalls /\ tx[s].op = "validate"
          BY <4>3 DEF CheckLines, JInv, CallFits
        <5> QED BY <4>3, <5>1 DEF CheckLines, Step, JInv, ValidateCalls, Drafting
      <4> QED BY <2>4, <4>1, <4>2, <4>3
    <3> QED BY <3>1, <3>2
  <2>5. ASSUME CommitEdit(s) \/ CommitValidate(s) \/ Rollback(s)
        PROVE  results' = results /\ tx' = [tx EXCEPT ![s] = Idle]
    BY <2>5 DEF CommitEdit, CommitValidate, Rollback, Finish
  <2>6. ASSUME NEW d \in Drafts, BeginValidate(s, d)
        PROVE  /\ results' = results
               /\ \E c : tx' = [tx EXCEPT ![s] = c] /\ (c = Idle \/ c.op \in Drafting)
    <3> DEFINE c == [op |-> "validate", at |-> "begun", draft |-> d, old |-> draft[d],
                     valid |-> FALSE]
    <3>1. c.op \in Drafting
      BY DEF Drafting
    <3>2. results' = results /\ tx' = [tx EXCEPT ![s] = c]
      BY <2>6 DEF BeginValidate, Open
    <3> HIDE DEF c
    <3> QED BY <3>1, <3>2
  <2> QED BY <1>2, <2>1, <2>2, <2>3, <2>4, <2>5, <2>6 DEF EditCall, ValidateCall
<1>3. ASSUME NEW d \in Drafts, HeaderCall(d)
      PROVE  results' = results /\ tx' = tx
  BY <1>3 DEF HeaderCall, CreateDraft, EditHeader, SubmitDraft, WithdrawDraft
<1> QED BY <1>0, <1>1, <1>2, <1>3 DEF JournalNext, JInv

\* What a drafting step does to a draft.
LEMMA JournalMovesDrafts ==
  ASSUME JInv, JournalNext, NEW d \in Drafts
  PROVE  /\ DraftMoves(draft[d], lines[d], draft'[d], lines'[d])
         /\ draft'[d].status = "posted" => draft[d].status = "posted"
<1>0. draft[d] \in DraftRows /\ lines[d] \in Seq(LineRows) /\ DraftFits(draft[d], lines[d])
  BY DEF JInv
<1>1. ASSUME draft'[d] = draft[d], lines'[d] = lines[d]
      PROVE  /\ DraftMoves(draft[d], lines[d], draft'[d], lines'[d])
             /\ draft'[d].status = "posted" => draft[d].status = "posted"
  BY <1>1 DEF DraftMoves
<1>2. ASSUME NEW s \in Sessions, CommitEdit(s), tx[s].draft = d
      PROVE  /\ DraftMoves(draft[d], lines[d], draft'[d], lines'[d])
             /\ draft'[d].status = "posted" => draft[d].status = "posted"
  <2> DEFINE t == tx[s]
             new == Edited(t)
  <2>1. /\ t \in EditCalls /\ EditFits(t, draft[d], lines[d])
        /\ t.op \in Edits /\ LineLands(t) /\ CasHits(t) /\ t.at = "summed"
    BY <1>2, EditKnown DEF CommitEdit
  <2>2. t.old = draft[d] /\ draft[d].status # "none"
    BY <1>2, <2>1 DEF EditFits, CasHits
  <2>3. lines'[d] = new
    BY <1>2 DEF CommitEdit, JInv
  <2>4. /\ draft'[d].version > draft[d].version
        /\ draft'[d].status = (IF t.reverts THEN "draft" ELSE draft[d].status)
        /\ draft'[d].debits = t.debits /\ draft'[d].credits = t.credits
    BY <1>0, <1>2 DEF CommitEdit, Write, JInv, DraftRows
  <2>5. draft[d].status \in Late => ~t.reverts
    BY <2>1, <2>2 DEF EditFits, Late
  <2>6. ASSUME draft[d].status \in Late
        PROVE  Total(new, "debit") = Total(lines[d], "debit")
    <3>1. JInv'
      BY JournalStepKeeps
    <3>2. Balanced(lines[d])
      BY <1>0, <2>6 DEF DraftFits, TotalsAre, Balanced, Late
    <3>3. Balanced(new)
      BY <2>3, <2>4, <2>5, <2>6, <3>1 DEF JInv, DraftFits, TotalsAre, Balanced, Late
    <3> QED BY <1>2, <2>1, <3>2, <3>3, LineEffect DEF TotalsAre
  <2> QED BY <2>2, <2>3, <2>4, <2>5, <2>6 DEF DraftMoves
<1>3. ASSUME NEW row \in DraftRows, row.version = draft[d].version,
             draft[d].status \in Late => row.status \in Late,
             row.status = "posted" => draft[d].status = "posted",
             draft' = [draft EXCEPT ![d] = [row EXCEPT !.version = @ + 1]], lines' = lines
      PROVE  /\ DraftMoves(draft[d], lines[d], draft'[d], lines'[d])
             /\ draft'[d].status = "posted" => draft[d].status = "posted"
  <2>1. draft'[d] = [row EXCEPT !.version = @ + 1]
    BY <1>3 DEF JInv
  <2>2. draft'[d].version > draft[d].version /\ draft'[d].status = row.status
    BY <1>0, <1>3, <2>1 DEF DraftRows
  <2> QED BY <1>3, <2>2 DEF DraftMoves, Late
<1>4. ASSUME NEW s \in Sessions, CommitValidate(s), tx[s].draft = d
      PROVE  /\ DraftMoves(draft[d], lines[d], draft'[d], lines'[d])
             /\ draft'[d].status = "posted" => draft[d].status = "posted"
  <2> DEFINE t == tx[s]
             verdict == IF t.valid THEN "validated" ELSE "draft"
             row == [draft[d] EXCEPT !.status = verdict]
  <2>1. ValidateFits(t, draft[d], lines[d])
    BY <1>4 DEF CommitValidate, JInv, CallFits
  <2>2. /\ CanMoveDraft(t.old.status, verdict) /\ CasHits(t)
        /\ draft' = [draft EXCEPT ![d] = [row EXCEPT !.version = @ + 1]] /\ lines' = lines
    BY <1>4 DEF CommitValidate, Write
  <2>3. t.old = draft[d]
    BY <1>4, <2>1, <2>2 DEF ValidateFits, CasHits
  <2>4. draft[d].status \notin Late
    BY <2>2, <2>3 DEF CanMoveDraft, DraftMachine, DraftStatuses, Late
  <2>5. row \in DraftRows /\ row.version = draft[d].version /\ row.status = verdict
    BY <1>0 DEF DraftRows, DraftStatuses
  <2>6. row.status \notin Late /\ row.status # "posted"
    BY <2>5 DEF Late
  <2> HIDE DEF row, verdict
  <2> QED BY <1>3, <2>2, <2>4, <2>5, <2>6
<1>5. ASSUME HeaderCall(d)
      PROVE  /\ DraftMoves(draft[d], lines[d], draft'[d], lines'[d])
             /\ draft'[d].status = "posted" => draft[d].status = "posted"
  <2>1. ASSUME NEW period \in Periods, NEW currency \in Currencies \cup {NoCurrency},
               NEW opening \in Openings, CreateDraft(d, opening, period, currency)
        PROVE  draft[d].status = "none" /\ draft'[d].status = "draft"
    BY <2>1 DEF CreateDraft, JInv
  <2>2. ASSUME NEW period \in Periods, NEW currency \in Currencies \cup {NoCurrency},
               EditHeader(d, period, currency)
        PROVE  /\ DraftMoves(draft[d], lines[d], draft'[d], lines'[d])
               /\ draft'[d].status = "posted" => draft[d].status = "posted"
    <3> DEFINE row == [draft[d] EXCEPT !.period = period, !.currency = currency]
    <3>1. draft' = [draft EXCEPT ![d] = [row EXCEPT !.version = @ + 1]] /\ lines' = lines
      BY <2>2 DEF EditHeader, Write
    <3>2. row \in DraftRows /\ row.version = draft[d].version /\ row.status = draft[d].status
      BY <1>0 DEF DraftRows
    <3> HIDE DEF row
    <3> QED BY <1>3, <3>1, <3>2
  <2>3. ASSUME NEW status \in {"submitted", "withdrawn"},
               Write(d, [draft[d] EXCEPT !.status = status]), lines' = lines
        PROVE  /\ DraftMoves(draft[d], lines[d], draft'[d], lines'[d])
               /\ draft'[d].status = "posted" => draft[d].status = "posted"
    <3> DEFINE row == [draft[d] EXCEPT !.status = status]
    <3>1. draft' = [draft EXCEPT ![d] = [row EXCEPT !.version = @ + 1]]
      BY <2>3 DEF Write
    <3>2. /\ row \in DraftRows /\ row.version = draft[d].version
          /\ row.status = status /\ status \in Late /\ status # "posted"
      BY <1>0 DEF DraftRows, DraftStatuses, Late
    <3> HIDE DEF row
    <3> QED BY <1>3, <2>3, <3>1, <3>2
  <2>4. SubmitDraft(d) \/ WithdrawDraft(d) =>
          \E status \in {"submitted", "withdrawn"} :
            Write(d, [draft[d] EXCEPT !.status = status]) /\ lines' = lines
    BY DEF SubmitDraft, WithdrawDraft
  <2>5. draft[d].status = "none" /\ draft'[d].status = "draft" =>
          /\ DraftMoves(draft[d], lines[d], draft'[d], lines'[d])
          /\ draft'[d].status = "posted" => draft[d].status = "posted"
    BY DEF DraftMoves, Late
  <2> QED BY <1>5, <2>1, <2>2, <2>3, <2>4, <2>5 DEF HeaderCall
<1>6. ASSUME NEW s \in Sessions, EditCall(s), ~(CommitEdit(s) /\ tx[s].draft = d)
      PROVE  draft'[d] = draft[d] /\ lines'[d] = lines[d]
  <2>1. CASE CommitEdit(s)
    BY <1>6, <2>1 DEF CommitEdit, Write, JInv
  <2>2. CASE ~CommitEdit(s)
    BY <1>6, <2>2 DEF EditCall, BeginAdd, BeginUpdate, BeginRemove, BeginEdit, WriteLine, SumLines
  <2> QED BY <2>1, <2>2
<1>7. ASSUME NEW s \in Sessions, ValidateCall(s), ~(CommitValidate(s) /\ tx[s].draft = d)
      PROVE  draft'[d] = draft[d] /\ lines'[d] = lines[d]
  <2>1. CASE CommitValidate(s)
    BY <1>7, <2>1 DEF CommitValidate, Write, JInv
  <2>2. CASE ~CommitValidate(s)
    BY <1>7, <2>2 DEF ValidateCall, BeginValidate, CheckLines
  <2> QED BY <2>1, <2>2
<1>8. ASSUME NEW s \in Sessions, Rollback(s) PROVE draft'[d] = draft[d] /\ lines'[d] = lines[d]
  BY <1>8 DEF Rollback
<1>9. ASSUME NEW e \in Drafts, HeaderCall(e), e # d
      PROVE  draft'[d] = draft[d] /\ lines'[d] = lines[d]
  BY <1>9 DEF HeaderCall, CreateDraft, EditHeader, SubmitDraft, WithdrawDraft, Write, JInv
<1> QED BY <1>1, <1>2, <1>4, <1>5, <1>6, <1>7, <1>8, <1>9 DEF JournalNext

-----------------------------------------------------------------------------
(* The invariant                                                           *)

\* An amount taken from a submitted draft is the sum of its lines for good.
AmountFits(d, amount, drafts, lns) ==
  drafts[d].status \in Late /\ amount = Total(lns[d], "debit")

\* An approver is never the maker; and what succeeded was approved.
RowFits(row, drafts, lns) ==
  /\ row.approver # NoUser => row.approver # row.maker
  /\ row.status = "succeeded" => row.approver # NoUser
  /\ row.status = "none" => row.key = NoKey
  /\ row.status # "none" => AmountFits(row.draft, row.amount, drafts, lns)

\* A result call holds a request row not newer than the table's, and the very
\* row if the versions agree; once it read the draft, so of the draft.
ResultFits(t, row, drafts) ==
  /\ row.status # "none" /\ row.draft = t.draft
  /\ t.row.version <= row.version
  /\ t.row.version = row.version => t.row = row
  /\ t.row.approver # NoUser /\ t.row.status \in {"ready", "submitted"}
  /\ t.at = "read" =>
       /\ t.old.version <= drafts[t.draft].version
       /\ t.old.version = drafts[t.draft].version => t.old = drafts[t.draft]
       /\ t.outcome = "succeeded"

CallStands(t, rows, drafts, lns) ==
  \/ t = Idle
  \/ t.op \in Drafting
  \/ t \in PrepareCalls /\ AmountFits(t.draft, t.amount, drafts, lns)
  \/ t \in ResultCalls /\ ResultFits(t, rows[t.request], drafts)

Of(q, status, res) == {i \in DOMAIN res : res[i].request = q /\ res[i].status = status}

\* A request succeeded exactly if it has a success, one, after every failure.
SuccessFits(q, row, res) ==
  /\ row.status # "succeeded" => Of(q, "succeeded", res) = {}
  /\ row.status = "succeeded" =>
       \E i : Of(q, "succeeded", res) = {i} /\ \A j \in Of(q, "failed", res) : j < i

\* The ledger knows every key that took effect.
KeysFit(rows, res, led) ==
  /\ \A q \in Requests : rows[q].key \in led \cup {NoKey}
  /\ \A q, p \in Requests : rows[q].key # NoKey /\ rows[q].key = rows[p].key => q = p
  /\ \A i \in DOMAIN res : res[i].status = "succeeded" /\ res[i].key # NoKey =>
       res[i].key \in led /\ \A q \in Requests : rows[q].key # res[i].key

PostedFits(drafts, res) ==
  \A d \in Drafts : drafts[d].status = "posted" =>
    \E i \in DOMAIN res : res[i].draft = d /\ res[i].status = "succeeded"

PInv ==
  /\ JInv
  /\ request \in [Requests -> RequestRows]
  /\ results \in Seq(ResultRows)
  /\ ledger \subseteq Keys
  /\ \A q \in Requests : RowFits(request[q], draft, lines) /\ SuccessFits(q, request[q], results)
  /\ \A s \in Sessions : CallStands(tx[s], request, draft, lines)
  /\ KeysFit(request, results, ledger)
  /\ PostedFits(draft, results)

\* What a posting step does to a request.
RequestMoves(row, row2) ==
  \/ row2 = row
  \/ row.status = "none"
  \/ /\ row2.version > row.version /\ row2.status # "none" /\ row2.draft = row.draft

\* Open calls stand whatever the drafts and the requests do.
LEMMA CallsStand ==
  ASSUME NEW t, NEW rows \in [Requests -> RequestRows], NEW rows2 \in [Requests -> RequestRows],
         NEW drafts \in [Drafts -> DraftRows], NEW drafts2 \in [Drafts -> DraftRows],
         NEW lns, NEW lns2, CallStands(t, rows, drafts, lns),
         \A d \in Drafts : DraftMoves(drafts[d], lns[d], drafts2[d], lns2[d]),
         \A q \in Requests : RequestMoves(rows[q], rows2[q]),
         \A q \in Requests : rows[q].status # "none" => drafts[rows[q].draft].status \in Late
  PROVE  CallStands(t, rows2, drafts2, lns2)
<1>1. CASE t = Idle \/ t.op \in Drafting
  BY <1>1 DEF CallStands
<1>2. CASE t \in PrepareCalls /\ AmountFits(t.draft, t.amount, drafts, lns)
  <2>1. t.draft \in Drafts
    BY <1>2 DEF PrepareCalls
  <2> QED BY <1>2, <2>1 DEF CallStands, AmountFits, DraftMoves
<1>3. CASE t \in ResultCalls /\ ResultFits(t, rows[t.request], drafts)
  <2>1. /\ t.request \in Requests /\ t.draft \in Drafts
        /\ t.row.version \in Nat /\ t.old.version \in Nat
    BY <1>3 DEF ResultCalls, RequestRows, DraftRows
  <2>2. /\ rows[t.request].version \in Nat /\ rows2[t.request].version \in Nat
        /\ drafts[t.draft].version \in Nat /\ drafts2[t.draft].version \in Nat
    BY <2>1 DEF RequestRows, DraftRows
  <2>3. rows[t.request].status # "none" /\ drafts[t.draft].status # "none"
    BY <1>3, <2>1 DEF ResultFits, Late
  <2>4. RequestMoves(rows[t.request], rows2[t.request])
        /\ DraftMoves(drafts[t.draft], lns[t.draft], drafts2[t.draft], lns2[t.draft])
    BY <2>1
  <2>5. /\ rows2[t.request].status # "none" /\ rows2[t.request].draft = t.draft
        /\ t.row.version <= rows2[t.request].version
        /\ t.row.version = rows2[t.request].version => t.row = rows2[t.request]
    BY <1>3, <2>1, <2>2, <2>3, <2>4 DEF ResultFits, RequestMoves
  <2>6. t.at = "read" => /\ t.old.version <= drafts2[t.draft].version
                         /\ t.old.version = drafts2[t.draft].version => t.old = drafts2[t.draft]
    BY <1>3, <2>1, <2>2, <2>3, <2>4 DEF ResultFits, DraftMoves
  <2>7. ResultFits(t, rows2[t.request], drafts2)
    BY <1>3, <2>5, <2>6 DEF ResultFits
  <2> QED BY <1>3, <2>7 DEF CallStands
<1> QED BY <1>1, <1>2, <1>3 DEF CallStands

\* And so do request rows.
LEMMA RowStands ==
  ASSUME NEW row \in RequestRows, NEW drafts, NEW drafts2, NEW lns, NEW lns2,
         RowFits(row, drafts, lns),
         \A d \in Drafts : DraftMoves(drafts[d], lns[d], drafts2[d], lns2[d])
  PROVE  RowFits(row, drafts2, lns2)
<1>1. row.draft \in Drafts
  BY DEF RequestRows
<1> QED BY <1>1 DEF RowFits, AmountFits, DraftMoves

\* Before anything happened.
LEMMA PostingInitFits == ASSUME Init PROVE PInv
<1>1. JInv
  BY JournalInitFits DEF Init
<1>2. /\ request = [q \in Requests |-> NoRequest] /\ ledger = {} /\ results = <<>>
      /\ draft = [d \in Drafts |-> NoDraft] /\ tx = [s \in Sessions |-> Idle]
  BY DEF Init, JournalInit
<1>3. NoRequest.draft \in Drafts
  BY PostingAssumption DEF NoRequest
<1>4. NoRequest \in RequestRows /\ NoRequest.status = "none" /\ NoRequest.key = NoKey
      /\ NoRequest.approver = NoUser
  BY <1>3 DEF NoRequest, RequestRows
<1> HIDE DEF NoRequest
<1>5. ASSUME NEW q \in Requests
      PROVE  RowFits(request[q], draft, lines) /\ SuccessFits(q, request[q], results)
  BY <1>2, <1>4 DEF RowFits, SuccessFits, Of
<1>6. KeysFit(request, results, ledger)
  BY <1>2, <1>4 DEF KeysFit
<1>7. PostedFits(draft, results)
  BY <1>2 DEF PostedFits, NoDraft
<1>8. \A s \in Sessions : CallStands(tx[s], request, draft, lines)
  BY <1>2 DEF CallStands
<1>9. request \in [Requests -> RequestRows] /\ results \in Seq(ResultRows) /\ ledger \subseteq Keys
  BY <1>2, <1>4
<1> QED BY <1>1, <1>5, <1>6, <1>7, <1>8, <1>9 DEF PInv

-----------------------------------------------------------------------------
(* The steps                                                               *)

\* A drafting step.
LEMMA DraftingStands ==
  ASSUME PInv, JournalNext, UNCHANGED <<request, ledger>>
  PROVE  PInv'
<1>1. JInv /\ JInv'
  BY JournalStepKeeps DEF PInv
<1>2. /\ results' = results /\ request' = request /\ ledger' = ledger
      /\ \A s \in Sessions : tx'[s] = tx[s] \/ tx'[s] = Idle \/ tx'[s].op \in Drafting
  BY <1>1, JournalTouches
<1>3. \A d \in Drafts : DraftMoves(draft[d], lines[d], draft'[d], lines'[d])
  BY <1>1, JournalMovesDrafts
<1>4. \A d \in Drafts : draft'[d].status = "posted" => draft[d].status = "posted"
  BY <1>1, JournalMovesDrafts
<1>5. ASSUME NEW q \in Requests PROVE RowFits(request'[q], draft', lines')
  <2>1. request[q] \in RequestRows /\ RowFits(request[q], draft, lines)
    BY DEF PInv
  <2>2. RowFits(request[q], draft', lines')
    BY <1>3, <2>1, RowStands, Zenon
  <2> QED BY <1>2, <2>2
<1>6. ASSUME NEW s \in Sessions PROVE CallStands(tx'[s], request', draft', lines')
  <2>1. CASE tx'[s] = tx[s]
    <3>1. CallStands(tx[s], request, draft, lines)
      BY DEF PInv
    <3>2. draft \in [Drafts -> DraftRows] /\ draft' \in [Drafts -> DraftRows]
          /\ request \in [Requests -> RequestRows]
      BY <1>1 DEF JInv, PInv
    <3>3. \A q \in Requests : RequestMoves(request[q], request[q])
      BY DEF RequestMoves
    <3>4. \A q \in Requests : request[q].status # "none" => draft[request[q].draft].status \in Late
      BY DEF PInv, RowFits, AmountFits
    <3>5. CallStands(tx[s], request, draft', lines')
      BY <1>3, <3>1, <3>2, <3>3, <3>4, CallsStand, Zenon
    <3> QED BY <1>2, <2>1, <3>5
  <2>2. CASE tx'[s] = Idle \/ tx'[s].op \in Drafting
    BY <2>2 DEF CallStands
  <2> QED BY <1>2, <2>1, <2>2
<1>7. PostedFits(draft', results')
  BY <1>2, <1>4 DEF PInv, PostedFits
<1>8. KeysFit(request', results', ledger')
  BY <1>2 DEF PInv
<1>9. /\ request' \in [Requests -> RequestRows] /\ results' \in Seq(ResultRows) /\ ledger' \subseteq Keys
      /\ \A q \in Requests : SuccessFits(q, request'[q], results')
  BY <1>2 DEF PInv
<1> QED BY <1>1, <1>5, <1>6, <1>7, <1>8, <1>9 DEF PInv

\* A posting step leaves the drafts alone and changes one call.
LEMMA QuietPostingStands ==
  ASSUME PInv, NEW s \in Sessions, NEW t, tx' = [tx EXCEPT ![s] = t],
         t.op \notin Drafting, CallStands(t, request, draft, lines),
         UNCHANGED <<draft, lines, results, request, ledger>>
  PROVE  PInv'
<1>1. JInv'
  <2>1. CallFits(t, draft[t.draft], lines[t.draft])
    BY DEF CallFits, Drafting
  <2> QED BY <2>1, QuietKeeps DEF PInv
<1>2. ASSUME NEW r \in Sessions PROVE CallStands(tx'[r], request, draft, lines)
  BY DEF PInv, JInv
<1>3. ASSUME NEW r \in Sessions PROVE CallStands(tx'[r], request', draft', lines')
  BY <1>2
<1>4. ASSUME NEW q \in Requests
      PROVE  RowFits(request'[q], draft', lines') /\ SuccessFits(q, request'[q], results')
  BY DEF PInv
<1>5. KeysFit(request', results', ledger') /\ PostedFits(draft', results')
  BY DEF PInv
<1>6. request' \in [Requests -> RequestRows] /\ results' \in Seq(ResultRows) /\ ledger' \subseteq Keys
  BY DEF PInv
<1> QED BY <1>1, <1>3, <1>4, <1>5, <1>6 DEF PInv

\* The quiet steps: a request is prepared, a result arrives, and its draft is read.
LEMMA BeginPrepareStands ==
  ASSUME PInv, NEW s \in Sessions, NEW d \in Drafts, NEW maker \in Makers,
         NEW k \in Keys \cup {NoKey}, BeginPrepare(s, d, maker, k)
  PROVE  PInv'
<1> DEFINE t == [op |-> "prepare", draft |-> d, amount |-> draft[d].debits,
                 maker |-> maker, key |-> k]
<1>1. draft[d] \in DraftRows /\ DraftFits(draft[d], lines[d])
  BY DEF PInv, JInv
<1>2. t \in PrepareCalls
  BY <1>1, PostingAssumption DEF PrepareCalls, DraftRows
<1>3. AmountFits(t.draft, t.amount, draft, lines)
  BY <1>1 DEF BeginPrepare, AmountFits, Late, DraftFits, TotalsAre
<1>4. t.op \notin Drafting
  BY DEF Drafting, Edits
<1>5. tx' = [tx EXCEPT ![s] = t] /\ UNCHANGED <<draft, lines, results, request, ledger>>
  BY DEF BeginPrepare, Open
<1> HIDE DEF t
<1> QED BY <1>2, <1>3, <1>4, <1>5, QuietPostingStands DEF CallStands

\* A result that begins has read its request and its draft.
LEMMA BeginResultStands ==
  ASSUME PInv, NEW s \in Sessions, NEW q \in Requests, NEW outcome \in Outcomes,
         NEW k \in Keys \cup {NoKey}, BeginResult(s, q, outcome, k)
  PROVE  PInv'
<1> DEFINE t == [op |-> "result", at |-> "begun", request |-> q, row |-> request[q],
                 draft |-> request[q].draft, old |-> NoDraft, outcome |-> outcome, key |-> k]
<1>1. request[q] \in RequestRows
  BY DEF PInv
<1>2. request[q].draft \in Drafts /\ request[q].version \in Nat
  BY <1>1 DEF RequestRows
<1>3. NoDraft \in DraftRows
  BY DEF NoDraft, DraftRows, Periods
<1>4. t \in ResultCalls
  BY <1>1, <1>2, <1>3 DEF ResultCalls
<1>5. ResultFits(t, request[t.request], draft)
  BY <1>2 DEF BeginResult, ResultFits
<1>6. t.op \notin Drafting
  BY DEF Drafting, Edits
<1>7. tx' = [tx EXCEPT ![s] = t] /\ UNCHANGED <<draft, lines, results, request, ledger>>
  BY DEF BeginResult, Open
<1> HIDE DEF t
<1> QED BY <1>4, <1>5, <1>6, <1>7, QuietPostingStands DEF CallStands

\* What is known of an open result call.
LEMMA ResultKnown ==
  ASSUME PInv, NEW s \in Sessions, tx[s].op = "result"
  PROVE  /\ tx[s] \in ResultCalls /\ tx[s].request \in Requests /\ tx[s].draft \in Drafts
         /\ request[tx[s].request] \in RequestRows
         /\ ResultFits(tx[s], request[tx[s].request], draft)
<1>1. CallStands(tx[s], request, draft, lines)
  BY DEF PInv
<1>2. tx[s] # Idle /\ tx[s].op \notin Drafting /\ tx[s] \notin PrepareCalls
  BY DEF Idle, Drafting, Edits, PrepareCalls
<1>3. tx[s] \in ResultCalls /\ ResultFits(tx[s], request[tx[s].request], draft)
  BY <1>1, <1>2 DEF CallStands
<1> QED BY <1>3 DEF ResultCalls, PInv

\* Reading the draft changes no row.
LEMMA ReadDraftStands ==
  ASSUME PInv, NEW s \in Sessions, ReadDraft(s)
  PROVE  PInv'
<1> DEFINE t == tx[s]
           c == [t EXCEPT !.at = "read", !.old = draft[t.draft]]
<1>1. /\ t \in ResultCalls /\ t.draft \in Drafts /\ t.op = "result" /\ t.outcome = "succeeded"
      /\ ResultFits(t, request[t.request], draft)
  BY ResultKnown DEF ReadDraft
<1>2. draft[t.draft] \in DraftRows /\ draft[t.draft].version \in Nat
  BY <1>1 DEF PInv, JInv, DraftRows
<1>3. tx' = [tx EXCEPT ![s] = c] /\ UNCHANGED <<draft, lines, results, request, ledger>>
  BY DEF ReadDraft, Step
<1> HIDE DEF t
<1>4. /\ c \in ResultCalls /\ c.op = "result" /\ c.request = t.request /\ c.draft = t.draft
      /\ c.row = t.row /\ c.old = draft[t.draft] /\ c.outcome = "succeeded"
  BY <1>1, <1>2 DEF ResultCalls
<1> HIDE DEF c
<1>5. ResultFits(c, request[c.request], draft)
  BY <1>1, <1>2, <1>4 DEF ResultFits
<1>6. c.op \notin Drafting
  BY <1>4 DEF Drafting, Edits
<1> QED BY <1>3, <1>4, <1>5, <1>6, QuietPostingStands DEF CallStands

\* A step on one request that adds no result: every row but its own stays, and
\* so do draft, maker, amount and key of its own.
LEMMA RequestStands ==
  ASSUME PInv, NEW q \in Requests, NEW row \in RequestRows,
         request' = [request EXCEPT ![q] = row], UNCHANGED <<draft, lines, results, tx, ledger>>,
         request[q].status \notin {"none", "succeeded"},
         row.status \notin {"none", "succeeded"}, row.version > request[q].version,
         row.draft = request[q].draft, row.amount = request[q].amount,
         row.key = request[q].key, row.approver # NoUser => row.approver # row.maker
  PROVE  PInv'
<1>1. JInv'
  BY ZenonT(60) DEF PInv, JInv, CallFits, EditFits, ValidateFits, DraftFits
<1>2. /\ request'[q] = row /\ \A p \in Requests : p # q => request'[p] = request[p]
      /\ request' \in [Requests -> RequestRows] /\ request \in [Requests -> RequestRows]
  BY DEF PInv
<1>3. \A p \in Requests : request'[p].key = request[p].key
  BY <1>2
<1>4. ASSUME NEW p \in Requests
      PROVE  RowFits(request'[p], draft', lines') /\ SuccessFits(p, request'[p], results')
  <2>1. RowFits(request[p], draft, lines) /\ SuccessFits(p, request[p], results)
    BY DEF PInv
  <2>2. CASE p = q
    BY <1>2, <2>1, <2>2 DEF RowFits, SuccessFits
  <2>3. CASE p # q
    BY <1>2, <2>1, <2>3
  <2> QED BY <2>2, <2>3
<1>5. KeysFit(request', results', ledger') /\ PostedFits(draft', results')
  BY <1>3 DEF PInv, KeysFit
<1>6. ASSUME NEW s \in Sessions PROVE CallStands(tx'[s], request', draft', lines')
  <2>1. CallStands(tx[s], request, draft, lines) /\ draft \in [Drafts -> DraftRows]
    BY DEF PInv, JInv
  <2>2. \A d \in Drafts : DraftMoves(draft[d], lines[d], draft[d], lines[d])
    BY DEF DraftMoves
  <2>3. \A p \in Requests : RequestMoves(request[p], request'[p])
    BY <1>2 DEF RequestMoves
  <2>4. \A p \in Requests : request[p].status # "none" => draft[request[p].draft].status \in Late
    BY DEF PInv, RowFits, AmountFits
  <2>5. CallStands(tx[s], request', draft, lines)
    BY <1>2, <2>1, <2>2, <2>3, <2>4, CallsStand, Zenon
  <2> QED BY <2>5
<1>7. results' \in Seq(ResultRows) /\ ledger' \subseteq Keys
  BY DEF PInv
<1> QED BY <1>1, <1>2, <1>4, <1>5, <1>6, <1>7 DEF PInv

\* The approver's decision, and the cancellation.
LEMMA DecisionsStand ==
  ASSUME PInv, NEW q \in Requests
  PROVE  /\ \A u \in Users : Authorize(q, u) => PInv'
         /\ CancelRequest(q) => PInv'
<1>1. request[q] \in RequestRows /\ request[q].version \in Nat /\ RowFits(request[q], draft, lines)
  BY DEF PInv, RequestRows
<1>2. ASSUME NEW u \in Users, Authorize(q, u) PROVE PInv'
  <2> DEFINE v == request[q].version + 1
             row == [request[q] EXCEPT !.status = "ready", !.version = v, !.approver = u]
  <2>1. v \in Nat /\ v > request[q].version
    BY <1>1
  <2>2. request' = [request EXCEPT ![q] = row]
    BY <1>2 DEF Authorize, PInv
  <2>3. /\ UNCHANGED <<draft, lines, results, tx, ledger>> /\ u # request[q].maker
        /\ request[q].status \notin {"none", "succeeded"}
    BY <1>2 DEF Authorize, CanMoveRequest, PostingMachine, PostingStatuses, MayApprove
  <2> HIDE DEF v
  <2>4. /\ row \in RequestRows /\ row.status = "ready" /\ row.version = v /\ row.approver = u
        /\ row.draft = request[q].draft /\ row.amount = request[q].amount
        /\ row.key = request[q].key /\ row.maker = request[q].maker
    BY <1>1, <2>1 DEF RequestRows, PostingStatuses
  <2> HIDE DEF row
  <2> QED BY <2>1, <2>2, <2>3, <2>4, RequestStands
<1>3. ASSUME CancelRequest(q) PROVE PInv'
  <2> DEFINE v == request[q].version + 1
             row == [request[q] EXCEPT !.status = "cancelled", !.version = v]
  <2>1. v \in Nat /\ v > request[q].version
    BY <1>1
  <2>2. request' = [request EXCEPT ![q] = row]
    BY <1>3 DEF CancelRequest, MoveRequest, PInv
  <2>3. /\ UNCHANGED <<draft, lines, results, tx, ledger>>
        /\ request[q].status \notin {"none", "succeeded"}
    BY <1>3 DEF CancelRequest, CanMoveRequest, PostingMachine, PostingStatuses
  <2> HIDE DEF v
  <2>4. /\ row \in RequestRows /\ row.status = "cancelled" /\ row.version = v
        /\ row.draft = request[q].draft /\ row.amount = request[q].amount
        /\ row.key = request[q].key /\ row.maker = request[q].maker
        /\ row.approver = request[q].approver
    BY <1>1, <2>1 DEF RequestRows, PostingStatuses
  <2> HIDE DEF row
  <2> QED BY <1>1, <2>1, <2>2, <2>3, <2>4, RequestStands DEF RowFits
<1> QED BY <1>2, <1>3

\* A request is inserted, with a key no request and no ledger entry has.
LEMMA CommitPrepareStands ==
  ASSUME PInv, NEW s \in Sessions, CommitPrepare(s)
  PROVE  PInv'
<1> DEFINE t == tx[s]
<1>1. t \in PrepareCalls /\ AmountFits(t.draft, t.amount, draft, lines)
  <2>1. CallStands(t, request, draft, lines)
    BY DEF PInv
  <2>2. t # Idle /\ t.op \notin Drafting /\ t \notin ResultCalls
    BY DEF CommitPrepare, Idle, Drafting, Edits, ResultCalls
  <2> QED BY <2>1, <2>2 DEF CallStands
<1> DEFINE row == [status |-> "prepared", version |-> 1, draft |-> t.draft, maker |-> t.maker,
                   approver |-> NoUser, amount |-> t.amount, key |-> t.key]
<1>2. PICK q \in Requests : request[q].status = "none" /\ request' = [request EXCEPT ![q] = row]
  BY DEF CommitPrepare
<1>3. /\ ~KeyKnown(t.key) /\ t.key \notin ledger
      /\ ledger' = (IF t.key = NoKey THEN ledger ELSE ledger \cup {t.key})
      /\ Finish(s) /\ UNCHANGED <<draft, lines, results>>
  BY DEF CommitPrepare, LedgerTakes, Record
<1>4. row \in RequestRows
  BY <1>1 DEF PrepareCalls, RequestRows, PostingStatuses
<1>5. row.status = "prepared" /\ row.key = t.key /\ row.approver = NoUser /\ row.draft = t.draft
      /\ row.amount = t.amount
  OBVIOUS
<1> HIDE DEF row
<1>6. /\ request'[q] = row /\ \A p \in Requests : p # q => request'[p] = request[p]
      /\ request \in [Requests -> RequestRows] /\ request' \in [Requests -> RequestRows]
  BY <1>2, <1>4 DEF PInv
<1>7. JInv'
  <2>1. tx' = [tx EXCEPT ![s] = Idle] /\ CallFits(Idle, draft[Idle.draft], lines[Idle.draft])
    BY <1>3 DEF Finish, CallFits, Idle, Edits
  <2> QED BY <1>3, <2>1, QuietKeeps DEF PInv
<1>8. ASSUME NEW p \in Requests
      PROVE  RowFits(request'[p], draft', lines') /\ SuccessFits(p, request'[p], results')
  <2>1. RowFits(request[p], draft, lines) /\ SuccessFits(p, request[p], results)
    BY DEF PInv
  <2>2. CASE p = q
    <3>1. SuccessFits(q, row, results)
      BY <1>2, <1>5, <2>1, <2>2 DEF SuccessFits
    <3>2. RowFits(row, draft, lines)
      BY <1>1, <1>5 DEF RowFits
    <3> QED BY <1>3, <1>6, <2>2, <3>1, <3>2
  <2>3. CASE p # q
    BY <1>3, <1>6, <2>1, <2>3
  <2> QED BY <2>2, <2>3
<1>9. ASSUME NEW r \in Sessions PROVE CallStands(tx'[r], request', draft', lines')
  <2>1. CASE r = s
    BY <1>3, <2>1 DEF Finish, CallStands, PInv, JInv
  <2>2. CASE r # s
    <3>1. tx'[r] = tx[r]
      BY <1>3, <2>2 DEF Finish, PInv, JInv
    <3>2. CallStands(tx[r], request, draft, lines) /\ draft \in [Drafts -> DraftRows]
      BY DEF PInv, JInv
    <3>3. \A d \in Drafts : DraftMoves(draft[d], lines[d], draft[d], lines[d])
      BY DEF DraftMoves
    <3>4. \A p \in Requests : RequestMoves(request[p], request'[p])
      BY <1>2, <1>6 DEF RequestMoves
    <3>5. \A p \in Requests : request[p].status # "none" => draft[request[p].draft].status \in Late
      BY DEF PInv, RowFits, AmountFits
    <3>6. CallStands(tx[r], request', draft, lines)
      BY <1>6, <3>2, <3>3, <3>4, <3>5, CallsStand, Zenon
    <3> QED BY <1>3, <3>1, <3>6
  <2> QED BY <2>1, <2>2
<1>10. KeysFit(request', results', ledger')
  <2>1. /\ \A p \in Requests : request[p].key \in ledger \cup {NoKey}
        /\ \A p, r \in Requests : request[p].key # NoKey /\ request[p].key = request[r].key => p = r
        /\ \A i \in DOMAIN results : results[i].status = "succeeded" /\ results[i].key # NoKey =>
             results[i].key \in ledger /\ \A p \in Requests : request[p].key # results[i].key
    BY DEF PInv, KeysFit
  <2>2. \A p \in Requests : request'[p].key = IF p = q THEN t.key ELSE request[p].key
    BY <1>5, <1>6
  <2>3. t.key # NoKey => \A p \in Requests : p # q => request[p].key # t.key
    BY <1>3, <2>1
  <2>4. ASSUME NEW p \in Requests PROVE request'[p].key \in ledger' \cup {NoKey}
    BY <1>3, <2>1, <2>2
  <2>5. ASSUME NEW p \in Requests, NEW r \in Requests,
               request'[p].key # NoKey, request'[p].key = request'[r].key
        PROVE  p = r
    BY <2>1, <2>2, <2>3, <2>5
  <2>6. ASSUME NEW i \in DOMAIN results, results[i].status = "succeeded", results[i].key # NoKey
        PROVE  results[i].key \in ledger' /\ \A p \in Requests : request'[p].key # results[i].key
    BY <1>3, <2>1, <2>2, <2>6
  <2> QED BY <1>3, <2>4, <2>5, <2>6 DEF KeysFit
<1>11. PostedFits(draft', results') /\ results' \in Seq(ResultRows)
  BY <1>3 DEF PInv
<1>12. ledger' \subseteq Keys
  BY <1>1, <1>3 DEF PInv, PrepareCalls
<1> QED BY <1>6, <1>7, <1>8, <1>9, <1>10, <1>11, <1>12 DEF PInv

\* Results grow at the end.
LEMMA ResultsGrow ==
  ASSUME NEW res \in Seq(ResultRows), NEW r \in ResultRows
  PROVE  /\ Append(res, r) \in Seq(ResultRows)
         /\ \A i \in DOMAIN Append(res, r) :
              (i \in DOMAIN res /\ Append(res, r)[i] = res[i])
              \/ (i = Len(res) + 1 /\ Append(res, r)[i] = r)
         /\ \A i \in DOMAIN res : i \in DOMAIN Append(res, r) /\ Append(res, r)[i] = res[i]
                                  /\ i < Len(res) + 1
         /\ Len(res) + 1 \in DOMAIN Append(res, r) /\ Append(res, r)[Len(res) + 1] = r
OBVIOUS

\* A result commits: on the request it read, unless it is "pending" only.
LEMMA ResultStands ==
  ASSUME PInv, NEW s \in Sessions, tx[s].op = "result",
         NEW row \in RequestRows, request' = [request EXCEPT ![tx[s].request] = row],
         InsertResult(tx[s]), Finish(s), JInv',
         \A d \in Drafts : DraftMoves(draft[d], lines[d], draft'[d], lines'[d]),
         \A d \in Drafts : draft'[d].status = "posted" =>
           draft[d].status = "posted" \/ (d = tx[s].draft /\ tx[s].outcome = "succeeded"),
         row = request[tx[s].request]
         \/ /\ row.version > request[tx[s].request].version
            /\ row.status # "none" /\ request[tx[s].request].status # "succeeded",
         tx[s].outcome = "pending" =>
           (row.status = "succeeded" <=> request[tx[s].request].status = "succeeded"),
         tx[s].outcome = "failed" =>
           row.status # "succeeded" /\ request[tx[s].request].status # "succeeded",
         tx[s].outcome = "succeeded" =>
           /\ row.status = "succeeded" /\ request[tx[s].request].status # "succeeded"
           /\ tx[s].key \notin ledger,
         ledger' = (IF tx[s].outcome = "succeeded" /\ tx[s].key # NoKey
                    THEN ledger \cup {tx[s].key} ELSE ledger),
         row.draft = request[tx[s].request].draft, row.amount = request[tx[s].request].amount,
         row.key = request[tx[s].request].key, row.maker = request[tx[s].request].maker,
         row.approver = request[tx[s].request].approver,
         row.status = "succeeded" => row.approver # NoUser
  PROVE  PInv'
<1> DEFINE t == tx[s]
           q == t.request
           r == [request |-> t.request, draft |-> t.draft, status |-> t.outcome, key |-> t.key]
           last == Len(results) + 1
<1>1. /\ t \in ResultCalls /\ q \in Requests /\ t.draft \in Drafts /\ request[q] \in RequestRows
      /\ request[q].status # "none"
  BY ResultKnown DEF ResultFits
<1>2. r \in ResultRows /\ results \in Seq(ResultRows) /\ results' = Append(results, r)
  BY <1>1 DEF ResultRows, ResultCalls, InsertResult, PInv
<1>3. /\ results' \in Seq(ResultRows)
      /\ \A i \in DOMAIN results' :
           (i \in DOMAIN results /\ results'[i] = results[i]) \/ (i = last /\ results'[i] = r)
      /\ \A i \in DOMAIN results : i \in DOMAIN results' /\ results'[i] = results[i] /\ i < last
      /\ last \in DOMAIN results' /\ results'[last] = r
  BY <1>2, ResultsGrow
<1>4. r.request = q /\ r.draft = t.draft /\ r.status = t.outcome /\ r.key = t.key
  OBVIOUS
<1> HIDE DEF r, last
<1>5. /\ request'[q] = row /\ \A p \in Requests : p # q => request'[p] = request[p]
      /\ request \in [Requests -> RequestRows] /\ request' \in [Requests -> RequestRows]
  BY <1>1 DEF PInv
<1>6. t.outcome \in {"pending", "succeeded", "failed"}
  BY <1>1 DEF ResultCalls, Outcomes
<1>7. ASSUME NEW p \in Requests
      PROVE  RowFits(request'[p], draft', lines')
  <2>1. RowFits(request[p], draft, lines) /\ request[p] \in RequestRows
    BY DEF PInv
  <2>2. RowFits(request[p], draft', lines')
    BY <2>1, RowStands, Zenon
  <2>3. CASE p = q
    BY <1>1, <1>5, <2>2, <2>3 DEF RowFits
  <2>4. CASE p # q
    BY <1>5, <2>2, <2>4
  <2> QED BY <2>3, <2>4
<1>8. ASSUME NEW p \in Requests, NEW status
      PROVE  Of(p, status, results') = IF p = q /\ status = t.outcome
                                       THEN Of(p, status, results) \cup {last}
                                       ELSE Of(p, status, results)
  BY <1>3, <1>4 DEF Of
<1>9. ASSUME NEW p \in Requests
      PROVE  SuccessFits(p, request'[p], results')
  <2>1. SuccessFits(p, request[p], results)
    BY DEF PInv
  <2>2. CASE p # q
    <3>1. \A status : Of(p, status, results') = Of(p, status, results)
      BY <1>8, <2>2
    <3> QED BY <1>5, <2>1, <2>2, <3>1 DEF SuccessFits
  <2>3. CASE p = q /\ t.outcome = "pending"
    <3>1. /\ Of(p, "succeeded", results') = Of(p, "succeeded", results)
          /\ Of(p, "failed", results') = Of(p, "failed", results)
      BY <1>8, <2>3
    <3> QED BY <1>5, <2>1, <2>3, <3>1 DEF SuccessFits
  <2>4. CASE p = q /\ t.outcome = "failed"
    <3>1. Of(p, "succeeded", results') = Of(p, "succeeded", results)
      BY <1>8, <2>4
    <3> QED BY <1>5, <2>1, <2>4, <3>1 DEF SuccessFits
  <2>5. CASE p = q /\ t.outcome = "succeeded"
    <3>1. /\ Of(p, "succeeded", results') = Of(p, "succeeded", results) \cup {last}
          /\ Of(p, "failed", results') = Of(p, "failed", results)
      BY <1>8, <2>5
    <3>2. Of(p, "succeeded", results) = {}
      BY <2>1, <2>5 DEF SuccessFits
    <3>3. \A j \in Of(p, "failed", results) : j < last
      BY <1>3 DEF Of
    <3>4. Of(p, "succeeded", results') = {last}
      BY <3>1, <3>2
    <3> QED BY <1>5, <2>5, <3>1, <3>3, <3>4 DEF SuccessFits
  <2> QED BY <1>6, <2>2, <2>3, <2>4, <2>5
<1>10. ASSUME NEW u \in Sessions PROVE CallStands(tx'[u], request', draft', lines')
  <2>1. CASE u = s
    BY <2>1 DEF Finish, CallStands, PInv, JInv
  <2>2. CASE u # s
    <3>1. tx'[u] = tx[u]
      BY <2>2 DEF Finish, PInv, JInv
    <3>2. CallStands(tx[u], request, draft, lines)
          /\ draft \in [Drafts -> DraftRows] /\ draft' \in [Drafts -> DraftRows]
      BY DEF PInv, JInv
    <3>4. \A p \in Requests : RequestMoves(request[p], request'[p])
      BY <1>5 DEF RequestMoves
    <3>5. \A p \in Requests : request[p].status # "none" => draft[request[p].draft].status \in Late
      BY DEF PInv, RowFits, AmountFits
    <3>6. CallStands(tx[u], request', draft', lines')
      BY <1>5, <3>2, <3>4, <3>5, CallsStand, Zenon
    <3> QED BY <3>1, <3>6
  <2> QED BY <2>1, <2>2
<1>11. KeysFit(request', results', ledger')
  <2>1. /\ \A p \in Requests : request[p].key \in ledger \cup {NoKey}
        /\ \A p, o \in Requests : request[p].key # NoKey /\ request[p].key = request[o].key => p = o
        /\ \A i \in DOMAIN results : results[i].status = "succeeded" /\ results[i].key # NoKey =>
             results[i].key \in ledger /\ \A p \in Requests : request[p].key # results[i].key
    BY DEF PInv, KeysFit
  <2>2. \A p \in Requests : request'[p].key = request[p].key
    BY <1>5
  <2>3. ledger \subseteq ledger'
    OBVIOUS
  <2>4. ASSUME NEW i \in DOMAIN results', results'[i].status = "succeeded", results'[i].key # NoKey
        PROVE  results'[i].key \in ledger' /\ \A p \in Requests : request'[p].key # results'[i].key
    <3>1. CASE i \in DOMAIN results /\ results'[i] = results[i]
      BY <2>1, <2>2, <2>3, <2>4, <3>1
    <3>2. CASE results'[i] = r
      <4>1. t.outcome = "succeeded" /\ t.key # NoKey /\ t.key \notin ledger /\ t.key \in ledger'
        BY <1>4, <2>4, <3>2
      <4> QED BY <1>4, <2>1, <2>2, <3>2, <4>1
    <3> QED BY <1>3, <3>1, <3>2
  <2> QED BY <2>1, <2>2, <2>3, <2>4 DEF KeysFit
<1>12. PostedFits(draft', results')
  <2> SUFFICES ASSUME NEW d \in Drafts, draft'[d].status = "posted"
               PROVE  \E i \in DOMAIN results' :
                        results'[i].draft = d /\ results'[i].status = "succeeded"
    BY DEF PostedFits
  <2>1. CASE draft[d].status = "posted"
    BY <1>3, <2>1 DEF PInv, PostedFits
  <2>2. CASE d = t.draft /\ t.outcome = "succeeded"
    BY <1>3, <1>4, <2>2
  <2> QED BY <2>1, <2>2
<1>13. ledger' \subseteq Keys
  BY <1>1 DEF PInv, ResultCalls
<1> QED BY <1>3, <1>5, <1>7, <1>9, <1>10, <1>11, <1>12, <1>13 DEF PInv

\* A request's row moves, and keeps all but its status and version.
LEMMA MoveEffect ==
  ASSUME NEW q \in Requests, NEW status \in PostingStatuses, NEW steps \in {1, 2},
         request \in [Requests -> RequestRows], MoveRequest(q, status, steps)
  PROVE  \E row \in RequestRows :
           /\ request' = [request EXCEPT ![q] = row]
           /\ row.status = status /\ row.version > request[q].version
           /\ row.draft = request[q].draft /\ row.amount = request[q].amount
           /\ row.key = request[q].key /\ row.maker = request[q].maker
           /\ row.approver = request[q].approver
<1> DEFINE v == request[q].version + steps
           row == [request[q] EXCEPT !.status = status, !.version = v]
<1>1. v \in Nat /\ v > request[q].version /\ request[q] \in RequestRows
  BY DEF RequestRows
<1>2. request' = [request EXCEPT ![q] = row]
  BY DEF MoveRequest
<1> HIDE DEF v
<1>3. /\ row \in RequestRows /\ row.status = status /\ row.version = v
      /\ row.draft = request[q].draft /\ row.amount = request[q].amount
      /\ row.key = request[q].key /\ row.maker = request[q].maker
      /\ row.approver = request[q].approver
  BY <1>1 DEF RequestRows
<1> HIDE DEF row
<1> QED BY <1>1, <1>2, <1>3

\* Nothing happens to drafts that are not written.
LEMMA DraftsRest ==
  ASSUME JInv, UNCHANGED <<draft, lines>>
  PROVE  /\ \A d \in Drafts : DraftMoves(draft[d], lines[d], draft'[d], lines'[d])
         /\ \A d \in Drafts : draft'[d].status = "posted" => draft[d].status = "posted"
BY DEF DraftMoves

\* A call that ends without writing a draft leaves the drafting half as it was.
LEMMA FinishKeeps ==
  ASSUME JInv, NEW s \in Sessions, Finish(s), UNCHANGED <<draft, lines>>
  PROVE  JInv'
<1>1. tx' = [tx EXCEPT ![s] = Idle] /\ CallFits(Idle, draft[Idle.draft], lines[Idle.draft])
  BY DEF Finish, CallFits, Idle, Edits
<1> QED BY <1>1, QuietKeeps

\* The submitted draft a success has read becomes posted, if it is still that.
LEMMA PostingTheDraft ==
  ASSUME PInv, NEW s \in Sessions, tx[s].op = "result", tx[s].at = "read", Finish(s),
         lines' = lines,
         IF tx[s].old.status = "submitted" /\ CasHits(tx[s])
         THEN Write(tx[s].draft, [draft[tx[s].draft] EXCEPT !.status = "posted"])
         ELSE UNCHANGED draft
  PROVE  /\ JInv'
         /\ \A d \in Drafts : DraftMoves(draft[d], lines[d], draft'[d], lines'[d])
         /\ \A d \in Drafts : draft'[d].status = "posted" =>
              draft[d].status = "posted" \/ d = tx[s].draft
<1> DEFINE t == tx[s]
           e == t.draft
           row == [draft[e] EXCEPT !.status = "posted"]
<1>0. JInv /\ e \in Drafts /\ ResultFits(t, request[t.request], draft)
  BY ResultKnown DEF PInv
<1>1. CASE ~(t.old.status = "submitted" /\ CasHits(t))
  BY <1>0, <1>1, FinishKeeps, DraftsRest
<1>2. CASE t.old.status = "submitted" /\ CasHits(t)
  <2>1. draft[e] \in DraftRows /\ lines[e] \in Seq(LineRows) /\ DraftFits(draft[e], lines[e])
    BY <1>0 DEF JInv
  <2>2. draft[e].status = "submitted"
    BY <1>0, <1>2 DEF ResultFits, CasHits
  <2>3. /\ row \in DraftRows /\ row.status = "posted" /\ row.version = draft[e].version
        /\ row.debits = draft[e].debits /\ row.credits = draft[e].credits
    BY <2>1 DEF DraftRows, DraftStatuses
  <2>4. Write(e, row)
    BY <1>2
  <2> HIDE DEF row
  <2>5. ActiveLines(lines[e]) # {}
    BY <2>1, <2>2 DEF DraftFits
  <2>6. /\ tx' = [u \in Sessions |-> tx'[u]]
        /\ \A u \in Sessions : tx'[u] = tx[u] \/ tx'[u].op \notin Drafting
    BY <1>0, FinishShape
  <2>7. JInv'
    BY <1>0, <2>2, <2>3, <2>4, <2>5, <2>6, HeaderWriteKeeps
  <2>8. PICK row2 \in DraftRows :
          /\ draft' = [draft EXCEPT ![e] = row2]
          /\ row2.version = row.version + 1 /\ row2.status = row.status
          /\ row2.debits = row.debits /\ row2.credits = row.credits
          /\ row2.status \notin {"none", "draft"} => row2.debits = row2.credits
    BY <1>0, <2>3, <2>4, WriteEffect
  <2>9. /\ draft'[e] = row2 /\ \A d \in Drafts : d # e => draft'[d] = draft[d]
        /\ row2.version > draft[e].version /\ row2.status = "posted"
    BY <1>0, <2>1, <2>3, <2>8 DEF JInv, DraftRows
  <2>10. ASSUME NEW d \in Drafts
         PROVE  /\ DraftMoves(draft[d], lines[d], draft'[d], lines'[d])
                /\ draft'[d].status = "posted" => draft[d].status = "posted" \/ d = e
    <3>1. CASE d = e
      BY <2>9, <3>1 DEF DraftMoves, Late
    <3>2. CASE d # e
      BY <2>9, <3>2, SMTT(30) DEF DraftMoves
    <3> QED BY <3>1, <3>2
  <2> QED BY <2>7, <2>10
<1> QED BY <1>1, <1>2

\* The three outcomes.
LEMMA CommitSuccessStands ==
  ASSUME PInv, NEW s \in Sessions, CommitSuccess(s)
  PROVE  PInv'
<1> DEFINE t == tx[s]
           q == t.request
<1>1. /\ t.op = "result" /\ t.at = "read" /\ RequestHits(t) /\ InsertResult(t)
      /\ t.key \notin ledger /\ ledger' = (IF t.key = NoKey THEN ledger ELSE ledger \cup {t.key})
      /\ MoveRequest(q, "succeeded", Swaps(t)) /\ Finish(s) /\ lines' = lines
  BY DEF CommitSuccess, LedgerTakes, Record
<1>2. /\ t \in ResultCalls /\ q \in Requests /\ t.draft \in Drafts
      /\ request[q] \in RequestRows /\ ResultFits(t, request[q], draft)
  BY <1>1, ResultKnown
<1>3. /\ t.row = request[q] /\ request[q].approver # NoUser
      /\ request[q].status \in {"ready", "submitted"} /\ t.outcome = "succeeded"
  BY <1>1, <1>2 DEF RequestHits, ResultFits
<1>4. Swaps(t) \in {1, 2} /\ "succeeded" \in PostingStatuses
  BY DEF Swaps, PostingStatuses
<1>5. PICK row \in RequestRows :
        /\ request' = [request EXCEPT ![q] = row]
        /\ row.status = "succeeded" /\ row.version > request[q].version
        /\ row.draft = request[q].draft /\ row.amount = request[q].amount
        /\ row.key = request[q].key /\ row.maker = request[q].maker
        /\ row.approver = request[q].approver
  BY <1>1, <1>2, <1>4, MoveEffect DEF PInv
<1>6. /\ JInv'
      /\ \A d \in Drafts : DraftMoves(draft[d], lines[d], draft'[d], lines'[d])
      /\ \A d \in Drafts : draft'[d].status = "posted" => draft[d].status = "posted" \/ d = t.draft
  BY <1>1, PostingTheDraft DEF CommitSuccess
<1>7. ledger' = (IF t.outcome = "succeeded" /\ t.key # NoKey THEN ledger \cup {t.key} ELSE ledger)
  BY <1>1, <1>3, SMTT(30)
<1> QED BY <1>1, <1>3, <1>5, <1>6, <1>7, ResultStands

\* A failure is written on the request it read.
LEMMA CommitFailureStands ==
  ASSUME PInv, NEW s \in Sessions, CommitFailure(s)
  PROVE  PInv'
<1> DEFINE t == tx[s]
           q == t.request
<1>1. /\ t.op = "result" /\ t.outcome = "failed" /\ RequestHits(t) /\ InsertResult(t)
      /\ MoveRequest(q, "failed", Swaps(t)) /\ Finish(s) /\ UNCHANGED <<draft, lines, ledger>>
  BY DEF CommitFailure
<1>2. /\ t \in ResultCalls /\ q \in Requests /\ request[q] \in RequestRows
      /\ ResultFits(t, request[q], draft)
  BY <1>1, ResultKnown
<1>3. t.row = request[q] /\ request[q].status \in {"ready", "submitted"}
  BY <1>1, <1>2 DEF RequestHits, ResultFits
<1>4. Swaps(t) \in {1, 2} /\ "failed" \in PostingStatuses
  BY DEF Swaps, PostingStatuses
<1>5. PICK row \in RequestRows :
        /\ request' = [request EXCEPT ![q] = row]
        /\ row.status = "failed" /\ row.version > request[q].version
        /\ row.draft = request[q].draft /\ row.amount = request[q].amount
        /\ row.key = request[q].key /\ row.maker = request[q].maker
        /\ row.approver = request[q].approver
  BY <1>1, <1>2, <1>4, MoveEffect DEF PInv
<1>6. /\ JInv'
      /\ \A d \in Drafts : DraftMoves(draft[d], lines[d], draft'[d], lines'[d])
      /\ \A d \in Drafts : draft'[d].status = "posted" => draft[d].status = "posted"
  BY <1>1, FinishKeeps, DraftsRest DEF PInv
<1> QED BY <1>1, <1>3, <1>5, <1>6, ResultStands

\* A request that is sent on moves no money.
LEMMA CommitPendingStands ==
  ASSUME PInv, NEW s \in Sessions, CommitPending(s)
  PROVE  PInv'
<1> DEFINE t == tx[s]
           q == t.request
<1>1. /\ t.op = "result" /\ t.outcome = "pending" /\ InsertResult(t)
      /\ Finish(s) /\ UNCHANGED <<draft, lines, ledger>>
  BY DEF CommitPending
<1>2. /\ t \in ResultCalls /\ q \in Requests /\ request[q] \in RequestRows
      /\ ResultFits(t, request[q], draft) /\ RowFits(request[q], draft, lines)
  BY <1>1, ResultKnown DEF PInv
<1>3. /\ JInv'
      /\ \A d \in Drafts : DraftMoves(draft[d], lines[d], draft'[d], lines'[d])
      /\ \A d \in Drafts : draft'[d].status = "posted" => draft[d].status = "posted"
  BY <1>1, FinishKeeps, DraftsRest, SMTT(30) DEF PInv
<1>4. CASE RequestHits(t) /\ MoveRequest(q, "submitted", 1)
  <2>1. t.row = request[q] /\ request[q].status \in {"ready", "submitted"}
    BY <1>2, <1>4 DEF RequestHits, ResultFits
  <2>2. "submitted" \in PostingStatuses /\ 1 \in {1, 2}
    BY DEF PostingStatuses
  <2>3. PICK row \in RequestRows :
          /\ request' = [request EXCEPT ![q] = row]
          /\ row.status = "submitted" /\ row.version > request[q].version
          /\ row.draft = request[q].draft /\ row.amount = request[q].amount
          /\ row.key = request[q].key /\ row.maker = request[q].maker
          /\ row.approver = request[q].approver
    BY <1>2, <1>4, <2>2, MoveEffect DEF PInv
  <2> QED BY <1>1, <1>3, <2>1, <2>3, ResultStands
<1>5. CASE request' = request
  <2>1. request' = [request EXCEPT ![q] = request[q]]
    BY <1>2, <1>5 DEF PInv
  <2>2. request[q].status = "succeeded" => request[q].approver # NoUser
    BY <1>2 DEF RowFits
  <2> QED BY <1>1, <1>2, <1>3, <2>1, <2>2, ResultStands
<1> QED BY <1>4, <1>5 DEF CommitPending

\* Every step.
LEMMA PostingStepStands ==
  ASSUME PInv, Next
  PROVE  PInv'
<1>1. ASSUME NEW s \in Sessions, PostingCall(s) PROVE PInv'
  BY <1>1, BeginPrepareStands, CommitPrepareStands, BeginResultStands, ReadDraftStands,
     CommitSuccessStands, CommitFailureStands, CommitPendingStands DEF PostingCall
<1>2. ASSUME NEW q \in Requests, (\E u \in Users : Authorize(q, u)) \/ CancelRequest(q)
      PROVE  PInv'
  BY <1>2, DecisionsStand
<1> QED BY <1>1, <1>2, DraftingStands DEF Next

-----------------------------------------------------------------------------
(* The theorems                                                            *)

\* The inductive invariant of drafting and posting together.
THEOREM PostingInvariance == Spec => []PInv
<1>1. Init => PInv
  BY PostingInitFits
<1>2. PInv /\ [Next]_vars => PInv'
  <2>1. ASSUME PInv, UNCHANGED vars PROVE PInv'
    <3>1. /\ draft' = draft /\ lines' = lines /\ results' = results /\ tx' = tx
          /\ request' = request /\ ledger' = ledger
      BY <2>1 DEF vars
    <3>2. JInv'
      BY <2>1, <3>1 DEF PInv, JInv
    <3>3. /\ \A q \in Requests : RowFits(request'[q], draft', lines')
                                 /\ SuccessFits(q, request'[q], results')
          /\ \A s \in Sessions : CallStands(tx'[s], request', draft', lines')
          /\ KeysFit(request', results', ledger') /\ PostedFits(draft', results')
      BY <2>1, <3>1 DEF PInv
    <3>4. request' \in [Requests -> RequestRows] /\ results' \in Seq(ResultRows)
          /\ ledger' \subseteq Keys
      BY <2>1, <3>1 DEF PInv
    <3> QED BY <3>2, <3>3, <3>4 DEF PInv
  <2> QED BY <2>1, PostingStepStands
<1> QED BY <1>1, <1>2, PTL DEF Spec

\* Every table and every open call has the shape of its columns.
THEOREM PostingTypeCorrect == Spec => []TypeOK
<1>1. ASSUME PInv PROVE TypeOK
  <2>1. JInv
    BY <1>1 DEF PInv
  <2>2. JournalTypeOK
    BY <2>1 DEF JInv, JournalTypeOK, CallFits
  <2>3. ASSUME NEW s \in Sessions
        PROVE  tx[s] \in {Idle} \cup EditCalls \cup ValidateCalls \cup PrepareCalls \cup ResultCalls
    <3>1. CASE tx[s].op \in Drafting
      BY <2>1, <3>1 DEF JInv, CallFits, Drafting
    <3>2. CASE tx[s].op \notin Drafting
      BY <1>1, <3>2 DEF PInv, CallStands
    <3> QED BY <3>1, <3>2
  <2>4. tx \in [Sessions -> {Idle} \cup EditCalls \cup ValidateCalls \cup PrepareCalls \cup ResultCalls]
    BY <2>1, <2>3 DEF JInv
  <2> QED BY <1>1, <2>2, <2>4 DEF PInv, TypeOK
<1> QED BY <1>1, PostingInvariance, PTL

\* Although nothing locks a draft that has posting requests, each request's
\* amount is the sum of the draft's lines at every moment.
THEOREM RequestsPostTheirDrafts == Spec => []AmountIsTheDrafts
<1>1. PInv => AmountIsTheDrafts
  BY DEF PInv, RowFits, AmountFits, AmountIsTheDrafts
<1> QED BY <1>1, PostingInvariance, PTL

\* A request succeeds once at most, and nothing fails it afterwards.
THEOREM RequestsSucceedOnce == Spec => []OneSuccessPerRequest
<1>1. ASSUME PInv PROVE OneSuccessPerRequest
  <2> SUFFICES ASSUME NEW q \in Requests
               PROVE  /\ Cardinality(ResultsOf(q, "succeeded"))
                           = IF request[q].status = "succeeded" THEN 1 ELSE 0
                      /\ \A i \in ResultsOf(q, "succeeded"), j \in ResultsOf(q, "failed") : j < i
    BY DEF OneSuccessPerRequest
  <2>1. SuccessFits(q, request[q], results)
    BY <1>1 DEF PInv
  <2>2. \A status : ResultsOf(q, status) = Of(q, status, results)
    BY DEF ResultsOf, Of
  <2>3. CASE request[q].status # "succeeded"
    <3>1. ResultsOf(q, "succeeded") = {}
      BY <2>1, <2>2, <2>3 DEF SuccessFits
    <3>2. Cardinality(ResultsOf(q, "succeeded")) = 0
      BY <3>1, FS_EmptySet
    <3> QED BY <2>3, <3>1, <3>2
  <2>4. CASE request[q].status = "succeeded"
    <3>1. PICK i : Of(q, "succeeded", results) = {i} /\ \A j \in Of(q, "failed", results) : j < i
      BY <2>1, <2>4 DEF SuccessFits
    <3>2. ResultsOf(q, "succeeded") = {i} /\ ResultsOf(q, "failed") = Of(q, "failed", results)
      BY <2>2, <3>1
    <3>3. Cardinality(ResultsOf(q, "succeeded")) = 1
      BY <3>2, FS_Singleton
    <3> QED BY <2>4, <3>1, <3>2, <3>3
  <2> QED BY <2>3, <2>4
<1> QED BY <1>1, PostingInvariance, PTL

\* No posting without approval: behind a posted draft stands a success of a
\* request that somebody other than its maker approved.
THEOREM NothingPostsUnapproved == Spec => []PostedWasApproved
<1>1. ASSUME PInv PROVE PostedWasApproved
  <2> SUFFICES ASSUME NEW d \in Drafts, draft[d].status = "posted"
               PROVE  \E i \in DOMAIN results :
                        LET q == request[results[i].request] IN
                        /\ results[i].draft = d /\ results[i].status = "succeeded"
                        /\ q.status = "succeeded" /\ q.approver \in Users /\ q.approver # q.maker
    BY DEF PostedWasApproved
  <2>1. PICK i \in DOMAIN results : results[i].draft = d /\ results[i].status = "succeeded"
    BY <1>1 DEF PInv, PostedFits
  <2> DEFINE q == results[i].request
  <2>2. results[i] \in ResultRows
    BY <1>1, <2>1 DEF PInv
  <2>3. q \in Requests
    BY <2>2 DEF ResultRows
  <2>4. i \in Of(q, "succeeded", results)
    BY <2>1 DEF Of
  <2> HIDE DEF q
  <2>5. request[q] \in RequestRows /\ RowFits(request[q], draft, lines)
        /\ SuccessFits(q, request[q], results)
    BY <1>1, <2>3 DEF PInv
  <2>6. request[q].status = "succeeded"
    BY <2>4, <2>5 DEF SuccessFits
  <2>7. request[q].approver \in Users /\ request[q].approver # request[q].maker
    BY <2>5, <2>6 DEF RowFits, RequestRows
  <2> QED BY <2>1, <2>6, <2>7 DEF q
<1> QED BY <1>1, PostingInvariance, PTL

\* An idempotency key stands for one request or one success, and never for both.
THEOREM KeysStandForOne == Spec => []KeyStandsForOne
<1>1. PInv => KeyStandsForOne
  BY DEF PInv, KeysFit, KeyStandsForOne
<1> QED BY <1>1, PostingInvariance, PTL

\* The drafting half keeps its promises with posting beside it.
THEOREM DraftsStaySound == Spec => [](TotalsMatchLines /\ SubmittedBalances)
<1>1. PInv => TotalsMatchLines /\ SubmittedBalances
  BY DEF PInv, JInv, TotalsMatchLines, SubmittedBalances, DraftFits, TotalsAre
<1> QED BY <1>1, PostingInvariance, PTL

\* A request that succeeded or was cancelled never changes again.
THEOREM FinishedRequestsRest == Spec => FinishedRequestIsFinal
<1> DEFINE Rests ==
      \A q \in Requests :
        request[q].status \in {"succeeded", "cancelled"} => request'[q] = request[q]
<1>1. ASSUME PInv, Next PROVE Rests
  <2> SUFFICES ASSUME NEW q \in Requests, request[q].status \in {"succeeded", "cancelled"}
               PROVE  request'[q] = request[q]
    OBVIOUS
  <2>1. ASSUME NEW p \in Requests, (\E u \in Users : Authorize(p, u)) \/ CancelRequest(p)
        PROVE  request'[q] = request[q]
    BY <1>1, <2>1 DEF Authorize, CancelRequest, MoveRequest, CanMoveRequest, PostingMachine,
       PostingStatuses, PInv
  <2>2. ASSUME NEW s \in Sessions, CommitPrepare(s) PROVE request'[q] = request[q]
    BY <1>1, <2>2 DEF CommitPrepare, PInv
  <2>3. ASSUME NEW s \in Sessions, RequestHits(tx[s]), tx[s].op = "result", NEW status, NEW steps,
               MoveRequest(tx[s].request, status, steps)
        PROVE  request'[q] = request[q]
    <3>1. request[tx[s].request].status \in {"ready", "submitted"}
      BY <1>1, <2>3, ResultKnown DEF ResultFits, RequestHits
    <3> QED BY <1>1, <2>3, <3>1 DEF MoveRequest, PInv
  <2>4. ASSUME NEW s \in Sessions, PostingCall(s) PROVE request'[q] = request[q]
    BY <2>2, <2>3, <2>4 DEF PostingCall, BeginPrepare, BeginResult, ReadDraft, CommitSuccess,
       CommitFailure, CommitPending
  <2> QED BY <1>1, <2>1, <2>4 DEF Next
<1>2. ASSUME PInv, [Next]_vars PROVE [Rests]_vars
  <2> HIDE DEF Rests
  <2> QED BY <1>1, <1>2
<1> QED BY <1>2, PostingInvariance, PTL DEF Spec, FinishedRequestIsFinal

-----------------------------------------------------------------------------
(* Duplicates.  Nothing in the schema makes a success of a draft unique:    *)
(* recordPostingResult looks for one before it inserts its own.  What was   *)
(* posted twice came from calls that both looked before either committed.   *)

\* The successes recorded for a draft, and the open calls that found none and
\* are to record one.
Successes(d) == {i \in DOMAIN results : results[i].draft = d /\ results[i].status = "succeeded"}
Claiming(d) ==
  {s \in Sessions : tx[s].op = "result" /\ tx[s].outcome = "succeeded" /\ tx[s].draft = d}

\* No two of those calls are open on one draft at a time.
ResultsApart == \A d \in Drafts : \A r, s \in Claiming(d) : r = s

\* What a step may do to the successes of a draft.  Nothing; or a call begins,
\* and then there are none; or a call commits, and adds one.
Unclaimed(succ, claim, succ2, claim2) == succ2 = succ /\ claim2 \subseteq claim
Claimed(succ, succ2) == succ = {} /\ succ2 = {}
Committed(succ, claim, succ2, claim2) ==
  /\ \E s \in claim : claim2 \subseteq claim \ {s}
  /\ \E i : i \notin succ /\ succ2 = succ \cup {i}
SuccessMoves(succ, claim, succ2, claim2) ==
  \/ Unclaimed(succ, claim, succ2, claim2)
  \/ Claimed(succ, succ2)
  \/ Committed(succ, claim, succ2, claim2)

\* A call that ends, or that comes to stand where it records no success, and a
\* result that is none, leave the successes.
LEMMA ClaimsRest ==
  ASSUME PInv, NEW s \in Sessions, NEW c, tx' = [tx EXCEPT ![s] = c],
         c.op = "result" /\ c.outcome = "succeeded" => s \in Claiming(c.draft),
         NEW d \in Drafts, Successes(d)' = Successes(d)
  PROVE  SuccessMoves(Successes(d), Claiming(d), Successes(d)', Claiming(d)')
<1>1. ASSUME NEW r \in Sessions, r \in Claiming(d)' PROVE r \in Claiming(d)
  <2>1. CASE r = s
    <3>1. tx'[r] = c
      BY <2>1 DEF PInv, JInv
    <3>2. c.op = "result" /\ c.outcome = "succeeded" /\ c.draft = d
      BY <1>1, <3>1 DEF Claiming
    <3> QED BY <2>1, <3>2
  <2>2. CASE r # s
    <3>1. tx'[r] = tx[r]
      BY <2>2 DEF PInv, JInv
    <3> QED BY <1>1, <3>1 DEF Claiming
  <2> QED BY <2>1, <2>2
<1>2. Claiming(d)' \subseteq Claiming(d)
  BY <1>1 DEF Claiming
<1> QED BY <1>2 DEF SuccessMoves, Unclaimed

\* A result of another kind is no success of any draft.
LEMMA OtherResults ==
  ASSUME PInv, NEW s \in Sessions, tx[s].op = "result", tx[s].outcome # "succeeded",
         InsertResult(tx[s]), NEW d \in Drafts
  PROVE  Successes(d)' = Successes(d)
<1> DEFINE r == [request |-> tx[s].request, draft |-> tx[s].draft, status |-> tx[s].outcome,
                 key |-> tx[s].key]
<1>1. tx[s] \in ResultCalls
  BY ResultKnown
<1>2. r \in ResultRows /\ r.status # "succeeded"
  BY <1>1 DEF ResultCalls, ResultRows
<1>3. results' = Append(results, r) /\ results \in Seq(ResultRows)
  BY DEF InsertResult, PInv
<1> HIDE DEF r
<1> QED BY <1>2, <1>3, ResultsGrow DEF Successes

\* The step that records a success.
LEMMA SuccessCommits ==
  ASSUME PInv, NEW s \in Sessions, CommitSuccess(s), NEW d \in Drafts
  PROVE  SuccessMoves(Successes(d), Claiming(d), Successes(d)', Claiming(d)')
<1> DEFINE r == [request |-> tx[s].request, draft |-> tx[s].draft, status |-> tx[s].outcome,
                 key |-> tx[s].key]
<1>1. tx[s].op = "result" /\ tx[s].at = "read" /\ InsertResult(tx[s]) /\ Finish(s)
  BY DEF CommitSuccess
<1>2. tx[s] \in ResultCalls /\ tx[s].outcome = "succeeded"
  BY <1>1, ResultKnown DEF ResultFits
<1>3. r \in ResultRows /\ r.status = "succeeded" /\ r.draft = tx[s].draft
  BY <1>2 DEF ResultCalls, ResultRows
<1>4. results' = Append(results, r) /\ results \in Seq(ResultRows)
  BY <1>1 DEF InsertResult, PInv
<1> HIDE DEF r
<1>5. \A x \in Sessions : tx'[x] = IF x = s THEN Idle ELSE tx[x]
  BY <1>1 DEF Finish, PInv, JInv
<1>6. Claiming(d)' \subseteq Claiming(d) \ {s}
  BY <1>5 DEF Claiming, Idle
<1>7. CASE tx[s].draft = d
  <2>1. s \in Claiming(d)
    BY <1>1, <1>2, <1>7 DEF Claiming
  <2>2. Len(results) + 1 \notin Successes(d)
        /\ Successes(d)' = Successes(d) \cup {Len(results) + 1}
    BY <1>3, <1>4, <1>7, ResultsGrow DEF Successes
  <2>3. \E i : i \notin Successes(d) /\ Successes(d)' = Successes(d) \cup {i}
    BY <2>2
  <2> QED BY <1>6, <2>1, <2>3 DEF SuccessMoves, Committed
<1>8. CASE tx[s].draft # d
  <2>1. Successes(d)' = Successes(d)
    BY <1>3, <1>4, <1>8, ResultsGrow DEF Successes
  <2> QED BY <1>6, <2>1 DEF SuccessMoves, Unclaimed
<1> QED BY <1>7, <1>8

\* Every step.
LEMMA SuccessesMove ==
  ASSUME PInv, [Next]_vars, NEW d \in Drafts
  PROVE  SuccessMoves(Successes(d), Claiming(d), Successes(d)', Claiming(d)')
<1> DEFINE Moves == SuccessMoves(Successes(d), Claiming(d), Successes(d)', Claiming(d)')
<1>1. ASSUME results' = results PROVE Successes(d)' = Successes(d)
  BY <1>1 DEF Successes
<1>2. ASSUME results' = results, tx' = tx PROVE Moves
  BY <1>1, <1>2 DEF Claiming, SuccessMoves, Unclaimed
<1>3. CASE JournalNext
  <2>1. results' = results
        /\ \A s \in Sessions : tx'[s] = tx[s] \/ tx'[s] = Idle \/ tx'[s].op \in Drafting
    BY <1>3, JournalTouches DEF PInv
  <2>2. Claiming(d)' \subseteq Claiming(d)
    BY <2>1 DEF Claiming, Idle, Drafting, Edits
  <2> QED BY <1>1, <2>1, <2>2 DEF SuccessMoves, Unclaimed
<1>4. ASSUME NEW s \in Sessions, PostingCall(s) PROVE Moves
  <2>1. ASSUME NEW e \in Drafts, NEW maker \in Makers, NEW k \in Keys \cup {NoKey},
               BeginPrepare(s, e, maker, k)
        PROVE  Moves
    <3> DEFINE c == [op |-> "prepare", draft |-> e, amount |-> draft[e].debits,
                     maker |-> maker, key |-> k]
    <3>1. tx' = [tx EXCEPT ![s] = c] /\ results' = results /\ c.op # "result"
      BY <2>1 DEF BeginPrepare, Open
    <3> HIDE DEF c
    <3> QED BY <1>1, <3>1, ClaimsRest
  <2>2. CASE CommitPrepare(s)
    <3>1. tx' = [tx EXCEPT ![s] = Idle] /\ results' = results /\ Idle.op # "result"
      BY <2>2 DEF CommitPrepare, Finish, Idle
    <3> QED BY <1>1, <3>1, ClaimsRest
  <2>3. ASSUME NEW q \in Requests, NEW outcome \in Outcomes, NEW k \in Keys \cup {NoKey},
               BeginResult(s, q, outcome, k)
        PROVE  Moves
    <3> DEFINE c == [op |-> "result", at |-> "begun", request |-> q, row |-> request[q],
                     draft |-> request[q].draft, old |-> NoDraft, outcome |-> outcome, key |-> k]
    <3>1. /\ tx' = [tx EXCEPT ![s] = c] /\ results' = results
          /\ c.outcome = outcome /\ c.draft = request[q].draft
          /\ outcome = "succeeded" => ~HasPosted(request[q].draft)
      BY <2>3 DEF BeginResult, Open
    <3> HIDE DEF c
    <3>2. CASE outcome = "succeeded" /\ request[q].draft = d
      <4>1. Successes(d) = {}
        BY <3>1, <3>2 DEF HasPosted, Successes
      <4> QED BY <1>1, <3>1, <4>1 DEF SuccessMoves, Claimed
    <3>3. CASE ~(outcome = "succeeded" /\ request[q].draft = d)
      <4>1. \A x \in Sessions : tx'[x] = IF x = s THEN c ELSE tx[x]
        BY <3>1 DEF PInv, JInv
      <4>2. Claiming(d)' \subseteq Claiming(d)
        BY <3>1, <3>3, <4>1 DEF Claiming
      <4> QED BY <1>1, <3>1, <4>2 DEF SuccessMoves, Unclaimed
    <3> QED BY <3>2, <3>3
  <2>4. CASE ReadDraft(s)
    <3> DEFINE c == [tx[s] EXCEPT !.at = "read", !.old = draft[tx[s].draft]]
    <3>1. tx[s] \in ResultCalls /\ tx[s].op = "result" /\ tx[s].outcome = "succeeded"
      BY <2>4, ResultKnown DEF ReadDraft
    <3>2. tx' = [tx EXCEPT ![s] = c] /\ results' = results
      BY <2>4 DEF ReadDraft, Step
    <3>3. c.draft = tx[s].draft
      BY <3>1 DEF ResultCalls
    <3> HIDE DEF c
    <3>4. s \in Claiming(c.draft)
      BY <3>1, <3>3 DEF Claiming
    <3> QED BY <1>1, <3>2, <3>4, ClaimsRest
  <2>5. CASE CommitSuccess(s)
    BY <2>5, SuccessCommits
  <2>6. CASE CommitFailure(s) \/ CommitPending(s)
    <3>1. /\ tx[s].op = "result" /\ tx[s].outcome # "succeeded"
          /\ InsertResult(tx[s]) /\ Finish(s)
      BY <2>6 DEF CommitFailure, CommitPending
    <3>2. tx' = [tx EXCEPT ![s] = Idle] /\ Idle.op # "result"
      BY <3>1 DEF Finish, Idle
    <3> QED BY <3>1, <3>2, OtherResults, ClaimsRest
  <2> QED BY <1>4, <2>1, <2>2, <2>3, <2>4, <2>5, <2>6 DEF PostingCall
<1>5. ASSUME NEW q \in Requests, (\E u \in Users : Authorize(q, u)) \/ CancelRequest(q)
      PROVE  Moves
  BY <1>2, <1>5 DEF Authorize, CancelRequest
<1>6. CASE UNCHANGED vars
  BY <1>2, <1>6 DEF vars
<1> QED BY <1>3, <1>4, <1>5, <1>6 DEF Next

\* Once a draft has a success it counts, with what may still be recorded for it,
\* no more than there are transactions.
Within(succ, claim) ==
  /\ IsFiniteSet(succ)
  /\ succ # {} => Cardinality(succ) + Cardinality(claim) <= Cardinality(Sessions)

\* Each success comes from a call that was open when the draft had none.
LEMMA WithinMoves ==
  ASSUME IsFiniteSet(Sessions), NEW succ, NEW succ2, NEW claim, NEW claim2,
         claim \subseteq Sessions, claim2 \subseteq Sessions,
         Within(succ, claim), SuccessMoves(succ, claim, succ2, claim2)
  PROVE  Within(succ2, claim2)
<1>1. \A C : C \subseteq Sessions =>
        /\ IsFiniteSet(C) /\ Cardinality(C) \in Nat
        /\ Cardinality(C) <= Cardinality(Sessions)
  BY FS_Subset, FS_CardinalityType
<1>2. Cardinality(Sessions) \in Nat
  BY FS_CardinalityType
<1>3. Cardinality(succ) \in Nat
  BY FS_CardinalityType DEF Within
<1>4. CASE Unclaimed(succ, claim, succ2, claim2)
  <2>1. Cardinality(claim2) <= Cardinality(claim)
    BY <1>1, <1>4, FS_Subset DEF Unclaimed
  <2> QED BY <1>1, <1>2, <1>3, <1>4, <2>1 DEF Within, Unclaimed
<1>5. CASE Claimed(succ, succ2)
  BY <1>5, FS_EmptySet DEF Within, Claimed
<1>6. CASE Committed(succ, claim, succ2, claim2)
  <2>1. PICK s \in claim : claim2 \subseteq claim \ {s}
    BY <1>6 DEF Committed
  <2>2. PICK i : i \notin succ /\ succ2 = succ \cup {i}
    BY <1>6 DEF Committed
  <2>3. IsFiniteSet(succ2) /\ Cardinality(succ2) = Cardinality(succ) + 1
    BY <2>2, FS_AddElement DEF Within
  <2>4. Cardinality(claim2) <= Cardinality(claim) - 1
    <3>1. IsFiniteSet(claim) /\ Cardinality(claim) \in Nat
      BY <1>1
    <3>2. IsFiniteSet(claim \ {s}) /\ Cardinality(claim \ {s}) = Cardinality(claim) - 1
      BY <3>1, FS_RemoveElement
    <3>3. Cardinality(claim2) <= Cardinality(claim \ {s})
      BY <2>1, <3>2, FS_Subset
    <3> QED BY <3>2, <3>3
  <2>5. Cardinality(claim) \in Nat /\ Cardinality(claim) <= Cardinality(Sessions)
        /\ Cardinality(claim2) \in Nat
    BY <1>1
  <2>6. CASE succ = {}
    <3>1. Cardinality(succ) = 0
      BY <2>6, FS_EmptySet
    <3> QED BY <1>2, <2>3, <2>4, <2>5, <3>1 DEF Within
  <2>7. CASE succ # {}
    BY <1>2, <1>3, <2>3, <2>4, <2>5, <2>7 DEF Within
  <2> QED BY <2>6, <2>7
<1> QED BY <1>4, <1>5, <1>6 DEF SuccessMoves

\* "No duplicate posting" fails by no more than the race allows: a draft gets at
\* most as many successes as there are transactions at a time, however many
\* requests and results there are (recordPostingResult of posting.service.ts).
\* With one transaction at a time it holds.
THEOREM DuplicatesBounded ==
  IsFiniteSet(Sessions) /\ Spec
    => [](\A d \in Drafts : Cardinality(Successes(d)) <= Cardinality(Sessions))
<1> DEFINE Held == \A d \in Drafts : Within(Successes(d), Claiming(d))
<1>1. ASSUME Init PROVE Held
  <2> SUFFICES ASSUME NEW d \in Drafts PROVE Within(Successes(d), Claiming(d))
    OBVIOUS
  <2>1. Successes(d) = {}
    BY <1>1 DEF Init, JournalInit, Successes
  <2> QED BY <2>1, FS_EmptySet DEF Within
<1>2. ASSUME IsFiniteSet(Sessions), PInv, Held, [Next]_vars PROVE Held'
  <2> SUFFICES ASSUME NEW d \in Drafts PROVE Within(Successes(d), Claiming(d))'
    OBVIOUS
  <2>1. Claiming(d) \subseteq Sessions /\ Claiming(d)' \subseteq Sessions
    BY DEF Claiming
  <2>2. Within(Successes(d), Claiming(d))
        /\ SuccessMoves(Successes(d), Claiming(d), Successes(d)', Claiming(d)')
    BY <1>2, SuccessesMove
  <2>3. Within(Successes(d)', Claiming(d)')
    BY <1>2, <2>1, <2>2, WithinMoves
  <2> QED BY <2>3 DEF Within
<1>3. ASSUME IsFiniteSet(Sessions), Held
      PROVE  \A d \in Drafts : Cardinality(Successes(d)) <= Cardinality(Sessions)
  <2> SUFFICES ASSUME NEW d \in Drafts PROVE Cardinality(Successes(d)) <= Cardinality(Sessions)
    OBVIOUS
  <2>1. Claiming(d) \subseteq Sessions
    BY DEF Claiming
  <2>2. Cardinality(Claiming(d)) \in Nat /\ Cardinality(Sessions) \in Nat
    BY <1>3, <2>1, FS_Subset, FS_CardinalityType
  <2>3. Within(Successes(d), Claiming(d))
    BY <1>3
  <2>4. Cardinality(Successes(d)) \in Nat
    BY <2>3, FS_CardinalityType DEF Within
  <2> QED BY <2>2, <2>3, <2>4, FS_EmptySet DEF Within
<1> HIDE DEF Held
<1>4. CASE IsFiniteSet(Sessions)
  BY <1>1, <1>2, <1>3, <1>4, PostingInvariance, PTL DEF Spec
<1>5. CASE ~IsFiniteSet(Sessions)
  BY <1>5
<1> QED BY <1>4, <1>5

\* Where one call at a time is about to record a success of a draft, a draft
\* has one success, and none is to come.
Settled(succ, claim) == succ = {} \/ (claim = {} /\ \E i : succ = {i})

\* "No duplicate posting - a succeeded result may only be recorded once" is true
\* as long as no two calls that found no success of a draft are open at a time:
\* the check of recordPostingResult is right and only its distance from the
\* insert is not.
THEOREM NoDuplicatesApart == Spec /\ []ResultsApart => []NoDuplicatePosting
<1> DEFINE Held == \A d \in Drafts : Settled(Successes(d), Claiming(d))
<1>1. ASSUME Init PROVE Held
  BY <1>1 DEF Init, JournalInit, Successes, Settled
<1>2. ASSUME PInv, ResultsApart, Held, [Next]_vars PROVE Held'
  <2> SUFFICES ASSUME NEW d \in Drafts PROVE Settled(Successes(d), Claiming(d))'
    OBVIOUS
  <2> DEFINE succ == Successes(d)  claim == Claiming(d)
             succ2 == Successes(d)' claim2 == Claiming(d)'
  <2>1. Settled(succ, claim) /\ SuccessMoves(succ, claim, succ2, claim2)
        /\ \A r, s \in claim : r = s
    BY <1>2, SuccessesMove DEF ResultsApart
  <2>2. Settled(succ2, claim2)
    <3> HIDE DEF succ, claim, succ2, claim2
    <3>1. CASE Unclaimed(succ, claim, succ2, claim2)
      BY <2>1, <3>1 DEF Settled, Unclaimed
    <3>2. CASE Claimed(succ, succ2)
      BY <3>2 DEF Settled, Claimed
    <3>3. CASE Committed(succ, claim, succ2, claim2)
      <4>1. succ = {} /\ claim2 = {}
        BY <2>1, <3>3 DEF Settled, Committed
      <4> QED BY <3>3, <4>1 DEF Settled, Committed
    <3> QED BY <2>1, <3>1, <3>2, <3>3 DEF SuccessMoves
  <2> QED BY <2>2 DEF Settled
<1>3. ASSUME PInv, Held PROVE NoDuplicatePosting
  <2> SUFFICES ASSUME NEW i \in DOMAIN results, NEW j \in DOMAIN results,
                      results[i].draft = results[j].draft,
                      results[i].status = "succeeded", results[j].status = "succeeded"
               PROVE  i = j
    BY DEF NoDuplicatePosting
  <2>1. results[i] \in ResultRows
    BY <1>3 DEF PInv
  <2>2. results[i].draft \in Drafts
    BY <2>1 DEF ResultRows
  <2>3. i \in Successes(results[i].draft) /\ j \in Successes(results[i].draft)
    BY DEF Successes
  <2>4. Settled(Successes(results[i].draft), Claiming(results[i].draft))
    BY <1>3, <2>2
  <2> QED BY <2>3, <2>4 DEF Settled
<1> HIDE DEF Held
<1> QED BY <1>1, <1>2, <1>3, PostingInvariance, PTL DEF Spec
=============================================================================
