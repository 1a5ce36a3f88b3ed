------------------------------- MODULE Journal -------------------------------
(***************************************************************************)
(* m21-journal, the drafting half: a draft journal is a header row guarded *)
(* by a version and a list of line rows, each with a version of its own.   *)
(* The header stores the totals of the active lines; a validation that     *)
(* finds no error lets the draft leave "draft", and a validated draft can  *)
(* be submitted for approval.                                              *)
(*                                                                         *)
(* A line call touches both kinds of rows, and reads the header twice: to  *)
(* see that the draft is editable, and again before it sums the lines.     *)
(* PostgreSQL reads committed rows statement by statement, so each of      *)
(* these reads is a step; what the call writes shows when it commits.      *)
(* A call that reads one row and swaps it is one step: any interleaved     *)
(* write would move the version and fail the call, as Rollback does.       *)
(*                                                                         *)
(* Abstracted: names, dates, references and reasons; the currency of a     *)
(* line stands for all that validateDraft checks of a line by itself (its  *)
(* entity and its account too); validation, balance, history, audit and    *)
(* outbox rows, which nothing here reads back;                             *)
(* "closed" stands for closed and locked periods.                          *)
(***************************************************************************)
EXTENDS Integers, Sequences, FiniteSets

CONSTANTS
  Drafts,        \* ids of draft journals
  Sessions,      \* database transactions that may be open at once
  Amounts,       \* amounts of a line, in minor units
  Currencies,
  NoCurrency,    \* SQL NULL in a currency column
  Openings,      \* the line lists a draft may be created with
  MaxLines,      \* bound on the lines of a draft
  MaxVersion     \* bound on the version at which a draft is still worked on

ASSUME AmountsAssumption == Amounts \subseteq Nat \ {0}
ASSUME CurrencyAssumption == NoCurrency \notin Currencies
ASSUME JournalBounds == MaxLines \in Nat /\ MaxVersion \in Nat

VARIABLES
  draft,    \* journal_draft: the header row of each draft
  lines,    \* journal_line: the lines of each draft, by line_no
  results,  \* posting_result, which only posting writes
  tx        \* what the call of each open transaction has read

-----------------------------------------------------------------------------
Directions == {"debit", "credit"}
Periods == {"open", "closed"}
DraftStatuses == {"draft", "validated", "submitted", "posted", "withdrawn"}
DraftMachine ==
  [draft |-> {"validated", "withdrawn"}, validated |-> {"draft", "submitted", "withdrawn"},
   submitted |-> {"posted", "withdrawn"}, posted |-> {}, withdrawn |-> {}]
CanMoveDraft(from, to) == from \in DraftStatuses /\ to \in DraftMachine[from]

NoDraft == [status |-> "none", version |-> 0, period |-> "open", currency |-> NoCurrency,
            debits |-> 0, credits |-> 0]
LineInputs == [dir : Directions, amount : Amounts, currency : Currencies \cup {NoCurrency}]
ASSUME OpeningsAssumption == Openings \subseteq Seq(LineInputs)
NewLine(i) == [status |-> "active", version |-> 1, dir |-> i.dir,
               amount |-> i.amount, currency |-> i.currency]

\* computeBalance: removed lines drop out.
ActiveLines(ls) == {n \in DOMAIN ls : ls[n].status = "active"}
Counted(line, dir) == IF line.status = "active" /\ line.dir = dir THEN line.amount ELSE 0
Total(ls, dir) ==
  LET sum[n \in 0..Len(ls)] == IF n = 0 THEN 0 ELSE sum[n - 1] + Counted(ls[n], dir)
  IN  sum[Len(ls)]

\* validateDraft: lines, of one currency with the header, that balance, and an
\* open period.  Amounts are positive, so a balance has both sides.
Fits(line, header) ==
  header.currency = NoCurrency \/ line.currency \in {NoCurrency, header.currency}
Valid(header, ls) ==
  /\ ActiveLines(ls) # {}
  /\ \A n \in ActiveLines(ls) : Fits(ls[n], header)
  /\ Total(ls, "debit") = Total(ls, "credit")
  /\ header.period = "open"

HasPosted(d) == \E i \in DOMAIN results : results[i].draft = d /\ results[i].status = "succeeded"

\* journal_draft_balanced_ck
RowAllowed_Unchecked(row) == row.status \in DraftStatuses
RowAllowed(row) == row.status = "draft" \/ row.debits = row.credits

CasHits_IgnoresVersion(t) == draft[t.draft].status # "none"
CasHits(t) == draft[t.draft].version = t.old.version

Write(d, row) ==
  /\ RowAllowed(row)
  /\ draft' = [draft EXCEPT ![d] = [row EXCEPT !.version = @ + 1]]

Idle == [op |-> "idle"]
Open(s, call) == tx[s] = Idle /\ tx' = [tx EXCEPT ![s] = call]
Step(s, call) == tx' = [tx EXCEPT ![s] = call]
Finish(s) == tx' = [tx EXCEPT ![s] = Idle]

\* A conflict, a constraint violation, a lost connection or a crash.
Rollback(s) ==
  /\ tx[s] # Idle
  /\ Finish(s)
  /\ UNCHANGED <<draft, lines, results>>

-----------------------------------------------------------------------------
(* draft.service.ts and recommendation.service.ts: a new draft             *)

\* From a caller's lines, or from the legs of an accepted recommendation.
CreateDraft(d, opening, period, currency) ==
  LET ls == [n \in DOMAIN opening |-> NewLine(opening[n])] IN
  /\ draft[d].status = "none"
  /\ lines' = [lines EXCEPT ![d] = ls]
  /\ draft' = [draft EXCEPT ![d] =
       [status |-> "draft", version |-> IF ls = <<>> THEN 1 ELSE 2, period |-> period,
        currency |-> currency, debits |-> Total(ls, "debit"), credits |-> Total(ls, "credit")]]
  /\ UNCHANGED <<results, tx>>

-----------------------------------------------------------------------------
(* addLine, updateLine and removeLine                                      *)

Editable(status) == status \in {"draft", "validated"}
Edits == {"add", "update", "remove"}

\* loadEditable; a validated draft is to be reverted.  `line` is the row to store.
BeginEdit(s, d, op, no, line) ==
  /\ Editable(draft[d].status)
  /\ draft[d].version < MaxVersion
  /\ Open(s, [op |-> op, at |-> "begun", draft |-> d, old |-> draft[d],
              reverts |-> draft[d].status = "validated", no |-> no, line |-> line,
              debits |-> 0, credits |-> 0])
  /\ UNCHANGED <<draft, lines, results>>

BeginAdd(s, d, input) ==
  /\ Len(lines[d]) < MaxLines
  /\ BeginEdit(s, d, "add", 0, NewLine(input))

BeginUpdate(s, d, no, input) ==
  /\ lines[d][no].status = "active"
  /\ BeginEdit(s, d, "update", no,
       [NewLine(input) EXCEPT !.version = lines[d][no].version + 1])

BeginRemove(s, d, no) ==
  /\ lines[d][no].status = "active"
  /\ BeginEdit(s, d, "remove", no,
       [lines[d][no] EXCEPT !.status = "removed", !.version = @ + 1])

\* The UNIQUE line number, and the compare-and-swap on the line.
LineLands_IgnoresVersion(t) ==
  IF t.op = "add" THEN t.no = Len(lines[t.draft]) + 1 ELSE t.no \in DOMAIN lines[t.draft]
LineLands(t) ==
  IF t.op = "add" THEN t.no = Len(lines[t.draft]) + 1
  ELSE lines[t.draft][t.no].version + 1 = t.line.version
Edited(t) ==
  IF t.op = "add" THEN Append(lines[t.draft], t.line)
  ELSE [lines[t.draft] EXCEPT ![t.no] = t.line]

\* nextLineNo, the line's INSERT or UPDATE, and recomputeTotals' findDraft.  A
\* call that reverted the draft holds its row lock and reads its own version.
WriteLine(s) ==
  LET t == tx[s] IN
  /\ t.op \in Edits /\ t.at = "begun"
  /\ Step(s, [t EXCEPT !.at = "written",
                       !.old = IF t.reverts THEN @ ELSE draft[t.draft],
                       !.no = IF t.op = "add" THEN Len(lines[t.draft]) + 1 ELSE @])
  /\ UNCHANGED <<draft, lines, results>>

\* listLines and computeBalance.
SumLines(s) ==
  LET t == tx[s] IN
  /\ t.op \in Edits /\ t.at = "written"
  /\ LineLands(t)
  /\ Step(s, [t EXCEPT !.at = "summed", !.debits = Total(Edited(t), "debit"),
                       !.credits = Total(Edited(t), "credit")])
  /\ UNCHANGED <<draft, lines, results>>

\* updateDraftTotals leaves the status alone: only the revert, a write of its
\* own, sets it.
CommitEdit(s) ==
  LET t == tx[s] IN
  /\ t.op \in Edits /\ t.at = "summed"
  /\ LineLands(t) /\ CasHits(t)
  /\ lines' = [lines EXCEPT ![t.draft] = Edited(t)]
  /\ Write(t.draft, [draft[t.draft] EXCEPT
       !.status = IF t.reverts THEN "draft" ELSE @, !.debits = t.debits, !.credits = t.credits,
       !.version = IF t.reverts THEN @ + 1 ELSE @])
  /\ Finish(s)
  /\ UNCHANGED results

-----------------------------------------------------------------------------
(* The header: editHeader, runValidation, submitDraft, withdrawDraft       *)

\* A validated draft stays validated.  A currency, once set, is not cleared.
EditHeader(d, period, currency) ==
  /\ Editable(draft[d].status)
  /\ draft[d].version < MaxVersion
  /\ currency = NoCurrency => draft[d].currency = NoCurrency
  /\ Write(d, [draft[d] EXCEPT !.period = period, !.currency = currency])
  /\ UNCHANGED <<lines, results, tx>>

BeginValidate(s, d) ==
  /\ Editable(draft[d].status)
  /\ draft[d].version < MaxVersion
  /\ Open(s, [op |-> "validate", at |-> "begun", draft |-> d, old |-> draft[d], valid |-> FALSE])
  /\ UNCHANGED <<draft, lines, results>>

CheckLines(s) ==
  LET t == tx[s] IN
  /\ t.op = "validate" /\ t.at = "begun"
  /\ Step(s, [t EXCEPT !.at = "checked",
                       !.valid = Valid(t.old, lines[t.draft]) /\ ~HasPosted(t.draft)])
  /\ UNCHANGED <<draft, lines, results>>

\* A verdict that confirms the status writes evidence only, and leaves the
\* tables here as Rollback does.
CommitValidate(s) ==
  LET t == tx[s]
      verdict == IF t.valid THEN "validated" ELSE "draft"
  IN
  /\ t.op = "validate" /\ t.at = "checked"
  /\ CanMoveDraft(t.old.status, verdict)
  /\ CasHits(t)
  /\ Write(t.draft, [draft[t.draft] EXCEPT !.status = verdict])
  /\ Finish(s)
  /\ UNCHANGED <<lines, results>>

SubmitDraft(d) ==
  /\ CanMoveDraft(draft[d].status, "submitted")
  /\ draft[d].debits = draft[d].credits
  /\ draft[d].period = "open"
  /\ Write(d, [draft[d] EXCEPT !.status = "submitted"])
  /\ UNCHANGED <<lines, results, tx>>

\* The machine lets any draft be withdrawn; the CHECK only a balanced one.
WithdrawDraft(d) ==
  /\ CanMoveDraft(draft[d].status, "withdrawn")
  /\ Write(d, [draft[d] EXCEPT !.status = "withdrawn"])
  /\ UNCHANGED <<lines, results, tx>>

-----------------------------------------------------------------------------
JournalInit ==
  /\ draft = [d \in Drafts |-> NoDraft]
  /\ lines = [d \in Drafts |-> <<>>]
  /\ results = <<>>
  /\ tx = [s \in Sessions |-> Idle]

EditCall(s) ==
  \/ \E d \in Drafts, input \in LineInputs :
       \/ BeginAdd(s, d, input)
       \/ \E no \in DOMAIN lines[d] : BeginUpdate(s, d, no, input)
  \/ \E d \in Drafts : \E no \in DOMAIN lines[d] : BeginRemove(s, d, no)
  \/ WriteLine(s) \/ SumLines(s) \/ CommitEdit(s)

ValidateCall(s) ==
  (\E d \in Drafts : BeginValidate(s, d)) \/ CheckLines(s) \/ CommitValidate(s)

HeaderCall(d) ==
  \/ \E period \in Periods, currency \in Currencies \cup {NoCurrency} :
       \/ \E opening \in Openings : CreateDraft(d, opening, period, currency)
       \/ EditHeader(d, period, currency)
  \/ SubmitDraft(d) \/ WithdrawDraft(d)

JournalNext ==
  \/ \E s \in Sessions : EditCall(s) \/ ValidateCall(s) \/ Rollback(s)
  \/ \E d \in Drafts : HeaderCall(d)

JournalSpec == JournalInit /\ [][JournalNext]_<<draft, lines, results, tx>>

-----------------------------------------------------------------------------
(* Properties                                                              *)

DraftRows ==
  [status : DraftStatuses \cup {"none"}, version : Nat, period : Periods,
   currency : Currencies \cup {NoCurrency}, debits : Nat, credits : Nat]
LineRows ==
  [status : {"active", "removed"}, version : Nat, dir : Directions,
   amount : Amounts, currency : Currencies \cup {NoCurrency}]
EditCalls ==
  [op : Edits, at : {"begun", "written", "summed"}, draft : Drafts, old : DraftRows,
   reverts : BOOLEAN, no : Nat, line : LineRows, debits : Nat, credits : Nat]
ValidateCalls ==
  [op : {"validate"}, at : {"begun", "checked"}, draft : Drafts, old : DraftRows,
   valid : BOOLEAN]

\* Every header, line and open drafting call has the shape of its columns.
JournalTypeOK ==
  /\ draft \in [Drafts -> DraftRows]
  /\ lines \in [Drafts -> Seq(LineRows)]
  /\ \A s \in Sessions : /\ tx[s].op \in Edits => tx[s] \in EditCalls
                         /\ tx[s].op = "validate" => tx[s] \in ValidateCalls

\* The totals on the header are those of the line rows, whichever edits of
\* different lines run at once: recomputeTotals reads the version before the lines.
TotalsMatchLines ==
  \A d \in Drafts :
    draft[d].debits = Total(lines[d], "debit") /\ draft[d].credits = Total(lines[d], "credit")

\* Balanced before advance, of the lines themselves: once a draft was submitted
\* its lines balance and are not empty, although an edit that read it as a
\* "draft" may commit later.
SubmittedBalances ==
  \A d \in Drafts : draft[d].status \in {"submitted", "posted"} =>
    /\ ActiveLines(lines[d]) # {}
    /\ Total(lines[d], "debit") = Total(lines[d], "credit")

\* No edit of a line is lost and none is undone: each changes a line that is
\* still active, and leaves it one version further.
EveryLineEditCounts ==
  [][\A d \in Drafts : \A n \in DOMAIN lines[d] : lines'[d][n] # lines[d][n] =>
       /\ lines[d][n].status = "active"
       /\ lines'[d][n].version = lines[d][n].version + 1]_<<draft, lines, tx>>
=============================================================================
