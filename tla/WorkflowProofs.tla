--------------------------- MODULE WorkflowProofs ---------------------------
(***************************************************************************)
(* Theorems about Workflow, for every definition, whatever the limit of    *)
(* its loop, and any number of people, sessions and retries.  What the     *)
(* drive keeps is shown of one visit and carried over the loop by          *)
(* induction on its passes; what it leaves of the status is read off       *)
(* Settle, whose every transition goes through the machine.  The rows and  *)
(* alerts come first; then what a visit does to tokens, joins and tasks,   *)
(* and with it the status, the joins and the work of an instance.          *)
(***************************************************************************)
EXTENDS Workflow, NaturalsInduction, WellFoundedInduction, FiniteSetTheorems, TLAPS

-----------------------------------------------------------------------------
(* The machine                                                             *)

\* The machine leads nowhere from an ended status.
LEMMA EndedRests ==
  ASSUME NEW status \in Ended, NEW action
  PROVE  Apply(status, action) = status
<1>1. {m \in Machine : m[1] = status /\ m[2] = action} = {}
  BY DEF Machine, Ended
<1> QED BY <1>1 DEF Apply

\* Nor does the drive of an ended instance.
LEMMA SettledRests ==
  ASSUME NEW status \in Ended, NEW e
  PROVE  Settle(status, e) = status
<1>1. status # "WAITING"
  BY DEF Ended
<1> QED BY <1>1, EndedRests DEF Settle

\* An instance that was completed or cancelled stays so: whatever was read
\* before is driven through the machine, which has no way out of either.
THEOREM EndedStaysEnded == Spec => EndedIsFinal
<1> DEFINE Rests == (inst \in Ended) => (inst' = inst)
<1>1. ASSUME [Next]_vars, inst \in Ended PROVE inst' = inst
  <2>1. ASSUME NEW d, Drive(inst, d) PROVE inst' = inst
    BY <1>1, <2>1, SettledRests DEF Drive
  <2>2. ASSUME NEW u, Start(u) PROVE FALSE
    BY <1>1, <2>2 DEF Start, Ended
  <2>3. ASSUME NEW k, NEW u, Claim(u, k) \/ Reassign(k) \/ Escalate(k) \/ ResolveIncident(k)
        PROVE  inst' = inst
    BY <2>3 DEF Claim, Reassign, Escalate, ResolveIncident
  <2>4. ASSUME NEW s, NEW u, Finish(s, u) \/ BeginRetry(s) \/ Rollback(s)
        PROVE  inst' = inst
    BY <2>4 DEF Finish, BeginFinish, BeginRetry, Rollback
  <2>5. ASSUME NEW s, Engine(s) PROVE inst' = inst
    BY <2>1, <2>5 DEF Engine, CommitFinish, CommitRetry, CommitFire
  <2>6. ASSUME NEW s, NEW t, BeginFire(s, t) \/ FireNodeTimer(t) PROVE inst' = inst
    BY <2>6 DEF BeginFire, FireNodeTimer
  <2>7. ASSUME Suspend \/ Resume \/ Cancel PROVE FALSE
    BY <1>1, <2>7, EndedRests DEF Suspend, Resume, Cancel, Administer
  <2> QED BY <1>1, <2>2, <2>3, <2>4, <2>5, <2>6, <2>7 DEF Next, vars
<1>2. [Next]_vars => [Rests]_vars
  BY <1>1
<1> QED BY <1>2, PTL DEF Spec, EndedIsFinal

-----------------------------------------------------------------------------
(* Rows and drives                                                         *)

TimerRows ==
  [kind : {"node", "sla_warn", "sla_breach"}, owner : Nodes \cup Nat,
   status : {"scheduled", "fired"}]

\* At most one open task at a node.
Single(ts) ==
  \A k, m \in DOMAIN ts : IsOpen(ts[k]) /\ IsOpen(ts[m]) /\ ts[k].node = ts[m].node => k = m

\* At most one timer of a kind and an owner.
Apart(ts) == \A a, b \in ts : a.kind = b.kind /\ a.owner = b.owner => a = b

\* What a drive may do to tasks, timers and clocks: it leaves one open task at
\* a node, adds scheduled timers, and adds clocks without a flag behind a task.
RowsFit(tasks2, timers2, clocks2) ==
  /\ Single(tasks2)
  /\ Apart(timers2) /\ IsFiniteSet(timers2)
  /\ timers \subseteq timers2
  /\ \A t \in timers2 : t \in timers \/ t.status = "scheduled"
  /\ \A c \in DOMAIN clocks2 : clocks2[c].task \in DOMAIN tasks2
  /\ \A c \in DOMAIN clocks : c \in DOMAIN clocks2 /\ clocks2[c] = clocks[c]
  /\ \A c \in DOMAIN clocks2 :
       c \in DOMAIN clocks \/ (~clocks2[c].warned /\ ~clocks2[c].breached)

DriveRows ==
  [tokens : Seq(TokenRows), tasks : Seq(TaskRows), timers : SUBSET TimerRows,
   clocks : Seq(ClockRows), incidents : Seq(IncidentRows), work : Seq(Nat),
   parked : BOOLEAN, cancelled : BOOLEAN]

\* And its worklist names tokens there are; no row that was there goes away.
Drivable(d) ==
  /\ d \in DriveRows
  /\ \A i \in DOMAIN d.work : d.work[i] \in DOMAIN d.tokens
  /\ DOMAIN tasks \subseteq DOMAIN d.tasks /\ DOMAIN tokens \subseteq DOMAIN d.tokens
  /\ RowsFit(d.tasks, d.timers, d.clocks)

\* A definition's edges lead to nodes, and only END and CANCEL have none.
LEMMA Graph ==
  ASSUME def \in Definitions
  PROVE  /\ def.start \in Nodes /\ \A n \in Nodes : def.type[n] \in NodeTypes
         /\ \A n \in Nodes : def.out[n] \in Seq(Nodes)
         /\ \A n \in Nodes : def.type[n] \notin {"END", "CANCEL"} => Len(def.out[n]) >= 1
         /\ \A n \in Nodes : Len(def.out[n]) >= 1 =>
              def.out[n][1] \in Nodes /\ def.out[n][def.take[n]] \in Nodes
<1> DEFINE d == def
<1>1. IsDefinition(d)
  BY DefinitionsAssumption
<1>2. /\ d.type \in [Nodes -> NodeTypes] /\ d.start \in Nodes
      /\ \A n \in Nodes : d.out[n] \in Seq(Nodes)
      /\ \A n \in Nodes : Len(d.out[n]) >= MinOut(d.type[n])
      /\ \A n \in Nodes : d.out[n] # << >> => d.take[n] \in DOMAIN d.out[n]
  BY <1>1 DEF IsDefinition, Nodes
<1> HIDE DEF d
<1>3. ASSUME NEW n \in Nodes, d.type[n] \notin {"END", "CANCEL"}
      PROVE  Len(d.out[n]) >= 1
  <2>1. MinOut(d.type[n]) \in {1, 2}
    BY <1>3 DEF MinOut
  <2>2. Len(d.out[n]) >= MinOut(d.type[n]) /\ Len(d.out[n]) \in Nat
    BY <1>2
  <2> QED BY <2>1, <2>2
<1>4. ASSUME NEW n \in Nodes, Len(d.out[n]) >= 1
      PROVE  d.out[n][1] \in Nodes /\ d.out[n][d.take[n]] \in Nodes
  <2>1. d.out[n] \in Seq(Nodes) /\ d.out[n] # << >>
    BY <1>2, <1>4
  <2>2. d.take[n] \in DOMAIN d.out[n] /\ 1 \in DOMAIN d.out[n]
    BY <1>2, <1>4, <2>1
  <2> QED BY <2>1, <2>2
<1>5. \A n \in Nodes : d.type[n] \in NodeTypes
  BY <1>2
<1> QED BY <1>2, <1>3, <1>4, <1>5 DEF d

\* The operations of a drive, on its fields.  First those that add no task,
\* timer or clock.
LEMMA FieldOps ==
  ASSUME NEW d \in DriveRows
  PROVE  /\ \A i \in DOMAIN d.tokens :
              /\ Consume(d, i) \in DriveRows
              /\ DOMAIN Consume(d, i).tokens = DOMAIN d.tokens
              /\ Consume(d, i).work = d.work /\ Consume(d, i).tasks = d.tasks
              /\ Consume(d, i).timers = d.timers /\ Consume(d, i).clocks = d.clocks
         /\ /\ Park(d) \in DriveRows
            /\ Park(d).tokens = d.tokens /\ Park(d).work = d.work /\ Park(d).tasks = d.tasks
            /\ Park(d).timers = d.timers /\ Park(d).clocks = d.clocks
         /\ \A code \in {"UNKNOWN_HANDLER", "LOOP_LIMIT"} :
              /\ Raise(d, code) \in DriveRows
              /\ Raise(d, code).tokens = d.tokens /\ Raise(d, code).work = d.work
              /\ Raise(d, code).tasks = d.tasks
              /\ Raise(d, code).timers = d.timers /\ Raise(d, code).clocks = d.clocks
<1>1. /\ d.tokens \in Seq(TokenRows) /\ d.tasks \in Seq(TaskRows) /\ d.timers \subseteq TimerRows
      /\ d.clocks \in Seq(ClockRows) /\ d.incidents \in Seq(IncidentRows) /\ d.work \in Seq(Nat)
  BY DEF DriveRows
<1>2. ASSUME NEW i \in DOMAIN d.tokens
      PROVE  /\ Consume(d, i) \in DriveRows
             /\ DOMAIN Consume(d, i).tokens = DOMAIN d.tokens
             /\ Consume(d, i).work = d.work /\ Consume(d, i).tasks = d.tasks
             /\ Consume(d, i).timers = d.timers /\ Consume(d, i).clocks = d.clocks
  <2> DEFINE ts == [d.tokens EXCEPT ![i].live = FALSE]
  <2>1. d.tokens[i] \in TokenRows
    BY <1>1
  <2>2. [d.tokens[i] EXCEPT !.live = FALSE] \in TokenRows
    BY <2>1 DEF TokenRows
  <2>3. ts \in Seq(TokenRows) /\ DOMAIN ts = DOMAIN d.tokens
    BY <1>1, <2>2
  <2>4. Consume(d, i) = [d EXCEPT !.tokens = ts]
    BY DEF Consume
  <2> HIDE DEF ts
  <2> QED BY <2>3, <2>4 DEF DriveRows
<1>3. /\ Park(d) \in DriveRows
      /\ Park(d).tokens = d.tokens /\ Park(d).work = d.work /\ Park(d).tasks = d.tasks
      /\ Park(d).timers = d.timers /\ Park(d).clocks = d.clocks
  BY DEF Park, DriveRows
<1>4. ASSUME NEW code \in {"UNKNOWN_HANDLER", "LOOP_LIMIT"}
      PROVE  /\ Raise(d, code) \in DriveRows
             /\ Raise(d, code).tokens = d.tokens /\ Raise(d, code).work = d.work
             /\ Raise(d, code).tasks = d.tasks
             /\ Raise(d, code).timers = d.timers /\ Raise(d, code).clocks = d.clocks
  <2> DEFINE is == Append(d.incidents, [code |-> code, open |-> TRUE])
  <2>1. [code |-> code, open |-> TRUE] \in IncidentRows
    BY DEF IncidentRows
  <2>2. is \in Seq(IncidentRows)
    BY <1>1, <2>1
  <2>3. Raise(d, code) = [d EXCEPT !.incidents = is]
    BY DEF Raise
  <2> HIDE DEF is
  <2> QED BY <2>2, <2>3 DEF DriveRows
<1> QED BY <1>2, <1>3, <1>4

\* What they leave drivable.
LEMMA FieldOpsKeep ==
  ASSUME NEW d, Drivable(d)
  PROVE  /\ \A i \in DOMAIN d.tokens : Drivable(Consume(d, i))
         /\ Drivable(Park(d))
         /\ \A code \in {"UNKNOWN_HANDLER", "LOOP_LIMIT"} : Drivable(Raise(d, code))
<1>1. d \in DriveRows
  BY DEF Drivable
<1>2. ASSUME NEW e \in DriveRows, DOMAIN e.tokens = DOMAIN d.tokens, e.work = d.work,
             e.tasks = d.tasks, e.timers = d.timers, e.clocks = d.clocks
      PROVE  Drivable(e)
  BY <1>1, <1>2 DEF Drivable
<1> QED BY <1>1, <1>2, FieldOps

\* What is joined to a list stands behind it.
LEMMA Joined ==
  ASSUME NEW S, NEW a \in Seq(S), NEW b \in Seq(S)
  PROVE  /\ a \o b \in Seq(S) /\ Len(a \o b) = Len(a) + Len(b)
         /\ Len(a) \in Nat /\ Len(b) \in Nat
         /\ DOMAIN (a \o b) = 1..(Len(a) + Len(b))
         /\ DOMAIN a = 1..Len(a) /\ DOMAIN b = 1..Len(b)
         /\ \A i \in 1..Len(a) : (a \o b)[i] = a[i]
         /\ \A i \in 1..Len(b) : (a \o b)[Len(a) + i] = b[i]
  OBVIOUS

\* The worklist grows by the tokens that are made.
LEMMA AdvanceKeeps ==
  ASSUME NEW d, Drivable(d), NEW targets \in Seq(Nodes)
  PROVE  Drivable(Advance(d, targets))
<1> DEFINE base == Len(d.tokens)
           new == [k \in DOMAIN targets |-> [node |-> targets[k], live |-> TRUE]]
           more == [k \in DOMAIN targets |-> base + k]
           ts == d.tokens \o new
           ws == d.work \o more
           e == Advance(d, targets)
<1>1. d \in DriveRows /\ d.tokens \in Seq(TokenRows) /\ d.work \in Seq(Nat) /\ base \in Nat
  BY DEF Drivable, DriveRows
<1>2. /\ DOMAIN targets = 1..Len(targets) /\ Len(targets) \in Nat
      /\ \A k \in 1..Len(targets) : targets[k] \in Nodes
  OBVIOUS
<1>3. e = [d EXCEPT !.tokens = ts, !.work = ws]
  BY DEF Advance
<1>4. new \in Seq(TokenRows) /\ Len(new) = Len(targets)
  <2>1. new \in [1..Len(targets) -> TokenRows]
    BY <1>2 DEF TokenRows
  <2> HIDE DEF new
  <2> QED BY <1>2, <2>1
<1>5. more \in Seq(Nat) /\ Len(more) = Len(targets) /\ \A k \in 1..Len(targets) : more[k] = base + k
  <2> HIDE DEF base
  <2>1. more \in [1..Len(targets) -> Nat] /\ \A k \in 1..Len(targets) : more[k] = base + k
    BY <1>1, <1>2
  <2> HIDE DEF more
  <2> QED BY <1>2, <2>1
<1> HIDE DEF new, more, e
<1>6. /\ ts \in Seq(TokenRows) /\ DOMAIN ts = 1..(base + Len(targets))
      /\ DOMAIN d.tokens = 1..base
  <2> DEFINE a == d.tokens
  <2>1. a \in Seq(TokenRows) /\ new \in Seq(TokenRows)
    BY <1>1, <1>4
  <2>2. ts = a \o new /\ base = Len(a)
    OBVIOUS
  <2> HIDE DEF a, ts, base
  <2>3. /\ a \o new \in Seq(TokenRows) /\ Len(a \o new) = Len(a) + Len(new)
        /\ DOMAIN (a \o new) = 1..(Len(a) + Len(new)) /\ DOMAIN a = 1..Len(a)
    BY <2>1, Joined
  <2>4. ts \in Seq(TokenRows) /\ DOMAIN ts = 1..(base + Len(targets)) /\ DOMAIN a = 1..base
    BY <1>4, <2>2, <2>3
  <2> QED BY <2>4 DEF a
<1>7. /\ ws \in Seq(Nat) /\ DOMAIN ws = 1..(Len(d.work) + Len(targets))
      /\ DOMAIN d.work = 1..Len(d.work) /\ Len(d.work) \in Nat
      /\ \A i \in 1..Len(d.work) : ws[i] = d.work[i]
      /\ \A i \in 1..Len(targets) : ws[Len(d.work) + i] = more[i]
  <2> DEFINE a == d.work
  <2>1. a \in Seq(Nat) /\ more \in Seq(Nat)
    BY <1>1, <1>5
  <2>2. ws = a \o more
    OBVIOUS
  <2> HIDE DEF a, ws, base
  <2>3. /\ a \o more \in Seq(Nat)
        /\ DOMAIN (a \o more) = 1..(Len(a) + Len(more)) /\ DOMAIN a = 1..Len(a) /\ Len(a) \in Nat
        /\ \A i \in 1..Len(a) : (a \o more)[i] = a[i]
        /\ \A i \in 1..Len(more) : (a \o more)[Len(a) + i] = more[i]
    BY <2>1, Joined
  <2>4. /\ ws \in Seq(Nat) /\ DOMAIN ws = 1..(Len(a) + Len(targets))
        /\ DOMAIN a = 1..Len(a) /\ Len(a) \in Nat
        /\ \A i \in 1..Len(a) : ws[i] = a[i]
        /\ \A i \in 1..Len(targets) : ws[Len(a) + i] = more[i]
    BY <1>5, <2>2, <2>3
  <2> QED BY <2>4 DEF a
<1>8. \A i \in DOMAIN d.work : d.work[i] \in DOMAIN d.tokens
  BY DEF Drivable
<1> HIDE DEF ts, ws, base
<1>9. ASSUME NEW i \in DOMAIN ws PROVE ws[i] \in DOMAIN ts
  <2>1. CASE i \in 1..Len(d.work)
    <3>1. ws[i] \in 1..base
      BY <1>6, <1>7, <1>8, <2>1
    <3> QED BY <1>1, <1>2, <1>6, <3>1
  <2>2. CASE i \notin 1..Len(d.work)
    <3>1. PICK k \in 1..Len(targets) : i = Len(d.work) + k
      <4>1. i - Len(d.work) \in 1..Len(targets) /\ i = Len(d.work) + (i - Len(d.work))
        BY <1>2, <1>7, <2>2, SMTT(30)
      <4> QED BY <4>1
    <3>2. ws[i] = base + k
      BY <1>5, <1>7, <3>1
    <3> QED BY <1>1, <1>2, <1>6, <3>2
  <2> QED BY <2>1, <2>2
<1>10. /\ e \in DriveRows /\ e.tokens = ts /\ e.work = ws
       /\ e.tasks = d.tasks /\ e.timers = d.timers /\ e.clocks = d.clocks
  BY <1>1, <1>3, <1>6, <1>7 DEF DriveRows
<1>11. /\ DOMAIN tokens \subseteq DOMAIN d.tokens /\ DOMAIN tasks \subseteq DOMAIN d.tasks
       /\ RowsFit(d.tasks, d.timers, d.clocks)
  BY DEF Drivable
<1>12. DOMAIN d.tokens \subseteq DOMAIN ts
  BY <1>1, <1>2, <1>6
<1>13. Drivable(e)
  BY <1>9, <1>10, <1>11, <1>12 DEF Drivable
<1> QED BY <1>13 DEF e

\* Taking the first token off the worklist.
LEMMA PopKeeps ==
  ASSUME NEW d, Drivable(d), d.work # << >>
  PROVE  /\ Drivable([d EXCEPT !.work = Tail(@)])
         /\ [d EXCEPT !.work = Tail(@)].tokens = d.tokens
         /\ Head(d.work) \in DOMAIN d.tokens /\ d.tokens[Head(d.work)].node \in Nodes
<1> DEFINE rest == Tail(d.work)
           e == [d EXCEPT !.work = rest]
<1>1. d \in DriveRows /\ d.work \in Seq(Nat) /\ d.tokens \in Seq(TokenRows)
  BY DEF Drivable, DriveRows
<1>2. /\ rest \in Seq(Nat) /\ Head(d.work) = d.work[1] /\ 1 \in DOMAIN d.work
      /\ \A i \in DOMAIN rest : i + 1 \in DOMAIN d.work /\ rest[i] = d.work[i + 1]
  BY <1>1
<1>3. \A i \in DOMAIN d.work : d.work[i] \in DOMAIN d.tokens
  BY DEF Drivable
<1>4. \A i \in DOMAIN rest : rest[i] \in DOMAIN d.tokens
  BY <1>2, <1>3
<1>5. Head(d.work) \in DOMAIN d.tokens
  BY <1>2, <1>3
<1>6. d.tokens[Head(d.work)] \in TokenRows
  BY <1>1, <1>5
<1> HIDE DEF rest
<1>7. /\ e \in DriveRows /\ e.work = rest /\ e.tokens = d.tokens
      /\ e.tasks = d.tasks /\ e.timers = d.timers /\ e.clocks = d.clocks
  BY <1>1, <1>2 DEF DriveRows
<1> HIDE DEF e
<1>8. Drivable(e)
  BY <1>4, <1>7 DEF Drivable
<1> QED BY <1>5, <1>6, <1>7, <1>8 DEF e, rest, TokenRows

\* A CANCEL node only leaves a mark.
LEMMA CancelKeeps ==
  ASSUME NEW d, Drivable(d)
  PROVE  Drivable([d EXCEPT !.cancelled = TRUE])
<1> DEFINE e == [d EXCEPT !.cancelled = TRUE]
<1>1. /\ e \in DriveRows /\ e.work = d.work /\ e.tokens = d.tokens
      /\ e.tasks = d.tasks /\ e.timers = d.timers /\ e.clocks = d.clocks
  BY DEF Drivable, DriveRows
<1> HIDE DEF e
<1>2. Drivable(e)
  BY <1>1 DEF Drivable
<1> QED BY <1>2 DEF e

\* The dedupe key keeps timers apart.
LEMMA ScheduleFits ==
  ASSUME NEW ts \in SUBSET TimerRows, Apart(ts), IsFiniteSet(ts),
         NEW kind \in {"node", "sla_warn", "sla_breach"}, NEW owner \in Nodes \cup Nat
  PROVE  /\ Schedule(ts, kind, owner) \in SUBSET TimerRows
         /\ Apart(Schedule(ts, kind, owner)) /\ IsFiniteSet(Schedule(ts, kind, owner))
         /\ ts \subseteq Schedule(ts, kind, owner)
         /\ \A t \in Schedule(ts, kind, owner) : t \in ts \/ t.status = "scheduled"
<1> DEFINE row == [kind |-> kind, owner |-> owner, status |-> "scheduled"]
<1>1. CASE \E t \in ts : t.kind = kind /\ t.owner = owner
  BY <1>1 DEF Schedule
<1>2. CASE ~\E t \in ts : t.kind = kind /\ t.owner = owner
  <2>1. Schedule(ts, kind, owner) = ts \cup {row}
    BY <1>2 DEF Schedule
  <2>2. row \in TimerRows
    BY DEF TimerRows
  <2>3. row.kind = kind /\ row.owner = owner /\ row.status = "scheduled"
    OBVIOUS
  <2> HIDE DEF row
  <2>4. Apart(ts \cup {row})
    BY <1>2, <2>3 DEF Apart
  <2>5. IsFiniteSet(ts \cup {row})
    BY FS_AddElement
  <2> QED BY <2>1, <2>2, <2>3, <2>4, <2>5
<1> QED BY <1>1, <1>2

\* The timer of a TIMER_WAIT node.
LEMMA NodeTimerKeeps ==
  ASSUME NEW d, Drivable(d), NEW n \in Nodes
  PROVE  Drivable([d EXCEPT !.timers = Schedule(@, "node", n)])
<1> DEFINE ts == Schedule(d.timers, "node", n)
           e == [d EXCEPT !.timers = ts]
<1>1. d \in DriveRows /\ d.timers \in SUBSET TimerRows
  BY DEF Drivable, DriveRows
<1>2. RowsFit(d.tasks, d.timers, d.clocks)
  BY DEF Drivable
<1>3. Apart(d.timers) /\ IsFiniteSet(d.timers)
  BY <1>2 DEF RowsFit
<1>4. /\ ts \in SUBSET TimerRows /\ Apart(ts) /\ IsFiniteSet(ts) /\ d.timers \subseteq ts
      /\ \A t \in ts : t \in d.timers \/ t.status = "scheduled"
  BY <1>1, <1>3, ScheduleFits
<1> HIDE DEF ts
<1>5. RowsFit(d.tasks, ts, d.clocks)
  BY <1>2, <1>4 DEF RowsFit
<1>6. /\ e \in DriveRows /\ e.work = d.work /\ e.tokens = d.tokens
      /\ e.tasks = d.tasks /\ e.timers = ts /\ e.clocks = d.clocks
  BY <1>1, <1>4 DEF DriveRows
<1> HIDE DEF e
<1>7. Drivable(e)
  BY <1>5, <1>6 DEF Drivable
<1> QED BY <1>7 DEF e, ts

\* What is appended stands last.
LEMMA Appended ==
  ASSUME NEW S, NEW a \in Seq(S), NEW x \in S
  PROVE  /\ Append(a, x) \in Seq(S) /\ Len(a) \in Nat
         /\ DOMAIN Append(a, x) = DOMAIN a \cup {Len(a) + 1}
         /\ Len(a) + 1 \notin DOMAIN a
         /\ \A i \in DOMAIN a : Append(a, x)[i] = a[i]
         /\ Append(a, x)[Len(a) + 1] = x
  OBVIOUS

\* The clock of a task and its two timers.
LEMMA StartClockKeeps ==
  ASSUME NEW d, Drivable(d), NEW n \in Nodes, NEW task \in DOMAIN d.tasks, Len(clocks) \in Nat
  PROVE  Drivable(StartClock(d, n, task))
<1> DEFINE row == [task |-> task, at |-> Len(clocks), warned |-> FALSE, breached |-> FALSE]
           cs == Append(d.clocks, row)
           t1 == Schedule(d.timers, "sla_warn", task)
           ts == Schedule(t1, "sla_breach", task)
           e == [d EXCEPT !.clocks = cs, !.timers = ts]
<1>1. d \in DriveRows /\ d.timers \in SUBSET TimerRows /\ d.clocks \in Seq(ClockRows)
  BY DEF Drivable, DriveRows
<1>2. d.tasks \in Seq(TaskRows) /\ task \in Nat
  BY DEF Drivable, DriveRows
<1>3. RowsFit(d.tasks, d.timers, d.clocks)
  BY DEF Drivable
<1>4. Apart(d.timers) /\ IsFiniteSet(d.timers) /\ task \in Nodes \cup Nat
  BY <1>2, <1>3 DEF RowsFit
<1>5. /\ t1 \in SUBSET TimerRows /\ Apart(t1) /\ IsFiniteSet(t1) /\ d.timers \subseteq t1
      /\ \A t \in t1 : t \in d.timers \/ t.status = "scheduled"
  BY <1>1, <1>4, ScheduleFits
<1> HIDE DEF t1
<1>6. /\ ts \in SUBSET TimerRows /\ Apart(ts) /\ IsFiniteSet(ts) /\ t1 \subseteq ts
      /\ \A t \in ts : t \in t1 \/ t.status = "scheduled"
  BY <1>4, <1>5, ScheduleFits
<1> HIDE DEF ts
<1>7. row \in ClockRows /\ row.task = task /\ ~row.warned /\ ~row.breached
  BY <1>2 DEF ClockRows
<1> HIDE DEF row
<1>8. /\ cs \in Seq(ClockRows) /\ DOMAIN cs = DOMAIN d.clocks \cup {Len(d.clocks) + 1}
      /\ Len(d.clocks) + 1 \notin DOMAIN d.clocks
      /\ \A c \in DOMAIN d.clocks : cs[c] = d.clocks[c]
      /\ cs[Len(d.clocks) + 1] = row
  BY <1>1, <1>7, Appended
<1> HIDE DEF cs
<1>9. RowsFit(d.tasks, ts, cs)
  <2>1. \A c \in DOMAIN cs : c \in DOMAIN d.clocks \/ cs[c] = row
    BY <1>8
  <2>2. \A c \in DOMAIN cs : cs[c].task \in DOMAIN d.tasks
    BY <1>3, <1>7, <1>8, <2>1 DEF RowsFit
  <2>3. \A c \in DOMAIN cs : c \in DOMAIN clocks \/ (~cs[c].warned /\ ~cs[c].breached)
    BY <1>3, <1>7, <1>8, <2>1 DEF RowsFit
  <2>4. \A c \in DOMAIN clocks : c \in DOMAIN cs /\ cs[c] = clocks[c]
    BY <1>3, <1>8 DEF RowsFit
  <2>5. timers \subseteq ts /\ \A t \in ts : t \in timers \/ t.status = "scheduled"
    BY <1>3, <1>5, <1>6 DEF RowsFit
  <2>6. Single(d.tasks)
    BY <1>3 DEF RowsFit
  <2> QED BY <1>6, <2>2, <2>3, <2>4, <2>5, <2>6 DEF RowsFit
<1>10. /\ e \in DriveRows /\ e.work = d.work /\ e.tokens = d.tokens
       /\ e.tasks = d.tasks /\ e.timers = ts /\ e.clocks = cs
  BY <1>1, <1>6, <1>8 DEF DriveRows
<1>11. StartClock(d, n, task) \in {d, e}
  BY DEF StartClock, cs, ts, t1, row
<1> HIDE DEF e
<1>12. Drivable(e)
  BY <1>9, <1>10 DEF Drivable
<1> QED BY <1>11, <1>12

\* A task is made at a node where none is open.
LEMMA CreateTaskKeeps ==
  ASSUME NEW d, Drivable(d), NEW n \in Nodes, Len(clocks) \in Nat,
         ~\E k \in DOMAIN d.tasks : d.tasks[k].node = n /\ IsOpen(d.tasks[k])
  PROVE  Drivable(CreateTask(d, n))
<1> DEFINE row == [node |-> n, status |-> "AVAILABLE", claimedBy |-> NoUser]
           ks == Append(d.tasks, row)
           e == [d EXCEPT !.tasks = ks]
<1>1. d \in DriveRows /\ d.tasks \in Seq(TaskRows)
  BY DEF Drivable, DriveRows
<1>2. row \in TaskRows /\ row.node = n
  BY DEF TaskRows
<1>3. CreateTask(d, n) = StartClock(e, n, Len(d.tasks) + 1)
  BY DEF CreateTask
<1> HIDE DEF row
<1>4. /\ ks \in Seq(TaskRows) /\ DOMAIN ks = DOMAIN d.tasks \cup {Len(d.tasks) + 1}
      /\ \A k \in DOMAIN d.tasks : ks[k] = d.tasks[k]
      /\ ks[Len(d.tasks) + 1] = row
  BY <1>1, <1>2, Appended
<1> HIDE DEF ks
<1>5. RowsFit(d.tasks, d.timers, d.clocks)
  BY DEF Drivable
<1>6. Single(ks)
  <2>1. Single(d.tasks)
    BY <1>5 DEF RowsFit
  <2>2. \A k \in DOMAIN ks : k \in DOMAIN d.tasks \/ k = Len(d.tasks) + 1
    BY <1>4
  <2> QED BY <1>2, <1>4, <2>1, <2>2 DEF Single
<1>7. RowsFit(ks, d.timers, d.clocks)
  BY <1>4, <1>5, <1>6 DEF RowsFit
<1>8. /\ e \in DriveRows /\ e.work = d.work /\ e.tokens = d.tokens
      /\ e.tasks = ks /\ e.timers = d.timers /\ e.clocks = d.clocks
  BY <1>1, <1>4 DEF DriveRows
<1> HIDE DEF e
<1>9. Drivable(e)
  BY <1>4, <1>7, <1>8 DEF Drivable
<1>10. Len(d.tasks) + 1 \in DOMAIN e.tasks
  BY <1>4, <1>8
<1> QED BY <1>3, <1>9, <1>10, StartClockKeeps

\* One visit of the drive leaves the rows in order.
LEMMA VisitKeeps ==
  ASSUME NEW d, Drivable(d), d.work # << >>, def \in Definitions, Len(clocks) \in Nat
  PROVE  Drivable(Visit(d))
<1> DEFINE i == Head(d.work)
           n == d.tokens[i].node
           out == def.out[n]
           here == [d EXCEPT !.work = Tail(@)]
           gone == Consume(here, i)
<1>1. Drivable(here) /\ here.tokens = d.tokens /\ i \in DOMAIN d.tokens /\ n \in Nodes
  BY PopKeeps
<1> HIDE DEF here
<1>2. Drivable(gone)
  BY <1>1, FieldOpsKeep
<1>3. /\ def.type[n] \in NodeTypes /\ out \in Seq(Nodes)
      /\ def.type[n] \notin {"END", "CANCEL"} => Len(out) >= 1
      /\ Len(out) >= 1 => out[1] \in Nodes /\ out[def.take[n]] \in Nodes
  BY <1>1, Graph
<1> HIDE DEF gone
<1>4. ASSUME NEW m \in Nodes PROVE Drivable(Advance(gone, <<m>>))
  <2>1. <<m>> \in Seq(Nodes)
    OBVIOUS
  <2> QED BY <1>2, <2>1, AdvanceKeeps
<1>5. Drivable(Advance(gone, out))
  BY <1>2, <1>3, AdvanceKeeps
<1>6. CASE def.type[n] = "START"
  <2>1. Visit(d) = Advance(gone, <<out[1]>>)
    BY <1>6 DEF Visit, gone, here, TaskTypes
  <2> QED BY <1>3, <1>4, <1>6, <2>1
<1>7. CASE def.type[n] = "EXCLUSIVE_GATEWAY"
  <2>1. Visit(d) = Advance(gone, <<out[def.take[n]]>>)
    BY <1>7 DEF Visit, gone, here, TaskTypes
  <2> QED BY <1>3, <1>4, <1>7, <2>1
<1>8. CASE def.type[n] \in {"PARALLEL_SPLIT", "ESCALATION"}
  <2>1. Visit(d) = Advance(gone, out)
    BY <1>8 DEF Visit, gone, here, TaskTypes
  <2> QED BY <1>5, <2>1
<1>9. CASE def.type[n] = "PARALLEL_JOIN"
  <2>1. Visit(d) = ArriveAtJoin(gone, n)
    BY <1>9 DEF Visit, gone, here, TaskTypes
  <2> QED BY <1>2, <1>5, <2>1 DEF ArriveAtJoin
<1>10. CASE def.type[n] \in TaskTypes
  <2>1. Visit(d) = ArriveAtTask(here, n)
    BY <1>10 DEF Visit, here, TaskTypes
  <2>2. CASE \E k \in DOMAIN here.tasks : here.tasks[k].node = n /\ IsOpen(here.tasks[k])
    <3>1. Visit(d) = Park(here)
      BY <2>1, <2>2 DEF ArriveAtTask
    <3> QED BY <1>1, <3>1, FieldOpsKeep
  <2>3. CASE ~\E k \in DOMAIN here.tasks : here.tasks[k].node = n /\ IsOpen(here.tasks[k])
    <3>1. Visit(d) = Park(CreateTask(here, n))
      BY <2>1, <2>3 DEF ArriveAtTask
    <3>2. Drivable(CreateTask(here, n))
      BY <1>1, <2>3, CreateTaskKeeps
    <3> QED BY <3>1, <3>2, FieldOpsKeep
  <2> QED BY <2>2, <2>3
<1>11. CASE def.type[n] = "SYSTEM_TASK"
  <2>1. Visit(d) = IF n \in def.noop THEN Advance(gone, <<out[1]>>)
                   ELSE Park(Raise(here, "UNKNOWN_HANDLER"))
    BY <1>11 DEF Visit, gone, here, TaskTypes
  <2>2. Drivable(Park(Raise(here, "UNKNOWN_HANDLER")))
    BY <1>1, FieldOpsKeep
  <2> QED BY <1>3, <1>4, <1>11, <2>1, <2>2
<1>12. CASE def.type[n] = "TIMER_WAIT"
  <2>1. Visit(d) = Park([here EXCEPT !.timers = Schedule(@, "node", n)])
    BY <1>12 DEF Visit, here, TaskTypes
  <2>2. Drivable([here EXCEPT !.timers = Schedule(@, "node", n)])
    BY <1>1, NodeTimerKeeps
  <2> QED BY <2>1, <2>2, FieldOpsKeep
<1>13. CASE def.type[n] = "EVENT_WAIT"
  <2>1. Visit(d) = Park(here)
    BY <1>13 DEF Visit, here, TaskTypes
  <2> QED BY <1>1, <2>1, FieldOpsKeep
<1>14. CASE def.type[n] = "CANCEL"
  <2>1. Visit(d) = [gone EXCEPT !.cancelled = TRUE]
    BY <1>14 DEF Visit, gone, here, TaskTypes
  <2> QED BY <1>2, <2>1, CancelKeeps
<1>15. CASE def.type[n] = "END"
  <2>1. Visit(d) = gone
    BY <1>15 DEF Visit, gone, here, TaskTypes
  <2> QED BY <1>2, <2>1
<1> QED
  BY <1>3, <1>6, <1>7, <1>8, <1>9, <1>10, <1>11, <1>12, <1>13, <1>14, <1>15
     DEF NodeTypes, TaskTypes

-----------------------------------------------------------------------------
(* The loop                                                                *)

\* Induction over the natural numbers, for a set of them: its complement has
\* no least element.
LEMMA Induction ==
  ASSUME NEW S, 0 \in S, \A n \in Nat : n \in S => n + 1 \in S
  PROVE  \A n \in Nat : n \in S
<1> SUFFICES ASSUME NEW T, T = {n \in Nat : n \notin S}, T # {}
             PROVE  FALSE
  OBVIOUS
<1>1. T \subseteq Nat
  OBVIOUS
<1>2. PICK m \in T : \A n \in T : ~(<<n, m>> \in OpToRel(<, Nat))
  BY <1>1, NatLessThanWellFounded, WFMin
<1>3. m \in Nat /\ m # 0 /\ m - 1 \in Nat /\ m - 1 < m /\ (m - 1) + 1 = m
  OBVIOUS
<1>4. <<m - 1, m>> \in OpToRel(<, Nat)
  BY <1>3 DEF OpToRel
<1>5. m - 1 \notin T
  BY <1>2, <1>4, Zenon
<1> QED BY <1>3, <1>5

\* The passes of the loop.
Passes(run, d, m) ==
  run = [k \in 0..m |-> IF k = 0 THEN {d}
                        ELSE {(IF e.work = << >> THEN e ELSE Visit(e)) : e \in run[k - 1]}]

\* Passes exist for every limit.
LEMMA PassesExist ==
  ASSUME NEW d, NEW m \in Nat
  PROVE  \E run : Passes(run, d, m)
<1> DEFINE S == {n \in Nat : \E run : Passes(run, d, n)}
           Next1(es) == {(IF e.work = << >> THEN e ELSE Visit(e)) : e \in es}
<1>0. \A run, n : Passes(run, d, n) <=> run = [k \in 0..n |-> IF k = 0 THEN {d} ELSE Next1(run[k - 1])]
  BY DEF Passes
<1> HIDE DEF Next1
<1>1. 0 \in S
  <2>1. [n \in 0..0 |-> {d}] = [k \in 0..0 |-> IF k = 0 THEN {d} ELSE Next1([n \in 0..0 |-> {d}][k - 1])]
    <3>1. \A k \in 0..0 : k = 0
      OBVIOUS
    <3> QED BY <3>1, Zenon
  <2>2. Passes([n \in 0..0 |-> {d}], d, 0)
    BY <1>0, <2>1
  <2> QED BY <2>2
<1>2. ASSUME NEW n \in Nat, n \in S
      PROVE  n + 1 \in S
  <2>1. PICK run : Passes(run, d, n)
    BY <1>2
  <2> DEFINE more == [i \in 0..(n + 1) |-> IF i = n + 1 THEN Next1(run[n]) ELSE run[i]]
  <2>2. run = [i \in 0..n |-> IF i = 0 THEN {d} ELSE Next1(run[i - 1])]
    BY <1>0, <2>1
  <2>3. ASSUME NEW i \in 0..(n + 1)
        PROVE  more[i] = IF i = 0 THEN {d} ELSE Next1(more[i - 1])
    <3>1. CASE i = n + 1
      <4>1. i # 0 /\ i - 1 = n /\ n \in 0..(n + 1) /\ n # n + 1
        BY <3>1
      <4>2. more[n] = run[n]
        BY <4>1
      <4> QED BY <3>1, <4>1, <4>2
    <3>2. CASE i \in 0..n
      <4>1. more[i] = run[i]
        BY <3>2
      <4>2. i # 0 => i - 1 \in 0..n /\ i - 1 # n + 1 /\ i - 1 \in 0..(n + 1)
        BY <3>2
      <4>3. i # 0 => more[i - 1] = run[i - 1]
        BY <4>2
      <4>4. run[i] = IF i = 0 THEN {d} ELSE Next1(run[i - 1])
        BY <2>2, <3>2
      <4> QED BY <4>1, <4>3, <4>4
    <3> QED BY <3>1, <3>2
  <2>4. Passes(more, d, n + 1)
    <3>1. more = [i \in 0..(n + 1) |-> more[i]]
      OBVIOUS
    <3> HIDE DEF more
    <3>2. more = [i \in 0..(n + 1) |-> IF i = 0 THEN {d} ELSE Next1(more[i - 1])]
      BY <2>3, <3>1
    <3> QED BY <1>0, <3>2
  <2> HIDE DEF more
  <2> QED BY <2>4
<1> HIDE DEF S
<1>3. m \in S
  BY <1>1, <1>2, Induction
<1> QED BY <1>3 DEF S

\* What every visit keeps is kept by the loop.
LEMMA LoopLeads ==
  ASSUME NEW d, NEW S, d \in S, \A x \in S : x.work # << >> => Visit(x) \in S, NEW e \in Loop(d)
  PROVE  \E x \in S : e = IF x.work = << >> THEN x ELSE Park(Raise(x, "LOOP_LIMIT"))
<1> DEFINE run == CHOOSE run : Passes(run, d, MaxLoopIterations)
           M == MaxLoopIterations
           Next1(es) == {(IF x.work = << >> THEN x ELSE Visit(x)) : x \in es}
<1>0. M \in Nat
  BY BoundsAssumption
<1>1. Passes(run, d, M)
  BY <1>0, PassesExist
<1>2. Loop(d) = {IF x.work = << >> THEN x ELSE Park(Raise(x, "LOOP_LIMIT")) : x \in run[M]}
  BY DEF Loop, Passes
<1>3. run = [k \in 0..M |-> IF k = 0 THEN {d} ELSE Next1(run[k - 1])]
  BY <1>1 DEF Passes
<1>4. ASSUME NEW es, es \subseteq S
      PROVE  Next1(es) \subseteq S
  BY <1>4
<1> HIDE DEF run, M, Next1
<1>5. run[0] = {d} /\ \A n \in 1..M : run[n] = Next1(run[n - 1])
  <2>1. \A n \in 0..M : run[n] = IF n = 0 THEN {d} ELSE Next1(run[n - 1])
    BY <1>3, Zenon
  <2>2. 0 \in 0..M /\ \A n \in 1..M : n \in 0..M /\ n # 0
    BY <1>0
  <2> QED BY <2>1, <2>2, Zenon
<1> DEFINE Reach == {n \in Nat : n <= M => run[n] \subseteq S}
<1>6. 0 \in Reach
  BY <1>5
<1>7. ASSUME NEW n \in Nat, n \in Reach
      PROVE  n + 1 \in Reach
  <2> SUFFICES ASSUME n + 1 <= M PROVE run[n + 1] \subseteq S
    OBVIOUS
  <2>1. n + 1 \in 1..M /\ (n + 1) - 1 = n /\ n <= M
    BY <1>0
  <2>2. run[n + 1] = Next1(run[n])
    BY <1>5, <2>1
  <2> QED BY <1>4, <1>7, <2>1, <2>2
<1> HIDE DEF Reach
<1>8. \A n \in Nat : n \in Reach
  BY <1>6, <1>7, Induction
<1>9. run[M] \subseteq S
  BY <1>0, <1>8 DEF Reach
<1> QED BY <1>2, <1>9

\* The loop leaves the rows in order, however often it turns.
LEMMA LoopKeeps ==
  ASSUME NEW d, Drivable(d), def \in Definitions, Len(clocks) \in Nat, NEW e \in Loop(d)
  PROVE  Drivable(e)
<1> DEFINE S == {x \in DriveRows : Drivable(x)}
<1>1. \A x \in S : x.work # << >> => Visit(x) \in S
  BY VisitKeeps DEF Drivable
<1>2. d \in S
  BY DEF Drivable
<1> HIDE DEF S
<1>3. PICK x \in S : e = IF x.work = << >> THEN x ELSE Park(Raise(x, "LOOP_LIMIT"))
  BY <1>1, <1>2, LoopLeads
<1>4. Drivable(x)
  BY DEF S
<1>5. Drivable(Raise(x, "LOOP_LIMIT"))
  BY <1>4, FieldOpsKeep
<1>6. Drivable(Park(Raise(x, "LOOP_LIMIT")))
  BY <1>5, FieldOpsKeep
<1> QED BY <1>3, <1>4, <1>6

\* The lists of active tokens, up to each token.
Lists(seq, m) ==
  seq = [k \in 0..m |-> IF k = 0 THEN << >>
                        ELSE IF tokens[k].live THEN Append(seq[k - 1], k) ELSE seq[k - 1]]

\* They exist for every length.
LEMMA ListsExist ==
  ASSUME NEW m \in Nat
  PROVE  \E seq : Lists(seq, m)
<1> DEFINE S == {n \in Nat : \E seq : Lists(seq, n)}
           More(k, list) == IF tokens[k].live THEN Append(list, k) ELSE list
<1>0. \A seq, n : Lists(seq, n) <=> seq = [k \in 0..n |-> IF k = 0 THEN << >> ELSE More(k, seq[k - 1])]
  BY DEF Lists
<1> HIDE DEF More
<1>1. 0 \in S
  <2>1. [n \in 0..0 |-> << >>] = [k \in 0..0 |-> IF k = 0 THEN << >> ELSE More(k, [n \in 0..0 |-> << >>][k - 1])]
    <3>1. \A k \in 0..0 : k = 0
      OBVIOUS
    <3> QED BY <3>1, Zenon
  <2>2. Lists([n \in 0..0 |-> << >>], 0)
    BY <1>0, <2>1
  <2> QED BY <2>2
<1>2. ASSUME NEW n \in Nat, n \in S
      PROVE  n + 1 \in S
  <2>1. PICK seq : Lists(seq, n)
    BY <1>2
  <2> DEFINE more == [i \in 0..(n + 1) |-> IF i = n + 1 THEN More(i, seq[n]) ELSE seq[i]]
  <2>2. seq = [i \in 0..n |-> IF i = 0 THEN << >> ELSE More(i, seq[i - 1])]
    BY <1>0, <2>1
  <2>3. ASSUME NEW i \in 0..(n + 1)
        PROVE  more[i] = IF i = 0 THEN << >> ELSE More(i, more[i - 1])
    <3>1. CASE i = n + 1
      <4>1. i # 0 /\ i - 1 = n /\ n \in 0..(n + 1) /\ n # n + 1
        BY <3>1
      <4>2. more[n] = seq[n]
        BY <4>1
      <4> QED BY <3>1, <4>1, <4>2
    <3>2. CASE i \in 0..n
      <4>1. more[i] = seq[i]
        BY <3>2
      <4>2. i # 0 => i - 1 \in 0..n /\ i - 1 # n + 1 /\ i - 1 \in 0..(n + 1)
        BY <3>2
      <4>3. i # 0 => more[i - 1] = seq[i - 1]
        BY <4>2
      <4>4. seq[i] = IF i = 0 THEN << >> ELSE More(i, seq[i - 1])
        BY <2>2, <3>2
      <4> QED BY <4>1, <4>3, <4>4
    <3> QED BY <3>1, <3>2
  <2>4. Lists(more, n + 1)
    <3>1. more = [i \in 0..(n + 1) |-> more[i]]
      OBVIOUS
    <3> HIDE DEF more
    <3>2. more = [i \in 0..(n + 1) |-> IF i = 0 THEN << >> ELSE More(i, more[i - 1])]
      BY <2>3, <3>1
    <3> QED BY <1>0, <3>2
  <2> HIDE DEF more
  <2> QED BY <2>4
<1> HIDE DEF S
<1>3. m \in S
  BY <1>1, <1>2, Induction
<1> QED BY <1>3 DEF S

\* What a retry reads is active.
LEMMA LiveInOrderLive ==
  ASSUME tokens \in Seq(TokenRows)
  PROVE  LiveInOrder \in Seq(Live(tokens))
<1> DEFINE M == Len(tokens)
           seq == CHOOSE seq : Lists(seq, M)
           A == Live(tokens)
<1>0. M \in Nat /\ DOMAIN tokens = 1..M
  OBVIOUS
<1>1. Lists(seq, M)
  BY <1>0, ListsExist
<1>2. LiveInOrder = seq[M]
  BY DEF LiveInOrder, Lists
<1> HIDE DEF seq, M
<1>3. /\ seq[0] = << >>
      /\ \A n \in 1..M : seq[n] = IF tokens[n].live THEN Append(seq[n - 1], n) ELSE seq[n - 1]
  <2> DEFINE More(k, list) == IF tokens[k].live THEN Append(list, k) ELSE list
  <2>1. seq = [k \in 0..M |-> IF k = 0 THEN << >> ELSE More(k, seq[k - 1])]
    BY <1>1 DEF Lists
  <2> HIDE DEF More
  <2>2. seq[0] = << >> /\ \A n \in 1..M : seq[n] = More(n, seq[n - 1])
    BY <1>0, <2>1
  <2> QED BY <2>2 DEF More
<1> DEFINE S == {n \in Nat : n <= M => seq[n] \in Seq(A)}
<1>9. \A n \in 1..M : tokens[n].live => n \in A
  BY <1>0 DEF Live
<1> HIDE DEF A
<1>4. 0 \in S
  <2>1. seq[0] \in Seq(A)
    BY <1>3
  <2> QED BY <2>1
<1>5. ASSUME NEW n \in Nat, n \in S
      PROVE  n + 1 \in S
  <2> SUFFICES ASSUME n + 1 <= M PROVE seq[n + 1] \in Seq(A)
    OBVIOUS
  <2>1. n + 1 \in 1..M /\ (n + 1) - 1 = n /\ n <= M
    BY <1>0
  <2>2. seq[n] \in Seq(A)
    BY <1>5, <2>1
  <2>3. CASE tokens[n + 1].live
    <3>1. n + 1 \in A
      BY <1>9, <2>1, <2>3
    <3>2. Append(seq[n], n + 1) \in Seq(A)
      BY <2>2, <3>1
    <3> QED BY <1>3, <2>1, <2>3, <3>2
  <2>4. CASE ~tokens[n + 1].live
    BY <1>3, <2>1, <2>2, <2>4
  <2> QED BY <2>3, <2>4
<1> HIDE DEF S
<1>6. \A n \in Nat : n \in S
  BY <1>4, <1>5, Induction
<1>7. seq[M] \in Seq(A)
  BY <1>0, <1>6 DEF S
<1> QED BY <1>2, <1>7 DEF A

\* And is there.
LEMMA LiveInOrderTyped ==
  ASSUME tokens \in Seq(TokenRows)
  PROVE  LiveInOrder \in Seq(DOMAIN tokens)
<1>1. LiveInOrder \in Seq(Live(tokens)) /\ Live(tokens) \subseteq DOMAIN tokens
  BY LiveInOrderLive DEF Live
<1> QED BY <1>1

-----------------------------------------------------------------------------
(* The invariant                                                           *)

\* What an open transaction holds on to, given the nodes N, the tokens T, the
\* tasks K, the timers M and the clocks C there are.
Fits(t, N, T, K, M, C) ==
  /\ t.op \in {"none", "finish", "retry", "fire"}
  /\ t.op = "finish" => t.task \in K /\ t.to \in N /\ t.parked \in T \cup {0}
  /\ t.op = "retry" => t.work \in Seq(T)
  /\ t.op = "fire" => /\ t.timer \in M /\ t.clock \in C
                      /\ t.timer.status = "scheduled" /\ t.timer.kind # "node"

\* Rows are well-formed, tasks single and timers apart.
RowsOK ==
  /\ def \in Definitions /\ inst \in Statuses \cup {"none"}
  /\ starter \in Users \cup {NoUser} /\ calm \in Nat
  /\ tokens \in Seq(TokenRows) /\ tasks \in Seq(TaskRows)
  /\ clocks \in Seq(ClockRows) /\ incidents \in Seq(IncidentRows)
  /\ timers \in SUBSET TimerRows /\ Apart(timers) /\ IsFiniteSet(timers)
  /\ Single(tasks)
  /\ \A c \in DOMAIN clocks : clocks[c].task \in DOMAIN tasks

\* Open transactions hold on to rows there are, and no two to the same timer.
TxOK ==
  /\ tx = [s \in Sessions |-> tx[s]]
  /\ \A s \in Sessions :
       Fits(tx[s], Nodes, DOMAIN tokens, DOMAIN tasks, timers, DOMAIN clocks)
  /\ \A r, s \in Sessions :
       r # s /\ tx[r].op = "fire" /\ tx[s].op = "fire" => tx[r].timer # tx[s].timer

WorkInv == RowsOK /\ TxOK /\ AlertsPerTimer

\* What every step does to the rows that transactions refer to.
Grown ==
  /\ DOMAIN tokens \subseteq DOMAIN tokens' /\ DOMAIN tasks \subseteq DOMAIN tasks'
  /\ RowsFit(tasks', timers', clocks')

\* The definition is never changed, nor are the types that depend on it.
LEMMA DefKept ==
  ASSUME def' = def
  PROVE  Nodes' = Nodes /\ TokenRows' = TokenRows /\ TaskRows' = TaskRows
         /\ TimerRows' = TimerRows
  BY DEF Nodes, TokenRows, TaskRows, TimerRows

\* The machine leads from a status to a status.
LEMMA ApplyTyped ==
  ASSUME NEW status \in Statuses \cup {"none"}, NEW action
  PROVE  Apply(status, action) \in Statuses \cup {"none"}
<1> DEFINE to == {m[3] : m \in {m \in Machine : m[1] = status /\ m[2] = action}}
<1>1. \A m \in Machine : m[3] \in Statuses
  BY DEF Machine, Statuses
<1>2. to \subseteq Statuses
  BY <1>1
<1>3. Apply(status, action) = IF to = {} THEN status ELSE CHOOSE t \in to : TRUE
  BY DEF Apply
<1> HIDE DEF to
<1> QED BY <1>2, <1>3

\* So does the drive.
LEMMA SettleTyped ==
  ASSUME NEW status \in Statuses \cup {"none"}, NEW e
  PROVE  Settle(status, e) \in Statuses \cup {"none"}
<1> DEFINE awake == IF status = "WAITING" THEN Apply(status, "unblock") ELSE status
<1>1. awake \in Statuses \cup {"none"}
  BY ApplyTyped
<1> HIDE DEF awake
<1>2. Settle(status, e) = IF e.cancelled THEN Apply(awake, "cancel")
                          ELSE IF Live(e.tokens) = {} THEN Apply(awake, "complete")
                          ELSE IF e.parked THEN Apply(awake, "block")
                          ELSE awake
  BY DEF Settle, awake
<1> QED BY <1>1, <1>2, ApplyTyped

\* A drive starts from rows in order.
LEMMA FreshDrivable ==
  ASSUME RowsOK, NEW work \in Seq(DOMAIN tokens)
  PROVE  Drivable(Fresh(work))
<1> DEFINE d == Fresh(work)
<1>1. /\ d.tokens = tokens /\ d.tasks = tasks /\ d.timers = timers /\ d.clocks = clocks
      /\ d.work = work
  BY DEF Fresh
<1>2. work \in Seq(Nat) /\ \A i \in DOMAIN work : work[i] \in DOMAIN tokens
  <2>1. DOMAIN tokens \subseteq Nat
    BY DEF RowsOK
  <2> QED BY <2>1
<1>3. d \in DriveRows
  BY <1>2 DEF Fresh, DriveRows, RowsOK
<1> HIDE DEF d
<1>4. RowsFit(tasks, timers, clocks)
  BY DEF RowsFit, RowsOK
<1>5. Drivable(d)
  BY <1>1, <1>2, <1>3, <1>4 DEF Drivable
<1> QED BY <1>5 DEF d

\* And leaves them so.
LEMMA DriveStands ==
  ASSUME RowsOK, NEW d, Drivable(d), NEW status \in Statuses \cup {"none"}, Drive(status, d)
  PROVE  /\ tokens' \in Seq(TokenRows) /\ tasks' \in Seq(TaskRows)
         /\ clocks' \in Seq(ClockRows) /\ incidents' \in Seq(IncidentRows)
         /\ timers' \in SUBSET TimerRows /\ inst' \in Statuses \cup {"none"} /\ Grown
<1>1. PICK e \in Loop(d) :
        /\ tokens' = e.tokens /\ tasks' = e.tasks /\ timers' = e.timers
        /\ clocks' = e.clocks /\ incidents' = e.incidents /\ inst' = Settle(status, e)
  BY DEF Drive
<1>2. def \in Definitions /\ Len(clocks) \in Nat
  BY DEF RowsOK
<1>3. Drivable(e)
  BY <1>2, LoopKeeps
<1>4. e \in DriveRows
  BY <1>3 DEF Drivable
<1>5. inst' \in Statuses \cup {"none"}
  BY <1>1, SettleTyped
<1>6. Grown
  BY <1>1, <1>3 DEF Drivable, Grown
<1>7. /\ e.tokens \in Seq(TokenRows) /\ e.tasks \in Seq(TaskRows) /\ e.timers \in SUBSET TimerRows
      /\ e.clocks \in Seq(ClockRows) /\ e.incidents \in Seq(IncidentRows)
  BY <1>4 DEF DriveRows
<1> QED BY <1>1, <1>5, <1>6, <1>7

\* A step that leaves timers and clocks leaves them in order.
LEMMA RowsFitSame ==
  ASSUME RowsOK, UNCHANGED <<timers, clocks>>, Single(tasks'),
         DOMAIN tokens \subseteq DOMAIN tokens', DOMAIN tasks \subseteq DOMAIN tasks'
  PROVE  Grown
<1>1. /\ Apart(timers) /\ IsFiniteSet(timers) /\ timers' = timers /\ clocks' = clocks
      /\ \A c \in DOMAIN clocks : clocks[c].task \in DOMAIN tasks
  BY DEF RowsOK
<1>2. RowsFit(tasks', timers, clocks)
  BY <1>1 DEF RowsFit
<1>3. RowsFit(tasks', timers', clocks')
  BY <1>1, <1>2
<1> QED BY <1>3 DEF Grown

\* Growth sends no alert.
LEMMA AlertsKept ==
  ASSUME AlertsPerTimer, Grown, timers' \in SUBSET TimerRows
  PROVE  AlertsPerTimer'
<1> SUFFICES ASSUME NEW kind \in {"sla_warn", "sla_breach"}
             PROVE  Cardinality({c \in DOMAIN clocks' : clocks'[c][Flag(kind)]})
                      <= Cardinality({t \in timers' : t.kind = kind /\ t.status = "fired"})
  BY DEF AlertsPerTimer
<1> DEFINE F == {c \in DOMAIN clocks : clocks[c][Flag(kind)]}
           T == {t \in timers : t.kind = kind /\ t.status = "fired"}
<1>1. Cardinality(F) <= Cardinality(T)
  BY DEF AlertsPerTimer
<1>2. RowsFit(tasks', timers', clocks')
  BY DEF Grown
<1>3. {t \in timers' : t.kind = kind /\ t.status = "fired"} = T
  BY <1>2 DEF RowsFit
<1>4. {c \in DOMAIN clocks' : clocks'[c][Flag(kind)]} = F
  <2>1. \A c \in DOMAIN clocks' : c \notin DOMAIN clocks => ~clocks'[c][Flag(kind)]
    BY <1>2 DEF RowsFit, Flag
  <2>2. \A c \in DOMAIN clocks : c \in DOMAIN clocks' /\ clocks'[c] = clocks[c]
    BY <1>2 DEF RowsFit
  <2> QED BY <2>1, <2>2
<1> QED BY <1>1, <1>3, <1>4

\* A step that lets the rows grow keeps them in order.
LEMMA GrownStands ==
  ASSUME WorkInv, def' = def, inst' \in Statuses \cup {"none"},
         starter' \in Users \cup {NoUser}, calm' \in Nat,
         tokens' \in Seq(TokenRows), tasks' \in Seq(TaskRows), clocks' \in Seq(ClockRows),
         incidents' \in Seq(IncidentRows), timers' \in SUBSET TimerRows, Grown
  PROVE  RowsOK' /\ AlertsPerTimer'
<1>1. AlertsPerTimer'
  BY AlertsKept DEF WorkInv
<1>2. /\ Single(tasks') /\ Apart(timers') /\ IsFiniteSet(timers')
      /\ \A c \in DOMAIN clocks' : clocks'[c].task \in DOMAIN tasks'
  BY DEF Grown, RowsFit
<1>3. RowsOK'
  BY <1>2, DefKept DEF RowsOK, WorkInv, Single, Apart, ClockRows, IncidentRows
<1> QED BY <1>1, <1>3

\* A transaction that is not touched still fits.
LEMMA FitsOn ==
  ASSUME NEW t, NEW N, NEW T, NEW K, NEW M, NEW C, NEW T2, NEW K2, NEW M2, NEW C2,
         Fits(t, N, T, K, M, C), T \subseteq T2, K \subseteq K2, C \subseteq C2,
         t.op = "fire" => t.timer \in M2
  PROVE  Fits(t, N, T2, K2, M2, C2)
<1>1. t.op = "retry" => t.work \in Seq(T2)
  BY DEF Fits
<1> QED BY <1>1 DEF Fits

\* A step that begins no transaction and ends none.
LEMMA TxQuiet ==
  ASSUME TxOK, def' = def, tx' = tx,
         DOMAIN tokens \subseteq DOMAIN tokens', DOMAIN tasks \subseteq DOMAIN tasks',
         DOMAIN clocks \subseteq DOMAIN clocks',
         \A s \in Sessions : tx[s].op = "fire" => tx[s].timer \in timers'
  PROVE  TxOK'
<1>1. ASSUME NEW s \in Sessions
      PROVE  Fits(tx[s], Nodes, DOMAIN tokens', DOMAIN tasks', timers', DOMAIN clocks')
  <2>1. Fits(tx[s], Nodes, DOMAIN tokens, DOMAIN tasks, timers, DOMAIN clocks)
    BY DEF TxOK
  <2> QED BY <2>1, FitsOn
<1>2. Nodes' = Nodes
  BY DefKept
<1> QED BY <1>1, <1>2 DEF TxOK

\* Transaction s becomes t: t fits the rows as they are then, no row that others
\* refer to is lost, and no other transaction fires the timer of t.
Becomes(s, t) ==
  /\ tx' = [tx EXCEPT ![s] = t]
  /\ Fits(t, Nodes, DOMAIN tokens', DOMAIN tasks', timers', DOMAIN clocks')
Remain ==
  /\ DOMAIN tokens \subseteq DOMAIN tokens' /\ DOMAIN tasks \subseteq DOMAIN tasks'
  /\ DOMAIN clocks \subseteq DOMAIN clocks' /\ def' = def
Alone(s, t) ==
  \A r \in Sessions : r # s /\ tx[r].op = "fire" =>
    tx[r].timer \in timers' /\ (t.op = "fire" => tx[r].timer # t.timer)

\* A step that begins or ends the transaction of one session.
LEMMA TxStands ==
  ASSUME TxOK, Remain, NEW s \in Sessions, NEW t, Becomes(s, t), Alone(s, t)
  PROVE  TxOK'
<1> USE DEF Remain, Becomes, Alone
<1>1. /\ tx' = [r \in Sessions |-> tx'[r]] /\ tx'[s] = t
      /\ \A r \in Sessions : r # s => tx'[r] = tx[r]
  BY DEF TxOK
<1>2. ASSUME NEW r \in Sessions
      PROVE  Fits(tx'[r], Nodes, DOMAIN tokens', DOMAIN tasks', timers', DOMAIN clocks')
  <2>1. CASE r = s
    BY <1>1, <2>1
  <2>2. CASE r # s
    <3>1. Fits(tx[r], Nodes, DOMAIN tokens, DOMAIN tasks, timers, DOMAIN clocks)
      BY DEF TxOK
    <3>2. Fits(tx[r], Nodes, DOMAIN tokens', DOMAIN tasks', timers', DOMAIN clocks')
      BY <2>2, <3>1, FitsOn
    <3> QED BY <1>1, <2>2, <3>2
  <2> QED BY <2>1, <2>2
<1>3. ASSUME NEW r \in Sessions, NEW q \in Sessions, r # q,
             tx'[r].op = "fire", tx'[q].op = "fire"
      PROVE  tx'[r].timer # tx'[q].timer
  <2>1. CASE r = s
    BY <1>1, <1>3, <2>1
  <2>2. CASE q = s
    BY <1>1, <1>3, <2>2
  <2>3. CASE r # s /\ q # s
    BY <1>1, <1>3, <2>3 DEF TxOK
  <2> QED BY <2>1, <2>2, <2>3
<1>4. Nodes' = Nodes
  BY DefKept
<1> QED BY <1>1, <1>2, <1>3, <1>4 DEF TxOK

\* A transaction that is closed holds on to nothing.
LEMMA ClosedFits ==
  ASSUME NEW N, NEW T, NEW K, NEW M, NEW C
  PROVE  Fits(Closed, N, T, K, M, C) /\ Closed.op = "none"
  BY DEF Fits, Closed

-----------------------------------------------------------------------------
(* The steps                                                               *)

\* The first state.
LEMMA InitStands == Init => WorkInv
<1> SUFFICES ASSUME Init PROVE WorkInv
  OBVIOUS
<1>1. calm \in Nat
  BY BoundsAssumption DEF Init
<1>2. IsFiniteSet(timers)
  BY FS_EmptySet DEF Init
<1>3. DOMAIN tasks = {} /\ DOMAIN clocks = {}
  BY DEF Init
<1>4. Single(tasks) /\ Apart(timers)
  BY <1>3 DEF Init, Single, Apart
<1>5. RowsOK
  BY <1>1, <1>2, <1>3, <1>4 DEF Init, RowsOK
<1>6. TxOK
  <2>1. \A s \in Sessions : tx[s] = Closed
    BY DEF Init
  <2> QED BY <2>1, ClosedFits DEF Init, TxOK
<1>7. AlertsPerTimer
  <2> SUFFICES ASSUME NEW kind \in {"sla_warn", "sla_breach"}
               PROVE  Cardinality({c \in DOMAIN clocks : clocks[c][Flag(kind)]})
                        <= Cardinality({t \in timers : t.kind = kind /\ t.status = "fired"})
    BY DEF AlertsPerTimer
  <2>1. {c \in DOMAIN clocks : clocks[c][Flag(kind)]} = {}
    BY <1>3
  <2>2. {t \in timers : t.kind = kind /\ t.status = "fired"} = {}
    BY DEF Init
  <2>3. Cardinality({}) = 0
    BY FS_EmptySet
  <2>4. /\ Cardinality({c \in DOMAIN clocks : clocks[c][Flag(kind)]}) = 0
        /\ Cardinality({t \in timers : t.kind = kind /\ t.status = "fired"}) = 0
    BY <2>1, <2>2, <2>3, Zenon
  <2> QED BY <2>4
<1> QED BY <1>5, <1>6, <1>7 DEF WorkInv

\* Timers of open transactions, when none goes away.
LEMMA TimersHeld ==
  ASSUME TxOK, timers \subseteq timers'
  PROVE  \A s \in Sessions : tx[s].op = "fire" => tx[s].timer \in timers'
  BY DEF TxOK, Fits

\* What growth means for transactions.
LEMMA GrownDomains ==
  ASSUME Grown
  PROVE  /\ DOMAIN tokens \subseteq DOMAIN tokens' /\ DOMAIN tasks \subseteq DOMAIN tasks'
         /\ DOMAIN clocks \subseteq DOMAIN clocks' /\ timers \subseteq timers'
  BY DEF Grown, RowsFit

\* Swapping one task in place.
LEMMA TaskSwapped ==
  ASSUME RowsOK, UNCHANGED <<def, tokens, timers, clocks>>, NEW k \in DOMAIN tasks,
         NEW row \in TaskRows, tasks' = [tasks EXCEPT ![k] = row],
         row.node = tasks[k].node, IsOpen(row) => IsOpen(tasks[k])
  PROVE  tasks' \in Seq(TaskRows) /\ Grown
<1>1. /\ tasks' \in Seq(TaskRows) /\ DOMAIN tasks' = DOMAIN tasks
      /\ tasks'[k] = row /\ \A m \in DOMAIN tasks : m # k => tasks'[m] = tasks[m]
  BY DEF RowsOK
<1>2. Single(tasks')
  BY <1>1 DEF Single, RowsOK
<1>3. DOMAIN tokens \subseteq DOMAIN tokens' /\ UNCHANGED <<timers, clocks>>
  OBVIOUS
<1>4. Grown
  BY <1>1, <1>2, <1>3, RowsFitSame
<1> QED BY <1>1, <1>4

\* A step that lets the rows grow and touches no transaction.
LEMMA RowsStep ==
  ASSUME WorkInv, def' = def, tx' = tx, inst' \in Statuses \cup {"none"},
         starter' \in Users \cup {NoUser}, calm' \in Nat,
         tokens' \in Seq(TokenRows), tasks' \in Seq(TaskRows), clocks' \in Seq(ClockRows),
         incidents' \in Seq(IncidentRows), timers' \in SUBSET TimerRows, Grown
  PROVE  WorkInv'
<1>1. RowsOK' /\ AlertsPerTimer'
  BY GrownStands
<1>2. TxOK'
  BY GrownDomains, TimersHeld, TxQuiet DEF WorkInv
<1> QED BY <1>1, <1>2 DEF WorkInv

\* A step that lets the rows grow and closes a transaction.
LEMMA CloseStep ==
  ASSUME WorkInv, def' = def, NEW s \in Sessions, Close(s), inst' \in Statuses \cup {"none"},
         starter' \in Users \cup {NoUser}, calm' \in Nat,
         tokens' \in Seq(TokenRows), tasks' \in Seq(TaskRows), clocks' \in Seq(ClockRows),
         incidents' \in Seq(IncidentRows), timers' \in SUBSET TimerRows, Grown
  PROVE  WorkInv'
<1>1. RowsOK' /\ AlertsPerTimer'
  BY GrownStands
<1>2. TxOK'
  <2>1. tx' = [tx EXCEPT ![s] = Closed]
    BY DEF Close
  <2>2. Fits(Closed, Nodes, DOMAIN tokens', DOMAIN tasks', timers', DOMAIN clocks')
        /\ Closed.op = "none"
    BY ClosedFits
  <2>3. TxOK /\ \A r \in Sessions : tx[r].op = "fire" => tx[r].timer \in timers'
    BY GrownDomains, TimersHeld DEF WorkInv
  <2> QED BY <2>1, <2>2, <2>3, GrownDomains, TxStands DEF Remain, Becomes, Alone
<1> QED BY <1>1, <1>2 DEF WorkInv

\* A step that leaves the rows and begins a transaction.
LEMMA BeginStep ==
  ASSUME WorkInv, NEW s \in Sessions, NEW t, tx' = [tx EXCEPT ![s] = t],
         UNCHANGED <<def, inst, starter, tokens, tasks, timers, clocks, incidents>>,
         calm' \in Nat,
         Fits(t, Nodes, DOMAIN tokens, DOMAIN tasks, timers, DOMAIN clocks),
         \A r \in Sessions : r # s /\ tx[r].op = "fire" => (t.op = "fire" => tx[r].timer # t.timer)
  PROVE  WorkInv'
<1>1. RowsOK /\ TxOK /\ AlertsPerTimer
  BY DEF WorkInv
<1>2. Grown
  BY <1>1, RowsFitSame DEF RowsOK
<1>3. RowsOK' /\ AlertsPerTimer'
  <2>1. /\ tokens \in Seq(TokenRows) /\ tasks \in Seq(TaskRows) /\ clocks \in Seq(ClockRows)
        /\ incidents \in Seq(IncidentRows) /\ timers \in SUBSET TimerRows
        /\ inst \in Statuses \cup {"none"} /\ starter \in Users \cup {NoUser}
    BY <1>1 DEF RowsOK
  <2> QED BY <1>2, <2>1, GrownStands
<1>4. \A r \in Sessions : tx[r].op = "fire" => tx[r].timer \in timers'
  BY <1>1, TimersHeld
<1>5. TxOK'
  <2>1. TxOK /\ Becomes(s, t)
    BY <1>1 DEF Becomes
  <2>2. Alone(s, t)
    BY <1>4 DEF Alone
  <2>3. Remain
    BY DEF Remain
  <2> QED BY <2>1, <2>2, <2>3, TxStands
<1> QED BY <1>3, <1>5 DEF WorkInv

\* The start drives a single token.
LEMMA StartKeeps ==
  ASSUME WorkInv, NEW u \in Starters, Start(u)
  PROVE  WorkInv'
<1> DEFINE d == Advance(Fresh(<< >>), <<def.start>>)
           status == Apply("CREATED", "start")
<1>1. RowsOK
  BY DEF WorkInv
<1>2. << >> \in Seq(DOMAIN tokens) /\ <<def.start>> \in Seq(Nodes)
  BY <1>1, Graph DEF RowsOK
<1>3. Drivable(d)
  BY <1>1, <1>2, FreshDrivable, AdvanceKeeps
<1>4. status \in Statuses \cup {"none"}
  BY ApplyTyped DEF Statuses
<1>5. Drive(status, d) /\ def' = def /\ tx' = tx /\ calm' = calm /\ starter' = u
  BY DEF Start
<1> HIDE DEF d, status
<1>6. calm \in Nat /\ u \in Users
  BY <1>1, PeopleAssumption DEF RowsOK
<1> QED BY <1>1, <1>3, <1>4, <1>5, <1>6, DriveStands, RowsStep

\* Operations that swap one task.
LEMMA TaskKeeps ==
  ASSUME WorkInv, NEW k \in DOMAIN tasks,
         (\E u \in Users : Claim(u, k)) \/ Reassign(k) \/ Escalate(k)
  PROVE  WorkInv'
<1> DEFINE new == Append(incidents, [code |-> "TASK_ESCALATED", open |-> TRUE])
<1>1. RowsOK
  BY DEF WorkInv
<1>2. tasks[k] \in TaskRows
  BY <1>1 DEF RowsOK
<1>3. PICK row \in TaskRows : /\ tasks' = [tasks EXCEPT ![k] = row] /\ row.node = tasks[k].node
                              /\ IsOpen(row) => IsOpen(tasks[k])
  <2>1. CASE \E u \in Users : Claim(u, k)
    <3>0. PICK u \in Users : Claim(u, k)
      BY <2>1
    <3> DEFINE row == [tasks[k] EXCEPT !.status = "CLAIMED", !.claimedBy = u]
    <3>1. row \in TaskRows /\ row.node = tasks[k].node
      BY <1>2 DEF TaskRows
    <3>2. tasks' = [tasks EXCEPT ![k] = row] /\ IsOpen(tasks[k])
      BY <3>0 DEF Claim, IsOpen, OpenTask
    <3> QED BY <3>1, <3>2
  <2>2. CASE Reassign(k)
    <3> DEFINE row == [tasks[k] EXCEPT !.status = "AVAILABLE", !.claimedBy = NoUser]
    <3>1. row \in TaskRows /\ row.node = tasks[k].node
      BY <1>2 DEF TaskRows
    <3>2. tasks' = [tasks EXCEPT ![k] = row] /\ IsOpen(tasks[k])
      BY <2>2 DEF Reassign
    <3> QED BY <3>1, <3>2
  <2>3. CASE Escalate(k)
    <3> DEFINE row == [tasks[k] EXCEPT !.status = "ESCALATED"]
    <3>1. row \in TaskRows /\ row.node = tasks[k].node
      BY <1>2 DEF TaskRows
    <3>2. tasks' = [tasks EXCEPT ![k] = row] /\ IsOpen(tasks[k])
      BY <2>3 DEF Escalate
    <3> QED BY <3>1, <3>2
  <2> QED BY <2>1, <2>2, <2>3
<1>4. /\ UNCHANGED <<def, tokens, timers, clocks, inst, starter, tx>>
      /\ calm' \in Nat
      /\ incidents' \in Seq(IncidentRows)
  <2>1. calm \in Nat /\ incidents \in Seq(IncidentRows)
    BY <1>1 DEF RowsOK
  <2>2. [code |-> "TASK_ESCALATED", open |-> TRUE] \in IncidentRows
    BY DEF IncidentRows
  <2>3. new \in Seq(IncidentRows)
    BY <2>1, <2>2
  <2> HIDE DEF new
  <2>4. calm' \in {calm, calm - 1} /\ (calm' = calm - 1 => calm > 0)
    <3>1. calm' = calm \/ (calm > 0 /\ calm' = calm - 1)
      BY DEF Claim, Reassign, Escalate, Disturb
    <3> QED BY <2>1, <3>1
  <2>5. incidents' \in {incidents, new}
    BY DEF Claim, Reassign, Escalate, new
  <2>6. UNCHANGED <<def, tokens, timers, clocks, inst, starter, tx>>
    BY DEF Claim, Reassign, Escalate
  <2> QED BY <2>1, <2>3, <2>4, <2>5, <2>6
<1>5. tasks' \in Seq(TaskRows) /\ Grown
  BY <1>1, <1>3, <1>4, TaskSwapped
<1>6. /\ tokens \in Seq(TokenRows) /\ clocks \in Seq(ClockRows) /\ timers \in SUBSET TimerRows
      /\ inst \in Statuses \cup {"none"} /\ starter \in Users \cup {NoUser}
  BY <1>1 DEF RowsOK
<1> QED BY <1>4, <1>5, <1>6, RowsStep

\* The administrator and incidents.
LEMMA AdminKeeps ==
  ASSUME WorkInv, Suspend \/ Resume \/ Cancel \/ \E k \in DOMAIN incidents : ResolveIncident(k)
  PROVE  WorkInv'
<1>1. RowsOK
  BY DEF WorkInv
<1>2. /\ tokens \in Seq(TokenRows) /\ tasks \in Seq(TaskRows) /\ clocks \in Seq(ClockRows)
      /\ incidents \in Seq(IncidentRows) /\ timers \in SUBSET TimerRows /\ Single(tasks)
      /\ inst \in Statuses \cup {"none"} /\ starter \in Users \cup {NoUser} /\ calm \in Nat
  BY <1>1 DEF RowsOK
<1>3. UNCHANGED <<def, starter, tokens, tasks, timers, clocks, tx>>
  BY DEF Suspend, Resume, Cancel, Administer, ResolveIncident
<1>4. Grown
  BY <1>1, <1>2, <1>3, RowsFitSame
<1>5. inst' \in Statuses \cup {"none"} /\ calm' \in Nat /\ incidents' \in Seq(IncidentRows)
  <2>1. CASE Suspend \/ Resume \/ Cancel
    <3>1. PICK action \in {"suspend", "resume", "cancel"} : Administer(action)
      BY <2>1 DEF Suspend, Resume, Cancel
    <3>2. inst \in Statuses /\ inst' = Apply(inst, action) /\ incidents' = incidents
      BY <1>2, <3>1 DEF Administer
    <3>3. calm' \in Nat
      BY <1>2, <2>1 DEF Suspend, Resume, Cancel, Disturb
    <3> QED BY <1>2, <3>2, <3>3, ApplyTyped
  <2>2. CASE \E k \in DOMAIN incidents : ResolveIncident(k)
    <3>1. PICK k \in DOMAIN incidents : ResolveIncident(k)
      BY <2>2
    <3> DEFINE row == [incidents[k] EXCEPT !.open = FALSE]
    <3>2. incidents[k] \in IncidentRows
      BY <1>2
    <3>3. row \in IncidentRows
      BY <3>2 DEF IncidentRows
    <3>4. incidents' = [incidents EXCEPT ![k] = row] /\ inst' = inst /\ calm' = calm
      BY <3>1 DEF ResolveIncident
    <3> HIDE DEF row
    <3> QED BY <1>2, <3>3, <3>4
  <2> QED BY <2>1, <2>2
<1> QED BY <1>2, <1>3, <1>4, <1>5, RowsStep

\* Finishing a task begins with rows there are.
LEMMA BeginFinishKeeps ==
  ASSUME WorkInv, NEW s \in Sessions, NEW u \in Users, Finish(s, u)
  PROVE  WorkInv'
<1>1. RowsOK
  BY DEF WorkInv
<1>2. PICK k \in DOMAIN tasks : \E edge \in DOMAIN def.out[tasks[k].node] : BeginFinish(s, u, k, edge)
  BY DEF Finish
<1>3. PICK edge \in DOMAIN def.out[tasks[k].node] : BeginFinish(s, u, k, edge)
  BY <1>2
<1> DEFINE n == tasks[k].node
           here == {i \in Live(tokens) : tokens[i].node = n}
           row(i) == [op |-> "finish", task |-> k, parked |-> i, to |-> def.out[n][edge]]
<1>4. /\ UNCHANGED <<def, inst, starter, tokens, tasks, timers, clocks, incidents>>
      /\ \E i \in (IF here = {} THEN {0} ELSE here) : tx' = [tx EXCEPT ![s] = row(i)]
      /\ IF edge = def.take[n] THEN UNCHANGED calm ELSE Disturb
  BY <1>3 DEF BeginFinish
<1>5. PICK i \in (IF here = {} THEN {0} ELSE here) : tx' = [tx EXCEPT ![s] = row(i)]
  BY <1>4
<1>6. i \in DOMAIN tokens \cup {0}
  BY <1>5 DEF Live
<1>7. n \in Nodes
  <2>1. tasks[k] \in TaskRows
    BY <1>1 DEF RowsOK
  <2> QED BY <2>1 DEF TaskRows
<1>8. def.out[n][edge] \in Nodes
  <2>1. def.out[n] \in Seq(Nodes)
    BY <1>1, <1>7, Graph DEF RowsOK
  <2> QED BY <1>3, <2>1
<1>9. calm' \in Nat
  BY <1>1, <1>4 DEF RowsOK, Disturb
<1> DEFINE t == row(i)
<1>10. t.op = "finish" /\ t.task = k /\ t.parked = i /\ t.to = def.out[n][edge]
  OBVIOUS
<1>11. tx' = [tx EXCEPT ![s] = t]
  BY <1>5
<1> HIDE DEF t
<1>12. Fits(t, Nodes, DOMAIN tokens, DOMAIN tasks, timers, DOMAIN clocks)
  BY <1>6, <1>8, <1>10 DEF Fits
<1>13. \A r \in Sessions : r # s /\ tx[r].op = "fire" => (t.op = "fire" => tx[r].timer # t.timer)
  BY <1>10
<1> QED BY <1>4, <1>9, <1>11, <1>12, <1>13, BeginStep, ZenonT(60)

\* A retry begins with the tokens that are active.
LEMMA BeginRetryKeeps ==
  ASSUME WorkInv, NEW s \in Sessions, BeginRetry(s)
  PROVE  WorkInv'
<1> DEFINE t == [op |-> "retry", work |-> LiveInOrder]
<1>1. RowsOK
  BY DEF WorkInv
<1>2. LiveInOrder \in Seq(DOMAIN tokens)
  BY <1>1, LiveInOrderTyped DEF RowsOK
<1>3. /\ UNCHANGED <<def, inst, starter, tokens, tasks, timers, clocks, incidents>>
      /\ tx' = [tx EXCEPT ![s] = t] /\ calm' = calm
  BY DEF BeginRetry
<1>4. t.op = "retry" /\ t.work = LiveInOrder
  OBVIOUS
<1> HIDE DEF t
<1>5. Fits(t, Nodes, DOMAIN tokens, DOMAIN tasks, timers, DOMAIN clocks)
  BY <1>2, <1>4 DEF Fits
<1>6. \A r \in Sessions : r # s /\ tx[r].op = "fire" => (t.op = "fire" => tx[r].timer # t.timer)
  BY <1>4
<1>7. calm' \in Nat
  BY <1>1, <1>3 DEF RowsOK
<1> QED BY <1>3, <1>5, <1>6, <1>7, BeginStep, ZenonT(60)

\* A timer is held by one transaction at a time.
LEMMA BeginFireKeeps ==
  ASSUME WorkInv, NEW s \in Sessions, NEW timer \in timers, BeginFire(s, timer)
  PROVE  WorkInv'
<1>1. RowsOK
  BY DEF WorkInv
<1>2. PICK c \in Newest :
        tx' = [tx EXCEPT ![s] = [op |-> "fire", timer |-> timer, clock |-> c, row |-> clocks[c]]]
  BY DEF BeginFire
<1> DEFINE t == [op |-> "fire", timer |-> timer, clock |-> c, row |-> clocks[c]]
<1>3. /\ UNCHANGED <<def, inst, starter, tokens, tasks, timers, clocks, incidents>>
      /\ calm' = calm /\ timer.status = "scheduled" /\ timer.kind # "node"
      /\ \A r \in Sessions : tx[r].op = "fire" => tx[r].timer # timer
  BY DEF BeginFire
<1>4. t.op = "fire" /\ t.timer = timer /\ t.clock = c /\ tx' = [tx EXCEPT ![s] = t]
  BY <1>2
<1> HIDE DEF t
<1>5. c \in DOMAIN clocks
  BY <1>2 DEF Newest
<1>6. Fits(t, Nodes, DOMAIN tokens, DOMAIN tasks, timers, DOMAIN clocks)
  BY <1>3, <1>4, <1>5 DEF Fits
<1>7. \A r \in Sessions : r # s /\ tx[r].op = "fire" => (t.op = "fire" => tx[r].timer # t.timer)
  BY <1>3, <1>4
<1>8. calm' \in Nat
  BY <1>1, <1>3 DEF RowsOK
<1> QED BY <1>3, <1>4, <1>6, <1>7, <1>8, BeginStep

\* A rollback leaves nothing behind.
LEMMA RollbackKeeps ==
  ASSUME WorkInv, NEW s \in Sessions, Rollback(s)
  PROVE  WorkInv'
<1>1. RowsOK
  BY DEF WorkInv
<1>2. /\ tokens \in Seq(TokenRows) /\ tasks \in Seq(TaskRows) /\ clocks \in Seq(ClockRows)
      /\ incidents \in Seq(IncidentRows) /\ timers \in SUBSET TimerRows /\ Single(tasks)
      /\ inst \in Statuses \cup {"none"} /\ starter \in Users \cup {NoUser} /\ calm \in Nat
  BY <1>1 DEF RowsOK
<1>3. UNCHANGED <<def, inst, starter, tokens, tasks, timers, clocks, incidents, calm>> /\ Close(s)
  BY DEF Rollback
<1>4. Grown
  BY <1>1, <1>2, <1>3, RowsFitSame
<1> QED BY <1>2, <1>3, <1>4, CloseStep

\* A retry drives the tokens it read.
LEMMA CommitRetryKeeps ==
  ASSUME WorkInv, NEW s \in Sessions, CommitRetry(s)
  PROVE  WorkInv'
<1> DEFINE d == Fresh(tx[s].work)
<1>1. RowsOK /\ TxOK
  BY DEF WorkInv
<1>2. /\ Drive(inst, d) /\ Close(s) /\ UNCHANGED <<def, starter, calm>> /\ tx[s].op = "retry"
  BY DEF CommitRetry
<1>3. tx[s].work \in Seq(DOMAIN tokens)
  BY <1>1, <1>2 DEF TxOK, Fits
<1>4. Drivable(d)
  BY <1>1, <1>3, FreshDrivable
<1> HIDE DEF d
<1>5. starter \in Users \cup {NoUser} /\ calm \in Nat /\ inst \in Statuses \cup {"none"}
  BY <1>1 DEF RowsOK
<1> QED BY <1>1, <1>2, <1>4, <1>5, DriveStands, CloseStep

\* Finishing drives the token that was parked, behind a task that is no longer open.
LEMMA CommitFinishKeeps ==
  ASSUME WorkInv, NEW s \in Sessions, CommitFinish(s)
  PROVE  WorkInv'
<1> DEFINE t == tx[s]
           base == Fresh(<< >>)
           done == [base EXCEPT !.tasks[t.task].status = "FINISHED"]
           row == [tasks[t.task] EXCEPT !.status = "FINISHED"]
           ks == [tasks EXCEPT ![t.task] = row]
<1>1. RowsOK /\ TxOK
  BY DEF WorkInv
<1>2. /\ t.op = "finish" /\ Close(s) /\ UNCHANGED <<def, starter, calm>>
      /\ IF t.parked = 0
         THEN tasks' = done.tasks /\ UNCHANGED <<inst, tokens, timers, clocks, incidents>>
         ELSE Drive(inst, Advance(Consume(done, t.parked), <<t.to>>))
  BY DEF CommitFinish
<1>3. t.task \in DOMAIN tasks /\ t.to \in Nodes /\ t.parked \in DOMAIN tokens \cup {0}
  BY <1>1, <1>2 DEF TxOK, Fits
<1> HIDE DEF t
<1>4. tasks[t.task] \in TaskRows /\ tasks \in Seq(TaskRows)
  BY <1>1, <1>3 DEF RowsOK
<1>5. row \in TaskRows /\ row.node = tasks[t.task].node /\ ~IsOpen(row)
  BY <1>4 DEF TaskRows, IsOpen, OpenTask
<1>6. /\ base \in DriveRows /\ base.tasks = tasks /\ base.timers = timers
      /\ base.clocks = clocks /\ base.tokens = tokens /\ Drivable(base)
      /\ base.work = << >>
  <2>1. << >> \in Seq(DOMAIN tokens)
    OBVIOUS
  <2>2. Drivable(base)
    BY <1>1, <2>1, FreshDrivable
  <2> QED BY <2>2 DEF Drivable, Fresh
<1>7. done = [base EXCEPT !.tasks = ks]
  BY <1>6
<1> HIDE DEF row, base, done
<1>8. /\ ks \in Seq(TaskRows) /\ DOMAIN ks = DOMAIN tasks /\ ks[t.task] = row
      /\ \A m \in DOMAIN tasks : m # t.task => ks[m] = tasks[m]
  BY <1>3, <1>4, <1>5
<1> HIDE DEF ks
<1>9. /\ done \in DriveRows /\ done.tasks = ks /\ done.timers = timers /\ done.clocks = clocks
      /\ done.tokens = tokens /\ done.work = << >>
  BY <1>6, <1>7, <1>8 DEF DriveRows
<1>10. Single(ks)
  BY <1>1, <1>5, <1>8 DEF Single, RowsOK
<1>11. RowsFit(ks, timers, clocks)
  BY <1>1, <1>8, <1>10 DEF RowsFit, RowsOK
<1>12. Drivable(done)
  BY <1>8, <1>9, <1>11 DEF Drivable
<1>13. /\ tokens \in Seq(TokenRows) /\ clocks \in Seq(ClockRows) /\ incidents \in Seq(IncidentRows)
       /\ timers \in SUBSET TimerRows /\ inst \in Statuses \cup {"none"}
       /\ starter \in Users \cup {NoUser} /\ calm \in Nat
  BY <1>1 DEF RowsOK
<1>14. CASE t.parked = 0
  <2>1. tasks' = ks /\ UNCHANGED <<inst, tokens, timers, clocks, incidents>>
    BY <1>2, <1>9, <1>14
  <2>2. /\ Single(tasks') /\ DOMAIN tokens \subseteq DOMAIN tokens'
        /\ DOMAIN tasks \subseteq DOMAIN tasks' /\ UNCHANGED <<timers, clocks>>
    BY <1>8, <1>10, <2>1
  <2>3. Grown
    BY <1>1, <2>2, RowsFitSame
  <2> QED BY <1>2, <1>8, <1>13, <2>1, <2>3, CloseStep
<1>15. CASE t.parked # 0
  <2> DEFINE d == Advance(Consume(done, t.parked), <<t.to>>)
  <2>1. Drivable(Consume(done, t.parked)) /\ <<t.to>> \in Seq(Nodes)
    BY <1>3, <1>9, <1>12, <1>15, FieldOpsKeep
  <2>2. Drivable(d)
    BY <2>1, AdvanceKeeps
  <2>3. Drive(inst, d)
    BY <1>2, <1>15
  <2> HIDE DEF d
  <2> QED BY <1>1, <1>2, <1>13, <2>2, <2>3, DriveStands, CloseStep
<1> QED BY <1>14, <1>15

\* Firing marks one timer.
LEMMA FiredFits ==
  ASSUME RowsOK, NEW t \in timers, t.status = "scheduled"
  PROVE  /\ Fired(t) \in SUBSET TimerRows /\ Apart(Fired(t)) /\ IsFiniteSet(Fired(t))
         /\ \A x \in timers : x # t => x \in Fired(t)
         /\ \A kind \in {"sla_warn", "sla_breach"} :
              LET T == {x \in timers : x.kind = kind /\ x.status = "fired"}
                  T2 == {x \in Fired(t) : x.kind = kind /\ x.status = "fired"}
              IN  /\ t.kind # kind => T2 = T
                  /\ t.kind = kind => \E x : x \notin T /\ T2 = T \cup {x}
<1> DEFINE f == [t EXCEPT !.status = "fired"]
<1>1. t \in TimerRows /\ timers \in SUBSET TimerRows /\ Apart(timers) /\ IsFiniteSet(timers)
  BY DEF RowsOK
<1>2. f \in TimerRows /\ f.kind = t.kind /\ f.owner = t.owner /\ f.status = "fired"
  BY <1>1 DEF TimerRows
<1>3. Fired(t) = (timers \ {t}) \cup {f}
  BY DEF Fired
<1> HIDE DEF f
<1>4. f \notin timers
  BY <1>1, <1>2 DEF Apart
<1>5. Apart(Fired(t))
  BY <1>1, <1>2, <1>3 DEF Apart
<1>6. IsFiniteSet(Fired(t))
  <2>1. IsFiniteSet(timers \ {t})
    BY <1>1, FS_Subset
  <2> QED BY <1>3, <2>1, FS_AddElement
<1>7. ASSUME NEW kind \in {"sla_warn", "sla_breach"}
      PROVE  LET T == {x \in timers : x.kind = kind /\ x.status = "fired"}
                 T2 == {x \in Fired(t) : x.kind = kind /\ x.status = "fired"}
             IN  /\ t.kind # kind => T2 = T
                 /\ t.kind = kind => \E x : x \notin T /\ T2 = T \cup {x}
  <2> DEFINE T == {x \in timers : x.kind = kind /\ x.status = "fired"}
             T2 == {x \in Fired(t) : x.kind = kind /\ x.status = "fired"}
  <2>1. t.kind # kind => T2 = T
    BY <1>2, <1>3
  <2>2. t.kind = kind => f \notin T /\ T2 = T \cup {f}
    BY <1>2, <1>3, <1>4
  <2> QED BY <2>1, <2>2
<1> QED BY <1>1, <1>2, <1>3, <1>5, <1>6, <1>7

\* The timer of a node is marked, and no transaction holds it.
LEMMA NodeTimerFires ==
  ASSUME WorkInv, NEW t \in timers, FireNodeTimer(t)
  PROVE  WorkInv'
<1>1. RowsOK /\ TxOK /\ AlertsPerTimer
  BY DEF WorkInv
<1>2. /\ t.kind = "node" /\ t.status = "scheduled" /\ timers' = Fired(t)
      /\ UNCHANGED <<def, inst, starter, tokens, tasks, clocks, incidents, tx, calm>>
  BY DEF FireNodeTimer
<1>3. /\ timers' \in SUBSET TimerRows /\ Apart(timers') /\ IsFiniteSet(timers')
      /\ \A x \in timers : x # t => x \in timers'
      /\ \A kind \in {"sla_warn", "sla_breach"} :
           {x \in timers' : x.kind = kind /\ x.status = "fired"}
             = {x \in timers : x.kind = kind /\ x.status = "fired"}
  BY <1>1, <1>2, FiredFits
<1>4. RowsOK'
  BY <1>1, <1>2, <1>3, DefKept DEF RowsOK, Single, Apart, ClockRows, IncidentRows
<1>5. \A s \in Sessions : tx[s].op = "fire" => tx[s].timer \in timers'
  BY <1>1, <1>2, <1>3 DEF TxOK, Fits
<1>6. /\ DOMAIN tokens \subseteq DOMAIN tokens' /\ DOMAIN tasks \subseteq DOMAIN tasks'
      /\ DOMAIN clocks \subseteq DOMAIN clocks' /\ def' = def /\ tx' = tx
  BY <1>2
<1>7. TxOK'
  BY <1>1, <1>5, <1>6, TxQuiet
<1>8. AlertsPerTimer'
  <2> SUFFICES ASSUME NEW kind \in {"sla_warn", "sla_breach"}
               PROVE  Cardinality({c \in DOMAIN clocks' : clocks'[c][Flag(kind)]})
                        <= Cardinality({x \in timers' : x.kind = kind /\ x.status = "fired"})
    BY DEF AlertsPerTimer
  <2>1. Cardinality({c \in DOMAIN clocks : clocks[c][Flag(kind)]})
          <= Cardinality({x \in timers : x.kind = kind /\ x.status = "fired"})
    BY <1>1 DEF AlertsPerTimer
  <2>2. clocks' = clocks
    BY <1>2
  <2> QED BY <1>3, <2>1, <2>2
<1> QED BY <1>4, <1>7, <1>8 DEF WorkInv

\* A warning or a breach sets at most one flag, for the timer that it fires.
LEMMA CommitFireKeeps ==
  ASSUME WorkInv, NEW s \in Sessions, CommitFire(s)
  PROVE  WorkInv'
<1> DEFINE t == tx[s]
           flag == Flag(t.timer.kind)
           row == [clocks[t.clock] EXCEPT ![flag] = TRUE]
           cs == [clocks EXCEPT ![t.clock] = row]
<1>1. RowsOK /\ TxOK /\ AlertsPerTimer
  BY DEF WorkInv
<1>2. /\ t.op = "fire" /\ Close(s) /\ timers' = Fired(t.timer) /\ clocks' \in {clocks, cs}
      /\ UNCHANGED <<def, inst, starter, tokens, tasks, incidents, calm>>
  BY DEF CommitFire
<1>3. /\ t.timer \in timers /\ t.clock \in DOMAIN clocks
      /\ t.timer.status = "scheduled" /\ t.timer.kind # "node"
  BY <1>1, <1>2 DEF TxOK, Fits
<1>4. \A r \in Sessions : r # s /\ tx[r].op = "fire" =>
        tx[r].timer \in timers /\ tx[r].timer # t.timer
  BY <1>1, <1>2 DEF TxOK, Fits
<1> HIDE DEF t
<1>5. t.timer \in TimerRows /\ clocks[t.clock] \in ClockRows /\ clocks \in Seq(ClockRows)
  BY <1>1, <1>3 DEF RowsOK
<1>6. t.timer.kind \in {"sla_warn", "sla_breach"}
  BY <1>3, <1>5 DEF TimerRows
<1>7. flag = (IF t.timer.kind = "sla_warn" THEN "warned" ELSE "breached")
  BY DEF Flag
<1>8. /\ row \in ClockRows /\ row.task = clocks[t.clock].task
      /\ \A kind \in {"sla_warn", "sla_breach"} :
           kind # t.timer.kind => row[Flag(kind)] = clocks[t.clock][Flag(kind)]
  <2>1. CASE t.timer.kind = "sla_warn"
    <3>1. row = [clocks[t.clock] EXCEPT !.warned = TRUE]
      BY <1>7, <2>1
    <3> HIDE DEF row
    <3> QED BY <1>5, <2>1, <3>1 DEF ClockRows, Flag
  <2>2. CASE t.timer.kind = "sla_breach"
    <3>1. row = [clocks[t.clock] EXCEPT !.breached = TRUE]
      BY <1>7, <2>2
    <3> HIDE DEF row
    <3> QED BY <1>5, <2>2, <3>1 DEF ClockRows, Flag
  <2> QED BY <1>6, <2>1, <2>2
<1> HIDE DEF row
<1>9. /\ cs \in Seq(ClockRows) /\ DOMAIN cs = DOMAIN clocks /\ cs[t.clock] = row
      /\ \A c \in DOMAIN clocks : c # t.clock => cs[c] = clocks[c]
  BY <1>3, <1>5, <1>8
<1> HIDE DEF cs
<1>10. /\ clocks' \in Seq(ClockRows) /\ DOMAIN clocks' = DOMAIN clocks
       /\ \A c \in DOMAIN clocks : c # t.clock => clocks'[c] = clocks[c]
       /\ clocks'[t.clock] \in {clocks[t.clock], row}
  BY <1>2, <1>5, <1>9
<1>11. /\ timers' \in SUBSET TimerRows /\ Apart(timers') /\ IsFiniteSet(timers')
       /\ \A x \in timers : x # t.timer => x \in timers'
  BY <1>1, <1>2, <1>3, FiredFits
<1>12. RowsOK'
  <2>1. \A c \in DOMAIN clocks' : clocks'[c].task \in DOMAIN tasks
    BY <1>1, <1>8, <1>10 DEF RowsOK
  <2> QED BY <1>1, <1>2, <1>10, <1>11, <2>1, DefKept DEF RowsOK, Single, Apart, ClockRows, IncidentRows
<1>13. TxOK'
  <2>1. tx' = [tx EXCEPT ![s] = Closed]
    BY <1>2 DEF Close
  <2>2. /\ Fits(Closed, Nodes, DOMAIN tokens', DOMAIN tasks', timers', DOMAIN clocks')
        /\ Closed.op = "none"
    BY ClosedFits
  <2>3. \A r \in Sessions : r # s /\ tx[r].op = "fire" =>
          tx[r].timer \in timers' /\ (Closed.op = "fire" => tx[r].timer # Closed.timer)
    BY <1>4, <1>11, <2>2
  <2>4. /\ DOMAIN tokens \subseteq DOMAIN tokens' /\ DOMAIN tasks \subseteq DOMAIN tasks'
        /\ DOMAIN clocks \subseteq DOMAIN clocks' /\ def' = def
    BY <1>2, <1>10
  <2> QED BY <1>1, <2>1, <2>2, <2>3, <2>4, TxStands DEF Remain, Becomes, Alone
<1>14. AlertsPerTimer'
  <2> SUFFICES ASSUME NEW kind \in {"sla_warn", "sla_breach"}
               PROVE  Cardinality({c \in DOMAIN clocks' : clocks'[c][Flag(kind)]})
                        <= Cardinality({x \in timers' : x.kind = kind /\ x.status = "fired"})
    BY DEF AlertsPerTimer
  <2> DEFINE F == {c \in DOMAIN clocks : clocks[c][Flag(kind)]}
             F2 == {c \in DOMAIN clocks' : clocks'[c][Flag(kind)]}
             T == {x \in timers : x.kind = kind /\ x.status = "fired"}
             T2 == {x \in timers' : x.kind = kind /\ x.status = "fired"}
  <2>1. Cardinality(F) <= Cardinality(T)
    BY <1>1 DEF AlertsPerTimer
  <2>2. IsFiniteSet(F) /\ IsFiniteSet(T)
    <3>1. IsFiniteSet(DOMAIN clocks)
      <4>1. DOMAIN clocks = 1..Len(clocks) /\ Len(clocks) \in Nat
        BY <1>5
      <4> QED BY <4>1, FS_Interval
    <3>2. IsFiniteSet(timers)
      BY <1>1 DEF RowsOK
    <3> QED BY <3>1, <3>2, FS_Subset
  <2>3. CASE t.timer.kind # kind
    <3>1. T2 = T
      BY <1>1, <1>2, <1>3, <2>3, FiredFits
    <3>2. F2 = F
      BY <1>8, <1>10, <2>3
    <3> QED BY <2>1, <3>1, <3>2
  <2>4. CASE t.timer.kind = kind
    <3>1. PICK x : x \notin T /\ T2 = T \cup {x}
      BY <1>1, <1>2, <1>3, <2>4, FiredFits
    <3>2. F2 \subseteq F \cup {t.clock}
      BY <1>10
    <3> HIDE DEF F, F2, T, T2
    <3>3. Cardinality(T2) = Cardinality(T) + 1
      BY <2>2, <3>1, FS_AddElement
    <3>4. /\ IsFiniteSet(F \cup {t.clock}) /\ Cardinality(F \cup {t.clock}) <= Cardinality(F) + 1
          /\ Cardinality(F) \in Nat /\ Cardinality(T) \in Nat
      <4>1. IsFiniteSet(F \cup {t.clock}) /\ Cardinality(F) \in Nat /\ Cardinality(T) \in Nat
        BY <2>2, FS_AddElement, FS_CardinalityType
      <4>2. Cardinality(F \cup {t.clock}) = Cardinality(F)
              \/ Cardinality(F \cup {t.clock}) = Cardinality(F) + 1
        BY <2>2, FS_AddElement
      <4> QED BY <4>1, <4>2
    <3>5. Cardinality(F2) <= Cardinality(F \cup {t.clock}) /\ Cardinality(F2) \in Nat
          /\ Cardinality(F \cup {t.clock}) \in Nat
      BY <3>2, <3>4, FS_Subset, FS_CardinalityType
    <3>6. Cardinality(F2) <= Cardinality(T2)
      BY <2>1, <3>3, <3>4, <3>5
    <3> QED BY <3>6 DEF F2, T2
  <2> QED BY <2>3, <2>4
<1> QED BY <1>12, <1>13, <1>14 DEF WorkInv

\* A step that changes nothing.
LEMMA StutterKeeps == WorkInv /\ UNCHANGED vars => WorkInv'
  BY DefKept DEF vars, WorkInv, RowsOK, TxOK, AlertsPerTimer, Single, Apart, Fits,
                 ClockRows, IncidentRows, Flag

\* Rows, open transactions and the count of alerts stay in order.
THEOREM WorkflowInvariance == Spec => []WorkInv
<1>1. ASSUME WorkInv, [Next]_vars PROVE WorkInv'
  <2>1. ASSUME NEW u \in Starters, Start(u) PROVE WorkInv'
    BY <1>1, <2>1, StartKeeps
  <2>2. ASSUME NEW u \in Users, NEW k \in DOMAIN tasks, Claim(u, k) PROVE WorkInv'
    BY <1>1, <2>2, TaskKeeps
  <2>3. ASSUME NEW k \in DOMAIN tasks, Reassign(k) \/ Escalate(k) PROVE WorkInv'
    BY <1>1, <2>3, TaskKeeps
  <2>4. ASSUME NEW s \in Sessions,
               (\E u \in Users : Finish(s, u)) \/ BeginRetry(s) \/ Rollback(s)
        PROVE  WorkInv'
    BY <1>1, <2>4, BeginFinishKeeps, BeginRetryKeeps, RollbackKeeps
  <2>5. ASSUME NEW s \in Sessions, Engine(s) PROVE WorkInv'
    BY <1>1, <2>5, CommitFinishKeeps, CommitRetryKeeps, CommitFireKeeps DEF Engine
  <2>6. ASSUME NEW s \in Sessions, NEW t \in timers, BeginFire(s, t) PROVE WorkInv'
    BY <1>1, <2>6, BeginFireKeeps
  <2>7. ASSUME NEW t \in timers, FireNodeTimer(t) PROVE WorkInv'
    BY <1>1, <2>7, NodeTimerFires
  <2>8. ASSUME Suspend \/ Resume \/ Cancel \/ \E k \in DOMAIN incidents : ResolveIncident(k)
        PROVE  WorkInv'
    BY <1>1, <2>8, AdminKeeps
  <2>9. CASE UNCHANGED vars
    BY <1>1, <2>9, StutterKeeps
  <2> QED BY <1>1, <2>1, <2>2, <2>3, <2>4, <2>5, <2>6, <2>7, <2>8, <2>9 DEF Next
<1> QED BY <1>1, InitStands, PTL DEF Spec

\* Every row has the shape of its columns, and no open transaction refers to a
\* row that is not there.
THEOREM WorkflowTypeCorrect == Spec => []TypeOK
<1>1. WorkInv => TypeOK
  BY DEF WorkInv, RowsOK, TxOK, Fits, TypeOK, TimerRows
<1> QED BY <1>1, WorkflowInvariance, PTL

\* Nobody is offered the same work twice, however finishes and retries race.
THEOREM WorkIsOfferedOnce == Spec => []OneOpenTaskPerNode
<1>1. WorkInv => OneOpenTaskPerNode
  BY DEF WorkInv, RowsOK, Single, OneOpenTaskPerNode
<1> QED BY <1>1, WorkflowInvariance, PTL

\* No more alerts than timers that fired, however warnings and breaches race.
THEOREM AlertsAreNotRepeated == Spec => []AlertsPerTimer
<1>1. WorkInv => AlertsPerTimer
  BY DEF WorkInv
<1> QED BY <1>1, WorkflowInvariance, PTL

-----------------------------------------------------------------------------
(* What one visit does, node type by node type                             *)

\* The nodes at which a visit leaves the token where it is.
Parking(n) ==
  \/ def.type[n] \in TaskTypes \cup {"TIMER_WAIT", "EVENT_WAIT"}
  \/ def.type[n] = "SYSTEM_TASK" /\ n \notin def.noop

\* Some task at n is open.
Attended(ts, n) == \E k \in DOMAIN ts : ts[k].node = n /\ IsOpen(ts[k])

\* A visit at a parking node n: the token stays, and a task node is attended.
Parks(d, e, n) ==
  /\ e.tokens = d.tokens /\ e.work = Tail(d.work)
  /\ IF def.type[n] \in TaskTypes /\ ~Attended(d.tasks, n)
     THEN e.tasks = Append(d.tasks, [node |-> n, status |-> "AVAILABLE", claimedBy |-> NoUser])
     ELSE e.tasks = d.tasks

\* A visit elsewhere: the token is consumed, and those at the targets are new
\* and wait at the end of the worklist.
Moves(d, e, targets) ==
  LET i == Head(d.work)
      T == Len(targets)
      L == Len(d.tokens)
      W == Len(d.work) - 1
  IN
  /\ e.tasks = d.tasks
  /\ Len(e.tokens) = L + T /\ Len(e.work) = W + T
  /\ \A j \in 1..L : e.tokens[j].node = d.tokens[j].node
  /\ \A j \in 1..L : e.tokens[j].live <=> d.tokens[j].live /\ j # i
  /\ \A k \in 1..T : e.tokens[L + k].node = targets[k] /\ e.tokens[L + k].live
  /\ \A k \in 1..W : e.work[k] = d.work[k + 1]
  /\ \A k \in 1..T : e.work[W + k] = L + k

\* A join passes when all its edges, counted, have had a token.
Full(d, n) == Arrivals(Consume(d, Head(d.work)), n) >= InDegree(n)

\* Where a token goes from n.
Leads(d, n, targets) ==
  /\ targets \in Seq(Nodes)
  /\ \A k \in 1..Len(targets) : \E x \in DOMAIN def.out[n] : def.out[n][x] = targets[k]
  /\ def.type[n] = "PARALLEL_JOIN" => targets = IF Full(d, n) THEN def.out[n] ELSE << >>

\* Incidents are only added.
Notes(old, new) == \A k \in DOMAIN old : k \in DOMAIN new /\ new[k].code = old[k].code

\* Consuming the first token of the worklist.
Taken(d) == Consume([d EXCEPT !.work = Tail(@)], Head(d.work))

\* What that leaves.
LEMMA Gone ==
  ASSUME NEW d, Drivable(d), d.work # << >>
  PROVE  LET gone == Taken(d)
         IN  /\ Drivable(gone) /\ gone.tasks = d.tasks /\ gone.incidents = d.incidents
             /\ gone.work = Tail(d.work) /\ gone.tokens = Consume(d, Head(d.work)).tokens
             /\ Len(gone.tokens) = Len(d.tokens) /\ Len(d.tokens) \in Nat
             /\ \A j \in 1..Len(d.tokens) :
                  /\ gone.tokens[j].node = d.tokens[j].node
                  /\ gone.tokens[j].live <=> d.tokens[j].live /\ j # Head(d.work)
<1> DEFINE here == [d EXCEPT !.work = Tail(@)]
           i == Head(d.work)
           ts == [d.tokens EXCEPT ![i].live = FALSE]
           gone == [here EXCEPT !.tokens = ts]
<1>1. Drivable(here) /\ here.tokens = d.tokens /\ i \in DOMAIN d.tokens
  BY PopKeeps
<1>2. d \in DriveRows /\ d.tokens \in Seq(TokenRows)
  BY DEF Drivable, DriveRows
<1>3. Consume(here, i) = gone
  BY <1>1 DEF Consume
<1>4. Consume(d, i).tokens = ts
  BY <1>2 DEF Consume, DriveRows
<1>5. Drivable(gone)
  <2>1. \A h : Drivable(h) /\ i \in DOMAIN h.tokens => Drivable(Consume(h, i))
    BY FieldOpsKeep
  <2> HIDE DEF here, i, gone
  <2>2. Drivable(Consume(here, i))
    BY <1>1, <2>1
  <2> QED BY <1>3, <2>2
<1>6. d.tokens[i] \in TokenRows
  BY <1>1, <1>2
<1>7. /\ Len(ts) = Len(d.tokens) /\ Len(d.tokens) \in Nat
      /\ \A j \in 1..Len(d.tokens) :
           ts[j] = IF j = i THEN [d.tokens[i] EXCEPT !.live = FALSE] ELSE d.tokens[j]
  BY <1>1, <1>2
<1>8. \A j \in 1..Len(d.tokens) :
        /\ ts[j].node = d.tokens[j].node
        /\ ts[j].live <=> d.tokens[j].live /\ j # i
  BY <1>6, <1>7 DEF TokenRows
<1> HIDE DEF ts
<1>9. /\ gone.tasks = d.tasks /\ gone.incidents = d.incidents
      /\ gone.work = Tail(d.work) /\ gone.tokens = ts
  BY <1>2 DEF DriveRows
<1> HIDE DEF gone, here
<1> QED BY <1>3, <1>4, <1>5, <1>7, <1>8, <1>9 DEF here, Taken

\* Consuming it and waiting, or ending there.
LEMMA GoneMoves ==
  ASSUME NEW d, Drivable(d), d.work # << >>, NEW e,
         e.tokens = Taken(d).tokens, e.work = Taken(d).work, e.tasks = Taken(d).tasks
  PROVE  Moves(d, e, << >>)
<1> DEFINE gone == Taken(d)
<1>1. /\ gone.work = Tail(d.work) /\ gone.tasks = d.tasks
      /\ Len(gone.tokens) = Len(d.tokens) /\ Len(d.tokens) \in Nat
      /\ \A j \in 1..Len(d.tokens) :
           /\ gone.tokens[j].node = d.tokens[j].node
           /\ gone.tokens[j].live <=> d.tokens[j].live /\ j # Head(d.work)
  BY Gone
<1>2. e.tokens = gone.tokens /\ e.work = gone.work /\ e.tasks = gone.tasks
  OBVIOUS
<1> HIDE DEF gone
<1>3. d.work \in Seq(Nat)
  BY DEF Drivable, DriveRows
<1>4. /\ Len(Tail(d.work)) = Len(d.work) - 1 /\ Len(d.work) - 1 \in Nat
      /\ \A k \in 1..(Len(d.work) - 1) : Tail(d.work)[k] = d.work[k + 1]
  BY <1>3
<1> DEFINE T == Len(<< >>)
<1>5. T = 0
  OBVIOUS
<1> HIDE DEF T
<1>6. \A k \in 1..T : FALSE
  BY <1>5
<1>7. /\ Len(e.tokens) = Len(d.tokens) + T /\ Len(e.work) = (Len(d.work) - 1) + T
      /\ e.tasks = d.tasks
      /\ \A k \in 1..(Len(d.work) - 1) : e.work[k] = d.work[k + 1]
      /\ \A j \in 1..Len(d.tokens) :
           /\ e.tokens[j].node = d.tokens[j].node
           /\ e.tokens[j].live <=> d.tokens[j].live /\ j # Head(d.work)
  <2>1. Len(e.tokens) = Len(d.tokens) + T /\ e.tasks = d.tasks
    BY <1>1, <1>2, <1>5
  <2>2. e.work = Tail(d.work)
    BY <1>1, <1>2
  <2>3. /\ Len(e.work) = (Len(d.work) - 1) + T
        /\ \A k \in 1..(Len(d.work) - 1) : e.work[k] = d.work[k + 1]
    BY <1>4, <1>5, <2>2
  <2> QED BY <1>1, <1>2, <2>1, <2>3
<1> QED BY <1>6, <1>7 DEF Moves, T

\* Consuming it and going on.
LEMMA AdvanceMoves ==
  ASSUME NEW d, Drivable(d), d.work # << >>, NEW targets \in Seq(Nodes), NEW e,
         e = Advance(Taken(d), targets)
  PROVE  Moves(d, e, targets) /\ e.incidents = d.incidents
<1> DEFINE gone == Taken(d)
           L == Len(d.tokens)
           W == Len(d.work) - 1
           T == Len(targets)
           new == [k \in DOMAIN targets |-> [node |-> targets[k], live |-> TRUE]]
           more == [k \in DOMAIN targets |-> L + k]
<1>1. /\ gone.work = Tail(d.work) /\ gone.tasks = d.tasks /\ gone.incidents = d.incidents
      /\ Drivable(gone)
      /\ Len(gone.tokens) = L /\ L \in Nat
      /\ \A j \in 1..L :
           /\ gone.tokens[j].node = d.tokens[j].node
           /\ gone.tokens[j].live <=> d.tokens[j].live /\ j # Head(d.work)
  BY Gone
<1>2. e = [gone EXCEPT !.tokens = gone.tokens \o new, !.work = gone.work \o more]
  BY <1>1 DEF Advance
<1> HIDE DEF gone
<1>3. gone \in DriveRows /\ gone.tokens \in Seq(TokenRows) /\ d.work \in Seq(Nat)
  BY <1>1 DEF Drivable, DriveRows
<1>4. /\ Tail(d.work) \in Seq(Nat)
      /\ Len(Tail(d.work)) = W /\ W \in Nat
      /\ \A k \in 1..W : Tail(d.work)[k] = d.work[k + 1]
  BY <1>3
<1>5. /\ DOMAIN targets = 1..T /\ T \in Nat
      /\ \A k \in 1..T : targets[k] \in Nodes
  OBVIOUS
<1> HIDE DEF L, W, T
<1>6. /\ new \in Seq(TokenRows) /\ Len(new) = T
      /\ \A k \in 1..T : new[k].node = targets[k] /\ new[k].live
  <2>1. /\ new \in [1..T -> TokenRows]
        /\ \A k \in 1..T : new[k].node = targets[k] /\ new[k].live
    BY <1>5 DEF TokenRows
  <2> HIDE DEF new
  <2> QED BY <1>5, <2>1
<1>7. more \in Seq(Nat) /\ Len(more) = T /\ \A k \in 1..T : more[k] = L + k
  <2>1. more \in [1..T -> Nat] /\ \A k \in 1..T : more[k] = L + k
    BY <1>1, <1>5
  <2> HIDE DEF more
  <2> QED BY <1>5, <2>1
<1> HIDE DEF new, more
<1>8. /\ e.tokens = gone.tokens \o new /\ e.work = gone.work \o more
      /\ e.tasks = d.tasks /\ e.incidents = d.incidents
  BY <1>1, <1>2, <1>3 DEF DriveRows
<1>9. /\ Len(e.tokens) = L + T
      /\ \A j \in 1..L : e.tokens[j] = gone.tokens[j]
      /\ \A k \in 1..T : e.tokens[L + k] = new[k]
  <2> DEFINE a == gone.tokens
  <2>0. a \in Seq(TokenRows) /\ new \in Seq(TokenRows) /\ Len(a) = L
    BY <1>1, <1>3, <1>6
  <2>1. e.tokens = a \o new
    BY <1>8
  <2> HIDE DEF a
  <2>2. /\ Len(a \o new) = Len(a) + Len(new)
        /\ \A j \in 1..Len(a) : (a \o new)[j] = a[j]
        /\ \A k \in 1..Len(new) : (a \o new)[Len(a) + k] = new[k]
    BY <2>0
  <2> QED BY <1>6, <2>0, <2>1, <2>2 DEF a
<1>10. /\ Len(e.work) = W + T
       /\ \A k \in 1..W : e.work[k] = d.work[k + 1]
       /\ \A k \in 1..T : e.work[W + k] = L + k
  <2> DEFINE a == Tail(d.work)
  <2>0. a \in Seq(Nat) /\ more \in Seq(Nat)
    BY <1>4, <1>7
  <2>1. e.work = a \o more
    BY <1>1, <1>4, <1>8
  <2> HIDE DEF a
  <2>2. /\ Len(a \o more) = Len(a) + Len(more)
        /\ \A i \in 1..Len(a) : (a \o more)[i] = a[i]
        /\ \A i \in 1..Len(more) : (a \o more)[Len(a) + i] = more[i]
    <3> HIDE DEF more
    <3>1. \A S : \A x, y \in Seq(S) :
            /\ Len(x \o y) = Len(x) + Len(y)
            /\ \A i \in 1..Len(x) : (x \o y)[i] = x[i]
            /\ \A i \in 1..Len(y) : (x \o y)[Len(x) + i] = y[i]
      BY Joined
    <3> QED BY <2>0, <3>1
  <2> QED BY <1>4, <1>7, <2>1, <2>2 DEF a
<1> QED BY <1>1, <1>6, <1>8, <1>9, <1>10 DEF Moves, L, W, T

\* What else a visit may do to its rows: none of it touches tokens, worklist or incidents.
LEMMA TaskMade ==
  ASSUME NEW d \in DriveRows, NEW n
  PROVE  LET e == CreateTask(d, n)
         IN  /\ e.tokens = d.tokens /\ e.work = d.work /\ e.incidents = d.incidents
             /\ e.tasks = Append(d.tasks, [node |-> n, status |-> "AVAILABLE", claimedBy |-> NoUser])
<1> DEFINE ks == Append(d.tasks, [node |-> n, status |-> "AVAILABLE", claimedBy |-> NoUser])
           b == [d EXCEPT !.tasks = ks]
           cs == Append(b.clocks, [task |-> Len(d.tasks) + 1, at |-> Len(clocks),
                                   warned |-> FALSE, breached |-> FALSE])
           ts == Schedule(Schedule(b.timers, "sla_warn", Len(d.tasks) + 1), "sla_breach", Len(d.tasks) + 1)
           c == [b EXCEPT !.clocks = cs, !.timers = ts]
<1>1. CreateTask(d, n) \in {b, c}
  BY DEF CreateTask, StartClock
<1> HIDE DEF ks, cs, ts
<1>2. /\ b.tokens = d.tokens /\ b.work = d.work /\ b.incidents = d.incidents /\ b.tasks = ks
      /\ c.tokens = d.tokens /\ c.work = d.work /\ c.incidents = d.incidents /\ c.tasks = ks
  BY DEF DriveRows
<1> HIDE DEF b, c
<1> QED BY <1>1, <1>2 DEF ks

\* Taking a token off the worklist, at a parking node.
LEMMA Left ==
  ASSUME NEW d, Drivable(d), d.work # << >>
  PROVE  LET here == [d EXCEPT !.work = Tail(@)]
         IN  /\ Drivable(here) /\ here \in DriveRows /\ here.tokens = d.tokens
             /\ here.work = Tail(d.work) /\ here.tasks = d.tasks /\ here.incidents = d.incidents
<1> DEFINE here == [d EXCEPT !.work = Tail(@)]
<1>1. Drivable(here)
  BY PopKeeps
<1>2. /\ here.tokens = d.tokens /\ here.work = Tail(d.work) /\ here.tasks = d.tasks
      /\ here.incidents = d.incidents
  BY DEF Drivable, DriveRows
<1> HIDE DEF here
<1>3. here \in DriveRows
  BY <1>1 DEF Drivable
<1> QED BY <1>1, <1>2, <1>3 DEF here

\* One visit, node type by node type.
LEMMA VisitCases ==
  ASSUME NEW d, Drivable(d), d.work # << >>, def \in Definitions
  PROVE  LET n == d.tokens[Head(d.work)].node
         IN  /\ n \in Nodes
             /\ Notes(d.incidents, Visit(d).incidents)
             /\ \/ Parking(n) /\ Parks(d, Visit(d), n)
                \/ /\ ~Parking(n)
                   /\ \E targets : Leads(d, n, targets) /\ Moves(d, Visit(d), targets)
<1> DEFINE n == d.tokens[Head(d.work)].node
           out == def.out[n]
           here == [d EXCEPT !.work = Tail(@)]
           gone == Taken(d)
           e == Visit(d)
<1>0. gone = Consume(here, Head(d.work))
  BY DEF Taken
<1>1. n \in Nodes
  BY PopKeeps, Zenon
<1>2. /\ def.type[n] \in NodeTypes /\ out \in Seq(Nodes)
      /\ def.type[n] \notin {"END", "CANCEL"} => Len(out) >= 1
      /\ Len(out) >= 1 => out[1] \in Nodes /\ out[def.take[n]] \in Nodes
  BY <1>1, Graph, Zenon
<1> HIDE DEF n
<1>30. DOMAIN out = 1..Len(out) /\ Len(out) \in Nat
  <2> HIDE DEF out
  <2> QED BY <1>2
<1>3. /\ here \in DriveRows /\ here.tokens = d.tokens /\ here.work = Tail(d.work)
      /\ here.tasks = d.tasks /\ here.incidents = d.incidents
  BY Left
<1>4. Notes(d.incidents, d.incidents)
  BY DEF Notes
<1>5. /\ gone.incidents = d.incidents /\ gone \in DriveRows
  BY Gone DEF Drivable
<1>6. ASSUME ~Parking(n), NEW targets, Leads(d, n, targets), e = Advance(gone, targets)
      PROVE  Notes(d.incidents, e.incidents) /\ Moves(d, e, targets)
  <2>1. targets \in Seq(Nodes)
    BY <1>6 DEF Leads
  <2>2. Moves(d, e, targets) /\ e.incidents = d.incidents
    BY <1>6, <2>1, AdvanceMoves
  <2> QED BY <1>4, <2>2
<1>7. ASSUME NEW f, f.tokens = gone.tokens, f.work = gone.work, f.tasks = gone.tasks
      PROVE  Moves(d, f, << >>)
  BY <1>7, GoneMoves
<1>8. ASSUME def.type[n] # "PARALLEL_JOIN", NEW x \in DOMAIN out, out[x] \in Nodes
      PROVE  Leads(d, n, <<out[x]>>)
  <2> DEFINE m == out[x]
  <2>1. m \in Nodes
    BY <1>8
  <2> HIDE DEF m
  <2>2. <<m>> \in Seq(Nodes) /\ \A k \in 1..Len(<<m>>) : <<m>>[k] = m
    BY <2>1
  <2> QED BY <1>8, <2>2 DEF Leads, m
<1>9. Leads(d, n, out) \/ def.type[n] = "PARALLEL_JOIN"
  <2>1. \A k \in 1..Len(out) : k \in DOMAIN out
    BY <1>30
  <2> QED BY <1>2, <2>1 DEF Leads
<1>10. Leads(d, n, << >>) \/ def.type[n] = "PARALLEL_JOIN"
  <2>1. << >> \in Seq(Nodes) /\ \A k \in 1..Len(<< >>) : FALSE
    OBVIOUS
  <2> QED BY <2>1 DEF Leads
<1>11. def.take[n] \in DOMAIN out \/ out = << >>
  <2>1. IsDefinition(def)
    BY DefinitionsAssumption
  <2> QED BY <1>1, <2>1 DEF IsDefinition, Nodes
<1>12. Len(out) >= 1 => 1 \in DOMAIN out /\ out # << >>
  <2>1. Len(out) >= 1 => 1 \in DOMAIN out
    BY <1>30
  <2> QED BY <2>1
<1> HIDE DEF gone, here
<1>13. CASE def.type[n] = "START"
  <2>1. e = Advance(gone, <<out[1]>>)
    BY <1>0, <1>13 DEF Visit, here, n, TaskTypes
  <2>2. ~Parking(n)
    BY <1>13 DEF Parking, TaskTypes
  <2> QED BY <1>1, <1>2, <1>6, <1>8, <1>12, <1>13, <2>1, <2>2, Zenon DEF n
<1>14. CASE def.type[n] = "EXCLUSIVE_GATEWAY"
  <2>1. e = Advance(gone, <<out[def.take[n]]>>)
    BY <1>0, <1>14 DEF Visit, here, n, TaskTypes
  <2>2. ~Parking(n)
    BY <1>14 DEF Parking, TaskTypes
  <2>3. def.take[n] \in DOMAIN out /\ out[def.take[n]] \in Nodes
    BY <1>2, <1>11, <1>12, <1>14
  <2>4. Leads(d, n, <<out[def.take[n]]>>)
    BY <1>8, <1>14, <2>3, Zenon
  <2> QED BY <1>1, <1>6, <2>1, <2>2, <2>4, Zenon DEF n
<1>15. CASE def.type[n] \in {"PARALLEL_SPLIT", "ESCALATION"}
  <2>1. e = Advance(gone, out)
    BY <1>0, <1>15, Zenon DEF Visit, here, n, TaskTypes
  <2>2. ~Parking(n)
    BY <1>15 DEF Parking, TaskTypes
  <2>3. Leads(d, n, out)
    BY <1>9, <1>15
  <2> QED BY <1>1, <1>6, <2>1, <2>2, <2>3, Zenon DEF n
<1>16. CASE def.type[n] = "PARALLEL_JOIN"
  <2>1. e = IF Arrivals(gone, n) >= InDegree(n) THEN Advance(gone, out) ELSE gone
    BY <1>0, <1>16 DEF Visit, here, n, TaskTypes, ArriveAtJoin
  <2>2. ~Parking(n)
    BY <1>16 DEF Parking, TaskTypes
  <2>3. Arrivals(gone, n) = Arrivals(Consume(d, Head(d.work)), n)
    <3>1. gone.tokens = Consume(d, Head(d.work)).tokens
      BY Gone DEF gone
    <3> QED BY <3>1 DEF Arrivals
  <2>4. CASE Full(d, n)
    <3>1. e = Advance(gone, out)
      BY <2>1, <2>3, <2>4 DEF Full
    <3>2. Leads(d, n, out)
      <4>1. \A k \in 1..Len(out) : k \in DOMAIN out
        BY <1>30
      <4> QED BY <1>2, <2>4, <4>1 DEF Leads
    <3> QED BY <1>1, <1>6, <2>2, <3>1, <3>2, Zenon DEF n
  <2>5. CASE ~Full(d, n)
    <3>1. e = gone
      BY <2>1, <2>3, <2>5 DEF Full
    <3>2. Leads(d, n, << >>)
      <4>1. << >> \in Seq(Nodes) /\ \A k \in 1..Len(<< >>) : FALSE
        OBVIOUS
      <4> QED BY <2>5, <4>1 DEF Leads
    <3>3. Moves(d, e, << >>)
      BY <1>7, <3>1
    <3>4. Notes(d.incidents, e.incidents)
      BY <1>4, <1>5, <3>1
    <3> QED BY <1>1, <2>2, <3>2, <3>3, <3>4 DEF n
  <2> QED BY <2>4, <2>5
<1>17. CASE def.type[n] \in TaskTypes
  <2>1. e = ArriveAtTask(here, n)
    BY <1>17, Zenon DEF Visit, here, n, TaskTypes
  <2>2. Parking(n)
    BY <1>17 DEF Parking
  <2>3. CASE Attended(d.tasks, n)
    <3>1. e = Park(here)
      BY <1>3, <2>1, <2>3 DEF ArriveAtTask, Attended
    <3>2. /\ e.tokens = d.tokens /\ e.work = Tail(d.work) /\ e.tasks = d.tasks
          /\ e.incidents = d.incidents
      BY <1>3, <3>1 DEF Park, DriveRows
    <3>3. Parks(d, e, n)
      BY <2>3, <3>2 DEF Parks
    <3> QED BY <1>1, <1>4, <2>2, <3>2, <3>3 DEF n
  <2>4. CASE ~Attended(d.tasks, n)
    <3> DEFINE made == CreateTask(here, n)
    <3>1. e = Park(made)
      BY <1>3, <2>1, <2>4 DEF ArriveAtTask, Attended
    <3>2. /\ made.tokens = d.tokens /\ made.work = Tail(d.work) /\ made.incidents = d.incidents
          /\ made.tasks = Append(d.tasks, [node |-> n, status |-> "AVAILABLE", claimedBy |-> NoUser])
      BY <1>3, TaskMade
    <3>3. Park(made).tokens = made.tokens /\ Park(made).work = made.work
          /\ Park(made).incidents = made.incidents /\ Park(made).tasks = made.tasks
      BY DEF Park
    <3> HIDE DEF made
    <3>4. Parks(d, e, n)
      BY <1>17, <2>4, <3>1, <3>2, <3>3 DEF Parks
    <3>5. Notes(d.incidents, e.incidents)
      BY <1>4, <3>1, <3>2, <3>3
    <3> QED BY <1>1, <2>2, <3>4, <3>5 DEF n
  <2> QED BY <2>3, <2>4
<1>18. ASSUME Parking(n), def.type[n] \notin TaskTypes, e.tokens = d.tokens, e.work = Tail(d.work),
              e.tasks = d.tasks, Notes(d.incidents, e.incidents)
       PROVE  Parks(d, e, n)
  BY <1>18 DEF Parks
<1>19. CASE def.type[n] = "SYSTEM_TASK"
  <2>1. e = IF n \in def.noop THEN Advance(gone, <<out[1]>>)
            ELSE Park(Raise(here, "UNKNOWN_HANDLER"))
    BY <1>0, <1>19 DEF Visit, here, n, TaskTypes
  <2>2. CASE n \in def.noop
    <3>1. ~Parking(n)
      BY <1>19, <2>2 DEF Parking, TaskTypes
    <3> QED BY <1>1, <1>2, <1>6, <1>8, <1>12, <1>19, <2>1, <2>2, <3>1, Zenon DEF n
  <2>3. CASE n \notin def.noop
    <3>1. e = Park(Raise(here, "UNKNOWN_HANDLER")) /\ Parking(n) /\ def.type[n] \notin TaskTypes
      BY <1>19, <2>1, <2>3 DEF Parking, TaskTypes
    <3>2. /\ e.tokens = d.tokens /\ e.work = Tail(d.work) /\ e.tasks = d.tasks
          /\ e.incidents = Append(d.incidents, [code |-> "UNKNOWN_HANDLER", open |-> TRUE])
      BY <1>3, <3>1 DEF Park, Raise, DriveRows
    <3>3. Notes(d.incidents, e.incidents)
      <4>1. d.incidents \in Seq(IncidentRows)
        BY DEF Drivable, DriveRows
      <4> QED BY <3>2, <4>1 DEF Notes
    <3> QED BY <1>1, <1>18, <3>1, <3>2, <3>3 DEF n
  <2> QED BY <2>2, <2>3
<1>20. CASE def.type[n] = "TIMER_WAIT"
  <2>1. e = Park([here EXCEPT !.timers = Schedule(@, "node", n)])
    BY <1>20 DEF Visit, here, n, TaskTypes
  <2>2. Parking(n) /\ def.type[n] \notin TaskTypes
    BY <1>20 DEF Parking, TaskTypes
  <2>3. /\ e.tokens = d.tokens /\ e.work = Tail(d.work) /\ e.tasks = d.tasks
        /\ e.incidents = d.incidents
    BY <1>3, <2>1 DEF Park, DriveRows
  <2> QED BY <1>1, <1>4, <1>18, <2>2, <2>3 DEF n
<1>21. CASE def.type[n] = "EVENT_WAIT"
  <2>1. e = Park(here)
    BY <1>21 DEF Visit, here, n, TaskTypes
  <2>2. Parking(n) /\ def.type[n] \notin TaskTypes
    BY <1>21 DEF Parking, TaskTypes
  <2>3. /\ e.tokens = d.tokens /\ e.work = Tail(d.work) /\ e.tasks = d.tasks
        /\ e.incidents = d.incidents
    BY <1>3, <2>1 DEF Park, DriveRows
  <2> QED BY <1>1, <1>4, <1>18, <2>2, <2>3 DEF n
<1>22. CASE def.type[n] \in {"CANCEL", "END"}
  <2>1. e = [gone EXCEPT !.cancelled = TRUE] \/ e = gone
    BY <1>0, <1>22, Zenon DEF Visit, here, n, TaskTypes
  <2>2. ~Parking(n)
    BY <1>22 DEF Parking, TaskTypes
  <2>3. /\ e.tokens = gone.tokens /\ e.work = gone.work /\ e.tasks = gone.tasks
        /\ e.incidents = d.incidents
    BY <1>5, <2>1 DEF DriveRows
  <2>4. Moves(d, e, << >>)
    BY <1>7, <2>3
  <2>5. Leads(d, n, << >>)
    BY <1>10, <1>22
  <2> QED BY <1>1, <1>4, <2>2, <2>3, <2>4, <2>5 DEF n
<1> QED
  BY <1>2, <1>13, <1>14, <1>15, <1>16, <1>17, <1>19, <1>20, <1>21, <1>22, ZenonT(60)
     DEF NodeTypes, TaskTypes, n

-----------------------------------------------------------------------------
(* What a drive carries along                                              *)

\* What a drive never does to rows there were: a token is consumed only where
\* visits consume it, no task changes, and what is new is a task to do.
TokensFollow(ts, old) ==
  \A i \in DOMAIN old :
    /\ i \in DOMAIN ts /\ ts[i].node = old[i].node
    /\ ts[i].live => old[i].live
    /\ Parking(old[i].node) /\ old[i].live => ts[i].live
TasksFollow(ks, old) ==
  /\ \A k \in DOMAIN old : k \in DOMAIN ks /\ ks[k] = old[k]
  /\ \A k \in DOMAIN ks : k \notin DOMAIN old =>
       ks[k].status = "AVAILABLE" /\ def.type[ks[k].node] \in TaskTypes
Follows(x, d) ==
  /\ TokensFollow(x.tokens, d.tokens) /\ TasksFollow(x.tasks, d.tasks)
  /\ Notes(d.incidents, x.incidents)

\* A drive visits tokens that stay where they are, or that are active and listed
\* once; and every active token that does not stay is on its list.
Steady(ts, ws) ==
  /\ \A k \in DOMAIN ws :
       \/ Parking(ts[ws[k]].node)
       \/ ts[ws[k]].live /\ \A l \in DOMAIN ws : ws[l] = ws[k] => l = k
  /\ \A i \in Live(ts) : Parking(ts[i].node) \/ \E k \in DOMAIN ws : ws[k] = i

\* Open tasks have their token, and so has a task node on the list.
Covered(ts, ks, ws) ==
  /\ \A k \in DOMAIN ks : IsOpen(ks[k]) => \E i \in Live(ts) : ts[i].node = ks[k].node
  /\ \A k \in DOMAIN ws : def.type[ts[ws[k]].node] \in TaskTypes => ts[ws[k]].live

\* An open task is the newest at its node.
OpenIsNewest(ks) == \A k, m \in DOMAIN ks : IsOpen(ks[k]) /\ ks[k].node = ks[m].node => m <= k

\* An active token at a task node has its task, or is about to be visited; those
\* of U are given up.
Tended(U, ts, ks, ws) ==
  \A i \in Live(ts) \ U : def.type[ts[i].node] \in TaskTypes =>
    Held(ks, ts[i].node) \/ \E k \in DOMAIN ws : ws[k] = i

\* The first of a worklist, and the rest of it.
LEMMA WorkTyped ==
  ASSUME NEW d, Drivable(d), d.work # << >>
  PROVE  /\ d.work \in Seq(Nat) /\ Len(d.work) \in Nat /\ Len(d.work) >= 1
         /\ DOMAIN d.work = 1..Len(d.work) /\ Head(d.work) = d.work[1]
         /\ Head(d.work) \in DOMAIN d.tokens /\ DOMAIN d.tokens = 1..Len(d.tokens)
         /\ Len(d.tokens) \in Nat
         /\ Len(Tail(d.work)) = Len(d.work) - 1
         /\ DOMAIN Tail(d.work) = 1..(Len(d.work) - 1)
         /\ \A k \in 1..(Len(d.work) - 1) : Tail(d.work)[k] = d.work[k + 1]
         /\ \A k \in 1..Len(d.work) : d.work[k] \in 1..Len(d.tokens)
<1>1. d.work \in Seq(Nat) /\ d.tokens \in Seq(TokenRows)
  BY DEF Drivable, DriveRows
<1>2. Head(d.work) \in DOMAIN d.tokens
  BY PopKeeps
<1>3. \A k \in DOMAIN d.work : d.work[k] \in DOMAIN d.tokens
  BY DEF Drivable
<1> QED BY <1>1, <1>2, <1>3, SMTT(30)

\* A move, on the indices of both lists.
LEMMA MoveDomains ==
  ASSUME NEW d, Drivable(d), d.work # << >>, NEW e, Drivable(e), NEW targets \in Seq(Nodes),
         Moves(d, e, targets)
  PROVE  /\ DOMAIN e.tokens = 1..(Len(d.tokens) + Len(targets)) /\ Len(targets) \in Nat
         /\ DOMAIN e.work = 1..(Len(d.work) - 1 + Len(targets))
         /\ \A j \in DOMAIN e.tokens : j \in 1..Len(d.tokens)
              \/ \E k \in 1..Len(targets) : j = Len(d.tokens) + k
         /\ \A j \in DOMAIN e.work : j \in 1..(Len(d.work) - 1)
              \/ \E k \in 1..Len(targets) : j = Len(d.work) - 1 + k
<1>1. /\ Len(e.tokens) = Len(d.tokens) + Len(targets)
      /\ Len(e.work) = Len(d.work) - 1 + Len(targets)
  BY DEF Moves
<1>2. e.tokens \in Seq(TokenRows) /\ e.work \in Seq(Nat)
  BY DEF Drivable, DriveRows
<1>3. DOMAIN e.tokens = 1..Len(e.tokens) /\ DOMAIN e.work = 1..Len(e.work)
  BY <1>2
<1>4. Len(d.tokens) \in Nat /\ Len(d.work) \in Nat /\ Len(d.work) >= 1 /\ Len(targets) \in Nat
  BY WorkTyped
<1>5. ASSUME NEW L \in Nat, NEW T \in Nat, NEW j \in 1..(L + T), j \notin 1..L
      PROVE  \E k \in 1..T : j = L + k
  <2>1. j - L \in 1..T /\ j = L + (j - L)
    BY <1>5
  <2> QED BY <2>1
<1> DEFINE W == Len(d.work) - 1
           L == Len(d.tokens)
           T == Len(targets)
<1>6. W \in Nat /\ L \in Nat /\ T \in Nat
  BY <1>4
<1>7. DOMAIN e.tokens = 1..(L + T) /\ DOMAIN e.work = 1..(W + T)
  BY <1>1, <1>3
<1> HIDE DEF W, L, T
<1>8. /\ \A j \in 1..(L + T) : j \in 1..L \/ \E k \in 1..T : j = L + k
      /\ \A j \in 1..(W + T) : j \in 1..W \/ \E k \in 1..T : j = W + k
  BY <1>5, <1>6
<1> QED BY <1>6, <1>7, <1>8 DEF W, L, T

\* A visit follows the drive.
LEMMA FollowsOn ==
  ASSUME NEW d, Drivable(d), def \in Definitions, Len(clocks) \in Nat,
         NEW x, Drivable(x), Follows(x, d), x.work # << >>
  PROVE  Follows(Visit(x), d)
<1> DEFINE n == x.tokens[Head(x.work)].node
           e == Visit(x)
<1>1. /\ n \in Nodes /\ Notes(x.incidents, e.incidents)
      /\ \/ Parking(n) /\ Parks(x, e, n)
         \/ ~Parking(n) /\ \E targets : Leads(x, n, targets) /\ Moves(x, e, targets)
  BY VisitCases
<1>2. Drivable(e)
  BY VisitKeeps
<1> HIDE DEF e
<1>3. Notes(d.incidents, e.incidents)
  BY <1>1 DEF Follows, Notes
<1>4. TokensFollow(x.tokens, d.tokens) /\ TasksFollow(x.tasks, d.tasks)
  BY DEF Follows
<1>5. CASE Parking(n) /\ Parks(x, e, n)
  <2>1. e.tokens = x.tokens
    BY <1>5 DEF Parks
  <2>2. CASE e.tasks = x.tasks
    BY <1>3, <1>4, <2>1, <2>2 DEF Follows, e
  <2>3. CASE e.tasks # x.tasks
    <3> DEFINE row == [node |-> n, status |-> "AVAILABLE", claimedBy |-> NoUser]
    <3>1. e.tasks = Append(x.tasks, row) /\ def.type[n] \in TaskTypes
      BY <1>5, <2>3 DEF Parks
    <3>2. x.tasks \in Seq(TaskRows) /\ row \in TaskRows
      BY <1>1 DEF Drivable, DriveRows, TaskRows
    <3>3. row.node = n /\ row.status = "AVAILABLE"
      OBVIOUS
    <3> HIDE DEF row, n
    <3>4. /\ \A k \in DOMAIN x.tasks : k \in DOMAIN e.tasks /\ e.tasks[k] = x.tasks[k]
          /\ \A k \in DOMAIN e.tasks : k \in DOMAIN x.tasks \/ e.tasks[k] = row
      BY <3>1, <3>2
    <3>5. TasksFollow(e.tasks, d.tasks)
      BY <1>4, <3>1, <3>3, <3>4 DEF TasksFollow
    <3> QED BY <1>3, <1>4, <2>1, <3>5 DEF Follows, e
  <2> QED BY <2>2, <2>3
<1>6. CASE ~Parking(n) /\ \E targets : Leads(x, n, targets) /\ Moves(x, e, targets)
  <2>1. PICK targets : Leads(x, n, targets) /\ Moves(x, e, targets)
    BY <1>6
  <2>2. targets \in Seq(Nodes)
    BY <2>1 DEF Leads
  <2>3. DOMAIN x.tokens = 1..Len(x.tokens) /\ Len(x.tokens) \in Nat /\ Len(targets) \in Nat
        /\ DOMAIN e.tokens = 1..(Len(x.tokens) + Len(targets))
    BY <1>2, <2>1, <2>2, MoveDomains, WorkTyped
  <2>4. /\ \A j \in DOMAIN x.tokens : e.tokens[j].node = x.tokens[j].node
        /\ \A j \in DOMAIN x.tokens : e.tokens[j].live <=> x.tokens[j].live /\ j # Head(x.work)
        /\ e.tasks = x.tasks
    BY <2>1, <2>3 DEF Moves
  <2>5. DOMAIN x.tokens \subseteq DOMAIN e.tokens
    BY <2>3
  <2>6. TokensFollow(e.tokens, d.tokens)
    BY <1>4, <1>6, <2>4, <2>5 DEF TokensFollow
  <2> QED BY <1>3, <1>4, <2>4, <2>6 DEF Follows, e
<1> QED BY <1>1, <1>5, <1>6

\* A visit keeps the list steady.
LEMMA SteadyOn ==
  ASSUME def \in Definitions, Len(clocks) \in Nat,
         NEW x, Drivable(x), Steady(x.tokens, x.work), x.work # << >>
  PROVE  Steady(Visit(x).tokens, Visit(x).work)
<1> DEFINE n == x.tokens[Head(x.work)].node
           e == Visit(x)
           L == Len(x.tokens)
           W == Len(x.work) - 1
<1>1. \/ Parking(n) /\ Parks(x, e, n)
      \/ ~Parking(n) /\ \E targets : Leads(x, n, targets) /\ Moves(x, e, targets)
  BY VisitCases
<1>2. Drivable(e)
  BY VisitKeeps
<1>3. /\ Head(x.work) = x.work[1] /\ Head(x.work) \in 1..L /\ L \in Nat /\ W \in Nat
      /\ DOMAIN x.tokens = 1..L /\ DOMAIN x.work = 1..(W + 1)
      /\ DOMAIN Tail(x.work) = 1..W /\ \A k \in 1..W : Tail(x.work)[k] = x.work[k + 1]
      /\ \A k \in 1..(W + 1) : x.work[k] \in 1..L
  <2>1. /\ Len(x.work) \in Nat /\ Len(x.work) >= 1 /\ L \in Nat
        /\ DOMAIN x.work = 1..Len(x.work) /\ Head(x.work) = x.work[1]
        /\ Head(x.work) \in DOMAIN x.tokens /\ DOMAIN x.tokens = 1..L
        /\ DOMAIN Tail(x.work) = 1..(Len(x.work) - 1)
        /\ \A k \in 1..(Len(x.work) - 1) : Tail(x.work)[k] = x.work[k + 1]
        /\ \A k \in 1..Len(x.work) : x.work[k] \in 1..L
    BY WorkTyped
  <2>2. W \in Nat /\ W + 1 = Len(x.work)
    BY <2>1
  <2> QED BY <2>1, <2>2
<1> HIDE DEF e, L, W
<1>4. /\ \A k \in 1..(W + 1) :
           \/ Parking(x.tokens[x.work[k]].node)
           \/ x.tokens[x.work[k]].live /\ \A l \in 1..(W + 1) : x.work[l] = x.work[k] => l = k
      /\ \A i \in 1..L : x.tokens[i].live =>
           Parking(x.tokens[i].node) \/ \E k \in 1..(W + 1) : x.work[k] = i
  BY <1>3 DEF Steady, Live
<1>5. \A k \in 1..W : k + 1 \in 1..(W + 1) /\ \A l \in 1..W : k + 1 = l + 1 => k = l
  BY <1>3
<1>6. \A k \in 1..(W + 1) : k = 1 \/ (k - 1 \in 1..W /\ (k - 1) + 1 = k)
  BY <1>3
<1>7. CASE Parking(n) /\ Parks(x, e, n)
  <2>1. e.tokens = x.tokens /\ DOMAIN e.work = 1..W /\ \A k \in 1..W : e.work[k] = x.work[k + 1]
    BY <1>3, <1>7 DEF Parks
  <2>2. ASSUME NEW k \in 1..W
        PROVE  \/ Parking(x.tokens[e.work[k]].node)
               \/ x.tokens[e.work[k]].live /\ \A l \in 1..W : e.work[l] = e.work[k] => l = k
    BY <1>4, <1>5, <2>1
  <2>3. ASSUME NEW i \in 1..L, x.tokens[i].live, ~Parking(x.tokens[i].node)
        PROVE  \E k \in 1..W : e.work[k] = i
    <3>1. PICK k \in 1..(W + 1) : x.work[k] = i
      BY <1>4, <2>3
    <3>2. k # 1
      BY <1>3, <1>7, <2>3, <3>1
    <3>3. k - 1 \in 1..W /\ (k - 1) + 1 = k
      BY <1>6, <3>2
    <3> QED BY <2>1, <3>1, <3>3
  <2>4. Steady(e.tokens, e.work)
    <3>1. DOMAIN e.tokens = 1..L
      BY <1>3, <2>1
    <3>2. \A i \in Live(e.tokens) : Parking(e.tokens[i].node) \/ \E k \in DOMAIN e.work : e.work[k] = i
      BY <2>1, <2>3, <3>1 DEF Live
    <3>3. \A k \in DOMAIN e.work :
            \/ Parking(e.tokens[e.work[k]].node)
            \/ e.tokens[e.work[k]].live /\ \A l \in DOMAIN e.work : e.work[l] = e.work[k] => l = k
      BY <2>1, <2>2
    <3> QED BY <3>2, <3>3 DEF Steady
  <2> QED BY <2>4 DEF e
<1>8. CASE ~Parking(n) /\ \E targets : Leads(x, n, targets) /\ Moves(x, e, targets)
  <2>1. PICK targets : Leads(x, n, targets) /\ Moves(x, e, targets)
    BY <1>8
  <2> DEFINE T == Len(targets)
  <2>2. targets \in Seq(Nodes)
    BY <2>1 DEF Leads
  <2>3. /\ T \in Nat /\ DOMAIN e.tokens = 1..(L + T) /\ DOMAIN e.work = 1..(W + T)
        /\ \A j \in 1..(L + T) : j \in 1..L \/ \E k \in 1..T : j = L + k
        /\ \A j \in 1..(W + T) : j \in 1..W \/ \E k \in 1..T : j = W + k
    <3>1. /\ Len(targets) \in Nat /\ DOMAIN e.tokens = 1..(Len(x.tokens) + Len(targets))
          /\ DOMAIN e.work = 1..(Len(x.work) - 1 + Len(targets))
          /\ \A j \in DOMAIN e.tokens : j \in 1..Len(x.tokens)
               \/ \E k \in 1..Len(targets) : j = Len(x.tokens) + k
          /\ \A j \in DOMAIN e.work : j \in 1..(Len(x.work) - 1)
               \/ \E k \in 1..Len(targets) : j = Len(x.work) - 1 + k
      BY <1>2, <2>1, <2>2, MoveDomains
    <3> QED BY <3>1, Zenon DEF L, W, T
  <2>4. /\ \A j \in 1..L : e.tokens[j].node = x.tokens[j].node
        /\ \A j \in 1..L : e.tokens[j].live <=> x.tokens[j].live /\ j # Head(x.work)
        /\ \A k \in 1..T : e.tokens[L + k].node = targets[k] /\ e.tokens[L + k].live
        /\ \A k \in 1..W : e.work[k] = x.work[k + 1]
        /\ \A k \in 1..T : e.work[W + k] = L + k
    BY <2>1 DEF Moves, L, W
  <2> HIDE DEF T
  <2>40. \A k \in 1..T : L + k \notin 1..L /\ \A l \in 1..T : L + k = L + l => k = l
    BY <1>3, <2>3
  <2>5. ASSUME NEW k \in 1..W
        PROVE  \/ Parking(e.tokens[e.work[k]].node)
               \/ e.tokens[e.work[k]].live /\ \A l \in 1..(W + T) : e.work[l] = e.work[k] => l = k
    <3>1. k + 1 \in 1..(W + 1) /\ e.work[k] = x.work[k + 1] /\ x.work[k + 1] \in 1..L
      BY <1>3, <1>5, <2>4
    <3>2. CASE Parking(x.tokens[x.work[k + 1]].node)
      BY <2>4, <3>1, <3>2
    <3>3. CASE x.tokens[x.work[k + 1]].live
               /\ \A l \in 1..(W + 1) : x.work[l] = x.work[k + 1] => l = k + 1
      <4>1. x.work[k + 1] # Head(x.work)
        <5>1. 1 \in 1..(W + 1) /\ 1 # k + 1
          BY <1>3
        <5> QED BY <1>3, <3>3, <5>1
      <4>2. \A l \in 1..W : e.work[l] = e.work[k] => l = k
        BY <1>5, <2>4, <3>1, <3>3
      <4>3. \A l \in 1..T : e.work[W + l] # e.work[k]
        BY <2>4, <2>40, <3>1
      <4> QED BY <2>3, <2>4, <3>1, <3>3, <4>1, <4>2, <4>3
    <3> QED BY <1>4, <3>1, <3>2, <3>3
  <2>6. ASSUME NEW k \in 1..T
        PROVE  e.tokens[e.work[W + k]].live /\ \A l \in 1..(W + T) : e.work[l] = e.work[W + k] => l = W + k
    <3>1. e.work[W + k] = L + k
      BY <2>4
    <3>2. \A l \in 1..W : e.work[l] # L + k
      <4>1. \A l \in 1..W : e.work[l] \in 1..L
        BY <1>3, <1>5, <2>4
      <4> QED BY <2>40, <4>1
    <3>3. \A l \in 1..T : e.work[W + l] = L + k => W + l = W + k
      BY <2>4, <2>40
    <3> QED BY <2>3, <2>4, <3>1, <3>2, <3>3
  <2>7. ASSUME NEW i \in 1..(L + T), e.tokens[i].live, ~Parking(e.tokens[i].node)
        PROVE  \E k \in 1..(W + T) : e.work[k] = i
    <3>1. CASE i \in 1..L
      <4>1. PICK k \in 1..(W + 1) : x.work[k] = i
        BY <1>4, <2>4, <2>7, <3>1
      <4>2. k # 1
        BY <1>3, <2>4, <2>7, <3>1, <4>1
      <4>3. k - 1 \in 1..W /\ (k - 1) + 1 = k
        BY <1>6, <4>2
      <4>4. k - 1 \in 1..(W + T)
        BY <1>3, <2>3, <4>3
      <4> QED BY <2>4, <4>1, <4>3, <4>4
    <3>2. CASE i \notin 1..L
      <4>1. PICK k \in 1..T : i = L + k
        BY <2>3, <3>2
      <4>2. W + k \in 1..(W + T)
        BY <1>3, <2>3
      <4> QED BY <2>4, <4>1, <4>2
    <3> QED BY <3>1, <3>2
  <2> QED BY <2>3, <2>5, <2>6, <2>7, SMTT(30) DEF Steady, Live, e
<1> QED BY <1>1, <1>7, <1>8

\* A visit, without the places on the worklist: what was listed stays listed but
\* for the token visited, and what is listed anew is a new active token.
LEMMA VisitShape ==
  ASSUME def \in Definitions, Len(clocks) \in Nat, NEW x, Drivable(x), x.work # << >>
  PROVE  LET e == Visit(x)
             i == Head(x.work)
             n == x.tokens[Head(x.work)].node
         IN  /\ i \in DOMAIN x.tokens /\ n \in Nodes /\ DOMAIN x.tokens \subseteq DOMAIN e.tokens
             /\ \E k \in DOMAIN x.work : x.work[k] = i
             /\ \A k \in DOMAIN x.work : x.work[k] # i => \E l \in DOMAIN e.work : e.work[l] = x.work[k]
             /\ \A l \in DOMAIN e.work :
                  (\E k \in DOMAIN x.work : x.work[k] = e.work[l])
                    \/ e.work[l] \in DOMAIN e.tokens \ DOMAIN x.tokens
             /\ \A j \in DOMAIN x.tokens :
                  /\ e.tokens[j].node = x.tokens[j].node
                  /\ e.tokens[j].live <=> x.tokens[j].live /\ (j # i \/ Parking(n))
             /\ \A j \in DOMAIN e.tokens \ DOMAIN x.tokens :
                  e.tokens[j].live /\ \E l \in DOMAIN e.work : e.work[l] = j
             /\ \/ e.tasks = x.tasks /\ (def.type[n] \in TaskTypes => Attended(x.tasks, n))
                \/ /\ def.type[n] \in TaskTypes /\ ~Attended(x.tasks, n)
                   /\ e.tasks = Append(x.tasks, [node |-> n, status |-> "AVAILABLE",
                                                 claimedBy |-> NoUser])
<1> DEFINE i == Head(x.work)
           n == x.tokens[Head(x.work)].node
           e == Visit(x)
           L == Len(x.tokens)
           W == Len(x.work) - 1
<1>1. /\ n \in Nodes
      /\ \/ Parking(n) /\ Parks(x, e, n)
         \/ ~Parking(n) /\ \E targets : Leads(x, n, targets) /\ Moves(x, e, targets)
  BY VisitCases
<1>2. Drivable(e)
  BY VisitKeeps
<1>3. /\ i = x.work[1] /\ i \in 1..L /\ L \in Nat /\ W \in Nat
      /\ DOMAIN x.tokens = 1..L /\ DOMAIN x.work = 1..(W + 1)
      /\ DOMAIN Tail(x.work) = 1..W /\ \A k \in 1..W : Tail(x.work)[k] = x.work[k + 1]
  <2>1. /\ Len(x.work) \in Nat /\ Len(x.work) >= 1 /\ L \in Nat
        /\ DOMAIN x.work = 1..Len(x.work) /\ i = x.work[1]
        /\ i \in DOMAIN x.tokens /\ DOMAIN x.tokens = 1..L
        /\ DOMAIN Tail(x.work) = 1..(Len(x.work) - 1)
        /\ \A k \in 1..(Len(x.work) - 1) : Tail(x.work)[k] = x.work[k + 1]
    BY WorkTyped
  <2>2. W \in Nat /\ W + 1 = Len(x.work)
    BY <2>1
  <2> QED BY <2>1, <2>2
<1> HIDE DEF e, L, W, i, n
<1>4. 1 \in 1..(W + 1) /\ \A k \in 1..W : k + 1 \in 1..(W + 1)
  BY <1>3
<1>5. \A k \in 1..(W + 1) : k = 1 \/ (k - 1 \in 1..W /\ (k - 1) + 1 = k)
  BY <1>3
<1>6. CASE Parking(n) /\ Parks(x, e, n)
  <2>1. e.tokens = x.tokens /\ DOMAIN e.work = 1..W /\ \A k \in 1..W : e.work[k] = x.work[k + 1]
    BY <1>3, <1>6 DEF Parks
  <2>2. /\ \A k \in DOMAIN x.work : x.work[k] # i => \E l \in DOMAIN e.work : e.work[l] = x.work[k]
        /\ \A l \in DOMAIN e.work : \E k \in DOMAIN x.work : x.work[k] = e.work[l]
    <3>1. ASSUME NEW k \in 1..(W + 1), x.work[k] # i
          PROVE  \E l \in 1..W : e.work[l] = x.work[k]
      <4>1. k - 1 \in 1..W /\ (k - 1) + 1 = k
        BY <1>3, <1>5, <3>1
      <4> QED BY <2>1, <4>1
    <3>2. \A l \in 1..W : \E k \in 1..(W + 1) : x.work[k] = e.work[l]
      BY <1>4, <2>1
    <3> QED BY <1>3, <2>1, <3>1, <3>2
  <2>3. \/ e.tasks = x.tasks /\ (def.type[n] \in TaskTypes => Attended(x.tasks, n))
        \/ /\ def.type[n] \in TaskTypes /\ ~Attended(x.tasks, n)
           /\ e.tasks = Append(x.tasks, [node |-> n, status |-> "AVAILABLE", claimedBy |-> NoUser])
    BY <1>6 DEF Parks
  <2>4. \E k \in DOMAIN x.work : x.work[k] = i
    BY <1>3, <1>4
  <2> QED BY <1>1, <1>3, <1>6, <2>1, <2>2, <2>3, <2>4, Zenon DEF e, i, n
<1>7. CASE ~Parking(n) /\ \E targets : Leads(x, n, targets) /\ Moves(x, e, targets)
  <2>1. PICK targets : Leads(x, n, targets) /\ Moves(x, e, targets)
    BY <1>7
  <2> DEFINE T == Len(targets)
  <2>2. targets \in Seq(Nodes)
    BY <2>1 DEF Leads
  <2>3. /\ T \in Nat /\ DOMAIN e.tokens = 1..(L + T) /\ DOMAIN e.work = 1..(W + T)
        /\ \A j \in 1..(L + T) : j \in 1..L \/ \E k \in 1..T : j = L + k
        /\ \A j \in 1..(W + T) : j \in 1..W \/ \E k \in 1..T : j = W + k
    <3>1. /\ Len(targets) \in Nat /\ DOMAIN e.tokens = 1..(Len(x.tokens) + Len(targets))
          /\ DOMAIN e.work = 1..(Len(x.work) - 1 + Len(targets))
          /\ \A j \in DOMAIN e.tokens : j \in 1..Len(x.tokens)
               \/ \E k \in 1..Len(targets) : j = Len(x.tokens) + k
          /\ \A j \in DOMAIN e.work : j \in 1..(Len(x.work) - 1)
               \/ \E k \in 1..Len(targets) : j = Len(x.work) - 1 + k
      BY <1>2, <2>1, <2>2, MoveDomains
    <3> QED BY <3>1, Zenon DEF L, W, T
  <2>4. /\ \A j \in 1..L : e.tokens[j].node = x.tokens[j].node
        /\ \A j \in 1..L : e.tokens[j].live <=> x.tokens[j].live /\ j # i
        /\ \A k \in 1..T : e.tokens[L + k].live
        /\ \A k \in 1..W : e.work[k] = x.work[k + 1]
        /\ \A k \in 1..T : e.work[W + k] = L + k
        /\ e.tasks = x.tasks
    BY <2>1 DEF Moves, L, W, i
  <2> HIDE DEF T
  <2>5. /\ \A k \in 1..W : k \in 1..(W + T)
        /\ \A k \in 1..L : k \in 1..(L + T)
        /\ \A k \in 1..T : W + k \in 1..(W + T) /\ L + k \in 1..(L + T) /\ L + k \notin 1..L
    BY <1>3, <2>3
  <2>6. ASSUME NEW k \in 1..(W + 1), x.work[k] # i
        PROVE  \E l \in 1..(W + T) : e.work[l] = x.work[k]
    <3>1. k - 1 \in 1..W /\ (k - 1) + 1 = k
      BY <1>3, <1>5, <2>6
    <3> QED BY <2>4, <2>5, <3>1
  <2>7. ASSUME NEW l \in 1..(W + T)
        PROVE  (\E k \in 1..(W + 1) : x.work[k] = e.work[l]) \/ e.work[l] \in (1..(L + T)) \ (1..L)
    <3>1. CASE l \in 1..W
      BY <1>4, <2>4, <3>1
    <3>2. CASE \E k \in 1..T : l = W + k
      BY <2>4, <2>5, <3>2
    <3> QED BY <2>3, <3>1, <3>2
  <2>8. ASSUME NEW j \in (1..(L + T)) \ (1..L)
        PROVE  e.tokens[j].live /\ \E l \in 1..(W + T) : e.work[l] = j
    <3>1. PICK k \in 1..T : j = L + k
      BY <2>3
    <3> QED BY <2>4, <2>5, <3>1
  <2>9. def.type[n] \notin TaskTypes
    BY <1>7 DEF Parking
  <2>10. \E k \in DOMAIN x.work : x.work[k] = i
    BY <1>3, <1>4
  <2>11. 1..L \subseteq 1..(L + T)
    BY <2>5
  <2> QED BY <1>1, <1>3, <1>7, <2>3, <2>4, <2>6, <2>7, <2>8, <2>9, <2>10, <2>11, ZenonT(60) DEF e, i, n
<1> QED BY <1>1, <1>6, <1>7

\* A visit keeps open tasks covered.
LEMMA CoveredOn ==
  ASSUME def \in Definitions, Len(clocks) \in Nat, NEW x, Drivable(x), x.work # << >>,
         Covered(x.tokens, x.tasks, x.work),
         \A k \in DOMAIN x.tasks : def.type[x.tasks[k].node] \in TaskTypes
  PROVE  /\ Covered(Visit(x).tokens, Visit(x).tasks, Visit(x).work)
         /\ \A k \in DOMAIN Visit(x).tasks : def.type[Visit(x).tasks[k].node] \in TaskTypes
<1> DEFINE e == Visit(x)
           i == Head(x.work)
           n == x.tokens[Head(x.work)].node
           row == [node |-> n, status |-> "AVAILABLE", claimedBy |-> NoUser]
<1>1. /\ i \in DOMAIN x.tokens /\ n \in Nodes /\ DOMAIN x.tokens \subseteq DOMAIN e.tokens
      /\ \E k \in DOMAIN x.work : x.work[k] = i
      /\ \A l \in DOMAIN e.work :
           (\E k \in DOMAIN x.work : x.work[k] = e.work[l])
             \/ e.work[l] \in DOMAIN e.tokens \ DOMAIN x.tokens
      /\ \A j \in DOMAIN x.tokens :
           /\ e.tokens[j].node = x.tokens[j].node
           /\ e.tokens[j].live <=> x.tokens[j].live /\ (j # i \/ Parking(n))
      /\ \A j \in DOMAIN e.tokens \ DOMAIN x.tokens : e.tokens[j].live
      /\ \/ e.tasks = x.tasks
         \/ def.type[n] \in TaskTypes /\ e.tasks = Append(x.tasks, row)
  BY VisitShape
<1>2. /\ x.tasks \in Seq(TaskRows) /\ row \in TaskRows
      /\ \A k \in DOMAIN x.work : x.work[k] \in DOMAIN x.tokens
  BY <1>1 DEF Drivable, DriveRows, TaskRows
<1>3. row.node = n /\ n = x.tokens[i].node
  OBVIOUS
<1>4. \A m : def.type[m] \in TaskTypes => Parking(m)
  BY DEF Parking
<1> HIDE DEF e, row, i, n
<1>5. \A k \in DOMAIN e.tasks : (k \in DOMAIN x.tasks /\ e.tasks[k] = x.tasks[k])
        \/ (def.type[n] \in TaskTypes /\ e.tasks[k] = row)
  BY <1>1, <1>2
<1>6. \A k \in DOMAIN e.tasks : def.type[e.tasks[k].node] \in TaskTypes
  BY <1>3, <1>5
<1>7. ASSUME NEW j \in Live(x.tokens), def.type[x.tokens[j].node] \in TaskTypes
      PROVE  j \in Live(e.tokens) /\ e.tokens[j].node = x.tokens[j].node
  BY <1>1, <1>3, <1>4, <1>7 DEF Live
<1>8. ASSUME NEW k \in DOMAIN e.tasks, IsOpen(e.tasks[k])
      PROVE  \E j \in Live(e.tokens) : e.tokens[j].node = e.tasks[k].node
  <2>1. CASE k \in DOMAIN x.tasks /\ e.tasks[k] = x.tasks[k]
    <3>1. PICK j \in Live(x.tokens) : x.tokens[j].node = x.tasks[k].node
      BY <1>8, <2>1 DEF Covered
    <3> QED BY <1>7, <2>1, <3>1
  <2>2. CASE def.type[n] \in TaskTypes /\ e.tasks[k] = row
    <3>1. i \in Live(x.tokens)
      BY <1>1, <1>3, <2>2 DEF Covered, Live
    <3> QED BY <1>3, <1>7, <2>2, <3>1
  <2> QED BY <1>5, <2>1, <2>2
<1>9. ASSUME NEW l \in DOMAIN e.work, def.type[e.tokens[e.work[l]].node] \in TaskTypes
      PROVE  e.tokens[e.work[l]].live
  <2>1. CASE \E k \in DOMAIN x.work : x.work[k] = e.work[l]
    <3>1. PICK k \in DOMAIN x.work : x.work[k] = e.work[l]
      BY <2>1
    <3>2. x.work[k] \in DOMAIN x.tokens /\ def.type[x.tokens[x.work[k]].node] \in TaskTypes
      BY <1>1, <1>2, <1>9, <3>1
    <3>3. x.work[k] \in Live(x.tokens)
      BY <3>2 DEF Covered, Live
    <3> QED BY <1>7, <3>1, <3>2, <3>3 DEF Live
  <2>2. CASE e.work[l] \in DOMAIN e.tokens \ DOMAIN x.tokens
    BY <1>1, <2>2
  <2> QED BY <1>1, <2>1, <2>2
<1>10. Covered(e.tokens, e.tasks, e.work)
  BY <1>8, <1>9 DEF Covered
<1> QED BY <1>6, <1>10 DEF e

\* A visit keeps active tokens tended.
LEMMA TendedOn ==
  ASSUME def \in Definitions, Len(clocks) \in Nat, NEW x, Drivable(x), x.work # << >>,
         OpenIsNewest(x.tasks)
  PROVE  /\ OpenIsNewest(Visit(x).tasks)
         /\ \A U : Tended(U, x.tokens, x.tasks, x.work) =>
                    Tended(U, Visit(x).tokens, Visit(x).tasks, Visit(x).work)
<1> DEFINE e == Visit(x)
           i == Head(x.work)
           n == x.tokens[Head(x.work)].node
           row == [node |-> n, status |-> "AVAILABLE", claimedBy |-> NoUser]
           last == Len(x.tasks) + 1
<1>1. /\ i \in DOMAIN x.tokens /\ n \in Nodes /\ DOMAIN x.tokens \subseteq DOMAIN e.tokens
      /\ \A k \in DOMAIN x.work : x.work[k] # i => \E l \in DOMAIN e.work : e.work[l] = x.work[k]
      /\ \A j \in DOMAIN x.tokens :
           /\ e.tokens[j].node = x.tokens[j].node
           /\ e.tokens[j].live <=> x.tokens[j].live /\ (j # i \/ Parking(n))
      /\ \A j \in DOMAIN e.tokens \ DOMAIN x.tokens : \E l \in DOMAIN e.work : e.work[l] = j
      /\ \/ e.tasks = x.tasks /\ (def.type[n] \in TaskTypes => Attended(x.tasks, n))
         \/ def.type[n] \in TaskTypes /\ ~Attended(x.tasks, n) /\ e.tasks = Append(x.tasks, row)
  BY VisitShape
<1>2. x.tasks \in Seq(TaskRows) /\ row \in TaskRows
  BY <1>1 DEF Drivable, DriveRows, TaskRows
<1>3. row.node = n /\ n = x.tokens[i].node /\ row.status # "FINISHED"
  OBVIOUS
<1> HIDE DEF e, row, i, n
<1>4. ASSUME e.tasks = Append(x.tasks, row)
      PROVE  /\ DOMAIN e.tasks = DOMAIN x.tasks \cup {last} /\ e.tasks[last] = row
             /\ \A k \in DOMAIN x.tasks : e.tasks[k] = x.tasks[k]
             /\ \A k \in DOMAIN e.tasks : k <= last
             /\ \A k \in DOMAIN x.tasks : ~(last <= k)
  BY <1>2, <1>4, SMTT(30)
<1> HIDE DEF last
<1>5. OpenIsNewest(e.tasks)
  <2>1. CASE e.tasks = x.tasks
    BY <2>1
  <2>2. CASE ~Attended(x.tasks, n) /\ e.tasks = Append(x.tasks, row)
    <3>1. ASSUME NEW k \in DOMAIN e.tasks, NEW m \in DOMAIN e.tasks, IsOpen(e.tasks[k]),
                 e.tasks[k].node = e.tasks[m].node
          PROVE  m <= k
      <4>1. CASE k = last
        BY <1>4, <2>2, <4>1
      <4>2. CASE k \in DOMAIN x.tasks /\ m = last
        BY <1>3, <1>4, <2>2, <3>1, <4>2 DEF Attended
      <4>3. CASE k \in DOMAIN x.tasks /\ m \in DOMAIN x.tasks
        BY <1>4, <2>2, <3>1, <4>3 DEF OpenIsNewest
      <4> QED BY <1>4, <2>2, <4>1, <4>2, <4>3
    <3> QED BY <3>1 DEF OpenIsNewest
  <2> QED BY <1>1, <2>1, <2>2
<1>6. ASSUME NEW m, Held(x.tasks, m), m # n \/ e.tasks = x.tasks
      PROVE  Held(e.tasks, m)
  <2>1. CASE e.tasks = x.tasks
    BY <1>6, <2>1
  <2>2. CASE m # n /\ e.tasks = Append(x.tasks, row)
    BY <1>3, <1>4, <1>6, <2>2 DEF Held
  <2> QED BY <1>1, <1>6, <2>1, <2>2
<1>7. ASSUME def.type[n] \in TaskTypes
      PROVE  Held(e.tasks, n)
  <2>1. CASE e.tasks = x.tasks
    <3>1. PICK k \in DOMAIN x.tasks : x.tasks[k].node = n /\ IsOpen(x.tasks[k])
      <4>1. CASE Attended(x.tasks, n)
        BY <4>1 DEF Attended
      <4>2. CASE e.tasks = Append(x.tasks, row)
        BY <1>2, <2>1, <4>2
      <4> QED BY <1>1, <1>7, <4>1, <4>2
    <3>2. x.tasks[k].status # "FINISHED"
      BY <3>1 DEF IsOpen, OpenTask
    <3> QED BY <2>1, <3>1, <3>2 DEF Held, OpenIsNewest
  <2>2. CASE e.tasks = Append(x.tasks, row)
    BY <1>3, <1>4, <2>2 DEF Held
  <2> QED BY <1>1, <2>1, <2>2
<1>8. ASSUME NEW U, Tended(U, x.tokens, x.tasks, x.work),
             NEW j \in Live(e.tokens) \ U, def.type[e.tokens[j].node] \in TaskTypes
      PROVE  Held(e.tasks, e.tokens[j].node) \/ \E l \in DOMAIN e.work : e.work[l] = j
  <2>1. CASE j \notin DOMAIN x.tokens
    BY <1>1, <2>1 DEF Live
  <2>2. CASE j \in DOMAIN x.tokens
    <3>1. j \in Live(x.tokens) /\ e.tokens[j].node = x.tokens[j].node
      BY <1>1, <2>2 DEF Live
    <3>2. CASE x.tokens[j].node = n
      BY <1>7, <1>8, <3>1, <3>2
    <3>3. CASE x.tokens[j].node # n
      <4>1. j # i
        BY <1>3, <3>3
      <4>2. Held(x.tasks, x.tokens[j].node) \/ \E k \in DOMAIN x.work : x.work[k] = j
        BY <1>8, <3>1 DEF Tended
      <4> QED BY <1>1, <1>6, <3>1, <3>3, <4>1, <4>2
    <3> QED BY <3>2, <3>3
  <2> QED BY <2>1, <2>2
<1>9. \A U : Tended(U, x.tokens, x.tasks, x.work) => Tended(U, e.tokens, e.tasks, e.work)
  BY <1>8 DEF Tended
<1> QED BY <1>5, <1>9 DEF e

-----------------------------------------------------------------------------
(* The arithmetic of the joins                                             *)

\* The edges of a definition are counted.
LEMMA EdgesFinite ==
  ASSUME def \in Definitions, NEW m
  PROVE  /\ IsFiniteSet(In(def, m)) /\ InDegree(m) \in Nat
         /\ \A a \in Nodes : \A x \in DOMAIN def.out[a] : def.out[a][x] = m => <<a, x>> \in In(def, m)
<1> DEFINE d == def
           E(a) == {a} \X DOMAIN d.out[a]
           Es == {E(a) : a \in Nodes}
<1>1. IsDefinition(d)
  BY DefinitionsAssumption
<1>2. IsFiniteSet(Nodes) /\ DOMAIN d.out = Nodes /\ \A a \in Nodes : d.out[a] \in Seq(Nodes)
  BY <1>1 DEF IsDefinition, Nodes
<1>3. In(d, m) = {e \in UNION Es : d.out[e[1]][e[2]] = m}
  BY <1>2 DEF In
<1> HIDE DEF d
<1>4. ASSUME NEW a \in Nodes PROVE IsFiniteSet(E(a))
  <2>1. DOMAIN d.out[a] = 1..Len(d.out[a]) /\ Len(d.out[a]) \in Nat
    BY <1>2
  <2>2. IsFiniteSet(DOMAIN d.out[a])
    BY <2>1, FS_Interval
  <2>3. IsFiniteSet({a})
    BY FS_Singleton
  <2> QED BY <2>2, <2>3, FS_Product
<1>5. IsFiniteSet(Es)
  <2> DEFINE f == [a \in Nodes |-> E(a)]
  <2> HIDE DEF E
  <2>1. f \in Surjection(Nodes, Es)
    BY DEF Surjection
  <2> HIDE DEF f, Es
  <2> QED BY <1>2, <2>1, FS_Surjection
<1>6. IsFiniteSet(UNION Es)
  <2>1. \A T \in Es : IsFiniteSet(T)
    BY <1>4
  <2> HIDE DEF Es
  <2> QED BY <1>5, <2>1, FS_UNION
<1>7. IsFiniteSet(In(d, m))
  <2> HIDE DEF Es
  <2> QED BY <1>3, <1>6, FS_Subset
<1>8. ASSUME NEW a \in Nodes, NEW x \in DOMAIN d.out[a], d.out[a][x] = m
      PROVE  <<a, x>> \in In(d, m)
  <2>1. <<a, x>> \in UNION Es
    BY <1>8
  <2> QED BY <1>3, <1>8, <2>1
<1> QED BY <1>7, <1>8, FS_CardinalityType DEF d, InDegree

\* Nothing else leads to what stands behind such a join, which is neither the
\* join itself nor the start.
LEMMA BehindAlone ==
  ASSUME def \in Definitions, NEW n, NEW m, Behind(n, m)
  PROVE  /\ m \in Nodes /\ def.out[n] = <<m>> /\ m # n /\ m # def.start
         /\ InDegree(n) \in Nat /\ InDegree(n) >= 2
         /\ \A a \in Nodes : \A x \in DOMAIN def.out[a] : def.out[a][x] = m => a = n
<1> DEFINE d == def
           out == d.out[n]
<1>1. IsDefinition(d)
  BY DefinitionsAssumption
<1>2. /\ n \in Nodes /\ d.type[n] = "PARALLEL_JOIN" /\ m = out[1] /\ InDegree(m) = 1
  BY DEF Behind
<1>3. out \in Seq(Nodes) /\ Len(out) >= 1
  BY <1>2, Graph
<1>4. Len(out) <= 1
  BY <1>1, <1>2 DEF IsDefinition, Nodes, AtMostOneOut
<1> HIDE DEF out
<1>5. out = <<m>> /\ m \in Nodes /\ 1 \in DOMAIN out
  BY <1>2, <1>3, <1>4, SMTT(30)
<1>6. Cardinality(In(d, n)) >= 2
  BY <1>1, <1>2 DEF IsDefinition, Nodes, MinIn
<1>7. d.type[m] = "START" <=> m = d.start
  BY <1>1, <1>5 DEF IsDefinition, Nodes
<1>8. d.type[m] = "START" => In(d, m) = {}
  BY <1>1, <1>5 DEF IsDefinition, Nodes
<1>9. InDegree(n) >= 2 /\ InDegree(n) \in Nat
  BY <1>6, EdgesFinite DEF InDegree
<1>10. m # n
  BY <1>2, <1>9
<1>11. m # d.start
  <2>1. Cardinality({}) = 0
    BY FS_EmptySet
  <2>2. Cardinality(In(d, m)) = 1
    BY <1>2 DEF InDegree
  <2> QED BY <1>7, <1>8, <2>1, <2>2
<1>12. PICK e : In(d, m) = {e}
  <2>1. IsFiniteSet(In(d, m)) /\ Cardinality(In(d, m)) = 1
    BY <1>2, EdgesFinite DEF InDegree
  <2> QED BY <2>1, FS_Singleton
<1>13. <<n, 1>> \in In(d, m)
  <2>1. d.out[n][1] = m /\ 1 \in DOMAIN d.out[n] /\ n \in Nodes
    BY <1>2, <1>5 DEF out
  <2> QED BY <2>1, EdgesFinite
<1>14. ASSUME NEW a \in Nodes, NEW x \in DOMAIN d.out[a], d.out[a][x] = m
       PROVE  a = n
  <2>1. <<a, x>> \in In(d, m)
    BY <1>14, EdgesFinite
  <2>2. <<a, x>> = <<n, 1>>
    BY <1>12, <1>13, <2>1
  <2> QED BY <2>2
<1> QED BY <1>5, <1>9, <1>10, <1>11, <1>14 DEF out

\* Tokens are counted.
LEMMA TokensFinite ==
  ASSUME NEW ts \in Seq(TokenRows), NEW n
  PROVE  /\ IsFiniteSet(At(ts, n)) /\ IsFiniteSet(Came(ts, n))
         /\ Cardinality(At(ts, n)) \in Nat /\ Cardinality(Came(ts, n)) \in Nat
<1>1. DOMAIN ts = 1..Len(ts) /\ Len(ts) \in Nat
  OBVIOUS
<1>2. IsFiniteSet(DOMAIN ts)
  BY <1>1, FS_Interval
<1>3. At(ts, n) \subseteq DOMAIN ts /\ Came(ts, n) \subseteq DOMAIN ts
  BY DEF At, Came
<1> QED BY <1>2, <1>3, FS_Subset, FS_CardinalityType

\* More arrivals at a join, and no token more behind it.
LEMMA EnoughMore ==
  ASSUME def \in Definitions, NEW n, NEW m, Behind(n, m),
         NEW ts \in Seq(TokenRows), NEW ts2 \in Seq(TokenRows),
         Enough(ts, n, m), At(ts2, m) = At(ts, m), Came(ts, n) \subseteq Came(ts2, n)
  PROVE  Enough(ts2, n, m)
<1>1. Cardinality(Came(ts, n)) <= Cardinality(Came(ts2, n))
  BY TokensFinite, FS_Subset
<1> DEFINE a == Cardinality(At(ts, m))
           b == Cardinality(Came(ts, n))
           c == Cardinality(Came(ts2, n))
           k == InDegree(n)
<1>2. a \in Nat /\ b \in Nat /\ c \in Nat /\ k \in Nat
  BY TokensFinite, BehindAlone
<1>3. At(ts, m) = {} \/ a + k - 1 <= b
  BY DEF Enough
<1>4. b <= c
  BY <1>1
<1> HIDE DEF a, b, c, k
<1>5. At(ts, m) = {} \/ a + k - 1 <= c
  BY <1>2, <1>3, <1>4
<1> QED BY <1>5 DEF Enough, a, c, k

\* One arrival more at a join, and at most one token more behind it: at first
\* only for a full set.
LEMMA EnoughPassed ==
  ASSUME def \in Definitions, NEW n, NEW m, Behind(n, m),
         NEW ts \in Seq(TokenRows), NEW ts2 \in Seq(TokenRows), Enough(ts, n, m),
         NEW i, i \notin Came(ts, n), Came(ts2, n) = Came(ts, n) \cup {i},
         \/ At(ts2, m) = At(ts, m)
         \/ /\ Cardinality(Came(ts2, n)) >= InDegree(n)
            /\ \E j : j \notin At(ts, m) /\ At(ts2, m) = At(ts, m) \cup {j}
  PROVE  Enough(ts2, n, m)
<1> DEFINE a == Cardinality(At(ts, m))
           a2 == Cardinality(At(ts2, m))
           b == Cardinality(Came(ts, n))
           b2 == Cardinality(Came(ts2, n))
           k == InDegree(n)
<1>1. CASE At(ts2, m) = At(ts, m)
  BY <1>1, EnoughMore
<1>2. CASE /\ Cardinality(Came(ts2, n)) >= InDegree(n)
           /\ \E j : j \notin At(ts, m) /\ At(ts2, m) = At(ts, m) \cup {j}
  <2>1. PICK j : j \notin At(ts, m) /\ At(ts2, m) = At(ts, m) \cup {j}
    BY <1>2
  <2>2. IsFiniteSet(At(ts, m)) /\ IsFiniteSet(Came(ts, n))
    BY TokensFinite
  <2>3. a2 = a + 1
    BY <2>1, <2>2, FS_AddElement
  <2>4. b2 = b + 1
    BY <2>2, FS_AddElement
  <2>5. a \in Nat /\ b \in Nat /\ k \in Nat /\ b2 >= k
    BY <1>2, TokensFinite, BehindAlone
  <2>6. At(ts, m) = {} => a = 0
    BY FS_EmptySet
  <2>7. At(ts, m) = {} \/ a + k - 1 <= b
    BY DEF Enough
  <2> HIDE DEF a, a2, b, b2, k
  <2>8. a2 + k - 1 <= b2
    BY <2>3, <2>4, <2>5, <2>6, <2>7
  <2> QED BY <2>8 DEF Enough, a2, b2, k
<1> QED BY <1>1, <1>2

\* The tokens at m after a move from n: no old one goes, the one visited is consumed.
MovedAt(x, e, targets, m, n) ==
  /\ \A j : j \in At(e.tokens, m) <=>
       \/ j \in At(x.tokens, m)
       \/ \E k \in 1..Len(targets) : targets[k] = m /\ j = Len(x.tokens) + k
  /\ m = n => Came(e.tokens, m) = Came(x.tokens, m) \cup {Head(x.work)}
  /\ m # n => Came(e.tokens, m) = Came(x.tokens, m)

\* So it is.
LEMMA MoveCounts ==
  ASSUME NEW x, Drivable(x), x.work # << >>, NEW e, Drivable(e), NEW targets \in Seq(Nodes),
         Moves(x, e, targets), NEW m, NEW n, n = x.tokens[Head(x.work)].node
  PROVE  MovedAt(x, e, targets, m, n)
<1> DEFINE i == Head(x.work)
           L == Len(x.tokens)
           T == Len(targets)
<1>1. /\ DOMAIN e.tokens = 1..(L + T) /\ T \in Nat /\ L \in Nat
      /\ \A j \in DOMAIN e.tokens : j \in 1..L \/ \E k \in 1..T : j = L + k
      /\ DOMAIN x.tokens = 1..L /\ i \in DOMAIN x.tokens
  BY MoveDomains, WorkTyped
<1>2. /\ \A j \in 1..L : e.tokens[j].node = x.tokens[j].node
      /\ \A j \in 1..L : e.tokens[j].live <=> x.tokens[j].live /\ j # i
      /\ \A k \in 1..T : e.tokens[L + k].node = targets[k] /\ e.tokens[L + k].live
  BY DEF Moves
<1>0. n = x.tokens[i].node
  OBVIOUS
<1> HIDE DEF i, L, T
<1>3. \A j \in 1..L : j \in 1..(L + T)
  BY <1>1
<1>4. \A k \in 1..T : L + k \in 1..(L + T)
  BY <1>1
<1>5. \A j : j \in At(e.tokens, m) <=>
              j \in At(x.tokens, m) \/ \E k \in 1..T : targets[k] = m /\ j = L + k
  <2>1. ASSUME NEW j, j \in At(e.tokens, m)
        PROVE  j \in At(x.tokens, m) \/ \E k \in 1..T : targets[k] = m /\ j = L + k
    <3>1. j \in DOMAIN e.tokens /\ e.tokens[j].node = m
      BY <2>1 DEF At
    <3>2. CASE j \in 1..L
      BY <1>1, <1>2, <3>1, <3>2 DEF At
    <3>3. CASE \E k \in 1..T : j = L + k
      BY <1>2, <3>1, <3>3
    <3> QED BY <1>1, <3>1, <3>2, <3>3
  <2>2. ASSUME NEW j \in At(x.tokens, m)
        PROVE  j \in At(e.tokens, m)
    BY <1>1, <1>2, <1>3 DEF At
  <2>3. ASSUME NEW k \in 1..T, targets[k] = m
        PROVE  L + k \in At(e.tokens, m)
    BY <1>1, <1>2, <1>4, <2>3 DEF At
  <2> QED BY <2>1, <2>2, <2>3
<1>6. /\ m = n => Came(e.tokens, m) = Came(x.tokens, m) \cup {i}
      /\ m # n => Came(e.tokens, m) = Came(x.tokens, m)
  <2>1. \A j : j \in Came(e.tokens, m) <=>
               j \in 1..L /\ x.tokens[j].node = m /\ (~x.tokens[j].live \/ j = i)
    BY <1>1, <1>2, <1>3 DEF At, Came
  <2>2. \A j : j \in Came(x.tokens, m) <=>
               j \in 1..L /\ x.tokens[j].node = m /\ ~x.tokens[j].live
    BY <1>1 DEF At, Came
  <2> QED BY <1>0, <1>1, <2>1, <2>2
<1> QED BY <1>5, <1>6 DEF MovedAt, i, L, T

\* A visit keeps the count at the joins.
LEMMA CountedOn ==
  ASSUME def \in Definitions, Len(clocks) \in Nat, NEW x, Drivable(x), x.work # << >>,
         Steady(x.tokens, x.work), Counted(x.tokens)
  PROVE  Counted(Visit(x).tokens)
<1> DEFINE e == Visit(x)
           i == Head(x.work)
           a == x.tokens[Head(x.work)].node
<1>1. /\ a \in Nodes
      /\ \/ Parking(a) /\ Parks(x, e, a)
         \/ ~Parking(a) /\ \E targets : Leads(x, a, targets) /\ Moves(x, e, targets)
  BY VisitCases
<1>2. Drivable(e) /\ Drivable(x)
  BY VisitKeeps
<1>3. e.tokens \in Seq(TokenRows) /\ x.tokens \in Seq(TokenRows)
  BY <1>2 DEF Drivable, DriveRows
<1>4. i = x.work[1] /\ 1 \in DOMAIN x.work /\ i \in DOMAIN x.tokens
  BY WorkTyped
<1> HIDE DEF e
<1>5. CASE Parking(a) /\ Parks(x, e, a)
  <2>1. e.tokens = x.tokens
    BY <1>5 DEF Parks
  <2> QED BY <2>1 DEF e
<1>6. CASE ~Parking(a) /\ \E targets : Leads(x, a, targets) /\ Moves(x, e, targets)
  <2>1. PICK targets : Leads(x, a, targets) /\ Moves(x, e, targets)
    BY <1>6
  <2>2. targets \in Seq(Nodes)
    BY <2>1 DEF Leads
  <2>3. x.tokens[i].live
    BY <1>4, <1>6 DEF Steady
  <2> DEFINE L == Len(x.tokens)
             T == Len(targets)
  <2>4. ASSUME NEW m
        PROVE  /\ \A j : j \in At(e.tokens, m) <=>
                      j \in At(x.tokens, m) \/ \E k \in 1..T : targets[k] = m /\ j = L + k
               /\ m = a => Came(e.tokens, m) = Came(x.tokens, m) \cup {i}
               /\ m # a => Came(e.tokens, m) = Came(x.tokens, m)
    <3>1. Drivable(x) /\ x.work # << >> /\ Drivable(e) /\ Moves(x, e, targets)
      BY <1>2, <2>1
    <3>2. MovedAt(x, e, targets, m, a)
      BY <2>2, <3>1, MoveCounts
    <3> QED BY <3>2 DEF MovedAt
  <2>5. ASSUME NEW n \in Nodes, NEW m \in Nodes, Behind(n, m)
        PROVE  Enough(e.tokens, n, m)
    <3>1. Enough(x.tokens, n, m)
      BY <2>5 DEF Counted
    <3>2. CASE a # n
      <4>1. \A k \in 1..T : targets[k] # m
        <5>1. ASSUME NEW k \in 1..T, targets[k] = m PROVE FALSE
          <6>1. PICK y \in DOMAIN def.out[a] : def.out[a][y] = m
            BY <2>1, <5>1 DEF Leads
          <6> QED BY <1>1, <2>5, <3>2, <6>1, BehindAlone
        <5> QED BY <5>1
      <4> HIDE DEF L, T
      <4>2. At(e.tokens, m) = At(x.tokens, m) /\ Came(x.tokens, n) \subseteq Came(e.tokens, n)
        BY <2>4, <4>1
      <4> QED BY <1>3, <2>5, <3>1, <4>2, EnoughMore
    <3>3. CASE a = n
      <4>1. Came(e.tokens, n) = Came(x.tokens, n) \cup {i} /\ i \notin Came(x.tokens, n)
        BY <2>3, <2>4, <3>3 DEF Came
      <4>2. def.type[a] = "PARALLEL_JOIN" /\ def.out[a] = <<m>>
        BY <2>5, <3>3, BehindAlone DEF Behind
      <4>3. CASE Full(x, a)
        <5>1. targets = <<m>>
          BY <2>1, <4>2, <4>3, Zenon DEF Leads
        <5>2. T = 1 /\ targets[1] = m
          BY <5>1
        <5>3. L \in Nat /\ DOMAIN x.tokens = 1..L
          BY WorkTyped
        <5> HIDE DEF L, T
        <5>4. At(e.tokens, m) = At(x.tokens, m) \cup {L + 1}
          BY <2>4, <5>2
        <5>5. L + 1 \notin At(x.tokens, m)
          BY <5>3 DEF At
        <5>6. Cardinality(Came(e.tokens, n)) >= InDegree(n)
          <6> DEFINE c == Consume(x, Head(x.work))
          <6>1. c.tokens = Taken(x).tokens
            BY Gone
          <6>2. /\ Len(c.tokens) = L
                /\ \A j \in 1..L :
                     /\ c.tokens[j].node = x.tokens[j].node
                     /\ c.tokens[j].live <=> x.tokens[j].live /\ j # i
            BY <6>1, Gone DEF L
          <6>3. Drivable(Taken(x))
            BY Gone
          <6>4. c.tokens \in Seq(TokenRows)
            BY <6>1, <6>3 DEF Drivable, DriveRows
          <6>5. DOMAIN c.tokens = 1..L
            BY <6>2, <6>4
          <6>6. Arrivals(c, n) >= InDegree(n)
            BY <3>3, <4>3 DEF Full
          <6> HIDE DEF c
          <6>7. {j \in DOMAIN c.tokens : c.tokens[j].node = n /\ ~c.tokens[j].live}
                  = Came(x.tokens, n) \cup {i}
            BY <1>4, <3>3, <5>3, <6>2, <6>5 DEF Came, At
          <6> QED BY <4>1, <6>6, <6>7 DEF Arrivals
        <5> QED BY <1>3, <2>5, <3>1, <4>1, <5>4, <5>5, <5>6, EnoughPassed, Zenon
      <4>4. CASE ~Full(x, a)
        <5>1. targets = << >>
          BY <2>1, <4>2, <4>4 DEF Leads
        <5>2. T = 0
          BY <5>1
        <5> HIDE DEF L, T
        <5>3. At(e.tokens, m) = At(x.tokens, m)
          <6>1. \A k \in 1..T : FALSE
            BY <5>2
          <6>2. \A j : j \in At(e.tokens, m) <=> j \in At(x.tokens, m)
            BY <2>4, <6>1
          <6> QED BY <6>2
        <5> QED BY <1>3, <2>5, <3>1, <4>1, <5>3, EnoughPassed
      <4> QED BY <4>3, <4>4
    <3> QED BY <3>2, <3>3
  <2> QED BY <2>5 DEF Counted, e
<1> QED BY <1>1, <1>5, <1>6

-----------------------------------------------------------------------------
(* The whole drive                                                         *)

\* All that is on the list stays where it is.
Idling(ts, ws) == \A k \in DOMAIN ws : Parking(ts[ws[k]].node)

\* A visit of such a list moves nothing.
LEMMA IdlingOn ==
  ASSUME def \in Definitions, NEW x, Drivable(x), x.work # << >>, Idling(x.tokens, x.work)
  PROVE  Visit(x).tokens = x.tokens /\ Idling(Visit(x).tokens, Visit(x).work)
<1> DEFINE n == x.tokens[Head(x.work)].node
           e == Visit(x)
<1>1. /\ Head(x.work) = x.work[1] /\ 1 \in DOMAIN x.work
      /\ DOMAIN x.work = 1..Len(x.work) /\ Len(x.work) \in Nat
      /\ DOMAIN Tail(x.work) = 1..(Len(x.work) - 1)
      /\ \A k \in 1..(Len(x.work) - 1) : Tail(x.work)[k] = x.work[k + 1]
  BY WorkTyped
<1>2. Parking(n)
  BY <1>1 DEF Idling
<1>3. Parks(x, e, n)
  BY <1>2, VisitCases
<1> HIDE DEF e
<1>4. e.tokens = x.tokens /\ e.work = Tail(x.work)
  BY <1>3 DEF Parks
<1>5. \A k \in 1..(Len(x.work) - 1) : k + 1 \in 1..Len(x.work)
  BY <1>1
<1>6. Idling(e.tokens, e.work)
  BY <1>1, <1>4, <1>5 DEF Idling
<1> QED BY <1>4, <1>6 DEF e

\* Tasks are made at task nodes only.
OnTaskNodes(ks) == \A k \in DOMAIN ks : def.type[ks[k].node] \in TaskTypes

\* What holds of a drive all along, if it held where it began.
Along(x, d) ==
  /\ Follows(x, d)
  /\ Idling(d.tokens, d.work) => x.tokens = d.tokens /\ Idling(x.tokens, x.work)
  /\ OnTaskNodes(d.tasks) /\ Covered(d.tokens, d.tasks, d.work) =>
       OnTaskNodes(x.tasks) /\ Covered(x.tokens, x.tasks, x.work)
  /\ Steady(d.tokens, d.work) => Steady(x.tokens, x.work)
  /\ Steady(d.tokens, d.work) /\ Counted(d.tokens) => Counted(x.tokens)
  /\ OpenIsNewest(d.tasks) =>
       /\ OpenIsNewest(x.tasks)
       /\ \A U : Tended(U, d.tokens, d.tasks, d.work) => Tended(U, x.tokens, x.tasks, x.work)

\* So it does at its beginning.
LEMMA AlongFirst ==
  ASSUME NEW d, Drivable(d)
  PROVE  Along(d, d)
<1>1. Follows(d, d)
  BY DEF Follows, TokensFollow, TasksFollow, Notes
<1> QED BY <1>1 DEF Along

\* And from visit to visit.
LEMMA AlongOn ==
  ASSUME def \in Definitions, Len(clocks) \in Nat, NEW d, Drivable(d),
         NEW x, Drivable(x), x.work # << >>, Along(x, d)
  PROVE  Along(Visit(x), d)
<1> DEFINE e == Visit(x)
<1>1. Follows(e, d)
  BY FollowsOn DEF Along
<1>2. Idling(d.tokens, d.work) => e.tokens = d.tokens /\ Idling(e.tokens, e.work)
  BY IdlingOn DEF Along
<1>3. OnTaskNodes(d.tasks) /\ Covered(d.tokens, d.tasks, d.work) =>
        OnTaskNodes(e.tasks) /\ Covered(e.tokens, e.tasks, e.work)
  BY CoveredOn DEF Along, OnTaskNodes
<1>4. Steady(d.tokens, d.work) => Steady(e.tokens, e.work)
  BY SteadyOn DEF Along
<1>5. Steady(d.tokens, d.work) /\ Counted(d.tokens) => Counted(e.tokens)
  BY CountedOn DEF Along
<1>6. OpenIsNewest(d.tasks) =>
        /\ OpenIsNewest(e.tasks)
        /\ \A U : Tended(U, d.tokens, d.tasks, d.work) => Tended(U, e.tokens, e.tasks, e.work)
  BY TendedOn DEF Along
<1> HIDE DEF e
<1>7. Along(e, d)
  BY <1>1, <1>2, <1>3, <1>4, <1>5, <1>6 DEF Along
<1> QED BY <1>7 DEF e

\* The machine follows its table.
LEMMA ApplyFollows ==
  ASSUME NEW status, NEW action
  PROVE  Apply(status, action) = status \/ <<status, action, Apply(status, action)>> \in Machine
<1> DEFINE to == {m[3] : m \in {m \in Machine : m[1] = status /\ m[2] = action}}
<1>1. \A m \in Machine : m = <<m[1], m[2], m[3]>>
  BY DEF Machine
<1>2. \A t \in to : <<status, action, t>> \in Machine
  BY <1>1
<1>3. Apply(status, action) = IF to = {} THEN status ELSE CHOOSE t \in to : TRUE
  BY DEF Apply
<1> HIDE DEF to
<1> QED BY <1>2, <1>3

\* An instance is completed when nothing is active, and waits only if something is.
LEMMA SettleAgrees ==
  ASSUME NEW status, NEW e
  PROVE  /\ Settle(status, e) = "COMPLETED" => status = "COMPLETED" \/ Live(e.tokens) = {}
         /\ Settle(status, e) = "WAITING" => Live(e.tokens) # {}
<1> DEFINE awake == IF status = "WAITING" THEN Apply(status, "unblock") ELSE status
           to == Settle(status, e)
<1>1. to = IF e.cancelled THEN Apply(awake, "cancel")
           ELSE IF Live(e.tokens) = {} THEN Apply(awake, "complete")
           ELSE IF e.parked THEN Apply(awake, "block")
           ELSE awake
  BY DEF Settle
<1>2. awake # "WAITING" /\ (awake = "COMPLETED" => status = "COMPLETED")
  <2>1. CASE status = "WAITING"
    <3> DEFINE to1 == {m[3] : m \in {m \in Machine : m[1] = "WAITING" /\ m[2] = "unblock"}}
    <3>1. {m \in Machine : m[1] = "WAITING" /\ m[2] = "unblock"} = {<<"WAITING", "unblock", "RUNNING">>}
      BY DEF Machine
    <3>2. to1 = {"RUNNING"}
      <4> DEFINE A == {m \in Machine : m[1] = "WAITING" /\ m[2] = "unblock"}
                 t == <<"WAITING", "unblock", "RUNNING">>
      <4>1. t[3] = "RUNNING" /\ A = {t}
        BY <3>1
      <4> HIDE DEF A, t
      <4>2. {m[3] : m \in A} = {"RUNNING"}
        BY <4>1
      <4> QED BY <4>2 DEF A
    <3>3. Apply("WAITING", "unblock") = IF to1 = {} THEN "WAITING" ELSE CHOOSE t \in to1 : TRUE
      BY DEF Apply
    <3> HIDE DEF to1
    <3>4. Apply("WAITING", "unblock") = "RUNNING"
      BY <3>2, <3>3
    <3> QED BY <2>1, <3>4
  <2> QED BY <2>1
<1> HIDE DEF awake, to
<1>3. /\ Apply(awake, "cancel") \in {awake, "CANCELLED"}
      /\ Apply(awake, "complete") \in {awake, "COMPLETED"}
      /\ Apply(awake, "block") \in {awake, "WAITING"}
  <2>1. \A a, b : /\ <<a, "cancel", b>> \in Machine => b = "CANCELLED"
                  /\ <<a, "complete", b>> \in Machine => b = "COMPLETED"
                  /\ <<a, "block", b>> \in Machine => b = "WAITING"
    BY DEF Machine
  <2> QED BY <2>1, ApplyFollows
<1>4. /\ to = "COMPLETED" => status = "COMPLETED" \/ Live(e.tokens) = {}
      /\ to = "WAITING" => Live(e.tokens) # {}
  BY <1>1, <1>2, <1>3
<1> QED BY <1>4 DEF to

\* A drive that does not give up empties its list; of its result the status is read.
LEMMA DriveLeads ==
  ASSUME RowsOK, NEW d, Drivable(d), NEW status, Drive(status, d)
  PROVE  /\ \E x : /\ Along(x, d) /\ tokens' = x.tokens /\ tasks' = x.tasks
                   /\ Notes(x.incidents, incidents')
                   /\ \/ x.work = << >>
                      \/ /\ ~NoLoopLimit'
                         /\ \E k \in DOMAIN incidents' \ DOMAIN x.incidents :
                              incidents'[k].code = "LOOP_LIMIT"
         /\ inst' = "COMPLETED" => status = "COMPLETED" \/ Live(tokens') = {}
         /\ inst' = "WAITING" => Live(tokens') # {}
<1> DEFINE S == {x \in DriveRows : Drivable(x) /\ Along(x, d)}
<1>1. PICK e \in Loop(d) :
        /\ tokens' = e.tokens /\ tasks' = e.tasks /\ timers' = e.timers
        /\ clocks' = e.clocks /\ incidents' = e.incidents /\ inst' = Settle(status, e)
  BY DEF Drive
<1>2. def \in Definitions /\ Len(clocks) \in Nat
  BY DEF RowsOK
<1>3. d \in S
  BY AlongFirst DEF Drivable
<1>4. ASSUME NEW x \in S, x.work # << >> PROVE Visit(x) \in S
  BY <1>2, <1>4, VisitKeeps, AlongOn DEF Drivable
<1> HIDE DEF S
<1>5. PICK x \in S : e = IF x.work = << >> THEN x ELSE Park(Raise(x, "LOOP_LIMIT"))
  BY <1>1, <1>3, <1>4, LoopLeads
<1>6. Along(x, d) /\ x \in DriveRows /\ x.incidents \in Seq(IncidentRows)
  BY DEF S, DriveRows
<1>7. CASE x.work = << >>
  <2>1. Notes(x.incidents, incidents')
    BY <1>1, <1>5, <1>7 DEF Notes
  <2> QED BY <1>1, <1>5, <1>6, <1>7, <2>1, SettleAgrees
<1>8. CASE x.work # << >>
  <2> DEFINE row == [code |-> "LOOP_LIMIT", open |-> TRUE]
  <2>1. e.tokens = x.tokens /\ e.tasks = x.tasks /\ e.incidents = Append(x.incidents, row)
    BY <1>5, <1>6, <1>8 DEF Park, Raise, DriveRows
  <2>2. row.code = "LOOP_LIMIT"
    OBVIOUS
  <2> HIDE DEF row
  <2>3. /\ \A k \in DOMAIN x.incidents : k \in DOMAIN e.incidents /\ e.incidents[k] = x.incidents[k]
        /\ Len(x.incidents) + 1 \in DOMAIN e.incidents /\ e.incidents[Len(x.incidents) + 1] = row
    BY <1>6, <2>1
  <2>6. Len(x.incidents) + 1 \notin DOMAIN x.incidents
    BY <1>6
  <2>4. ~NoLoopLimit' /\ \E k \in DOMAIN incidents' \ DOMAIN x.incidents :
                           incidents'[k].code = "LOOP_LIMIT"
    BY <1>1, <2>2, <2>3, <2>6 DEF NoLoopLimit
  <2>5. Notes(x.incidents, incidents')
    BY <1>1, <2>3 DEF Notes
  <2> QED BY <1>1, <1>6, <2>1, <2>4, <2>5, SettleAgrees
<1> QED BY <1>7, <1>8

-----------------------------------------------------------------------------
(* Where drives begin, and what else a step may be                         *)

\* A drive that begins with one new token, at to, behind the tokens ts.
Launches(d, ts, to) ==
  \E new : /\ new \notin DOMAIN ts /\ DOMAIN d.tokens = DOMAIN ts \cup {new}
           /\ \A j \in DOMAIN ts : d.tokens[j] = ts[j]
           /\ d.tokens[new].node = to /\ d.tokens[new].live
           /\ d.work = <<new>>

\* Advancing to one node with an empty list.
LEMMA AdvanceOne ==
  ASSUME NEW b, Drivable(b), b.work = << >>, NEW to \in Nodes
  PROVE  LET d == Advance(b, <<to>>)
         IN  /\ Drivable(d) /\ Launches(d, b.tokens, to)
             /\ d.tasks = b.tasks /\ d.incidents = b.incidents
<1> DEFINE targets == <<to>>
           new == [k \in DOMAIN targets |-> [node |-> targets[k], live |-> TRUE]]
           L == Len(b.tokens)
           more == [k \in DOMAIN targets |-> L + k]
           d == Advance(b, targets)
<1>1. targets \in Seq(Nodes)
  OBVIOUS
<1>2. Drivable(d)
  BY <1>1, AdvanceKeeps
<1>3. b \in DriveRows /\ b.tokens \in Seq(TokenRows)
  BY DEF Drivable, DriveRows
<1>4. d = [b EXCEPT !.tokens = b.tokens \o new, !.work = b.work \o more]
  BY DEF Advance
<1>5. DOMAIN targets = 1..1 /\ targets[1] = to
  OBVIOUS
<1> HIDE DEF targets, L
<1>6. new \in Seq(TokenRows) /\ Len(new) = 1 /\ new[1].node = to /\ new[1].live
  <2>1. new \in [1..1 -> TokenRows] /\ new[1].node = to /\ new[1].live
    BY <1>5 DEF TokenRows
  <2> HIDE DEF new
  <2> QED BY <2>1
<1>7. DOMAIN b.tokens = 1..L /\ L \in Nat
  BY <1>3 DEF L
<1>8. more = <<L + 1>>
  <2>1. more = [k \in 1..1 |-> L + k]
    BY <1>5
  <2>2. \A k \in 1..1 : L + k = L + 1
    BY <1>7
  <2>3. more = [k \in 1..1 |-> L + 1]
    BY <2>1, <2>2
  <2> QED BY <2>3
<1> HIDE DEF new, more, d
<1>9. /\ d.tokens = b.tokens \o new /\ d.work = more
      /\ d.tasks = b.tasks /\ d.incidents = b.incidents
  <2>1. << >> \o more = more
    BY <1>8
  <2> QED BY <1>3, <1>4, <2>1 DEF DriveRows
<1>10. /\ DOMAIN d.tokens = DOMAIN b.tokens \cup {L + 1} /\ L + 1 \notin DOMAIN b.tokens
       /\ \A j \in DOMAIN b.tokens : d.tokens[j] = b.tokens[j]
       /\ d.tokens[L + 1] = new[1]
  <2> DEFINE a == b.tokens
  <2>1. a \in Seq(TokenRows) /\ d.tokens = a \o new /\ DOMAIN a = 1..L /\ Len(a) = L
    BY <1>3, <1>7, <1>9 DEF L
  <2> HIDE DEF a
  <2>2. /\ Len(a \o new) = Len(a) + Len(new)
        /\ \A j \in 1..Len(a) : (a \o new)[j] = a[j]
        /\ \A k \in 1..Len(new) : (a \o new)[Len(a) + k] = new[k]
    <3>1. a \in Seq(TokenRows) /\ new \in Seq(TokenRows)
      BY <1>6, <2>1
    <3> QED BY <3>1
  <2>3. DOMAIN d.tokens = 1..Len(d.tokens)
    <3>1. d.tokens \in Seq(TokenRows)
      BY <1>2 DEF Drivable, DriveRows, d
    <3> QED BY <3>1
  <2>4. 1..(L + 1) = 1..L \cup {L + 1} /\ L + 1 \notin 1..L
    BY <1>7
  <2>5. DOMAIN d.tokens = 1..(L + 1)
    BY <1>6, <2>1, <2>2, <2>3
  <2>6. /\ \A j \in DOMAIN a : d.tokens[j] = a[j]
        /\ d.tokens[L + 1] = new[1]
    BY <1>6, <1>7, <2>1, <2>2
  <2> QED BY <2>1, <2>4, <2>5, <2>6 DEF a
<1>11. Launches(d, b.tokens, to)
  BY <1>6, <1>8, <1>9, <1>10 DEF Launches
<1> QED BY <1>2, <1>9, <1>11 DEF d, targets

\* The tokens without one that is consumed; none if p is 0.
Without(ts, p) == [i \in DOMAIN ts |-> IF i = p THEN [ts[i] EXCEPT !.live = FALSE] ELSE ts[i]]

\* What it changes.
LEMMA WithoutOne ==
  ASSUME NEW ts \in Seq(TokenRows), NEW p
  PROVE  /\ Without(ts, p) \in Seq(TokenRows) /\ DOMAIN Without(ts, p) = DOMAIN ts
         /\ \A i \in DOMAIN ts :
              /\ Without(ts, p)[i].node = ts[i].node
              /\ Without(ts, p)[i].live <=> ts[i].live /\ i # p
         /\ p \notin DOMAIN ts => Without(ts, p) = ts
<1>1. \A i \in DOMAIN ts : ts[i] \in TokenRows
  OBVIOUS
<1>2. DOMAIN ts = 1..Len(ts) /\ Len(ts) \in Nat
  OBVIOUS
<1> DEFINE w == Without(ts, p)
<1>3. \A i \in DOMAIN ts :
        /\ w[i] \in TokenRows /\ w[i].node = ts[i].node
        /\ w[i].live <=> ts[i].live /\ i # p
        /\ i # p => w[i] = ts[i]
  BY <1>1 DEF Without, TokenRows
<1>4. w = [i \in DOMAIN ts |-> w[i]] /\ ts = [i \in DOMAIN ts |-> ts[i]]
  BY DEF Without
<1> HIDE DEF w
<1>5. w \in Seq(TokenRows)
  BY <1>2, <1>3, <1>4
<1>6. p \notin DOMAIN ts => w = ts
  BY <1>3, <1>4
<1> QED BY <1>3, <1>4, <1>5, <1>6 DEF w

\* The start.
LEMMA StartLaunches ==
  ASSUME RowsOK, NEW u, Start(u)
  PROVE  \E d : /\ Drivable(d) /\ Drive("RUNNING", d) /\ Launches(d, tokens, def.start)
                /\ d.tasks = tasks /\ d.incidents = incidents
<1> DEFINE b == Fresh(<< >>)
           d == Advance(b, <<def.start>>)
<1>1. << >> \in Seq(DOMAIN tokens) /\ def.start \in Nodes
  BY Graph DEF RowsOK
<1>2. Drivable(b) /\ b.tokens = tokens /\ b.work = << >> /\ b.tasks = tasks /\ b.incidents = incidents
  <2>1. Drivable(b)
    BY <1>1, FreshDrivable
  <2> QED BY <2>1 DEF Fresh
<1>3. Apply("CREATED", "start") = "RUNNING"
  <2>1. Apply("CREATED", "start") \in {"CREATED", "RUNNING"}
    <3>1. \A t : <<"CREATED", "start", t>> \in Machine => t = "RUNNING"
      BY DEF Machine
    <3> QED BY <3>1, ApplyFollows
  <2>2. Apply("CREATED", "start") # "CREATED"
    <3> DEFINE to == {m[3] : m \in {m \in Machine : m[1] = "CREATED" /\ m[2] = "start"}}
               A == {m \in Machine : m[1] = "CREATED" /\ m[2] = "start"}
               t == <<"CREATED", "start", "RUNNING">>
    <3>1. t[3] = "RUNNING" /\ A = {t}
      BY DEF Machine
    <3>2. to = {"RUNNING"}
      <4> HIDE DEF A, t
      <4>1. {m[3] : m \in A} = {"RUNNING"}
        BY <3>1
      <4> QED BY <4>1 DEF A
    <3>3. Apply("CREATED", "start") = IF to = {} THEN "CREATED" ELSE CHOOSE x \in to : TRUE
      BY DEF Apply
    <3> HIDE DEF to
    <3> QED BY <3>2, <3>3
  <2> QED BY <2>1, <2>2
<1>4. Drive("RUNNING", d)
  BY <1>3 DEF Start
<1> HIDE DEF b
<1>5. Drivable(d) /\ Launches(d, tokens, def.start) /\ d.tasks = tasks /\ d.incidents = incidents
  BY <1>1, <1>2, AdvanceOne
<1> QED BY <1>4, <1>5

\* The row of a task that is finished.
Done(k) == [tasks EXCEPT ![k].status = "FINISHED"]

\* The end of a finish, where it found a token and where it found none.
LEMMA FinishLaunches ==
  ASSUME RowsOK, TxOK, NEW s \in Sessions, CommitFinish(s)
  PROVE  LET t == tx[s]
         IN  /\ tx' = [tx EXCEPT ![s] = Closed] /\ def' = def /\ t.op = "finish"
             /\ t.task \in DOMAIN tasks /\ t.to \in Nodes
             /\ t.parked = 0 => tokens' = tokens /\ tasks' = Done(t.task) /\ inst' = inst
                                /\ incidents' = incidents
             /\ t.parked # 0 =>
                  /\ t.parked \in DOMAIN tokens
                  /\ \E d : /\ Drivable(d) /\ Drive(inst, d)
                            /\ Launches(d, Without(tokens, t.parked), t.to)
                            /\ d.tasks = Done(t.task) /\ d.incidents = incidents
<1> DEFINE t == tx[s]
           base == Fresh(<< >>)
           done == [base EXCEPT !.tasks[t.task].status = "FINISHED"]
           ks == Done(t.task)
<1>2. /\ t.op = "finish" /\ Close(s) /\ UNCHANGED <<def, starter, calm>>
      /\ IF t.parked = 0
         THEN tasks' = done.tasks /\ UNCHANGED <<inst, tokens, timers, clocks, incidents>>
         ELSE Drive(inst, Advance(Consume(done, t.parked), <<t.to>>))
  BY DEF CommitFinish
<1>3. t.task \in DOMAIN tasks /\ t.to \in Nodes /\ t.parked \in DOMAIN tokens \cup {0}
  BY <1>2 DEF TxOK, Fits
<1> HIDE DEF t
<1>4. tasks[t.task] \in TaskRows /\ tasks \in Seq(TaskRows) /\ tokens \in Seq(TokenRows)
  BY <1>3 DEF RowsOK
<1>5. /\ base \in DriveRows /\ base.tasks = tasks /\ base.timers = timers
      /\ base.clocks = clocks /\ base.tokens = tokens /\ Drivable(base)
      /\ base.work = << >> /\ base.incidents = incidents
  <2>1. << >> \in Seq(DOMAIN tokens)
    OBVIOUS
  <2>2. Drivable(base)
    BY <2>1, FreshDrivable
  <2> QED BY <2>2 DEF Drivable, Fresh
<1>6. done = [base EXCEPT !.tasks = ks]
  BY <1>5 DEF Done
<1> DEFINE row == [tasks[t.task] EXCEPT !.status = "FINISHED"]
<1>7. row \in TaskRows /\ row.node = tasks[t.task].node /\ ~IsOpen(row)
  BY <1>4 DEF TaskRows, IsOpen, OpenTask
<1>8. ks = [tasks EXCEPT ![t.task] = row]
  BY DEF Done
<1> HIDE DEF row, base, done, ks
<1>9. /\ ks \in Seq(TaskRows) /\ DOMAIN ks = DOMAIN tasks /\ ks[t.task] = row
      /\ \A m \in DOMAIN tasks : m # t.task => ks[m] = tasks[m]
  BY <1>3, <1>4, <1>7, <1>8
<1>10. /\ done \in DriveRows /\ done.tasks = ks /\ done.timers = timers /\ done.clocks = clocks
       /\ done.tokens = tokens /\ done.work = << >> /\ done.incidents = incidents
  BY <1>5, <1>6, <1>9 DEF DriveRows
<1>11. Single(ks)
  BY <1>7, <1>9 DEF Single, RowsOK
<1>12. RowsFit(ks, timers, clocks)
  BY <1>9, <1>11 DEF RowsFit, RowsOK
<1>13. Drivable(done)
  BY <1>9, <1>10, <1>12 DEF Drivable
<1>14. ASSUME t.parked # 0
       PROVE  /\ t.parked \in DOMAIN tokens
              /\ \E d : /\ Drivable(d) /\ Drive(inst, d)
                        /\ Launches(d, Without(tokens, t.parked), t.to)
                        /\ d.tasks = ks /\ d.incidents = incidents
  <2> DEFINE gone == Consume(done, t.parked)
             ts == [tokens EXCEPT ![t.parked].live = FALSE]
  <2>1. t.parked \in DOMAIN tokens
    BY <1>3, <1>14
  <2>2. Drivable(gone)
    BY <1>10, <1>13, <2>1, FieldOpsKeep
  <2>3. gone = [done EXCEPT !.tokens = ts]
    BY <1>10 DEF Consume
  <2>4. ts = Without(tokens, t.parked)
    BY <1>4, <2>1 DEF Without
  <2> HIDE DEF ts, gone
  <2>5. /\ gone.tokens = ts /\ gone.work = << >> /\ gone.tasks = ks /\ gone.incidents = incidents
    BY <1>10, <2>3 DEF DriveRows
  <2> DEFINE d == Advance(gone, <<t.to>>)
  <2>6. Drivable(d) /\ Launches(d, ts, t.to) /\ d.tasks = ks /\ d.incidents = incidents
    BY <1>3, <2>2, <2>5, AdvanceOne
  <2>7. Drive(inst, d)
    BY <1>2, <1>14 DEF gone
  <2> HIDE DEF d
  <2> QED BY <2>1, <2>4, <2>6, <2>7
<1> QED BY <1>2, <1>3, <1>10, <1>14 DEF Close, t, ks

\* A step that leaves tokens and tasks, and at most closes a transaction or begins
\* to fire a timer.
Quiet ==
  /\ def' = def /\ tokens' = tokens /\ tasks' = tasks /\ Notes(incidents, incidents')
  /\ inst' = inst \/ inst' \notin {"WAITING", "COMPLETED"}
  /\ \A s \in Sessions : tx'[s] = tx[s] \/ tx'[s].op \in {"none", "fire"}

\* A step that swaps the row of an open task nobody is finishing.
Swaps(k) ==
  /\ def' = def /\ tokens' = tokens /\ inst' = inst /\ tx' = tx /\ Notes(incidents, incidents')
  /\ ~Locked(k) /\ IsOpen(tasks[k])
  /\ \E row \in TaskRows : /\ tasks' = [tasks EXCEPT ![k] = row]
                           /\ row.node = tasks[k].node /\ row.status # "FINISHED"

\* A step that begins to finish a task.
Takes(s, t) ==
  /\ tx' = [tx EXCEPT ![s] = t] /\ UNCHANGED <<def, inst, tokens, tasks, incidents>>
  /\ t.op = "finish" /\ t.task \in DOMAIN tasks
  /\ ~Locked(t.task) /\ tasks[t.task].status = "CLAIMED"
  /\ \E x \in DOMAIN def.out[tasks[t.task].node] : def.out[tasks[t.task].node][x] = t.to
  /\ IF t.parked = 0 THEN \A i \in Live(tokens) : tokens[i].node # tasks[t.task].node
     ELSE t.parked \in Live(tokens) /\ tokens[t.parked].node = tasks[t.task].node

\* Finishing begins so.
LEMMA FinishTakes ==
  ASSUME RowsOK, NEW s \in Sessions, NEW u, Finish(s, u)
  PROVE  \E t : Takes(s, t)
<1>1. PICK k \in DOMAIN tasks : \E edge \in DOMAIN def.out[tasks[k].node] : BeginFinish(s, u, k, edge)
  BY DEF Finish
<1>2. PICK edge \in DOMAIN def.out[tasks[k].node] : BeginFinish(s, u, k, edge)
  BY <1>1
<1> DEFINE n == tasks[k].node
           here == {i \in Live(tokens) : tokens[i].node = n}
           row(i) == [op |-> "finish", task |-> k, parked |-> i, to |-> def.out[n][edge]]
<1>3. /\ UNCHANGED <<def, inst, starter, tokens, tasks, timers, clocks, incidents>>
      /\ \E i \in (IF here = {} THEN {0} ELSE here) : tx' = [tx EXCEPT ![s] = row(i)]
      /\ ~Locked(k) /\ tasks[k].status = "CLAIMED"
  BY <1>2 DEF BeginFinish
<1>4. PICK i \in (IF here = {} THEN {0} ELSE here) : tx' = [tx EXCEPT ![s] = row(i)]
  BY <1>3
<1>5. IF i = 0 THEN \A j \in Live(tokens) : tokens[j].node # n
      ELSE i \in Live(tokens) /\ tokens[i].node = n
  <2>1. 0 \notin Live(tokens)
    BY DEF Live, RowsOK
  <2> QED BY <1>4, <2>1
<1> DEFINE t == row(i)
<1>6. t.op = "finish" /\ t.task = k /\ t.parked = i /\ t.to = def.out[n][edge]
  OBVIOUS
<1>7. tx' = [tx EXCEPT ![s] = t]
  BY <1>4
<1> HIDE DEF t, row, here
<1>8. UNCHANGED <<def, inst, tokens, tasks, incidents>>
  BY <1>3
<1>9. \E x \in DOMAIN def.out[tasks[t.task].node] : def.out[tasks[t.task].node][x] = t.to
  BY <1>2, <1>6
<1>10. Takes(s, t)
  BY <1>3, <1>5, <1>6, <1>7, <1>8, <1>9 DEF Takes
<1> QED BY <1>10

\* What swaps a task.
LEMMA TaskSwaps ==
  ASSUME RowsOK, NEW k \in DOMAIN tasks,
         (\E u \in Users : Claim(u, k)) \/ Reassign(k) \/ Escalate(k)
  PROVE  Swaps(k)
<1> DEFINE new == Append(incidents, [code |-> "TASK_ESCALATED", open |-> TRUE])
<1>1. tasks[k] \in TaskRows /\ incidents \in Seq(IncidentRows)
  BY DEF RowsOK
<1>2. /\ UNCHANGED <<def, tokens, inst, tx>> /\ ~Locked(k) /\ IsOpen(tasks[k])
      /\ incidents' \in {incidents, new}
  BY DEF Claim, Reassign, Escalate, IsOpen, OpenTask
<1>3. Notes(incidents, incidents')
  BY <1>1, <1>2 DEF Notes
<1>4. \E row \in TaskRows : /\ tasks' = [tasks EXCEPT ![k] = row]
                            /\ row.node = tasks[k].node /\ row.status # "FINISHED"
  <2>1. CASE \E u \in Users : Claim(u, k)
    <3>0. PICK u \in Users : Claim(u, k)
      BY <2>1
    <3> DEFINE row == [tasks[k] EXCEPT !.status = "CLAIMED", !.claimedBy = u]
    <3>1. row \in TaskRows /\ row.node = tasks[k].node /\ row.status # "FINISHED"
      BY <1>1 DEF TaskRows
    <3>2. tasks' = [tasks EXCEPT ![k] = row]
      BY <3>0 DEF Claim
    <3> HIDE DEF row
    <3> QED BY <3>1, <3>2
  <2>2. CASE Reassign(k)
    <3> DEFINE row == [tasks[k] EXCEPT !.status = "AVAILABLE", !.claimedBy = NoUser]
    <3>1. row \in TaskRows /\ row.node = tasks[k].node /\ row.status # "FINISHED"
      BY <1>1 DEF TaskRows
    <3>2. tasks' = [tasks EXCEPT ![k] = row]
      BY <2>2 DEF Reassign
    <3> HIDE DEF row
    <3> QED BY <3>1, <3>2
  <2>3. CASE Escalate(k)
    <3> DEFINE row == [tasks[k] EXCEPT !.status = "ESCALATED"]
    <3>1. row \in TaskRows /\ row.node = tasks[k].node /\ row.status # "FINISHED"
      BY <1>1 DEF TaskRows
    <3>2. tasks' = [tasks EXCEPT ![k] = row]
      BY <2>3 DEF Escalate
    <3> HIDE DEF row
    <3> QED BY <3>1, <3>2
  <2> QED BY <2>1, <2>2, <2>3
<1> QED BY <1>2, <1>3, <1>4 DEF Swaps

\* The administrator, incidents, timers and rollbacks are quiet.
LEMMA OthersQuiet ==
  ASSUME WorkInv,
         \/ Suspend \/ Resume \/ Cancel \/ UNCHANGED vars
         \/ \E k \in DOMAIN incidents : ResolveIncident(k)
         \/ \E s \in Sessions : Rollback(s) \/ CommitFire(s) \/ \E t \in timers : BeginFire(s, t)
         \/ \E t \in timers : FireNodeTimer(t)
  PROVE  Quiet
<1>1. /\ tx = [s \in Sessions |-> tx[s]] /\ incidents \in Seq(IncidentRows)
  BY DEF WorkInv, TxOK, RowsOK
<1>2. Notes(incidents, incidents)
  BY DEF Notes
<1>3. CASE Suspend \/ Resume \/ Cancel
  <2>1. PICK action \in {"suspend", "resume", "cancel"} : Administer(action)
    BY <1>3 DEF Suspend, Resume, Cancel
  <2>2. UNCHANGED <<def, tokens, tasks, incidents, tx>> /\ inst' = Apply(inst, action)
    BY <2>1 DEF Administer
  <2>3. inst' = inst \/ inst' \notin {"WAITING", "COMPLETED"}
    <3>1. \A a, b : <<a, action, b>> \in Machine => b \notin {"WAITING", "COMPLETED"}
      BY DEF Machine
    <3> QED BY <2>2, <3>1, ApplyFollows
  <2> QED BY <1>2, <2>2, <2>3 DEF Quiet
<1>4. CASE \E k \in DOMAIN incidents : ResolveIncident(k)
  <2>1. PICK k \in DOMAIN incidents : ResolveIncident(k)
    BY <1>4
  <2> DEFINE row == [incidents[k] EXCEPT !.open = FALSE]
  <2>2. /\ UNCHANGED <<def, inst, tokens, tasks, tx>>
        /\ incidents' = [incidents EXCEPT ![k] = row]
    BY <2>1 DEF ResolveIncident
  <2>3. row.code = incidents[k].code
    <3>1. incidents[k] \in IncidentRows
      BY <1>1
    <3> QED BY <3>1 DEF IncidentRows
  <2> HIDE DEF row
  <2>4. Notes(incidents, incidents')
    BY <2>2, <2>3 DEF Notes
  <2> QED BY <2>2, <2>4 DEF Quiet
<1>5. CASE \E s \in Sessions : Rollback(s) \/ CommitFire(s) \/ \E t \in timers : BeginFire(s, t)
  <2>1. PICK s \in Sessions : Rollback(s) \/ CommitFire(s) \/ \E t \in timers : BeginFire(s, t)
    BY <1>5
  <2>2. UNCHANGED <<def, inst, tokens, tasks, incidents>>
    BY <2>1 DEF Rollback, CommitFire, BeginFire
  <2>3. \E t : tx' = [tx EXCEPT ![s] = t] /\ t.op \in {"none", "fire"}
    <3>1. CASE Rollback(s) \/ CommitFire(s)
      <4>1. tx' = [tx EXCEPT ![s] = Closed] /\ Closed.op = "none"
        BY <3>1 DEF Rollback, CommitFire, Close, Closed
      <4> QED BY <4>1
    <3>2. CASE \E t \in timers : BeginFire(s, t)
      <4>1. PICK t \in timers : BeginFire(s, t)
        BY <3>2
      <4>2. PICK c \in Newest :
              tx' = [tx EXCEPT ![s] = [op |-> "fire", timer |-> t, clock |-> c, row |-> clocks[c]]]
        BY <4>1 DEF BeginFire
      <4>3. [op |-> "fire", timer |-> t, clock |-> c, row |-> clocks[c]].op = "fire"
        OBVIOUS
      <4> QED BY <4>2, <4>3
    <3> QED BY <2>1, <3>1, <3>2
  <2>4. \A r \in Sessions : tx'[r] = tx[r] \/ tx'[r].op \in {"none", "fire"}
    BY <1>1, <2>3
  <2> QED BY <1>2, <2>2, <2>4 DEF Quiet
<1>6. CASE (\E t \in timers : FireNodeTimer(t)) \/ UNCHANGED vars
  <2>1. UNCHANGED <<def, inst, tokens, tasks, incidents, tx>>
    BY <1>6 DEF FireNodeTimer, vars
  <2> QED BY <1>2, <2>1 DEF Quiet
<1> QED BY <1>3, <1>4, <1>5, <1>6

\* Every step is of one of these kinds.
LEMMA StepKinds ==
  ASSUME WorkInv, [Next]_vars
  PROVE  \/ Quiet
         \/ \E k \in DOMAIN tasks : Swaps(k)
         \/ \E u \in Starters : Start(u)
         \/ \E s \in Sessions : (\E t : Takes(s, t)) \/ BeginRetry(s) \/ CommitFinish(s) \/ CommitRetry(s)
<1>0. RowsOK
  BY DEF WorkInv
<1>1. CASE \E u \in Users, k \in DOMAIN tasks : Claim(u, k)
  BY <1>0, <1>1, TaskSwaps
<1>2. CASE \E k \in DOMAIN tasks : Reassign(k) \/ Escalate(k)
  BY <1>0, <1>2, TaskSwaps
<1>3. CASE \E s \in Sessions : (\E u \in Users : Finish(s, u)) \/ BeginRetry(s) \/ Rollback(s)
  BY <1>0, <1>3, FinishTakes, OthersQuiet
<1>4. CASE \E s \in Sessions : Engine(s)
  BY <1>4, OthersQuiet DEF Engine
<1>5. CASE \E s \in Sessions, t \in timers : BeginFire(s, t)
  BY <1>5, OthersQuiet
<1>6. CASE \/ \E t \in timers : FireNodeTimer(t)
           \/ Suspend \/ Resume \/ Cancel
           \/ \E k \in DOMAIN incidents : ResolveIncident(k)
           \/ UNCHANGED vars
  BY <1>6, OthersQuiet
<1> QED BY <1>1, <1>2, <1>3, <1>4, <1>5, <1>6 DEF Next

-----------------------------------------------------------------------------
(* Open finishes                                                           *)

\* What a finish relies on until it commits: its task is claimed, the edge it
\* takes leaves the task's node, and the token it found is still parked there.
Grips(t, ts, ks) ==
  t.op = "finish" =>
    /\ ks[t.task].status = "CLAIMED"
    /\ \E x \in DOMAIN def.out[ks[t.task].node] : def.out[ks[t.task].node][x] = t.to
    /\ t.parked # 0 => t.parked \in Live(ts) /\ ts[t.parked].node = ks[t.task].node

HoldInv ==
  /\ OnTaskNodes(tasks)
  /\ \A s \in Sessions : Grips(tx[s], tokens, tasks)
  /\ \A r, s \in Sessions :
       r # s /\ tx[r].op = "finish" /\ tx[s].op = "finish" => tx[r].task # tx[s].task

\* The transaction of one session changes.
LEMMA TxBecomes ==
  ASSUME WorkInv, NEW s \in Sessions, NEW t, tx' = [tx EXCEPT ![s] = t]
  PROVE  tx'[s] = t /\ \A r \in Sessions : r # s => tx'[r] = tx[r]
  BY DEF WorkInv, TxOK

\* What open transactions refer to is there.
LEMMA TxRefers ==
  ASSUME WorkInv, NEW s \in Sessions
  PROVE  /\ tx[s].op = "finish" => tx[s].task \in DOMAIN tasks /\ tx[s].to \in Nodes
                                   /\ tx[s].parked \in DOMAIN tokens \cup {0}
         /\ tx[s].op = "retry" => tx[s].work \in Seq(DOMAIN tokens)
  BY DEF WorkInv, TxOK, Fits

\* A drive takes from no finish what it relies on.
LEMMA GripsOn ==
  ASSUME NEW x, NEW d, Follows(x, d), OnTaskNodes(d.tasks),
         NEW t, Grips(t, d.tokens, d.tasks), t.op = "finish" => t.task \in DOMAIN d.tasks
  PROVE  Grips(t, x.tokens, x.tasks) /\ OnTaskNodes(x.tasks)
<1>1. /\ TokensFollow(x.tokens, d.tokens) /\ TasksFollow(x.tasks, d.tasks)
  BY DEF Follows
<1>2. OnTaskNodes(x.tasks)
  BY <1>1 DEF OnTaskNodes, TasksFollow
<1>3. \A n : def.type[n] \in TaskTypes => Parking(n)
  BY DEF Parking
<1>4. Grips(t, x.tokens, x.tasks)
  <2> SUFFICES ASSUME t.op = "finish"
               PROVE  /\ x.tasks[t.task].status = "CLAIMED"
                      /\ \E y \in DOMAIN def.out[x.tasks[t.task].node] :
                           def.out[x.tasks[t.task].node][y] = t.to
                      /\ t.parked # 0 => t.parked \in Live(x.tokens)
                                         /\ x.tokens[t.parked].node = x.tasks[t.task].node
    BY DEF Grips
  <2>1. x.tasks[t.task] = d.tasks[t.task]
    BY <1>1 DEF TasksFollow
  <2>2. Parking(d.tasks[t.task].node)
    BY <1>3 DEF OnTaskNodes
  <2>3. ASSUME t.parked # 0
        PROVE  t.parked \in Live(x.tokens) /\ x.tokens[t.parked].node = d.tasks[t.task].node
    <3>1. t.parked \in DOMAIN d.tokens /\ d.tokens[t.parked].live
          /\ d.tokens[t.parked].node = d.tasks[t.task].node
      BY <2>3 DEF Grips, Live
    <3> QED BY <1>1, <2>2, <3>1 DEF TokensFollow, Live
  <2> QED BY <2>1, <2>3 DEF Grips
<1> QED BY <1>2, <1>4

\* So a driving step keeps what the other finishes rely on.
LEMMA DriveHolds ==
  ASSUME WorkInv, HoldInv, def' = def, NEW d, Drivable(d), NEW status, Drive(status, d),
         OnTaskNodes(d.tasks),
         \A r \in Sessions : \/ tx'[r].op = "none"
                             \/ tx'[r] = tx[r] /\ Grips(tx[r], d.tokens, d.tasks)
  PROVE  HoldInv'
<1>1. PICK x : Along(x, d) /\ tokens' = x.tokens /\ tasks' = x.tasks
  BY DriveLeads DEF WorkInv
<1>2. Follows(x, d)
  BY <1>1 DEF Along
<1>3. ASSUME NEW r \in Sessions
      PROVE  Grips(tx'[r], tokens', tasks')
  <2>1. CASE tx'[r].op = "none"
    BY <2>1 DEF Grips
  <2>2. CASE tx'[r] = tx[r] /\ Grips(tx[r], d.tokens, d.tasks)
    <3>1. tx[r].op = "finish" => tx[r].task \in DOMAIN d.tasks
      BY TxRefers DEF Drivable
    <3>2. Grips(tx[r], x.tokens, x.tasks)
      BY <1>2, <2>2, <3>1, GripsOn
    <3> QED BY <1>1, <2>2, <3>2
  <2> QED BY <2>1, <2>2
<1>4. OnTaskNodes(x.tasks)
  BY <1>2 DEF OnTaskNodes, Follows, TasksFollow
<1>5. \A r, s \in Sessions :
        r # s /\ tx'[r].op = "finish" /\ tx'[s].op = "finish" => tx'[r].task # tx'[s].task
  <2>1. \A r \in Sessions : tx'[r].op = "finish" => tx'[r] = tx[r]
    <3>1. "none" # "finish"
      OBVIOUS
    <3> QED BY <3>1
  <2> QED BY <2>1 DEF HoldInv
<1>6. OnTaskNodes(tasks)'
  BY <1>1, <1>4 DEF OnTaskNodes
<1>7. \A r \in Sessions : Grips(tx[r], tokens, tasks)'
  BY <1>3 DEF Grips, Live
<1> QED BY <1>5, <1>6, <1>7 DEF HoldInv

\* A token that is live remains so but for one that is consumed.
LEMMA LaunchKeeps ==
  ASSUME NEW d, NEW ts, NEW to, Launches(d, ts, to)
  PROVE  \A i \in DOMAIN ts : i \in DOMAIN d.tokens /\ d.tokens[i] = ts[i]
  BY DEF Launches

\* Two finishes hold different tokens: their tasks are at different nodes.
LEMMA FinishesApart ==
  ASSUME WorkInv, HoldInv, NEW r \in Sessions, NEW s \in Sessions, r # s,
         tx[r].op = "finish", tx[s].op = "finish"
  PROVE  /\ tx[r].task # tx[s].task
         /\ tasks[tx[r].task].node # tasks[tx[s].task].node
         /\ tx[r].parked # 0 => tx[r].parked # tx[s].parked
<1> DEFINE k == tx[r].task
           m == tx[s].task
<1>1. k \in DOMAIN tasks /\ m \in DOMAIN tasks /\ k # m
  BY TxRefers DEF HoldInv
<1>2. IsOpen(tasks[k]) /\ IsOpen(tasks[m])
  <2>1. tasks[k].status = "CLAIMED" /\ tasks[m].status = "CLAIMED"
    BY DEF HoldInv, Grips
  <2> QED BY <2>1 DEF IsOpen, OpenTask
<1>3. tasks[k].node # tasks[m].node
  BY <1>1, <1>2 DEF WorkInv, RowsOK, Single
<1>4. ASSUME tx[r].parked # 0
      PROVE  tx[r].parked # tx[s].parked
  <2>1. tokens[tx[r].parked].node = tasks[k].node
    BY <1>4 DEF HoldInv, Grips
  <2>2. tx[s].parked # 0 => tokens[tx[s].parked].node = tasks[m].node
    BY DEF HoldInv, Grips
  <2> QED BY <1>3, <1>4, <2>1, <2>2
<1> QED BY <1>1, <1>3, <1>4

\* The rows of a task that is finished, and of the others.
LEMMA DoneRows ==
  ASSUME RowsOK, NEW k \in DOMAIN tasks
  PROVE  /\ DOMAIN Done(k) = DOMAIN tasks
         /\ Done(k)[k].node = tasks[k].node /\ Done(k)[k].status = "FINISHED" /\ ~IsOpen(Done(k)[k])
         /\ \A m \in DOMAIN tasks : m # k => Done(k)[m] = tasks[m]
         /\ \A m \in DOMAIN tasks : Done(k)[m].node = tasks[m].node
<1> DEFINE row == [tasks[k] EXCEPT !.status = "FINISHED"]
<1>1. tasks[k] \in TaskRows /\ Done(k) = [tasks EXCEPT ![k] = row]
  BY DEF RowsOK, Done
<1>2. row.node = tasks[k].node /\ row.status = "FINISHED" /\ ~IsOpen(row)
  BY <1>1 DEF TaskRows, IsOpen, OpenTask
<1> HIDE DEF row
<1>3. DOMAIN Done(k) = DOMAIN tasks /\ Done(k)[k] = row
      /\ \A m \in DOMAIN tasks : m # k => Done(k)[m] = tasks[m]
  BY <1>1
<1> QED BY <1>2, <1>3

\* What a finish leaves to the other ones where it begins to drive.
LEMMA OthersGrip ==
  ASSUME WorkInv, HoldInv, NEW s \in Sessions, tx[s].op = "finish",
         NEW r \in Sessions, r # s, NEW ts,
         DOMAIN tokens \subseteq DOMAIN ts,
         \A i \in DOMAIN tokens : /\ ts[i].node = tokens[i].node
                                  /\ tokens[i].live /\ (tx[s].parked = 0 \/ i # tx[s].parked) => ts[i].live
  PROVE  Grips(tx[r], ts, Done(tx[s].task))
<1> SUFFICES ASSUME tx[r].op = "finish" PROVE Grips(tx[r], ts, Done(tx[s].task))
  BY DEF Grips
<1>1. /\ tx[r].task # tx[s].task /\ (tx[r].parked # 0 => tx[r].parked # tx[s].parked)
      /\ tx[r].task \in DOMAIN tasks /\ tx[s].task \in DOMAIN tasks
  BY FinishesApart, TxRefers
<1>2. Done(tx[s].task)[tx[r].task] = tasks[tx[r].task]
  BY <1>1, DoneRows DEF WorkInv
<1>3. Grips(tx[r], tokens, tasks)
  BY DEF HoldInv
<1> QED BY <1>1, <1>2, <1>3 DEF Grips, Live

\* Every step keeps what finishes rely on.
LEMMA HoldStep ==
  ASSUME WorkInv, HoldInv, [Next]_vars
  PROVE  HoldInv'
<1>0. RowsOK /\ TxOK
  BY DEF WorkInv
<1>1. CASE Quiet
  <2>1. \A r \in Sessions : tx'[r] = tx[r] \/ tx'[r].op # "finish"
    BY <1>1 DEF Quiet
  <2>2. def' = def /\ tokens' = tokens /\ tasks' = tasks
    BY <1>1 DEF Quiet
  <2>3. ASSUME NEW r \in Sessions PROVE Grips(tx[r], tokens, tasks)'
    BY <2>1, <2>2 DEF HoldInv, Grips, Live
  <2>4. OnTaskNodes(tasks)'
    BY <2>2 DEF HoldInv, OnTaskNodes
  <2> QED BY <2>1, <2>3, <2>4 DEF HoldInv
<1>2. ASSUME NEW k \in DOMAIN tasks, Swaps(k)
      PROVE  HoldInv'
  <2>1. PICK row \in TaskRows : tasks' = [tasks EXCEPT ![k] = row] /\ row.node = tasks[k].node
    BY <1>2 DEF Swaps
  <2>2. def' = def /\ tokens' = tokens /\ tx' = tx /\ ~Locked(k)
    BY <1>2 DEF Swaps
  <2>3. /\ DOMAIN tasks' = DOMAIN tasks /\ tasks'[k] = row
        /\ \A m \in DOMAIN tasks : m # k => tasks'[m] = tasks[m]
    BY <1>0, <2>1 DEF RowsOK
  <2>4. \A m \in DOMAIN tasks : tasks'[m].node = tasks[m].node
    BY <2>1, <2>3
  <2>5. ASSUME NEW r \in Sessions PROVE Grips(tx[r], tokens, tasks)'
    <3>1. tx[r].op = "finish" => tasks'[tx[r].task] = tasks[tx[r].task]
      BY <2>2, <2>3, TxRefers DEF Locked
    <3> QED BY <2>2, <3>1 DEF HoldInv, Grips, Live
  <2>6. OnTaskNodes(tasks)'
    BY <2>2, <2>3, <2>4 DEF HoldInv, OnTaskNodes
  <2> QED BY <2>2, <2>5, <2>6 DEF HoldInv
<1>3. ASSUME NEW u \in Starters, Start(u)
      PROVE  HoldInv'
  <2>1. PICK d : /\ Drivable(d) /\ Drive("RUNNING", d) /\ Launches(d, tokens, def.start)
                 /\ d.tasks = tasks /\ d.incidents = incidents
    BY <1>0, <1>3, StartLaunches
  <2>2. def' = def /\ tx' = tx
    BY <1>3 DEF Start
  <2>3. ASSUME NEW r \in Sessions PROVE Grips(tx[r], d.tokens, d.tasks)
    <3>1. \A i \in DOMAIN tokens : i \in DOMAIN d.tokens /\ d.tokens[i] = tokens[i]
      BY <2>1, LaunchKeeps
    <3>2. Grips(tx[r], tokens, tasks)
      BY DEF HoldInv
    <3> QED BY <2>1, <3>1, <3>2 DEF Grips, Live
  <2> QED BY <2>1, <2>2, <2>3, DriveHolds DEF HoldInv
<1>4. ASSUME NEW s \in Sessions, NEW t, Takes(s, t)
      PROVE  HoldInv'
  <2>1. tx'[s] = t /\ \A r \in Sessions : r # s => tx'[r] = tx[r]
    BY <1>4, TxBecomes DEF Takes
  <2>2. UNCHANGED <<def, tokens, tasks>>
    BY <1>4 DEF Takes
  <2>3. ASSUME NEW r \in Sessions PROVE Grips(tx[r], tokens, tasks)'
    <3>1. CASE r = s
      BY <1>4, <2>1, <2>2, <3>1 DEF Takes, Grips, Live
    <3>2. CASE r # s
      BY <2>1, <2>2, <3>2 DEF HoldInv, Grips, Live
    <3> QED BY <3>1, <3>2
  <2>4. \A r \in Sessions : tx[r].op = "finish" => tx[r].task # t.task
    BY <1>4 DEF Takes, Locked
  <2>5. \A r, q \in Sessions :
          r # q /\ tx'[r].op = "finish" /\ tx'[q].op = "finish" => tx'[r].task # tx'[q].task
    BY <2>1, <2>4 DEF HoldInv
  <2>6. OnTaskNodes(tasks)'
    BY <2>2 DEF HoldInv, OnTaskNodes
  <2> QED BY <2>3, <2>5, <2>6 DEF HoldInv
<1>5. ASSUME NEW s \in Sessions, BeginRetry(s)
      PROVE  HoldInv'
  <2>1. /\ tx' = [tx EXCEPT ![s] = [op |-> "retry", work |-> LiveInOrder]]
        /\ UNCHANGED <<def, tokens, tasks>>
    BY <1>5 DEF BeginRetry
  <2>2. tx'[s].op = "retry" /\ \A r \in Sessions : r # s => tx'[r] = tx[r]
    <3>1. [op |-> "retry", work |-> LiveInOrder].op = "retry"
      OBVIOUS
    <3> QED BY <2>1, <3>1, TxBecomes, ZenonT(60)
  <2>3. \A r \in Sessions : tx'[r] = tx[r] \/ tx'[r].op # "finish"
    <3>1. "retry" # "finish"
      OBVIOUS
    <3> QED BY <2>2, <3>1
  <2>4. ASSUME NEW r \in Sessions PROVE Grips(tx[r], tokens, tasks)'
    BY <2>1, <2>3, SMTT(30) DEF HoldInv, Grips, Live
  <2>5. OnTaskNodes(tasks)'
    BY <2>1 DEF HoldInv, OnTaskNodes
  <2> QED BY <2>3, <2>4, <2>5 DEF HoldInv
<1>6. ASSUME NEW s \in Sessions, CommitFinish(s)
      PROVE  HoldInv'
  <2> DEFINE t == tx[s]
  <2>1. /\ tx' = [tx EXCEPT ![s] = Closed] /\ def' = def /\ t.op = "finish"
        /\ t.task \in DOMAIN tasks /\ t.to \in Nodes
        /\ t.parked = 0 => tokens' = tokens /\ tasks' = Done(t.task)
        /\ t.parked # 0 =>
             /\ t.parked \in DOMAIN tokens
             /\ \E d : /\ Drivable(d) /\ Drive(inst, d)
                       /\ Launches(d, Without(tokens, t.parked), t.to)
                       /\ d.tasks = Done(t.task)
    BY <1>0, <1>6, FinishLaunches
  <2>2. tx'[s].op = "none" /\ \A r \in Sessions : r # s => tx'[r] = tx[r]
    <3>1. Closed.op = "none"
      BY DEF Closed
    <3> QED BY <2>1, <3>1, TxBecomes
  <2>3. OnTaskNodes(Done(t.task))
    BY <1>0, <2>1, DoneRows DEF HoldInv, OnTaskNodes
  <2>4. CASE t.parked = 0
    <3>1. ASSUME NEW r \in Sessions, r # s PROVE Grips(tx[r], tokens, Done(t.task))
      BY <2>1, <2>4, <3>1, OthersGrip
    <3>2. ASSUME NEW r \in Sessions PROVE Grips(tx[r], tokens, tasks)'
      <4>1. CASE r = s
        BY <2>2, <4>1 DEF Grips
      <4>2. CASE r # s
        BY <2>1, <2>2, <2>4, <3>1, <4>2 DEF Grips, Live
      <4> QED BY <4>1, <4>2
    <3>3. OnTaskNodes(tasks)'
      BY <2>1, <2>3, <2>4 DEF OnTaskNodes
    <3>4. \A r, q \in Sessions :
            r # q /\ tx'[r].op = "finish" /\ tx'[q].op = "finish" => tx'[r].task # tx'[q].task
      BY <2>2 DEF HoldInv
    <3> QED BY <3>2, <3>3, <3>4 DEF HoldInv
  <2>5. CASE t.parked # 0
    <3>1. PICK d : /\ Drivable(d) /\ Drive(inst, d)
                   /\ Launches(d, Without(tokens, t.parked), t.to)
                   /\ d.tasks = Done(t.task)
      BY <2>1, <2>5
    <3> DEFINE w == Without(tokens, t.parked)
    <3>2. /\ DOMAIN w = DOMAIN tokens
          /\ \A i \in DOMAIN tokens : /\ w[i].node = tokens[i].node
                                      /\ w[i].live <=> tokens[i].live /\ i # t.parked
      BY <1>0, WithoutOne DEF RowsOK
    <3>3. \A i \in DOMAIN w : i \in DOMAIN d.tokens /\ d.tokens[i] = w[i]
      BY <3>1, LaunchKeeps
    <3> HIDE DEF w
    <3>4. ASSUME NEW r \in Sessions, r # s PROVE Grips(tx[r], d.tokens, d.tasks)
      BY <2>1, <2>5, <3>1, <3>2, <3>3, <3>4, OthersGrip
    <3> QED BY <2>1, <2>2, <2>3, <3>1, <3>4, DriveHolds
  <2> QED BY <2>4, <2>5
<1>7. ASSUME NEW s \in Sessions, CommitRetry(s)
      PROVE  HoldInv'
  <2>1. tx[s].op = "retry" /\ Drive(inst, Fresh(tx[s].work)) /\ Close(s) /\ def' = def
    BY <1>7 DEF CommitRetry
  <2>2. tx'[s].op = "none" /\ \A r \in Sessions : r # s => tx'[r] = tx[r]
    <3>1. Closed.op = "none"
      BY DEF Closed
    <3> QED BY <2>1, <3>1, TxBecomes DEF Close
  <2>3. Drivable(Fresh(tx[s].work))
    BY <1>0, <2>1, TxRefers, FreshDrivable
  <2>4. Fresh(tx[s].work).tokens = tokens /\ Fresh(tx[s].work).tasks = tasks
    BY DEF Fresh
  <2>5. \A r \in Sessions : Grips(tx[r], Fresh(tx[s].work).tokens, Fresh(tx[s].work).tasks)
    BY <2>4 DEF HoldInv
  <2>6. OnTaskNodes(Fresh(tx[s].work).tasks)
    BY <2>4 DEF HoldInv
  <2> QED BY <2>1, <2>2, <2>3, <2>5, <2>6, DriveHolds
<1> QED BY <1>1, <1>2, <1>3, <1>4, <1>5, <1>6, <1>7, StepKinds

\* At first nothing is held.
LEMMA HoldFirst == Init => HoldInv
<1> SUFFICES ASSUME Init PROVE HoldInv
  OBVIOUS
<1>1. tasks = << >> /\ \A s \in Sessions : tx[s].op = "none"
  BY DEF Init, Closed
<1>2. \A s \in Sessions : tx[s].op # "finish"
  <2>1. "none" # "finish"
    OBVIOUS
  <2> QED BY <1>1, <2>1
<1>3. OnTaskNodes(tasks)
  BY <1>1 DEF OnTaskNodes
<1> QED BY <1>2, <1>3 DEF HoldInv, Grips

\* What a finish relies on holds always.
LEMMA Holding == Spec => [](WorkInv /\ HoldInv)
<1>1. WorkInv /\ HoldInv /\ [Next]_vars => HoldInv'
  BY HoldStep
<1> QED BY <1>1, HoldFirst, WorkflowInvariance, PTL DEF Spec

-----------------------------------------------------------------------------
(* Status and joins of an instance no drive of which gave up               *)

\* When nothing drives and no drive gave up, every active token is at a node it
\* waits at, the joins have had their arrivals, a completed instance has nothing
\* active, and a retry that is under way has read waiting tokens.
Resting(ts) == \A i \in Live(ts) : Parking(ts[i].node)
Calm ==
  /\ Resting(tokens) /\ Counted(tokens)
  /\ inst = "COMPLETED" => Live(tokens) = {}
  /\ \A s \in Sessions : tx[s].op = "retry" => Idling(tokens, tx[s].work)
CalmInv ==
  /\ NoLoopLimit => Calm
  /\ inst = "WAITING" => Live(tokens) # {}

\* An incident that was raised is there for good.
LEMMA NoLimitBefore ==
  ASSUME Notes(incidents, incidents'), NoLoopLimit'
  PROVE  NoLoopLimit
  BY DEF Notes, NoLoopLimit

\* A token more, at a node behind no join that has not let one pass, is steady.
LEMMA LaunchSteady ==
  ASSUME NEW d, NEW ts, NEW to, Launches(d, ts, to), Resting(ts)
  PROVE  Steady(d.tokens, d.work)
<1>1. PICK new : /\ new \notin DOMAIN ts /\ DOMAIN d.tokens = DOMAIN ts \cup {new}
                 /\ \A j \in DOMAIN ts : d.tokens[j] = ts[j]
                 /\ d.tokens[new].node = to /\ d.tokens[new].live
                 /\ d.work = <<new>>
  BY DEF Launches
<1>2. DOMAIN d.work = {1} /\ d.work[1] = new
  BY <1>1
<1> QED BY <1>1, <1>2 DEF Resting, Steady, Live

\* The counts at the joins stay right if the new token is not behind one.
LEMMA LaunchCounted ==
  ASSUME def \in Definitions, NEW d, NEW ts, NEW to, Launches(d, ts, to), Counted(ts),
         ts \in Seq(TokenRows), d.tokens \in Seq(TokenRows),
         \A n \in Nodes : ~Behind(n, to)
  PROVE  Counted(d.tokens)
<1> SUFFICES ASSUME NEW n \in Nodes, NEW m \in Nodes, Behind(n, m)
             PROVE  Enough(d.tokens, n, m)
  BY DEF Counted
<1>1. PICK new : /\ new \notin DOMAIN ts /\ DOMAIN d.tokens = DOMAIN ts \cup {new}
                 /\ \A j \in DOMAIN ts : d.tokens[j] = ts[j]
                 /\ d.tokens[new].node = to
  BY DEF Launches
<1>2. to # m
  OBVIOUS
<1>3. \A j : j \in At(d.tokens, m) <=> j \in At(ts, m)
  BY <1>1, <1>2 DEF At
<1>4. At(d.tokens, m) = At(ts, m)
  BY <1>3
<1>5. Came(ts, n) \subseteq Came(d.tokens, n)
  BY <1>1 DEF At, Came
<1>6. Enough(ts, n, m)
  BY DEF Counted
<1> QED BY <1>4, <1>5, <1>6, EnoughMore

\* Consuming a waiting token leaves the others resting and the counts right.
LEMMA WithoutCalm ==
  ASSUME def \in Definitions, NEW ts \in Seq(TokenRows), NEW p, Resting(ts), Counted(ts)
  PROVE  LET w == Without(ts, p)
         IN  w \in Seq(TokenRows) /\ Resting(w) /\ Counted(w)
<1> DEFINE w == Without(ts, p)
<1>1. /\ w \in Seq(TokenRows) /\ DOMAIN w = DOMAIN ts
      /\ \A i \in DOMAIN ts : w[i].node = ts[i].node /\ (w[i].live <=> ts[i].live /\ i # p)
  BY WithoutOne
<1> HIDE DEF w
<1>2. Resting(w)
  BY <1>1 DEF Resting, Live
<1>3. ASSUME NEW n \in Nodes, NEW m \in Nodes, Behind(n, m)
      PROVE  Enough(w, n, m)
  <2>1. At(w, m) = At(ts, m) /\ Came(ts, n) \subseteq Came(w, n)
    BY <1>1 DEF At, Came
  <2>2. Enough(ts, n, m)
    BY <1>3 DEF Counted
  <2> QED BY <1>1, <1>3, <2>1, <2>2, EnoughMore
<1>4. Counted(w)
  BY <1>3 DEF Counted
<1> QED BY <1>1, <1>2, <1>4 DEF w

\* Where the start and the tasks lead is behind no join.
LEMMA NotBehind ==
  ASSUME def \in Definitions, NEW to,
         \/ to = def.start
         \/ \E a \in Nodes : def.type[a] \in TaskTypes /\ \E x \in DOMAIN def.out[a] : def.out[a][x] = to
  PROVE  \A n \in Nodes : ~Behind(n, to)
<1> SUFFICES ASSUME NEW n \in Nodes, Behind(n, to) PROVE FALSE
  OBVIOUS
<1>1. to # def.start
  BY BehindAlone
<1>2. PICK a \in Nodes : def.type[a] \in TaskTypes /\ \E x \in DOMAIN def.out[a] : def.out[a][x] = to
  BY <1>1
<1>3. a = n
  BY <1>2, BehindAlone
<1> QED BY <1>2, <1>3 DEF Behind, TaskTypes

\* A drive adds incidents.
LEMMA DriveNotes ==
  ASSUME RowsOK, NEW d, Drivable(d), NEW status, Drive(status, d), d.incidents = incidents
  PROVE  Notes(incidents, incidents')
<1>1. PICK x : Along(x, d) /\ Notes(x.incidents, incidents')
  BY DriveLeads
<1>2. Notes(incidents, x.incidents)
  BY <1>1 DEF Along, Follows
<1> QED BY <1>1, <1>2 DEF Notes

\* A drive of a steady list that empties it leaves the instance calm.
LEMMA DriveCalm ==
  ASSUME WorkInv, def' = def, Calm, NoLoopLimit',
         NEW d, Drivable(d), NEW status, Drive(status, d),
         Steady(d.tokens, d.work), Counted(d.tokens),
         status = "COMPLETED" => Idling(d.tokens, d.work) /\ Live(d.tokens) = {},
         \A i \in DOMAIN tokens : i \in DOMAIN d.tokens /\ d.tokens[i].node = tokens[i].node,
         \A r \in Sessions : tx'[r].op = "none" \/ tx'[r] = tx[r]
  PROVE  Calm'
<1>1. PICK x : Along(x, d) /\ tokens' = x.tokens /\ x.work = << >>
  BY DriveLeads DEF WorkInv
<1>2. /\ inst' = "COMPLETED" => status = "COMPLETED" \/ Live(tokens') = {}
  BY DriveLeads DEF WorkInv
<1>3. Steady(x.tokens, x.work) /\ Counted(x.tokens) /\ TokensFollow(x.tokens, d.tokens)
  BY <1>1 DEF Along, Follows
<1>4. Resting(x.tokens)
  <2>1. DOMAIN x.work = {}
    BY <1>1
  <2> QED BY <1>3, <2>1 DEF Steady, Resting
<1>5. Resting(tokens)'
  BY <1>1, <1>4 DEF Resting, Parking, Live
<1>6. Counted(tokens)'
  <2>1. \A n, m : Behind(n, m)' <=> Behind(n, m)
    BY DEF Behind, InDegree, Nodes
  <2>2. \A n, m : Enough(tokens, n, m)' <=> Enough(x.tokens, n, m)
    BY <1>1 DEF Enough, At, Came, InDegree
  <2>3. Nodes' = Nodes
    BY DEF Nodes
  <2> QED BY <1>3, <2>1, <2>2, <2>3 DEF Counted
<1>7. (inst = "COMPLETED" => Live(tokens) = {})'
  <2>1. ASSUME status = "COMPLETED" PROVE Live(x.tokens) = {}
    BY <1>1, <2>1 DEF Along
  <2> QED BY <1>1, <1>2, <2>1 DEF Live
<1>8. ASSUME NEW r \in Sessions, tx'[r].op = "retry"
      PROVE  Idling(tokens, tx[r].work)'
  <2>1. tx'[r] = tx[r]
    <3>1. "none" # "retry"
      OBVIOUS
    <3> QED BY <1>8, <3>1
  <2>2. tx[r].work \in Seq(DOMAIN tokens) /\ Idling(tokens, tx[r].work)
    BY <1>8, <2>1, TxRefers DEF Calm
  <2>3. \A k \in DOMAIN tx[r].work : tx[r].work[k] \in DOMAIN tokens
    BY <2>2
  <2>4. \A i \in DOMAIN tokens : x.tokens[i].node = tokens[i].node
    BY <1>3 DEF TokensFollow
  <2> QED BY <1>1, <2>1, <2>2, <2>3, <2>4 DEF Idling, Parking
<1> QED BY <1>5, <1>6, <1>7, <1>8 DEF Calm

\* The first of the status's agreements, at every step.
LEMMA WaitStep ==
  ASSUME WorkInv, CalmInv, [Next]_vars
  PROVE  inst' = "WAITING" => Live(tokens') # {}
<1>0. RowsOK /\ TxOK
  BY DEF WorkInv
<1>1. CASE Quiet
  <2>1. tokens' = tokens /\ (inst' = inst \/ inst' # "WAITING")
    BY <1>1 DEF Quiet
  <2> QED BY <2>1 DEF CalmInv
<1>2. CASE \E k \in DOMAIN tasks : Swaps(k)
  <2>1. tokens' = tokens /\ inst' = inst
    BY <1>2 DEF Swaps
  <2> QED BY <2>1 DEF CalmInv
<1>3. CASE \E u \in Starters : Start(u)
  BY <1>0, <1>3, StartLaunches, DriveLeads
<1>4. CASE \E s \in Sessions : \E t : Takes(s, t)
  <2>1. tokens' = tokens /\ inst' = inst
    BY <1>4 DEF Takes
  <2> QED BY <2>1 DEF CalmInv
<1>5. CASE \E s \in Sessions : BeginRetry(s)
  <2>1. tokens' = tokens /\ inst' = inst
    BY <1>5 DEF BeginRetry
  <2> QED BY <2>1 DEF CalmInv
<1>6. ASSUME NEW s \in Sessions, CommitFinish(s), inst' = "WAITING" PROVE Live(tokens') # {}
  <2>1. CASE tx[s].parked = 0
    <3>1. tokens' = tokens /\ inst' = inst
      BY <1>0, <1>6, <2>1, FinishLaunches
    <3> QED BY <1>6, <3>1 DEF CalmInv
  <2>2. CASE tx[s].parked # 0
    BY <1>0, <1>6, <2>2, FinishLaunches, DriveLeads
  <2> QED BY <2>1, <2>2
<1>7. ASSUME NEW s \in Sessions, CommitRetry(s), inst' = "WAITING" PROVE Live(tokens') # {}
  <2>1. tx[s].op = "retry" /\ Drive(inst, Fresh(tx[s].work))
    BY <1>7 DEF CommitRetry
  <2>2. Drivable(Fresh(tx[s].work))
    BY <1>0, <2>1, TxRefers, FreshDrivable
  <2> QED BY <1>0, <1>7, <2>1, <2>2, DriveLeads
<1> QED BY <1>1, <1>2, <1>3, <1>4, <1>5, <1>6, <1>7, StepKinds

\* Steps that leave the tokens leave the instance calm.
LEMMA StillCalm ==
  ASSUME Calm, def' = def, tokens' = tokens, inst' = inst \/ inst' # "COMPLETED",
         \A r \in Sessions :
           tx'[r].op = "retry" => tx'[r] = tx[r] \/ Idling(tokens, tx'[r].work)
  PROVE  Calm'
<1>1. Resting(tokens)' /\ Counted(tokens)'
  BY DEF Calm, Resting, Parking, Live, Counted, Behind, Enough, At, Came, InDegree, Nodes
<1>2. (inst = "COMPLETED" => Live(tokens) = {})'
  BY DEF Calm, Live
<1>3. ASSUME NEW r \in Sessions, tx'[r].op = "retry" PROVE Idling(tokens, tx[r].work)'
  <2>1. Idling(tokens, tx'[r].work)
    BY <1>3 DEF Calm
  <2> QED BY <2>1 DEF Idling, Parking
<1> QED BY <1>1, <1>2, <1>3 DEF Calm

\* The instance stays calm at every step.
LEMMA CalmStep ==
  ASSUME WorkInv, HoldInv, CalmInv, [Next]_vars
  PROVE  CalmInv'
<1>0. RowsOK /\ TxOK /\ def \in Definitions
  BY DEF WorkInv, RowsOK
<1>10. (inst = "WAITING" => Live(tokens) # {})'
  <2>1. inst' = "WAITING" => Live(tokens') # {}
    BY WaitStep
  <2> QED BY <2>1 DEF Live
<1> SUFFICES ASSUME NoLoopLimit' PROVE Calm'
  BY <1>10 DEF CalmInv
<1>11. ASSUME Notes(incidents, incidents') PROVE Calm
  BY <1>11, NoLimitBefore DEF CalmInv
<1>12. ASSUME incidents' = incidents PROVE Notes(incidents, incidents')
  BY <1>12 DEF Notes
<1>1. CASE Quiet
  <2>1. Calm
    BY <1>1, <1>11 DEF Quiet
  <2>2. \A r \in Sessions : tx'[r].op = "retry" => tx'[r] = tx[r]
    BY <1>1 DEF Quiet
  <2> QED BY <1>1, <2>1, <2>2, StillCalm DEF Quiet
<1>2. CASE \E k \in DOMAIN tasks : Swaps(k)
  <2>1. Calm
    BY <1>2, <1>11 DEF Swaps
  <2>2. def' = def /\ tokens' = tokens /\ inst' = inst /\ tx' = tx
    BY <1>2 DEF Swaps
  <2> QED BY <2>1, <2>2, StillCalm
<1>3. ASSUME NEW u \in Starters, Start(u) PROVE Calm'
  <2>1. PICK d : /\ Drivable(d) /\ Drive("RUNNING", d) /\ Launches(d, tokens, def.start)
                 /\ d.tasks = tasks /\ d.incidents = incidents
    BY <1>0, <1>3, StartLaunches
  <2>2. def' = def /\ tx' = tx
    BY <1>3 DEF Start
  <2>3. Calm
    BY <1>0, <1>11, <2>1, DriveNotes
  <2>4. Steady(d.tokens, d.work)
    BY <2>1, <2>3, LaunchSteady DEF Calm
  <2>5. Counted(d.tokens)
    <3>1. tokens \in Seq(TokenRows) /\ d.tokens \in Seq(TokenRows)
      BY <1>0, <2>1 DEF RowsOK, Drivable, DriveRows
    <3> QED BY <1>0, <2>1, <2>3, <3>1, NotBehind, LaunchCounted DEF Calm
  <2>6. \A i \in DOMAIN tokens : i \in DOMAIN d.tokens /\ d.tokens[i].node = tokens[i].node
    BY <2>1, LaunchKeeps
  <2> QED BY <2>1, <2>2, <2>3, <2>4, <2>5, <2>6, DriveCalm
<1>4. ASSUME NEW s \in Sessions, NEW t, Takes(s, t) PROVE Calm'
  <2>1. UNCHANGED <<def, inst, tokens, incidents>> /\ t.op = "finish"
    BY <1>4 DEF Takes
  <2>2. Calm
    BY <1>11, <1>12, <2>1
  <2>3. tx'[s] = t /\ \A r \in Sessions : r # s => tx'[r] = tx[r]
    BY <1>4, TxBecomes DEF Takes
  <2>4. \A r \in Sessions : tx'[r].op = "retry" => tx'[r] = tx[r]
    <3>1. "finish" # "retry"
      OBVIOUS
    <3> QED BY <2>1, <2>3, <3>1
  <2> QED BY <2>1, <2>2, <2>4, StillCalm
<1>5. ASSUME NEW s \in Sessions, BeginRetry(s) PROVE Calm'
  <2> DEFINE t == [op |-> "retry", work |-> LiveInOrder]
  <2>1. UNCHANGED <<def, inst, tokens, incidents>> /\ tx' = [tx EXCEPT ![s] = t]
    BY <1>5 DEF BeginRetry
  <2>2. Calm
    BY <1>11, <1>12, <2>1
  <2>3. t.work = LiveInOrder
    OBVIOUS
  <2> HIDE DEF t
  <2>4. tx'[s] = t /\ \A r \in Sessions : r # s => tx'[r] = tx[r]
    BY <2>1, TxBecomes
  <2>5. Idling(tokens, t.work)
    <3>1. t.work \in Seq(Live(tokens))
      BY <1>0, <2>3, LiveInOrderLive DEF RowsOK
    <3>2. \A k \in DOMAIN t.work : t.work[k] \in Live(tokens)
      BY <3>1
    <3> QED BY <2>2, <3>2 DEF Idling, Calm, Resting
  <2>6. \A r \in Sessions : tx'[r] = tx[r] \/ Idling(tokens, tx'[r].work)
    BY <2>4, <2>5
  <2> QED BY <2>1, <2>2, <2>6, StillCalm
<1>6. ASSUME NEW s \in Sessions, CommitFinish(s) PROVE Calm'
  <2> DEFINE t == tx[s]
  <2>1. /\ tx' = [tx EXCEPT ![s] = Closed] /\ def' = def /\ t.op = "finish"
        /\ t.task \in DOMAIN tasks /\ t.to \in Nodes
        /\ t.parked = 0 => tokens' = tokens /\ inst' = inst /\ incidents' = incidents
        /\ t.parked # 0 =>
             /\ t.parked \in DOMAIN tokens
             /\ \E d : /\ Drivable(d) /\ Drive(inst, d)
                       /\ Launches(d, Without(tokens, t.parked), t.to)
                       /\ d.tasks = Done(t.task) /\ d.incidents = incidents
    BY <1>0, <1>6, FinishLaunches
  <2>2. \A r \in Sessions : tx'[r].op = "none" \/ tx'[r] = tx[r]
    <3>1. Closed.op = "none"
      BY DEF Closed
    <3> QED BY <2>1, <3>1, TxBecomes
  <2>3. CASE t.parked = 0
    <3>1. Calm
      BY <1>11, <1>12, <2>1, <2>3
    <3>2. \A r \in Sessions : tx'[r].op = "retry" => tx'[r] = tx[r]
      <4>1. "none" # "retry"
        OBVIOUS
      <4> QED BY <2>2, <4>1
    <3> QED BY <2>1, <2>3, <3>1, <3>2, StillCalm
  <2>4. CASE t.parked # 0
    <3> DEFINE w == Without(tokens, t.parked)
    <3>1. PICK d : /\ Drivable(d) /\ Drive(inst, d) /\ Launches(d, w, t.to)
                   /\ d.tasks = Done(t.task) /\ d.incidents = incidents
      BY <2>1, <2>4
    <3>2. Calm
      BY <1>0, <1>11, <3>1, DriveNotes
    <3>3. tokens \in Seq(TokenRows) /\ d.tokens \in Seq(TokenRows)
      BY <1>0, <3>1 DEF RowsOK, Drivable, DriveRows
    <3>4. /\ w \in Seq(TokenRows) /\ Resting(w) /\ Counted(w)
          /\ DOMAIN w = DOMAIN tokens /\ \A i \in DOMAIN tokens : w[i].node = tokens[i].node
      BY <1>0, <3>2, <3>3, WithoutCalm, WithoutOne DEF Calm
    <3>5. Grips(tx[s], tokens, tasks) /\ tasks[t.task] \in TaskRows
      BY <1>0, <2>1 DEF HoldInv, RowsOK
    <3>6. \A n \in Nodes : ~Behind(n, t.to)
      <4>1. tasks[t.task].node \in Nodes /\ def.type[tasks[t.task].node] \in TaskTypes
        BY <2>1, <3>5 DEF TaskRows, HoldInv, OnTaskNodes
      <4> QED BY <1>0, <2>1, <3>5, <4>1, NotBehind DEF Grips
    <3>7. inst # "COMPLETED"
      <4>1. t.parked \in Live(tokens)
        BY <2>1, <2>4, <3>5 DEF Grips
      <4> QED BY <3>2, <4>1 DEF Calm
    <3> HIDE DEF w
    <3>8. Steady(d.tokens, d.work)
      BY <3>1, <3>4, LaunchSteady
    <3>9. Counted(d.tokens)
      BY <1>0, <3>1, <3>3, <3>4, <3>6, LaunchCounted
    <3>10. \A i \in DOMAIN tokens : i \in DOMAIN d.tokens /\ d.tokens[i].node = tokens[i].node
      BY <3>1, <3>4, LaunchKeeps
    <3> QED BY <2>1, <2>2, <3>1, <3>2, <3>7, <3>8, <3>9, <3>10, DriveCalm
  <2> QED BY <2>3, <2>4
<1>7. ASSUME NEW s \in Sessions, CommitRetry(s) PROVE Calm'
  <2> DEFINE d == Fresh(tx[s].work)
  <2>1. /\ tx[s].op = "retry" /\ Drive(inst, d) /\ tx' = [tx EXCEPT ![s] = Closed]
        /\ def' = def
    BY <1>7 DEF CommitRetry, Close
  <2>2. Drivable(d) /\ tx[s].work \in Seq(DOMAIN tokens)
    BY <1>0, <2>1, TxRefers, FreshDrivable
  <2>3. d.tokens = tokens /\ d.work = tx[s].work /\ d.incidents = incidents
    BY DEF Fresh
  <2> HIDE DEF d
  <2>4. Calm
    BY <1>0, <1>11, <2>1, <2>2, <2>3, DriveNotes
  <2>5. \A r \in Sessions : tx'[r].op = "none" \/ tx'[r] = tx[r]
    <3>1. Closed.op = "none"
      BY DEF Closed
    <3> QED BY <2>1, <3>1, TxBecomes
  <2>6. Idling(d.tokens, d.work)
    BY <2>1, <2>3, <2>4 DEF Calm
  <2>7. Steady(d.tokens, d.work)
    BY <2>3, <2>4, <2>6 DEF Calm, Resting, Idling, Steady
  <2>8. inst = "COMPLETED" => Live(d.tokens) = {}
    BY <2>3, <2>4 DEF Calm
  <2>9. Counted(d.tokens)
    BY <2>3, <2>4 DEF Calm
  <2>10. \A i \in DOMAIN tokens : i \in DOMAIN d.tokens /\ d.tokens[i].node = tokens[i].node
    BY <2>3
  <2> QED BY <2>1, <2>2, <2>4, <2>5, <2>6, <2>7, <2>8, <2>9, <2>10, DriveCalm
<1> QED BY <1>1, <1>2, <1>3, <1>4, <1>5, <1>6, <1>7, StepKinds

\* At first there is nothing.
LEMMA CalmFirst == Init => CalmInv
<1> SUFFICES ASSUME Init PROVE CalmInv
  OBVIOUS
<1>1. /\ tokens = << >> /\ inst = "none" /\ \A s \in Sessions : tx[s].op = "none"
      /\ def \in Definitions
  BY DEF Init, Closed
<1>2. Live(tokens) = {} /\ \A n \in Nodes : At(tokens, n) = {}
  BY <1>1 DEF Live, At
<1>3. Resting(tokens) /\ Counted(tokens)
  BY <1>2 DEF Resting, Counted, Enough
<1>4. \A s \in Sessions : tx[s].op # "retry"
  <2>1. "none" # "retry"
    OBVIOUS
  <2> QED BY <1>1, <2>1
<1> QED BY <1>1, <1>2, <1>3, <1>4 DEF CalmInv, Calm

\* So the instance is calm for as long as no drive gives up.
LEMMA Calmness == Spec => [](WorkInv /\ CalmInv)
<1>1. WorkInv /\ HoldInv /\ CalmInv /\ [Next]_vars => CalmInv'
  BY CalmStep
<1> QED BY <1>1, CalmFirst, Holding, PTL DEF Spec

\* Of an instance no drive of which gave up, the status agrees with the tokens:
\* applyStatusInTx completes it only when nothing is active.  A drive that gives
\* up leaves tokens it has not visited, and a later one completes the instance.
THEOREM StatusFollowsTokens == Spec => [](NoLoopLimit => StatusAgreesWithTokens)
<1>1. CalmInv => (NoLoopLimit => StatusAgreesWithTokens)
  BY DEF CalmInv, Calm, StatusAgreesWithTokens
<1> QED BY <1>1, Calmness, PTL

\* An instance that waits has something to wait for, whatever its drives did.
THEOREM WaitingHasTokens == Spec => [](inst = "WAITING" => Live(tokens) # {})
<1>1. CalmInv => (inst = "WAITING" => Live(tokens) # {})
  BY DEF CalmInv
<1> QED BY <1>1, Calmness, PTL

\* A join with nothing else before its successor opens first for a full set of
\* arrivals and gives each later token for one arrival more (drive counts all
\* that were ever consumed there), however its branches come again.
THEOREM JoinLaw == Spec => []JoinCountsArrivals
<1>1. CalmInv => JoinCountsArrivals
  BY DEF CalmInv, Calm, JoinCountsArrivals
<1> QED BY <1>1, Calmness, PTL

-----------------------------------------------------------------------------
(* Retries that do not race a finish                                       *)

\* No retry is under way together with a finish.
RetriesApart == \A r, s \in Sessions : ~(tx[r].op = "finish" /\ tx[s].op = "retry")

\* Then open tasks keep their token, a finish finds one, and the tokens a retry
\* has read at task nodes are there when it commits.
CoverInv ==
  /\ Covered(tokens, tasks, << >>)
  /\ \A s \in Sessions : tx[s].op = "finish" => tx[s].parked # 0
  /\ \A s \in Sessions : tx[s].op = "retry" => Covered(tokens, tasks, tx[s].work)

\* Covered, taken apart: the tasks, and the list.
Backed(ts, ks) == \A k \in DOMAIN ks : IsOpen(ks[k]) => \E i \in Live(ts) : ts[i].node = ks[k].node
Waits(ts, ws) == \A k \in DOMAIN ws : def.type[ts[ws[k]].node] \in TaskTypes => ts[ws[k]].live

\* It is those two.
LEMMA CoveredParts ==
  ASSUME NEW ts, NEW ks, NEW ws
  PROVE  /\ Covered(ts, ks, ws) <=> Backed(ts, ks) /\ Waits(ts, ws)
         /\ Covered(ts, ks, << >>) <=> Backed(ts, ks)
<1>1. DOMAIN << >> = {}
  OBVIOUS
<1>2. Waits(ts, << >>)
  BY <1>1 DEF Waits
<1>3. \A w : Covered(ts, ks, w) <=> Backed(ts, ks) /\ Waits(ts, w)
  BY DEF Covered, Backed, Waits
<1> QED BY <1>2, <1>3

\* A drive of a covered list keeps the cover.
LEMMA DriveCovers ==
  ASSUME WorkInv, HoldInv, CoverInv, def' = def, NEW d, Drivable(d), NEW status, Drive(status, d),
         OnTaskNodes(d.tasks), Covered(d.tokens, d.tasks, d.work),
         \A r \in Sessions : tx'[r].op = "none" \/ tx'[r] = tx[r],
         \A r \in Sessions : tx'[r].op = "retry" =>
           \A i \in DOMAIN tokens : i \in DOMAIN d.tokens /\ d.tokens[i] = tokens[i]
  PROVE  CoverInv'
<1>1. PICK x : Along(x, d) /\ tokens' = x.tokens /\ tasks' = x.tasks
  BY DriveLeads DEF WorkInv
<1>2. Covered(x.tokens, x.tasks, x.work) /\ TokensFollow(x.tokens, d.tokens)
  BY <1>1 DEF Along, Follows
<1>3. Backed(x.tokens, x.tasks)
  BY <1>2, CoveredParts
<1>4. Covered(x.tokens, x.tasks, << >>)
  BY <1>3, CoveredParts
<1>5. \A r \in Sessions : tx'[r].op \in {"finish", "retry"} => tx'[r] = tx[r]
  <2>1. "none" # "finish" /\ "none" # "retry"
    OBVIOUS
  <2> QED BY <2>1
<1>6. \A r \in Sessions : tx'[r].op = "finish" => tx'[r].parked # 0
  BY <1>5 DEF CoverInv
<1>7. ASSUME NEW r \in Sessions, tx'[r].op = "retry"
      PROVE  Covered(x.tokens, x.tasks, tx'[r].work)
  <2> DEFINE ws == tx[r].work
  <2>1. tx'[r] = tx[r]
    BY <1>5, <1>7
  <2>2. ws \in Seq(DOMAIN tokens) /\ Covered(tokens, tasks, ws)
    BY <1>7, <2>1, TxRefers DEF CoverInv
  <2>3. \A k \in DOMAIN ws : ws[k] \in DOMAIN tokens
    BY <2>2
  <2>4. Waits(tokens, ws)
    BY <2>2, CoveredParts
  <2> HIDE DEF ws
  <2>5. Waits(x.tokens, ws)
    <3> SUFFICES ASSUME NEW k \in DOMAIN ws, def.type[x.tokens[ws[k]].node] \in TaskTypes
                 PROVE  x.tokens[ws[k]].live
      BY DEF Waits
    <3>1. ws[k] \in DOMAIN d.tokens /\ d.tokens[ws[k]] = tokens[ws[k]]
      BY <1>7, <2>3
    <3>2. x.tokens[ws[k]].node = d.tokens[ws[k]].node
      BY <1>2, <3>1 DEF TokensFollow
    <3>3. d.tokens[ws[k]].live /\ Parking(d.tokens[ws[k]].node)
      BY <2>4, <3>1, <3>2 DEF Waits, Parking
    <3> QED BY <1>2, <3>1, <3>3 DEF TokensFollow
  <2>6. Covered(x.tokens, x.tasks, ws)
    BY <1>3, <2>5, CoveredParts
  <2> QED BY <2>1, <2>6 DEF ws
<1>8. Covered(tokens, tasks, << >>)'
  BY <1>1, <1>4 DEF Covered, Live
<1>9. ASSUME NEW r \in Sessions, tx'[r].op = "retry"
      PROVE  Covered(tokens, tasks, tx[r].work)'
  <2>1. Covered(x.tokens, x.tasks, tx'[r].work)
    BY <1>7, <1>9
  <2> QED BY <1>1, <2>1 DEF Covered, Live
<1> QED BY <1>6, <1>8, <1>9 DEF CoverInv

\* Steps that leave the tokens and swap at most open tasks keep the cover.
LEMMA StillCovered ==
  ASSUME CoverInv, def' = def, tokens' = tokens, Backed(tokens, tasks'),
         \A r \in Sessions : tx'[r].op = "finish" => tx'[r].parked # 0,
         \A r \in Sessions : tx'[r].op = "retry" => tx'[r] = tx[r] \/ Waits(tokens, tx'[r].work)
  PROVE  CoverInv'
<1>1. Covered(tokens, tasks', << >>)
  BY CoveredParts
<1>2. ASSUME NEW r \in Sessions, tx'[r].op = "retry"
      PROVE  Covered(tokens, tasks', tx'[r].work)
  <2>1. Waits(tokens, tx'[r].work)
    BY <1>2, CoveredParts DEF CoverInv
  <2> QED BY <2>1, CoveredParts
<1>3. Covered(tokens, tasks, << >>)'
  BY <1>1 DEF Covered, Live
<1>4. ASSUME NEW r \in Sessions, tx'[r].op = "retry"
      PROVE  Covered(tokens, tasks, tx[r].work)'
  <2>1. Covered(tokens, tasks', tx'[r].work)
    BY <1>2, <1>4
  <2> QED BY <2>1 DEF Covered, Live
<1> QED BY <1>3, <1>4 DEF CoverInv

\* What a finish starts to drive is covered: no other open task is at its node.
LEMMA FinishCovered ==
  ASSUME WorkInv, HoldInv, Backed(tokens, tasks), NEW s \in Sessions, tx[s].op = "finish",
         tx[s].parked # 0, NEW d, NEW to,
         Launches(d, Without(tokens, tx[s].parked), to), d.tasks = Done(tx[s].task)
  PROVE  Covered(d.tokens, d.tasks, d.work)
<1> DEFINE t == tx[s]
           w == Without(tokens, t.parked)
<1>0. RowsOK
  BY DEF WorkInv
<1>1. t.task \in DOMAIN tasks /\ Grips(t, tokens, tasks)
  BY TxRefers DEF HoldInv
<1>2. /\ tasks[t.task].status = "CLAIMED" /\ t.parked \in Live(tokens)
      /\ tokens[t.parked].node = tasks[t.task].node
  BY <1>1 DEF Grips
<1>3. IsOpen(tasks[t.task])
  BY <1>2 DEF IsOpen, OpenTask
<1>4. /\ DOMAIN w = DOMAIN tokens
      /\ \A i \in DOMAIN tokens : w[i].node = tokens[i].node /\ (w[i].live <=> tokens[i].live /\ i # t.parked)
  BY <1>0, WithoutOne DEF RowsOK
<1>5. PICK new : /\ new \notin DOMAIN w /\ DOMAIN d.tokens = DOMAIN w \cup {new}
                 /\ \A j \in DOMAIN w : d.tokens[j] = w[j]
                 /\ d.tokens[new].node = to /\ d.tokens[new].live /\ d.work = <<new>>
  BY DEF Launches
<1>6. /\ DOMAIN Done(t.task) = DOMAIN tasks /\ ~IsOpen(Done(t.task)[t.task])
      /\ \A m \in DOMAIN tasks : m # t.task => Done(t.task)[m] = tasks[m]
  BY <1>0, <1>1, DoneRows
<1> HIDE DEF w
<1>7. Backed(d.tokens, d.tasks)
  <2> SUFFICES ASSUME NEW k \in DOMAIN tasks, IsOpen(Done(t.task)[k])
               PROVE  \E i \in Live(d.tokens) : d.tokens[i].node = Done(t.task)[k].node
    BY <1>6 DEF Backed
  <2>1. k # t.task /\ Done(t.task)[k] = tasks[k] /\ IsOpen(tasks[k])
    BY <1>6
  <2>2. tasks[k].node # tasks[t.task].node
    BY <1>0, <1>1, <1>3, <2>1 DEF RowsOK, Single
  <2>3. PICK i \in Live(tokens) : tokens[i].node = tasks[k].node
    BY <2>1 DEF Backed
  <2>4. i \in DOMAIN tokens /\ i # t.parked /\ tokens[i].live
    BY <1>2, <2>2, <2>3 DEF Live
  <2>5. i \in Live(d.tokens) /\ d.tokens[i].node = tokens[i].node
    BY <1>4, <1>5, <2>4 DEF Live
  <2> QED BY <2>1, <2>3, <2>5
<1>8. Waits(d.tokens, d.work)
  <2>1. DOMAIN d.work = {1} /\ d.work[1] = new
    BY <1>5
  <2> QED BY <1>5, <2>1 DEF Waits
<1> QED BY <1>7, <1>8, CoveredParts

\* The cover is kept by every step while retries and finishes are apart.
LEMMA CoverStep ==
  ASSUME WorkInv, HoldInv, CoverInv, RetriesApart, [Next]_vars
  PROVE  CoverInv'
<1>0. RowsOK /\ TxOK /\ def \in Definitions /\ Backed(tokens, tasks)
  BY CoveredParts DEF WorkInv, RowsOK, CoverInv
<1>1. CASE Quiet
  <2>1. /\ def' = def /\ tokens' = tokens /\ tasks' = tasks
        /\ \A r \in Sessions : tx'[r] = tx[r] \/ tx'[r].op \in {"none", "fire"}
    BY <1>1 DEF Quiet
  <2>2. \A r \in Sessions : tx'[r].op \in {"finish", "retry"} => tx'[r] = tx[r]
    BY <2>1
  <2> QED BY <1>0, <2>1, <2>2, StillCovered DEF CoverInv
<1>2. ASSUME NEW k \in DOMAIN tasks, Swaps(k) PROVE CoverInv'
  <2>1. PICK row \in TaskRows : tasks' = [tasks EXCEPT ![k] = row] /\ row.node = tasks[k].node
    BY <1>2 DEF Swaps
  <2>2. def' = def /\ tokens' = tokens /\ tx' = tx /\ IsOpen(tasks[k])
    BY <1>2 DEF Swaps
  <2>3. /\ DOMAIN tasks' = DOMAIN tasks /\ tasks'[k] = row
        /\ \A m \in DOMAIN tasks : m # k => tasks'[m] = tasks[m]
    BY <1>0, <2>1 DEF RowsOK
  <2>4. Backed(tokens, tasks')
    BY <1>0, <2>1, <2>2, <2>3 DEF Backed
  <2> QED BY <2>2, <2>4, StillCovered DEF CoverInv
<1>3. ASSUME NEW u \in Starters, Start(u) PROVE CoverInv'
  <2>1. PICK d : /\ Drivable(d) /\ Drive("RUNNING", d) /\ Launches(d, tokens, def.start)
                 /\ d.tasks = tasks /\ d.incidents = incidents
    BY <1>0, <1>3, StartLaunches
  <2>2. def' = def /\ tx' = tx
    BY <1>3 DEF Start
  <2>3. \A i \in DOMAIN tokens : i \in DOMAIN d.tokens /\ d.tokens[i] = tokens[i]
    BY <2>1, LaunchKeeps
  <2>4. Backed(d.tokens, d.tasks)
    <3>1. \A i \in Live(tokens) : i \in Live(d.tokens) /\ d.tokens[i] = tokens[i]
      BY <2>3 DEF Live
    <3> QED BY <1>0, <2>1, <3>1 DEF Backed
  <2>5. Waits(d.tokens, d.work)
    <3>1. PICK new : d.tokens[new].live /\ d.work = <<new>>
      BY <2>1 DEF Launches
    <3>2. DOMAIN d.work = {1} /\ d.work[1] = new
      BY <3>1
    <3> QED BY <3>1, <3>2 DEF Waits
  <2>6. Covered(d.tokens, d.tasks, d.work) /\ OnTaskNodes(d.tasks)
    BY <2>1, <2>4, <2>5, CoveredParts DEF HoldInv
  <2> QED BY <2>1, <2>2, <2>3, <2>6, DriveCovers
<1>4. ASSUME NEW s \in Sessions, NEW t, Takes(s, t) PROVE CoverInv'
  <2>1. UNCHANGED <<def, tokens, tasks>> /\ t.op = "finish"
    BY <1>4 DEF Takes
  <2>2. t.parked # 0
    <3>1. t.task \in DOMAIN tasks /\ tasks[t.task].status = "CLAIMED"
      BY <1>4 DEF Takes
    <3>2. IsOpen(tasks[t.task])
      BY <3>1 DEF IsOpen, OpenTask
    <3>3. \E i \in Live(tokens) : tokens[i].node = tasks[t.task].node
      BY <1>0, <3>1, <3>2 DEF Backed
    <3> QED BY <1>4, <3>3 DEF Takes
  <2>3. tx'[s] = t /\ \A r \in Sessions : r # s => tx'[r] = tx[r]
    BY <1>4, TxBecomes DEF Takes
  <2>4. \A r \in Sessions : tx'[r].op = "finish" => tx'[r].parked # 0
    BY <2>2, <2>3 DEF CoverInv
  <2>5. \A r \in Sessions : tx'[r].op = "retry" => tx'[r] = tx[r]
    <3>1. "finish" # "retry"
      OBVIOUS
    <3> QED BY <2>1, <2>3, <3>1
  <2> QED BY <1>0, <2>1, <2>4, <2>5, StillCovered
<1>5. ASSUME NEW s \in Sessions, BeginRetry(s) PROVE CoverInv'
  <2> DEFINE t == [op |-> "retry", work |-> LiveInOrder]
  <2>1. UNCHANGED <<def, tokens, tasks>> /\ tx' = [tx EXCEPT ![s] = t]
    BY <1>5 DEF BeginRetry
  <2>2. t.op = "retry" /\ t.work = LiveInOrder
    OBVIOUS
  <2> HIDE DEF t
  <2>3. tx'[s] = t /\ \A r \in Sessions : r # s => tx'[r] = tx[r]
    BY <2>1, TxBecomes
  <2>4. Waits(tokens, t.work)
    <3>1. t.work \in Seq(Live(tokens))
      BY <1>0, <2>2, LiveInOrderLive DEF RowsOK
    <3>2. \A k \in DOMAIN t.work : t.work[k] \in Live(tokens)
      BY <3>1
    <3> QED BY <3>2 DEF Waits, Live
  <2>5. \A r \in Sessions : tx'[r].op = "finish" => tx'[r].parked # 0
    <3>1. "retry" # "finish"
      OBVIOUS
    <3> QED BY <2>2, <2>3, <3>1 DEF CoverInv
  <2>6. \A r \in Sessions : tx'[r] = tx[r] \/ Waits(tokens, tx'[r].work)
    BY <2>3, <2>4
  <2> QED BY <1>0, <2>1, <2>5, <2>6, StillCovered
<1>6. ASSUME NEW s \in Sessions, CommitFinish(s) PROVE CoverInv'
  <2> DEFINE t == tx[s]
  <2>1. /\ tx' = [tx EXCEPT ![s] = Closed] /\ def' = def /\ t.op = "finish"
        /\ t.task \in DOMAIN tasks /\ t.to \in Nodes
        /\ t.parked # 0 =>
             /\ t.parked \in DOMAIN tokens
             /\ \E d : /\ Drivable(d) /\ Drive(inst, d)
                       /\ Launches(d, Without(tokens, t.parked), t.to)
                       /\ d.tasks = Done(t.task) /\ d.incidents = incidents
    BY <1>0, <1>6, FinishLaunches
  <2>2. t.parked # 0
    BY <2>1 DEF CoverInv
  <2>3. PICK d : /\ Drivable(d) /\ Drive(inst, d)
                 /\ Launches(d, Without(tokens, t.parked), t.to)
                 /\ d.tasks = Done(t.task) /\ d.incidents = incidents
    BY <2>1, <2>2
  <2>4. Covered(d.tokens, d.tasks, d.work)
    BY <1>0, <2>1, <2>2, <2>3, FinishCovered
  <2>5. \A r \in Sessions : tx'[r].op = "none" \/ tx'[r] = tx[r]
    <3>1. Closed.op = "none"
      BY DEF Closed
    <3> QED BY <2>1, <3>1, TxBecomes
  <2>6. \A r \in Sessions : tx'[r].op # "retry"
    <3>1. "none" # "retry"
      OBVIOUS
    <3> QED BY <2>1, <2>5, <3>1 DEF RetriesApart
  <2>7. OnTaskNodes(d.tasks)
    BY <1>0, <2>1, <2>3, DoneRows DEF HoldInv, OnTaskNodes
  <2> QED BY <2>1, <2>3, <2>4, <2>5, <2>6, <2>7, DriveCovers
<1>7. ASSUME NEW s \in Sessions, CommitRetry(s) PROVE CoverInv'
  <2> DEFINE d == Fresh(tx[s].work)
  <2>1. /\ tx[s].op = "retry" /\ Drive(inst, d) /\ tx' = [tx EXCEPT ![s] = Closed]
        /\ def' = def
    BY <1>7 DEF CommitRetry, Close
  <2>2. Drivable(d)
    BY <1>0, <2>1, TxRefers, FreshDrivable
  <2>3. d.tokens = tokens /\ d.work = tx[s].work /\ d.tasks = tasks
    BY DEF Fresh
  <2> HIDE DEF d
  <2>4. \A r \in Sessions : tx'[r].op = "none" \/ tx'[r] = tx[r]
    <3>1. Closed.op = "none"
      BY DEF Closed
    <3> QED BY <2>1, <3>1, TxBecomes
  <2>5. Covered(d.tokens, d.tasks, d.work) /\ OnTaskNodes(d.tasks)
    BY <2>1, <2>3 DEF CoverInv, HoldInv
  <2>6. \A i \in DOMAIN tokens : i \in DOMAIN d.tokens /\ d.tokens[i] = tokens[i]
    BY <2>3
  <2> QED BY <2>1, <2>2, <2>4, <2>5, <2>6, DriveCovers
<1> QED BY <1>1, <1>2, <1>3, <1>4, <1>5, <1>6, <1>7, StepKinds

\* At first there are no tasks.
LEMMA CoverFirst == Init => CoverInv
<1> SUFFICES ASSUME Init PROVE CoverInv
  OBVIOUS
<1>1. tasks = << >> /\ \A s \in Sessions : tx[s].op = "none"
  BY DEF Init, Closed
<1>2. Backed(tokens, tasks)
  BY <1>1 DEF Backed
<1>3. \A s \in Sessions : tx[s].op # "finish" /\ tx[s].op # "retry"
  <2>1. "none" # "finish" /\ "none" # "retry"
    OBVIOUS
  <2> QED BY <1>1, <2>1
<1> QED BY <1>2, <1>3, CoveredParts DEF CoverInv

\* So the cover holds for as long as retries and finishes are apart.
LEMMA Cover == Spec /\ []RetriesApart => []CoverInv
<1>1. WorkInv /\ HoldInv /\ CoverInv /\ RetriesApart /\ [Next]_vars => CoverInv'
  BY CoverStep
<1> QED BY <1>1, CoverFirst, Holding, PTL DEF Spec

\* A retry is safe to repeat, as instance.service.ts says, if no finish of a task
\* is under way with it: every open task of a running instance is the work of an
\* active token.  retryInstanceInTx reads the tokens before it waits for the lock
\* of the instance, so one that races a finish makes a task nobody waits for.
THEOREM RetrySafeWhenApart == Spec /\ []RetriesApart => []RetryIsSafe
<1>1. CoverInv => RetryIsSafe
  BY CoveredParts DEF CoverInv, Covered, RetryIsSafe
<1> QED BY <1>1, Cover, PTL

-----------------------------------------------------------------------------
(* Parked work                                                             *)

\* At the beginning of a drive the tokens that it gives up are those that are
\* stranded and that it does not visit.
LEMMA TendedAtFirst ==
  ASSUME NEW U, NEW ts, NEW ks, NEW ws,
         \A i \in Stranded(ts, ks) : i \in U \/ \E k \in DOMAIN ws : ws[k] = i
  PROVE  Tended(U, ts, ks, ws)
BY DEF Tended, Stranded

\* A drive that does not give up strands no token beyond those it gave up, and
\* leaves open tasks the newest.
LEMMA DriveTends ==
  ASSUME WorkInv, NEW d, Drivable(d), NEW status, Drive(status, d), d.incidents = incidents,
         OpenIsNewest(d.tasks)
  PROVE  /\ OpenIsNewest(tasks')
         /\ \A U : Tended(U, d.tokens, d.tasks, d.work) =>
              GivesUp \/ Stranded(tokens', tasks') \subseteq U
<1>1. PICK x : /\ Along(x, d) /\ tokens' = x.tokens /\ tasks' = x.tasks
               /\ \/ x.work = << >>
                  \/ \E k \in DOMAIN incidents' \ DOMAIN x.incidents :
                       incidents'[k].code = "LOOP_LIMIT"
  BY DriveLeads DEF WorkInv
<1>2. DOMAIN incidents \subseteq DOMAIN x.incidents
  BY <1>1 DEF Along, Follows, Notes
<1>3. CASE x.work # << >>
  BY <1>1, <1>2, <1>3 DEF Along, GivesUp
<1>4. CASE x.work = << >>
  <2>1. DOMAIN x.work = {}
    BY <1>4
  <2>2. \A U : Tended(U, x.tokens, x.tasks, x.work) => Stranded(x.tokens, x.tasks) \subseteq U
    BY <2>1 DEF Tended, Stranded
  <2> QED BY <1>1, <2>2 DEF Along
<1> QED BY <1>3, <1>4

\* Steps that swap an open task for one that is not finished strand nothing.
LEMMA SwapStrandsNone ==
  ASSUME RowsOK, OpenIsNewest(tasks), NEW k \in DOMAIN tasks, Swaps(k)
  PROVE  OpenIsNewest(tasks') /\ Stranded(tokens', tasks') \subseteq Stranded(tokens, tasks)
<1>1. PICK row \in TaskRows : /\ tasks' = [tasks EXCEPT ![k] = row]
                              /\ row.node = tasks[k].node /\ row.status # "FINISHED"
  BY DEF Swaps
<1>2. tokens' = tokens /\ IsOpen(tasks[k])
  BY DEF Swaps
<1>3. /\ DOMAIN tasks' = DOMAIN tasks /\ tasks'[k] = row
      /\ \A m \in DOMAIN tasks : m # k => tasks'[m] = tasks[m]
  BY <1>1 DEF RowsOK
<1>4. \A m \in DOMAIN tasks : tasks'[m].node = tasks[m].node
  BY <1>1, <1>3
<1>5. OpenIsNewest(tasks')
  <2>1. \A m \in DOMAIN tasks : IsOpen(tasks'[m]) => IsOpen(tasks[m])
    BY <1>2, <1>3
  <2> QED BY <1>3, <1>4, <2>1 DEF OpenIsNewest
<1>6. \A n : Held(tasks, n) => Held(tasks', n)
  <2>1. \A m \in DOMAIN tasks : tasks[m].status # "FINISHED" => tasks'[m].status # "FINISHED"
    BY <1>1, <1>3
  <2> QED BY <1>3, <1>4, <2>1 DEF Held
<1> QED BY <1>2, <1>5, <1>6 DEF Stranded

\* When a task is finished the others at open tasks keep theirs.
LEMMA DoneStrands ==
  ASSUME RowsOK, OpenIsNewest(tasks), NEW k \in DOMAIN tasks
  PROVE  /\ OpenIsNewest(Done(k))
         /\ \A n : n # tasks[k].node /\ Held(tasks, n) => Held(Done(k), n)
<1> DEFINE ks == Done(k)
<1>1. /\ DOMAIN ks = DOMAIN tasks /\ ~IsOpen(ks[k])
      /\ \A m \in DOMAIN tasks : m # k => ks[m] = tasks[m]
      /\ \A m \in DOMAIN tasks : ks[m].node = tasks[m].node
  BY DoneRows
<1> HIDE DEF ks
<1>2. OpenIsNewest(ks)
  <2>1. \A m \in DOMAIN tasks : IsOpen(ks[m]) => IsOpen(tasks[m])
    BY <1>1
  <2> QED BY <1>1, <2>1 DEF OpenIsNewest
<1>3. \A n : n # tasks[k].node /\ Held(tasks, n) => Held(ks, n)
  BY <1>1 DEF Held
<1> QED BY <1>2, <1>3 DEF ks

\* The tokens that a finish takes their task from.
Robbed(t) == {i \in Live(tokens) \ {t.parked} : tokens[i].node = tasks[t.task].node}

\* A finish strands no token but those, if its drive does not give up.
LEMMA FinishStrands ==
  ASSUME WorkInv, OpenIsNewest(tasks), NEW s \in Sessions, CommitFinish(s)
  PROVE  /\ OpenIsNewest(tasks')
         /\ GivesUp \/ Stranded(tokens', tasks') \subseteq Stranded(tokens, tasks) \cup Robbed(tx[s])
<1> DEFINE t == tx[s]
           U == Stranded(tokens, tasks) \cup Robbed(t)
<1>0. RowsOK /\ TxOK
  BY DEF WorkInv
<1>1. /\ t.task \in DOMAIN tasks
      /\ t.parked # 0 =>
           /\ t.parked \in DOMAIN tokens
           /\ \E d : /\ Drivable(d) /\ Drive(inst, d)
                     /\ Launches(d, Without(tokens, t.parked), t.to)
                     /\ d.tasks = Done(t.task) /\ d.incidents = incidents
  BY <1>0, FinishLaunches
<1>2. /\ OpenIsNewest(Done(t.task))
      /\ \A n : n # tasks[t.task].node /\ Held(tasks, n) => Held(Done(t.task), n)
  BY <1>0, <1>1, DoneStrands
<1>3. CASE t.parked = 0
  <2>1. tokens' = tokens /\ tasks' = Done(t.task)
    BY <1>3 DEF CommitFinish, Done, Fresh
  <2>2. \A i \in Live(tokens) : i # 0
    BY <1>0 DEF RowsOK, Live
  <2>3. Stranded(tokens, Done(t.task)) \subseteq U
    BY <1>2, <1>3, <2>2 DEF Stranded, Robbed
  <2> QED BY <1>2, <2>1, <2>3
<1>4. CASE t.parked # 0
  <2>1. PICK d : /\ Drivable(d) /\ Drive(inst, d)
                 /\ Launches(d, Without(tokens, t.parked), t.to)
                 /\ d.tasks = Done(t.task) /\ d.incidents = incidents
    BY <1>1, <1>4
  <2> DEFINE w == Without(tokens, t.parked)
  <2>2. /\ DOMAIN w = DOMAIN tokens
        /\ \A i \in DOMAIN tokens : w[i].node = tokens[i].node /\ (w[i].live <=> tokens[i].live /\ i # t.parked)
    BY <1>0, <1>1, <1>4, WithoutOne DEF RowsOK
  <2>3. PICK new : /\ new \notin DOMAIN w /\ DOMAIN d.tokens = DOMAIN w \cup {new}
                   /\ \A j \in DOMAIN w : d.tokens[j] = w[j]
                   /\ d.work = <<new>>
    BY <2>1 DEF Launches
  <2>4. 1 \in DOMAIN d.work /\ d.work[1] = new
    BY <2>3
  <2> HIDE DEF w
  <2>5. ASSUME NEW i \in Stranded(d.tokens, d.tasks), i # new PROVE i \in U
    <3>1. i \in DOMAIN tokens /\ d.tokens[i] = w[i]
      BY <2>2, <2>3, <2>5 DEF Stranded, Live
    <3>2. i \in Live(tokens) /\ i # t.parked /\ d.tokens[i].node = tokens[i].node
      BY <2>2, <2>5, <3>1 DEF Stranded, Live
    <3>3. CASE tokens[i].node = tasks[t.task].node
      BY <3>2, <3>3 DEF Robbed
    <3>4. CASE tokens[i].node # tasks[t.task].node
      BY <1>2, <2>1, <2>5, <3>2, <3>4 DEF Stranded
    <3> QED BY <3>3, <3>4
  <2> HIDE DEF U
  <2>6. Tended(U, d.tokens, d.tasks, d.work)
    BY <2>4, <2>5, TendedAtFirst
  <2>7. OpenIsNewest(d.tasks)
    BY <1>2, <2>1
  <2> QED BY <2>1, <2>6, <2>7, DriveTends DEF U
<1> QED BY <1>3, <1>4

\* A retry strands no token, and gives each that it read its task again.
LEMMA RetryHeals ==
  ASSUME WorkInv, OpenIsNewest(tasks), NEW s \in Sessions, CommitRetry(s)
  PROVE  /\ OpenIsNewest(tasks')
         /\ \/ GivesUp
            \/ \A i \in Stranded(tokens', tasks') :
                 i \in Stranded(tokens, tasks) /\ \A k \in DOMAIN tx[s].work : tx[s].work[k] # i
<1> DEFINE d == Fresh(tx[s].work)
           U == {i \in Stranded(tokens, tasks) : \A k \in DOMAIN tx[s].work : tx[s].work[k] # i}
<1>1. tx[s].op = "retry" /\ Drive(inst, d)
  BY DEF CommitRetry
<1>2. Drivable(d)
  BY <1>1, TxRefers, FreshDrivable DEF WorkInv
<1>3. d.tokens = tokens /\ d.tasks = tasks /\ d.incidents = incidents /\ d.work = tx[s].work
  BY DEF Fresh
<1> HIDE DEF d
<1>4. \A i \in Stranded(d.tokens, d.tasks) : i \in U \/ \E k \in DOMAIN d.work : d.work[k] = i
  BY <1>3
<1> HIDE DEF U
<1>5. Tended(U, d.tokens, d.tasks, d.work)
  BY <1>4, TendedAtFirst
<1>6. OpenIsNewest(tasks') /\ (GivesUp \/ Stranded(tokens', tasks') \subseteq U)
  BY <1>1, <1>2, <1>3, <1>5, DriveTends
<1> QED BY <1>6 DEF U

\* The start strands no token.
LEMMA StartStrandsNone ==
  ASSUME WorkInv, OpenIsNewest(tasks), NEW u \in Starters, Start(u)
  PROVE  /\ OpenIsNewest(tasks')
         /\ GivesUp \/ Stranded(tokens', tasks') \subseteq Stranded(tokens, tasks)
<1>1. PICK d : /\ Drivable(d) /\ Drive("RUNNING", d) /\ Launches(d, tokens, def.start)
               /\ d.tasks = tasks /\ d.incidents = incidents
  BY StartLaunches DEF WorkInv
<1>2. PICK new : /\ DOMAIN d.tokens = DOMAIN tokens \cup {new}
                 /\ \A j \in DOMAIN tokens : d.tokens[j] = tokens[j]
                 /\ d.work = <<new>>
  BY <1>1 DEF Launches
<1>3. 1 \in DOMAIN d.work /\ d.work[1] = new
  BY <1>2
<1>4. \A i \in Stranded(d.tokens, d.tasks) :
        i \in Stranded(tokens, tasks) \/ \E k \in DOMAIN d.work : d.work[k] = i
  BY <1>1, <1>2, <1>3 DEF Stranded, Live
<1>5. Tended(Stranded(tokens, tasks), d.tokens, d.tasks, d.work)
  BY <1>4, TendedAtFirst
<1> QED BY <1>1, <1>5, DriveTends

\* What a step may do to parked work.
LEMMA StepKeepsWork ==
  ASSUME WorkInv, OpenIsNewest(tasks), [Next]_vars
  PROVE  /\ OpenIsNewest(tasks')
         /\ \A i \in Stranded(tokens', tasks') :
              \/ i \in Stranded(tokens, tasks)
              \/ \E s \in Sessions : CommitFinish(s) /\ i \in Robbed(tx[s])
              \/ GivesUp
<1>0. RowsOK
  BY DEF WorkInv
<1>1. CASE UNCHANGED <<tokens, tasks>>
  BY <1>1
<1>2. ASSUME NEW k \in DOMAIN tasks, Swaps(k)
      PROVE  OpenIsNewest(tasks') /\ Stranded(tokens', tasks') \subseteq Stranded(tokens, tasks)
  BY <1>0, <1>2, SwapStrandsNone
<1>3. ASSUME NEW s \in Sessions, CommitFinish(s)
      PROVE  /\ OpenIsNewest(tasks')
             /\ \A i \in Stranded(tokens', tasks') :
                  i \in Stranded(tokens, tasks) \/ i \in Robbed(tx[s]) \/ GivesUp
  BY <1>3, FinishStrands
<1>4. ASSUME NEW s \in Sessions, CommitRetry(s)
      PROVE  /\ OpenIsNewest(tasks')
             /\ \A i \in Stranded(tokens', tasks') : i \in Stranded(tokens, tasks) \/ GivesUp
  BY <1>4, RetryHeals
<1>5. ASSUME NEW u \in Starters, Start(u)
      PROVE  /\ OpenIsNewest(tasks')
             /\ \A i \in Stranded(tokens', tasks') : i \in Stranded(tokens, tasks) \/ GivesUp
  BY <1>5, StartStrandsNone
<1>6. CASE Quiet
  BY <1>1, <1>6 DEF Quiet
<1>7. ASSUME NEW s \in Sessions, BeginRetry(s) \/ \E t : Takes(s, t)
      PROVE  UNCHANGED <<tokens, tasks>>
  BY <1>7 DEF BeginRetry, Takes
<1> QED BY <1>1, <1>2, <1>3, <1>4, <1>5, <1>6, <1>7, StepKinds

\* At first there are no tasks.
LEMMA NewestFirst == Init => OpenIsNewest(tasks)
BY DEF Init, OpenIsNewest

\* A token is parked with a task, and a finish of that task that moved another
\* token, or had found none, or a drive that gave up, are all that can take the
\* task away; a retry that commits gives it back (finish takes the first active
\* token it finds at the node; drive makes a task only where none is open).
THEOREM ParkedWorkIsKept == Spec => WorkIsKept
<1>1. WorkInv /\ OpenIsNewest(tasks) /\ [Next]_vars => OpenIsNewest(tasks)'
  BY StepKeepsWork DEF OpenIsNewest
<1>2. WorkInv /\ OpenIsNewest(tasks) /\ [Next]_vars => [KeepsWork]_vars
  <2> SUFFICES ASSUME WorkInv, OpenIsNewest(tasks), [Next]_vars PROVE KeepsWork
    OBVIOUS
  <2>1. ASSUME NEW i \in Stranded(tokens', tasks'), i \in Stranded(tokens, tasks), ~GivesUp
        PROVE  \A s \in Sessions : CommitRetry(s) => \A k \in DOMAIN tx[s].work : tx[s].work[k] # i
    BY <2>1, RetryHeals
  <2> QED BY <2>1, StepKeepsWork DEF KeepsWork, Robbed
<1> QED BY <1>1, <1>2, NewestFirst, WorkflowInvariance, PTL DEF Spec, WorkIsKept
=============================================================================
