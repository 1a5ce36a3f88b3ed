------------------------------- MODULE Workflow -------------------------------
(* The workflow engine (packages/m06-workflow/src): one instance of a frozen *)
(* definition, the tokens that walk its graph, the tasks people work on, the *)
(* timers and clocks of its service levels and the incidents it raises.      *)
(*                                                                           *)
(* An engine transaction reads first and then drives: finish reads the task  *)
(* and the tokens, retry reads the tokens, and only afterwards does drive    *)
(* take the advisory lock of the instance and keep it to the commit.  So     *)
(* each is two actions, Begin (what it read, and the row of the task it      *)
(* swapped and keeps locked) and Commit (the whole drive, which the lock     *)
(* makes one step).  Operations of a single swap are one action.  Callers    *)
(* send a version they have read, so a swap that succeeds is made on the row *)
(* that was read; one that loses changes nothing and is left out.            *)
EXTENDS Integers, FiniteSets, Sequences

CONSTANTS
  Definitions,        \* the frozen definitions an instance may be started from
  Users,              \* the people who claim and finish tasks
  Starters,           \* those of them who start instances
  Overseers,          \* those who may act on a task that somebody else claimed
  Sessions,           \* concurrent engine transactions
  NoUser,             \* nobody claimed the task
  MaxLoopIterations,  \* DEFINITION_LIMITS.maxLoopIterations
  MaxDisturbances,    \* bound, for each definition: steps back, reassignments,
                      \* escalations and suspensions
  MaxIncidents        \* bound: no retry is begun with this many incidents

NodeTypes == {"START", "END", "HUMAN_TASK", "APPROVAL_TASK", "SYSTEM_TASK",
              "EXCLUSIVE_GATEWAY", "PARALLEL_SPLIT", "PARALLEL_JOIN",
              "TIMER_WAIT", "EVENT_WAIT", "ESCALATION", "CANCEL"}
TaskTypes == {"HUMAN_TASK", "APPROVAL_TASK"}

\* A definition: out[n] is the sequence of n's successors in the order of the
\* transitions, take[n] the edge the variables of the instance choose at a
\* gateway (they are written at the start and never again), noop the system
\* tasks with the one known handler, sla the nodes with a service level, and
\* forward[n] the edge of a task that leads on.
\*
\* validateDefinition: one START, an END, NODE_ARITY, and every node reachable.
MinOut(type) ==
  CASE type \in {"END", "CANCEL"} -> 0
    [] type \in {"APPROVAL_TASK", "EXCLUSIVE_GATEWAY", "PARALLEL_SPLIT"} -> 2
    [] OTHER -> 1
MinIn(type) == CASE type = "START" -> 0 [] type = "PARALLEL_JOIN" -> 2 [] OTHER -> 1
AtMostOneOut == {"START", "PARALLEL_JOIN", "TIMER_WAIT", "EVENT_WAIT", "CANCEL"}

In(d, n) == {e \in UNION {{m} \X DOMAIN d.out[m] : m \in DOMAIN d.out} : d.out[e[1]][e[2]] = n}
Reached(d) ==
  LET seen[k \in 0..Cardinality(DOMAIN d.type)] ==
        IF k = 0 THEN {d.start}
        ELSE seen[k - 1] \cup UNION {{d.out[n][e] : e \in DOMAIN d.out[n]} : n \in seen[k - 1]}
  IN  seen[Cardinality(DOMAIN d.type)]

IsDefinition(d) ==
  LET N == DOMAIN d.type IN
  /\ IsFiniteSet(N) /\ d.type \in [N -> NodeTypes]
  /\ DOMAIN d.out = N /\ \A n \in N : d.out[n] \in Seq(N)
  /\ d.start \in N /\ \A n \in N : d.type[n] = "START" <=> n = d.start
  /\ \E n \in N : d.type[n] = "END"
  /\ \A n \in N :
       /\ Len(d.out[n]) >= MinOut(d.type[n]) /\ Cardinality(In(d, n)) >= MinIn(d.type[n])
       /\ d.type[n] \in AtMostOneOut => Len(d.out[n]) <= 1
       /\ d.type[n] = "END" => d.out[n] = << >>
       /\ d.type[n] = "START" => In(d, n) = {}
  /\ Reached(d) = N
  /\ DOMAIN d.take = N /\ \A n \in N : d.out[n] # << >> => d.take[n] \in DOMAIN d.out[n]
  /\ d.noop \subseteq N /\ d.sla \subseteq N

ASSUME DefinitionsAssumption == \A d \in Definitions : IsDefinition(d)
ASSUME PeopleAssumption ==
  Starters \subseteq Users /\ Overseers \subseteq Users /\ NoUser \notin Users
ASSUME BoundsAssumption ==
  MaxLoopIterations \in Nat \ {0} /\ MaxDisturbances \in [Definitions -> Nat]
  /\ MaxIncidents \in Nat

VARIABLES
  def,        \* workflow_definition_version.spec of the instance
  inst,       \* workflow_instance.status, "none" before the start
  starter,    \* workflow_instance.started_by, the maker of its tasks
  tokens,     \* workflow_token: the node of each, and whether it is active
  tasks,      \* workflow_task
  timers,     \* workflow_timer: at most one row for each kind and owner
  clocks,     \* workflow_sla_clock
  incidents,  \* workflow_incident
  tx,         \* the open transaction of each session
  calm        \* how many disturbances are left (bound)

vars == <<def, inst, starter, tokens, tasks, timers, clocks, incidents, tx, calm>>

-----------------------------------------------------------------------------
(* The instance machine                                                    *)

Machine ==
  {<<"CREATED", "start", "RUNNING">>, <<"RUNNING", "block", "WAITING">>,
   <<"WAITING", "unblock", "RUNNING">>, <<"RUNNING", "suspend", "SUSPENDED">>,
   <<"WAITING", "suspend", "SUSPENDED">>, <<"SUSPENDED", "resume", "RUNNING">>,
   <<"RUNNING", "complete", "COMPLETED">>, <<"CREATED", "cancel", "CANCELLED">>,
   <<"RUNNING", "cancel", "CANCELLED">>, <<"WAITING", "cancel", "CANCELLED">>,
   <<"SUSPENDED", "cancel", "CANCELLED">>, <<"RUNNING", "fail", "FAILED">>,
   <<"WAITING", "fail", "FAILED">>}
Statuses == {"CREATED", "RUNNING", "WAITING", "SUSPENDED", "COMPLETED", "CANCELLED",
             "FAILED", "COMPENSATING"}
Ended == {"COMPLETED", "CANCELLED"}

\* applyStatusInTx: a transition the machine refuses is silently no transition.
Apply_Action(status, action) == action
Apply_AnyStatus(status, action) ==
  LET to == {m[3] : m \in {m \in Machine : m[2] = action}}
  IN  IF to = {} THEN status ELSE CHOOSE t \in to : TRUE
Apply(status, action) ==
  LET to == {m[3] : m \in {m \in Machine : m[1] = status /\ m[2] = action}}
  IN  IF to = {} THEN status ELSE CHOOSE t \in to : TRUE

-----------------------------------------------------------------------------
(* The drive, on a record of the rows it changes and its worklist          *)

OpenTask == {"AVAILABLE", "CLAIMED"}
IsOpen_Escalated(t) == t.status # "FINISHED"
IsOpen(t) == t.status \in OpenTask

Live(ts) == {i \in DOMAIN ts : ts[i].live}
InDegree(n) == Cardinality(In(def, n))

\* consumeToken; its answer is never looked at, and a consumed token stays so.
Consume(d, i) == [d EXCEPT !.tokens[i].live = FALSE]

\* A new active token at each target, queued behind the work there is.
Advance(d, targets) ==
  LET base == Len(d.tokens) IN
  [d EXCEPT !.tokens = @ \o [k \in DOMAIN targets |-> [node |-> targets[k], live |-> TRUE]],
            !.work   = @ \o [k \in DOMAIN targets |-> base + k]]

Park(d) == [d EXCEPT !.parked = TRUE]
Raise(d, code) == [d EXCEPT !.incidents = Append(@, [code |-> code, open |-> TRUE])]

\* workflow_timer is unique on the dedupe key: a second insert does nothing.
Schedule(ts, kind, owner) ==
  IF \E t \in ts : t.kind = kind /\ t.owner = owner THEN ts
  ELSE ts \cup {[kind |-> kind, owner |-> owner, status |-> "scheduled"]}

\* scheduleForNode; clocks of one drive carry the same started_at.
StartClock(d, n, task) ==
  IF n \notin def.sla THEN d
  ELSE [d EXCEPT !.clocks = Append(@, [task |-> task, at |-> Len(clocks),
                                       warned |-> FALSE, breached |-> FALSE]),
                 !.timers = Schedule(Schedule(@, "sla_warn", task), "sla_breach", task)]

CreateTask(d, n) ==
  StartClock([d EXCEPT !.tasks = Append(@, [node |-> n, status |-> "AVAILABLE",
                                            claimedBy |-> NoUser])],
             n, Len(d.tasks) + 1)

\* A token that arrives at a task node parks; the task is made unless one is open.
ArriveAtTask_Again(d, n) == Park(CreateTask(d, n))
ArriveAtTask_EverMade(d, n) ==
  IF \E k \in DOMAIN d.tasks : d.tasks[k].node = n THEN Park(d) ELSE Park(CreateTask(d, n))
ArriveAtTask(d, n) ==
  IF \E k \in DOMAIN d.tasks : d.tasks[k].node = n /\ IsOpen(d.tasks[k])
  THEN Park(d) ELSE Park(CreateTask(d, n))

\* A join counts every token ever consumed at it, the arriving one included.
Arrivals(d, n) == Cardinality({i \in DOMAIN d.tokens : d.tokens[i].node = n /\ ~d.tokens[i].live})
ArriveAtJoin_First(d, n) == Advance(d, def.out[n])
ArriveAtJoin(d, n) == IF Arrivals(d, n) >= InDegree(n) THEN Advance(d, def.out[n]) ELSE d

\* directiveForNode and what drive does with its answer.  Every SYSTEM_TASK of a
\* definition has a handler here, "noop" or one that is not known: where there is
\* none at all, directiveForNode throws (NO_HANDLER), and each drive that comes to
\* the node is rolled back.
Visit(d) ==
  LET i    == Head(d.work)
      n    == d.tokens[i].node
      out  == def.out[n]
      here == [d EXCEPT !.work = Tail(@)]
      gone == Consume(here, i)
  IN CASE def.type[n] = "START"               -> Advance(gone, <<out[1]>>)
       [] def.type[n] = "EXCLUSIVE_GATEWAY"   -> Advance(gone, <<out[def.take[n]]>>)
       [] def.type[n] \in {"PARALLEL_SPLIT", "ESCALATION"} -> Advance(gone, out)
       [] def.type[n] = "PARALLEL_JOIN"       -> ArriveAtJoin(gone, n)
       [] def.type[n] \in TaskTypes           -> ArriveAtTask(here, n)
       [] def.type[n] = "SYSTEM_TASK"         ->
            IF n \in def.noop THEN Advance(gone, <<out[1]>>)
            ELSE Park(Raise(here, "UNKNOWN_HANDLER"))
       [] def.type[n] = "TIMER_WAIT"          ->
            Park([here EXCEPT !.timers = Schedule(@, "node", n)])
       [] def.type[n] = "EVENT_WAIT"          -> Park(here)
       [] def.type[n] = "CANCEL"              -> [gone EXCEPT !.cancelled = TRUE]
       [] def.type[n] = "END"                 -> gone

\* The loop over the worklist, as the set of rows it may leave (there is one);
\* when it gives up, the tokens it has not visited stay active.
Loop(d) ==
  LET Step(e) == IF e.work = << >> THEN e ELSE Visit(e)
      run[k \in 0..MaxLoopIterations] ==
        IF k = 0 THEN {d} ELSE {Step(e) : e \in run[k - 1]}
  IN  {IF e.work = << >> THEN e ELSE Park(Raise(e, "LOOP_LIMIT")) : e \in run[MaxLoopIterations]}

\* The status moves after the loop.
Settle_Finish(status, d) ==
  IF d.cancelled THEN Apply(Apply(status, "unblock"), "cancel")
  ELSE IF d.parked THEN Apply(Apply(status, "unblock"), "block")
  ELSE Apply(Apply(status, "unblock"), "complete")
Settle(status, d) ==
  LET awake == IF status = "WAITING" THEN Apply(status, "unblock") ELSE status
  IN  IF d.cancelled THEN Apply(awake, "cancel")
      ELSE IF Live(d.tokens) = {} THEN Apply(awake, "complete")
      ELSE IF d.parked THEN Apply(awake, "block")
      ELSE awake

Fresh(work) == [tokens |-> tokens, tasks |-> tasks, timers |-> timers, clocks |-> clocks,
                incidents |-> incidents, work |-> work, parked |-> FALSE,
                cancelled |-> FALSE]

Drive(status, d) ==
  \E e \in Loop(d) :
    /\ tokens' = e.tokens /\ tasks' = e.tasks /\ timers' = e.timers
    /\ clocks' = e.clocks /\ incidents' = e.incidents
    /\ inst' = Settle(status, e)

-----------------------------------------------------------------------------
Closed == [op |-> "none"]
Idle(s) == tx[s] = Closed
Close(s) == tx' = [tx EXCEPT ![s] = Closed]

\* The task rows that open transactions have swapped and keep locked.
Locked(k) == \E s \in Sessions : tx[s].op = "finish" /\ tx[s].task = k

Disturb == calm > 0 /\ calm' = calm - 1

Init ==
  /\ def \in Definitions
  /\ inst = "none" /\ starter = NoUser
  /\ tokens = << >> /\ tasks = << >> /\ timers = {} /\ clocks = << >> /\ incidents = << >>
  /\ tx = [s \in Sessions |-> Closed]
  /\ calm = MaxDisturbances[def]

\* start: the business key is unique, so a second start changes nothing.
Start(u) ==
  /\ inst = "none"
  /\ starter' = u
  /\ Drive(Apply("CREATED", "start"), Advance(Fresh(<< >>), <<def.start>>))
  /\ UNCHANGED <<def, tx, calm>>

-----------------------------------------------------------------------------
(* TaskService                                                             *)

Claim(u, k) ==
  /\ ~Locked(k) /\ tasks[k].status = "AVAILABLE"
  /\ tasks' = [tasks EXCEPT ![k].status = "CLAIMED", ![k].claimedBy = u]
  /\ UNCHANGED <<def, inst, starter, tokens, timers, clocks, incidents, tx, calm>>

\* reassign, assign and delegate: the task goes back to its queue.
Reassign(k) ==
  /\ ~Locked(k) /\ IsOpen(tasks[k])
  /\ tasks' = [tasks EXCEPT ![k].status = "AVAILABLE", ![k].claimedBy = NoUser]
  /\ Disturb
  /\ UNCHANGED <<def, inst, starter, tokens, timers, clocks, incidents, tx>>

Escalate(k) ==
  /\ ~Locked(k) /\ IsOpen(tasks[k])
  /\ tasks' = [tasks EXCEPT ![k].status = "ESCALATED"]
  /\ incidents' = Append(incidents, [code |-> "TASK_ESCALATED", open |-> TRUE])
  /\ Disturb
  /\ UNCHANGED <<def, inst, starter, tokens, timers, clocks, tx>>

MayFinish(u, k) ==
  /\ def.type[tasks[k].node] = "APPROVAL_TASK" => u # starter
  /\ tasks[k].claimedBy \in {NoUser, u} \/ u \in Overseers

\* finish, up to the tokens it read: the task row is swapped and stays locked.
\* 'parked' is a token it found at the node, 0 if there was none.
BeginFinish(s, u, k, edge) ==
  LET n    == tasks[k].node
      here == {i \in Live(tokens) : tokens[i].node = n}
  IN
  /\ Idle(s)
  /\ ~Locked(k) /\ tasks[k].status = "CLAIMED" /\ MayFinish(u, k)
  /\ IF edge = def.take[n] THEN UNCHANGED calm ELSE Disturb
  /\ \E i \in (IF here = {} THEN {0} ELSE here) :
       tx' = [tx EXCEPT ![s] = [op |-> "finish", task |-> k, parked |-> i,
                                to |-> def.out[n][edge]]]
  /\ UNCHANGED <<def, inst, starter, tokens, tasks, timers, clocks, incidents>>

\* The token at the node is replaced by one behind the chosen edge and driven.
CommitFinish(s) ==
  LET t    == tx[s]
      done == [Fresh(<< >>) EXCEPT !.tasks[t.task].status = "FINISHED"]
  IN
  /\ t.op = "finish"
  /\ IF t.parked = 0
     THEN /\ tasks' = done.tasks
          /\ UNCHANGED <<inst, tokens, timers, clocks, incidents>>
     ELSE Drive(inst, Advance(Consume(done, t.parked), <<t.to>>))
  /\ Close(s)
  /\ UNCHANGED <<def, starter, calm>>

-----------------------------------------------------------------------------
(* Retry, of an instance or behind an incident, and the administrator      *)

\* listActiveTokens.
LiveInOrder ==
  LET seq[k \in 0..Len(tokens)] ==
        IF k = 0 THEN << >>
        ELSE IF tokens[k].live THEN Append(seq[k - 1], k) ELSE seq[k - 1]
  IN  seq[Len(tokens)]

BeginRetry(s) ==
  /\ Idle(s)
  /\ inst \notin Ended \cup {"none"}
  /\ Len(incidents) < MaxIncidents
  /\ tx' = [tx EXCEPT ![s] = [op |-> "retry", work |-> LiveInOrder]]
  /\ UNCHANGED <<def, inst, starter, tokens, tasks, timers, clocks, incidents, calm>>

CommitRetry(s) ==
  /\ tx[s].op = "retry"
  /\ Drive(inst, Fresh(tx[s].work))
  /\ Close(s)
  /\ UNCHANGED <<def, starter, calm>>

Administer(action) ==
  /\ inst # "none" /\ Apply(inst, action) # inst
  /\ inst' = Apply(inst, action)
  /\ UNCHANGED <<def, starter, tokens, tasks, timers, clocks, incidents, tx>>

Suspend == Administer("suspend") /\ Disturb
Resume == Administer("resume") /\ UNCHANGED calm
Cancel == Administer("cancel") /\ UNCHANGED calm

ResolveIncident(k) ==
  /\ incidents[k].open
  /\ incidents' = [incidents EXCEPT ![k].open = FALSE]
  /\ UNCHANGED <<def, inst, starter, tokens, tasks, timers, clocks, tx, calm>>

-----------------------------------------------------------------------------
(* SlaService.fire                                                         *)

Flag(kind) == IF kind = "sla_warn" THEN "warned" ELSE "breached"
Newest == {c \in DOMAIN clocks : \A b \in DOMAIN clocks : clocks[b].at <= clocks[c].at}

\* The timer row is swapped to 'fired' and stays locked; then the newest clock
\* of the instance is read, whichever task the timer was set for.
BeginFire(s, t) ==
  /\ Idle(s)
  /\ t.status = "scheduled"
  /\ \A r \in Sessions : tx[r].op = "fire" => tx[r].timer # t
  /\ t.kind # "node"
  /\ \E c \in Newest :
       tx' = [tx EXCEPT ![s] = [op |-> "fire", timer |-> t, clock |-> c, row |-> clocks[c]]]
  /\ UNCHANGED <<def, inst, starter, tokens, tasks, timers, clocks, incidents, calm>>

Fired_Forgotten(t) == timers
Fired(t) == (timers \ {t}) \cup {[t EXCEPT !.status = "fired"]}

\* markSlaFlag swaps the clock on the version read and on the flag being unset;
\* when it fails the timer is fired all the same.
CommitFire(s) ==
  LET t == tx[s] IN
  /\ t.op = "fire"
  /\ timers' = Fired(t.timer)
  /\ clocks' = IF clocks[t.clock] = t.row /\ ~t.row[Flag(t.timer.kind)]
               THEN [clocks EXCEPT ![t.clock][Flag(t.timer.kind)] = TRUE]
               ELSE clocks
  /\ Close(s)
  /\ UNCHANGED <<def, inst, starter, tokens, tasks, incidents, calm>>

\* The timer of a TIMER_WAIT node is marked fired and nothing else happens.
FireNodeTimer(t) ==
  /\ t.kind = "node" /\ t.status = "scheduled"
  /\ timers' = Fired(t)
  /\ UNCHANGED <<def, inst, starter, tokens, tasks, clocks, incidents, tx, calm>>

\* A conflict, a lost connection or a crash: nothing was written.
Rollback(s) ==
  /\ ~Idle(s)
  /\ Close(s)
  /\ UNCHANGED <<def, inst, starter, tokens, tasks, timers, clocks, incidents, calm>>

-----------------------------------------------------------------------------
Finish(s, u) == \E k \in DOMAIN tasks :
                  \E edge \in DOMAIN def.out[tasks[k].node] : BeginFinish(s, u, k, edge)

Engine(s) == CommitFinish(s) \/ CommitRetry(s) \/ CommitFire(s)

Next ==
  \/ \E u \in Starters : Start(u)
  \/ \E u \in Users, k \in DOMAIN tasks : Claim(u, k)
  \/ \E k \in DOMAIN tasks : Reassign(k) \/ Escalate(k)
  \/ \E s \in Sessions : (\E u \in Users : Finish(s, u)) \/ BeginRetry(s) \/ Rollback(s)
  \/ \E s \in Sessions : Engine(s)
  \/ \E s \in Sessions, t \in timers : BeginFire(s, t)
  \/ \E t \in timers : FireNodeTimer(t)
  \/ Suspend \/ Resume \/ Cancel
  \/ \E k \in DOMAIN incidents : ResolveIncident(k)

Spec == Init /\ [][Next]_vars

-----------------------------------------------------------------------------
(* Fairness.  The server's part: a transaction does not stay open for ever,  *)
(* and one that is tried again and again is at last committed.  The people's *)
(* part is an assumption about the office and not about the code: tasks are  *)
(* claimed, overseers work them forward, and an operator resumes what is     *)
(* suspended and retries.                                                    *)
ServerFairness ==
  /\ \A s \in Sessions : WF_vars(Engine(s) \/ Rollback(s))
  /\ SF_vars(\E s \in Sessions : CommitFinish(s))
  /\ SF_vars(\E s \in Sessions : CommitRetry(s))

OfficeFairness ==
  /\ WF_vars(\E u \in Starters : Start(u))
  /\ WF_vars(\E u \in Users, k \in DOMAIN tasks : Claim(u, k))
  /\ SF_vars(\E s \in Sessions, u \in Overseers, k \in DOMAIN tasks :
               BeginFinish(s, u, k, def.take[tasks[k].node]))
  /\ SF_vars(\E s \in Sessions : BeginRetry(s))
  /\ WF_vars(Resume)

FairSpec == Spec /\ ServerFairness /\ OfficeFairness

-----------------------------------------------------------------------------
(* Properties                                                              *)

Nodes == DOMAIN def.type
TokenRows == [node : Nodes, live : BOOLEAN]
TaskRows ==
  [node : Nodes, status : {"AVAILABLE", "CLAIMED", "FINISHED", "ESCALATED"},
   claimedBy : Users \cup {NoUser}]
ClockRows == [task : Nat, at : Nat, warned : BOOLEAN, breached : BOOLEAN]
IncidentRows ==
  [code : {"TASK_ESCALATED", "UNKNOWN_HANDLER", "LOOP_LIMIT"}, open : BOOLEAN]

\* Every row has the shape of its columns, and no clock or open transaction
\* refers to a row that is not there.
TypeOK ==
  /\ def \in Definitions /\ inst \in Statuses \cup {"none"}
  /\ starter \in Users \cup {NoUser} /\ calm \in Nat
  /\ tokens \in Seq(TokenRows) /\ tasks \in Seq(TaskRows)
  /\ clocks \in Seq(ClockRows) /\ incidents \in Seq(IncidentRows)
  /\ \A t \in timers : t.status \in {"scheduled", "fired"}
  /\ \A c \in DOMAIN clocks : clocks[c].task \in DOMAIN tasks
  /\ \A s \in Sessions :
       /\ tx[s].op \in {"none", "finish", "retry", "fire"}
       /\ tx[s].op = "finish" => /\ tx[s].task \in DOMAIN tasks /\ tx[s].to \in Nodes
                                /\ tx[s].parked \in DOMAIN tokens \cup {0}
       /\ tx[s].op = "retry" => tx[s].work \in Seq(DOMAIN tokens)
       /\ tx[s].op = "fire" => tx[s].timer \in timers /\ tx[s].clock \in DOMAIN clocks

\* People are never offered the same piece of work twice: retries that race
\* with each other and with a finish leave at most one open task at a node.
OneOpenTaskPerNode ==
  \A k, m \in DOMAIN tasks :
    IsOpen(tasks[k]) /\ IsOpen(tasks[m]) /\ tasks[k].node = tasks[m].node => k = m

\* The newest task at n is not finished.
Held(ks, n) ==
  \E k \in DOMAIN ks : /\ ks[k].node = n /\ ks[k].status # "FINISHED"
                       /\ \A m \in DOMAIN ks : ks[m].node = n => m <= k

\* The tokens that are parked at a task node and have no task there.
Stranded(ts, ks) ==
  {i \in Live(ts) : def.type[ts[i].node] \in TaskTypes /\ ~Held(ks, ts[i].node)}

\* A drive of the step gave up.
GivesUp == \E k \in DOMAIN incidents' \ DOMAIN incidents : incidents'[k].code = "LOOP_LIMIT"

\* Why a token may be stranded after a step: it was before, and no retry that had
\* read it committed; or its task was finished for another token of the node, or
\* for none; or a drive gave up before it came to the token.
KeepsWork ==
  \A i \in Stranded(tokens', tasks') :
    \/ /\ i \in Stranded(tokens, tasks)
       /\ \A s \in Sessions : CommitRetry(s) => \A k \in DOMAIN tx[s].work : tx[s].work[k] # i
    \/ \E s \in Sessions : /\ CommitFinish(s) /\ i \in Live(tokens) \ {tx[s].parked}
                           /\ tasks[tx[s].task].node = tokens[i].node
    \/ GivesUp

\* A token that parks at a task node has a task there, and two things alone take
\* it away: a finish of that task that moved another token of the node, or had
\* found none when it began, and a drive that gave up before its visit.  Whatever
\* races, no retry, escalation or finish elsewhere strands a token, and a retry
\* that commits gives every token that it read its task again.
WorkIsKept == [][KeepsWork]_vars

\* No drive gave up, neither the latest nor one before.
NoLoopLimit == \A k \in DOMAIN incidents : incidents[k].code # "LOOP_LIMIT"

\* The tokens there ever were at a node, and those of them that are consumed.
At(ts, n) == {i \in DOMAIN ts : ts[i].node = n}
Came(ts, n) == {i \in At(ts, n) : ~ts[i].live}

\* A join behind which no other edge leads to m.
Behind(n, m) ==
  /\ n \in Nodes /\ def.type[n] = "PARALLEL_JOIN"
  /\ m = def.out[n][1] /\ InDegree(m) = 1

\* A join gave its first token for a full set of arrivals, and each further one
\* for one arrival more at least.
Enough(ts, n, m) ==
  At(ts, m) = {} \/ Cardinality(At(ts, m)) + InDegree(n) - 1 <= Cardinality(Came(ts, n))
Counted(ts) == \A n, m \in Nodes : Behind(n, m) => Enough(ts, n, m)

\* However branches, redone branches and retries interleave, a join opens first
\* for a full set of arrivals, and never twice for one arrival.  (It counts all
\* that ever arrived, so on a second round any single branch opens it.)
JoinCountsArrivals == NoLoopLimit => Counted(tokens)

\* The status of the instance and its tokens agree: a completed instance has no
\* active token and a waiting one has something to wait for.
StatusAgreesWithTokens ==
  /\ inst = "COMPLETED" => Live(tokens) = {}
  /\ inst = "WAITING" => Live(tokens) # {}

\* Warnings and breaches are not sent twice: no more clocks carry a flag than
\* timers of that kind have fired.  (At most once and not exactly once, which
\* sla.service.ts promises: of a warning and a breach that race for one clock the
\* loser has fired and its flag is never set.)
AlertsPerTimer ==
  \A kind \in {"sla_warn", "sla_breach"} :
    Cardinality({c \in DOMAIN clocks : clocks[c][Flag(kind)]})
      <= Cardinality({t \in timers : t.kind = kind /\ t.status = "fired"})

\* An instance that ended stays as it ended, although finishes, retries and
\* administrators that read it earlier are still on their way.
EndedIsFinal == [][(inst \in Ended) => (inst' = inst)]_vars

\* If people work their tasks and an overseer who did not start the instance
\* is among them, the instance ends, unless it ran into a node that the engine
\* never leaves by itself.
WorkEnds ==
  <>(\/ inst \in Ended
     \/ starter \in Overseers
     \/ \E k \in DOMAIN incidents : incidents[k].code # "TASK_ESCALATED"
     \/ \E i \in Live(tokens) : def.type[tokens[i].node] \in {"TIMER_WAIT", "EVENT_WAIT"})

-----------------------------------------------------------------------------
(* What the documents say                                                  *)

\* "idempotent for parked task nodes (no duplicate task), so this is safe to
\* repeat" (instance.service.ts): while the instance runs, an open task is the
\* work of an active token at its node.
RetryIsSafe ==
  inst \in {"RUNNING", "WAITING"} =>
    \A k \in DOMAIN tasks : IsOpen(tasks[k]) =>
      \E i \in Live(tokens) : tokens[i].node = tasks[k].node
===============================================================================
