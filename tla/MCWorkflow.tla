------------------------------ MODULE MCWorkflow ------------------------------
(* Small instances of Workflow: the definitions it is checked on.           *)
EXTENDS Workflow, TLC

CONSTANTS u1, u2, s1, s2

\* Two branches: one may reject and so cancel, the other may lead back to the
\* split; then two tokens wait at one task, and the join is come to again.
Review ==
  [start |-> "s", noop |-> {}, sla |-> {},
   type |-> [s |-> "START", p |-> "PARALLEL_SPLIT", a |-> "APPROVAL_TASK",
             b |-> "HUMAN_TASK", j |-> "PARALLEL_JOIN", c |-> "CANCEL", e |-> "END"],
   out |-> [s |-> <<"p">>, p |-> <<"a", "b">>, a |-> <<"j", "c">>, b |-> <<"j", "p">>,
            j |-> <<"e">>, c |-> << >>, e |-> << >>],
   take |-> [s |-> 1, p |-> 1, a |-> 1, b |-> 1, j |-> 1, c |-> 1, e |-> 1]]

\* A gateway and a step with a service level.
Served ==
  [start |-> "s", noop |-> {"y"}, sla |-> {"a"},
   type |-> [s |-> "START", x |-> "EXCLUSIVE_GATEWAY", y |-> "SYSTEM_TASK",
             a |-> "HUMAN_TASK", e |-> "END"],
   out |-> [s |-> <<"x">>, x |-> <<"e", "y">>, y |-> <<"a">>, a |-> <<"e">>, e |-> << >>],
   take |-> [s |-> 1, x |-> 2, y |-> 1, a |-> 1, e |-> 1]]

\* Nodes the engine does not leave: a timer and an event.
Waits ==
  [start |-> "s", noop |-> {}, sla |-> {},
   type |-> [s |-> "START", v |-> "ESCALATION", t |-> "TIMER_WAIT", w |-> "EVENT_WAIT",
             e |-> "END"],
   out |-> [s |-> <<"v">>, v |-> <<"t", "w">>, t |-> <<"e">>, w |-> <<"e">>, e |-> << >>],
   take |-> [s |-> 1, v |-> 1, t |-> 1, w |-> 1, e |-> 1]]

\* A system task that leads back to itself, and one with an unknown handler.
Spins ==
  [start |-> "s", noop |-> {"y"}, sla |-> {},
   type |-> [s |-> "START", v |-> "ESCALATION", y |-> "SYSTEM_TASK", z |-> "SYSTEM_TASK",
             e |-> "END"],
   out |-> [s |-> <<"v">>, v |-> <<"y", "z">>, y |-> <<"y", "e">>, z |-> <<"e">>, e |-> << >>],
   take |-> [s |-> 1, v |-> 1, y |-> 1, z |-> 1, e |-> 1]]

MCDefinitions == {Review, Served, Waits, Spins}
MCDisturbances == [d \in MCDefinitions |-> IF d = Review THEN 1 ELSE 0]
===============================================================================
