---------------------------- MODULE MCNotifications ----------------------------
(* A small instance of Notifications for TLC.                               *)
EXTENDS Notifications, TLC

CONSTANTS r1, w1, w2, d1

\* A ladder of two levels that ends, and one of a level that is repeated.
MCPolicies == {[levels |-> 2, repeat |-> FALSE], [levels |-> 1, repeat |-> TRUE]}
===============================================================================
