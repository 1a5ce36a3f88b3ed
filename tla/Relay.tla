--------------------------------- MODULE Relay --------------------------------
(* The webhook relay (packages/m36-events/src): external endpoints and their *)
(* approval, their subscriptions, and the fan-out of an event to them.       *)
(*                                                                           *)
(* A delivery is three steps that nothing ties together: a transaction that  *)
(* looks whether the event was delivered and counts the attempts, the call   *)
(* to the endpoint, and a transaction that records the attempt.  Dispatchers *)
(* hand over the same event again (the outbox is at-least-once), and people  *)
(* replay, at any time.  The lifecycle of an endpoint swaps on the version   *)
(* its caller read, so each of its operations is one action.                 *)
EXTENDS Integers, Sequences, FiniteSets

CONSTANTS
  Endpoints,    \* webhook_endpoint ids
  Events,       \* events of one family and type, each with its dedupe key
  People,       \* who requests, decides and suspends
  Dispatchers,  \* concurrent calls of deliverEvent and replayDelivery
  MaxDeliveryAttempts,  \* M36_LIMITS.maxDeliveryAttempts
  MaxRows,      \* bound: no attempt is begun on this many rows of an event
  MaxFaults     \* bound: calls that die half-way

ASSUME RelayAssumption ==
  /\ IsFiniteSet(Dispatchers) /\ Dispatchers # {}
  /\ MaxDeliveryAttempts \in Nat \ {0} /\ MaxRows \in Nat /\ MaxFaults \in Nat

VARIABLES
  endpoint,  \* webhook_endpoint.state
  reviews,   \* webhook_review: the rows of each endpoint
  subs,      \* webhook_subscription: endpoint and event type, or '*' for all
  delivery,  \* webhook_delivery: the rows of each endpoint and event, by insertion
  call,      \* what each dispatcher is doing
  posted,    \* history: the calls an endpoint got for an event
  faults     \* how many calls died (bound)

vars == <<endpoint, reviews, subs, delivery, call, posted, faults>>

States == {"none", "draft", "review_pending", "active", "suspended", "rejected"}
Filters == {"*", "type"}
Outcomes == {"delivered", "failed", "blocked"}
Idle == [phase |-> "idle"]

\* hasDelivered and countDeliveryAttempts
Delivered(e, v) == \E i \in DOMAIN delivery[e][v] : delivery[e][v][i].status = "delivered"

Init ==
  /\ endpoint = [e \in Endpoints |-> "none"]
  /\ reviews = [e \in Endpoints |-> {}]
  /\ subs = {}
  /\ delivery = [e \in Endpoints |-> [v \in Events |-> << >>]]
  /\ call = [d \in Dispatchers |-> Idle]
  /\ posted = [e \in Endpoints |-> [v \in Events |-> 0]]
  /\ faults = 0

-----------------------------------------------------------------------------
(* webhook.service.ts                                                      *)

dispatch == <<delivery, call, posted, faults>>

Move(e, from, to) ==
  /\ endpoint[e] = from
  /\ endpoint' = [endpoint EXCEPT ![e] = to]

RegisterEndpoint(e) ==
  /\ Move(e, "none", "draft")
  /\ UNCHANGED <<reviews, subs, dispatch>>

RequestReview(e, p) ==
  /\ Move(e, "draft", "review_pending")
  /\ reviews' = [reviews EXCEPT ![e] = @ \cup {[kind |-> "requested", by |-> p]}]
  /\ UNCHANGED <<subs, dispatch>>

\* evaluateSodGate, against the open request; the ledger refuses it again.
MayDecide_Self(e, p) == p \in People
MayDecide(e, p) == \A r \in reviews[e] : r.kind = "requested" => r.by # p

Decide(e, p, state, kind) ==
  /\ Move(e, "review_pending", state)
  /\ MayDecide(e, p)
  /\ reviews' = [reviews EXCEPT ![e] = @ \cup {[kind |-> kind, by |-> p]}]
  /\ UNCHANGED <<subs, dispatch>>
ApproveEndpoint(e, p) == Decide(e, p, "active", "approved")
RejectReview(e, p) == Decide(e, p, "rejected", "rejected")

SuspendEndpoint(e) ==
  /\ Move(e, "active", "suspended")
  /\ UNCHANGED <<reviews, subs, dispatch>>

AddSubscription(e, f) ==
  /\ endpoint[e] # "none" /\ <<e, f>> \notin subs
  /\ subs' = subs \cup {<<e, f>>}
  /\ UNCHANGED <<endpoint, reviews, dispatch>>

-----------------------------------------------------------------------------
(* relay.service.ts: deliverEvent and replayDelivery                       *)

register == <<endpoint, reviews, subs>>

\* The subscriptions that match, in whatever order the database gives them.
BeginDeliver(d, v) ==
  /\ call[d] = Idle
  /\ call' = [call EXCEPT ![d] =
       [phase |-> "fanout", event |-> v, todo |-> {s \in subs : endpoint[s[1]] = "active"}]]
  /\ UNCHANGED <<register, delivery, posted, faults>>

\* One transaction reads what the next two steps rely on.
MayAttempt(e, v) == ~Delivered(e, v) /\ endpoint[e] = "active"

Prepared(d, e, v, todo) ==
  /\ Len(delivery[e][v]) < MaxRows
  /\ call' = [call EXCEPT ![d] = [phase |-> "prepared", event |-> v, endpoint |-> e,
                                  todo |-> todo, attempts |-> Len(delivery[e][v])]]

NextSubscription(d) ==
  /\ call[d].phase = "fanout"
  /\ \E s \in call[d].todo :
       LET v == call[d].event  todo == call[d].todo \ {s} IN
       IF MayAttempt(s[1], v) THEN Prepared(d, s[1], v, todo)
       ELSE call' = [call EXCEPT ![d].todo = todo]
  /\ UNCHANGED <<register, delivery, posted, faults>>

EndDeliver(d) ==
  /\ call[d].phase = "fanout" /\ call[d].todo = {}
  /\ call' = [call EXCEPT ![d] = Idle]
  /\ UNCHANGED <<register, delivery, posted, faults>>

BeginReplay(d, e, v) ==
  /\ call[d] = Idle
  /\ delivery[e][v] # << >>
  /\ MayAttempt(e, v)
  /\ Prepared(d, e, v, {})
  /\ UNCHANGED <<register, delivery, posted, faults>>

\* The port calls the endpoint, or reports that there is no runtime to call it.
Post(d) ==
  /\ call[d].phase = "prepared"
  /\ LET c == call[d] IN \E outcome \in Outcomes :
       /\ call' = [call EXCEPT ![d] =
            [phase |-> "posted", event |-> c.event, endpoint |-> c.endpoint,
             todo |-> c.todo, attempts |-> c.attempts, outcome |-> outcome]]
       /\ posted' = IF outcome = "blocked" THEN posted
                    ELSE [posted EXCEPT ![c.endpoint][c.event] = @ + 1]
  /\ UNCHANGED <<register, delivery, faults>>

\* The row says dead_letter instead of failed or blocked from the last attempt on.
Capped_TooLate(c) == c.outcome # "delivered" /\ c.attempts > MaxDeliveryAttempts
Capped(c) == c.outcome # "delivered" /\ c.attempts + 1 >= MaxDeliveryAttempts

\* webhook_delivery_one_delivered: a second such row of the event is refused.
MayInsert_Again(e, v, status) == status \in Outcomes \cup {"dead_letter"}
MayInsert(e, v, status) == ~(status = "delivered" /\ Delivered(e, v))

Record(d) ==
  /\ call[d].phase = "posted"
  /\ LET c == call[d]
         status == IF Capped(c) THEN "dead_letter" ELSE c.outcome
         row == [status |-> status, attempt |-> c.attempts + 1]
     IN \/ /\ MayInsert(c.endpoint, c.event, status)
           /\ delivery' = [delivery EXCEPT ![c.endpoint][c.event] = Append(@, row)]
           /\ call' = [call EXCEPT ![d] =
                [phase |-> "fanout", event |-> c.event, todo |-> c.todo]]
        \/ \* the exception ends the whole call, whatever was still to do
           /\ ~MayInsert(c.endpoint, c.event, status)
           /\ call' = [call EXCEPT ![d] = Idle]
           /\ UNCHANGED delivery
  /\ UNCHANGED <<register, posted, faults>>

\* The process dies; what it had sent stays sent.
Die(d) ==
  /\ call[d] # Idle /\ faults < MaxFaults
  /\ call' = [call EXCEPT ![d] = Idle] /\ faults' = faults + 1
  /\ UNCHANGED <<register, delivery, posted>>

-----------------------------------------------------------------------------
Govern(e) ==
  \/ RegisterEndpoint(e)
  \/ SuspendEndpoint(e)
  \/ \E p \in People : RequestReview(e, p) \/ ApproveEndpoint(e, p) \/ RejectReview(e, p)
  \/ \E f \in Filters : AddSubscription(e, f)

Deliver(d) ==
  \/ \E v \in Events : BeginDeliver(d, v)
  \/ \E e \in Endpoints, v \in Events : BeginReplay(d, e, v)
  \/ NextSubscription(d)
  \/ EndDeliver(d)
  \/ Post(d)
  \/ Record(d)
  \/ Die(d)

Next == (\E e \in Endpoints : Govern(e)) \/ (\E d \in Dispatchers : Deliver(d))

Spec == Init /\ [][Next]_vars

-----------------------------------------------------------------------------
(* Properties                                                              *)

Rows(e, v, statuses) == {i \in DOMAIN delivery[e][v] : delivery[e][v][i].status \in statuses}

\* However many dispatchers race and die, the record holds one delivery of an
\* event to an endpoint at most, and an attempt that went wrong says dead_letter
\* exactly when it was the last one its dispatcher had counted.
RecordIsSound ==
  \A e \in Endpoints, v \in Events :
    /\ Cardinality(Rows(e, v, {"delivered"})) <= 1
    /\ \A i \in DOMAIN delivery[e][v] :
         LET row == delivery[e][v][i] IN
         /\ row.attempt \in 1..i
         /\ row.status # "delivered" =>
              (row.status = "dead_letter" <=> row.attempt >= MaxDeliveryAttempts)

\* The cap is counted before the call, so dispatchers that race overshoot it:
\* by one failed attempt each and no more, the one that is on time excepted.
\* (What comes later is recorded as "dead_letter": attempts do not stop at the
\* cap, each handover of the event and each replay makes one more.)
CapIsReachedSoon ==
  \A e \in Endpoints, v \in Events :
    Cardinality(Rows(e, v, {"failed", "blocked"}))
      <= MaxDeliveryAttempts - 1 + (Cardinality(Dispatchers) - 1)

\* Nothing leaves for an endpoint that two people have not stood for, the one
\* who asked for the review and the other who approved it.
EgressWasApproved ==
  \A e \in Endpoints, v \in Events : posted[e][v] > 0 =>
    \E p, q \in People : /\ p # q
                         /\ [kind |-> "requested", by |-> p] \in reviews[e]
                         /\ [kind |-> "approved", by |-> q] \in reviews[e]
===============================================================================
