------------------------------ MODULE RelayProofs ------------------------------
(* Theorems about Relay, for every number of endpoints, events, people and   *)
(* dispatchers, and every cap.  What a dispatcher read before it called the  *)
(* endpoint stays true in one direction only: reviews and delivery rows are  *)
(* added and never taken back, so an endpoint that was approved stays so and *)
(* an attempt is never counted too high.                                     *)
EXTENDS Relay, FiniteSetTheorems, SequenceTheorems, TLAPS

Reviews == [kind : {"requested", "approved", "rejected"}, by : People]
DeliveryRows == [status : Outcomes \cup {"dead_letter"}, attempt : Nat \ {0}]
Todo == SUBSET (Endpoints \X Filters)
Fanouts == [phase : {"fanout"}, event : Events, todo : Todo]
Prepareds == [phase : {"prepared"}, event : Events, endpoint : Endpoints, todo : Todo,
              attempts : Nat]
Posteds == [phase : {"posted"}, event : Events, endpoint : Endpoints, todo : Todo,
            attempts : Nat, outcome : Outcomes]
Calls == {Idle} \cup Fanouts \cup Prepareds \cup Posteds

RelayTypeOK ==
  /\ endpoint \in [Endpoints -> States]
  /\ reviews \in [Endpoints -> SUBSET Reviews]
  /\ subs \in SUBSET (Endpoints \X Filters)
  /\ delivery \in [Endpoints -> [Events -> Seq(DeliveryRows)]]
  /\ call \in [Dispatchers -> Calls]
  /\ posted \in [Endpoints -> [Events -> Nat]]
  /\ faults \in Nat

Begun(d) == call[d].phase \in {"prepared", "posted"}

\* Two people stood for the endpoint.
Approved(e) ==
  \E p, q \in People : /\ p # q
                       /\ [kind |-> "requested", by |-> p] \in reviews[e]
                       /\ [kind |-> "approved", by |-> q] \in reviews[e]

\* The state of an endpoint and the calls under way rest on its reviews.
ReviewsStand ==
  /\ \A e \in Endpoints :
       /\ endpoint[e] = "review_pending" =>
            \E p \in People : [kind |-> "requested", by |-> p] \in reviews[e]
       /\ endpoint[e] \in {"active", "suspended"} => Approved(e)
  /\ \A d \in Dispatchers : Begun(d) => Approved(call[d].endpoint)
  /\ \A e \in Endpoints, v \in Events : posted[e][v] > 0 => Approved(e)

\* The record of an event at an endpoint is sound.
SoundRows(q) ==
  /\ \A i, j \in 1..Len(q) : q[i].status = "delivered" /\ q[j].status = "delivered" => i = j
  /\ \A i \in 1..Len(q) :
       /\ q[i].attempt <= i
       /\ q[i].status # "delivered" =>
            (q[i].status = "dead_letter" <=> q[i].attempt >= MaxDeliveryAttempts)

\* What a dispatcher counted is still there, and the record is sound.
RowsStand ==
  /\ \A d \in Dispatchers : Begun(d) =>
       call[d].attempts <= Len(delivery[call[d].endpoint][call[d].event])
  /\ \A e \in Endpoints, v \in Events : SoundRows(delivery[e][v])

-----------------------------------------------------------------------------
(* Typing                                                                  *)

\* The first state is typed.
LEMMA InitTyped == Init => RelayTypeOK
BY DEF Init, RelayTypeOK, States, Calls

\* What a dispatcher may be doing.
LEMMA CallCases ==
  ASSUME NEW x \in Calls
  PROVE  \/ x = Idle /\ x.phase = "idle"
         \/ x.phase = "fanout" /\ x \in Fanouts
         \/ x.phase = "prepared" /\ x \in Prepareds
         \/ x.phase = "posted" /\ x \in Posteds
<1>1. CASE x = Idle
  BY <1>1 DEF Idle
<1>2. CASE x \in Fanouts
  BY <1>2 DEF Fanouts
<1>3. CASE x \in Prepareds
  BY <1>3 DEF Prepareds
<1>4. CASE x \in Posteds
  BY <1>4 DEF Posteds
<1> QED BY <1>1, <1>2, <1>3, <1>4 DEF Calls

\* An attempt has an endpoint, an event and the number it read.
LEMMA BegunTyped ==
  ASSUME RelayTypeOK, NEW d \in Dispatchers, Begun(d)
  PROVE  /\ call[d].endpoint \in Endpoints /\ call[d].event \in Events
         /\ call[d].attempts \in Nat /\ call[d].todo \in Todo
         /\ call[d].phase = "posted" => call[d].outcome \in Outcomes
<1>1. call[d] \in Calls
  BY DEF RelayTypeOK
<1>2. CASE call[d].phase = "prepared"
  BY <1>1, <1>2, CallCases DEF Prepareds
<1>3. CASE call[d].phase = "posted"
  BY <1>1, <1>3, CallCases DEF Posteds
<1> QED BY <1>2, <1>3 DEF Begun

\* What an attempt that begins has read.
LEMMA PreparedTyped ==
  ASSUME RelayTypeOK, NEW d \in Dispatchers, NEW e \in Endpoints, NEW v \in Events,
         NEW todo \in Todo, Prepared(d, e, v, todo)
  PROVE  /\ call' \in [Dispatchers -> Calls]
         /\ call'[d].phase = "prepared" /\ call'[d].endpoint = e /\ call'[d].event = v
         /\ call'[d].attempts = Len(delivery[e][v])
         /\ \A x \in Dispatchers \ {d} : call'[x] = call[x]
<1> DEFINE c == [phase |-> "prepared", event |-> v, endpoint |-> e, todo |-> todo,
                 attempts |-> Len(delivery[e][v])]
<1>1. delivery[e][v] \in Seq(DeliveryRows)
  BY DEF RelayTypeOK
<1>2. Len(delivery[e][v]) \in Nat
  BY <1>1
<1>3. c \in Calls
  BY <1>2 DEF Calls, Prepareds
<1>4. call' = [call EXCEPT ![d] = c]
  BY DEF Prepared
<1>5. c.phase = "prepared" /\ c.endpoint = e /\ c.event = v /\ c.attempts = Len(delivery[e][v])
  OBVIOUS
<1> HIDE DEF c
<1> QED BY <1>3, <1>4, <1>5 DEF RelayTypeOK

\* A fan-out under way.
LEMMA FanoutTyped ==
  ASSUME RelayTypeOK, NEW d \in Dispatchers, call[d].phase = "fanout"
  PROVE  call[d] \in Fanouts /\ call[d].event \in Events /\ call[d].todo \in Todo
<1>1. call[d] \in Calls
  BY DEF RelayTypeOK
<1> QED BY <1>1, CallCases DEF Fanouts

\* Every step keeps the rows typed.
LEMMA StepTyped == RelayTypeOK /\ [Next]_vars => RelayTypeOK'
<1> SUFFICES ASSUME RelayTypeOK, [Next]_vars PROVE RelayTypeOK'
  OBVIOUS
<1>1. ASSUME NEW e \in Endpoints, Govern(e) PROVE RelayTypeOK'
  <2>1. CASE RegisterEndpoint(e) \/ SuspendEndpoint(e)
    BY <2>1 DEF RegisterEndpoint, SuspendEndpoint, Move, RelayTypeOK, States, dispatch
  <2>2. ASSUME NEW p \in People, RequestReview(e, p) PROVE RelayTypeOK'
    BY <2>2 DEF RequestReview, Move, RelayTypeOK, States, Reviews, dispatch
  <2>3. ASSUME NEW p \in People, ApproveEndpoint(e, p) \/ RejectReview(e, p)
        PROVE  RelayTypeOK'
    <3>1. \/ Decide(e, p, "active", "approved")
          \/ Decide(e, p, "rejected", "rejected")
      BY <2>3 DEF ApproveEndpoint, RejectReview
    <3>2. endpoint' \in [Endpoints -> States]
      BY <3>1 DEF Decide, Move, RelayTypeOK, States
    <3>3. reviews' \in [Endpoints -> SUBSET Reviews]
      <4>1. PICK kind \in {"approved", "rejected"} :
              reviews' = [reviews EXCEPT ![e] = reviews[e] \cup {[kind |-> kind, by |-> p]}]
        BY <3>1 DEF Decide
      <4>2. [kind |-> kind, by |-> p] \in Reviews
        BY DEF Reviews
      <4>3. reviews[e] \cup {[kind |-> kind, by |-> p]} \in SUBSET Reviews
        BY <4>2 DEF RelayTypeOK
      <4> QED BY <4>1, <4>3 DEF RelayTypeOK
    <3> QED BY <3>1, <3>2, <3>3 DEF Decide, RelayTypeOK, dispatch
  <2>4. ASSUME NEW f \in Filters, AddSubscription(e, f) PROVE RelayTypeOK'
    BY <2>4 DEF AddSubscription, RelayTypeOK, dispatch
  <2> QED BY <1>1, <2>1, <2>2, <2>3, <2>4 DEF Govern
<1>2. ASSUME NEW d \in Dispatchers, Deliver(d) PROVE RelayTypeOK'
  <2>1. ASSUME NEW v \in Events, BeginDeliver(d, v) PROVE RelayTypeOK'
    <3> DEFINE c == [phase |-> "fanout", event |-> v,
                     todo |-> {s \in subs : endpoint[s[1]] = "active"}]
    <3>1. {s \in subs : endpoint[s[1]] = "active"} \in Todo
      BY DEF RelayTypeOK, Todo
    <3>2. c \in Calls
      BY <3>1 DEF Calls, Fanouts
    <3> HIDE DEF c
    <3>3. call' = [call EXCEPT ![d] = c]
      BY <2>1 DEF BeginDeliver, c
    <3> QED BY <2>1, <3>2, <3>3 DEF BeginDeliver, RelayTypeOK, register
  <2>2. ASSUME NEW e \in Endpoints, NEW v \in Events, BeginReplay(d, e, v) PROVE RelayTypeOK'
    <3>1. {} \in Todo
      BY DEF Todo
    <3> QED BY <2>2, <3>1, PreparedTyped DEF BeginReplay, RelayTypeOK, register
  <2>3. CASE NextSubscription(d)
    <3>1. PICK s \in call[d].todo :
            LET v == call[d].event  todo == call[d].todo \ {s} IN
            IF MayAttempt(s[1], v) THEN Prepared(d, s[1], v, todo)
            ELSE call' = [call EXCEPT ![d].todo = todo]
      BY <2>3 DEF NextSubscription
    <3> DEFINE todo == call[d].todo \ {s}
    <3>2. call[d] \in Fanouts /\ call[d].event \in Events /\ s[1] \in Endpoints /\ todo \in Todo
      BY <2>3, FanoutTyped DEF NextSubscription, Todo
    <3>3. CASE Prepared(d, s[1], call[d].event, todo)
      BY <2>3, <3>2, <3>3, PreparedTyped DEF NextSubscription, RelayTypeOK, register
    <3>4. CASE call' = [call EXCEPT ![d].todo = todo]
      <4>1. [call[d] EXCEPT !.todo = todo] \in Fanouts
        BY <3>2 DEF Fanouts
      <4> QED BY <2>3, <3>4, <4>1 DEF NextSubscription, RelayTypeOK, register, Calls
    <3> QED BY <3>1, <3>3, <3>4
  <2>4. CASE EndDeliver(d) \/ Die(d)
    <3>1. call' = [call EXCEPT ![d] = Idle] /\ Idle \in Calls /\ faults' \in Nat
      BY <2>4 DEF EndDeliver, Die, RelayTypeOK, Calls
    <3>2. call' \in [Dispatchers -> Calls]
      BY <3>1 DEF RelayTypeOK
    <3> QED BY <2>4, <3>1, <3>2 DEF EndDeliver, Die, RelayTypeOK, register
  <2>5. CASE Post(d)
    <3>1. PICK outcome \in Outcomes :
            /\ call' = [call EXCEPT ![d] =
                 [phase |-> "posted", event |-> call[d].event, endpoint |-> call[d].endpoint,
                  todo |-> call[d].todo, attempts |-> call[d].attempts, outcome |-> outcome]]
            /\ posted' = IF outcome = "blocked" THEN posted
                         ELSE [posted EXCEPT ![call[d].endpoint][call[d].event] = @ + 1]
      BY <2>5 DEF Post
    <3>2. /\ call[d].endpoint \in Endpoints /\ call[d].event \in Events
          /\ call[d].attempts \in Nat /\ call[d].todo \in Todo
      BY <2>5, BegunTyped DEF Post, Begun
    <3>3. [phase |-> "posted", event |-> call[d].event, endpoint |-> call[d].endpoint,
           todo |-> call[d].todo, attempts |-> call[d].attempts, outcome |-> outcome] \in Calls
      BY <3>2 DEF Calls, Posteds
    <3>4. call' \in [Dispatchers -> Calls]
      BY <3>1, <3>3 DEF RelayTypeOK
    <3>5. posted' \in [Endpoints -> [Events -> Nat]]
      BY <3>1, <3>2 DEF RelayTypeOK
    <3> QED BY <2>5, <3>4, <3>5 DEF Post, RelayTypeOK, register
  <2>6. CASE Record(d)
    <3> DEFINE c == call[d]
               status == IF Capped(c) THEN "dead_letter" ELSE c.outcome
               row == [status |-> status, attempt |-> c.attempts + 1]
    <3>1. /\ c.endpoint \in Endpoints /\ c.event \in Events /\ c.attempts \in Nat
          /\ c.todo \in Todo /\ c.outcome \in Outcomes
      BY <2>6, BegunTyped DEF Record, Begun
    <3>2. row \in DeliveryRows /\ [phase |-> "fanout", event |-> c.event, todo |-> c.todo] \in Calls
      BY <3>1 DEF DeliveryRows, Calls, Fanouts
    <3>3. delivery[c.endpoint][c.event] \in Seq(DeliveryRows)
      BY <3>1 DEF RelayTypeOK
    <3> HIDE DEF row
    <3>4. Append(delivery[c.endpoint][c.event], row) \in Seq(DeliveryRows)
      BY <3>2, <3>3, AppendProperties
    <3>5. \/ /\ delivery' = [delivery EXCEPT ![c.endpoint][c.event] =
                               Append(delivery[c.endpoint][c.event], row)]
             /\ call' = [call EXCEPT ![d] =
                           [phase |-> "fanout", event |-> c.event, todo |-> c.todo]]
          \/ delivery' = delivery /\ call' = [call EXCEPT ![d] = Idle]
      BY <2>6 DEF Record, row
    <3>6. delivery' \in [Endpoints -> [Events -> Seq(DeliveryRows)]]
      <4> DEFINE q == Append(delivery[c.endpoint][c.event], row)
      <4> HIDE DEF q
      <4>1. delivery[c.endpoint] \in [Events -> Seq(DeliveryRows)] /\ q \in Seq(DeliveryRows)
        BY <3>1, <3>4 DEF RelayTypeOK, q
      <4>2. [delivery[c.endpoint] EXCEPT ![c.event] = q] \in [Events -> Seq(DeliveryRows)]
        BY <3>1, <4>1
      <4>3. \/ delivery' = [delivery EXCEPT ![c.endpoint] =
                               [delivery[c.endpoint] EXCEPT ![c.event] = q]]
            \/ delivery' = delivery
        BY <3>5 DEF q
      <4> QED BY <3>1, <4>2, <4>3 DEF RelayTypeOK
    <3>7. call' \in [Dispatchers -> Calls]
      BY <3>2, <3>5 DEF RelayTypeOK, Calls
    <3> QED BY <2>6, <3>6, <3>7 DEF Record, RelayTypeOK, register
  <2> QED BY <1>2, <2>1, <2>2, <2>3, <2>4, <2>5, <2>6 DEF Deliver
<1>3. CASE UNCHANGED vars
  BY <1>3 DEF vars, RelayTypeOK
<1> QED BY <1>1, <1>2, <1>3 DEF Next

-----------------------------------------------------------------------------
(* The reviews an endpoint rests on                                        *)

\* No operation takes a review back.
LEMMA ReviewsGrow ==
  ASSUME RelayTypeOK, [Next]_vars, NEW e \in Endpoints
  PROVE  reviews[e] \subseteq reviews'[e]
<1>1. ASSUME NEW x \in Endpoints, Govern(x) PROVE reviews[e] \subseteq reviews'[e]
  BY <1>1 DEF Govern, RegisterEndpoint, SuspendEndpoint, RequestReview, ApproveEndpoint,
              RejectReview, Decide, AddSubscription, RelayTypeOK
<1>2. ASSUME NEW d \in Dispatchers, Deliver(d) PROVE reviews' = reviews
  BY <1>2 DEF Deliver, BeginDeliver, BeginReplay, NextSubscription, EndDeliver, Post, Record,
              Die, register
<1> QED BY <1>1, <1>2 DEF Next, vars

\* An approval is a review, and reviews are never erased.
LEMMA ApprovedStays ==
  ASSUME RelayTypeOK, [Next]_vars, NEW e \in Endpoints, Approved(e)
  PROVE  Approved(e)'
BY ReviewsGrow DEF Approved

\* A step of a dispatcher changes its own call only, and an attempt that
\* begins has found its endpoint active.
LEMMA CallStep ==
  ASSUME RelayTypeOK, NEW d \in Dispatchers, Deliver(d)
  PROVE  /\ \A x \in Dispatchers \ {d} : call'[x] = call[x]
         /\ UNCHANGED register
         /\ \/ call'[d].phase \notin {"prepared", "posted"}
            \/ /\ Begun(d) /\ call'[d].endpoint = call[d].endpoint
               /\ call'[d].event = call[d].event /\ call'[d].attempts = call[d].attempts
            \/ /\ call'[d].endpoint \in Endpoints /\ call'[d].event \in Events
               /\ endpoint[call'[d].endpoint] = "active"
               /\ call'[d].attempts = Len(delivery[call'[d].endpoint][call'[d].event])
               /\ UNCHANGED delivery
<1>1. CASE (\E v \in Events : BeginDeliver(d, v)) \/ EndDeliver(d) \/ Die(d)
  BY <1>1 DEF BeginDeliver, EndDeliver, Die, Idle, RelayTypeOK, register
<1>2. ASSUME NEW e \in Endpoints, NEW v \in Events, NEW todo \in Todo, Prepared(d, e, v, todo),
             MayAttempt(e, v), UNCHANGED <<register, delivery>>
      PROVE  /\ \A x \in Dispatchers \ {d} : call'[x] = call[x]
             /\ UNCHANGED register
             /\ call'[d].endpoint \in Endpoints /\ call'[d].event \in Events
             /\ endpoint[call'[d].endpoint] = "active"
             /\ call'[d].attempts = Len(delivery[call'[d].endpoint][call'[d].event])
             /\ UNCHANGED delivery
  BY <1>2, PreparedTyped DEF MayAttempt
<1>3. CASE \E e \in Endpoints, v \in Events : BeginReplay(d, e, v)
  BY <1>2, <1>3 DEF BeginReplay, Todo
<1>4. CASE NextSubscription(d)
  <2>1. PICK s \in call[d].todo :
          LET v == call[d].event  todo == call[d].todo \ {s} IN
          IF MayAttempt(s[1], v) THEN Prepared(d, s[1], v, todo)
          ELSE call' = [call EXCEPT ![d].todo = todo]
    BY <1>4 DEF NextSubscription
  <2> DEFINE todo == call[d].todo \ {s}
  <2>2. call[d] \in Fanouts /\ call[d].event \in Events /\ s[1] \in Endpoints /\ todo \in Todo
    BY <1>4, FanoutTyped DEF NextSubscription, Todo
  <2>3. CASE MayAttempt(s[1], call[d].event)
    BY <1>2, <1>4, <2>1, <2>2, <2>3 DEF NextSubscription
  <2>4. CASE ~MayAttempt(s[1], call[d].event)
    <3>1. call' = [call EXCEPT ![d] = [call[d] EXCEPT !.todo = todo]]
      BY <2>1, <2>4 DEF RelayTypeOK
    <3>2. [call[d] EXCEPT !.todo = todo].phase = "fanout"
      BY <2>2 DEF Fanouts
    <3> QED BY <1>4, <3>1, <3>2 DEF NextSubscription, RelayTypeOK, register
  <2> QED BY <2>3, <2>4
<1>5. CASE Post(d)
  <2>1. PICK outcome \in Outcomes :
          call' = [call EXCEPT ![d] =
               [phase |-> "posted", event |-> call[d].event, endpoint |-> call[d].endpoint,
                todo |-> call[d].todo, attempts |-> call[d].attempts, outcome |-> outcome]]
    BY <1>5 DEF Post
  <2> QED BY <1>5, <2>1 DEF Post, Begun, RelayTypeOK, register
<1>6. CASE Record(d)
  BY <1>6 DEF Record, Idle, RelayTypeOK, register
<1> QED BY <1>1, <1>3, <1>4, <1>5, <1>6 DEF Deliver

\* Every step keeps an active endpoint approved.
LEMMA StepReviewed ==
  ASSUME RelayTypeOK, ReviewsStand, [Next]_vars
  PROVE  ReviewsStand'
<1>1. ASSUME NEW x \in Endpoints, Govern(x) PROVE ReviewsStand'
  <2>1. \A e \in Endpoints : /\ Approved(e) => Approved(e)'
                             /\ reviews[e] \subseteq reviews'[e]
    BY ApprovedStays, ReviewsGrow
  <2>2. call' = call /\ posted' = posted
    BY <1>1 DEF Govern, RegisterEndpoint, SuspendEndpoint, RequestReview, ApproveEndpoint,
                RejectReview, Decide, AddSubscription, dispatch
  <2>3. \A d \in Dispatchers : Begun(d)' => Begun(d) /\ Approved(call[d].endpoint)'
    BY <2>1, <2>2, BegunTyped DEF Begun, ReviewsStand
  <2>4. \A e \in Endpoints \ {x} : endpoint'[e] = endpoint[e]
    BY <1>1 DEF Govern, RegisterEndpoint, SuspendEndpoint, RequestReview, ApproveEndpoint,
                RejectReview, Decide, Move, AddSubscription, RelayTypeOK
  <2>5. /\ endpoint'[x] = "review_pending" =>
             \E p \in People : [kind |-> "requested", by |-> p] \in reviews'[x]
        /\ endpoint'[x] \in {"active", "suspended"} => Approved(x)'
    <3>1. CASE RegisterEndpoint(x) \/ (\E f \in Filters : AddSubscription(x, f))
      BY <3>1, <2>1 DEF RegisterEndpoint, AddSubscription, Move, RelayTypeOK, ReviewsStand
    <3>2. CASE SuspendEndpoint(x)
      BY <3>2, <2>1 DEF SuspendEndpoint, Move, RelayTypeOK, ReviewsStand
    <3>3. ASSUME NEW p \in People, RequestReview(x, p)
          PROVE  /\ [kind |-> "requested", by |-> p] \in reviews'[x]
                 /\ endpoint'[x] = "review_pending"
      BY <3>3 DEF RequestReview, Move, RelayTypeOK
    <3>4. ASSUME NEW p \in People, RejectReview(x, p) PROVE endpoint'[x] = "rejected"
      BY <3>4 DEF RejectReview, Decide, Move, RelayTypeOK
    <3>5. ASSUME NEW q \in People, ApproveEndpoint(x, q)
          PROVE  endpoint'[x] = "active" /\ Approved(x)'
      <4>1. PICK p \in People : [kind |-> "requested", by |-> p] \in reviews[x]
        BY <3>5 DEF ApproveEndpoint, Decide, Move, ReviewsStand
      <4>2. [kind |-> "requested", by |-> p].kind = "requested"
            /\ [kind |-> "requested", by |-> p].by = p
        OBVIOUS
      <4>3. p # q
        BY <3>5, <4>1, <4>2 DEF ApproveEndpoint, Decide, MayDecide
      <4>4. [kind |-> "approved", by |-> q] \in reviews'[x] /\ endpoint'[x] = "active"
        BY <3>5 DEF ApproveEndpoint, Decide, Move, RelayTypeOK
      <4> QED BY <2>1, <4>1, <4>3, <4>4 DEF Approved
    <3> QED BY <1>1, <3>1, <3>2, <3>3, <3>4, <3>5 DEF Govern
  <2>6. \A e \in Endpoints \ {x} :
          /\ endpoint'[e] = "review_pending" =>
               \E p \in People : [kind |-> "requested", by |-> p] \in reviews'[e]
          /\ endpoint'[e] \in {"active", "suspended"} => Approved(e)'
    BY <2>1, <2>4 DEF ReviewsStand
  <2>7. \A e \in Endpoints, v \in Events : posted'[e][v] > 0 => Approved(e)'
    BY <2>1, <2>2 DEF ReviewsStand
  <2> QED BY <2>2, <2>3, <2>5, <2>6, <2>7 DEF ReviewsStand
<1>2. ASSUME NEW d \in Dispatchers, Deliver(d) PROVE ReviewsStand'
  <2>1. endpoint' = endpoint /\ reviews' = reviews
    BY <1>2, CallStep DEF register
  <2>2. \A e : Approved(e)' <=> Approved(e)
    BY <2>1 DEF Approved
  <2>3. Begun(d)' => Approved(call'[d].endpoint)
    BY <1>2, CallStep DEF Begun, ReviewsStand
  <2>4. \A x \in Dispatchers : Begun(x)' => Approved(call'[x].endpoint)
    BY <1>2, <2>3, CallStep, SMTT(30) DEF Begun, ReviewsStand
  <2>5. \A e \in Endpoints, v \in Events : posted'[e][v] > 0 => Approved(e)
    <3>1. CASE posted' = posted
      BY <3>1 DEF ReviewsStand
    <3>2. CASE /\ Post(d)
               /\ posted' = [posted EXCEPT ![call[d].endpoint][call[d].event] = @ + 1]
      <4>1. Begun(d) /\ Approved(call[d].endpoint)
        BY <3>2 DEF Post, Begun, ReviewsStand
      <4>2. \A e \in Endpoints : e # call[d].endpoint => posted'[e] = posted[e]
        BY <3>2 DEF RelayTypeOK
      <4> QED BY <4>1, <4>2 DEF ReviewsStand
    <3> QED BY <1>2, <3>1, <3>2 DEF Deliver, BeginDeliver, BeginReplay, NextSubscription,
                                   EndDeliver, Post, Record, Die
  <2> QED BY <2>1, <2>2, <2>4, <2>5 DEF ReviewsStand
<1>3. CASE UNCHANGED vars
  BY <1>3 DEF vars, ReviewsStand, Approved, Begun
<1> QED BY <1>1, <1>2, <1>3 DEF Next

-----------------------------------------------------------------------------
(* The rows of a delivery                                                  *)

\* A row that is recorded is the last of its list.
LEMMA RowAppended ==
  ASSUME RelayTypeOK, NEW d \in Dispatchers, Record(d), delivery' # delivery
  PROVE  \E e \in Endpoints, v \in Events, row \in DeliveryRows :
           /\ e = call[d].endpoint /\ v = call[d].event
           /\ row.attempt = call[d].attempts + 1
           /\ row.status = IF Capped(call[d]) THEN "dead_letter" ELSE call[d].outcome
           /\ MayInsert(e, v, row.status)
           /\ delivery'[e][v] = Append(delivery[e][v], row)
           /\ \A x \in Endpoints, y \in Events :
                (x # e \/ y # v) => delivery'[x][y] = delivery[x][y]
<1> DEFINE e == call[d].endpoint
           v == call[d].event
           status == IF Capped(call[d]) THEN "dead_letter" ELSE call[d].outcome
           row == [status |-> status, attempt |-> call[d].attempts + 1]
<1>1. /\ e \in Endpoints /\ v \in Events /\ call[d].attempts \in Nat
      /\ call[d].outcome \in Outcomes
  BY BegunTyped DEF Record, Begun
<1>2. row \in DeliveryRows /\ row.attempt = call[d].attempts + 1 /\ row.status = status
  BY <1>1 DEF DeliveryRows
<1>3. \/ delivery' = delivery
      \/ /\ MayInsert(e, v, status)
         /\ delivery' = [delivery EXCEPT ![e] =
                           [delivery[e] EXCEPT ![v] = Append(delivery[e][v], row)]]
  BY DEF Record
<1> HIDE DEF row
<1>4. delivery[e] \in [Events -> Seq(DeliveryRows)]
  BY <1>1 DEF RelayTypeOK
<1>5. ASSUME delivery' = [delivery EXCEPT ![e] =
                            [delivery[e] EXCEPT ![v] = Append(delivery[e][v], row)]]
      PROVE  /\ delivery'[e][v] = Append(delivery[e][v], row)
             /\ \A x \in Endpoints, y \in Events :
                  (x # e \/ y # v) => delivery'[x][y] = delivery[x][y]
  BY <1>1, <1>4, <1>5 DEF RelayTypeOK
<1>6. /\ e = call[d].endpoint /\ v = call[d].event
      /\ status = IF Capped(call[d]) THEN "dead_letter" ELSE call[d].outcome
  OBVIOUS
<1> HIDE DEF e, v, status
<1>7. e \in Endpoints /\ v \in Events
  BY <1>1
<1>8. /\ MayInsert(e, v, status)
      /\ delivery'[e][v] = Append(delivery[e][v], row)
      /\ \A x \in Endpoints, y \in Events :
           (x # e \/ y # v) => delivery'[x][y] = delivery[x][y]
  BY <1>3, <1>5
<1> QED
  <2> e \in Endpoints /\ v \in Events /\ row \in DeliveryRows
    BY <1>2, <1>7, SMTT(30)
  <2> WITNESS e \in Endpoints, v \in Events, row \in DeliveryRows
  <2> QED BY <1>2, <1>6, <1>8

\* Recording ends the attempt, and touches no other dispatcher.
LEMMA RecordEnds ==
  ASSUME RelayTypeOK, NEW d \in Dispatchers, Record(d)
  PROVE  /\ call'[d].phase \notin {"prepared", "posted"}
         /\ \A x \in Dispatchers \ {d} : call'[x] = call[x]
BY DEF Record, Idle, RelayTypeOK

\* Every step keeps the record sound.
LEMMA StepRecorded ==
  ASSUME RelayTypeOK, RowsStand, [Next]_vars
  PROVE  RowsStand'
<1> USE RelayAssumption DEF RelayAssumption
<1>1. ASSUME UNCHANGED <<delivery, call>> PROVE RowsStand'
  BY <1>1 DEF RowsStand, Begun
<1>2. ASSUME NEW d \in Dispatchers, Deliver(d), UNCHANGED delivery PROVE RowsStand'
  <2>1. Begun(d)' => call'[d].attempts <= Len(delivery[call'[d].endpoint][call'[d].event])
    <3>1. ASSUME NEW e \in Endpoints, NEW v \in Events
          PROVE  Len(delivery[e][v]) \in Nat
      BY DEF RelayTypeOK
    <3> QED BY <1>2, <3>1, CallStep DEF Begun, RowsStand
  <2>2. \A x \in Dispatchers : Begun(x)' =>
          call'[x].attempts <= Len(delivery[call'[x].endpoint][call'[x].event])
    BY <1>2, <2>1, CallStep DEF Begun, RowsStand
  <2> QED BY <1>2, <2>2 DEF RowsStand, Begun
<1>3. ASSUME NEW d \in Dispatchers, Record(d), delivery' # delivery PROVE RowsStand'
  <2>1. PICK e \in Endpoints, v \in Events, row \in DeliveryRows :
           /\ e = call[d].endpoint /\ v = call[d].event
           /\ row.attempt = call[d].attempts + 1
           /\ row.status = IF Capped(call[d]) THEN "dead_letter" ELSE call[d].outcome
           /\ MayInsert(e, v, row.status)
           /\ delivery'[e][v] = Append(delivery[e][v], row)
           /\ \A x \in Endpoints, y \in Events :
                (x # e \/ y # v) => delivery'[x][y] = delivery[x][y]
    BY <1>3, RowAppended, SMTT(30)
  <2> DEFINE q == delivery[e][v]
  <2>2. /\ call[d].attempts \in Nat /\ call[d].outcome \in Outcomes
        /\ call[d].attempts <= Len(q)
    BY <1>3, <2>1, BegunTyped DEF Record, Begun, RowsStand
  <2>3. q \in Seq(DeliveryRows) /\ Len(q) \in Nat
    BY SMTT(30) DEF RelayTypeOK
  <2>4. /\ row.status = "delivered" => call[d].outcome = "delivered"
        /\ row.status # "delivered" =>
             (row.status = "dead_letter" <=> row.attempt >= MaxDeliveryAttempts)
        /\ row.attempt <= Len(q) + 1
    BY <2>1, <2>2, <2>3, SMTT(30) DEF Capped, Outcomes
  <2>5. /\ Len(Append(q, row)) = Len(q) + 1 /\ Append(q, row)[Len(q) + 1] = row
        /\ \A i \in 1..Len(q) : Append(q, row)[i] = q[i]
        /\ Append(q, row) \in Seq(DeliveryRows)
    BY <2>3, AppendProperties
  <2>6. DOMAIN Append(q, row) = 1..Len(q) + 1 /\ DOMAIN q = 1..Len(q)
    BY <2>3, <2>5
  <2>7. row.status = "delivered" => \A i \in 1..Len(q) : q[i].status # "delivered"
    BY <2>1, <2>6 DEF MayInsert, Delivered
  <2>8. SoundRows(Append(q, row))
    <3>1. SoundRows(q)
      BY DEF RowsStand
    <3> HIDE DEF q
    <3>2. \A i \in 1..Len(q) + 1 : i \in 1..Len(q) \/ i = Len(q) + 1
      BY <2>3
    <3> QED BY <2>3, <2>4, <2>5, <2>6, <2>7, <3>1, <3>2, SMTT(30) DEF SoundRows
  <2>9. \A x \in Endpoints, y \in Events :
          Len(delivery[x][y]) \in Nat /\ Len(delivery'[x][y]) \in Nat
            /\ Len(delivery[x][y]) <= Len(delivery'[x][y])
    <3>1. Len(delivery'[e][v]) = Len(delivery[e][v]) + 1 /\ Len(delivery[e][v]) \in Nat
      BY <2>1, <2>3, <2>5
    <3>2. \A x \in Endpoints, y \in Events : Len(delivery[x][y]) \in Nat
      BY DEF RelayTypeOK
    <3>3. ASSUME NEW x \in Endpoints, NEW y \in Events
          PROVE  /\ Len(delivery[x][y]) \in Nat /\ Len(delivery'[x][y]) \in Nat
                 /\ Len(delivery[x][y]) <= Len(delivery'[x][y])
      <4>1. CASE x = e /\ y = v
        BY <3>1, <4>1, SMTT(30)
      <4>2. CASE x # e \/ y # v
        BY <2>1, <3>2, <4>2
      <4> QED BY <4>1, <4>2
    <3> QED BY <3>3
  <2>10. \A x \in Dispatchers : Begun(x)' =>
           /\ Begun(x) /\ call'[x] = call[x]
           /\ call[x].attempts <= Len(delivery'[call[x].endpoint][call[x].event])
    <3>1. call'[d].phase \notin {"prepared", "posted"}
          /\ \A x \in Dispatchers \ {d} : call'[x] = call[x]
      BY <1>3, RecordEnds
    <3>2. \A x \in Dispatchers : Begun(x)' => Begun(x) /\ call'[x] = call[x]
      BY <3>1 DEF Begun
    <3>3. \A x \in Dispatchers : Begun(x) =>
            /\ call[x].endpoint \in Endpoints /\ call[x].event \in Events
            /\ call[x].attempts \in Nat
            /\ call[x].attempts <= Len(delivery[call[x].endpoint][call[x].event])
      BY BegunTyped DEF RowsStand
    <3>4. ASSUME NEW x \in Dispatchers, Begun(x)
          PROVE  call[x].attempts <= Len(delivery'[call[x].endpoint][call[x].event])
      <4>1. PICK y \in Endpoints, z \in Events : y = call[x].endpoint /\ z = call[x].event
        BY <3>3, <3>4
      <4>2. /\ Len(delivery[y][z]) \in Nat /\ Len(delivery'[y][z]) \in Nat
            /\ Len(delivery[y][z]) <= Len(delivery'[y][z])
        BY <2>9
      <4>3. call[x].attempts \in Nat /\ call[x].attempts <= Len(delivery[y][z])
        BY <3>3, <3>4, <4>1
      <4>4. call[x].attempts <= Len(delivery'[y][z])
        BY <4>2, <4>3, SMTT(30)
      <4> QED BY <4>1, <4>4, Zenon
    <3> QED BY <3>2, <3>4
  <2>11. \A x \in Endpoints, y \in Events : SoundRows(delivery'[x][y])
    <3>1. ASSUME NEW x \in Endpoints, NEW y \in Events, x # e \/ y # v
          PROVE  delivery'[x][y] = delivery[x][y]
      BY <2>1, <3>1
    <3>2. ASSUME NEW x \in Endpoints, NEW y \in Events PROVE SoundRows(delivery'[x][y])
      <4>1. CASE x = e /\ y = v
        BY <2>1, <2>8, <4>1
      <4>2. CASE x # e \/ y # v
        BY <3>1, <4>2 DEF RowsStand
      <4> QED BY <4>1, <4>2, SMTT(30)
    <3> QED BY <3>2
  <2>12. \A x \in Dispatchers : Begun(x)' =>
           call'[x].attempts <= Len(delivery'[call'[x].endpoint][call'[x].event])
    BY <2>10
  <2> QED BY <2>11, <2>12 DEF RowsStand
<1>4. ASSUME NEW x \in Endpoints, Govern(x) PROVE UNCHANGED <<delivery, call>>
  BY <1>4 DEF Govern, RegisterEndpoint, SuspendEndpoint, RequestReview, ApproveEndpoint,
              RejectReview, Decide, AddSubscription, dispatch
<1>5. ASSUME NEW d \in Dispatchers, Deliver(d) PROVE Record(d) \/ UNCHANGED delivery
  BY <1>5 DEF Deliver, BeginDeliver, BeginReplay, NextSubscription, EndDeliver, Post, Die
<1>6. CASE UNCHANGED vars
  BY <1>1, <1>6 DEF vars
<1> QED BY <1>1, <1>2, <1>3, <1>4, <1>5, <1>6 DEF Next

-----------------------------------------------------------------------------
(* The cap                                                                 *)

FailedRows(q) == {i \in 1..Len(q) : q[i].status \in {"failed", "blocked"}}

\* The calls under way that may still add one.
Early(f, e, v) ==
  {d \in Dispatchers : /\ f[d].phase \in {"prepared", "posted"}
                       /\ f[d].endpoint = e /\ f[d].event = v
                       /\ f[d].attempts + 1 < MaxDeliveryAttempts}

CapStands ==
  \A e \in Endpoints, v \in Events :
    Cardinality(FailedRows(delivery[e][v])) + Cardinality(Early(call, e, v))
      <= MaxDeliveryAttempts - 1 + (Cardinality(Dispatchers) - 1)

\* Failed rows can be counted, and are no more than the rows.
LEMMA FailedFinite ==
  ASSUME NEW q \in Seq(DeliveryRows)
  PROVE  /\ IsFiniteSet(FailedRows(q)) /\ Cardinality(FailedRows(q)) \in Nat
         /\ Cardinality(FailedRows(q)) <= Len(q)
<1>1. IsFiniteSet(1..Len(q)) /\ Cardinality(1..Len(q)) = Len(q)
  <2>1. Len(q) \in Nat /\ 1 \in Int /\ Len(q) \in Int
    OBVIOUS
  <2>2. /\ IsFiniteSet(1..Len(q))
        /\ Cardinality(1..Len(q)) = IF 1 > Len(q) THEN 0 ELSE Len(q) - 1 + 1
    BY <2>1, FS_Interval
  <2> QED BY <2>1, <2>2
<1>2. FailedRows(q) \subseteq 1..Len(q)
  BY DEF FailedRows
<1> QED BY <1>1, <1>2, FS_Subset, FS_CardinalityType

\* Early attempts can be counted, and are no more than the dispatchers.
LEMMA EarlyFinite ==
  /\ \A f, e, v : /\ IsFiniteSet(Early(f, e, v)) /\ Cardinality(Early(f, e, v)) \in Nat
                  /\ Cardinality(Early(f, e, v)) <= Cardinality(Dispatchers)
  /\ Cardinality(Dispatchers) \in Nat \ {0}
<1>1. \A f, e, v : Early(f, e, v) \subseteq Dispatchers
  BY DEF Early
<1> QED BY <1>1, RelayAssumption, FS_Subset, FS_CardinalityType, FS_EmptySet
        DEF RelayAssumption

\* A row more is one failed row more, or none.
LEMMA FailedAppend ==
  ASSUME NEW q \in Seq(DeliveryRows), NEW row \in DeliveryRows
  PROVE  Cardinality(FailedRows(Append(q, row))) =
           IF row.status \in {"failed", "blocked"} THEN Cardinality(FailedRows(q)) + 1
           ELSE Cardinality(FailedRows(q))
<1>1. /\ Len(Append(q, row)) = Len(q) + 1 /\ Append(q, row)[Len(q) + 1] = row
      /\ \A i \in 1..Len(q) : Append(q, row)[i] = q[i]
  BY AppendProperties
<1>2. Len(q) \in Nat
  OBVIOUS
<1>3. FailedRows(Append(q, row)) = IF row.status \in {"failed", "blocked"}
                                   THEN FailedRows(q) \cup {Len(q) + 1} ELSE FailedRows(q)
  <2>1. ASSUME NEW i \in 1..Len(q) + 1
        PROVE  i \in FailedRows(Append(q, row)) <=>
                 \/ i \in FailedRows(q)
                 \/ i = Len(q) + 1 /\ row.status \in {"failed", "blocked"}
    BY <1>1, <1>2 DEF FailedRows
  <2>2. FailedRows(Append(q, row)) \subseteq 1..Len(q) + 1 /\ FailedRows(q) \subseteq 1..Len(q)
    BY <1>1 DEF FailedRows
  <2>3. 1..Len(q) \subseteq 1..Len(q) + 1 /\ Len(q) + 1 \in 1..Len(q) + 1
    BY <1>2
  <2>4. CASE row.status \in {"failed", "blocked"}
    <3>1. \A i \in 1..Len(q) + 1 :
            i \in FailedRows(Append(q, row)) <=> i \in FailedRows(q) \cup {Len(q) + 1}
      BY <2>1, <2>4
    <3> QED BY <2>2, <2>3, <2>4, <3>1
  <2>5. CASE row.status \notin {"failed", "blocked"}
    <3>1. \A i \in 1..Len(q) + 1 : i \in FailedRows(Append(q, row)) <=> i \in FailedRows(q)
      BY <2>1, <2>5
    <3> QED BY <2>2, <2>3, <2>5, <3>1
  <2> QED BY <2>4, <2>5
<1>4. Len(q) + 1 \notin FailedRows(q)
  BY <1>2 DEF FailedRows
<1>5. Cardinality(FailedRows(q) \cup {Len(q) + 1}) = Cardinality(FailedRows(q)) + 1
  BY <1>4, FailedFinite, FS_AddElement
<1> QED BY <1>3, <1>5

\* Fewer attempts are no more in number.
LEMMA FewerEarly ==
  ASSUME NEW f, NEW g, NEW e, NEW v, Early(g, e, v) \subseteq Early(f, e, v)
  PROVE  Cardinality(Early(g, e, v)) <= Cardinality(Early(f, e, v))
BY EarlyFinite, FS_Subset

\* Every step keeps the failures within the cap and the early attempts.
LEMMA StepCapped ==
  ASSUME RelayTypeOK, RowsStand, CapStands, [Next]_vars
  PROVE  CapStands'
<1> DEFINE D == Cardinality(Dispatchers)
<1>0. MaxDeliveryAttempts \in Nat \ {0} /\ D \in Nat \ {0}
  BY RelayAssumption, EarlyFinite DEF RelayAssumption
<1>1. ASSUME UNCHANGED <<delivery, call>> PROVE CapStands'
  BY <1>1 DEF CapStands
<1>2. ASSUME NEW d \in Dispatchers, Deliver(d), UNCHANGED delivery PROVE CapStands'
  <2> SUFFICES ASSUME NEW e \in Endpoints, NEW v \in Events
               PROVE  Cardinality(FailedRows(delivery[e][v])) + Cardinality(Early(call', e, v))
                        <= MaxDeliveryAttempts - 1 + (D - 1)
    BY <1>2 DEF CapStands
  <2> DEFINE q == delivery[e][v]
  <2>1. /\ Cardinality(FailedRows(q)) \in Nat /\ Cardinality(FailedRows(q)) <= Len(q)
        /\ Len(q) \in Nat
    BY FailedFinite DEF RelayTypeOK
  <2>2. /\ Cardinality(FailedRows(q)) + Cardinality(Early(call, e, v))
             <= MaxDeliveryAttempts - 1 + (D - 1)
        /\ Cardinality(Early(call, e, v)) \in Nat /\ Cardinality(Early(call', e, v)) \in Nat
        /\ Cardinality(Early(call', e, v)) <= D
    BY EarlyFinite DEF CapStands
  <2>3. CASE Early(call', e, v) \subseteq Early(call, e, v)
    <3>1. Cardinality(Early(call', e, v)) <= Cardinality(Early(call, e, v))
      BY <2>3, FewerEarly
    <3> QED BY <1>0, <2>1, <2>2, <3>1
  <2>4. CASE ~(Early(call', e, v) \subseteq Early(call, e, v))
    <3>1. d \in Early(call', e, v) /\ d \notin Early(call, e, v)
      BY <1>2, <2>4, CallStep DEF Early
    <3>2. call'[d].attempts + 1 < MaxDeliveryAttempts /\ call'[d].attempts = Len(q)
      BY <1>2, <3>1, CallStep DEF Early, Begun
    <3> QED BY <1>0, <2>1, <2>2, <3>2, SMTT(30)
  <2> QED BY <2>3, <2>4
<1>3. ASSUME NEW d \in Dispatchers, Record(d), delivery' # delivery PROVE CapStands'
  <2>1. PICK e \in Endpoints, v \in Events, row \in DeliveryRows :
           /\ e = call[d].endpoint /\ v = call[d].event
           /\ row.attempt = call[d].attempts + 1
           /\ row.status = IF Capped(call[d]) THEN "dead_letter" ELSE call[d].outcome
           /\ MayInsert(e, v, row.status)
           /\ delivery'[e][v] = Append(delivery[e][v], row)
           /\ \A x \in Endpoints, y \in Events :
                (x # e \/ y # v) => delivery'[x][y] = delivery[x][y]
    BY <1>3, RowAppended
  <2> DEFINE q == delivery[e][v]
             F == Cardinality(FailedRows(q))
             E == Cardinality(Early(call, e, v))
  <2>2. q \in Seq(DeliveryRows)
    BY DEF RelayTypeOK
  <2>3. F \in Nat /\ E \in Nat /\ F + E <= MaxDeliveryAttempts - 1 + (D - 1)
    BY <2>2, FailedFinite, EarlyFinite DEF CapStands
  <2>4. \A x, y : Early(call', x, y) \subseteq Early(call, x, y) \ {d}
    BY <1>3, RecordEnds DEF Early
  <2>5. Cardinality(FailedRows(Append(q, row))) + Cardinality(Early(call', e, v))
          <= MaxDeliveryAttempts - 1 + (D - 1)
    <3>1. CASE row.status \in {"failed", "blocked"}
      <4>1. d \in Early(call, e, v)
        <5>1. call[d].attempts \in Nat /\ call[d].phase = "posted"
          BY <1>3, BegunTyped DEF Record, Begun
        <5>2. ~Capped(call[d]) /\ call[d].outcome # "delivered"
          BY <2>1, <3>1
        <5> QED BY <1>0, <2>1, <5>1, <5>2 DEF Early, Capped
      <4>2. Cardinality(Early(call, e, v) \ {d}) = E - 1 /\ IsFiniteSet(Early(call, e, v) \ {d})
        BY <4>1, EarlyFinite, FS_RemoveElement
      <4>3. Cardinality(Early(call', e, v)) <= E - 1
        BY <2>4, <4>2, FS_Subset
      <4>4. Cardinality(FailedRows(Append(q, row))) = F + 1
        BY <2>2, <3>1, FailedAppend
      <4>5. Cardinality(Early(call', e, v)) \in Nat
        BY EarlyFinite
      <4> HIDE DEF F, E, D
      <4> QED BY <1>0, <2>3, <4>3, <4>4, <4>5
    <3>2. CASE row.status \notin {"failed", "blocked"}
      <4>1. Cardinality(FailedRows(Append(q, row))) = F
        BY <2>2, <3>2, FailedAppend
      <4>2. Cardinality(Early(call', e, v)) <= E /\ Cardinality(Early(call', e, v)) \in Nat
        BY <2>4, FewerEarly, EarlyFinite
      <4> HIDE DEF F, E, D
      <4> QED BY <1>0, <2>3, <4>1, <4>2
    <3> QED BY <3>1, <3>2
  <2>6. ASSUME NEW x \in Endpoints, NEW y \in Events, x # e \/ y # v
        PROVE  Cardinality(FailedRows(delivery'[x][y])) + Cardinality(Early(call', x, y))
                 <= MaxDeliveryAttempts - 1 + (D - 1)
    <3>1. delivery'[x][y] = delivery[x][y] /\ delivery[x][y] \in Seq(DeliveryRows)
      BY <2>1, <2>6 DEF RelayTypeOK
    <3>2. Cardinality(Early(call', x, y)) <= Cardinality(Early(call, x, y))
      BY <2>4, FewerEarly
    <3>3. /\ Cardinality(Early(call', x, y)) \in Nat /\ Cardinality(Early(call, x, y)) \in Nat
          /\ Cardinality(FailedRows(delivery[x][y])) \in Nat
          /\ Cardinality(FailedRows(delivery[x][y])) + Cardinality(Early(call, x, y))
               <= MaxDeliveryAttempts - 1 + (D - 1)
      BY <3>1, EarlyFinite, FailedFinite, SMTT(30) DEF CapStands
    <3> HIDE DEF D
    <3> QED BY <1>0, <3>1, <3>2, <3>3, SMTT(30)
  <2>7. ASSUME NEW x \in Endpoints, NEW y \in Events
        PROVE  Cardinality(FailedRows(delivery'[x][y])) + Cardinality(Early(call', x, y))
                 <= MaxDeliveryAttempts - 1 + (D - 1)
    <3>1. CASE x = e /\ y = v
      BY <2>1, <2>5, <3>1
    <3>2. CASE x # e \/ y # v
      BY <2>6, <3>2
    <3> QED BY <3>1, <3>2
  <2> QED BY <2>7 DEF CapStands
<1>4. ASSUME NEW x \in Endpoints, Govern(x) PROVE UNCHANGED <<delivery, call>>
  BY <1>4 DEF Govern, RegisterEndpoint, SuspendEndpoint, RequestReview, ApproveEndpoint,
              RejectReview, Decide, AddSubscription, dispatch
<1>5. ASSUME NEW d \in Dispatchers, Deliver(d) PROVE Record(d) \/ UNCHANGED delivery
  BY <1>5 DEF Deliver, BeginDeliver, BeginReplay, NextSubscription, EndDeliver, Post, Die
<1>6. CASE UNCHANGED vars
  BY <1>1, <1>6 DEF vars
<1> QED BY <1>1, <1>2, <1>3, <1>4, <1>5, <1>6 DEF Next

-----------------------------------------------------------------------------
(* The theorems                                                            *)

RelayInv == RelayTypeOK /\ ReviewsStand /\ RowsStand /\ CapStands

\* The first state is in order.
LEMMA InitInv == Init => RelayInv
<1> SUFFICES ASSUME Init PROVE RelayInv
  OBVIOUS
<1>1. RelayTypeOK
  BY InitTyped
<1>2. \A d \in Dispatchers : call[d].phase = "idle"
  BY DEF Init, Idle
<1>3. ReviewsStand
  BY <1>2 DEF Init, ReviewsStand, Begun
<1>4. \A e \in Endpoints, v \in Events : delivery[e][v] = << >>
  BY DEF Init
<1>5. RowsStand
  BY <1>2, <1>4 DEF RowsStand, SoundRows, Begun
<1>6. ASSUME NEW e \in Endpoints, NEW v \in Events
      PROVE  Cardinality(FailedRows(delivery[e][v])) + Cardinality(Early(call, e, v))
               <= MaxDeliveryAttempts - 1 + (Cardinality(Dispatchers) - 1)
  <2>1. FailedRows(delivery[e][v]) = {} /\ Early(call, e, v) = {}
    BY <1>2, <1>4 DEF FailedRows, Early
  <2>2. Cardinality({}) = 0
    BY FS_EmptySet
  <2> QED BY <2>1, <2>2, EarlyFinite, RelayAssumption DEF RelayAssumption
<1> QED BY <1>1, <1>3, <1>5, <1>6 DEF RelayInv, CapStands

\* The invariant of the module: what a dispatcher read before the call it
\* makes between two transactions, and what of it is still true after.
THEOREM RelayInvariance == Spec => []RelayInv
<1>1. RelayInv /\ [Next]_vars => RelayInv'
  BY StepTyped, StepReviewed, StepRecorded, StepCapped DEF RelayInv
<1> QED BY <1>1, InitInv, PTL DEF Spec

\* The endpoints, reviews, rows and calls keep their types (repository.ts).
THEOREM RelayTypeCorrect == Spec => []RelayTypeOK
BY RelayInvariance, PTL DEF RelayInv

\* No call leaves for an endpoint two people have not stood for, suspended
\* meanwhile or not: approveEndpoint and deliverEvent.
THEOREM NoEgressUnapproved == Spec => []EgressWasApproved
<1>1. RelayInv => EgressWasApproved
  BY DEF RelayInv, ReviewsStand, Approved, EgressWasApproved
<1> QED BY <1>1, RelayInvariance, PTL

\* One delivery at most is on record, and dead_letter marks the last attempt
\* its dispatcher counted: the three transactions of deliverEvent.
THEOREM RecordStaysSound == Spec => []RecordIsSound
<1>1. RelayInv => RecordIsSound
  <2> SUFFICES ASSUME RelayInv, NEW e \in Endpoints, NEW v \in Events
               PROVE  /\ Cardinality(Rows(e, v, {"delivered"})) <= 1
                      /\ \A i \in DOMAIN delivery[e][v] :
                           LET row == delivery[e][v][i] IN
                           /\ row.attempt \in 1..i
                           /\ row.status # "delivered" =>
                                (row.status = "dead_letter" <=> row.attempt >= MaxDeliveryAttempts)
    BY DEF RecordIsSound
  <2> DEFINE q == delivery[e][v]
  <2>1. q \in Seq(DeliveryRows) /\ SoundRows(q)
    BY DEF RelayInv, RelayTypeOK, RowsStand
  <2>2. \A i \in DOMAIN q : i \in 1..Len(q) /\ i \in Nat /\ q[i].attempt \in Nat \ {0}
    <3>1. \A i \in DOMAIN q : i \in 1..Len(q) /\ i \in Nat /\ q[i] \in DeliveryRows
      BY <2>1
    <3> QED BY <3>1 DEF DeliveryRows
  <2>3. Cardinality(Rows(e, v, {"delivered"})) <= 1
    <3>1. \A i, j \in Rows(e, v, {"delivered"}) : i = j
      BY <2>1, <2>2 DEF Rows, SoundRows
    <3>2. CASE Rows(e, v, {"delivered"}) = {}
      BY <3>2, FS_EmptySet
    <3>3. CASE Rows(e, v, {"delivered"}) # {}
      <4>1. PICK i : i \in Rows(e, v, {"delivered"})
        BY <3>3
      <4>2. Rows(e, v, {"delivered"}) = {i}
        BY <3>1, <4>1
      <4> QED BY <4>2, FS_Singleton
    <3> QED BY <3>2, <3>3
  <2> QED BY <2>1, <2>2, <2>3 DEF SoundRows
<1> QED BY <1>1, RelayInvariance, PTL

\* The cap of attempts is overshot by one per racing dispatcher and no more:
\* countDeliveryAttempts is read before the call and recorded after it.
THEOREM CapBoundsFailures == Spec => []CapIsReachedSoon
<1>1. RelayInv => CapIsReachedSoon
  <2> SUFFICES ASSUME RelayInv, NEW e \in Endpoints, NEW v \in Events
               PROVE  Cardinality(Rows(e, v, {"failed", "blocked"}))
                        <= MaxDeliveryAttempts - 1 + (Cardinality(Dispatchers) - 1)
    BY DEF CapIsReachedSoon
  <2>1. delivery[e][v] \in Seq(DeliveryRows)
    BY DEF RelayInv, RelayTypeOK
  <2>2. Rows(e, v, {"failed", "blocked"}) = FailedRows(delivery[e][v])
    BY <2>1 DEF Rows, FailedRows
  <2>3. /\ Cardinality(FailedRows(delivery[e][v])) \in Nat
        /\ Cardinality(Early(call, e, v)) \in Nat
    BY <2>1, FailedFinite, EarlyFinite
  <2>4. Cardinality(FailedRows(delivery[e][v])) + Cardinality(Early(call, e, v))
          <= MaxDeliveryAttempts - 1 + (Cardinality(Dispatchers) - 1)
    BY DEF RelayInv, CapStands
  <2> QED BY <2>2, <2>3, <2>4, EarlyFinite, RelayAssumption DEF RelayAssumption
<1> QED BY <1>1, RelayInvariance, PTL
===============================================================================
