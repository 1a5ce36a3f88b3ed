-------------------------- MODULE NotificationsProofs --------------------------
(* Theorems about Notifications, for every number of requests, workers and   *)
(* recipients and every retry policy, and for ladders of any length.  The    *)
(* argument is the lock: between its claim and its commit the row of a       *)
(* dispatch is as the worker claimed it, so that what was called and what is *)
(* recorded differ only by the dispatches that were lost.                    *)
EXTENDS Notifications, FiniteSetTheorems, SequenceTheorems, TLAPS

\* A worker holds a row that may be claimed, and nobody else holds it.
RowsHeld ==
  /\ \A w \in Workers : worker[w] # Idle => request[worker[w].request].status \in Claimable
  /\ \A w, x \in Workers :
       (/\ worker[w] # Idle /\ worker[x] # Idle
        /\ worker[w].request = worker[x].request) => w = x

-----------------------------------------------------------------------------
(* Typing                                                                  *)

\* The first state is typed.
LEMMA RequestInitTyped == RequestInit => RequestTypeOK
<1> SUFFICES ASSUME RequestInit PROVE RequestTypeOK
  OBVIOUS
<1>1. (CHOOSE d \in Destinations : TRUE) \in Destinations
  BY NotifyAssumption DEF NotifyAssumption
<1>2. NoRequest \in RequestRows
  BY <1>1 DEF NoRequest, RequestRows, Kept, Statuses, Categories
<1> QED BY <1>2 DEF RequestInit, RequestTypeOK, WorkerCalls

\* What a worker may be doing.
LEMMA WorkerCases ==
  ASSUME NEW x \in WorkerCalls
  PROVE  \/ x = Idle /\ x.phase = "idle"
         \/ x.phase = "claimed" /\ x.request \in Requests
         \/ x.phase = "answered" /\ x.request \in Requests /\ x.answer \in Answers
<1>1. CASE x = Idle
  BY <1>1 DEF Idle
<1>2. CASE x \in [phase : {"claimed"}, request : Requests]
  BY <1>2
<1>3. CASE x \in [phase : {"answered"}, request : Requests, answer : Answers]
  BY <1>3
<1> QED BY <1>1, <1>2, <1>3 DEF WorkerCalls

\* A busy worker holds a request there is, and an answer once it has one.
LEMMA HolderTyped ==
  ASSUME RequestTypeOK, NEW w \in Workers
  PROVE  /\ worker[w] # Idle => worker[w].request \in Requests /\ worker[w].phase # "idle"
         /\ worker[w].phase \in {"claimed", "answered"} => worker[w] # Idle
         /\ worker[w].phase = "answered" => worker[w].answer \in Answers
         /\ worker[w] = Idle => worker[w].phase = "idle"
<1>1. worker[w] \in WorkerCalls
  BY DEF RequestTypeOK
<1> QED BY <1>1, WorkerCases DEF Idle

\* The fields that the operations set.
LEMMA StatusSet ==
  ASSUME NEW x \in RequestRows, NEW s \in Kept
  PROVE  LET y == [x EXCEPT !.status = s] IN
         /\ y \in RequestRows /\ y.status = s /\ y.attempts = x.attempts
BY DEF RequestRows

\* Setting the attempts leaves the status.
LEMMA AttemptsSet ==
  ASSUME NEW x \in RequestRows, NEW n \in Nat
  PROVE  LET y == [x EXCEPT !.attempts = n] IN
         /\ y \in RequestRows /\ y.status = x.status /\ y.attempts = n
BY DEF RequestRows

\* Setting the time leaves status and attempts.
LEMMA DueSet ==
  ASSUME NEW x \in RequestRows, NEW b \in BOOLEAN
  PROVE  LET y == [x EXCEPT !.due = b] IN
         /\ y \in RequestRows /\ y.status = x.status /\ y.attempts = x.attempts
BY DEF RequestRows

\* Losing the recipient leaves status and attempts.
LEMMA LiveSet ==
  ASSUME NEW x \in RequestRows
  PROVE  LET y == [x EXCEPT !.live = FALSE] IN
         /\ y \in RequestRows /\ y.status = x.status /\ y.attempts = x.attempts
BY DEF RequestRows

-----------------------------------------------------------------------------
(* What a step does to a row                                               *)

\* A caller or the clock acts on one row, and on nothing a worker has open.
LEMMA OfficeRow ==
  ASSUME RequestTypeOK, NEW r \in Requests, Office(r) \/ Clock(r)
  PROVE  /\ UNCHANGED <<deliveries, inbox, worker, preferences, calls, faults>>
         /\ \A q \in Requests \ {r} : request'[q] = request[q] /\ retries'[q] = retries[q]
         /\ request' \in [Requests -> RequestRows] /\ retries' \in [Requests -> Nat]
         /\ \/ /\ request[r].status = "none" /\ request'[r].status \in {"queued", "suppressed"}
               /\ request'[r].attempts = 0 /\ retries'[r] = retries[r]
            \/ /\ request[r].status \notin Terminal \cup {"none"} /\ ~Locked(r)
               /\ request'[r].status = "cancelled"
               /\ request'[r].attempts = request[r].attempts /\ retries'[r] = retries[r]
            \/ /\ request[r].status \in {"exhausted", "retry_scheduled"} /\ ~Locked(r)
               /\ request'[r].status = "queued"
               /\ request'[r].attempts = request[r].attempts /\ retries'[r] = retries[r] + 1
            \/ /\ request'[r].status = request[r].status
               /\ request'[r].attempts = request[r].attempts /\ retries'[r] = retries[r]
<1>0. request[r] \in RequestRows /\ request[r].status \in Kept /\ retries[r] \in Nat
  BY DEF RequestTypeOK, RequestRows
<1>1. ASSUME NEW category \in Categories, NEW to \in Destinations, NEW now \in BOOLEAN,
             Create(r, category, to, now)
      PROVE  /\ UNCHANGED <<deliveries, inbox, worker, preferences, calls, faults, retries>>
             /\ \A q \in Requests \ {r} : request'[q] = request[q]
             /\ request' \in [Requests -> RequestRows]
             /\ request[r].status = "none" /\ request'[r].status \in {"queued", "suppressed"}
             /\ request'[r].attempts = 0
  <2> DEFINE y == [status |-> IF Silenced(category, to) THEN "suppressed" ELSE "queued",
                   category |-> category, to |-> to, attempts |-> 0,
                   due |-> Silenced(category, to) \/ now, live |-> TRUE]
  <2>1. Silenced(category, to) \in BOOLEAN
    BY DEF Silenced
  <2>2. y \in RequestRows /\ y.status \in {"queued", "suppressed"} /\ y.attempts = 0
    BY <2>1 DEF RequestRows, Kept, Statuses
  <2>3. request' = [request EXCEPT ![r] = y]
    BY <1>1 DEF Create
  <2> HIDE DEF y
  <2> QED BY <1>1, <2>2, <2>3, ZenonT(60) DEF Create, RequestTypeOK
<1>2. CASE CancelRequest(r)
  <2>1. request' = [request EXCEPT ![r] = [request[r] EXCEPT !.status = "cancelled"]]
    BY <1>2 DEF CancelRequest
  <2>2. "cancelled" \in Kept
    BY DEF Kept, Statuses
  <2> QED BY <1>0, <1>2, <2>1, <2>2, StatusSet DEF CancelRequest, MayCancel, RequestTypeOK
<1>3. CASE RetryNow(r)
  <2> DEFINE y == [request[r] EXCEPT !.status = "queued"]
             z == [y EXCEPT !.due = TRUE]
  <2>1. "queued" \in Kept
    BY DEF Kept, Statuses
  <2>2. y \in RequestRows /\ y.status = "queued" /\ y.attempts = request[r].attempts
    BY <1>0, <2>1, StatusSet
  <2> HIDE DEF y
  <2>3. z \in RequestRows /\ z.status = "queued" /\ z.attempts = request[r].attempts
    BY <2>2, DueSet
  <2> HIDE DEF z
  <2>4. request' = [request EXCEPT ![r] = z] /\ retries' = [retries EXCEPT ![r] = retries[r] + 1]
    BY <1>3 DEF RetryNow, y, z
  <2>5. request[r].status \in {"exhausted", "retry_scheduled"}
    BY <1>0, <1>3 DEF RetryNow, Kept
  <2>6. /\ request' \in [Requests -> RequestRows] /\ request'[r] = z
        /\ \A q \in Requests \ {r} : request'[q] = request[q]
    BY <2>3, <2>4 DEF RequestTypeOK
  <2>7. /\ retries' \in [Requests -> Nat] /\ retries'[r] = retries[r] + 1
        /\ \A q \in Requests \ {r} : retries'[q] = retries[q]
    BY <1>0, <2>4 DEF RequestTypeOK
  <2> QED BY <1>3, <2>3, <2>5, <2>6, <2>7 DEF RetryNow
<1>4. CASE Due(r)
  <2>1. request' = [request EXCEPT ![r] = [request[r] EXCEPT !.due = TRUE]]
    BY <1>4 DEF Due
  <2> QED BY <1>0, <1>4, <2>1, DueSet DEF Due, RequestTypeOK
<1>5. CASE Expire(r)
  <2>1. request' = [request EXCEPT ![r] = [request[r] EXCEPT !.live = FALSE]]
    BY <1>5 DEF Expire
  <2> QED BY <1>0, <1>5, <2>1, LiveSet DEF Expire, RequestTypeOK
<1>6. ASSUME retries' = retries PROVE retries' \in [Requests -> Nat]
  BY <1>6 DEF RequestTypeOK
<1> QED BY <1>1, <1>2, <1>3, <1>4, <1>5, <1>6 DEF Office, Clock

\* A worker commits: the row, its evidence and the inbox, together.
Recorded(w, r, answer) ==
  LET n == request[r].attempts + 1 IN
  /\ worker[w].phase = "answered" /\ r = worker[w].request /\ answer = worker[w].answer
  /\ request' \in [Requests -> RequestRows]
  /\ request'[r].status = Outcome(answer, n) /\ request'[r].attempts = n
  /\ \A q \in Requests \ {r} : request'[q] = request[q] /\ deliveries'[q] = deliveries[q]
  /\ deliveries'[r] = Append(deliveries[r], [attempt |-> n, answer |-> answer])
  /\ deliveries' \in [Requests -> Seq(DeliveryRows)]
  /\ inbox' = IF Outcome(answer, n) = "delivered" /\ r \in InApp
              THEN Append(inbox, r) ELSE inbox
  /\ worker' = [worker EXCEPT ![w] = Idle]
  /\ UNCHANGED <<preferences, calls, retries, faults>>

\* A recorded answer is recorded for the request that was sent.
LEMMA RecordRow ==
  ASSUME RequestTypeOK, NEW w \in Workers, Record(w)
  PROVE  \E r \in Requests, answer \in Answers : Recorded(w, r, answer)
<1> DEFINE r == worker[w].request
           answer == worker[w].answer
           n == request[r].attempts + 1
           s == Outcome(answer, n)
           row == [attempt |-> n, answer |-> answer]
           x == [request[r] EXCEPT !.status = s]
           y == [x EXCEPT !.attempts = n]
           z == [y EXCEPT !.due = s # "retry_scheduled"]
<1>1. worker[w].phase = "answered" /\ r \in Requests /\ answer \in Answers
  BY HolderTyped DEF Record
<1>2. request[r] \in RequestRows /\ n \in Nat \ {0}
  BY <1>1 DEF RequestTypeOK, RequestRows
<1>3. s \in Kept
  BY DEF Outcome, Kept, Statuses
<1>4. row \in DeliveryRows
  BY <1>1, <1>2 DEF DeliveryRows
<1>5. deliveries[r] \o Evidence(r, answer, n) = Append(deliveries[r], row)
      /\ Append(deliveries[r], row) \in Seq(DeliveryRows)
  <2>1. deliveries[r] \in Seq(DeliveryRows)
    BY <1>1 DEF RequestTypeOK
  <2> HIDE DEF row
  <2>2. deliveries[r] \o <<row>> = Append(deliveries[r], row)
    BY <1>4, <2>1, AppendIsConcat, SMTT(30)
  <2> QED BY <1>4, <2>1, <2>2, AppendProperties DEF Evidence, row
<1>6. request' = [request EXCEPT ![r] = z]
  BY ZenonT(60) DEF Record
<1>7. deliveries' = [deliveries EXCEPT ![r] = Append(deliveries[r], row)]
  BY <1>5, ZenonT(60) DEF Record
<1>8. /\ inbox' = IF s = "delivered" /\ r \in InApp THEN Append(inbox, r) ELSE inbox
      /\ worker' = [worker EXCEPT ![w] = Idle]
      /\ UNCHANGED <<preferences, calls, retries, faults>>
  BY DEF Record
<1>9. z \in RequestRows /\ z.status = s /\ z.attempts = n
  <2> HIDE DEF s, n
  <2>1. x \in RequestRows /\ x.status = s
    BY <1>2, <1>3, StatusSet
  <2> HIDE DEF x
  <2>2. y \in RequestRows /\ y.status = s /\ y.attempts = n
    BY <1>2, <2>1, AttemptsSet
  <2> HIDE DEF y
  <2> QED BY <2>2, DueSet
<1> HIDE DEF z
<1>10. /\ request' \in [Requests -> RequestRows]
       /\ request'[r].status = s /\ request'[r].attempts = n
       /\ \A q \in Requests \ {r} : request'[q] = request[q] /\ deliveries'[q] = deliveries[q]
       /\ deliveries'[r] = Append(deliveries[r], row)
       /\ deliveries' \in [Requests -> Seq(DeliveryRows)]
  BY <1>1, <1>5, <1>6, <1>7, <1>9 DEF RequestTypeOK
<1> QED
  <2> r \in Requests /\ answer \in Answers
    BY <1>1
  <2> WITNESS r \in Requests, answer \in Answers
  <2> QED BY <1>1, <1>8, <1>10 DEF Recorded

\* The steps that change no row: the preferences and the open calls.
LEMMA OtherStep ==
  ASSUME RequestTypeOK, [RequestNext]_requestVars
  PROVE  \/ \E r \in Requests : Office(r) \/ Clock(r)
         \/ \E w \in Workers : Record(w)
         \/ /\ UNCHANGED <<request, deliveries, inbox, retries>>
            /\ \/ UNCHANGED <<worker, calls, faults>>
               \/ \E w \in Workers : (\E r \in Requests : Claim(w, r)) \/ Call(w)
                                       \/ DoWithout(w) \/ Lose(w)
BY DEF RequestNext, Settings, SetSuppression, SetPreference, Dispatch, Claim, Call, DoWithout,
       Lose, requestVars, calls

\* Every step keeps the rows typed.
LEMMA RequestStepTyped == RequestTypeOK /\ [RequestNext]_requestVars => RequestTypeOK'
<1> SUFFICES ASSUME RequestTypeOK, [RequestNext]_requestVars PROVE RequestTypeOK'
  OBVIOUS
<1>1. ASSUME NEW r \in Requests, Office(r) \/ Clock(r) PROVE RequestTypeOK'
  BY <1>1, OfficeRow DEF RequestTypeOK, preferences, calls
<1>2. ASSUME NEW w \in Workers, Record(w) PROVE RequestTypeOK'
  <2>1. PICK r \in Requests, answer \in Answers : Recorded(w, r, answer)
    BY <1>2, RecordRow
  <2> USE DEF Recorded
  <2>2. worker' \in [Workers -> WorkerCalls]
    BY <2>1 DEF RequestTypeOK, WorkerCalls
  <2>3. inbox' \in Seq(Requests)
    BY <2>1, AppendProperties DEF RequestTypeOK
  <2> QED BY <2>1, <2>2, <2>3 DEF RequestTypeOK, preferences, calls
<1>3. CASE Settings
  BY <1>3 DEF Settings, SetSuppression, SetPreference, RequestTypeOK, calls
<1>4. ASSUME NEW w \in Workers, NEW r \in Requests, Claim(w, r) PROVE RequestTypeOK'
  <2>1. worker' \in [Workers -> WorkerCalls]
    BY <1>4 DEF Claim, RequestTypeOK, WorkerCalls
  <2> QED BY <1>4, <2>1 DEF Claim, RequestTypeOK, preferences, calls
<1>5. ASSUME NEW w \in Workers, Call(w) PROVE RequestTypeOK'
  <2>1. PICK answer \in Answers :
          /\ Answered(w, answer)
          /\ landed' = IF answer = "succeeded"
                       THEN [landed EXCEPT ![worker[w].request] = @ + 1] ELSE landed
    BY <1>5 DEF Call
  <2>2. worker[w].request \in Requests
    BY <1>5, HolderTyped DEF Call
  <2>3. worker' \in [Workers -> WorkerCalls]
    BY <2>1, <2>2 DEF Answered, RequestTypeOK, WorkerCalls
  <2>4. landed' \in [Requests -> Nat] /\ sent' \in [Requests -> Nat]
    BY <1>5, <2>1, <2>2, SMTT(30) DEF Call, RequestTypeOK
  <2> QED BY <1>5, <2>3, <2>4 DEF Call, RequestTypeOK, preferences
<1>6. ASSUME NEW w \in Workers, DoWithout(w) PROVE RequestTypeOK'
  <2>1. PICK answer \in Answers : Answered(w, answer)
    BY <1>6 DEF DoWithout, Answers
  <2>2. worker[w].request \in Requests
    BY <1>6, HolderTyped DEF DoWithout
  <2>3. worker' \in [Workers -> WorkerCalls]
    BY <2>1, <2>2 DEF Answered, RequestTypeOK, WorkerCalls
  <2> QED BY <1>6, <2>3 DEF DoWithout, RequestTypeOK, preferences, calls
<1>7. ASSUME NEW w \in Workers, Lose(w) PROVE RequestTypeOK'
  <2>1. worker' \in [Workers -> WorkerCalls]
    BY <1>7 DEF Lose, RequestTypeOK, WorkerCalls
  <2> QED BY <1>7, <2>1 DEF Lose, RequestTypeOK, preferences, calls
<1>8. CASE UNCHANGED requestVars
  BY <1>8 DEF requestVars, preferences, calls, RequestTypeOK
<1> QED BY <1>1, <1>2, <1>3, <1>4, <1>5, <1>6, <1>7, <1>8 DEF RequestNext, Dispatch

-----------------------------------------------------------------------------
(* The lock                                                                *)

\* Every step keeps the rows that workers hold.
LEMMA StepHeld ==
  ASSUME RequestTypeOK, RowsHeld, [RequestNext]_requestVars
  PROVE  RowsHeld'
<1>1. ASSUME NEW r \in Requests, Office(r) \/ Clock(r) PROVE RowsHeld'
  <2>1. /\ worker' = worker /\ \A q \in Requests \ {r} : request'[q] = request[q]
        /\ \/ request'[r].status = request[r].status
           \/ ~Locked(r) \/ request[r].status = "none"
    BY <1>1, OfficeRow
  <2>2. ASSUME NEW w \in Workers, worker[w] # Idle
        PROVE  request'[worker[w].request].status \in Claimable
    <3>1. worker[w].request \in Requests /\ request[worker[w].request].status \in Claimable
      BY <2>2, HolderTyped DEF RowsHeld
    <3>2. CASE worker[w].request = r
      BY <2>1, <2>2, <3>1, <3>2 DEF Locked, Holds, Claimable
    <3> QED BY <2>1, <3>1, <3>2
  <2> QED BY <2>1, <2>2 DEF RowsHeld
<1>2. ASSUME NEW w \in Workers, Record(w) PROVE RowsHeld'
  <2>1. PICK r \in Requests, answer \in Answers : Recorded(w, r, answer)
    BY <1>2, RecordRow
  <2> USE DEF Recorded
  <2>2. \A x \in Workers : worker'[x] # Idle =>
          x # w /\ worker'[x] = worker[x] /\ worker[x].request # r
    BY <2>1, HolderTyped DEF RequestTypeOK, RowsHeld
  <2>3. \A x \in Workers : worker[x] # Idle => worker[x].request \in Requests
    BY HolderTyped
  <2>4. \A x \in Workers : worker'[x] # Idle => request'[worker'[x].request].status \in Claimable
    BY <2>1, <2>2, <2>3 DEF RowsHeld
  <2> QED BY <2>2, <2>4 DEF RowsHeld
<1>3. ASSUME NEW w \in Workers, NEW r \in Requests, Claim(w, r) PROVE RowsHeld'
  <2> DEFINE c == [phase |-> "claimed", request |-> r]
  <2>1. c.request = r
    OBVIOUS
  <2> HIDE DEF c
  <2>2. /\ worker'[w] = c /\ \A x \in Workers \ {w} : worker'[x] = worker[x]
        /\ request' = request /\ request[r].status \in Claimable
        /\ \A x \in Workers : worker[x] # Idle => worker[x].request # r
    BY <1>3 DEF Claim, MayClaim, Locked, Holds, RequestTypeOK, c
  <2> QED BY <2>1, <2>2 DEF RowsHeld
<1>4. ASSUME NEW w \in Workers, Call(w) \/ DoWithout(w) PROVE RowsHeld'
  <2>1. PICK answer : Answered(w, answer)
    BY <1>4 DEF Call, DoWithout
  <2> DEFINE c == [phase |-> "answered", request |-> worker[w].request, answer |-> answer]
  <2>2. c.request = worker[w].request
    OBVIOUS
  <2> HIDE DEF c
  <2>3. /\ worker'[w] = c /\ \A x \in Workers \ {w} : worker'[x] = worker[x]
        /\ request' = request
    BY <1>4, <2>1 DEF Call, DoWithout, Answered, RequestTypeOK, c
  <2>4. worker[w] # Idle
    BY <1>4, HolderTyped DEF Call, DoWithout
  <2> QED BY <2>2, <2>3, <2>4 DEF RowsHeld
<1>5. ASSUME NEW w \in Workers, Lose(w) PROVE RowsHeld'
  <2>1. /\ worker'[w] = Idle /\ \A x \in Workers \ {w} : worker'[x] = worker[x]
        /\ request' = request
    BY <1>5 DEF Lose, RequestTypeOK
  <2> QED BY <2>1 DEF RowsHeld
<1>6. CASE UNCHANGED <<request, worker>>
  BY <1>6 DEF RowsHeld
<1> QED BY <1>1, <1>2, <1>3, <1>4, <1>5, <1>6, OtherStep

-----------------------------------------------------------------------------
(* The evidence                                                            *)

\* The attempts of a request tell the story of its row x.
Told(q, x) ==
  /\ Len(q) = x.attempts
  /\ \A i \in 1..Len(q) :
       q[i].attempt = i /\ (q[i].answer = "succeeded" => i = Len(q))
  /\ x.status = "delivered" <=> Len(q) > 0 /\ q[Len(q)].answer = "succeeded"
  /\ x.status \in {"retry_scheduled", "exhausted"} => Len(q) > 0
  /\ x.status = "none" => Len(q) = 0

InboxOf(b, r) == {k \in 1..Len(b) : b[k] = r}

EvidenceStands ==
  \A r \in Requests :
    /\ Told(deliveries[r], request[r])
    /\ Cardinality(InboxOf(inbox, r)) =
         IF request[r].status = "delivered" /\ r \in InApp THEN 1 ELSE 0

\* The copies of a request in the inbox can be counted.
LEMMA InboxFinite ==
  ASSUME NEW b \in Seq(Requests), NEW r
  PROVE  IsFiniteSet(InboxOf(b, r)) /\ Cardinality(InboxOf(b, r)) \in Nat
<1>1. Len(b) \in Int /\ 1 \in Int
  OBVIOUS
<1>2. IsFiniteSet(1..Len(b))
  BY <1>1, FS_Interval
<1>3. InboxOf(b, r) \subseteq 1..Len(b)
  BY DEF InboxOf
<1> QED BY <1>2, <1>3, FS_Subset, FS_CardinalityType

\* One more copy is one more for its request and none for the others.
LEMMA InboxAppend ==
  ASSUME NEW b \in Seq(Requests), NEW r \in Requests, NEW q \in Requests
  PROVE  Cardinality(InboxOf(Append(b, r), q)) =
           Cardinality(InboxOf(b, q)) + (IF q = r THEN 1 ELSE 0)
<1>1. /\ Len(Append(b, r)) = Len(b) + 1 /\ Append(b, r)[Len(b) + 1] = r
      /\ \A i \in 1..Len(b) : Append(b, r)[i] = b[i]
  BY AppendProperties
<1>2. Len(b) \in Nat
  OBVIOUS
<1>3. ASSUME NEW i \in 1..Len(b) + 1
      PROVE  i \in InboxOf(Append(b, r), q) <=> i \in InboxOf(b, q) \/ (i = Len(b) + 1 /\ q = r)
  BY <1>1, <1>2 DEF InboxOf
<1>4. /\ InboxOf(Append(b, r), q) \subseteq 1..Len(b) + 1 /\ InboxOf(b, q) \subseteq 1..Len(b)
      /\ 1..Len(b) \subseteq 1..Len(b) + 1 /\ Len(b) + 1 \in 1..Len(b) + 1
      /\ Len(b) + 1 \notin InboxOf(b, q)
  BY <1>1, <1>2 DEF InboxOf
<1>5. CASE q = r
  <2>1. \A i \in 1..Len(b) + 1 :
          i \in InboxOf(Append(b, r), q) <=> i \in InboxOf(b, q) \cup {Len(b) + 1}
    BY <1>3, <1>5
  <2>2. InboxOf(Append(b, r), q) = InboxOf(b, q) \cup {Len(b) + 1}
    BY <1>4, <2>1
  <2>3. Cardinality(InboxOf(b, q) \cup {Len(b) + 1}) = Cardinality(InboxOf(b, q)) + 1
    BY <1>4, InboxFinite, FS_AddElement
  <2> QED BY <1>5, <2>2, <2>3
<1>6. CASE q # r
  <2>1. \A i \in 1..Len(b) + 1 : i \in InboxOf(Append(b, r), q) <=> i \in InboxOf(b, q)
    BY <1>3, <1>6
  <2>2. InboxOf(Append(b, r), q) = InboxOf(b, q)
    BY <1>4, <2>1
  <2> QED BY <1>6, <2>2, InboxFinite
<1> QED BY <1>5, <1>6

\* Every step keeps the evidence and the status together.
LEMMA StepTold ==
  ASSUME RequestTypeOK, RowsHeld, EvidenceStands, [RequestNext]_requestVars
  PROVE  EvidenceStands'
<1>1. ASSUME NEW r \in Requests, Office(r) \/ Clock(r) PROVE EvidenceStands'
  <2>1. /\ deliveries' = deliveries /\ inbox' = inbox
        /\ \A q \in Requests \ {r} : request'[q] = request[q]
        /\ \/ /\ request[r].status = "none" /\ request'[r].status \in {"queued", "suppressed"}
              /\ request'[r].attempts = 0
           \/ /\ request[r].status \notin Terminal \cup {"none"}
              /\ request'[r].status = "cancelled" /\ request'[r].attempts = request[r].attempts
           \/ /\ request[r].status \in {"exhausted", "retry_scheduled"}
              /\ request'[r].status = "queued" /\ request'[r].attempts = request[r].attempts
           \/ /\ request'[r].status = request[r].status
              /\ request'[r].attempts = request[r].attempts
    BY <1>1, OfficeRow
  <2>2. request'[r].status # "delivered" \/ request'[r].status = request[r].status
    BY <2>1
  <2>3. request[r].status # "delivered" \/ request'[r].status = request[r].status
    BY <2>1 DEF Terminal
  <2>4. Told(deliveries[r], request'[r])
    BY <2>1, <2>2, <2>3 DEF Told, EvidenceStands
  <2> QED BY <2>1, <2>2, <2>3, <2>4 DEF EvidenceStands
<1>2. ASSUME NEW w \in Workers, Record(w) PROVE EvidenceStands'
  <2>1. PICK r \in Requests, answer \in Answers : Recorded(w, r, answer)
    BY <1>2, RecordRow
  <2> USE DEF Recorded
  <2> DEFINE n == request[r].attempts + 1
             row == [attempt |-> n, answer |-> answer]
             d == deliveries[r]
  <2>2. request[r].status \in Claimable
    BY <2>1, HolderTyped DEF RowsHeld
  <2>3. /\ d \in Seq(DeliveryRows) /\ n \in Nat \ {0} /\ row \in DeliveryRows
        /\ row.attempt = n /\ row.answer = answer /\ inbox \in Seq(Requests)
    <3>1. request[r] \in RequestRows /\ d \in Seq(DeliveryRows) /\ inbox \in Seq(Requests)
      BY DEF RequestTypeOK
    <3>2. n \in Nat \ {0}
      BY <3>1 DEF RequestRows
    <3>3. row.attempt = n /\ row.answer = answer
      OBVIOUS
    <3>4. row \in DeliveryRows
      BY <3>2 DEF DeliveryRows
    <3> QED BY <3>1, <3>2, <3>3, <3>4
  <2>4. /\ Len(d) = n - 1 /\ Len(d) \in Nat
        /\ \A i \in 1..Len(d) : d[i].attempt = i /\ d[i].answer # "succeeded"
    BY <2>2, <2>3, SMTT(30) DEF EvidenceStands, Told, Claimable
  <2>5. Outcome(answer, n) = "delivered" <=> answer = "succeeded"
    BY DEF Outcome
  <2>6. Outcome(answer, n) # "none"
    BY DEF Outcome
  <2> HIDE DEF row, d
  <2>7. /\ Len(Append(d, row)) = n /\ Append(d, row)[n] = row
        /\ \A i \in 1..n - 1 : Append(d, row)[i] = d[i]
    BY <2>3, <2>4, AppendProperties
  <2>8. Told(Append(d, row), request'[r])
    <3>1. \A i \in 1..n : i \in 1..n - 1 \/ i = n
      BY <2>3
    <3>2. request'[r].status = Outcome(answer, n) /\ request'[r].attempts = n
      BY <2>1
    <3> HIDE DEF n
    <3> QED BY <2>3, <2>4, <2>5, <2>6, <2>7, <3>1, <3>2 DEF Told
  <2>9. \A q \in Requests : Told(deliveries'[q], request'[q])
    <3>1. deliveries'[r] = Append(d, row)
      BY <2>1 DEF d, row
    <3> QED BY <2>1, <2>8, <3>1 DEF EvidenceStands
  <2>10. request[r].status # "delivered"
    BY <2>2 DEF Claimable
  <2>11. ASSUME NEW q \in Requests
         PROVE  Cardinality(InboxOf(inbox', q)) =
                  IF request'[q].status = "delivered" /\ q \in InApp THEN 1 ELSE 0
    <3>1. Cardinality(InboxOf(inbox, q)) =
            IF request[q].status = "delivered" /\ q \in InApp THEN 1 ELSE 0
      BY DEF EvidenceStands
    <3>2. CASE Outcome(answer, n) = "delivered" /\ r \in InApp
      <4>1. Cardinality(InboxOf(inbox', q)) =
              Cardinality(InboxOf(inbox, q)) + (IF q = r THEN 1 ELSE 0)
        BY <2>1, <2>3, <3>2, InboxAppend
      <4> QED BY <2>1, <2>10, <3>1, <3>2, <4>1
    <3>3. CASE ~(Outcome(answer, n) = "delivered" /\ r \in InApp)
      BY <2>1, <2>10, <3>1, <3>3
    <3> QED BY <3>2, <3>3
  <2> QED BY <2>9, <2>11 DEF EvidenceStands
<1>3. CASE UNCHANGED <<request, deliveries, inbox>>
  BY <1>3 DEF EvidenceStands
<1> QED BY <1>1, <1>2, <1>3, OtherStep

-----------------------------------------------------------------------------
(* The calls                                                               *)

AnswerOpen(r) == \E w \in Workers : worker[w].phase = "answered" /\ worker[w].request = r
SuccessOpen(r) ==
  \E w \in Workers : /\ worker[w].phase = "answered" /\ worker[w].request = r
                     /\ worker[w].answer = "succeeded"

\* Every call is an attempt on record, or the one that is open, or was lost.
SendsStand ==
  \A r \in Requests :
    /\ landed[r] <= (IF request[r].status = "delivered" THEN 1 ELSE 0)
                      + (IF SuccessOpen(r) THEN 1 ELSE 0) + faults
    /\ sent[r] <= request[r].attempts + (IF AnswerOpen(r) THEN 1 ELSE 0) + faults
    /\ request[r].attempts <= MaxAttempts + retries[r]
    /\ request[r].status \in Claimable \cup {"none"} =>
         request[r].attempts < MaxAttempts + retries[r]

\* Who holds a row is the one who has an answer for it.
LEMMA OpenIsHolders ==
  ASSUME RequestTypeOK, RowsHeld, NEW w \in Workers, worker[w] # Idle,
         NEW r, r = worker[w].request
  PROVE  /\ AnswerOpen(r) <=> worker[w].phase = "answered"
         /\ SuccessOpen(r) <=> worker[w].phase = "answered" /\ worker[w].answer = "succeeded"
BY HolderTyped DEF AnswerOpen, SuccessOpen, RowsHeld

\* What a worker has open says nothing of the rows of the others.
LEMMA OpenElsewhere ==
  ASSUME NEW w \in Workers, \A x \in Workers \ {w} : worker'[x] = worker[x], NEW q,
         worker[w].phase = "answered" => worker[w].request # q,
         worker'[w].phase = "answered" => worker'[w].request # q
  PROVE  /\ AnswerOpen(q)' <=> AnswerOpen(q)
         /\ SuccessOpen(q)' <=> SuccessOpen(q)
BY DEF AnswerOpen, SuccessOpen

\* Every step keeps the sends within what the attempts and the faults allow.
LEMMA StepSent ==
  ASSUME RequestTypeOK, RowsHeld, EvidenceStands, SendsStand, [RequestNext]_requestVars
  PROVE  SendsStand'
<1> DEFINE One(b) == IF b THEN 1 ELSE 0
           Bound(l, s, x, ret, a, won, f) ==
             /\ l <= One(x.status = "delivered") + One(won) + f
             /\ s <= x.attempts + One(a) + f
             /\ x.attempts <= MaxAttempts + ret
             /\ x.status \in Claimable \cup {"none"} => x.attempts < MaxAttempts + ret
<1>0. MaxAttempts \in Nat \ {0} /\ faults \in Nat
  BY NotifyAssumption DEF NotifyAssumption, RequestTypeOK
<1>1. \A q \in Requests :
        /\ Bound(landed[q], sent[q], request[q], retries[q], AnswerOpen(q), SuccessOpen(q), faults)
        /\ landed[q] \in Nat /\ sent[q] \in Nat /\ retries[q] \in Nat
        /\ request[q].attempts \in Nat /\ request[q].status \in Kept
  BY DEF SendsStand, RequestTypeOK, RequestRows
<1>2. SUFFICES ASSUME NEW q \in Requests
               PROVE  Bound(landed'[q], sent'[q], request'[q], retries'[q],
                            AnswerOpen(q)', SuccessOpen(q)', faults')
  BY <1>2 DEF SendsStand
<1>3. ASSUME NEW r \in Requests, Office(r) \/ Clock(r)
      PROVE  Bound(landed'[q], sent'[q], request'[q], retries'[q],
                   AnswerOpen(q)', SuccessOpen(q)', faults')
  <2>1. /\ landed' = landed /\ sent' = sent /\ faults' = faults /\ worker' = worker
        /\ \A x \in Requests \ {r} : request'[x] = request[x] /\ retries'[x] = retries[x]
        /\ \/ /\ request[r].status = "none" /\ request'[r].status \in {"queued", "suppressed"}
              /\ request'[r].attempts = 0 /\ retries'[r] = retries[r]
           \/ /\ request[r].status \notin Terminal \cup {"none"}
              /\ request'[r].status = "cancelled"
              /\ request'[r].attempts = request[r].attempts /\ retries'[r] = retries[r]
           \/ /\ request[r].status \in {"exhausted", "retry_scheduled"}
              /\ request'[r].status = "queued"
              /\ request'[r].attempts = request[r].attempts /\ retries'[r] = retries[r] + 1
           \/ /\ request'[r].status = request[r].status
              /\ request'[r].attempts = request[r].attempts /\ retries'[r] = retries[r]
    BY <1>3, OfficeRow DEF calls
  <2>2. AnswerOpen(q)' = AnswerOpen(q) /\ SuccessOpen(q)' = SuccessOpen(q)
    BY <2>1 DEF AnswerOpen, SuccessOpen
  <2>3. request[r].status = "none" => request[r].attempts = 0
    BY DEF EvidenceStands, Told
  <2> QED BY <1>0, <1>1, <2>1, <2>2, <2>3 DEF Terminal, Claimable
<1>4. ASSUME NEW w \in Workers, Record(w)
      PROVE  Bound(landed'[q], sent'[q], request'[q], retries'[q],
                   AnswerOpen(q)', SuccessOpen(q)', faults')
  <2>1. PICK r \in Requests, answer \in Answers : Recorded(w, r, answer)
    BY <1>4, RecordRow
  <2> USE DEF Recorded
  <2>2. /\ \A x \in Workers \ {w} : worker'[x] = worker[x]
        /\ worker'[w] = Idle /\ worker'[w].phase = "idle"
    BY <2>1 DEF RequestTypeOK, Idle
  <2>3. CASE q # r
    <3>1. AnswerOpen(q)' = AnswerOpen(q) /\ SuccessOpen(q)' = SuccessOpen(q)
      BY <2>1, <2>2, <2>3, OpenElsewhere DEF AnswerOpen, SuccessOpen
    <3> QED BY <1>1, <2>1, <2>3, <3>1 DEF calls
  <2>4. CASE q = r
    <3>1. worker[w] # Idle /\ request[q].status \in Claimable
      BY <2>1, <2>4, HolderTyped DEF RowsHeld
    <3>2. AnswerOpen(q) /\ (SuccessOpen(q) <=> answer = "succeeded")
      BY <2>1, <2>4, <3>1, OpenIsHolders
    <3>3. /\ Outcome(answer, request[r].attempts + 1) = "delivered" <=> answer = "succeeded"
          /\ Outcome(answer, request[r].attempts + 1) \in Claimable \cup {"none"} =>
               request[r].attempts + 1 < MaxAttempts
      BY DEF Outcome, Claimable
    <3>4. request[q].status # "delivered" /\ request[q].attempts < MaxAttempts + retries[q]
      BY <1>1, <3>1 DEF Claimable
    <3>5. landed'[q] = landed[q] /\ sent'[q] = sent[q] /\ retries'[q] = retries[q] /\ faults' = faults
      BY <2>1 DEF calls
    <3>6. /\ landed[q] <= One(SuccessOpen(q)) + faults
          /\ sent[q] <= request[q].attempts + 1 + faults
      BY <1>0, <1>1, <3>2, <3>4
    <3>7. /\ request'[q].status = Outcome(answer, request[q].attempts + 1)
          /\ request'[q].attempts = request[q].attempts + 1
      BY <2>1, <2>4
    <3>8. /\ One(request'[q].status = "delivered") = One(SuccessOpen(q))
          /\ request'[q].status \in Claimable \cup {"none"} =>
               request[q].attempts + 1 < MaxAttempts
      BY <2>4, <3>2, <3>3, <3>7
    <3> QED BY <1>0, <1>1, <3>4, <3>5, <3>6, <3>7, <3>8
  <2> QED BY <2>3, <2>4
<1>5. ASSUME UNCHANGED <<request, retries, worker, calls, faults>>
      PROVE  Bound(landed'[q], sent'[q], request'[q], retries'[q],
                   AnswerOpen(q)', SuccessOpen(q)', faults')
  BY <1>1, <1>5 DEF AnswerOpen, SuccessOpen, calls
<1>6. ASSUME NEW w \in Workers, NEW r \in Requests, Claim(w, r), UNCHANGED <<request, retries>>
      PROVE  Bound(landed'[q], sent'[q], request'[q], retries'[q],
                   AnswerOpen(q)', SuccessOpen(q)', faults')
  <2>1. /\ \A x \in Workers \ {w} : worker'[x] = worker[x]
        /\ worker'[w].phase = "claimed" /\ worker[w].phase = "idle"
    BY <1>6 DEF Claim, RequestTypeOK, Idle
  <2>2. AnswerOpen(q)' = AnswerOpen(q) /\ SuccessOpen(q)' = SuccessOpen(q)
    BY <2>1, OpenElsewhere DEF AnswerOpen, SuccessOpen
  <2> QED BY <1>1, <1>6, <2>2 DEF Claim, calls
<1>7. ASSUME NEW w \in Workers, Call(w) \/ DoWithout(w)
      PROVE  Bound(landed'[q], sent'[q], request'[q], retries'[q],
                   AnswerOpen(q)', SuccessOpen(q)', faults')
  <2> DEFINE r == worker[w].request
  <2>1. r \in Requests /\ worker[w] # Idle /\ worker[w].phase = "claimed"
    BY <1>7, HolderTyped DEF Call, DoWithout
  <2>2. PICK answer \in Answers :
          /\ Answered(w, answer)
          /\ \/ /\ landed' = IF answer = "succeeded" THEN [landed EXCEPT ![r] = @ + 1] ELSE landed
                /\ sent' = [sent EXCEPT ![r] = @ + 1]
             \/ answer # "succeeded" /\ UNCHANGED calls
    BY <1>7 DEF Call, DoWithout, Answers
  <2>3. /\ request' = request /\ retries' = retries /\ faults' = faults
    BY <1>7 DEF Call, DoWithout
  <2>4. /\ \A x \in Workers \ {w} : worker'[x] = worker[x]
        /\ worker'[w].phase = "answered" /\ worker'[w].request = r /\ worker'[w].answer = answer
    BY <2>2 DEF Answered, RequestTypeOK
  <2>5. CASE q # r
    <3>1. AnswerOpen(q)' = AnswerOpen(q) /\ SuccessOpen(q)' = SuccessOpen(q)
      BY <2>1, <2>4, <2>5, OpenElsewhere DEF AnswerOpen, SuccessOpen
    <3>2. landed'[q] = landed[q] /\ sent'[q] = sent[q]
      BY <2>1, <2>2, <2>5 DEF calls, RequestTypeOK
    <3> QED BY <1>1, <2>3, <3>1, <3>2
  <2>6. CASE q = r
    <3>1. ~AnswerOpen(q) /\ ~SuccessOpen(q)
      BY <2>1, <2>6, OpenIsHolders
    <3>2. AnswerOpen(q)' /\ (answer = "succeeded" => SuccessOpen(q)')
      BY <2>4, <2>6 DEF AnswerOpen, SuccessOpen
    <3>3. /\ landed'[q] = landed[q] + One(answer = "succeeded")
          /\ sent'[q] = sent[q] \/ sent'[q] = sent[q] + 1
      BY <1>1, <2>1, <2>2, <2>6, SMTT(30) DEF calls, RequestTypeOK
    <3> QED BY <1>0, <1>1, <2>3, <3>1, <3>2, <3>3
  <2> QED BY <2>5, <2>6
<1>8. ASSUME NEW w \in Workers, Lose(w)
      PROVE  Bound(landed'[q], sent'[q], request'[q], retries'[q],
                   AnswerOpen(q)', SuccessOpen(q)', faults')
  <2>1. /\ request' = request /\ retries' = retries /\ landed' = landed /\ sent' = sent
        /\ faults' = faults + 1
    BY <1>8 DEF Lose, calls
  <2> QED BY <1>0, <1>1, <2>1
<1> QED BY <1>3, <1>4, <1>5, <1>6, <1>7, <1>8, OtherStep

-----------------------------------------------------------------------------
(* The ladder                                                              *)

LadderRows ==
  [policy : Policies, status : {"none"} \cup DOMAIN EscalationMachine, level : Nat, due : BOOLEAN]

LadderTypeOK == ladder \in LadderRows /\ fired \in Seq(Nat)

LadderStands == LadderTypeOK /\ LevelsFireInOrder

\* No level has fired in the first state.
LEMMA LadderStarts == LadderInit => LadderStands
<1> SUFFICES ASSUME LadderInit PROVE LadderStands
  OBVIOUS
<1>1. PICK p \in Policies :
        ladder = [policy |-> p, status |-> "none", level |-> 0, due |-> FALSE]
  BY DEF LadderInit
<1>2. p.levels \in Nat \ {0}
  BY LadderAssumption DEF LadderAssumption
<1>3. fired = << >> /\ Len(fired) = 0
  BY DEF LadderInit
<1>4. ladder \in LadderRows
  BY <1>1 DEF LadderRows
<1> QED BY <1>1, <1>2, <1>3, <1>4 DEF LadderStands, LadderTypeOK, LevelsFireInOrder

\* What the operations set in the row of a ladder.
LEMMA LadderSet ==
  ASSUME NEW x \in LadderRows, NEW s \in DOMAIN EscalationMachine
  PROVE  LET y == [x EXCEPT !.status = s] IN
         y \in LadderRows /\ y.policy = x.policy /\ y.level = x.level
BY DEF LadderRows

\* Setting the time leaves policy and level.
LEMMA LadderDated ==
  ASSUME NEW x \in LadderRows, NEW b \in BOOLEAN
  PROVE  LET y == [x EXCEPT !.due = b] IN
         y \in LadderRows /\ y.policy = x.policy /\ y.level = x.level
BY DEF LadderRows

\* Raising the level leaves the policy.
LEMMA LadderRaised ==
  ASSUME NEW x \in LadderRows, NEW n \in Nat
  PROVE  LET y == [x EXCEPT !.level = n] IN
         y \in LadderRows /\ y.policy = x.policy /\ y.level = n
BY DEF LadderRows

\* Every step keeps the levels in order.
LEMMA StepClimbs == LadderStands /\ [LadderNext]_ladderVars => LadderStands'
<1> SUFFICES ASSUME LadderStands, [LadderNext]_ladderVars PROVE LadderStands'
  OBVIOUS
<1>0. /\ ladder \in LadderRows /\ ladder.policy \in Policies /\ ladder.level \in Nat
      /\ ladder.policy.levels \in Nat \ {0}
      /\ DOMAIN EscalationMachine = {"pending", "active", "acknowledged", "resolved",
                                     "cancelled", "exhausted", "expired"}
  BY LadderAssumption DEF LadderAssumption, LadderStands, LadderTypeOK, LadderRows,
                          EscalationMachine
<1>1. ASSUME ladder' \in LadderRows, ladder'.policy = ladder.policy,
             ladder'.level = ladder.level, fired' = fired
      PROVE  LadderStands'
  BY <1>1 DEF LadderStands, LadderTypeOK, LevelsFireInOrder
<1>2. CASE OpenLadder
  BY <1>0, <1>1, <1>2, LadderSet DEF OpenLadder
<1>3. ASSUME NEW to \in Answer, Settle(to) PROVE LadderStands'
  <2> DEFINE y == [ladder EXCEPT !.status = to]
  <2>1. y \in LadderRows /\ y.policy = ladder.policy /\ y.level = ladder.level
    BY <1>0, LadderSet DEF Answer
  <2>2. ladder' = [y EXCEPT !.due = TRUE] /\ fired' = fired
    BY <1>3 DEF Settle
  <2> HIDE DEF y
  <2> QED BY <1>1, <2>1, <2>2, LadderDated
<1>4. CASE LadderDue
  BY <1>0, <1>1, <1>4, LadderDated DEF LadderDue
<1>5. CASE Advance /\ Exhausted(ladder.policy, ladder.level)
  <2>1. ladder' = [ladder EXCEPT !.status = "exhausted"] /\ fired' = fired
    BY <1>5 DEF Advance
  <2>2. "exhausted" \in DOMAIN EscalationMachine
    BY <1>0
  <2> QED BY <1>0, <1>1, <2>1, <2>2, LadderSet
<1>6. CASE Advance /\ ~Exhausted(ladder.policy, ladder.level)
  <2> DEFINE L == ladder.policy.levels
             level == NextLevel(ladder.policy, ladder.level)
             x == [ladder EXCEPT !.status = "active"]
             y == [x EXCEPT !.level = level]
             z == [y EXCEPT !.due = Exhausted(ladder.policy, level)]
  <2>1. ladder' = z /\ fired' = Append(fired, level)
    BY <1>6 DEF Advance
  <2>2. level \in Nat
    BY <1>0 DEF NextLevel
  <2>3. x \in LadderRows /\ x.policy = ladder.policy
    BY <1>0, LadderSet
  <2>4. Exhausted(ladder.policy, level) \in BOOLEAN
    BY DEF Exhausted
  <2> HIDE DEF x
  <2>5. y \in LadderRows /\ y.policy = ladder.policy /\ y.level = level
    BY <2>2, <2>3, LadderRaised
  <2> HIDE DEF y
  <2>6. z \in LadderRows /\ z.policy = ladder.policy /\ z.level = level
    BY <2>4, <2>5, LadderDated
  <2> HIDE DEF z
  <2>7. fired \in Seq(Nat) /\ Len(fired) \in Nat
    BY DEF LadderStands, LadderTypeOK
  <2> HIDE DEF level
  <2>8. /\ fired' \in Seq(Nat) /\ Len(fired') = Len(fired) + 1 /\ fired'[Len(fired) + 1] = level
        /\ \A i \in 1..Len(fired) : fired'[i] = fired[i]
    BY <2>1, <2>2, <2>7, AppendProperties
  <2>9. \A i \in 1..Len(fired) : fired[i] = IF i <= L THEN i ELSE L
    BY <2>7 DEF LadderStands, LevelsFireInOrder
  <2>10. ladder.level = IF Len(fired) = 0 THEN 0 ELSE IF Len(fired) <= L THEN Len(fired) ELSE L
    <3>1. ladder.level = IF fired = << >> THEN 0 ELSE fired[Len(fired)]
      BY DEF LadderStands, LevelsFireInOrder
    <3>2. fired = << >> <=> Len(fired) = 0
      BY <2>7
    <3>3. CASE Len(fired) = 0
      BY <3>1, <3>2, <3>3
    <3>4. CASE Len(fired) # 0
      <4>1. Len(fired) \in 1..Len(fired)
        BY <2>7, <3>4
      <4> QED BY <2>9, <3>1, <3>2, <3>4, <4>1
    <3> QED BY <3>3, <3>4
  <2>11. level = IF Len(fired) + 1 <= L THEN Len(fired) + 1 ELSE L
    BY <1>0, <2>7, <2>10 DEF level, NextLevel
  <2>12. Len(fired) + 1 > L => ladder.policy.repeat
    BY <1>0, <1>6, <2>7, <2>10 DEF Exhausted
  <2>13. \A i \in 1..Len(fired) + 1 : fired'[i] = IF i <= L THEN i ELSE L
    <3>1. \A i \in 1..Len(fired) + 1 : i \in 1..Len(fired) \/ i = Len(fired) + 1
      BY <2>7
    <3> QED BY <2>8, <2>9, <2>11, <3>1
  <2>14. fired' # << >> /\ DOMAIN fired' = 1..Len(fired) + 1
    BY <2>7, <2>8
  <2> QED BY <2>1, <2>6, <2>8, <2>12, <2>13, <2>14 DEF LadderStands, LadderTypeOK, LevelsFireInOrder
<1>7. CASE UNCHANGED ladderVars
  BY <1>0, <1>1, <1>7 DEF ladderVars
<1> QED BY <1>2, <1>3, <1>4, <1>5, <1>6, <1>7 DEF LadderNext

-----------------------------------------------------------------------------
(* The theorems                                                            *)

NotifyInv == RequestTypeOK /\ RowsHeld /\ EvidenceStands /\ SendsStand /\ LadderStands

\* The first state is in order.
LEMMA InitInv == Init => NotifyInv
<1> SUFFICES ASSUME Init PROVE NotifyInv
  OBVIOUS
<1>1. RequestInit /\ LadderInit
  BY DEF Init
<1>2. RequestTypeOK /\ LadderStands
  BY <1>1, RequestInitTyped, LadderStarts
<1>3. RowsHeld
  BY <1>1 DEF RequestInit, RowsHeld
<1>4. ASSUME NEW r \in Requests
      PROVE  /\ Told(deliveries[r], request[r])
             /\ Cardinality(InboxOf(inbox, r)) =
                  IF request[r].status = "delivered" /\ r \in InApp THEN 1 ELSE 0
  <2>1. /\ deliveries[r] = << >> /\ inbox = << >> /\ Len(<< >>) = 0
        /\ request[r].status = "none" /\ request[r].attempts = 0
    BY <1>1 DEF RequestInit, NoRequest
  <2>2. InboxOf(inbox, r) = {}
    BY <2>1 DEF InboxOf
  <2>3. Told(<< >>, request[r])
    BY <2>1 DEF Told
  <2>4. Cardinality({}) = 0
    BY FS_EmptySet
  <2> QED BY <2>1, <2>2, <2>3, <2>4
<1>5. ASSUME NEW r \in Requests
      PROVE  /\ landed[r] = 0 /\ sent[r] = 0 /\ retries[r] = 0 /\ faults = 0
             /\ request[r].attempts = 0 /\ ~AnswerOpen(r) /\ ~SuccessOpen(r)
             /\ request[r].status # "delivered"
  BY <1>1 DEF RequestInit, NoRequest, AnswerOpen, SuccessOpen, Idle
<1>6. SendsStand
  BY <1>5, NotifyAssumption DEF SendsStand, NotifyAssumption
<1> QED BY <1>2, <1>3, <1>4, <1>6 DEF NotifyInv, EvidenceStands

\* The invariant of both machines: the lock, the evidence, the count of the
\* calls and the climb of the ladder.
THEOREM NotifyInvariance == Spec => []NotifyInv
<1>1. NotifyInv /\ [Next]_vars => NotifyInv'
  <2> SUFFICES ASSUME NotifyInv, [Next]_vars PROVE NotifyInv'
    OBVIOUS
  <2>1. [RequestNext]_requestVars /\ [LadderNext]_ladderVars
    BY DEF Next, vars
  <2> QED BY <2>1, RequestStepTyped, StepHeld, StepTold, StepSent, StepClimbs DEF NotifyInv
<1> QED BY <1>1, InitInv, PTL DEF Spec

\* The rows, the evidence and the workers keep their types, and four statuses
\* of the schema are never committed (repository.ts, notification.service.ts).
THEOREM RequestTypeCorrect == Spec => []RequestTypeOK
BY NotifyInvariance, PTL DEF NotifyInv

\* The evidence of a request, its row and the inbox agree: the commit of
\* dispatch writes the three together.
THEOREM EvidenceAgrees == Spec => []DeliveredIsEvidenced
<1>1. NotifyInv => DeliveredIsEvidenced
  <2> SUFFICES ASSUME NotifyInv, NEW r \in Requests
               PROVE  LET n == Len(deliveries[r])
                          Succeeded(i) == deliveries[r][i].answer = "succeeded"
                      IN /\ n = request[r].attempts
                         /\ \A i \in 1..n : deliveries[r][i].attempt = i /\ (Succeeded(i) => i = n)
                         /\ request[r].status = "delivered" <=> n > 0 /\ Succeeded(n)
                         /\ request[r].status \in {"retry_scheduled", "exhausted"} => n > 0
                         /\ Cardinality({k \in DOMAIN inbox : inbox[k] = r}) =
                              IF request[r].status = "delivered" /\ r \in InApp THEN 1 ELSE 0
    BY DEF DeliveredIsEvidenced
  <2>1. inbox \in Seq(Requests)
    BY DEF NotifyInv, RequestTypeOK
  <2>2. {k \in DOMAIN inbox : inbox[k] = r} = InboxOf(inbox, r)
    BY <2>1 DEF InboxOf
  <2> QED BY <2>2 DEF NotifyInv, EvidenceStands, Told
<1> QED BY <1>1, NotifyInvariance, PTL

\* A message lands twice only when a dispatch was lost after its call, and
\* maxAttempts holds but for manual retries and lost dispatches: dispatch.
THEOREM SendsStayBounded == Spec => []SendsAreBounded
<1>1. NotifyInv => SendsAreBounded
  <2> SUFFICES ASSUME NotifyInv, NEW r \in Requests
               PROVE  landed[r] <= 1 + faults /\ sent[r] <= MaxAttempts + retries[r] + faults
    BY DEF SendsAreBounded
  <2>1. /\ landed[r] \in Nat /\ sent[r] \in Nat /\ faults \in Nat /\ retries[r] \in Nat
        /\ request[r].attempts \in Nat /\ MaxAttempts \in Nat
    BY NotifyAssumption DEF NotifyAssumption, NotifyInv, RequestTypeOK, RequestRows
  <2>2. AnswerOpen(r) => request[r].status \in Claimable
    BY HolderTyped DEF NotifyInv, RowsHeld, AnswerOpen
  <2>3. SuccessOpen(r) => AnswerOpen(r)
    BY DEF SuccessOpen, AnswerOpen
  <2>4. request[r].status \in Claimable => request[r].status # "delivered"
    BY DEF Claimable
  <2>5. /\ landed[r] <= (IF request[r].status = "delivered" THEN 1 ELSE 0)
                          + (IF SuccessOpen(r) THEN 1 ELSE 0) + faults
        /\ sent[r] <= request[r].attempts + (IF AnswerOpen(r) THEN 1 ELSE 0) + faults
        /\ request[r].attempts <= MaxAttempts + retries[r]
        /\ request[r].status \in Claimable => request[r].attempts < MaxAttempts + retries[r]
    BY DEF NotifyInv, SendsStand
  <2> QED BY <2>1, <2>2, <2>3, <2>4, <2>5
<1> QED BY <1>1, NotifyInvariance, PTL

\* No provider is called for a request that was settled, whatever a worker
\* claimed before: claimRequest and the lock it keeps to the commit.
THEOREM SettledIsNeverSent == Spec => NoSendOnceSettled
<1>1. NotifyInv /\ [Next]_vars =>
        [\A r \in Requests : sent'[r] > sent[r] => request[r].status \in Claimable]_requestVars
  <2> SUFFICES ASSUME NotifyInv, [Next]_vars, NEW r \in Requests, sent'[r] > sent[r]
               PROVE  request[r].status \in Claimable
    OBVIOUS
  <2>1. [RequestNext]_requestVars
    BY DEF Next, vars
  <2>2. sent[r] \in Nat
    BY DEF NotifyInv, RequestTypeOK
  <2>3. ASSUME NEW w \in Workers, Call(w) PROVE request[r].status \in Claimable
    <3>1. worker[w] # Idle /\ worker[w].request \in Requests
      BY <2>3, HolderTyped DEF Call, NotifyInv
    <3>2. r = worker[w].request
      BY <2>2, <2>3, <3>1 DEF Call, NotifyInv, RequestTypeOK
    <3> QED BY <3>1, <3>2 DEF NotifyInv, RowsHeld
  <2>4. sent' # sent
    BY <2>2, SMTT(30)
  <2>5. (\A w \in Workers : ~Call(w)) => sent' = sent
    BY <2>1 DEF RequestNext, Office, Create, CancelRequest, RetryNow, Clock, Due, Expire, Settings,
        SetSuppression, SetPreference, Dispatch, Claim, DoWithout, Record, Lose, requestVars, calls
  <2> QED BY <2>3, <2>4, <2>5
<1> QED BY <1>1, NotifyInvariance, PTL DEF Spec, NoSendOnceSettled

\* A ladder fires every level, in order, and repeats only the last: advance.
THEOREM LadderClimbsInOrder == Spec => []LevelsFireInOrder
BY NotifyInvariance, PTL DEF NotifyInv, LadderStands
===============================================================================
