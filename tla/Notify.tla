-------------------------------- MODULE Notify --------------------------------
(* Delivery of notifications (packages/m08-notify/src/notification.service): *)
(* requests, the workers that dispatch them through a provider, the evidence *)
(* of each attempt and the inbox of the recipients.                          *)
(*                                                                           *)
(* A dispatch is one transaction with a provider call in its middle: it      *)
(* claims the row and keeps it locked, calls, and records.  Until it commits *)
(* nobody else sees the claim; when it fails the claim and its attempt are   *)
(* gone, the call is not.  A caller who cancels or retries meanwhile waits   *)
(* for the lock and then holds a version that is no longer there, so those   *)
(* act on rows nobody holds.  A key used twice returns the first request and *)
(* changes nothing.  Nothing ever writes the status 'expired'.               *)
EXTENDS Integers, Sequences, FiniteSets

CONSTANTS
  Requests,      \* notification_request ids
  Workers,       \* dispatch workers
  InApp,         \* those of them whose template is for the in-app channel
  Destinations,  \* where messages go, and whose preferences are asked
  MaxAttempts,   \* retry_policy.maxAttempts
  MaxRetries,    \* bound: manual retries of a request
  MaxChanges,    \* bound: changes of preferences and suppressions
  MaxFaults      \* bound: dispatches that end without a commit

ASSUME NotifyAssumption ==
  /\ InApp \subseteq Requests /\ Destinations # {}
  /\ MaxAttempts \in Nat \ {0} /\ MaxRetries \in Nat
  /\ MaxChanges \in Nat /\ MaxFaults \in Nat

VARIABLES
  request,     \* notification_request: the committed row of each
  deliveries,  \* notification_delivery: the rows of each request, by insertion
  inbox,       \* inbox_notification: the requests that have put a message there
  worker,      \* what each worker has open
  blocked,     \* destinations with a suppression
  declined,    \* recipients who opted out of, or silenced, the channel
  sent,        \* history: provider calls made for each request
  landed,      \* history: those of them that succeeded
  retries,     \* how many manual retries each request had (bound)
  changes,     \* how many times the preferences changed (bound)
  faults       \* how many dispatches were lost (bound)

preferences == <<blocked, declined, changes>>
calls == <<sent, landed>>
requestVars == <<request, deliveries, inbox, worker, preferences, calls, retries, faults>>

\* Nothing tells the categories security and legal apart: both are mandatory.
Categories == {"optional", "operational", "mandatory"}
Statuses == {"none", "requested", "queued", "processing", "delivered", "failed",
             "retry_scheduled", "exhausted", "cancelled", "expired", "suppressed"}
Claimable == {"requested", "queued", "retry_scheduled"}
Terminal == {"delivered", "exhausted", "cancelled", "expired", "suppressed"}
Answers == {"succeeded", "transient", "permanent"}

NoRequest == [status |-> "none", category |-> "optional",
              to |-> CHOOSE d \in Destinations : TRUE, attempts |-> 0, due |-> FALSE, live |-> TRUE]
Idle == [phase |-> "idle"]

Holds(w, r) == worker[w] # Idle /\ worker[w].request = r
Locked(r) == \E w \in Workers : Holds(w, r)

-----------------------------------------------------------------------------
(* domain/preferences.ts and domain/retry.ts                               *)

\* evaluateDelivery.  The quiet hours only ever defer, and a deferred request
\* is queued like any other, so only what drops a message is here.
Silenced_Everyone(category, to) == to \in blocked \cup declined
Silenced(category, to) ==
  /\ category # "mandatory"
  /\ \/ to \in blocked
     \/ category = "optional" /\ to \in declined

\* retryDecision: what a dispatch leaves in the row after this answer.
Outcome_OneMore(answer, attempt) ==
  CASE answer = "succeeded" -> "delivered"
    [] answer = "transient" /\ attempt <= MaxAttempts -> "retry_scheduled"
    [] OTHER -> "exhausted"
Outcome(answer, attempt) ==
  CASE answer = "succeeded" -> "delivered"
    [] answer = "transient" /\ attempt < MaxAttempts -> "retry_scheduled"
    [] OTHER -> "exhausted"

-----------------------------------------------------------------------------
(* notification.service.ts: create                                         *)

RequestInit ==
  /\ request = [r \in Requests |-> NoRequest]
  /\ deliveries = [r \in Requests |-> << >>]
  /\ inbox = << >>
  /\ worker = [w \in Workers |-> Idle]
  /\ blocked = {} /\ declined = {}
  /\ sent = [r \in Requests |-> 0] /\ landed = [r \in Requests |-> 0]
  /\ retries = [r \in Requests |-> 0] /\ changes = 0 /\ faults = 0

Create(r, category, to, now) ==
  /\ request[r].status = "none"
  /\ LET silenced == Silenced(category, to) IN
     request' = [request EXCEPT ![r] =
       [status |-> IF silenced THEN "suppressed" ELSE "queued", category |-> category,
        to |-> to, attempts |-> 0, due |-> silenced \/ now, live |-> TRUE]]
  /\ UNCHANGED <<deliveries, inbox, worker, preferences, calls, retries, faults>>

\* preference.service.ts: setSuppression and setPreference, either way.
SetSuppression(d) ==
  /\ changes < MaxChanges /\ changes' = changes + 1
  /\ blocked' = (blocked \ {d}) \cup ({d} \ blocked)
  /\ UNCHANGED <<request, deliveries, inbox, worker, declined, calls, retries, faults>>

SetPreference(d) ==
  /\ changes < MaxChanges /\ changes' = changes + 1
  /\ declined' = (declined \ {d}) \cup ({d} \ declined)
  /\ UNCHANGED <<request, deliveries, inbox, worker, blocked, calls, retries, faults>>

-----------------------------------------------------------------------------
(* dispatch                                                                *)

\* claimRequest: one winner, because the row stays locked to the commit.
MayClaim_AnyStatus(r) == request[r].status # "none" /\ request[r].due /\ request[r].live
MayClaim_Scheduled(r) ==
  request[r].status = "retry_scheduled" /\ request[r].due /\ request[r].live /\ ~Locked(r)
MayClaim(r) ==
  request[r].status \in Claimable /\ request[r].due /\ request[r].live /\ ~Locked(r)

Claim(w, r) ==
  /\ worker[w] = Idle
  /\ MayClaim(r)
  /\ worker' = [worker EXCEPT ![w] = [phase |-> "claimed", request |-> r]]
  /\ UNCHANGED <<request, deliveries, inbox, preferences, calls, retries, faults>>

Answered(w, answer) ==
  worker' = [worker EXCEPT ![w] = [phase |-> "answered", request |-> worker[w].request,
                                   answer |-> answer]]

\* The provider is called, and answers.
Call(w) ==
  /\ worker[w].phase = "claimed"
  /\ \E answer \in Answers :
       /\ Answered(w, answer)
       /\ landed' = IF answer = "succeeded"
                    THEN [landed EXCEPT ![worker[w].request] = @ + 1] ELSE landed
  /\ sent' = [sent EXCEPT ![worker[w].request] = @ + 1]
  /\ UNCHANGED <<request, deliveries, inbox, preferences, retries, faults>>

\* There is nothing to call: the message does not render, or no provider
\* serves the channel.
DoWithout(w) ==
  /\ worker[w].phase = "claimed"
  /\ \E answer \in {"permanent", "transient"} : Answered(w, answer)
  /\ UNCHANGED <<request, deliveries, inbox, preferences, calls, retries, faults>>

\* The attempt, the status and the inbox message are committed together.
Evidence_WhenItLands(r, answer, attempt) ==
  IF answer = "succeeded" THEN <<[attempt |-> attempt, answer |-> answer]>> ELSE << >>
Evidence(r, answer, attempt) == <<[attempt |-> attempt, answer |-> answer]>>

Record(w) ==
  /\ worker[w].phase = "answered"
  /\ LET r == worker[w].request
         answer == worker[w].answer
         attempt == request[r].attempts + 1
         status == Outcome(answer, attempt)
     IN /\ \A i \in DOMAIN deliveries[r] : deliveries[r][i].attempt # attempt
        /\ deliveries' = [deliveries EXCEPT ![r] = @ \o Evidence(r, answer, attempt)]
        /\ request' = [request EXCEPT ![r].status = status, ![r].attempts = attempt,
                                      ![r].due = status # "retry_scheduled"]
        /\ inbox' = IF status = "delivered" /\ r \in InApp THEN Append(inbox, r) ELSE inbox
  /\ worker' = [worker EXCEPT ![w] = Idle]
  /\ UNCHANGED <<preferences, calls, retries, faults>>

\* The provider throws, an insert fails or the worker dies: all is rolled back.
Lose(w) ==
  /\ faults < MaxFaults
  /\ worker[w] # Idle
  /\ worker' = [worker EXCEPT ![w] = Idle]
  /\ faults' = faults + 1
  /\ UNCHANGED <<request, deliveries, inbox, preferences, calls, retries>>

-----------------------------------------------------------------------------
(* cancel and retryNow                                                     *)

MayCancel(r) == request[r].status \notin Terminal \cup {"none"} /\ ~Locked(r)

CancelRequest(r) ==
  /\ MayCancel(r)
  /\ request' = [request EXCEPT ![r].status = "cancelled"]
  /\ UNCHANGED <<deliveries, inbox, worker, preferences, calls, retries, faults>>

RetryNow(r) ==
  /\ request[r].status \in {"failed", "exhausted", "retry_scheduled"} /\ ~Locked(r)
  /\ retries[r] < MaxRetries
  /\ request' = [request EXCEPT ![r].status = "queued", ![r].due = TRUE]
  /\ retries' = [retries EXCEPT ![r] = @ + 1]
  /\ UNCHANGED <<deliveries, inbox, worker, preferences, calls, faults>>

-----------------------------------------------------------------------------
(* The clock: next_attempt_at is reached, expires_at is passed             *)

Due(r) ==
  /\ request[r].status \in Claimable /\ ~request[r].due
  /\ request' = [request EXCEPT ![r].due = TRUE]
  /\ UNCHANGED <<deliveries, inbox, worker, preferences, calls, retries, faults>>

Expire(r) ==
  /\ request[r].status \in Claimable /\ request[r].live
  /\ request' = [request EXCEPT ![r].live = FALSE]
  /\ UNCHANGED <<deliveries, inbox, worker, preferences, calls, retries, faults>>

-----------------------------------------------------------------------------
(* The whole                                                               *)

Office(r) ==
  \/ \E c \in Categories, d \in Destinations, now \in BOOLEAN : Create(r, c, d, now)
  \/ CancelRequest(r)
  \/ RetryNow(r)
Settings == \E d \in Destinations : SetSuppression(d) \/ SetPreference(d)
Dispatch(w) ==
  \/ \E r \in Requests : Claim(w, r)
  \/ Call(w)
  \/ DoWithout(w)
  \/ Record(w)
Clock(r) == Due(r) \/ Expire(r)

RequestNext ==
  \/ \E r \in Requests : Office(r) \/ Clock(r)
  \/ Settings
  \/ \E w \in Workers : Dispatch(w) \/ Lose(w)

RequestSpec == RequestInit /\ [][RequestNext]_requestVars

\* The worker loop is not in the repository: somebody calls dispatch again and
\* again for every row that is due, time passes, and a provider answers or
\* fails, so that a dispatch ends.
RequestFairness ==
  /\ \A r \in Requests : WF_requestVars(\E w \in Workers : Claim(w, r))
  /\ \A r \in Requests : WF_requestVars(Due(r))
  /\ \A w \in Workers : WF_requestVars(Call(w) \/ DoWithout(w) \/ Record(w))

-----------------------------------------------------------------------------
(* Properties                                                              *)

Kept == Statuses \ {"requested", "processing", "failed", "expired"}
RequestRows == [status : Kept, category : Categories, to : Destinations, attempts : Nat,
                due : BOOLEAN, live : BOOLEAN]
DeliveryRows == [attempt : Nat \ {0}, answer : Answers]
WorkerCalls == {Idle} \cup [phase : {"claimed"}, request : Requests]
  \cup [phase : {"answered"}, request : Requests, answer : Answers]

\* The rows, the evidence and the workers have their types; a status nothing
\* writes (requested, processing, failed, expired) is in no committed row.
RequestTypeOK ==
  /\ request \in [Requests -> RequestRows]
  /\ deliveries \in [Requests -> Seq(DeliveryRows)]
  /\ inbox \in Seq(Requests)
  /\ worker \in [Workers -> WorkerCalls]
  /\ blocked \in SUBSET Destinations /\ declined \in SUBSET Destinations
  /\ sent \in [Requests -> Nat] /\ landed \in [Requests -> Nat]
  /\ retries \in [Requests -> Nat] /\ changes \in Nat /\ faults \in Nat

\* The provider is never called for a request that was delivered, suppressed,
\* given up or cancelled, not even by a worker that claimed it before.
NoSendOnceSettled ==
  [][\A r \in Requests : sent'[r] > sent[r] => request[r].status \in Claimable]_requestVars

\* The evidence tells the story of the row: attempts 1, 2, 3, ... without a
\* gap; only the last can have succeeded, exactly when the row says so; and a
\* message is in the inbox once, exactly when an in-app request was delivered.
DeliveredIsEvidenced ==
  \A r \in Requests :
    LET n == Len(deliveries[r])
        Succeeded(i) == deliveries[r][i].answer = "succeeded"
    IN /\ n = request[r].attempts
       /\ \A i \in 1..n : deliveries[r][i].attempt = i /\ (Succeeded(i) => i = n)
       /\ request[r].status = "delivered" <=> n > 0 /\ Succeeded(n)
       /\ request[r].status \in {"retry_scheduled", "exhausted"} => n > 0
       /\ Cardinality({k \in DOMAIN inbox : inbox[k] = r}) =
            IF request[r].status = "delivered" /\ r \in InApp THEN 1 ELSE 0

\* A recipient hears of a request more than once only when a dispatch was lost
\* after its call, and the provider is called no more often than the policy
\* allows, but for the retries people asked for and the dispatches lost.
SendsAreBounded ==
  \A r \in Requests : /\ landed[r] <= 1 + faults
                      /\ sent[r] <= MaxAttempts + retries[r] + faults

\* A request that is queued or scheduled again comes to an end, unless it
\* passes its expiry first: no worker looks at it then, and nothing else does.
RequestEnds ==
  \A r \in Requests :
    request[r].status \in Claimable ~> request[r].status \in Terminal \/ ~request[r].live

\* A security or legal notice is tried whatever the preferences are or become,
\* unless somebody cancels it or it expires.
MandatoryIsTried ==
  \A r \in Requests :
    (request[r].status # "none" /\ request[r].category = "mandatory")
      ~> (request[r].attempts > 0 \/ request[r].status = "cancelled" \/ ~request[r].live)
===============================================================================
