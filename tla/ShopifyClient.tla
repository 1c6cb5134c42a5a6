--------------------------- MODULE ShopifyClient ---------------------------
(***************************************************************************)
(* InventoryShopifyClient.execute (app/services/shopify_client.py): one    *)
(* GraphQL call, its wait for the rate-limit budget that all tasks share   *)
(* through Redis, its retries after throttling and server errors, and what *)
(* Shopify has done when the caller is told the outcome.                   *)
(*                                                                         *)
(* Time runs in half-seconds; a point is what Shopify restores in one of   *)
(* them (25 of its cost points), so that ESTIMATED_QUERY_COST is 4.        *)
(***************************************************************************)
EXTENDS Integers

CONSTANTS
    Calls,      \* the calls of execute, each made once by some task
    Unread,     \* those of add_tags_to_orders, which reads no userErrors
    Cost,       \* what Shopify charges for each, in points
    MaxBucket,  \* size of Shopify's bucket
    Copies,     \* what Redis may hold of it at first
    Faults      \* what each meets, among "redis", "server", "network"

ASSUME UnreadAssumption == Unread \subseteq Calls
ASSUME ClientAssumption ==
    /\ Cost \in [Calls -> Nat]
    /\ MaxBucket \in Nat /\ MaxBucket >= 4
    /\ Copies \subseteq 0..MaxBucket
ASSUME FaultAssumption == Faults \in [Calls -> SUBSET {"redis", "server", "network"}]

Estimate == 4
MaxRetries == 3

VARIABLES
    pc,         \* "idle", "ready", "answered", "ok" or "failed"
    attempt,    \* requests sent before the next one
    timer,      \* half-seconds the call still sleeps
    answer,     \* the answer on its way back, and the points it tells
    cause,      \* the last error: a throttling, or another
    points,     \* in Shopify's bucket
    bucket,     \* the copy in Redis, a missing one read as a full bucket
    admitted,   \* requests Shopify took in without having carried them out
    effects,    \* how often Shopify carried the call out
    unsettled,  \* server errors that left a request open
    contended   \* calls that saw another one charged between their attempts

callVars == <<pc, attempt, timer, answer, cause>>
shopVars == <<points, admitted, effects, unsettled, contended>>
vars == <<callVars, shopVars, bucket>>

Untold == -1
NoAnswer == [kind |-> "none", told |-> Untold]
Kinds == {"none", "data", "userErrors", "throttled", "rejected", "5xx", "lost"}
Causes == {"none", "throttled", "other"}

TypeOK ==
    /\ pc \in [Calls -> {"idle", "ready", "answered", "ok", "failed"}]
    /\ attempt \in [Calls -> 0..MaxRetries]
    /\ timer \in [Calls -> Nat]
    /\ answer \in [Calls -> [kind : Kinds, told : 0..MaxBucket \cup {Untold}]]
    /\ cause \in [Calls -> Causes]
    /\ points \in 0..MaxBucket
    /\ bucket \in 0..MaxBucket
    /\ admitted \in [Calls -> Nat] /\ effects \in [Calls -> Nat]
    /\ unsettled \in [Calls -> Nat]
    /\ contended \subseteq Calls

Init ==
    /\ pc = [c \in Calls |-> "idle"]
    /\ attempt = [c \in Calls |-> 0]
    /\ timer = [c \in Calls |-> 0]
    /\ answer = [c \in Calls |-> NoAnswer]
    /\ cause = [c \in Calls |-> "none"]
    /\ points \in 0..MaxBucket
    /\ bucket \in Copies \cup {MaxBucket}
    /\ admitted = [c \in Calls |-> 0]
    /\ effects = [c \in Calls |-> 0]
    /\ unsettled = [c \in Calls |-> 0]
    /\ contended = {}

Restored(p) == IF p < MaxBucket THEN p + 1 ELSE p

(* Time matters only while a call is under way. *)
Tick ==
    /\ \E c \in Calls : pc[c] = "ready" /\ (timer[c] > 0 \/ points < MaxBucket)
    /\ points' = Restored(points)
    /\ timer' = [c \in Calls |-> IF timer[c] > 0 THEN timer[c] - 1 ELSE 0]
    /\ UNCHANGED <<pc, attempt, answer, cause, bucket, admitted, effects,
                   unsettled, contended>>

Fail(c, why) ==
    /\ pc' = [pc EXCEPT ![c] = "failed"]
    /\ cause' = [cause EXCEPT ![c] = why]
    /\ attempt' = [attempt EXCEPT ![c] = 0]
    /\ answer' = [answer EXCEPT ![c] = NoAnswer]
    /\ UNCHANGED timer

-----------------------------------------------------------------------------
(* The caller *)

BudgetWait(available) == IF available < Estimate THEN Estimate - available ELSE 0

WaitForBudget(c) ==
    /\ pc[c] = "idle"
    /\ pc' = [pc EXCEPT ![c] = "ready"]
    /\ timer' = [timer EXCEPT ![c] = BudgetWait(bucket)]
    /\ UNCHANGED <<attempt, answer, cause, shopVars, bucket>>

(* A Redis error before anything was sent leaves execute at once. *)
WaitFails(c) ==
    /\ pc[c] = "idle" /\ "redis" \in Faults[c]
    /\ Fail(c, "other")
    /\ UNCHANGED <<shopVars, bucket>>

(* 2 ** n seconds.  The sleep after the last attempt only delays the error. *)
Seconds(n) == 2 * (IF n = 0 THEN 1 ELSE 2)

(* Faulty variant: half a second after every throttling. *)
ThrottleBackoffFlat(n) == 1

(* The shortest sleeps the jitter allows; a task may always wake later. *)
ThrottleBackoff(n) == Seconds(n) - 1
ErrorBackoff(n) == Seconds(n)

(* Faulty variants: a timeout is repeated like a server error; userErrors *)
(* are read nowhere.                                                      *)
RetriedWithTimeouts(kind) == kind \in {"throttled", "5xx", "lost"}
SucceedsUnread(c, kind) == kind \in {"data", "userErrors"}

Retried(kind) == kind \in {"throttled", "5xx"}

(* The methods of the client raise on userErrors, but for one. *)
Succeeds(c, kind) == kind = "data" \/ (kind = "userErrors" /\ c \in Unread)

CauseOf(kind) == IF kind = "throttled" THEN "throttled" ELSE "other"

(* The answer is there: the bucket is overwritten with what it tells, and the *)
(* call returns, raises, or sleeps before the next attempt.                   *)
Receive(c) ==
    LET kind == answer[c].kind IN
    /\ pc[c] = "answered"
    /\ bucket' = IF answer[c].told = Untold THEN bucket ELSE answer[c].told
    /\ answer' = [answer EXCEPT ![c] = NoAnswer]
    /\ cause' = [cause EXCEPT ![c] = IF Succeeds(c, kind) THEN "none" ELSE CauseOf(kind)]
    /\ \/ /\ Retried(kind)
          /\ attempt' = [attempt EXCEPT ![c] = @ + 1]
          /\ timer' = [timer EXCEPT ![c] =
                IF attempt[c] + 1 = MaxRetries THEN 0
                ELSE IF kind = "throttled" THEN ThrottleBackoff(attempt[c])
                ELSE ErrorBackoff(attempt[c])]
          /\ pc' = [pc EXCEPT ![c] = "ready"]
       \/ /\ ~Retried(kind)
          /\ pc' = [pc EXCEPT ![c] = IF Succeeds(c, kind) THEN "ok" ELSE "failed"]
          /\ attempt' = [attempt EXCEPT ![c] = 0]
          /\ UNCHANGED timer
    /\ UNCHANGED shopVars

(* The bucket cannot be stored: execute raises, whatever the answer said. *)
ReceiveFails(c) ==
    /\ pc[c] = "answered" /\ answer[c].told # Untold
    /\ "redis" \in Faults[c]
    /\ Fail(c, "other")
    /\ UNCHANGED <<shopVars, bucket>>

(* After the last attempt its error is raised. *)
RaiseLast(c) ==
    /\ pc[c] = "ready" /\ timer[c] = 0 /\ attempt[c] = MaxRetries
    /\ Fail(c, cause[c])
    /\ UNCHANGED <<shopVars, bucket>>

-----------------------------------------------------------------------------
(* Shopify *)

(* Faulty variants: one attempt too many; the copy of the bucket is waited on *)
(* before every request, though only an answer ever changes it.             *)
SendsOnceMore(c) == pc[c] = "ready" /\ timer[c] = 0 /\ attempt[c] <= MaxRetries
SendsOnBudget(c) ==
    /\ pc[c] = "ready" /\ timer[c] = 0 /\ attempt[c] < MaxRetries
    /\ bucket >= Estimate

Sends(c) == pc[c] = "ready" /\ timer[c] = 0 /\ attempt[c] < MaxRetries

AnswerWith(c, kind, told) ==
    /\ Sends(c)
    /\ pc' = [pc EXCEPT ![c] = "answered"]
    /\ answer' = [answer EXCEPT ![c] = [kind |-> kind, told |-> told]]
    /\ UNCHANGED <<attempt, timer, cause, bucket>>

(* Taking a request in costs points that other calls then miss. *)
Charge(c) ==
    /\ points >= Cost[c]
    /\ points' = points - Cost[c]
    /\ contended' = contended \cup {d \in Calls \ {c} : attempt[d] > 0}

Throttle(c) ==
    /\ points < Cost[c]
    /\ AnswerWith(c, "throttled", points)
    /\ UNCHANGED shopVars

Serve(c) ==
    /\ Charge(c)
    /\ AnswerWith(c, "data", points')
    /\ effects' = [effects EXCEPT ![c] = @ + 1]
    /\ UNCHANGED <<admitted, unsettled>>

RefuseInput(c) ==
    /\ Charge(c)
    /\ AnswerWith(c, "userErrors", points')
    /\ UNCHANGED <<admitted, effects, unsettled>>

(* GraphQL errors, which tell the points if they are charged and perhaps if *)
(* not; and 4xx answers, which do not.                                      *)
RefuseRequest(c) ==
    /\ \/ Charge(c) /\ AnswerWith(c, "rejected", points')
       \/ /\ \E told \in {Untold, points} : AnswerWith(c, "rejected", told)
          /\ UNCHANGED <<points, contended>>
    /\ UNCHANGED <<admitted, effects, unsettled>>

(* A server error, or no readable answer within 30 seconds.  The request may *)
(* have been taken in before; then it may still be carried out, or never.    *)
BreakDown(c) ==
    /\ \/ /\ "server" \in Faults[c]
          /\ AnswerWith(c, "5xx", Untold)
          /\ unsettled' = [unsettled EXCEPT ![c] = @ + 1]
       \/ /\ "network" \in Faults[c]
          /\ AnswerWith(c, "lost", Untold)
          /\ UNCHANGED unsettled
    /\ \/ /\ Charge(c)
          /\ admitted' = [admitted EXCEPT ![c] = @ + 1]
       \/ UNCHANGED <<points, contended, admitted>>
    /\ UNCHANGED effects

CarryOut(c) ==
    /\ admitted[c] > 0
    /\ admitted' = [admitted EXCEPT ![c] = @ - 1]
    /\ effects' = [effects EXCEPT ![c] = @ + 1]
    /\ UNCHANGED <<callVars, points, unsettled, contended, bucket>>

-----------------------------------------------------------------------------
Caller(c) ==
    \/ WaitForBudget(c) \/ WaitFails(c)
    \/ Receive(c) \/ ReceiveFails(c) \/ RaiseLast(c)

Answers(c) ==
    \/ Throttle(c) \/ Serve(c) \/ RefuseInput(c) \/ RefuseRequest(c)
    \/ BreakDown(c)

Next == Tick \/ \E c \in Calls : Caller(c) \/ Answers(c) \/ CarryOut(c)

(* Sleeps end, ready tasks run, and every request is answered or times out. *)
Fairness ==
    /\ WF_vars(Tick)
    /\ \A c \in Calls : WF_vars(pc[c] # "idle" /\ Caller(c)) /\ WF_vars(Answers(c))

Spec == Init /\ [][Next]_vars /\ Fairness

-----------------------------------------------------------------------------
(* Properties *)

(* Only a server error makes the client send again what Shopify may have     *)
(* taken in: a call is carried out once, plus once per 5xx answer, and never *)
(* more often than it has attempts (execute 140-172, and the move, which is  *)
(* not idempotent, 191-235).                                                 *)
RepeatsFollowServerErrors ==
    \A c \in Calls : /\ effects[c] + admitted[c] <= 1 + unsettled[c]
                     /\ effects[c] + admitted[c] <= MaxRetries

(* The bucket is read once and by many without reservation, but a call that *)
(* has the shop to itself is not throttled out of its three attempts, even  *)
(* from an empty bucket and a wrong copy: the back-off waits long enough    *)
(* for one query of the estimated cost (execute 157-163).                   *)
ThrottledOutMeansContended ==
    \A c \in Calls :
        pc[c] = "failed" /\ cause[c] = "throttled" /\ Cost[c] <= Estimate
            => c \in contended

(* What the callers in tools.py are told, success or failure and no more, is *)
(* right now and later: a repeated, throttled or late request of another or  *)
(* of the same call does not change it (execute, and the userErrors that     *)
(* move_inventory and set_inventory_quantity raise but add_tags_to_orders    *)
(* returns as data).                                                         *)
Outcome(c) ==
    CASE pc[c] = "ok" -> "success"
      [] pc[c] = "failed" -> "failure"
      [] OTHER -> "open"

Contract == INSTANCE WriteContract
    WITH Attempts <- MaxRetries,
         outcome <- [c \in Calls |-> Outcome(c)],
         done <- effects

ImplementsContract == Contract!ContractSpec

(* Every call comes to an end, also when Shopify throttles or fails: no task *)
(* of a workflow is stuck in the client.                                     *)
CallsEnd ==
    \A c \in Calls : pc[c] = "ready" ~> pc[c] \in {"ok", "failed"}
=============================================================================
