----------------------------- MODULE Detection -----------------------------
(***************************************************************************)
(* How runs come into being: Shopify's inventory_levels/update webhooks    *)
(* (app/routers/inventory_webhook.py), the reconciliation job              *)
(* (app/scheduler.py) and POST /detect, with the kill switch, the webhook  *)
(* ids and the scheduler's markers in Redis.  Runs themselves are those of *)
(* Workflow; here one stays open until an operator closes it, perhaps with *)
(* a correction of the stock -- which Shopify reports by a webhook again.  *)
(***************************************************************************)
EXTENDS Bands, FiniteSets, Functions

CONSTANTS
    Items,       \* inventory items, each at its location
    LookAlikes,  \* per item: those the job may take for it, it included: the
                 \* same item where the location's id ends like its own
    Levels,      \* quantities that occur
    Commitments, \* units of an item that may be committed to orders
    Ids,         \* webhook ids; a forgotten one serves as a fresh one
    Handlers,    \* webhook requests served at the same time
    Threshold,   \* discrepancy_threshold_pct
    MarkerLife,  \* life of a scheduler marker, in ticks of the clock
    Interval,    \* scheduler_interval_minutes, in the same ticks
    Faults       \* which failures happen: see FaultKinds

FaultKinds == {"redis", "shopify", "start", "mail", "crash"}

ASSUME DetectionAssumption ==
    /\ {} \notin {Items, Levels, Ids} /\ Levels \subseteq Int
    /\ LookAlikes \in [Items -> SUBSET Items] /\ \A i \in Items : i \in LookAlikes[i]
    /\ Commitments \subseteq Nat
    /\ Threshold \in Nat /\ MarkerLife \in Nat \ {0} /\ Interval \in Nat
    /\ Faults \subseteq FaultKinds

VARIABLES
    enabled,   \* the kill switch in Redis
    baseline,  \* per item: its baseline in Redis, if an operator set one
    stock,     \* per item: units available in Shopify
    committed, \* per item: units on hand but committed to orders
    event,     \* per id: what the webhook says
    inflight,  \* ids Shopify still delivers: no 200 so far
    seen,      \* ids marked in Redis
    admitted,  \* ids of which some delivery found the switch enabled
    served,    \* ids that started a run since they were marked
    pc,        \* per request: where it is between two awaits
    ticket,    \* per request: the id it is about
    expects,   \* per request: the baseline it resolved
    sched,     \* where the reconciliation job is
    todo,      \* items still to look at in this cycle
    item,      \* the item it looks at
    base,      \* the baseline it read for that item
    marker,    \* per item: ticks its marker still lives
    sleep,     \* ticks until the job wakes up
    runs       \* open runs: the item, and the quantity it should have

stockVars == <<baseline, stock, committed>>
shopifyVars == <<event, inflight>>
markVars == <<seen, admitted, served>>
requestVars == <<pc, ticket, expects>>
jobVars == <<sched, todo, item, base, marker, sleep>>
vars == <<enabled, stockVars, shopifyVars, markVars, requestVars, jobVars, runs>>

Optional(S) == {{}} \cup {{x} : x \in S}
Event == [item : Items, available : Levels, previous : Optional(Levels)]
Runs == [item : Items, expected : Levels]

RequestPCs == {"idle",      \* nothing to serve
               "received",  \* before the kill switch
               "admitted",  \* before SET NX of the webhook id
               "marked",    \* before the baseline
               "starting"}  \* answered; the background task runs
JobPCs == {"sleeping", "scanning", "reading", "checking", "firing"}

(* Some element of S: what a request or the job holds when it is idle. *)
Any(S) == CHOOSE x \in S : TRUE
Quiet == [item |-> Any(Items), available |-> Any(Levels), previous |-> {}]

TypeOK ==
    /\ enabled \in BOOLEAN
    /\ baseline \in [Items -> Optional(Levels)] /\ stock \in [Items -> Levels]
    /\ committed \in [Items -> Nat]
    /\ event \in [Ids -> Event] /\ inflight \subseteq Ids
    /\ seen \subseteq Ids /\ admitted \subseteq Ids /\ served \subseteq Ids
    /\ pc \in [Handlers -> RequestPCs]
    /\ ticket \in [Handlers -> Ids] /\ expects \in [Handlers -> Levels]
    /\ sched \in JobPCs /\ todo \subseteq Items /\ item \in Items
    /\ base \in Optional(Levels)
    /\ marker \in [Items -> 0..MarkerLife] /\ sleep \in 0..Interval
    /\ runs \subseteq Runs

Init ==
    /\ enabled = TRUE
    /\ baseline \in [Items -> Optional(Levels)] /\ stock \in [Items -> Levels]
    /\ committed \in [Items -> Commitments]
    /\ event = [d \in Ids |-> Quiet]
    /\ inflight = {} /\ seen = {} /\ admitted = {} /\ served = {}
    /\ pc = [h \in Handlers |-> "idle"]
    /\ ticket = [h \in Handlers |-> Any(Ids)]
    /\ expects = [h \in Handlers |-> Any(Levels)]
    /\ sched = "sleeping" /\ sleep = 0
    /\ todo = {} /\ item = Any(Items) /\ base = {}
    /\ marker = [i \in Items |-> 0]
    /\ runs = {}

-----------------------------------------------------------------------------
(* Shopify: stock changes, and every changed level is reported under an id  *)
(* of its own                                                               *)

Busy(d) == \E h \in Handlers : pc[h] # "idle" /\ ticket[h] = d
Unused == {d \in Ids \ (inflight \cup seen) : ~Busy(d)}

(* The webhook of item i; the payload may or may not carry the previous      *)
(* quantity.                                                                *)
Webhook(i, levels, told) ==
    [item |-> i, available |-> levels[i], previous |-> IF told THEN {stock[i]} ELSE {}]

(* Levels bounds what stock can become. *)
ChangeStock(levels) ==
    /\ levels \in [Items -> Levels] /\ levels # stock
    /\ stock' = levels
    /\ \E ids \in SUBSET Unused :
       \E about \in Bijection(ids, {i \in Items : levels[i] # stock[i]}), told \in SUBSET ids :
          /\ event' = [d \in Ids |-> IF d \in ids THEN Webhook(about[d], levels, d \in told)
                                                 ELSE event[d]]
          /\ inflight' = inflight \cup ids
          /\ admitted' = admitted \ ids

StockMoves ==
    /\ \E i \in Items, q \in Levels : ChangeStock([stock EXCEPT ![i] = q])
    /\ UNCHANGED <<enabled, baseline, committed, seen, served, requestVars, jobVars, runs>>

(* Shopify gives up on a webhook it could not deliver. *)
LoseWebhook ==
    /\ "mail" \in Faults
    /\ \E d \in inflight : inflight' = inflight \ {d}
    /\ UNCHANGED <<enabled, stockVars, event, markVars, requestVars, jobVars, runs>>

-----------------------------------------------------------------------------
(* Operators *)

SetBaseline ==
    /\ \E i \in Items, q \in Levels : baseline' = [baseline EXCEPT ![i] = {q}]
    /\ UNCHANGED <<enabled, stock, committed, shopifyVars, markVars, requestVars, jobVars,
                   runs>>

SetEnabled ==
    /\ enabled' = ~enabled
    /\ UNCHANGED <<stockVars, shopifyVars, markVars, requestVars, jobVars, runs>>

(* POST /detect: what the caller expects, whatever the switch says. *)
DetectAndInvestigate ==
    /\ \E r \in Runs : runs' = runs \cup {r}
    /\ UNCHANGED <<enabled, stockVars, shopifyVars, markVars, requestVars, jobVars>>

(* A run is over without a change of stock: rejected, held for review, or   *)
(* failed; or what it was to set was there already.                         *)
CloseRun ==
    /\ \E r \in runs : runs' = runs \ {r}
    /\ UNCHANGED <<enabled, stockVars, shopifyVars, markVars, requestVars, jobVars>>

(* An approved run corrects the stock.  Which of the two writes it proposed *)
(* is Resolution's subject; here it may be either.                          *)
correctionFrame == <<enabled, baseline, committed, seen, served, requestVars, jobVars>>

(* adjust_to_expected sets what is on hand, committed units included. *)
AdjustStock ==
    /\ \E r \in runs :
          /\ runs' = runs \ {r}
          /\ ChangeStock([stock EXCEPT ![r.item] = r.expected - committed[r.item]])
    /\ UNCHANGED correctionFrame

(* transfer_inventory adds the shortage the run was started with, which is  *)
(* not kept here: any that occurs.  It comes from another of the Items, or  *)
(* from a location whose events start nothing.                              *)
TransferStock ==
    /\ \E r \in runs, actual \in Levels :
          LET short == r.expected - actual IN
          /\ short > 0
          /\ runs' = runs \ {r}
          /\ \E source \in Optional(Items \ {r.item}) :
                ChangeStock([i \in Items |-> CASE i = r.item   -> stock[i] + short
                                              [] i \in source -> stock[i] - short
                                              [] OTHER       -> stock[i]])
    /\ UNCHANGED correctionFrame

-----------------------------------------------------------------------------
(* inventory_level_updated: one webhook request *)

Turn(h, how) == pc' = [pc EXCEPT ![h] = how]

(* The request is over; a finished request leaves nothing behind. *)
Rest(h) == /\ Turn(h, "idle")
           /\ ticket' = [ticket EXCEPT ![h] = Any(Ids)]
           /\ expects' = [expects EXCEPT ![h] = Any(Levels)]

(* 200, whatever came of it: Shopify does not deliver the event again. *)
Answer(h) == Rest(h) /\ inflight' = inflight \ {ticket[h]}

(* Faulty variant: the id is marked on arrival, before the switch is read. *)
DeliverMarking(h) ==
    /\ pc[h] = "idle"
    /\ \E d \in inflight : /\ ticket' = [ticket EXCEPT ![h] = d]
                           /\ seen' = seen \cup {d}
    /\ Turn(h, "received")
    /\ UNCHANGED <<enabled, stockVars, shopifyVars, admitted, served, expects, jobVars, runs>>

(* Shopify delivers at least once: also twice at the same time. *)
Deliver(h) ==
    /\ pc[h] = "idle"
    /\ \E d \in inflight : ticket' = [ticket EXCEPT ![h] = d]
    /\ Turn(h, "received")
    /\ UNCHANGED <<enabled, stockVars, shopifyVars, markVars, expects, jobVars, runs>>

(* Faulty variant: the switch is not looked at. *)
SwitchAlwaysOn == TRUE
SwitchOn == enabled

CheckSwitch(h) ==
    /\ pc[h] = "received"
    /\ \/ /\ SwitchOn
          /\ Turn(h, "admitted")
          /\ admitted' = admitted \cup {ticket[h]}
          /\ UNCHANGED <<ticket, expects, inflight>>
       \/ ~SwitchOn /\ Answer(h) /\ UNCHANGED admitted
    /\ UNCHANGED <<enabled, stockVars, event, seen, served, jobVars, runs>>

(* Faulty variant: SET without NX. *)
AlwaysNew(h) == ticket[h] \in Ids
IsNew(h) == ticket[h] \notin seen

CheckAndSet(h) ==
    /\ pc[h] = "admitted"
    /\ \/ /\ IsNew(h)
          /\ seen' = seen \cup {ticket[h]}
          /\ served' = served \ {ticket[h]}
          /\ Turn(h, "marked")
          /\ UNCHANGED <<ticket, expects, inflight>>
       \/ ~IsNew(h) /\ Answer(h) /\ UNCHANGED <<seen, served>>
    /\ UNCHANGED <<enabled, stockVars, event, admitted, jobVars, runs>>

(* Faulty variant: what Shopify says is preferred to what operators set. *)
ExpectedByPayload(e) == IF e.previous = {} THEN baseline[e.item] ELSE e.previous

(* The operator's baseline, else the previous quantity, else nothing. *)
ExpectedBy(e) == IF baseline[e.item] = {} THEN e.previous ELSE baseline[e.item]

Deviates(expected, actual) == Reaches(expected, actual, Threshold)

(* Reads the baseline, compares, answers; a run starts in the background. *)
ResolveBaseline(h) ==
    /\ pc[h] = "marked"
    /\ LET e == event[ticket[h]]
           bases == {b \in ExpectedBy(e) : Deviates(b, e.available)} IN
       \/ /\ bases = {}
          /\ Answer(h)
       \/ \E b \in bases :
             /\ Turn(h, "starting")
             /\ expects' = [expects EXCEPT ![h] = b]
             /\ inflight' = inflight \ {ticket[h]}
             /\ UNCHANGED ticket
    /\ UNCHANGED <<enabled, stockVars, event, markVars, jobVars, runs>>

(* _run_discrepancy_workflow logs the failure of a start and forgets it. *)
RunWorkflow(h) ==
    /\ pc[h] = "starting"
    /\ \/ /\ runs' = runs \cup {[item |-> event[ticket[h]].item, expected |-> expects[h]]}
          /\ served' = served \cup {ticket[h]}
       \/ "start" \in Faults /\ UNCHANGED <<runs, served>>
    /\ Rest(h)
    /\ UNCHANGED <<enabled, stockVars, shopifyVars, seen, admitted, jobVars>>

(* Redis does not answer: 500, and Shopify delivers the event again.  The  *)
(* SET may have been made.                                                 *)
RequestFails(h) ==
    /\ "redis" \in Faults
    /\ pc[h] \in {"received", "admitted", "marked"}
    /\ seen' \in {seen, IF pc[h] = "admitted" THEN seen \cup {ticket[h]} ELSE seen}
    /\ served' = served \ (seen' \ seen)
    /\ Rest(h)
    /\ UNCHANGED <<enabled, stockVars, shopifyVars, admitted, jobVars, runs>>

HandlerStep(h) == CheckSwitch(h) \/ CheckAndSet(h) \/ ResolveBaseline(h) \/ RunWorkflow(h)

(* A mark lives for an hour: longer than any request or start under it. *)
Working == {"marked", "starting"}
ForgetWebhook ==
    /\ \E d \in seen :
          /\ \A h \in Handlers : pc[h] \in Working => ticket[h] # d
          /\ seen' = seen \ {d} /\ served' = served \ {d}
    /\ UNCHANGED <<enabled, stockVars, shopifyVars, admitted, requestVars, jobVars, runs>>

-----------------------------------------------------------------------------
(* run_reconciliation, one item after the other *)

jobFrame == <<enabled, stockVars, shopifyVars, markVars, requestVars>>

WakeUp ==
    /\ sched = "sleeping" /\ sleep = 0
    /\ sched' = "scanning" /\ todo' = {i \in Items : baseline[i] # {}}
    /\ UNCHANGED <<jobFrame, item, base, marker, sleep, runs>>

ReadBaseline ==
    /\ sched = "scanning"
    /\ \E i \in todo : item' = i /\ todo' = todo \ {i} /\ base' = baseline[i]
    /\ sched' = "reading"
    /\ UNCHANGED <<jobFrame, marker, sleep, runs>>

(* get_inventory_levels returns every location of the item; the first one    *)
(* whose id ends with the wanted one is compared.                           *)
ReadLevel ==
    /\ sched = "reading"
    /\ \E i \in LookAlikes[item] :
          sched' = IF \E b \in base : Deviates(b, stock[i]) THEN "checking" ELSE "scanning"
    /\ UNCHANGED <<jobFrame, todo, item, base, marker, sleep, runs>>

(* No levels in the answer, or none for the location: the item is skipped. *)
NoLevel ==
    /\ sched = "reading" /\ "shopify" \in Faults
    /\ sched' = "scanning"
    /\ UNCHANGED <<jobFrame, todo, item, base, marker, sleep, runs>>

CheckMarker ==
    /\ sched = "checking"
    /\ \/ /\ marker[item] = 0
          /\ marker' = [marker EXCEPT ![item] = MarkerLife]
          /\ sched' = "firing"
       \/ marker[item] > 0 /\ sched' = "scanning" /\ UNCHANGED marker
    /\ UNCHANGED <<jobFrame, todo, item, base, sleep, runs>>

(* A start that fails is logged; the marker stays. *)
Fire ==
    /\ sched = "firing"
    /\ \/ \E b \in base : runs' = runs \cup {[item |-> item, expected |-> b]}
       \/ "start" \in Faults /\ UNCHANGED runs
    /\ sched' = "scanning"
    /\ UNCHANGED <<jobFrame, todo, item, base, marker, sleep>>

EndCycle ==
    /\ sched = "scanning" /\ todo = {}
    /\ sched' = "sleeping" /\ sleep' = Interval
    /\ UNCHANGED <<jobFrame, todo, item, base, marker, runs>>

(* An exception over one item (Redis, Shopify) only skips the item; the    *)
(* marker may have been set.                                               *)
ItemFails ==
    /\ Faults \cap {"redis", "shopify"} # {}
    /\ \/ sched \in {"reading", "checking"} /\ UNCHANGED marker
       \/ /\ sched = "checking" /\ marker[item] = 0
          /\ marker' = [marker EXCEPT ![item] = MarkerLife]
    /\ sched' = "scanning"
    /\ UNCHANGED <<jobFrame, todo, item, base, sleep, runs>>

(* The scan of the baseline keys fails: the whole cycle is given up. *)
CycleFails ==
    /\ sched = "sleeping" /\ sleep = 0 /\ "redis" \in Faults
    /\ sleep' = Interval
    /\ UNCHANGED <<jobFrame, sched, todo, item, base, marker, runs>>

JobStep == WakeUp \/ ReadBaseline \/ ReadLevel \/ CheckMarker \/ Fire \/ EndCycle

(* Faulty variant: a clock that does not stop at zero. *)
LessBelowZero(n) == n - 1
Less(n) == IF n > 0 THEN n - 1 ELSE 0

(* Faulty variant: markers are set without a TTL. *)
AgedNever == marker
Aged == [i \in Items |-> Less(marker[i])]

(* Time passes while the job sleeps, or works slowly. *)
Tick ==
    /\ sleep > 0 \/ \E i \in Items : marker[i] > 0
    /\ sleep' = Less(sleep) /\ marker' = Aged
    /\ UNCHANGED <<jobFrame, sched, todo, item, base, runs>>

(* A restart loses requests, background tasks and the job, which begins a  *)
(* cycle at once; Redis and the checkpoints of the runs survive.           *)
Restart ==
    /\ "crash" \in Faults
    /\ pc' = [h \in Handlers |-> "idle"]
    /\ ticket' = [h \in Handlers |-> Any(Ids)]
    /\ expects' = [h \in Handlers |-> Any(Levels)]
    /\ sched' = "sleeping" /\ sleep' = 0 /\ todo' = {}
    /\ UNCHANGED <<enabled, stockVars, shopifyVars, markVars, item, base, marker, runs>>

-----------------------------------------------------------------------------

External == StockMoves \/ SetBaseline \/ DetectAndInvestigate

Normal ==
    \/ External \/ SetEnabled \/ CloseRun \/ AdjustStock \/ TransferStock
    \/ \E h \in Handlers : Deliver(h) \/ HandlerStep(h)
    \/ ForgetWebhook \/ JobStep \/ Tick

Failure ==
    \/ LoseWebhook \/ NoLevel \/ ItemFails \/ CycleFails \/ Restart
    \/ \E h \in Handlers : RequestFails(h)

Next == Normal \/ Failure

Spec == Init /\ [][Next]_vars

(* The event loop runs its tasks and time passes; Shopify, operators and   *)
(* callers promise nothing.                                                *)
FairSpec == /\ Spec
            /\ WF_vars(JobStep) /\ WF_vars(Tick)
            /\ \A h \in Handlers : WF_vars(HandlerStep(h))

-----------------------------------------------------------------------------
(* Properties *)

(* No two runs start under one life of a webhook id's mark, however often  *)
(* and however concurrently the event is delivered (check_and_set in       *)
(* inventory_level_updated; "prevents duplicate workflow creation even     *)
(* under concurrent webhook delivery", ADR-002).                           *)
OneRunPerMark ==
    \A h \in Handlers : pc[h] = "starting" =>
        /\ ticket[h] \notin served
        /\ \A g \in Handlers : pc[g] = "starting" /\ ticket[g] = ticket[h] => g = h

(* An event that was only ever suppressed by the kill switch is not marked *)
(* as seen: it can be replayed ("not marked as idempotency-seen", ADR-008).*)
SuppressedReplayable == seen \subseteq admitted

(* The ledger implemented by the intake: every start uses up one mark, and  *)
(* every mark an event that was let in while the switch could be read and   *)
(* was on (is_enabled before check_and_set in inventory_level_updated, the  *)
(* start in its background task, the TTL of the mark).  With Redis out of   *)
(* reach nothing is let in: is_enabled raises and the request ends as a     *)
(* 500, although "if Redis is unreachable the switch defaults to enabled"   *)
(* (ADR-008).                                                               *)
Ledger == INSTANCE IntakeLedger WITH on <- enabled, marked <- seen, started <- served
ImplementsLedger == Ledger!LedgerSpec

(* When baselines and callers rest, every item has a baseline and stock is  *)
(* changed by approved adjustments only, these do not breed new webhook     *)
(* runs for ever, committed units or not: the event about one is compared   *)
(* with the baseline, not with what was there before (_resolve_baseline     *)
(* before previous_quantity).  Transfers are excepted: one that leaves its  *)
(* source short is followed by one back, and no document says that this     *)
(* ends.                                                                    *)
CorrectionsSettle ==
    /\ <>[](\A i \in Items : baseline[i] # {})
    /\ <>[][~External /\ (stock' # stock => AdjustStock)]_vars
    => <>[](\A h \in Handlers : pc[h] # "starting")

(* A discrepancy that stays, between a fixed baseline and fixed stock, is  *)
(* taken up by the job again and again once every step is a normal one, if *)
(* no other location is taken for the item's: no marker blocks it for good *)
(* (check_and_set with a TTL in run_reconciliation).                       *)
GapsResurface ==
    <>[][Normal]_vars =>
        \A i \in Items : \A b, q \in Levels : LookAlikes[i] = {i} /\ Deviates(b, q) =>
            (<>[](baseline[i] = {b} /\ stock[i] = q)
             => []<>(sched = "firing" /\ item = i))

(* Why: a request past CheckAndSet holds the mark of its id, alone, and    *)
(* nothing started since the mark was set; runs start under a mark, and    *)
(* marks are set for admitted events only.  Inductive; proved in           *)
(* DetectionProofs.                                                        *)
MarkInv ==
    \A h \in Handlers : pc[h] \in Working =>
        /\ ticket[h] \in seen /\ ticket[h] \notin served
        /\ \A g \in Handlers : pc[g] \in Working /\ ticket[g] = ticket[h] => g = h

AdmitInv ==
    /\ served \subseteq seen /\ seen \subseteq admitted
    /\ \A h \in Handlers : pc[h] \in Working \cup {"admitted"} => ticket[h] \in admitted

IntakeInv == TypeOK /\ MarkInv /\ AdmitInv
=============================================================================
