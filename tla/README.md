# Verification of the Shopify inventory discrepancy agent

TLA+ models of the agent in `src/`, TLC runs that check them on small instances, and TLAPS proofs
of their main safety properties for every instance. The subject is the code: definitions are
translated from it. Five runs show where it breaks a promise of its documents or comments (the findings
of `PROJECT.json`); section 3 also lists the disagreements that no run shows.

## 1. The system

A discrepancy between an expected and an actual stock level starts a *run* of a LangGraph graph:
`detect -> investigate -> propose`, an interrupt for a human decision, then
`apply_mutation -> verify -> notify -> audit`. Everything runs as asyncio tasks of one FastAPI
process; state lives in Redis (checkpoints, guard keys, registry, kill switch, scheduler markers),
PostgreSQL (audit rows), Shopify (stock, order tags), Google Sheets and Slack.

| Component | State it keeps | Operations | Talks to |
|---|---|---|---|
| Graph (`agent/graph.py`, `state.py`) | one checkpoint history per run | start_workflow, resume_workflow, get_current_state, routing | nodes, checkpointer |
| Nodes (`agent/nodes.py`) | the run's values (private copy per `ainvoke`) | detect, investigate, propose, apply_mutation, verify, notify, audit | tools, event router, Sentry |
| Tools (`agent/tools.py`) | mutation guard keys in Redis | adjust, transfer, tag, sheet row, audit row, three reads | Shopify client, Redis, DB, Sheets |
| Approval front ends (`routers/approvals.py`, `slack_actions.py`) | none | decide a run, list pending ones | graph, registry |
| Idempotency service (`services/idempotency.py`) | SET NX keys, pending registry, TTLs | check_and_set, save/delete/list | Redis |
| Intake (`routers/discrepancies.py`, `inventory_webhook.py`, `scheduler.py`) | webhook ids, baselines, scheduler markers | start a run | graph, registry, kill switch |
| Shopify client | rate-limit bucket in Redis | GraphQL with retries, stock writes | Shopify |
| Event router, notification worker, `/health` | heartbeat key | emit, deliver, pulse | Redis pub/sub, Slack |
| Weekly report, dashboard, admin | last-sent marker, kill switch | report, query, toggle | DB, Slack, Redis |
| Lifespan (`main.py`) | checkpointer choice, background tasks | start, stop | all of them |

### What is hard

* *Interleaving.* Nothing locks a run. Two clicks, or a click and the run's own starter, execute the
  same graph at once, each on its own copy of the values, and every node stores **all** values.
* *Check, then act.* The REST endpoint checks for a decision, the Slack button does not; both write
  the decision in a read-modify-write (`aupdate_state`) and then resume.
* *Retries.* The edge `verify -> apply_mutation` passes the interrupt again, and the guard key that
  protects the write is set before the call and kept when the call fails.
* *Crashes.* Tasks are never restarted; what survives depends on the checkpointer; the mode may change.
* *Time.* Guard keys (1 h), registry entries (24 h), checkpoints (no TTL) expire independently.
* *Quantities.* Bands, boundaries and stock that moves between report, proposal, approval and write.

`PROJECT.json` lists every hazard at its line, with the properties that cover it or why none does.

### What makes each component correct

* Graph, nodes, front ends: one decision pays for at most one write and one audit row; no write
  without an approval on that run; rejections made at the interrupt and retried runs reach the audit log;
  undecided proposals survive; shadow mode writes nothing; failed writes raise an alert.
* Tools and guard keys: at most one Shopify call per life of a key, across runs.
* Rules: only moderate and major gaps lead to writes; transfers fit their source, and are made where
  they can be; verification refuses a write only for a reason.
* Registry: no entry outlives its run for good.
* Intake and scheduler: one run per mark of a delivered event; nothing is marked or started by a
  webhook that the kill switch kept out; adjustments do not breed new runs; a gap that stays is taken
  up again.
* Shopify client: what it reports as done was done, where userErrors are read; only a server error makes
  it repeat what Shopify may have done; a call that has the shop to itself is not throttled out; every call ends.
* Notifications: posts come once and in order; the worker finds back to its channel and posts what it
  heard; `/health` raises no false alarm.
* Weekly report: at most one report a Monday, over restarts and outages, and at least an attempt on a
  Monday without any.

## 2. The modules

| Module | Models |
|---|---|
| `Workflow` | the graph, its interrupt and checkpoints, both front ends, guard keys, registry, mode, failures, restarts |
| `ApprovalGate` | the abstract promise: decisions, and what they are spent on |
| `WorkflowProperties` | the properties of `Workflow`, and the instance of `ApprovalGate` it implements |
| `WorkflowInvariant` | the inductive invariant behind the safety properties |
| `WorkflowProofs` | the TLAPS proofs about `Workflow`: decisions, guard keys, modes, the refinement |
| `OutcomeProofs` | further ones: alerts, decided rows, kept proposals |
| `LedgerProofs` | what writes and rows say about decisions, how many there can be, the count-down of every task, the whole invariant |
| `Resolution` | severity, transfer search, proposal, stock write and verification of one run |
| `ResolutionProofs` | the TLAPS proofs about `Resolution` |
| `Detection` | how runs start: webhooks, the reconciliation job, POST /detect; kill switch, webhook ids, markers |
| `IntakeLedger` | the abstract promise of the webhook: let in, marked, started once per mark |
| `DetectionProofs` | the TLAPS proofs about `Detection`, the refinement of `IntakeLedger` among them |
| `ShopifyClient` | one GraphQL call after another: budget wait, request, answer, back-off, retries, the shared bucket |
| `WriteContract` | the abstract promise of the client: what a caller may conclude from each outcome |
| `ShopifyClientProofs` | the TLAPS proofs about `ShopifyClient`, the refinement of `WriteContract` among them |
| `NotificationWorker` | the Redis channel, the subscription task, the heartbeat, the worker check of `/health` |
| `WeeklyReport` | the hourly report task and its key |
| `ServerLife` | the server process and its Redis, which those two share |
| `Background` | both tasks through stops and starts of the server and outages of Redis |
| `BackgroundProofs` | the TLAPS proofs about `Background` |
| `Bands` | percentages of a baseline, used by `Resolution` and `Detection` |
| `MCWorkflow`, `MCResolution`, `MCDetection`, `MCShopifyClient` | the instances TLC checks |

**Workflow.** A process is one `graph.ainvoke`: the *starter* of a run or a *click*. `pc` says where it
is between two awaits; `mem` is its copy of the run's values; `head` is the newest checkpoint.
`Checkpoint(p, v)` is the end of every node: `v` overwrites the head and the process goes on to the next
node, stops at the interrupt, or ends. A click runs `RestSubmit`/`SlackAction` (the check),
`LoadState` and `StoreDecision` (the two halves of `aupdate_state`), `Resume` (`ainvoke(None)`, which
continues from whatever the head is by then), then one action per branch of `apply_mutation`, `verify`,
`notify` and `audit`, split where another task can run: between setting the guard key and the
call, the call and the checkpoint, finding and appending the sheet row, the audit row and the
cleanup. A click that comes before the interrupt executes `detect`, `investigate` or `propose` a second
time, as LangGraph does. `TaskFails` is a Redis error that leaves `ainvoke`; `Restart` loses all tasks.
Kept of the values: the next node, the action, the decision, `mutation_applied`, whether `error` is
set, `retry_count`. Left out: texts, quantities (see `Resolution`), Slack and LLM answers.

**Resolution.** One run, approved and answered, on quantities; stock moves in any step before `verify`.
`LookAlikes` are the locations whose id contains the run's location id, which the code's substring
tests take for it: they are no transfer source, and verification may read one of them instead. `Bands`
compares integers where the code compares float percentages; for the thresholds in use (5, 20, 50) the two
agree, for an arbitrary one they need not.

**Detection.** A *handler* is one webhook request being served, with a step per await: the kill switch,
SET NX of the webhook id, the baseline; then the answer, and the background task (`RunWorkflow`).
Shopify delivers an event until it is answered, also twice at once. Redis failures answer 500 and may
leave the mark behind; a kill switch that cannot be read is such a failure. The reconciliation job is one task
that works through the items: baseline, level, marker, start. `LookAlikes` are, per item, the levels its
`endswith` test may take for the item's; an answer without a level skips the item (`NoLevel`), a failing
scan the whole cycle (`CycleFails`). Time is a clock of ticks that ages the markers and the job's sleep. A
run is only the quantity its item should have, until it is closed without a write (`CloseRun`) or corrects the
stock. `AdjustStock` sets what is on hand, so that what is available, and reported, falls short of it by the
committed units; `TransferStock` takes a shortage from another item of the model or from outside. Every level
that changes is the next event: a transfer between two items is two of them. `IntakeLedger` forgets
requests, payloads and the job: an event is *admitted* while the switch is on, *marked* only then, and
*started* once until its mark is forgotten. Left out: signature checks, the SKU lookup (any failure falls back
to the item id), malformed baseline keys. The registry entry and the graph behind a start are those of
`Workflow`, the choice between the two writes is that of `Resolution`.

**ShopifyClient.** A call of `execute` is *idle*, *ready* (sleeping for `timer`, then about to send), *answered*
(the answer is on its way back), or over. `WaitForBudget` reads the copy of the bucket in Redis, once per
call, as the code does; `Receive` is the loop body after the answer: the copy is overwritten, then the
call returns, raises, or sleeps and tries again. Shopify is the other half: it throttles when its
own bucket is short, serves, refuses, or breaks down. After a breakdown the request may have been
taken in (`admitted`) and be carried out at any later time. Time is in half-seconds and cost in what
Shopify restores in one of them (25 points, so `ESTIMATED_QUERY_COST` is 4); jitter is taken at its
shortest, and a task may always wake later. `Unread` are the calls of `add_tags_to_orders`, which never
looks at userErrors, so that a refused tagging is reported as done; the other methods raise. `WriteContract`
knows what the callers in `tools.py` know, *success* or *failure*: a success was carried out at least once, unless
the call is `Unread`, never more often than there are attempts; a failure means nothing, since Shopify may have
carried the call out, or still do. `Workflow` sees the client through `ShopifyCall`, where `landed` means that the
call was answered with success.

**NotificationWorker, WeeklyReport, Background.** The events are numbered as they are emitted; `inbox` is what
Redis has forwarded to the worker's connection, and goes with it. `worker` is where the subscription task
is: subscribing, listening, posting, or in the 5 s pause after an error. A lost Redis ends the
subscription, and redis-py may restore it by itself. Time for the heartbeat runs in steps of 300 s,
so that the TTL of 700 s is 3 and the limit of 600 s is 2; the heartbeat loop wakes when due. The
report's week has a slot before 8:00 on Monday, two after it (8 hours each) and the rest; `attempts`
counts the reports made this Monday and `posted` those Slack took. An outage of Redis can undo a key written in
the last second (`appendfsync everysec` in `docker-compose.yml`). Left out: whether Slack takes a
notification (the worker does the same either way), unknown event types, the figures of the report.

## 3. The runs

| Run | Instance | Question |
|---|---|---|
| `gate` | 1 run; a REST and a Slack click at any time; Shopify, Redis failures; restarts | Is every write and row paid for by a decision? One call per key? No failure without alert? Does a written run recorded as rejected have both decisions? Does every task only come closer to its end? |
| `restart` | 2 runs with one guard key, a Slack click each, after the interrupt; mode changes at restarts | Do proposals survive, is shadow mode silent, is every row decided? Is the invariant right when a key is shared? |
| `live` | 1 run, 2 clicks after the interrupt, fair event loop, Shopify failures | Do rejections reach the log, retried runs close, stale registry entries go? |
| `rules` | 3 locations, one of which is taken for the reported one; levels on both sides of each band | Are writes moderate, transfers sound, and made where they can be? Has every refused verification a reason? |
| `intake` | 1 item, 2 concurrent requests, 1 id, the job, every failure, fair tasks | Do duplicates start one run? Is every step one of the ledger? Are suppressed events replayable? Do adjustments settle, gaps resurface? |
| `client` | a move of cost 4 and a tagging of cost 1 on a bucket of 4; every kind of answer, Redis errors; 5xx for the move | Does the client keep its contract? Do only server errors repeat a write? Is a lone call safe from throttling? Does every call end? |
| `background` | 3 events, weeks of 4 slots; stops and starts, Redis outages at any time | Are posts single and ordered, alarms true, reports single, and attempted on quiet Mondays? Does the worker return, and post what it heard? |
| `retry_pauses` | | **violated:** "Retries apply_mutation up to 2 times ... then proceeds to notify" (nodes.py:516) |
| `rejected_written` | | **violated:** "On rejection: applies_mutation is skipped" (approvals.py:18) |
| `row_not_landed` | | **violated:** "audit record reflects verified ground truth" (ADR-005:28) |
| `expired_decided` | | **violated:** "24-hour TTL ... auto-expires unapproved workflows" (ADR-002:34) |
| `on_hand` | | **violated:** "confirm the inventory mutation actually took effect" (nodes.py:512) |

The violation runs are the findings of `PROJECT.json`; each takes the smallest instance that shows it.

**Disagreements without a run.** The models follow the code in these, too:
* Severity bands: `src/README.md:14` has "minor (<5%), moderate (5–15%), major (15–50%), critical (>50%)"; `nodes.py:26`
  has 5, 20 and 50, each band closed below, so that exactly 50 % is critical. `Resolution` has the code's.
* Kill switch: "if Redis is unreachable the switch defaults to enabled" (ADR-008:38); `is_enabled` catches
  nothing, the request ends as a 500 and Shopify delivers again (`RequestFails`). With Redis out of reach nothing is let in.
* Early rejections: "audit still runs" (`approvals.py:18`) is true of rejections made after the interrupt
  (`RejectionIsAudited`). The request is posted before the interrupt is stored. A REST rejection that `RestSubmit` lets
  through before that, or a press of the Slack button, is stored by `StoreDecision`; the interrupt checkpoint of the
  starter then replaces it, or its own resumption runs `propose` again and stops at the interrupt, and the run stays
  undecided. With `Patient = FALSE` and without the property's premise, `live` fails in this way.
* Tagging: `update_order_tags_for_hold` reports success for orders Shopify refused to tag (`shopify_client.py:314-324` reads no
  userErrors). The contract exempts those calls.
* Transfers: "without inflating total inventory counts when stock exists elsewhere" (ADR-010:41) does not hold for stock at a location
  whose id contains the reported one's: it is passed over and the shortage adjusted away. `ShortagesAreMoved` leaves those out.
* Loops of transfers: with baselines 20 and 24 and stock 16 and 24, a transfer of 4 repairs the first location and makes the second one
  short by 4, and so on, with an operator who approves each. No document promises that this ends;
  `CorrectionsSettle` is about adjustments.
* Weekly report: its key "prevents duplicates on restart" (ADR-014), but for a restart or outage that comes between the post and
  the stored key (`cutOff` in `OneReport`).

**Bounds.** Two clicks are what a race needs: every argument about a run is about one click and
another one, and the proofs show that nothing depends on the number. Two runs with one target are
what a shared guard key needs. There are no counters besides `retry_count`, bounded by the code.
In `rules`, against a baseline of 20 the levels 19, 16, 11 and 10 lie on or next to the 5, 20 and
50 % bands; the depot's 9, 4 and 1 units cover some gaps, one of them exactly, or none; the annex, whose id
contains the reported location's, is at that one's baseline or not; order counts 5 and 6 lie at the `> 5` test. Deadlock is not checked: a system whose
tasks have all ended has nothing left to do. In `intake` there is one item: transfers come from outside of it only, and no other item is taken for it; the proofs have
any items. The levels 19 and 20 are off by 5 % and 5.26 %
of each other, both sides of a correction, and one unit may be committed; one id is enough because an id that Shopify has stopped
delivering and Redis has forgotten serves as a fresh one; the marker and the interval last one tick
each, like the 3600 s and 60 minutes of the code. In `client` two calls are what contention and a stale copy of
the bucket need; the bucket holds one move, at the estimated cost, so that the other call always makes a
difference; three attempts are the code's. Server errors meet only the move: with both calls repeating theirs the states
are ten times as many, and the proofs have any calls and failures. In `background` the third event can be emitted while the first is being posted and the
second waits; a week of 4 slots passes in as many steps, and dates alternate, so that a key that outlives its day
is told from a new one.

**Failures per run.** `gate` includes failing Shopify calls, Redis errors and crashes at every step;
see each configuration's `Faults` for the others (sheet failures occur in `live` only). `Patient` (operators decide
after the graph has reached its interrupt) is assumed in `restart` and `live`, whose properties say so, and in the four
violation runs of `Workflow`, which need no early click to be violated. `gate` does without. An early click can lose its
decision and leave a row without one, or a rejection without a row. `restart` also assumes the Redis checkpointer
(`Durable`): under the MemorySaver fallback a restart loses every undecided proposal.

**Fairness.** Weak fairness of each task's steps (the event loop runs every ready task; no task
blocks) and of key expiry in Redis. None for operators, new runs, failures or crashes. The liveness of
`live` is checked without crashes: nothing in the code resumes a lost task. In `intake` fairness is that
of the request tasks, the job and the clock; `GapsResurface` assumes that failures cease and
`CorrectionsSettle` that baselines and callers come to rest and that adjustments alone still change the stock, both as
premises of the property.
In `client` fairness is that of time, of each call's own steps, and of answers: `httpx` gives up after 30 s, which
counts as an answer. Shopify is not obliged to carry out what it lost. In `background` only the subscription task is fair; `WorkerReturns` assumes
that server and Redis stay up from some time on, and `HeardIsPosted` excuses events caught by an outage.

**Mutants.** Each property of each passing run has a faulty variant of a modelled definition in
`PROJECT.json` (a dropped guard, an off-by-one, a volatile checkpointer) that violates it.

## 4. The proofs

All are for arbitrary constants, under `ConstantsAssumption`, `ResolutionAssumption`, `DetectionAssumption`,
`ClientAssumption`, `UnreadAssumption`, `FaultAssumption`, `WorkerAssumption` and `ReportAssumption`, which state the types of the constants, that Shopify's bucket
holds one query of the estimated cost, and that a week has days besides Monday.

`Workflow`: the invariant `Inv` of `WorkflowInvariant` is inductive, part by part.
* `TypeInv`: types, and `retries < MaxVerify` until the graph is past verify. Without that bound the
  increment in verify could leave the type. => `TypeCorrect`.
* `KeyInv`: a click between SET NX and the call holds its key alone, and nobody called since it was
  set. `OneCallPerKey` alone is not inductive: two callers could share a key. => `GuardsExclude`.
* `DecisionInv`: every copy of an approval (head, memory, row) is backed by a stored decision on
  that run; only a click inside `aupdate_state` is ahead of its own. => `AuditQuotes`.
* `SpendInv`: who can still reach the call has not written, who can still reach audit has no row.
  With `DecisionInv` it gives the step simulation: StoreDecision is `Decide`; ApplyHold and
  ShopifyCall are `Write` or a stutter; AuditWrite is `Audit` or a stutter; all else stutters.
  => `DecisionsPayOnce`, and `WorkflowImplementsGate`, a refinement theorem.
* `ModeInv`: a click at the call passed the mode test in this life of the server. => `ShadowIsSilent`.
* `AlertInv` (in `OutcomeProofs`): a click whose call did not land carries the error in its memory until its own audit raises
  it, or the task ends before. => `FailuresAreReported`. It says nothing of a checkpoint that another click resumes.
* `OrderInv`: with `Patient` operators and a `Durable` checkpointer, a click is accepted only when the starter is
  through, so that no copy without the decision is left to overwrite it. Both premises are needed: the
  theorems state them. => `RowsHaveDecisions`, `ProposalsAreKept`.
* `LogInv` (in `LedgerProofs`): a writer has its decision and an approval of its run behind it; a row says which
  decision it closes, quotes that run, and is the only one to do so. => `OnlyContestedRunsMislead` and
  `DecisionsBoundEffects`: the map from rows (and writers) to the decisions of a run is injective, so there are no more of them.

`WorkflowInductive` is the conjunction of all.

*Count-down.* `StepsLeft` numbers the places of a task along the graph. `NoTaskGoesRound` shows that every
step of a task lowers its number and that no other step raises it: a task takes at most 17 steps, in spite of
the retry edge, of other tasks that move the checkpoint under it, and of a click that resumes before the interrupt. This is the safety half of
termination; that a task does take its steps is fairness, and stays with TLC.

*How far the findings reach.* Two theorems delimit what the violation runs show. `SingleRejectionsHold`: where
operators make one decision per run, "rejected" does mean untouched, so `rejected_written` needs two. `UncommittedWritesStand`:
without committed units, and where no location id contains another, a write on quiet stock is not refuted,
so `on_hand` turns on committed units alone. The properties in their conclusions are those of the violation runs,
whose instances break the premises.

The proofs go through three frame lemmas (`LocalTyped`, `DecisionFrame`, `SpendFrame`) about a step that moves
one task, and one lemma per group of actions.

`Detection`: `IntakeInv`. A request past SET NX holds the mark of its id, alone, and no run started since
the mark was set (`MarkInv`); marks are set for admitted events only (`AdmitInv`). => `MarksExclude`,
`SuppressionLeavesNoMark`, `TypeCorrect`. It also gives `IntakeImplementsLedger`, step by step: what served an id was
marked, so that a start is a first one, and a mark is set by a request that passed the switch.

`Resolution`: typing, moderation of writes and soundness of transfers, from an invariant that says
which fields are final at which stage; arithmetic is left to the SMT solver. `QuietInv` adds that without
disturbance the report and the levels seen are still Shopify's when the transfer is made
(=> `TransfersRestore`). `ShortagesMove` needs in addition that a richest candidate exists (`SourcesExist`): for finitely many
locations, since an infinite set of levels need have no maximum. The lemma goes through the well-founded order of finite
sets, not through induction. `RefutedInv` gives the reasons of a refusal (=> `RefutationsAreExplained`). `HeldInv` ties a hold to severity and order count; with the monotonicity of `Reaches` it gives
`OnlyGraveRunsAreHeld`: past the intake's threshold no run is held for being too small.

`ShopifyClient`: `ClientInv`. Requests taken in or carried out are counted against attempts and server errors
(=> `RepeatsAreExcused`); a call that saw no other one charged finds, after each back-off, at least as many points as the
sleeps have restored, so that its third attempt meets a bucket of 4 (=> `BackoffRestoresBudget`); a success of a call that reads
userErrors belongs to a request carried out (=> `ClientImplementsContract`, step by step a step of `WriteContract` or a stutter),
and after no server error to a single one, with none on its way (=> `SuccessesAreOnce`).
`CallRank` counts the moves a call has left: `CallsTakeEightMoves` is the safety half of `CallsEnd`.

`Background`: `IInv`. The posts, then the inbox, then the number emitted are one increasing sequence
(=> `PostsAreOrdered`); in calm, a step of time follows a pulse, and of two such steps one has a pulse
between, so that the key is younger than the limit
(=> `NoFalseAlarm`); the key stands for this Monday's date while a report was made and not cut off, and lives to
the end of the day (=> `ReportsOnce`); a subscription stands only between a worker that listens or posts and a Redis that is there
(`LinkInv`), and on it nothing heard is dropped (=> `SubscriptionsLoseNothing`, the safety half of `HeardIsPosted`); on a quiet Monday the task is looking or has tried (=> `ReportsEveryMonday`).

Only model-checked, because liveness is out of the prover's reach: `RejectionIsAudited`, `RetryCloses`, `RegistryDrains`,
`CorrectionsSettle`, `GapsResurface`, `CallsEnd`, `WorkerReturns`, `HeardIsPosted`. All other properties of the passing runs
are proved.

## 5. Not modelled

* LLM prompts and answers, LangFuse, message layouts, HTTP authentication and signature checks: no state of
  the system depends on them beyond what the models let be arbitrary.
* The dashboard, and the figures of the weekly report: read-only queries over the audit rows. What the
  dashboard's list of pending runs assumes is `RowsAreDecided`.
* Migrations, seeding and registration scripts, deployment: no concurrent state of their own.
* A connection to Redis that hangs without an error: whether `listen()` then ever returns depends on the
  network and on settings the code leaves at their defaults. `WorkerReturns` is about connections that fail.
* A heartbeat loop that wakes late: the event loop is taken to be prompt within 300 s.
* Writes carried out after the client gave up are in `ShopifyClient` (after a *failure*), not in `Workflow`, whose rows and alerts are about
  what the client was told.
* `Detection` and `Workflow` are joined only by the start of a run, and `Workflow` and `Resolution` only by the node order: the
  product of their states is far beyond TLC. Two runs of one item that are decided one after the
  other are covered on the side of control (a shared guard key in `restart`), not of quantities.
* The kill switch covers new webhooks only (ADR-008:37): that POST /detect and the reconciliation job start runs whatever it
  says is in `Detection` and not forbidden by any property.
