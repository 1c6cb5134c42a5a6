------------------------------ MODULE Workflow ------------------------------
(***************************************************************************)
(* The approval-gated discrepancy workflow: the LangGraph graph of         *)
(* app/agent/graph.py, its nodes (app/agent/nodes.py), the tools that      *)
(* write to Shopify (app/agent/tools.py), and the two front ends that      *)
(* resume a paused run, the REST endpoint and the Slack button.            *)
(*                                                                         *)
(* A process is one asyncio task executing graph.ainvoke: the run's own    *)
(* starter (a background task of the intake endpoint), or one operator     *)
(* decision, a "click", that resumes the run.  Tasks interleave at awaits  *)
(* and nothing locks a run.  Each ainvoke works on a private copy of the   *)
(* run's values (mem) and every node returns {**state, ...}: storing its   *)
(* checkpoint overwrites all of the run's head checkpoint.                 *)
(***************************************************************************)
EXTENDS Naturals, FiniteSets

CONSTANTS
    Runs,         \* workflow runs (LangGraph threads), each with one starter
    Clicks,       \* operator decisions: REST posts and Slack button presses
    SlackClicks,  \* the clicks that come from Slack
    OnRun,        \* the run each click is about
    Targets,      \* (inventory item, location, quantity) a run would write
    TargetOf,     \* the target of each run
    Modes,        \* deployed AGENT_MODEs: TRUE for "shadow", FALSE for "live"
    Durable,      \* the checkpointer is Redis, not the MemorySaver fallback
    Patient,      \* operators decide only after the run reached its interrupt
    Faults        \* which failures happen: see FaultKinds

FaultKinds == {"shopify", "db", "redis", "sheets", "crash"}

ASSUME ConstantsAssumption ==
    /\ Runs \cap Clicks = {}
    /\ SlackClicks \subseteq Clicks
    /\ OnRun \in [Clicks -> Runs]
    /\ TargetOf \in [Runs -> Targets]
    /\ Modes \subseteq BOOLEAN /\ {Durable, Patient} \subseteq BOOLEAN
    /\ Faults \subseteq FaultKinds

VARIABLES
    head,     \* per run: the newest checkpoint ("absent" before the first)
    pc,       \* per process: where it is between two awaits
    mem,      \* per process: its private copy of the run's values
    verdict,  \* per click: what the operator chose
    decided,  \* clicks whose decision was stored in the head checkpoint
    guards,   \* live "SET NX" idempotency keys in Redis
    window,   \* per key: clicks that called Shopify since the key was set
    writers,  \* clicks that issued a Shopify write
    landed,   \* clicks whose Shopify write was answered with success
    sheet,    \* clicks that appended a Google Sheets row
    rows,     \* PostgreSQL audit rows
    alerts,   \* clicks that captured a Sentry message
    pending,  \* runs in the Redis registry of pending approvals
    asked,    \* runs whose approval request was emitted to Slack
    shadow    \* AGENT_MODE of the running server

operatorVars == <<verdict, decided>>
shopifyVars == <<guards, window, writers, landed>>
logVars == <<sheet, rows, alerts>>
registryVars == <<pending, asked>>
vars == <<head, pc, mem, operatorVars, shopifyVars, logVars, registryVars, shadow>>

-----------------------------------------------------------------------------

Processes == Runs \cup Clicks

RunOf(p) == IF p \in Runs THEN p ELSE OnRun[p]

Actions == {"adjust", "hold", "transfer"}

(* The keys of the mutation guard name the tool and its arguments, not the run. *)
Keys == {"adjust", "transfer"} \X Targets
KeyOf(p) == <<mem[p].action, TargetOf[RunOf(p)]>>

MaxVerify == 2   \* the literal 2 of _route_after_verify

Nodes == {"detect", "investigate", "propose", "apply_mutation",
          "verify", "notify", "audit", "end"}

(* The part of DiscrepancyState the properties tell apart, with the graph's *)
(* next node.  shadowed, verification_passed and the texts are left out:    *)
(* the first two are consumed in the step that sets them.                   *)
Values == [next     : Nodes \cup {"absent"},
           action   : Actions \cup {"none"},
           approval : {"none", "approved", "rejected"},
           applied  : BOOLEAN,
           error    : BOOLEAN,
           retries  : 0..MaxVerify]

Blank == [next |-> "absent", action |-> "none", approval |-> "none",
          applied |-> FALSE, error |-> FALSE, retries |-> 0]

Initial == [Blank EXCEPT !.next = "detect"]

Row == [by : Clicks, run : Runs, approved : {"none", "approved", "rejected"},
        resolution : Actions \cup {"none", "rejected"}]

PCs == {"idle",       \* not started
        "running",    \* in ainvoke, at the start of node mem.next
        "asked",      \* propose: request emitted, checkpoint not yet stored
        "listing",    \* starter: at the interrupt, before save_workflow_state
        "checked",    \* click: accepted, before aupdate_state
        "loaded",     \* aupdate_state: checkpoint read, not yet written back
        "stored",     \* decision stored, before ainvoke(None)
        "calling",    \* apply_mutation: key set, before the Shopify call
        "called",     \* apply_mutation: Shopify answered, before checkpoint
        "appending",  \* notify: no sheet row found, before append_row
        "cleanup",    \* audit: row attempted, before delete_workflow_state
        "closed",     \* reached END
        "done",       \* paused, refused, or nothing left to do
        "failed",     \* an exception reached the caller
        "dead"}       \* lost with the server process

Stopped == {"closed", "done", "failed", "dead"}
Underway == PCs \ (Stopped \cup {"idle"})

TypeOK ==
    /\ head \in [Runs -> Values]
    /\ pc \in [Processes -> PCs]
    /\ mem \in [Processes -> Values]
    /\ verdict \in [Clicks -> {"none", "approved", "rejected"}]
    /\ decided \subseteq Clicks
    /\ guards \subseteq Keys
    /\ window \in [Keys -> SUBSET Clicks]
    /\ writers \subseteq Clicks
    /\ landed \subseteq Clicks
    /\ sheet \subseteq Clicks
    /\ rows \subseteq Row
    /\ alerts \subseteq Clicks
    /\ pending \subseteq Runs
    /\ asked \subseteq Runs
    /\ shadow \in BOOLEAN

Init ==
    /\ head = [r \in Runs |-> Blank]
    /\ pc = [p \in Processes |-> "idle"]
    /\ mem = [p \in Processes |-> Blank]
    /\ verdict = [c \in Clicks |-> "none"]
    /\ window = [k \in Keys |-> {}]
    /\ decided = {} /\ guards = {} /\ writers = {} /\ landed = {}
    /\ sheet = {} /\ rows = {} /\ alerts = {} /\ pending = {} /\ asked = {}
    /\ shadow \in Modes

-----------------------------------------------------------------------------
(* Checkpoints *)

At(p, node) == pc[p] = "running" /\ mem[p].next = node

(* Faulty variant: the retry edge verify -> apply_mutation does not pause. *)
AfterPausingOnce(p, v) ==
    IF v.next = "apply_mutation" /\ v.retries = 0
    THEN IF p \in Runs THEN "listing" ELSE "done"
    ELSE IF v.next = "end" THEN "closed"
    ELSE "running"

(* Where a process goes after storing checkpoint v: on to the next node; to *)
(* the end; or, before apply_mutation, it stops at the interrupt -- always, *)
(* because only the first node of an ainvoke(None) is exempt.               *)
After(p, v) ==
    IF v.next = "apply_mutation" THEN IF p \in Runs THEN "listing" ELSE "done"
    ELSE IF v.next = "end" THEN "closed"
    ELSE "running"

Stop(p, how) == /\ pc' = [pc EXCEPT ![p] = how]
                /\ mem' = [mem EXCEPT ![p] = Blank]

Checkpoint(p, v) ==
    /\ head' = [head EXCEPT ![RunOf(p)] = v]
    /\ pc' = [pc EXCEPT ![p] = After(p, v)]
    /\ mem' = [mem EXCEPT ![p] = IF After(p, v) = "running" THEN v ELSE Blank]

-----------------------------------------------------------------------------
(* The starter: start_workflow and save_workflow_state *)

StartWorkflow(r) ==
    /\ pc[r] = "idle"
    /\ pc' = [pc EXCEPT ![r] = "running"]
    /\ mem' = [mem EXCEPT ![r] = Initial]
    /\ head' = [head EXCEPT ![r] = Initial]
    /\ UNCHANGED <<operatorVars, shopifyVars, logVars, registryVars, shadow>>

(* detect and investigate only compute: their tool failures are swallowed. *)
Detect(p) ==
    /\ At(p, "detect")
    /\ Checkpoint(p, [mem[p] EXCEPT !.next = "investigate"])
    /\ UNCHANGED <<operatorVars, shopifyVars, logVars, registryVars, shadow>>

Investigate(p) ==
    /\ At(p, "investigate")
    /\ Checkpoint(p, [mem[p] EXCEPT !.next = "propose"])
    /\ UNCHANGED <<operatorVars, shopifyVars, logVars, registryVars, shadow>>

(* propose_resolution emits the approval request while it is still running. *)
Propose(p) ==
    /\ At(p, "propose")
    /\ \E a \in Actions : mem' = [mem EXCEPT ![p].action = a]
    /\ pc' = [pc EXCEPT ![p] = "asked"]
    /\ asked' = asked \cup {RunOf(p)}
    /\ UNCHANGED <<head, operatorVars, shopifyVars, logVars, pending, shadow>>

Interrupt(p) ==
    /\ pc[p] = "asked"
    /\ Checkpoint(p, [mem[p] EXCEPT !.next = "apply_mutation"])
    /\ UNCHANGED <<operatorVars, shopifyVars, logVars, registryVars, shadow>>

(* Runs after start_workflow returned: a decision may already be in. *)
SaveWorkflowState(r) ==
    /\ pc[r] = "listing"
    /\ pending' = pending \cup {r}
    /\ pc' = [pc EXCEPT ![r] = "done"]
    /\ UNCHANGED <<head, mem, operatorVars, shopifyVars, logVars, asked, shadow>>

-----------------------------------------------------------------------------
(* An operator's decision *)

AtInterrupt(r) == head[r].next \notin {"absent", "detect", "investigate", "propose"}

Choose(c) == \E v \in {"approved", "rejected"} : verdict' = [verdict EXCEPT ![c] = v]

(* submit_approval: get_current_state, then 409 if a decision is there.  A *)
(* run without a checkpoint reads as undecided.                            *)
RestSubmit(c) ==
    /\ c \notin SlackClicks /\ pc[c] = "idle"
    /\ Patient => AtInterrupt(OnRun[c])
    /\ \/ /\ head[OnRun[c]].approval = "none"
          /\ pc' = [pc EXCEPT ![c] = "checked"]
          /\ Choose(c)
       \/ /\ head[OnRun[c]].approval # "none"
          /\ pc' = [pc EXCEPT ![c] = "done"]
          /\ UNCHANGED verdict
    /\ UNCHANGED <<head, mem, decided, shopifyVars, logVars, registryVars,
                   shadow>>

(* handle_slack_action: the resumption is launched whatever was decided.   *)
SlackAction(c) ==
    /\ c \in SlackClicks /\ pc[c] = "idle"
    /\ OnRun[c] \in asked
    /\ Patient => AtInterrupt(OnRun[c])
    /\ pc' = [pc EXCEPT ![c] = "checked"]
    /\ Choose(c)
    /\ UNCHANGED <<head, mem, decided, shopifyVars, logVars, registryVars,
                   shadow>>

(* Faulty variant: a falsy decision is not injected ("if approved:"). *)
WithApprovalOnly(h, c) ==
    IF verdict[c] = "approved" THEN [h EXCEPT !.approval = "approved"] ELSE h

WithDecision(h, c) == [h EXCEPT !.approval = verdict[c]]

(* aupdate_state reads the head, then stores it with the decision: the two *)
(* halves of a read-modify-write.  Without a checkpoint the resume raises  *)
(* and leaves nothing the run can use.                                     *)
LoadState(c) ==
    /\ c \in Clicks /\ pc[c] = "checked"
    /\ LET h == head[OnRun[c]] IN
       \/ /\ h.next # "absent"
          /\ mem' = [mem EXCEPT ![c] = WithDecision(h, c)]
          /\ pc' = [pc EXCEPT ![c] = "loaded"]
       \/ h.next = "absent" /\ Stop(c, "failed")
    /\ UNCHANGED <<head, operatorVars, shopifyVars, logVars, registryVars,
                   shadow>>

StoreDecision(c) ==
    /\ c \in Clicks /\ pc[c] = "loaded"
    /\ head' = [head EXCEPT ![OnRun[c]] = mem[c]]
    /\ decided' = decided \cup {c}
    /\ Stop(c, "stored")
    /\ UNCHANGED <<verdict, shopifyVars, logVars, registryVars, shadow>>

(* graph.ainvoke(None): continue from whatever the head is now. *)
Resume(c) ==
    /\ c \in Clicks /\ pc[c] = "stored"
    /\ LET h == head[OnRun[c]] IN
       \/ h.next = "end" /\ Stop(c, "done")
       \/ /\ h.next # "end"
          /\ mem' = [mem EXCEPT ![c] = h]
          /\ pc' = [pc EXCEPT ![c] = "running"]
    /\ UNCHANGED <<head, operatorVars, shopifyVars, logVars, registryVars,
                   shadow>>

-----------------------------------------------------------------------------
(* apply_mutation *)

ApplyNotApproved(c) ==
    /\ At(c, "apply_mutation") /\ mem[c].approval # "approved"
    /\ Checkpoint(c, [mem[c] EXCEPT !.next = "verify", !.applied = FALSE])
    /\ UNCHANGED <<operatorVars, shopifyVars, logVars, registryVars, shadow>>

ApplyShadowed(c) ==
    /\ At(c, "apply_mutation") /\ mem[c].approval = "approved"
    /\ shadow
    /\ Checkpoint(c, [mem[c] EXCEPT !.next = "verify", !.applied = FALSE,
                                    !.error = FALSE])
    /\ UNCHANGED <<operatorVars, shopifyVars, logVars, registryVars, shadow>>

(* Faulty variant: the node trusts the interrupt and ignores the mode. *)
LiveInAnyMode(c) == At(c, "apply_mutation") /\ mem[c].approval = "approved"

(* Faulty variant: the node takes having been resumed for an approval. *)
LiveUnapproved(c) == At(c, "apply_mutation") /\ ~shadow

(* The node goes on to Shopify: approved, and in live mode. *)
Live(c) ==
    /\ At(c, "apply_mutation") /\ mem[c].approval = "approved"
    /\ ~shadow

(* hold_for_review tags the open orders, if any; the tool's success flag is *)
(* not looked at.                                                           *)
ApplyHold(c) ==
    /\ Live(c) /\ mem[c].action = "hold"
    /\ \/ UNCHANGED <<writers, landed>>
       \/ writers' = writers \cup {c} /\ landed' = landed \cup {c}
       \/ "shopify" \in Faults /\ writers' = writers \cup {c} /\ UNCHANGED landed
    /\ mem' = [mem EXCEPT ![c].applied = TRUE, ![c].error = FALSE]
    /\ pc' = [pc EXCEPT ![c] = "called"]
    /\ UNCHANGED <<head, operatorVars, guards, window, logVars, registryVars,
                   shadow>>

(* Faulty variants: SET without NX; tagging takes a guard key like a write. *)
KeyFreeUnchecked(c) == KeyOf(c) \in Keys
KeyFreeForAny(c) == KeyOf(c) \notin guards

KeyFree(c) == KeyOf(c) \in Keys \ guards

(* The guard key exists: report success without calling Shopify. *)
ApplyDeduped(c) ==
    /\ Live(c) /\ KeyOf(c) \in guards
    /\ Checkpoint(c, [mem[c] EXCEPT !.next = "verify", !.applied = TRUE,
                                    !.error = FALSE])
    /\ UNCHANGED <<operatorVars, shopifyVars, logVars, registryVars, shadow>>

SetGuard(c) ==
    /\ KeyFree(c)
    /\ guards' = guards \cup {KeyOf(c)}
    /\ window' = [window EXCEPT ![KeyOf(c)] = {}]

ApplyGuard(c) ==
    /\ Live(c) /\ SetGuard(c)
    /\ pc' = [pc EXCEPT ![c] = "calling"]
    /\ UNCHANGED <<head, mem, operatorVars, writers, landed, logVars,
                   registryVars, shadow>>

(* SET NX itself fails: apply_mutation catches it like any tool error.  The *)
(* key may have been set before the answer was lost.                        *)
ApplyGuardFails(c) ==
    /\ Live(c) /\ KeyOf(c) \in Keys
    /\ "redis" \in Faults
    /\ SetGuard(c) \/ UNCHANGED <<guards, window>>
    /\ Checkpoint(c, [mem[c] EXCEPT !.next = "verify", !.applied = FALSE,
                                    !.error = TRUE])
    /\ UNCHANGED <<operatorVars, writers, landed, logVars, registryVars, shadow>>

(* The Shopify client call.  It raises on any failure, after which Shopify *)
(* may or may not have applied the write; the key stays set.               *)
ShopifyCall(c) ==
    /\ pc[c] = "calling"
    /\ writers' = writers \cup {c}
    /\ window' = [window EXCEPT ![KeyOf(c)] = @ \cup {c}]
    /\ pc' = [pc EXCEPT ![c] = "called"]
    /\ \/ /\ landed' = landed \cup {c}
          /\ mem' = [mem EXCEPT ![c].applied = TRUE, ![c].error = FALSE]
       \/ /\ "shopify" \in Faults /\ UNCHANGED landed
          /\ mem' = [mem EXCEPT ![c].applied = FALSE, ![c].error = TRUE]
    /\ UNCHANGED <<head, operatorVars, guards, logVars, registryVars, shadow>>

ApplyReturn(c) ==
    /\ pc[c] = "called"
    /\ Checkpoint(c, [mem[c] EXCEPT !.next = "verify"])
    /\ UNCHANGED <<operatorVars, shopifyVars, logVars, registryVars, shadow>>

-----------------------------------------------------------------------------
(* verify, notify, audit *)

(* Faulty variants: one retry too many; a verdict that clears an old error;  *)
(* a verification that is not skipped for what was never applied.           *)
RouteAfterVerifyLate(passed, retries) ==
    IF passed \/ retries > MaxVerify THEN "notify" ELSE "apply_mutation"
ErrorCleared(passed, error) == ~passed
SkipOnlyHold(v) == v.action = "hold"

RouteAfterVerify(passed, retries) ==
    IF passed \/ retries >= MaxVerify THEN "notify" ELSE "apply_mutation"

ErrorAfter(passed, error) == error \/ ~passed

NothingToVerify(v) == ~v.applied \/ v.action = "hold"

(* The level read back may match or not: sales and other apps move it, and *)
(* a query that raises counts as a mismatch.                               *)
Verify(c) ==
    /\ At(c, "verify")
    /\ \E passed \in IF NothingToVerify(mem[c]) THEN {TRUE} ELSE BOOLEAN :
          LET tried == IF passed THEN mem[c].retries ELSE mem[c].retries + 1 IN
          Checkpoint(c, [mem[c] EXCEPT !.next = RouteAfterVerify(passed, tried),
                                       !.retries = tried,
                                       !.error = ErrorAfter(passed, @)])
    /\ UNCHANGED <<operatorVars, shopifyVars, logVars, registryVars, shadow>>

OnSheet(r) == \E d \in sheet : OnRun[d] = r

(* notify: append_google_sheets_row first looks for the run, then appends; a *)
(* lookup that failed reads as "not found".  Without a client it does neither. *)
NotifyFind(c) ==
    /\ At(c, "notify")
    /\ \/ /\ OnSheet(OnRun[c]) \/ "sheets" \in Faults
          /\ Checkpoint(c, [mem[c] EXCEPT !.next = "audit"])
       \/ /\ ~OnSheet(OnRun[c]) \/ "sheets" \in Faults
          /\ pc' = [pc EXCEPT ![c] = "appending"]
          /\ UNCHANGED <<head, mem>>
    /\ UNCHANGED <<operatorVars, shopifyVars, logVars, registryVars, shadow>>

NotifyAppend(c) ==
    /\ pc[c] = "appending"
    /\ \/ sheet' = sheet \cup {c}
       \/ "sheets" \in Faults /\ UNCHANGED sheet
    /\ Checkpoint(c, [mem[c] EXCEPT !.next = "audit"])
    /\ UNCHANGED <<operatorVars, shopifyVars, rows, alerts, registryVars,
                   shadow>>

(* Faulty variant: the row is read from a decision nobody made. *)
AuditRowOptimistic(c) ==
    [by |-> c, run |-> OnRun[c], resolution |-> mem[c].action,
     approved |-> IF mem[c].approval = "none" THEN "none" ELSE "approved"]

AuditRow(c) ==
    [by |-> c, run |-> OnRun[c], approved |-> mem[c].approval,
     resolution |-> IF mem[c].approval = "rejected" THEN "rejected"
                    ELSE mem[c].action]

(* audit: write_audit_record swallows a database failure. *)
AuditWrite(c) ==
    /\ At(c, "audit")
    /\ \/ rows' = rows \cup {AuditRow(c)}
       \/ "db" \in Faults /\ UNCHANGED rows
    /\ pc' = [pc EXCEPT ![c] = "cleanup"]
    /\ UNCHANGED <<head, mem, operatorVars, shopifyVars, sheet, alerts,
                   registryVars, shadow>>

(* delete_workflow_state, the Sentry capture, END. *)
AuditCleanup(c) ==
    /\ pc[c] = "cleanup"
    /\ pending' = pending \ {OnRun[c]}
    /\ alerts' = IF mem[c].error /\ ~mem[c].applied
                 THEN alerts \cup {c} ELSE alerts
    /\ Checkpoint(c, [mem[c] EXCEPT !.next = "end"])
    /\ UNCHANGED <<operatorVars, shopifyVars, sheet, rows, asked, shadow>>

-----------------------------------------------------------------------------
(* Time and crashes *)

(* Faulty variant: the registry entry is saved without a TTL. *)
NeverExpires(r) == FALSE /\ UNCHANGED vars

(* The registry entry has a 24 hour TTL; the checkpoint has none. *)
ExpirePending(r) ==
    /\ r \in pending
    /\ pending' = pending \ {r}
    /\ UNCHANGED <<head, pc, mem, operatorVars, shopifyVars, logVars, asked,
                   shadow>>

(* A guard key lives 3600 s: longer than any call made under it (at most   *)
(* three attempts of at most 30 s each).                                   *)
ExpireGuard(k) ==
    /\ k \in guards
    /\ \A c \in Clicks : pc[c] = "calling" => KeyOf(c) # k
    /\ guards' = guards \ {k}
    /\ UNCHANGED <<head, pc, mem, operatorVars, window, writers, landed,
                   logVars, registryVars, shadow>>

(* What is left of the head checkpoints when the server starts again. *)
AfterRestartVolatile == [r \in Runs |-> Blank]   \* faulty variant: MemorySaver
AfterRestart == IF Durable THEN head ELSE [r \in Runs |-> Blank]

(* A Redis error in a checkpoint write or in delete_workflow_state reaches   *)
(* the caller of ainvoke (HTTP 500, or a log line): the task ends, whatever  *)
(* it has done stays done.                                                   *)
TaskFails(p) ==
    /\ "redis" \in Faults
    /\ pc[p] \in Underway \ {"calling"}
    /\ Stop(p, "failed")
    /\ UNCHANGED <<head, operatorVars, shopifyVars, logVars, registryVars, shadow>>

(* A crash or a redeployment: every task is lost, and nothing restarts them. *)
(* Redis and PostgreSQL survive; MemorySaver checkpoints do not.             *)
Restart ==
    /\ "crash" \in Faults
    /\ pc' = [p \in Processes |-> IF pc[p] \in Underway THEN "dead" ELSE pc[p]]
    /\ mem' = [p \in Processes |-> Blank]
    /\ head' = AfterRestart
    /\ shadow' \in Modes
    /\ UNCHANGED <<operatorVars, shopifyVars, logVars, registryVars>>

-----------------------------------------------------------------------------

(* Nodes before the interrupt can be run by a starter or by an early click. *)
ProposalStep(p) == Detect(p) \/ Investigate(p) \/ Propose(p) \/ Interrupt(p)

StarterStep(r) == SaveWorkflowState(r)

ClickStep(c) ==
    \/ LoadState(c) \/ StoreDecision(c) \/ Resume(c)
    \/ ApplyNotApproved(c) \/ ApplyShadowed(c) \/ ApplyHold(c)
    \/ ApplyDeduped(c) \/ ApplyGuard(c) \/ ApplyGuardFails(c)
    \/ ShopifyCall(c) \/ ApplyReturn(c)
    \/ Verify(c) \/ NotifyFind(c) \/ NotifyAppend(c)
    \/ AuditWrite(c) \/ AuditCleanup(c)

Next ==
    \/ \E r \in Runs : StartWorkflow(r) \/ StarterStep(r) \/ ExpirePending(r)
    \/ \E p \in Processes : ProposalStep(p)
    \/ \E c \in Clicks : RestSubmit(c) \/ SlackAction(c) \/ ClickStep(c)
    \/ \E k \in Keys : ExpireGuard(k)
    \/ \E p \in Processes : TaskFails(p)
    \/ Restart

Spec == Init /\ [][Next]_vars

(* The event loop keeps running the tasks it holds, and Redis expires keys;  *)
(* operators, new runs and crashes promise nothing.                         *)
Fairness ==
    /\ \A p \in Processes : WF_vars(ProposalStep(p))
    /\ \A r \in Runs : WF_vars(StarterStep(r)) /\ WF_vars(ExpirePending(r))
    /\ \A c \in Clicks : WF_vars(ClickStep(c))

FairSpec == Spec /\ Fairness
=============================================================================
