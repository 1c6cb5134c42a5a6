------------------------- MODULE WorkflowProperties -------------------------
(***************************************************************************)
(* What the workflow of Workflow.tla must do and must never do.            *)
(***************************************************************************)
EXTENDS Workflow

(* The approval gate implemented by the workflow: every Shopify write and  *)
(* every audit row uses up one stored operator decision, and a write needs *)
(* an approval on its run (interrupt_before in graph.py, the approval test *)
(* of apply_mutation, the retry edge of _route_after_verify).              *)
Gate == INSTANCE ApprovalGate WITH
    ledger <- [c \in Clicks |-> IF c \in decided THEN verdict[c] ELSE "none"],
    audited <- {row.by : row \in rows}
ImplementsGate == Gate!GateSpec

(* No two Shopify calls are made under one life of a mutation guard key,   *)
(* whichever runs, retries and duplicate clicks lead to it                 *)
(* (adjust_inventory_level and transfer_inventory in tools.py).            *)
OneCallPerKey == \A k \in Keys : \A c, d \in window[k] : c = d

(* One decision pays for one Shopify write: a task that can reach the call *)
(* has not made one, however often verification sends the run back to      *)
(* apply_mutation (interrupt_before in build_graph, _route_after_verify).  *)
OneWritePerDecision ==
    \A c \in Clicks :
        pc[c] = "calling" \/ At(c, "apply_mutation") => c \notin writers

(* Every decision in an audit row was stored for that run by an operator   *)
(* (aupdate_state in resume_workflow, write_audit_record).                 *)
RowsQuoteOperators ==
    \A row \in rows : row.approved # "none" =>
        \E c \in decided : OnRun[c] = row.run /\ verdict[c] = row.approved

(* When operators wait for the interrupt, every audit row has a decision.  *)
(* A row with approved NULL would be listed as pending by the dashboard.   *)
RowsAreDecided == \A row \in rows : row.approved # "none"

(* A run that was written to and is recorded as rejected was contested:    *)
(* operators stored both an approval and a rejection for it.  No single    *)
(* decision does both (apply_mutation, the override in audit).             *)
RejectedWritesWereContested ==
    \A row \in rows : row.resolution = "rejected" =>
        \A c \in writers : OnRun[c] = row.run =>
            \A v \in {"approved", "rejected"} :
                \E d \in decided : OnRun[d] = row.run /\ verdict[d] = v

(* A click whose Shopify write failed, and which closed the run, has       *)
(* raised a Sentry message: the error survives verify and notify up to     *)
(* audit.  Tagging is exempt: apply_mutation ignores its result.           *)
FailedWritesAlert ==
    \A k \in Keys : \A c \in window[k] :
        pc[c] = "closed" /\ c \notin landed => c \in alerts

(* In shadow mode nothing is written to Shopify (apply_mutation), also     *)
(* when a run proposed or approved in one mode is resumed in the other.    *)
ShadowWritesNothing == [][shadow /\ shadow' => writers' = writers]_vars

(* With a durable checkpointer and operators who wait for the interrupt,   *)
(* an undecided run keeps its proposal, through restarts and other runs'   *)
(* work: only a stored decision changes its checkpoint.                    *)
ProposalsKeep ==
    [][\A r \in Runs :
         AtInterrupt(r) /\ head[r].approval = "none" /\ head'[r] # head[r]
         => \E c \in decided' \ decided : OnRun[c] = r]_vars

(* Every step of a task brings it nearer to its end: the graph of          *)
(* build_graph has a cycle, verify -> apply_mutation, but no task goes     *)
(* round it, because the interrupt before apply_mutation ends the ainvoke. *)
Ahead(place) ==
    CASE place \in Stopped         -> 0
      [] place = "idle"           -> 17
      [] place = "checked"        -> 16
      [] place = "loaded"         -> 15
      [] place = "stored"         -> 14
      [] place = "detect"         -> 13
      [] place = "investigate"    -> 12
      [] place = "propose"        -> 11
      [] place = "asked"          -> 10
      [] place = "apply_mutation" -> 9
      [] place = "calling"        -> 8
      [] place = "called"         -> 7
      [] place = "verify"         -> 6
      [] place = "notify"         -> 5
      [] place = "appending"      -> 4
      [] place = "audit"          -> 3
      [] place = "cleanup"        -> 2
      [] OTHER                    -> 1

StepsLeft(p) == Ahead(IF pc[p] = "running" THEN mem[p].next ELSE pc[p])

Moves(p) == pc'[p] # pc[p] \/ (pc[p] = "running" /\ mem'[p] # mem[p])

TasksCountDown ==
    [][\A p \in Processes : Moves(p) => StepsLeft(p)' < StepsLeft(p)]_vars

(* With operators who wait for the interrupt, a rejection is eventually on *)
(* record for its run, unless somebody else approves the run (propose ->   *)
(* reject -> apply skipped -> audit).  "audit still runs" (approvals.py)   *)
(* is not true of a rejection submitted before the interrupt: nothing in   *)
(* submit_approval or handle_slack_action waits for it, and the starter's  *)
(* later checkpoints overwrite the decision, or the resumption stops at    *)
(* the interrupt it runs into.                                             *)
RejectionIsAudited ==
    Patient =>
        \A c \in Clicks :
            c \in decided /\ verdict[c] = "rejected"
            ~> \/ \E row \in rows : row.run = OnRun[c]
               \/ \E d \in decided : OnRun[d] = OnRun[c] /\ verdict[d] = "approved"

(* A click that resumes a run after one failed verification closes it: the *)
(* graph pauses for a retry at most once (_route_after_verify).            *)
RetryCloses ==
    \A c \in Clicks :
        At(c, "apply_mutation") /\ mem[c].retries > 0 ~> pc[c] = "closed"

(* An entry of the pending registry does not outlive its run for good: it  *)
(* is deleted by audit or, when it was saved late, by its TTL.             *)
RegistryDrains ==
    \A r \in Runs : (\E row \in rows : row.run = r) ~> r \notin pending

-----------------------------------------------------------------------------
(* What the documents say and the code does not do.                        *)

(* "Retries apply_mutation up to 2 times if verification fails; then       *)
(* proceeds to notify" (nodes.py): an approved run whose decision was      *)
(* stored reaches audit without a further decision.                        *)
ApprovalIsAudited ==
    \A c \in Clicks : c \in decided ~> \E row \in rows : row.run = OnRun[c]

(* "On rejection: applies_mutation is skipped, audit still runs"           *)
(* (approvals.py): a run recorded as rejected was not written to.          *)
RejectedMeansUntouched ==
    \A row \in rows : row.resolution = "rejected" =>
        \A c \in writers : OnRun[c] # row.run

(* "The audit record reflects verified ground truth, not optimistic        *)
(* mutation results" (ADR-005): a row that names a mutation as the         *)
(* resolution applied has a Shopify write that succeeded behind it.        *)
ResolutionsLanded ==
    \A row \in rows : row.resolution \in {"adjust", "transfer"} =>
        \E c \in landed : OnRun[c] = row.run

(* "24-hour TTL on workflow state auto-expires unapproved workflows"        *)
(* (ADR-002): the first decision on a run is stored only while the run is  *)
(* registered as pending.                                                  *)
DecisionsBeforeExpiry ==
    [][\A c \in decided' \ decided :
         LET r == OnRun[c] IN
         pc[r] = "done" /\ (\A d \in decided : OnRun[d] # r) => r \in pending]_vars
=============================================================================
