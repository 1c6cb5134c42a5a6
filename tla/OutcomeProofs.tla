---------------------------- MODULE OutcomeProofs ----------------------------
(***************************************************************************)
(* What becomes of a decision, in general: a failed write is reported, an  *)
(* undecided proposal stays as it is, a row has a decision behind it.      *)
(***************************************************************************)
EXTENDS WorkflowProofs

(* A step leaves the other tasks where they are. *)
OthersStay(p) ==
    \A q \in Processes \ {p} : pc'[q] = pc[q] /\ mem'[q] = mem[q]

LEMMA CheckpointMoves ==
    ASSUME TypeInv, NEW p \in Processes, NEW v, Checkpoint(p, v)
    PROVE  /\ OthersStay(p)
           /\ pc'[p] = After(p, v)
           /\ pc'[p] = "running" => mem'[p] = v
           /\ head'[RunOf(p)] = v
           /\ \A r \in Runs \ {RunOf(p)} : head'[r] = head[r]
  BY RunOfType DEF Checkpoint, OthersStay, TypeInv, TypedProcesses, TypedHeads

LEMMA StopMoves ==
    ASSUME TypeInv, NEW p \in Processes, NEW x, Stop(p, x)
    PROVE  OthersStay(p) /\ pc'[p] = x
  BY DEF Stop, OthersStay, TypeInv, TypedProcesses

-----------------------------------------------------------------------------
(* Failed writes *)

LEMMA AlertFrame ==
    ASSUME TypeInv, AlertInv, NEW p \in Processes, OthersStay(p),
           \A k \in Keys : window'[k] \subseteq window[k] \cup {p},
           landed \subseteq landed', alerts \subseteq alerts',
           \/ AlertDue(p)'
           \/ \A k \in Keys : p \in window'[k] => p \in landed'
    PROVE  AlertInv'
  <1> SUFFICES ASSUME NEW k \in Keys, NEW c \in window'[k], c \notin landed'
               PROVE  AlertDue(c)'
    BY DEF AlertInv
  <1>1. CASE c = p
    BY <1>1
  <1>2. CASE c # p
    <2>1. c \in window[k] /\ c \notin landed /\ c \in Processes
      BY <1>2 DEF TypeInv, TypedLogs, Processes
    <2>2. AlertDue(c) /\ pc'[c] = pc[c] /\ mem'[c] = mem[c]
      BY <1>2, <2>1 DEF AlertInv, OthersStay
    <2> QED
      BY <2>2 DEF AlertDue, Failing
  <1> QED
    BY <1>1, <1>2

(* A task without a failed write does anything but call Shopify in vain. *)
LEMMA AlertQuiet ==
    ASSUME TypeInv, AlertInv, NEW p \in Processes, OthersStay(p),
           p \in Clicks => ~AlertDue(p),
           \A k \in Keys : window'[k] \subseteq window[k],
           landed \subseteq landed', alerts \subseteq alerts'
    PROVE  AlertInv'
  <1>1. \A k \in Keys : p \in window'[k] => p \in landed'
    BY RunOfType DEF AlertInv, TypeInv, TypedLogs
  <1> QED
    BY <1>1, AlertFrame

LEMMA AlertInit == Init => AlertInv
  BY DEF Init, AlertInv

LEMMA AlertEarlier ==
    ASSUME TypeInv, AlertInv,
           \/ \E r \in Runs : StartWorkflow(r) \/ StarterStep(r) \/ ExpirePending(r)
           \/ \E p \in Processes : ProposalStep(p)
           \/ \E c \in Clicks : \/ RestSubmit(c) \/ SlackAction(c)
                               \/ LoadState(c) \/ StoreDecision(c) \/ Resume(c)
    PROVE  AlertInv'
  <1>w. UNCHANGED <<window, landed, alerts>>
    BY DEF StartWorkflow, StarterStep, SaveWorkflowState, ExpirePending, ProposalStep, Detect,
           Investigate, Propose, Interrupt, RestSubmit, SlackAction, LoadState, StoreDecision,
           Resume, shopifyVars, logVars
  <1>1. ASSUME NEW r \in Runs, StartWorkflow(r) \/ StarterStep(r) PROVE AlertInv'
    <2>1. OthersStay(r)
      BY <1>1 DEF StartWorkflow, StarterStep, SaveWorkflowState, OthersStay, TypeInv,
                  TypedProcesses
    <2> QED
      BY <1>w, <2>1, RunOfType, AlertQuiet
  <1>2. ASSUME NEW r \in Runs, ExpirePending(r) PROVE AlertInv'
    BY <1>w, <1>2 DEF ExpirePending, AlertInv, AlertDue, Failing
  <1>3. ASSUME NEW p \in Processes, ProposalStep(p) PROVE AlertInv'
    <2>1. ~AlertDue(p)
      BY <1>3 DEF ProposalStep, Detect, Investigate, Propose, Interrupt, At, AlertDue
    <2>2. CASE Propose(p)
      <3>1. OthersStay(p)
        BY <2>2 DEF Propose, OthersStay, TypeInv, TypedProcesses
      <3> QED
        BY <1>w, <2>1, <3>1, AlertQuiet
    <2>3. CASE \E v : Checkpoint(p, v)
      BY <1>w, <2>1, <2>3, CheckpointMoves, AlertQuiet
    <2> QED
      BY <1>3, <2>2, <2>3 DEF ProposalStep, Detect, Investigate, Interrupt
  <1>4. ASSUME NEW c \in Clicks,
               \/ RestSubmit(c) \/ SlackAction(c)
               \/ LoadState(c) \/ StoreDecision(c) \/ Resume(c)
        PROVE  AlertInv'
    <2>1. ~AlertDue(c)
      BY <1>4 DEF RestSubmit, SlackAction, LoadState, StoreDecision, Resume, AlertDue
    <2>2. OthersStay(c)
      BY <1>4 DEF RestSubmit, SlackAction, LoadState, StoreDecision, Resume, Stop, OthersStay,
                  TypeInv, TypedProcesses
    <2> QED
      BY <1>w, <2>1, <2>2, RunOfType, AlertQuiet
  <1> QED
    BY <1>1, <1>2, <1>3, <1>4

LEMMA AlertApply ==
    ASSUME TypeInv, AlertInv, NEW c \in Clicks,
           \/ ApplyNotApproved(c) \/ ApplyShadowed(c) \/ ApplyHold(c)
           \/ ApplyDeduped(c) \/ ApplyGuard(c) \/ ApplyGuardFails(c)
    PROVE  AlertInv'
  <1>1. ~AlertDue(c)
    BY DEF ApplyNotApproved, ApplyShadowed, ApplyHold, ApplyDeduped, ApplyGuard,
           ApplyGuardFails, Live, At, AlertDue
  <1>2. OthersStay(c)
    BY RunOfType
    DEF ApplyNotApproved, ApplyShadowed, ApplyHold, ApplyDeduped, ApplyGuard,
        ApplyGuardFails, Checkpoint, OthersStay, TypeInv, TypedProcesses
  <1>3. /\ \A k \in Keys : window'[k] \subseteq window[k]
        /\ landed \subseteq landed' /\ alerts \subseteq alerts'
    BY DEF ApplyNotApproved, ApplyShadowed, ApplyHold, ApplyDeduped, ApplyGuard,
           ApplyGuardFails, SetGuard, shopifyVars, logVars, TypeInv, TypedLogs
  <1> QED
    BY <1>1, <1>2, <1>3, RunOfType, AlertQuiet

LEMMA AlertCall ==
    ASSUME TypeInv, AlertInv, NEW c \in Clicks, ShopifyCall(c)
    PROVE  AlertInv'
  <1> USE RunOfType
  <1>1. OthersStay(c)
    BY DEF ShopifyCall, OthersStay, TypeInv, TypedProcesses
  <1>2. /\ \A k \in Keys : window'[k] \subseteq window[k] \cup {c}
        /\ landed \subseteq landed' /\ alerts \subseteq alerts'
    BY DEF ShopifyCall, logVars, TypeInv, TypedLogs
  <1>3. CASE c \in landed'
    BY <1>1, <1>2, <1>3, AlertFrame
  <1>4. CASE c \notin landed'
    <2>1. pc'[c] = "called" /\ mem'[c].error = TRUE /\ mem'[c].applied = FALSE
      BY <1>4 DEF ShopifyCall, TypeInv, TypedProcesses, Values
    <2>2. AlertDue(c)'
      BY <2>1 DEF AlertDue, Failing
    <2> QED
      BY <1>1, <1>2, <2>2, AlertFrame
  <1> QED
    BY <1>3, <1>4

(* From the call to audit: the checkpoints in between keep the error. *)
LEMMA AlertCarried ==
    ASSUME TypeInv, AlertInv, NEW c \in Clicks, NEW v,
           Checkpoint(c, v), UNCHANGED <<window, landed, alerts>>,
           AlertDue(c) => /\ v.next \in {"verify", "notify", "audit"}
                          /\ v.error /\ ~v.applied
    PROVE  AlertInv'
  <1> USE RunOfType
  <1>1. CASE ~AlertDue(c)
    BY <1>1, CheckpointMoves, AlertQuiet
  <1>2. CASE AlertDue(c)
    <2>1. OthersStay(c) /\ pc'[c] = "running" /\ mem'[c] = v
      BY <1>2, CheckpointMoves DEF After
    <2>2. AlertDue(c)'
      BY <1>2, <2>1 DEF AlertDue, Failing
    <2> QED
      BY <2>1, <2>2, AlertFrame
  <1> QED
    BY <1>1, <1>2

LEMMA AlertClose ==
    ASSUME TypeInv, AlertInv, NEW c \in Clicks,
           \/ ApplyReturn(c) \/ Verify(c) \/ NotifyFind(c) \/ NotifyAppend(c)
           \/ AuditWrite(c) \/ AuditCleanup(c)
    PROVE  AlertInv'
  <1> USE RunOfType
  <1>v. mem[c] \in Values
    BY DEF TypeInv, TypedProcesses
  <1>1. CASE ApplyReturn(c)
    <2> DEFINE v == [mem[c] EXCEPT !.next = "verify"]
    <2>1. v.next = "verify" /\ v.error = mem[c].error /\ v.applied = mem[c].applied
      BY <1>v DEF Values
    <2>2. Checkpoint(c, v) /\ UNCHANGED <<window, landed, alerts>>
      BY <1>1 DEF ApplyReturn, shopifyVars, logVars
    <2>3. AlertDue(c) => Failing(c)
      BY <1>1 DEF ApplyReturn, AlertDue
    <2> HIDE DEF v
    <2> QED
      BY <2>1, <2>2, <2>3, AlertCarried DEF Failing
  <1>2. CASE Verify(c)
    <2>0. UNCHANGED <<window, landed, alerts>>
      BY <1>2 DEF Verify, shopifyVars, logVars
    <2>1. PICK passed \in IF NothingToVerify(mem[c]) THEN {TRUE} ELSE BOOLEAN :
             LET tried == IF passed THEN mem[c].retries ELSE mem[c].retries + 1 IN
             Checkpoint(c, [mem[c] EXCEPT !.next = RouteAfterVerify(passed, tried),
                                          !.retries = tried,
                                          !.error = ErrorAfter(passed, @)])
      BY <1>2 DEF Verify
    <2> DEFINE tried == IF passed THEN mem[c].retries ELSE mem[c].retries + 1
               v == [mem[c] EXCEPT !.next = RouteAfterVerify(passed, tried),
                                   !.retries = tried,
                                   !.error = ErrorAfter(passed, @)]
    <2>2. Checkpoint(c, v)
      BY <2>1
    <2>3. /\ v.next = RouteAfterVerify(passed, tried)
          /\ v.error = ErrorAfter(passed, mem[c].error)
          /\ v.applied = mem[c].applied
      BY <1>v DEF Values
    <2>4. AlertDue(c) => Failing(c)
      BY <1>2 DEF Verify, At, AlertDue
    <2>5. Failing(c) => passed
      BY <2>1 DEF Failing, NothingToVerify
    <2>6. AlertDue(c) => v.next = "notify" /\ v.error /\ ~v.applied
      BY <2>3, <2>4, <2>5 DEF Failing, RouteAfterVerify, ErrorAfter
    <2> HIDE DEF v
    <2> QED
      BY <2>0, <2>2, <2>6, AlertCarried
  <1>3. CASE NotifyFind(c) \/ NotifyAppend(c)
    <2>0. UNCHANGED <<window, landed, alerts>>
      BY <1>3 DEF NotifyFind, NotifyAppend, shopifyVars, logVars
    <2>1. AlertDue(c) => Failing(c)
      BY <1>3 DEF NotifyFind, NotifyAppend, At, AlertDue
    <2>2. CASE Checkpoint(c, [mem[c] EXCEPT !.next = "audit"])
      <3> DEFINE v == [mem[c] EXCEPT !.next = "audit"]
      <3>1. v.next = "audit" /\ v.error = mem[c].error /\ v.applied = mem[c].applied
        BY <1>v DEF Values
      <3>2. Checkpoint(c, v)
        BY <2>2
      <3> HIDE DEF v
      <3> QED
        BY <2>0, <2>1, <3>1, <3>2, AlertCarried DEF Failing
    <2>3. CASE At(c, "notify") /\ pc' = [pc EXCEPT ![c] = "appending"] /\ UNCHANGED mem
      <3>1. OthersStay(c) /\ pc'[c] = "appending" /\ mem'[c] = mem[c]
        BY <2>3 DEF OthersStay, TypeInv, TypedProcesses
      <3>2. AlertDue(c) => AlertDue(c)'
        BY <2>0, <2>1, <2>3, <3>1 DEF AlertDue, Failing, At
      <3> QED
        BY <2>0, <3>1, <3>2, AlertFrame, AlertQuiet
    <2> QED
      BY <1>3, <2>2, <2>3 DEF NotifyFind, NotifyAppend
  <1>4. CASE AuditWrite(c)
    <2>1. /\ OthersStay(c) /\ pc'[c] = "cleanup" /\ mem'[c] = mem[c]
          /\ UNCHANGED <<window, landed, alerts>>
      BY <1>4 DEF AuditWrite, OthersStay, TypeInv, TypedProcesses, shopifyVars
    <2>2. AlertDue(c) => AlertDue(c)'
      BY <1>4, <2>1 DEF AuditWrite, At, AlertDue, Failing
    <2> QED
      BY <2>1, <2>2, AlertFrame, AlertQuiet
  <1>5. CASE AuditCleanup(c)
    <2> DEFINE v == [mem[c] EXCEPT !.next = "end"]
    <2>1. Checkpoint(c, v) /\ v.next = "end"
      BY <1>5, <1>v DEF AuditCleanup, Values
    <2>2. /\ UNCHANGED <<window, landed>> /\ alerts \subseteq alerts'
          /\ Failing(c) => c \in alerts'
      BY <1>5 DEF AuditCleanup, Failing, shopifyVars
    <2>3. AlertDue(c) => Failing(c)
      BY <1>5 DEF AuditCleanup, AlertDue
    <2> HIDE DEF v
    <2>4. OthersStay(c) /\ pc'[c] = "closed"
      BY <2>1, CheckpointMoves DEF After
    <2>5. AlertDue(c) => AlertDue(c)'
      BY <2>2, <2>3, <2>4 DEF AlertDue
    <2> QED
      BY <2>2, <2>4, <2>5, AlertFrame, AlertQuiet
  <1> QED
    BY <1>1, <1>2, <1>3, <1>4, <1>5

LEMMA AlertTime ==
    ASSUME TypeInv, AlertInv,
           \/ \E k \in Keys : ExpireGuard(k)
           \/ \E p \in Processes : TaskFails(p)
           \/ Restart
    PROVE  AlertInv'
  <1>w. UNCHANGED <<window, landed, alerts>>
    BY DEF ExpireGuard, TaskFails, Restart, shopifyVars, logVars
  <1>1. ASSUME NEW k \in Keys, ExpireGuard(k) PROVE AlertInv'
    BY <1>w, <1>1 DEF ExpireGuard, AlertInv, AlertDue, Failing
  <1>2. ASSUME NEW p \in Processes, TaskFails(p) PROVE AlertInv'
    <2>1. OthersStay(p) /\ pc'[p] = "failed"
      BY <1>2, StopMoves DEF TaskFails
    <2>2. AlertDue(p)'
      BY <2>1 DEF AlertDue
    <2> QED
      BY <1>w, <2>1, <2>2, AlertFrame
  <1>3. CASE Restart
    <2> SUFFICES ASSUME NEW k \in Keys, NEW c \in window[k], c \notin landed
                 PROVE  AlertDue(c)'
      BY <1>w DEF AlertInv
    <2>1. AlertDue(c) /\ c \in Clicks
      BY DEF AlertInv, TypeInv, TypedLogs
    <2>2. pc'[c] = "dead" \/ (pc[c] \in Stopped /\ pc'[c] = pc[c])
      BY <1>3, <2>1, RunOfType DEF Restart, Underway, AlertDue, PCs, Stopped
    <2> QED
      BY <1>w, <2>1, <2>2 DEF AlertDue, Stopped
  <1> QED
    BY <1>1, <1>2, <1>3

LEMMA AlertStep == TypeInv /\ AlertInv /\ [Next]_vars => AlertInv'
  <1> SUFFICES ASSUME TypeInv, AlertInv, [Next]_vars PROVE AlertInv'
    OBVIOUS
  <1>1. CASE UNCHANGED vars
    BY <1>1 DEF vars, shopifyVars, logVars, AlertInv, AlertDue, Failing
  <1>2. CASE Next
    BY <1>2, AlertEarlier, AlertApply, AlertCall, AlertClose, AlertTime DEF Next, ClickStep
  <1> QED
    BY <1>1, <1>2

(* A click whose write failed and which went through to the end of the      *)
(* graph has raised a Sentry message, whatever verification, sheet and      *)
(* database did (apply_mutation, verify, notify, audit).                    *)
THEOREM FailuresAreReported == Spec => []FailedWritesAlert
  <1>1. AlertInv => FailedWritesAlert
    BY DEF AlertInv, AlertDue, FailedWritesAlert
  <1> QED
    BY <1>1, TypeInit, TypeStep, AlertInit, AlertStep, PTL DEF Spec

-----------------------------------------------------------------------------
(* Undecided proposals, and rows with a decision *)

OrderCore == StartersThrough /\ CopiesDecided /\ RowsAreDecided

LEMMA OrderInit == Init => OrderInv
  BY RunOfType DEF Init, OrderInv, StartersThrough, CopiesDecided, RowsAreDecided, AtInterrupt, Blank,
                   Carrying

(* A task moves on between two checkpoints. *)
LEMMA OrderMove ==
    ASSUME TypeInv, OrderCore, UNCHANGED <<head, decided>>, NEW p \in Processes,
           OthersStay(p),
           p \in Runs /\ AtInterrupt(p) => pc'[p] \notin {"idle", "running", "asked"},
           p \in Clicks /\ pc'[p] # "idle" => AtInterrupt(OnRun[p]),
           p \in Clicks /\ pc'[p] \in Carrying =>
               mem'[p].next \notin Early /\ mem'[p].approval # "none",
           \A row \in rows' : row.approved # "none"
    PROVE  OrderCore'
  <1>1. StartersThrough'
    BY RunOfType DEF OrderCore, StartersThrough, AtInterrupt, OthersStay
  <1>2. CopiesDecided'
    BY RunOfType DEF OrderCore, CopiesDecided, OthersStay, Carrying, Early
  <1>3. RowsAreDecided'
    BY DEF RowsAreDecided
  <1> QED
    BY <1>1, <1>2, <1>3 DEF OrderCore

(* The starter stores a checkpoint: no click on its run has begun. *)
LEMMA OrderStarts ==
    ASSUME TypeInv, DecisionInv, OrderCore, UNCHANGED <<decided, rows>>,
           NEW r \in Runs, pc[r] \in {"idle", "running", "asked"}, NEW v,
           OthersStay(r), head'[r] = v, \A q \in Runs \ {r} : head'[q] = head[q],
           v.next \in Early \/ pc'[r] = "listing"
    PROVE  OrderCore'
  <1> USE RunOfType
  <1>1. \A c \in Clicks : OnRun[c] = r => pc[c] = "idle" /\ c \notin decided
    BY DEF OrderCore, StartersThrough, DecisionInv, ClicksDecide, Accepted
  <1>2. StartersThrough'
    <2>1. \A q \in Runs : AtInterrupt(q)' => pc'[q] \notin {"idle", "running", "asked"}
      BY DEF OrderCore, StartersThrough, AtInterrupt, OthersStay, Early
    <2>2. \A c \in Clicks : pc'[c] # "idle" => AtInterrupt(OnRun[c])'
      BY <1>1 DEF OrderCore, StartersThrough, AtInterrupt, OthersStay
    <2> QED
      BY <2>1, <2>2 DEF StartersThrough
  <1>3. CopiesDecided'
    <2>1. \A d \in decided' : d \in Clicks /\ head'[OnRun[d]].approval # "none"
      BY <1>1 DEF OrderCore, CopiesDecided, TypeInv, TypedLogs
    <2>2. \A d \in Clicks : pc'[d] = pc[d] /\ mem'[d] = mem[d]
      BY DEF OthersStay
    <2>3. \A d \in Clicks : pc'[d] \in Carrying =>
             mem'[d].next \notin Early /\ mem'[d].approval # "none"
      BY <2>2 DEF OrderCore, CopiesDecided
    <2> QED
      BY <2>1, <2>3 DEF CopiesDecided, Carrying, Early
  <1>4. RowsAreDecided'
    BY DEF OrderCore, RowsAreDecided
  <1> QED
    BY <1>2, <1>3, <1>4 DEF OrderCore

(* A click stores a checkpoint, with a decision in it. *)
LEMMA OrderStores ==
    ASSUME TypeInv, OrderCore, UNCHANGED rows, NEW c \in Clicks, pc[c] # "idle",
           OthersStay(c), NEW v, head'[OnRun[c]] = v,
           \A q \in Runs \ {OnRun[c]} : head'[q] = head[q],
           v.next \notin Early, v.approval # "none",
           decided' \subseteq decided \cup {c},
           pc'[c] \in Carrying => mem'[c] = v
    PROVE  OrderCore'
  <1> USE RunOfType
  <1>1. AtInterrupt(OnRun[c])
    BY DEF OrderCore, StartersThrough
  <1>2. \A q \in Runs : AtInterrupt(q)' <=> AtInterrupt(q)
    BY <1>1 DEF AtInterrupt, Early
  <1>3. StartersThrough'
    <2>1. \A q \in Runs : AtInterrupt(q)' => pc'[q] \notin {"idle", "running", "asked"}
      BY <1>2 DEF OrderCore, StartersThrough, OthersStay
    <2>2. \A d \in Clicks : AtInterrupt(OnRun[d])' <=> AtInterrupt(OnRun[d])
      BY <1>2 DEF AtInterrupt
    <2>3. \A d \in Clicks : pc'[d] # "idle" => AtInterrupt(OnRun[d])
      BY <1>1 DEF OrderCore, StartersThrough, OthersStay
    <2> QED
      BY <2>1, <2>2, <2>3 DEF StartersThrough
  <1>4. CopiesDecided'
    <2>1. \A d \in decided' : head'[OnRun[d]].approval # "none"
      BY DEF OrderCore, CopiesDecided, TypeInv, TypedLogs
    <2>2. \A d \in Clicks : pc'[d] \in Carrying =>
             mem'[d].next \notin Early /\ mem'[d].approval # "none"
      BY DEF OrderCore, CopiesDecided, OthersStay
    <2> QED
      BY <2>1, <2>2 DEF CopiesDecided, Carrying, Early
  <1>5. RowsAreDecided'
    BY DEF OrderCore, RowsAreDecided
  <1> QED
    BY <1>3, <1>4, <1>5 DEF OrderCore

LEMMA OrderCheckpoint ==
    ASSUME TypeInv, OrderCore, UNCHANGED <<decided, rows>>, NEW c \in Clicks,
           pc[c] \in Carrying, NEW v, Checkpoint(c, v), v.next \notin Early,
           v.approval = mem[c].approval
    PROVE  OrderCore'
  <1>1. v.approval # "none" /\ pc[c] # "idle"
    BY DEF OrderCore, CopiesDecided, Carrying
  <1>2. pc'[c] \in Carrying => mem'[c] = v
    BY AfterPC, CheckpointMoves, RunOfType DEF Carrying
  <1>3. /\ OthersStay(c) /\ head'[OnRun[c]] = v
        /\ \A q \in Runs \ {OnRun[c]} : head'[q] = head[q]
    BY CheckpointMoves, RunOfType
  <1> QED
    BY <1>1, <1>2, <1>3, OrderStores

LEMMA OrderStarter ==
    ASSUME TypeInv, DecisionInv, OrderCore, NEW r \in Runs,
           StartWorkflow(r) \/ StarterStep(r) \/ ExpirePending(r)
    PROVE  OrderCore'
  <1> USE RunOfType
  <1>1. UNCHANGED <<decided, rows>> /\ \A row \in rows' : row.approved # "none"
    BY DEF StartWorkflow, StarterStep, SaveWorkflowState, ExpirePending, operatorVars, logVars,
           OrderCore, RowsAreDecided
  <1>2. CASE StartWorkflow(r)
    <2>1. /\ pc[r] = "idle" /\ OthersStay(r) /\ head'[r] = Initial
          /\ \A q \in Runs \ {r} : head'[q] = head[q]
      BY <1>2 DEF StartWorkflow, OthersStay, TypeInv, TypedProcesses, TypedHeads
    <2>2. Initial.next \in Early
      BY DEF Initial, Blank, Early
    <2> QED
      BY <1>1, <2>1, <2>2, OrderStarts
  <1>3. CASE SaveWorkflowState(r)
    <2>1. OthersStay(r) /\ pc'[r] = "done" /\ UNCHANGED head
      BY <1>3 DEF SaveWorkflowState, OthersStay, TypeInv, TypedProcesses
    <2> QED
      BY <1>1, <2>1, OrderMove
  <1>4. CASE ExpirePending(r)
    <2>1. UNCHANGED <<head, pc, mem>>
      BY <1>4 DEF ExpirePending
    <2>2. OthersStay(r)
      BY <2>1 DEF OthersStay
    <2> QED
      BY <1>1, <2>1, <2>2, OrderMove DEF OrderCore, StartersThrough
  <1> QED
    BY <1>2, <1>3, <1>4 DEF StarterStep

LEMMA OrderProposal ==
    ASSUME TypeInv, DecisionInv, OrderCore, NEW p \in Processes, ProposalStep(p)
    PROVE  OrderCore'
  <1> USE RunOfType
  <1>1. UNCHANGED <<decided, rows>> /\ \A row \in rows' : row.approved # "none"
    BY DEF ProposalStep, Detect, Investigate, Propose, Interrupt, operatorVars, logVars,
           OrderCore, RowsAreDecided
  <1>2. mem[p] \in Values
    BY DEF TypeInv, TypedProcesses
  <1>3. CASE p \in Clicks
    <2>1. pc[p] \in Carrying /\ mem[p].next \notin Early /\ mem[p].approval # "none"
      BY <1>3 DEF ProposalStep, Detect, Investigate, Propose, Interrupt, At, OrderCore,
                  CopiesDecided, Carrying
    <2>2. Interrupt(p)
      BY <2>1 DEF ProposalStep, Detect, Investigate, Propose, At, Early
    <2> DEFINE v == [mem[p] EXCEPT !.next = "apply_mutation"]
    <2>3. v.next = "apply_mutation" /\ v.approval = mem[p].approval /\ Checkpoint(p, v)
      BY <1>2, <2>2 DEF Interrupt, Values
    <2>4. v.next \notin Early
      BY <2>3 DEF Early
    <2> HIDE DEF v
    <2> QED
      BY <1>1, <1>3, <2>1, <2>3, <2>4, OrderCheckpoint
  <1>4. CASE p \in Runs
    <2>1. CASE Propose(p)
      <3>1. /\ pc[p] = "running" /\ OthersStay(p) /\ UNCHANGED head
        BY <2>1 DEF Propose, At, OthersStay, TypeInv, TypedProcesses
      <3>2. ~AtInterrupt(p)
        BY <1>4, <3>1 DEF OrderCore, StartersThrough
      <3> QED
        BY <1>1, <1>4, <3>1, <3>2, OrderMove
    <2>2. ASSUME NEW n \in {"investigate", "propose", "apply_mutation"},
                 Checkpoint(p, [mem[p] EXCEPT !.next = n]),
                 pc[p] \in {"running", "asked"}
          PROVE  OrderCore'
      <3> DEFINE v == [mem[p] EXCEPT !.next = n]
      <3>1. v.next = n /\ Checkpoint(p, v)
        BY <1>2, <2>2 DEF Values
      <3> HIDE DEF v
      <3>2. n = "apply_mutation" => pc'[p] = "listing"
        BY <1>4, <3>1, CheckpointMoves DEF After
      <3>3. /\ OthersStay(p) /\ head'[p] = v
            /\ \A q \in Runs \ {p} : head'[q] = head[q]
        BY <1>4, <3>1, CheckpointMoves
      <3>4. v.next \in Early \/ pc'[p] = "listing"
        BY <3>1, <3>2 DEF Early
      <3>5. pc[p] \in {"idle", "running", "asked"}
        BY <2>2
      <3> QED
        BY <1>1, <1>4, <3>3, <3>4, <3>5, OrderStarts
    <2>3. Propose(p) \/ \E n \in {"investigate", "propose", "apply_mutation"} :
             Checkpoint(p, [mem[p] EXCEPT !.next = n]) /\ pc[p] \in {"running", "asked"}
      BY DEF ProposalStep, Detect, Investigate, Interrupt, At
    <2> QED
      BY <2>1, <2>2, <2>3
  <1> QED
    BY <1>3, <1>4 DEF Processes

LEMMA OrderDecision ==
    ASSUME TypeInv, DecisionInv, OrderCore, Patient, NEW c \in Clicks,
           \/ RestSubmit(c) \/ SlackAction(c)
           \/ LoadState(c) \/ StoreDecision(c) \/ Resume(c)
    PROVE  OrderCore'
  <1> USE RunOfType
  <1>1. UNCHANGED rows /\ \A row \in rows' : row.approved # "none"
    BY DEF RestSubmit, SlackAction, LoadState, StoreDecision, Resume, logVars, OrderCore,
           RowsAreDecided
  <1>2. OthersStay(c)
    BY DEF RestSubmit, SlackAction, LoadState, StoreDecision, Resume, Stop, OthersStay, TypeInv,
           TypedProcesses
  <1>3. AtInterrupt(OnRun[c])
    BY DEF RestSubmit, SlackAction, LoadState, StoreDecision, Resume, OrderCore, StartersThrough
  <1>h. head[OnRun[c]] \in Values
    BY DEF TypeInv, TypedHeads
  <1>4. CASE RestSubmit(c) \/ SlackAction(c)
    <2>1. pc'[c] \in {"checked", "done"} /\ UNCHANGED <<head, decided>>
      BY <1>4 DEF RestSubmit, SlackAction, TypeInv, TypedProcesses
    <2> QED
      BY <1>1, <1>2, <1>3, <2>1, OrderMove DEF Carrying
  <1>5. CASE LoadState(c)
    <2>1. UNCHANGED <<head, decided>>
      BY <1>5 DEF LoadState, operatorVars
    <2>2. CASE pc'[c] = "failed"
      BY <1>1, <1>2, <1>3, <2>1, <2>2, OrderMove DEF Carrying
    <2>3. CASE mem'[c] = WithDecision(head[OnRun[c]], c)
      <3>1. verdict[c] # "none"
        BY <1>5 DEF LoadState, DecisionInv, ClicksDecide, Accepted
      <3>2. mem'[c].approval = verdict[c] /\ mem'[c].next = head[OnRun[c]].next
        BY <1>h, <2>3 DEF WithDecision, Values
      <3>3. mem'[c].next \notin Early
        BY <1>3, <3>2 DEF AtInterrupt, Early
      <3> QED
        BY <1>1, <1>2, <1>3, <2>1, <3>1, <3>2, <3>3, OrderMove
    <2> QED
      BY <1>5, <2>2, <2>3 DEF LoadState, Stop, TypeInv, TypedProcesses
  <1>6. CASE StoreDecision(c)
    <2>1. /\ pc[c] = "loaded" /\ pc'[c] = "stored" /\ decided' = decided \cup {c}
          /\ head'[OnRun[c]] = mem[c] /\ \A q \in Runs \ {OnRun[c]} : head'[q] = head[q]
      BY <1>6 DEF StoreDecision, Stop, TypeInv, TypedProcesses, TypedHeads
    <2>2. mem[c].next \notin Early /\ mem[c].approval # "none"
      BY <2>1 DEF OrderCore, CopiesDecided, Carrying
    <2> QED
      BY <1>1, <1>2, <2>1, <2>2, OrderStores DEF Carrying
  <1>7. CASE Resume(c)
    <2>1. UNCHANGED <<head, decided>> /\ c \in decided
      BY <1>7 DEF Resume, operatorVars, DecisionInv, ClicksDecide, Resumed
    <2>2. CASE pc'[c] = "done"
      BY <1>1, <1>2, <1>3, <2>1, <2>2, OrderMove DEF Carrying
    <2>3. CASE mem'[c] = head[OnRun[c]]
      <3>1. mem'[c].next \notin Early /\ mem'[c].approval # "none"
        BY <1>3, <2>1, <2>3 DEF AtInterrupt, Early, OrderCore, CopiesDecided
      <3> QED
        BY <1>1, <1>2, <1>3, <2>1, <3>1, OrderMove
    <2> QED
      BY <1>7, <2>2, <2>3 DEF Resume, Stop, TypeInv, TypedProcesses
  <1> QED
    BY <1>4, <1>5, <1>6, <1>7

LEMMA OrderApply ==
    ASSUME TypeInv, OrderCore, NEW c \in Clicks,
           \/ ApplyHold(c) \/ ApplyGuard(c) \/ ShopifyCall(c)
           \/ ApplyNotApproved(c) \/ ApplyShadowed(c) \/ ApplyDeduped(c)
           \/ ApplyGuardFails(c) \/ ApplyReturn(c)
    PROVE  OrderCore'
  <1> USE RunOfType
  <1>1. UNCHANGED <<decided, rows>> /\ \A row \in rows' : row.approved # "none"
    BY DEF ApplyHold, ApplyGuard, ShopifyCall, ApplyNotApproved, ApplyShadowed, ApplyDeduped,
           ApplyGuardFails, ApplyReturn, operatorVars, logVars, OrderCore, RowsAreDecided
  <1>2. pc[c] \in Carrying /\ mem[c].next \notin Early /\ mem[c].approval # "none"
    BY DEF ApplyHold, ApplyGuard, ShopifyCall, ApplyNotApproved, ApplyShadowed, ApplyDeduped,
           ApplyGuardFails, ApplyReturn, Live, At, OrderCore, CopiesDecided, Carrying
  <1>3. mem[c] \in Values /\ AtInterrupt(OnRun[c])
    BY <1>2 DEF TypeInv, TypedProcesses, OrderCore, StartersThrough, Carrying
  <1>4. CASE ApplyHold(c) \/ ApplyGuard(c) \/ ShopifyCall(c)
    <2>1. OthersStay(c) /\ UNCHANGED head
      BY <1>4 DEF ApplyHold, ApplyGuard, ShopifyCall, OthersStay, TypeInv, TypedProcesses
    <2>2. mem'[c].next = mem[c].next /\ mem'[c].approval = mem[c].approval
      BY <1>3, <1>4 DEF ApplyHold, ApplyGuard, ShopifyCall, TypeInv, TypedProcesses, Values
    <2> QED
      BY <1>1, <1>2, <1>3, <2>1, <2>2, OrderMove
  <1>5. ASSUME NEW v, Checkpoint(c, v), v.next = "verify", v.approval = mem[c].approval
        PROVE  OrderCore'
    BY <1>1, <1>2, <1>5, OrderCheckpoint DEF Early
  <1>6. CASE ApplyNotApproved(c)
    <2> DEFINE v == [mem[c] EXCEPT !.next = "verify", !.applied = FALSE]
    <2>1. Checkpoint(c, v) /\ v.next = "verify" /\ v.approval = mem[c].approval
      BY <1>3, <1>6 DEF ApplyNotApproved, Values
    <2> HIDE DEF v
    <2> QED
      BY <1>5, <2>1
  <1>7. ASSUME NEW b \in BOOLEAN, NEW e \in BOOLEAN,
               Checkpoint(c, [mem[c] EXCEPT !.next = "verify", !.applied = b, !.error = e])
        PROVE  OrderCore'
    <2> DEFINE v == [mem[c] EXCEPT !.next = "verify", !.applied = b, !.error = e]
    <2>1. Checkpoint(c, v) /\ v.next = "verify" /\ v.approval = mem[c].approval
      BY <1>3, <1>7 DEF Values
    <2> HIDE DEF v
    <2> QED
      BY <1>5, <2>1
  <1>8. CASE ApplyShadowed(c) \/ ApplyDeduped(c) \/ ApplyGuardFails(c)
    BY <1>7, <1>8 DEF ApplyShadowed, ApplyDeduped, ApplyGuardFails
  <1>9. CASE ApplyReturn(c)
    <2> DEFINE v == [mem[c] EXCEPT !.next = "verify"]
    <2>1. Checkpoint(c, v) /\ v.next = "verify" /\ v.approval = mem[c].approval
      BY <1>3, <1>9 DEF ApplyReturn, Values
    <2> HIDE DEF v
    <2> QED
      BY <1>5, <2>1
  <1> QED
    BY <1>4, <1>6, <1>8, <1>9

LEMMA OrderClose ==
    ASSUME TypeInv, OrderCore, NEW c \in Clicks,
           \/ Verify(c) \/ NotifyFind(c) \/ NotifyAppend(c) \/ AuditWrite(c) \/ AuditCleanup(c)
    PROVE  OrderCore'
  <1> USE RunOfType
  <1>1. UNCHANGED decided
    BY DEF Verify, NotifyFind, NotifyAppend, AuditWrite, AuditCleanup, operatorVars
  <1>2. pc[c] \in Carrying /\ mem[c].approval # "none"
    BY DEF Verify, NotifyFind, NotifyAppend, AuditWrite, AuditCleanup, At, OrderCore,
           CopiesDecided, Carrying
  <1>3. mem[c] \in Values /\ AtInterrupt(OnRun[c]) /\ mem[c].next \notin Early
    BY <1>2 DEF TypeInv, TypedProcesses, OrderCore, StartersThrough, CopiesDecided, Carrying
  <1>4. \A row \in rows' : row.approved # "none"
    <2>1. rows' \subseteq rows \cup {AuditRow(c)}
      BY DEF Verify, NotifyFind, NotifyAppend, AuditWrite, AuditCleanup, logVars
    <2>2. AuditRow(c).approved = mem[c].approval
      BY DEF AuditRow
    <2> QED
      BY <1>2, <2>1, <2>2 DEF OrderCore, RowsAreDecided
  <1>5. CASE Verify(c)
    <2>1. PICK passed, t, e :
             Checkpoint(c, [mem[c] EXCEPT !.next = RouteAfterVerify(passed, t),
                                          !.retries = t, !.error = e])
      BY <1>5 DEF Verify
    <2> DEFINE v == [mem[c] EXCEPT !.next = RouteAfterVerify(passed, t), !.retries = t,
                                   !.error = e]
    <2>2. v.next = RouteAfterVerify(passed, t) /\ v.approval = mem[c].approval
      BY <1>3 DEF Values
    <2>3. v.next \notin Early
      BY <2>2 DEF RouteAfterVerify, Early
    <2>4. UNCHANGED rows
      BY <1>5 DEF Verify, logVars
    <2>5. Checkpoint(c, v)
      BY <2>1
    <2> HIDE DEF v
    <2> QED
      BY <1>1, <1>2, <2>2, <2>3, <2>4, <2>5, OrderCheckpoint
  <1>6. ASSUME NEW n \in {"audit", "end"}, UNCHANGED rows,
               Checkpoint(c, [mem[c] EXCEPT !.next = n])
        PROVE  OrderCore'
    <2> DEFINE v == [mem[c] EXCEPT !.next = n]
    <2>1. Checkpoint(c, v) /\ v.next = n /\ v.approval = mem[c].approval
      BY <1>3, <1>6 DEF Values
    <2>2. v.next \notin Early
      BY <2>1 DEF Early
    <2> HIDE DEF v
    <2> QED
      BY <1>1, <1>2, <1>6, <2>1, <2>2, OrderCheckpoint
  <1>7. CASE /\ UNCHANGED <<head, mem>>
             /\ \E x \in {"appending", "cleanup"} : pc' = [pc EXCEPT ![c] = x]
    <2>1. OthersStay(c)
      BY <1>7 DEF OthersStay, TypeInv, TypedProcesses
    <2> QED
      BY <1>1, <1>2, <1>3, <1>4, <1>7, <2>1, OrderMove
  <1> QED
    BY <1>5, <1>6, <1>7 DEF NotifyFind, NotifyAppend, AuditWrite, AuditCleanup, logVars

LEMMA OrderTime ==
    ASSUME TypeInv, OrderCore, Durable,
           \/ \E k \in Keys : ExpireGuard(k)
           \/ \E p \in Processes : TaskFails(p)
           \/ Restart
    PROVE  OrderCore'
  <1> USE RunOfType
  <1>1. UNCHANGED <<head, decided, rows>> /\ \A row \in rows' : row.approved # "none"
    BY DEF ExpireGuard, TaskFails, Restart, AfterRestart, operatorVars, logVars, OrderCore,
           RowsAreDecided
  <1>2. ASSUME NEW k \in Keys, ExpireGuard(k) PROVE OrderCore'
    BY <1>1, <1>2 DEF ExpireGuard, OrderCore, StartersThrough, CopiesDecided, RowsAreDecided,
                      AtInterrupt
  <1>3. ASSUME NEW p \in Processes, TaskFails(p) PROVE OrderCore'
    <2>1. OthersStay(p) /\ pc'[p] = "failed" /\ pc[p] # "idle"
      BY <1>3, StopMoves DEF TaskFails, Underway
    <2> QED
      BY <1>1, <2>1, OrderMove DEF Carrying, OrderCore, StartersThrough
  <1>4. CASE Restart
    <2>1. \A p \in Processes : /\ pc'[p] \in {pc[p], "dead"}
                               /\ pc[p] = "idle" <=> pc'[p] = "idle"
                               /\ pc'[p] \notin Carrying
      BY <1>4 DEF Restart, Underway, Stopped, Carrying, TypeInv, TypedProcesses, PCs
    <2>2. StartersThrough'
      BY <1>1, <2>1 DEF OrderCore, StartersThrough, AtInterrupt
    <2>3. CopiesDecided'
      BY <1>1, <2>1 DEF OrderCore, CopiesDecided, Carrying, Early
    <2> QED
      BY <1>1, <2>2, <2>3 DEF OrderCore, RowsAreDecided
  <1> QED
    BY <1>2, <1>3, <1>4

LEMMA OrderStep == TypeInv /\ DecisionInv /\ OrderInv /\ [Next]_vars => OrderInv'
  <1> SUFFICES ASSUME TypeInv, DecisionInv, OrderInv, [Next]_vars, Durable, Patient
               PROVE  OrderCore'
    BY DEF OrderInv, OrderCore
  <1>1. OrderCore
    BY DEF OrderInv, OrderCore
  <1>2. CASE UNCHANGED vars
    BY <1>1, <1>2 DEF vars, operatorVars, logVars, OrderCore, StartersThrough, CopiesDecided,
                      RowsAreDecided, AtInterrupt
  <1>3. CASE Next
    BY <1>1, <1>3, OrderStarter, OrderProposal, OrderDecision, OrderApply, OrderClose, OrderTime
    DEF Next, ClickStep
  <1> QED
    BY <1>2, <1>3

(* With durable checkpoints and operators who wait for the interrupt, no    *)
(* audit row lacks a decision, so that the dashboard lists none as pending  *)
(* for ever (audit, write_audit_record).                                    *)
THEOREM RowsHaveDecisions == (Durable /\ Patient) /\ Spec => []RowsAreDecided
  <1>1. (Durable /\ Patient) /\ OrderInv => RowsAreDecided
    BY DEF OrderInv
  <1>2. Spec => [](TypeInv /\ DecisionInv /\ OrderInv)
    BY TypeInit, TypeStep, DecisionInit, DecisionStep, OrderInit, OrderStep, PTL DEF Spec
  <1>3. CASE Durable /\ Patient
    <2>1. OrderInv => RowsAreDecided
      BY <1>1, <1>3
    <2> QED
      BY <2>1, <1>2, PTL
  <1> QED
    BY <1>3

(* Whose checkpoints change: a starter's that is not through, a click's     *)
(* whose decision is stored, or with a decision being stored.               *)
LEMMA HeadWriters ==
    ASSUME TypeInv, DecisionInv, Durable, [Next]_vars, NEW r \in Runs, head'[r] # head[r]
    PROVE  \/ pc[r] \in {"idle", "running", "asked"}
           \/ \E c \in decided : OnRun[c] = r
           \/ \E c \in decided' \ decided : OnRun[c] = r
  <1> USE RunOfType
  <1>1. ASSUME NEW p \in Processes, NEW v, Checkpoint(p, v),
               \/ pc[p] \in {"running", "asked"}
               \/ p \in Clicks /\ pc[p] \in {"called", "appending", "cleanup"}
        PROVE  pc[r] \in {"idle", "running", "asked"} \/ \E c \in decided : OnRun[c] = r
    <2>1. RunOf(p) = r
      BY <1>1, CheckpointMoves
    <2>2. CASE p \in Clicks
      BY <1>1, <2>1, <2>2 DEF DecisionInv, ClicksDecide, Resumed
    <2>3. CASE p \in Runs
      <3>1. p = r /\ p \notin Clicks
        BY <2>1, <2>3
      <3> QED
        BY <1>1, <3>1
    <2> QED
      BY <2>2, <2>3 DEF Processes
  <1>2. ASSUME NEW q \in Runs, StartWorkflow(q) PROVE pc[r] = "idle"
    BY <1>2 DEF StartWorkflow, TypeInv, TypedHeads
  <1>3. ASSUME NEW p \in Processes, ProposalStep(p)
        PROVE  \E v : Checkpoint(p, v) /\ pc[p] \in {"running", "asked"}
    BY <1>3 DEF ProposalStep, Detect, Investigate, Propose, Interrupt, At
  <1>4. ASSUME NEW c \in Clicks, StoreDecision(c)
        PROVE  \E d \in decided' \ decided : OnRun[d] = r
    <2>1. c \in decided' \ decided
      BY <1>4 DEF StoreDecision, DecisionInv, ClicksDecide, Accepted
    <2>2. OnRun[c] = r
      BY <1>4 DEF StoreDecision, TypeInv, TypedHeads
    <2> QED
      BY <2>1, <2>2
  <1>5. ASSUME NEW c \in Clicks,
               \/ ApplyNotApproved(c) \/ ApplyShadowed(c) \/ ApplyHold(c)
               \/ ApplyDeduped(c) \/ ApplyGuard(c) \/ ApplyGuardFails(c)
               \/ ShopifyCall(c) \/ ApplyReturn(c)
               \/ Verify(c) \/ NotifyFind(c) \/ NotifyAppend(c)
               \/ AuditWrite(c) \/ AuditCleanup(c)
        PROVE  \E v : Checkpoint(c, v)
                      /\ pc[c] \in {"running", "asked", "called", "appending", "cleanup"}
    BY <1>5 DEF ApplyNotApproved, ApplyShadowed, ApplyHold, ApplyDeduped, ApplyGuard,
                ApplyGuardFails, ShopifyCall, ApplyReturn, Verify, NotifyFind, NotifyAppend,
                AuditWrite, AuditCleanup, Live, At
  <1>6. CASE \/ \E q \in Runs : StarterStep(q) \/ ExpirePending(q)
             \/ \E c \in Clicks : \/ RestSubmit(c) \/ SlackAction(c)
                                 \/ LoadState(c) \/ Resume(c)
             \/ \E k \in Keys : ExpireGuard(k)
             \/ \E p \in Processes : TaskFails(p)
             \/ Restart
             \/ UNCHANGED vars
    BY <1>6 DEF StarterStep, SaveWorkflowState, ExpirePending, RestSubmit, SlackAction,
                LoadState, Resume, ExpireGuard, TaskFails, Restart, AfterRestart, vars
  <1> QED
    BY <1>1, <1>2, <1>3, <1>4, <1>5, <1>6 DEF Next, ClickStep

(* An undecided proposal stays as it is, through restarts and the work on   *)
(* other runs, until a decision on it is stored (the Redis checkpointer,    *)
(* aupdate_state).                                                          *)
THEOREM ProposalsAreKept == (Durable /\ Patient) /\ Spec => ProposalsKeep
  <1>1. ASSUME Durable, Patient, TypeInv, DecisionInv, OrderInv, [Next]_vars
        PROVE  [\A r \in Runs :
                  AtInterrupt(r) /\ head[r].approval = "none" /\ head'[r] # head[r]
                  => \E c \in decided' \ decided : OnRun[c] = r]_vars
    <2> SUFFICES ASSUME NEW r \in Runs, AtInterrupt(r), head[r].approval = "none",
                        head'[r] # head[r]
                 PROVE  \E c \in decided' \ decided : OnRun[c] = r
      OBVIOUS
    <2>1. pc[r] \notin {"idle", "running", "asked"}
      BY <1>1 DEF OrderInv, StartersThrough
    <2>2. ~\E c \in decided : OnRun[c] = r
      BY <1>1 DEF OrderInv, CopiesDecided
    <2> QED
      BY <1>1, <2>1, <2>2, HeadWriters
  <1>2. Spec => [](TypeInv /\ DecisionInv /\ OrderInv)
    BY TypeInit, TypeStep, DecisionInit, DecisionStep, OrderInit, OrderStep, PTL DEF Spec
  <1>3. CASE Durable /\ Patient
    <2>1. TypeInv /\ DecisionInv /\ OrderInv /\ [Next]_vars
          => [\A r \in Runs :
                AtInterrupt(r) /\ head[r].approval = "none" /\ head'[r] # head[r]
                => \E c \in decided' \ decided : OnRun[c] = r]_vars
      BY <1>1, <1>3
    <2> QED
      BY <2>1, <1>2, PTL DEF Spec, ProposalsKeep
  <1> QED
    BY <1>3
=============================================================================
