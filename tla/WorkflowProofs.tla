--------------------------- MODULE WorkflowProofs ---------------------------
(***************************************************************************)
(* Safety of the workflow for any number of runs, clicks and targets, any  *)
(* set of failures, and both kinds of checkpointer: the parts of Inv are   *)
(* inductive, one after the other.                                         *)
(***************************************************************************)
EXTENDS WorkflowInvariant, TLAPS

(* What a node returns is a good checkpoint. *)
LEMMA BlankGood == Good(Blank) /\ Good(Initial)
  <1>1. Blank \in Values
    BY 0 \in 0..MaxVerify DEF Blank, Values, MaxVerify
  <1>2. Initial \in Values
    BY <1>1 DEF Initial, Values, Nodes
  <1>3. Blank.retries < MaxVerify /\ Initial.retries = Blank.retries
    BY DEF Blank, Initial, MaxVerify
  <1> QED
    BY <1>1, <1>2, <1>3 DEF Good

LEMMA AdvanceGood ==
    ASSUME NEW v, Good(v), NEW n \in Nodes, n \in Past \/ v.next \notin Past
    PROVE  Good([v EXCEPT !.next = n])
  BY DEF Good, Values, MaxVerify

LEMMA OutcomeGood ==
    ASSUME NEW v, Good(v), NEW b \in BOOLEAN, NEW e \in BOOLEAN
    PROVE  /\ Good([v EXCEPT !.applied = b, !.error = e])
           /\ v.next \notin Past =>
                /\ Good([v EXCEPT !.next = "verify", !.applied = b])
                /\ Good([v EXCEPT !.next = "verify", !.applied = b, !.error = e])
  BY DEF Good, Values, MaxVerify, Nodes

LEMMA ChoiceGood ==
    ASSUME NEW v, Good(v)
    PROVE  /\ \A a \in Actions : Good([v EXCEPT !.action = a])
           /\ \A d \in {"none", "approved", "rejected"} : Good([v EXCEPT !.approval = d])
  BY DEF Good, Values, MaxVerify

LEMMA VerifyGood ==
    ASSUME NEW v, Good(v), v.next = "verify", NEW passed \in BOOLEAN,
           NEW tried, tried = IF passed THEN v.retries ELSE v.retries + 1
    PROVE  Good([v EXCEPT !.next = RouteAfterVerify(passed, tried),
                          !.retries = tried,
                          !.error = ErrorAfter(passed, @)])
  <1>1. tried \in 0..MaxVerify
    BY DEF Good, Values, MaxVerify, Past
  <1>2. /\ RouteAfterVerify(passed, tried) \in Nodes
        /\ RouteAfterVerify(passed, tried) \in Past \/ tried < MaxVerify
    BY <1>1 DEF RouteAfterVerify, Nodes, Past, MaxVerify
  <1>3. ErrorAfter(passed, v.error) \in BOOLEAN
    BY DEF ErrorAfter
  <1> QED
    BY <1>1, <1>2, <1>3 DEF Good, Values

-----------------------------------------------------------------------------
(* How a step changes the variables every task shares: one task's pc and   *)
(* private copy, and perhaps its run's head.                               *)

LEMMA RunOfType ==
    /\ \A p \in Processes : RunOf(p) \in Runs
    /\ \A c \in Clicks : c \in Processes /\ OnRun[c] \in Runs /\ RunOf(c) = OnRun[c]
    /\ \A r \in Runs : r \in Processes /\ RunOf(r) = r /\ r \notin Clicks
  BY ConstantsAssumption DEF RunOf, Processes

LEMMA AfterPC ==
    ASSUME NEW p, NEW v
    PROVE  After(p, v) \in {"listing", "done", "closed", "running"}
  BY DEF After

(* Local(p, x, y): p moves to x with private copy y. *)
Local(p, x, y) ==
    pc' = [pc EXCEPT ![p] = x] /\ mem' = [mem EXCEPT ![p] = y]

LEMMA LocalTyped ==
    ASSUME TypedProcesses, NEW p \in Processes, NEW x \in PCs, NEW y, Good(y),
           x \in Midway => y.next \notin Past, Local(p, x, y)
    PROVE  TypedProcesses'
  BY DEF TypedProcesses, Local, Good

LEMMA CheckpointTyped ==
    ASSUME TypedProcesses, TypedHeads, NEW p \in Processes, NEW v, Good(v),
           Checkpoint(p, v)
    PROVE  TypedProcesses' /\ TypedHeads'
  <1> DEFINE y == IF After(p, v) = "running" THEN v ELSE Blank
  <1>1. After(p, v) \in PCs \ Midway
    BY AfterPC DEF PCs, Midway
  <1>2. Good(y)
    BY BlankGood
  <1>3. Local(p, After(p, v), y)
    BY DEF Checkpoint, Local
  <1>4. TypedProcesses'
    <2> HIDE DEF y
    <2> QED
      BY <1>1, <1>2, <1>3, LocalTyped
  <1>5. TypedHeads'
    BY RunOfType DEF Checkpoint, TypedHeads, Good
  <1> QED
    BY <1>4, <1>5

LEMMA StopTyped ==
    ASSUME TypedProcesses, NEW p \in Processes, NEW x \in PCs \ Midway, Stop(p, x)
    PROVE  TypedProcesses'
  <1>1. Local(p, x, Blank)
    BY DEF Stop, Local
  <1> QED
    BY <1>1, LocalTyped, BlankGood
-----------------------------------------------------------------------------
(* Typing is inductive. *)

LEMMA TypeInit == Init => TypeInv
  <1> SUFFICES ASSUME Init PROVE TypeInv
    OBVIOUS
  <1>1. TypedProcesses /\ TypedHeads
    BY BlankGood DEF Init, TypedProcesses, TypedHeads, Good, PCs, Midway
  <1>2. TypedLogs
    BY ConstantsAssumption DEF Init, TypedLogs
  <1> QED
    BY <1>1, <1>2 DEF TypeInv

LEMMA TypeStarter ==
    ASSUME TypeInv, NEW r \in Runs,
           StartWorkflow(r) \/ StarterStep(r) \/ ExpirePending(r)
    PROVE  TypeInv'
  <1> USE RunOfType DEF TypeInv
  <1>1. CASE StartWorkflow(r)
    <2>1. Local(r, "running", Initial) /\ UNCHANGED <<operatorVars, shopifyVars, logVars, registryVars, shadow>>
      BY <1>1 DEF StartWorkflow, Local
    <2>2. TypedProcesses'
      BY <2>1, LocalTyped, BlankGood DEF PCs, Midway
    <2>3. TypedHeads'
      BY <1>1, BlankGood DEF StartWorkflow, TypedHeads, Good
    <2>4. TypedLogs'
      BY <2>1 DEF TypedLogs, operatorVars, shopifyVars, logVars, registryVars
    <2> QED
      BY <2>2, <2>3, <2>4
  <1>2. CASE SaveWorkflowState(r)
    <2>1. TypedProcesses'
      BY <1>2 DEF SaveWorkflowState, TypedProcesses, PCs, Midway
    <2>2. TypedHeads' /\ TypedLogs'
      BY <1>2 DEF SaveWorkflowState, TypedHeads, TypedLogs, operatorVars, shopifyVars, logVars
    <2> QED
      BY <2>1, <2>2
  <1>3. CASE ExpirePending(r)
    BY <1>3 DEF ExpirePending, TypedProcesses, TypedHeads, TypedLogs, operatorVars,
                shopifyVars, logVars
  <1> QED
    BY <1>1, <1>2, <1>3 DEF StarterStep

LEMMA TypeProposal ==
    ASSUME TypeInv, NEW p \in Processes, ProposalStep(p)
    PROVE  TypeInv'
  <1> USE DEF TypeInv
  <1>1. Good(mem[p])
    BY DEF TypedProcesses
  <1>2. CASE Propose(p)
    <2>1. PICK a \in Actions : mem' = [mem EXCEPT ![p].action = a]
      BY <1>2 DEF Propose
    <2>2. Local(p, "asked", [mem[p] EXCEPT !.action = a])
      BY <1>2, <2>1 DEF Propose, Local
    <2>3. [mem[p] EXCEPT !.action = a].next = "propose"
      BY <1>1, <1>2 DEF Propose, At, Good, Values
    <2>4. TypedProcesses'
      BY <1>1, <2>2, <2>3, LocalTyped, ChoiceGood DEF PCs, Past
    <2>5. TypedHeads' /\ TypedLogs'
      BY <1>2, RunOfType DEF Propose, TypedHeads, TypedLogs, operatorVars, shopifyVars, logVars
    <2> QED
      BY <2>4, <2>5
  <1>3. CASE Detect(p) \/ Investigate(p) \/ Interrupt(p)
    <2>1. PICK n \in {"investigate", "propose", "apply_mutation"} :
             Checkpoint(p, [mem[p] EXCEPT !.next = n])
      BY <1>3 DEF Detect, Investigate, Interrupt
    <2>2. Good([mem[p] EXCEPT !.next = n])
      <3>1. mem[p].next \notin Past
        BY <1>3 DEF TypedProcesses, Detect, Investigate, Interrupt, At, Past, Midway
      <3> QED
        BY <1>1, <3>1, AdvanceGood DEF Nodes
    <2>3. TypedProcesses' /\ TypedHeads'
      BY <2>1, <2>2, CheckpointTyped
    <2>4. TypedLogs'
      BY <1>3 DEF Detect, Investigate, Interrupt, TypedLogs, operatorVars, shopifyVars,
                  logVars, registryVars
    <2> QED
      BY <2>3, <2>4
  <1> QED
    BY <1>2, <1>3 DEF ProposalStep
LEMMA TypeDecision ==
    ASSUME TypeInv, NEW c \in Clicks,
           \/ RestSubmit(c) \/ SlackAction(c)
           \/ LoadState(c) \/ StoreDecision(c) \/ Resume(c)
    PROVE  TypeInv'
  <1> USE DEF TypeInv
  <1>1. c \in Processes /\ OnRun[c] \in Runs /\ RunOf(c) = OnRun[c]
    BY RunOfType
  <1>2. Good(mem[c]) /\ Good(head[OnRun[c]])
    BY <1>1 DEF TypedProcesses, TypedHeads
  <1>3. CASE RestSubmit(c) \/ SlackAction(c)
    <2>1. PICK x \in {"checked", "done"} : pc' = [pc EXCEPT ![c] = x]
      BY <1>3 DEF RestSubmit, SlackAction
    <2>2. UNCHANGED mem
      BY <1>3 DEF RestSubmit, SlackAction
    <2>3. TypedProcesses'
      BY <1>1, <2>1, <2>2 DEF TypedProcesses, PCs, Midway
    <2>4. verdict' \in [Clicks -> {"none", "approved", "rejected"}]
      BY <1>3 DEF RestSubmit, SlackAction, Choose, TypedLogs
    <2>5. TypedHeads' /\ TypedLogs'
      BY <1>3, <2>4 DEF RestSubmit, SlackAction, TypedHeads, TypedLogs, shopifyVars,
                        logVars, registryVars
    <2> QED
      BY <2>3, <2>5
  <1>4. CASE LoadState(c)
    <2>1. TypedHeads' /\ TypedLogs'
      BY <1>4 DEF LoadState, TypedHeads, TypedLogs, operatorVars, shopifyVars, logVars,
                  registryVars
    <2>2. CASE Stop(c, "failed")
      BY <1>1, <2>1, <2>2, StopTyped DEF PCs, Midway
    <2>3. CASE Local(c, "loaded", WithDecision(head[OnRun[c]], c))
      <3>1. verdict[c] \in {"none", "approved", "rejected"}
        BY DEF TypedLogs
      <3>2. Good(WithDecision(head[OnRun[c]], c))
        BY <1>2, <3>1, ChoiceGood DEF WithDecision
      <3> QED
        BY <1>1, <2>1, <2>3, <3>2, LocalTyped DEF PCs, Midway
    <2> QED
      BY <1>4, <2>2, <2>3 DEF LoadState, Local
  <1>5. CASE StoreDecision(c)
    <2>1. TypedProcesses'
      BY <1>1, <1>5, StopTyped DEF StoreDecision, PCs, Midway
    <2>2. TypedHeads'
      BY <1>1, <1>2, <1>5 DEF StoreDecision, TypedHeads, Good
    <2>3. TypedLogs'
      BY <1>5 DEF StoreDecision, TypedLogs, shopifyVars, logVars, registryVars
    <2> QED
      BY <2>1, <2>2, <2>3
  <1>6. CASE Resume(c)
    <2>1. TypedHeads' /\ TypedLogs'
      BY <1>6 DEF Resume, TypedHeads, TypedLogs, operatorVars, shopifyVars, logVars,
                  registryVars
    <2>2. CASE Stop(c, "done")
      BY <1>1, <2>1, <2>2, StopTyped DEF PCs, Midway
    <2>3. CASE Local(c, "running", head[OnRun[c]])
      BY <1>1, <1>2, <2>1, <2>3, LocalTyped DEF PCs, Midway
    <2> QED
      BY <1>6, <2>2, <2>3 DEF Resume, Local
  <1> QED
    BY <1>3, <1>4, <1>5, <1>6

LEMMA TypeApply ==
    ASSUME TypeInv, NEW c \in Clicks,
           \/ ApplyNotApproved(c) \/ ApplyShadowed(c) \/ ApplyHold(c)
           \/ ApplyDeduped(c) \/ ApplyGuard(c) \/ ApplyGuardFails(c)
           \/ ShopifyCall(c) \/ ApplyReturn(c)
    PROVE  TypeInv'
  <1> USE DEF TypeInv
  <1>1. c \in Processes
    BY RunOfType
  <1>2. Good(mem[c])
    BY <1>1 DEF TypedProcesses
  <1>3. mem[c].next \notin Past
    BY <1>1 DEF TypedProcesses, ApplyNotApproved, ApplyShadowed, ApplyHold, ApplyDeduped,
                ApplyGuard, ApplyGuardFails, ShopifyCall, ApplyReturn, Live, At, Past, Midway
  <1>4. CASE \/ ApplyNotApproved(c) \/ ApplyShadowed(c) \/ ApplyDeduped(c)
             \/ ApplyGuardFails(c) \/ ApplyReturn(c)
    <2>1. PICK v : Good(v) /\ Checkpoint(c, v)
      <3>1. CASE ApplyNotApproved(c)
        BY <1>2, <1>3, <3>1, OutcomeGood DEF ApplyNotApproved
      <3>2. CASE ApplyShadowed(c) \/ ApplyDeduped(c) \/ ApplyGuardFails(c)
        BY <1>2, <1>3, <3>2, OutcomeGood DEF ApplyShadowed, ApplyDeduped, ApplyGuardFails
      <3>3. CASE ApplyReturn(c)
        BY <1>2, <1>3, <3>3, AdvanceGood DEF ApplyReturn, Nodes
      <3> QED
        BY <1>4, <3>1, <3>2, <3>3
    <2>2. TypedProcesses' /\ TypedHeads'
      BY <1>1, <2>1, CheckpointTyped
    <2>3. TypedLogs'
      <3>1. CASE ApplyNotApproved(c) \/ ApplyShadowed(c) \/ ApplyDeduped(c) \/ ApplyReturn(c)
        BY <3>1 DEF ApplyNotApproved, ApplyShadowed, ApplyDeduped, ApplyReturn,
                    TypedLogs, operatorVars, shopifyVars, logVars, registryVars
      <3>2. CASE ApplyGuardFails(c)
        BY <3>2 DEF ApplyGuardFails, SetGuard, KeyFree, TypedLogs, operatorVars, logVars,
                    registryVars
      <3> QED
        BY <1>4, <3>1, <3>2
    <2> QED
      BY <2>2, <2>3
  <1>5. CASE ApplyHold(c) \/ ShopifyCall(c)
    <2>1. PICK b \in BOOLEAN, e \in BOOLEAN :
             mem' = [mem EXCEPT ![c].applied = b, ![c].error = e] /\ pc' = [pc EXCEPT ![c] = "called"]
      BY <1>5 DEF ApplyHold, ShopifyCall
    <2>2. Local(c, "called", [mem[c] EXCEPT !.applied = b, !.error = e])
      BY <1>1, <2>1 DEF Local, TypedProcesses
    <2>3. [mem[c] EXCEPT !.applied = b, !.error = e].next = mem[c].next
      BY <1>2 DEF Good, Values
    <2>4. TypedProcesses'
      BY <1>1, <1>2, <1>3, <2>2, <2>3, LocalTyped, OutcomeGood DEF PCs
    <2>5. TypedHeads'
      BY <1>5 DEF ApplyHold, ShopifyCall, TypedHeads
    <2>6. TypedLogs'
      <3>1. CASE ApplyHold(c)
        BY <3>1 DEF ApplyHold, TypedLogs, operatorVars, logVars, registryVars
      <3>2. CASE ShopifyCall(c)
        BY <3>2 DEF ShopifyCall, TypedLogs, operatorVars, logVars, registryVars
      <3> QED
        BY <1>5, <3>1, <3>2
    <2> QED
      BY <2>4, <2>5, <2>6
  <1>6. CASE ApplyGuard(c)
    <2>1. TypedProcesses'
      BY <1>1, <1>3, <1>6 DEF ApplyGuard, TypedProcesses, PCs, Midway
    <2>2. TypedHeads' /\ TypedLogs'
      BY <1>6 DEF ApplyGuard, SetGuard, KeyFree, TypedHeads, TypedLogs, operatorVars, logVars, registryVars
    <2> QED
      BY <2>1, <2>2
  <1> QED
    BY <1>4, <1>5, <1>6
LEMMA TypeClose ==
    ASSUME TypeInv, NEW c \in Clicks,
           \/ Verify(c) \/ NotifyFind(c) \/ NotifyAppend(c)
           \/ AuditWrite(c) \/ AuditCleanup(c)
    PROVE  TypeInv'
  <1> USE DEF TypeInv
  <1>1. c \in Processes
    BY RunOfType
  <1>2. Good(mem[c])
    BY <1>1 DEF TypedProcesses
  <1>3. CASE Verify(c)
    <2>1. PICK passed \in BOOLEAN :
             LET tried == IF passed THEN mem[c].retries ELSE mem[c].retries + 1 IN
             Checkpoint(c, [mem[c] EXCEPT !.next = RouteAfterVerify(passed, tried),
                                          !.retries = tried,
                                          !.error = ErrorAfter(passed, @)])
      BY <1>3 DEF Verify
    <2>2. mem[c].next = "verify"
      BY <1>3 DEF Verify, At
    <2>3. TypedProcesses' /\ TypedHeads'
      BY <1>1, <1>2, <2>1, <2>2, VerifyGood, CheckpointTyped
    <2>4. TypedLogs'
      BY <1>3 DEF Verify, TypedLogs, operatorVars, shopifyVars, logVars, registryVars
    <2> QED
      BY <2>3, <2>4
  <1>4. ASSUME NEW n \in Past, Checkpoint(c, [mem[c] EXCEPT !.next = n])
        PROVE  TypedProcesses' /\ TypedHeads'
    BY <1>1, <1>2, <1>4, AdvanceGood, CheckpointTyped DEF Past, Nodes
  <1>5. CASE NotifyFind(c)
    <2>1. ASSUME Checkpoint(c, [mem[c] EXCEPT !.next = "audit"])
          PROVE  TypedProcesses' /\ TypedHeads'
      BY <1>4, <2>1 DEF Past
    <2>2. ASSUME pc' = [pc EXCEPT ![c] = "appending"], UNCHANGED <<head, mem>>
          PROVE  TypedProcesses' /\ TypedHeads'
      BY <1>1, <2>2 DEF TypedProcesses, TypedHeads, PCs, Midway
    <2>3. TypedLogs'
      BY <1>5 DEF NotifyFind, TypedLogs, operatorVars, shopifyVars, logVars, registryVars
    <2> QED
      BY <1>5, <2>1, <2>2, <2>3 DEF NotifyFind
  <1>6. CASE NotifyAppend(c)
    <2>1. TypedProcesses' /\ TypedHeads'
      BY <1>4, <1>6 DEF NotifyAppend, Past
    <2>2. TypedLogs'
      BY <1>6 DEF NotifyAppend, TypedLogs, operatorVars, shopifyVars, registryVars
    <2> QED
      BY <2>1, <2>2
  <1>7. CASE AuditWrite(c)
    <2>1. TypedProcesses' /\ TypedHeads'
      BY <1>1, <1>7 DEF AuditWrite, TypedProcesses, TypedHeads, PCs, Midway
    <2>2. AuditRow(c) \in Row
      BY <1>2, RunOfType DEF AuditRow, Row, Good, Values, Actions
    <2>3. TypedLogs'
      BY <1>7, <2>2 DEF AuditWrite, TypedLogs, operatorVars, shopifyVars, registryVars
    <2> QED
      BY <2>1, <2>3
  <1>8. CASE AuditCleanup(c)
    <2>1. TypedProcesses' /\ TypedHeads'
      BY <1>4, <1>8 DEF AuditCleanup, Past
    <2>2. TypedLogs'
      BY <1>8 DEF AuditCleanup, TypedLogs, operatorVars, shopifyVars
    <2> QED
      BY <2>1, <2>2
  <1> QED
    BY <1>3, <1>5, <1>6, <1>7, <1>8

LEMMA TypeTime ==
    ASSUME TypeInv,
           \/ \E k \in Keys : ExpireGuard(k)
           \/ \E p \in Processes : TaskFails(p)
           \/ Restart
    PROVE  TypeInv'
  <1> USE DEF TypeInv
  <1>1. ASSUME NEW k \in Keys, ExpireGuard(k) PROVE TypeInv'
    BY <1>1 DEF ExpireGuard, TypedProcesses, TypedHeads, TypedLogs, operatorVars, logVars,
                registryVars
  <1>2. ASSUME NEW p \in Processes, TaskFails(p) PROVE TypeInv'
    <2>1. TypedProcesses'
      BY <1>2, StopTyped DEF TaskFails, PCs, Midway
    <2>2. TypedHeads' /\ TypedLogs'
      BY <1>2 DEF TaskFails, TypedHeads, TypedLogs, operatorVars, shopifyVars, logVars,
                  registryVars
    <2> QED
      BY <2>1, <2>2
  <1>3. CASE Restart
    <2>1. TypedProcesses'
      <3>1. \A p \in Processes : pc'[p] \in PCs \ Midway
        BY <1>3 DEF Restart, TypedProcesses, Underway, Stopped, PCs, Midway
      <3>2. pc' \in [Processes -> PCs]
        BY <1>3, <3>1 DEF Restart
      <3>3. mem' = [p \in Processes |-> Blank]
        BY <1>3 DEF Restart
      <3> QED
        BY <3>1, <3>2, <3>3, BlankGood DEF TypedProcesses, Good
    <2>2. TypedHeads'
      BY <1>3, BlankGood DEF Restart, AfterRestart, TypedHeads, Good
    <2>3. TypedLogs'
      BY <1>3, ConstantsAssumption DEF Restart, TypedLogs, operatorVars, shopifyVars, logVars,
                                       registryVars
    <2> QED
      BY <2>1, <2>2, <2>3
  <1> QED
    BY <1>1, <1>2, <1>3

LEMMA TypeStep == TypeInv /\ [Next]_vars => TypeInv'
  <1> SUFFICES ASSUME TypeInv, [Next]_vars PROVE TypeInv'
    OBVIOUS
  <1>1. CASE UNCHANGED vars
    BY <1>1 DEF TypeInv, TypedProcesses, TypedHeads, TypedLogs, vars, operatorVars,
                shopifyVars, logVars, registryVars
  <1>2. CASE Next
    BY <1>2, TypeStarter, TypeProposal, TypeDecision, TypeApply, TypeClose, TypeTime
    DEF Next, ClickStep
  <1> QED
    BY <1>1, <1>2

(* Every variable keeps its type, and the retry counter stays within        *)
(* MaxVerify, whatever runs, clicks, failures and restarts there are        *)
(* (DiscrepancyState, _route_after_verify).                                 *)
THEOREM TypeCorrect == Spec => []TypeOK
  <1>1. TypeInv => TypeOK
    BY DEF TypeInv, TypeOK, TypedProcesses, TypedHeads, TypedLogs
  <1> QED
    BY <1>1, TypeInit, TypeStep, PTL DEF Spec
-----------------------------------------------------------------------------
(* One Shopify call per life of a guard key.  Only ApplyGuard makes a click *)
(* "calling"; everything else leaves the callers and their keys alone.      *)

NoNewCaller ==
    \A c \in Clicks : pc'[c] = "calling" => pc[c] = "calling" /\ mem'[c] = mem[c]

LEMMA KeyFrame ==
    ASSUME KeyInv, NoNewCaller, UNCHANGED <<guards, window>>
    PROVE  KeyInv'
  <1>1. \A c \in Clicks : pc'[c] = "calling" => pc[c] = "calling" /\ KeyOf(c)' = KeyOf(c)
    BY DEF NoNewCaller, KeyOf, RunOf
  <1> QED
    BY <1>1 DEF KeyInv, OneCallPerKey

LEMMA LocalCallers ==
    ASSUME TypeInv, NEW p \in Processes, NEW x, x # "calling", NEW y, Local(p, x, y)
    PROVE  NoNewCaller
  BY RunOfType DEF NoNewCaller, Local, TypeInv, TypedProcesses

LEMMA CheckpointCallers ==
    ASSUME TypeInv, NEW p \in Processes, NEW v, Checkpoint(p, v)
    PROVE  NoNewCaller
  <1>1. Local(p, After(p, v), IF After(p, v) = "running" THEN v ELSE Blank)
    BY DEF Checkpoint, Local
  <1> QED
    BY <1>1, AfterPC, LocalCallers

LEMMA StopCallers ==
    ASSUME TypeInv, NEW p \in Processes, NEW x, x # "calling", Stop(p, x)
    PROVE  NoNewCaller
  <1>1. Local(p, x, Blank)
    BY DEF Stop, Local
  <1> QED
    BY <1>1, LocalCallers

LEMMA KeyInit == Init => KeyInv
  BY RunOfType DEF Init, KeyInv, OneCallPerKey

LEMMA KeyOthers ==
    ASSUME TypeInv,
           \/ \E r \in Runs : StartWorkflow(r) \/ StarterStep(r) \/ ExpirePending(r)
           \/ \E p \in Processes : ProposalStep(p)
           \/ \E c \in Clicks : \/ RestSubmit(c) \/ SlackAction(c)
                               \/ LoadState(c) \/ StoreDecision(c) \/ Resume(c)
           \/ \E p \in Processes : TaskFails(p)
           \/ Restart
    PROVE  NoNewCaller /\ UNCHANGED <<guards, window>>
  <1> USE RunOfType
  <1>1. ASSUME NEW r \in Runs, StartWorkflow(r) \/ StarterStep(r) \/ ExpirePending(r)
        PROVE  NoNewCaller /\ UNCHANGED <<guards, window>>
    BY <1>1 DEF StartWorkflow, StarterStep, SaveWorkflowState, ExpirePending, NoNewCaller,
                TypeInv, TypedProcesses, shopifyVars
  <1>2. ASSUME NEW p \in Processes, ProposalStep(p)
        PROVE  NoNewCaller /\ UNCHANGED <<guards, window>>
    <2>1. CASE Propose(p)
      BY <2>1 DEF Propose, NoNewCaller, TypeInv, TypedProcesses, shopifyVars
    <2>2. CASE Detect(p) \/ Investigate(p) \/ Interrupt(p)
      BY <2>2, CheckpointCallers DEF Detect, Investigate, Interrupt, shopifyVars
    <2> QED
      BY <1>2, <2>1, <2>2 DEF ProposalStep
  <1>3. ASSUME NEW c \in Clicks, RestSubmit(c) \/ SlackAction(c)
        PROVE  NoNewCaller /\ UNCHANGED <<guards, window>>
    BY <1>3 DEF RestSubmit, SlackAction, NoNewCaller, TypeInv, TypedProcesses, shopifyVars
  <1>4. ASSUME NEW c \in Clicks, LoadState(c) \/ StoreDecision(c) \/ Resume(c)
        PROVE  NoNewCaller /\ UNCHANGED <<guards, window>>
    <2>1. \/ Stop(c, "failed") \/ Stop(c, "stored") \/ Stop(c, "done")
          \/ \E y : Local(c, "loaded", y) \/ Local(c, "running", y)
      BY <1>4 DEF LoadState, StoreDecision, Resume, Local
    <2> QED
      BY <1>4, <2>1, StopCallers, LocalCallers DEF LoadState, StoreDecision, Resume, shopifyVars
  <1>5. ASSUME NEW p \in Processes, TaskFails(p)
        PROVE  NoNewCaller /\ UNCHANGED <<guards, window>>
    BY <1>5, StopCallers DEF TaskFails, shopifyVars
  <1>6. CASE Restart
    BY <1>6 DEF Restart, NoNewCaller, Underway, Stopped, PCs, shopifyVars
  <1> QED
    BY <1>1, <1>2, <1>3, <1>4, <1>5, <1>6

LEMMA GuardSet ==
    ASSUME TypeInv, KeyInv, NEW c \in Clicks, SetGuard(c),
           \A d \in Clicks : pc'[d] = "calling" =>
              (d = c \/ pc[d] = "calling") /\ KeyOf(d)' = KeyOf(d)
    PROVE  KeyInv'
  <1> DEFINE k == KeyOf(c)
  <1>1. k \in Keys /\ k \notin guards /\ guards' = guards \cup {k}
        /\ window' = [window EXCEPT ![k] = {}]
    BY DEF SetGuard, KeyFree
  <1>2. \A d \in Clicks : pc[d] = "calling" => KeyOf(d) \in guards /\ KeyOf(d) # k
    BY <1>1 DEF KeyInv
  <1>3. window'[k] = {} /\ \A j \in Keys : j # k => window'[j] = window[j]
    BY <1>1 DEF TypeInv, TypedLogs
  <1>4. \A d, e \in Clicks :
           pc'[d] = "calling" /\ pc'[e] = "calling" /\ KeyOf(d)' = KeyOf(e)' => d = e
    BY <1>2 DEF KeyInv, k
  <1> HIDE DEF k
  <1>5. \A d \in Clicks : pc'[d] = "calling" => KeyOf(d)' \in guards' /\ window'[KeyOf(d)'] = {}
    <2>1. \A d \in Clicks : d = c => KeyOf(d) = k
      BY DEF k
    <2>2. \A d \in Clicks : pc[d] = "calling" => KeyOf(d) \in Keys /\ window[KeyOf(d)] = {}
      BY DEF KeyInv, TypeInv, TypedLogs
    <2> QED
      BY <1>1, <1>2, <1>3, <2>1, <2>2
  <1>6. OneCallPerKey'
    BY <1>3 DEF KeyInv, OneCallPerKey
  <1> QED
    BY <1>4, <1>5, <1>6 DEF KeyInv

LEMMA KeyStep == TypeInv /\ KeyInv /\ [Next]_vars => KeyInv'
  <1> SUFFICES ASSUME TypeInv, KeyInv, [Next]_vars PROVE KeyInv'
    OBVIOUS
  <1> USE RunOfType
  <1>1. CASE UNCHANGED vars
    BY <1>1, KeyFrame DEF vars, shopifyVars, NoNewCaller
  <1>2. ASSUME NEW c \in Clicks,
               \/ ApplyNotApproved(c) \/ ApplyShadowed(c) \/ ApplyDeduped(c)
               \/ ApplyGuardFails(c) \/ ApplyReturn(c) \/ Verify(c)
               \/ NotifyFind(c) \/ NotifyAppend(c) \/ AuditCleanup(c)
        PROVE  KeyInv'
    <2>1. \/ \E v : Checkpoint(c, v)
          \/ pc' = [pc EXCEPT ![c] = "appending"] /\ UNCHANGED mem
      BY <1>2 DEF ApplyNotApproved, ApplyShadowed, ApplyDeduped, ApplyGuardFails, ApplyReturn,
                  Verify, NotifyFind, NotifyAppend, AuditCleanup
    <2>2. NoNewCaller
      <3>1. CASE \E v : Checkpoint(c, v)
        BY <3>1, CheckpointCallers
      <3>2. CASE pc' = [pc EXCEPT ![c] = "appending"] /\ UNCHANGED mem
        BY <3>2 DEF NoNewCaller, TypeInv, TypedProcesses
      <3> QED
        BY <2>1, <3>1, <3>2
    <2>3. UNCHANGED <<guards, window>> \/ SetGuard(c)
      BY <1>2 DEF ApplyNotApproved, ApplyShadowed, ApplyDeduped, ApplyGuardFails, ApplyReturn,
                  Verify, NotifyFind, NotifyAppend, AuditCleanup, shopifyVars
    <2>4. CASE SetGuard(c)
      BY <2>2, <2>4, GuardSet DEF NoNewCaller, KeyOf, RunOf
    <2> QED
      BY <2>2, <2>3, <2>4, KeyFrame
  <1>3. ASSUME NEW c \in Clicks, ApplyHold(c) \/ AuditWrite(c) PROVE KeyInv'
    <2>1. NoNewCaller
      BY <1>3 DEF ApplyHold, AuditWrite, NoNewCaller, TypeInv, TypedProcesses
    <2>2. UNCHANGED <<guards, window>>
      BY <1>3 DEF ApplyHold, AuditWrite, shopifyVars
    <2> QED
      BY <2>1, <2>2, KeyFrame
  <1>4. ASSUME NEW c \in Clicks, ApplyGuard(c) PROVE KeyInv'
    <2>1. \A d \in Clicks : KeyOf(d)' = KeyOf(d)
      BY <1>4 DEF ApplyGuard, KeyOf, RunOf
    <2>2. \A d \in Clicks : pc'[d] = "calling" => d = c \/ pc[d] = "calling"
      BY <1>4 DEF ApplyGuard, TypeInv, TypedProcesses
    <2> QED
      BY <1>4, <2>1, <2>2, GuardSet DEF ApplyGuard
  <1>5. ASSUME NEW c \in Clicks, ShopifyCall(c) PROVE KeyInv'
    <2> DEFINE k == KeyOf(c)
    <2>1. pc[c] = "calling" /\ pc' = [pc EXCEPT ![c] = "called"]
          /\ window' = [window EXCEPT ![k] = @ \cup {c}] /\ guards' = guards
      BY <1>5 DEF ShopifyCall
    <2>2. k \in guards /\ k \in Keys /\ window[k] = {}
      BY <2>1 DEF KeyInv, TypeInv, TypedLogs
    <2>3. \A d \in Clicks : pc'[d] = "calling" =>
             pc[d] = "calling" /\ KeyOf(d)' = KeyOf(d) /\ KeyOf(d) # k
      <3>1. \A d \in Clicks : pc'[d] = "calling" => d # c /\ pc[d] = "calling"
        BY <2>1 DEF TypeInv, TypedProcesses
      <3>2. \A d \in Clicks : d # c => mem'[d] = mem[d]
        BY <1>5 DEF ShopifyCall, TypeInv, TypedProcesses
      <3> QED
        BY <2>1, <3>1, <3>2 DEF KeyInv, KeyOf, RunOf
    <2>4. window'[k] = {c} /\ \A j \in Keys : j # k => window'[j] = window[j]
      BY <2>1, <2>2 DEF TypeInv, TypedLogs
    <2> HIDE DEF k
    <2>5. OneCallPerKey'
      BY <2>4 DEF KeyInv, OneCallPerKey
    <2>6. \A d \in Clicks : pc'[d] = "calling" => KeyOf(d)' \in guards' /\ window'[KeyOf(d)'] = {}
      BY <2>1, <2>3, <2>4 DEF KeyInv, TypeInv, TypedLogs
    <2>7. \A d, e \in Clicks :
             pc'[d] = "calling" /\ pc'[e] = "calling" /\ KeyOf(d)' = KeyOf(e)' => d = e
      BY <2>3 DEF KeyInv
    <2> QED
      BY <2>5, <2>6, <2>7 DEF KeyInv
  <1>6. ASSUME NEW k \in Keys, ExpireGuard(k) PROVE KeyInv'
    <2>1. \A c \in Clicks : KeyOf(c)' = KeyOf(c)
      BY <1>6 DEF ExpireGuard, KeyOf, RunOf
    <2> QED
      BY <1>6, <2>1 DEF ExpireGuard, KeyInv, OneCallPerKey
  <1>7. CASE Next
    BY <1>2, <1>3, <1>4, <1>5, <1>6, <1>7, KeyOthers, KeyFrame DEF Next, ClickStep
  <1> QED
    BY <1>1, <1>7

(* No two Shopify calls are made under one life of a guard key, for any     *)
(* number of runs that share it, duplicate clicks, failures and crashes     *)
(* (adjust_inventory_level, transfer_inventory, check_and_set).             *)
THEOREM GuardsExclude == Spec => []OneCallPerKey
  <1>1. TypeInv /\ KeyInv => OneCallPerKey
    BY DEF KeyInv
  <1> QED
    BY <1>1, TypeInit, TypeStep, KeyInit, KeyStep, PTL DEF Spec
-----------------------------------------------------------------------------
(* Every copy of an approval is backed by a stored decision. *)

LEMMA DecisionInit == Init => DecisionInv
  BY RunOfType DEF Init, DecisionInv, ClicksDecide, HeadsBacked, CopiesBacked, RowsBacked, Backed, Accepted, Resumed, Blank

LEMMA BlankBacked == \A r : Backed(r, Blank.approval) /\ Backed(r, Initial.approval)
  BY DEF Backed, Blank, Initial

(* A task moves, no decision and no row is stored. *)
LEMMA DecisionFrame ==
    ASSUME TypeInv, DecisionInv, UNCHANGED <<verdict, decided, rows>>,
           NEW p \in Processes, NEW x, NEW y, Local(p, x, y),
           p \in Clicks /\ x \in Resumed => p \in decided,
           p \in Clicks /\ x \in Accepted => p \notin decided /\ verdict[p] # "none",
           x # "idle",
           x = "loaded" => y.approval = verdict[p],
           x # "loaded" => Backed(RunOf(p), y.approval),
           \A r \in Runs : Backed(r, head'[r].approval)
    PROVE  DecisionInv'
  <1>2. \A q \in Processes :
           /\ pc'[q] = IF q = p THEN x ELSE pc[q]
           /\ mem'[q] = IF q = p THEN y ELSE mem[q]
    BY DEF Local, TypeInv, TypedProcesses
  <1>3. \A q \in Processes : RunOf(q)' = RunOf(q)
    BY DEF RunOf
  <1>4. \A q \in Processes : pc'[q] # "loaded" => Backed(RunOf(q), mem'[q].approval)
    BY <1>2 DEF DecisionInv, CopiesBacked
  <1>5. \A c \in Clicks :
           /\ pc'[c] \in Accepted \cup {"idle"} => c \notin decided
           /\ pc'[c] \in Accepted \/ c \in decided => verdict[c] # "none"
           /\ pc'[c] \in Resumed => c \in decided
           /\ pc'[c] = "loaded" => mem'[c].approval = verdict[c]
    BY <1>2, RunOfType DEF DecisionInv, ClicksDecide
  <1>6. \A row \in rows' : Backed(row.run, row.approved)
    BY DEF DecisionInv, RowsBacked
  <1> QED
    <2>1. HeadsBacked'
      BY DEF HeadsBacked, Backed
    <2>2. CopiesBacked'
      BY <1>3, <1>4 DEF CopiesBacked, Backed
    <2>3. RowsBacked'
      BY <1>6 DEF RowsBacked, Backed
    <2>4. ClicksDecide'
      BY <1>5 DEF ClicksDecide, Accepted, Resumed
    <2> QED
      BY <2>1, <2>2, <2>3, <2>4 DEF DecisionInv

LEMMA DecisionCheckpoint ==
    ASSUME TypeInv, DecisionInv, UNCHANGED <<verdict, decided, rows>>,
           NEW p \in Processes, pc[p] \in Resumed, NEW v, Checkpoint(p, v),
           v.approval = mem[p].approval
    PROVE  DecisionInv'
  <1> DEFINE x == After(p, v)
             y == IF x = "running" THEN v ELSE Blank
  <1>1. x \in {"listing", "done", "closed", "running"}
    BY AfterPC
  <1>2. Local(p, x, y)
    BY DEF Checkpoint, Local
  <1>3. p \in Clicks => p \in decided
    BY DEF DecisionInv, ClicksDecide
  <1>4. Backed(RunOf(p), v.approval)
    BY DEF DecisionInv, ClicksDecide, CopiesBacked, Resumed
  <1>5. Backed(RunOf(p), y.approval)
    BY <1>4, BlankBacked
  <1>6. \A r \in Runs : head'[r] = IF r = RunOf(p) THEN v ELSE head[r]
    BY RunOfType DEF Checkpoint, TypeInv, TypedHeads
  <1>7. \A r \in Runs : Backed(r, head'[r].approval)
    BY <1>4, <1>6 DEF DecisionInv, HeadsBacked
  <1>8. x \notin Accepted \cup {"idle", "loaded"}
    BY <1>1 DEF Accepted
  <1> HIDE DEF x, y
  <1> QED
    BY <1>2, <1>3, <1>5, <1>7, <1>8, DecisionFrame

LEMMA DecisionStop ==
    ASSUME TypeInv, DecisionInv, UNCHANGED <<verdict, decided, rows, head>>,
           NEW p \in Processes, NEW x \in Stopped, Stop(p, x)
    PROVE  DecisionInv'
  <1>1. Local(p, x, Blank)
    BY DEF Stop, Local
  <1>2. x \notin Resumed \cup Accepted \cup {"idle", "loaded"}
    BY DEF Stopped, Resumed, Accepted
  <1>3. \A r \in Runs : Backed(r, head'[r].approval)
    BY DEF DecisionInv, HeadsBacked
  <1> QED
    BY <1>1, <1>2, <1>3, BlankBacked, DecisionFrame

LEMMA DecisionStarter ==
    ASSUME TypeInv, DecisionInv, NEW r \in Runs,
           StartWorkflow(r) \/ StarterStep(r) \/ ExpirePending(r)
    PROVE  DecisionInv'
  <1> USE RunOfType
  <1>1. UNCHANGED <<verdict, decided, rows>>
    BY DEF StartWorkflow, StarterStep, SaveWorkflowState, ExpirePending, operatorVars, logVars
  <1>2. CASE StartWorkflow(r)
    <2>1. Local(r, "running", Initial)
      BY <1>2 DEF StartWorkflow, Local
    <2>2. \A q \in Runs : Backed(q, head'[q].approval)
      BY <1>2, BlankBacked DEF StartWorkflow, DecisionInv, HeadsBacked, TypeInv, TypedHeads
    <2> QED
      BY <1>1, <2>1, <2>2, BlankBacked, DecisionFrame DEF Accepted
  <1>3. CASE SaveWorkflowState(r)
    <2>1. Local(r, "done", mem[r])
      BY <1>3 DEF SaveWorkflowState, Local, TypeInv, TypedProcesses
    <2>2. Backed(RunOf(r), mem[r].approval)
      BY <1>3 DEF SaveWorkflowState, DecisionInv, CopiesBacked
    <2>3. \A q \in Runs : Backed(q, head'[q].approval)
      BY <1>3 DEF SaveWorkflowState, DecisionInv, HeadsBacked
    <2> QED
      BY <1>1, <2>1, <2>2, <2>3, DecisionFrame DEF Accepted
  <1>4. CASE ExpirePending(r)
    BY <1>1, <1>4 DEF ExpirePending, DecisionInv, ClicksDecide, HeadsBacked, CopiesBacked,
                     RowsBacked, Backed, RunOf
  <1> QED
    BY <1>2, <1>3, <1>4 DEF StarterStep

LEMMA DecisionProposal ==
    ASSUME TypeInv, DecisionInv, NEW p \in Processes, ProposalStep(p)
    PROVE  DecisionInv'
  <1>1. UNCHANGED <<verdict, decided, rows>>
    BY DEF ProposalStep, Detect, Investigate, Propose, Interrupt, operatorVars, logVars
  <1>2. pc[p] \in {"running", "asked"}
    BY DEF ProposalStep, Detect, Investigate, Propose, Interrupt, At
  <1>3. mem[p] \in Values
    BY DEF TypeInv, TypedProcesses
  <1>4. CASE Propose(p)
    <2>1. PICK a \in Actions : mem' = [mem EXCEPT ![p].action = a]
      BY <1>4 DEF Propose
    <2>2. Local(p, "asked", [mem[p] EXCEPT !.action = a])
      BY <1>4, <2>1 DEF Propose, Local
    <2>3. [mem[p] EXCEPT !.action = a].approval = mem[p].approval
      BY <1>3 DEF Values
    <2>4. Backed(RunOf(p), mem[p].approval) /\ (p \in Clicks => p \in decided)
      BY <1>2 DEF DecisionInv, ClicksDecide, CopiesBacked, Resumed
    <2>5. \A q \in Runs : Backed(q, head'[q].approval)
      BY <1>4 DEF Propose, DecisionInv, HeadsBacked
    <2> QED
      BY <1>1, <2>2, <2>3, <2>4, <2>5, DecisionFrame DEF Accepted
  <1>5. CASE Detect(p) \/ Investigate(p) \/ Interrupt(p)
    <2>1. PICK n : Checkpoint(p, [mem[p] EXCEPT !.next = n])
      BY <1>5 DEF Detect, Investigate, Interrupt
    <2>2. [mem[p] EXCEPT !.next = n].approval = mem[p].approval
      BY <1>3 DEF Values
    <2> QED
      BY <1>1, <1>2, <2>1, <2>2, DecisionCheckpoint DEF Resumed
  <1> QED
    BY <1>4, <1>5 DEF ProposalStep
LEMMA DecisionSubmit ==
    ASSUME TypeInv, DecisionInv, NEW c \in Clicks, RestSubmit(c) \/ SlackAction(c)
    PROVE  DecisionInv'
  <1> USE RunOfType DEF DecisionInv
  <1>1. /\ pc[c] = "idle" /\ UNCHANGED <<head, mem, decided, rows>>
        /\ \/ pc' = [pc EXCEPT ![c] = "checked"] /\ Choose(c)
           \/ pc' = [pc EXCEPT ![c] = "done"] /\ UNCHANGED verdict
    BY DEF RestSubmit, SlackAction, logVars
  <1>2. c \notin decided
    BY <1>1 DEF ClicksDecide
  <1>3. \A d \in Clicks : d # c => pc'[d] = pc[d] /\ verdict'[d] = verdict[d]
    BY <1>1 DEF Choose, TypeInv, TypedProcesses, TypedLogs
  <1>4. /\ (pc'[c] = "checked" /\ verdict'[c] # "none") \/ pc'[c] = "done"
        /\ pc'[c] # "loaded" /\ pc[c] # "loaded"
    BY <1>1 DEF Choose, TypeInv, TypedProcesses, TypedLogs
  <1>5. \A d \in decided : verdict'[d] = verdict[d]
    BY <1>2, <1>3 DEF TypeInv, TypedLogs
  <1>6. ClicksDecide'
    BY <1>1, <1>2, <1>3, <1>4 DEF ClicksDecide, Accepted, Resumed
  <1>7. HeadsBacked'
    BY <1>1, <1>5 DEF HeadsBacked, Backed
  <1>8. CopiesBacked'
    <2>1. \A p \in Processes : pc'[p] # "loaded" => pc[p] # "loaded"
      BY <1>1, <1>4 DEF TypeInv, TypedProcesses
    <2> QED
      BY <1>1, <1>5, <2>1 DEF CopiesBacked, Backed, RunOf
  <1>9. RowsBacked'
    BY <1>1, <1>5 DEF RowsBacked, Backed
  <1> QED
    BY <1>6, <1>7, <1>8, <1>9

LEMMA DecisionStored ==
    ASSUME TypeInv, DecisionInv, NEW c \in Clicks, StoreDecision(c)
    PROVE  DecisionInv'
  <1> USE RunOfType DEF DecisionInv
  <1>1. /\ pc[c] = "loaded" /\ decided' = decided \cup {c} /\ UNCHANGED <<verdict, rows>>
        /\ head' = [head EXCEPT ![OnRun[c]] = mem[c]]
        /\ Local(c, "stored", Blank)
    BY DEF StoreDecision, Stop, Local, logVars
  <1>2. verdict[c] # "none" /\ mem[c].approval = verdict[c]
    BY <1>1 DEF ClicksDecide, Accepted
  <1>3. \A q \in Processes :
           /\ pc'[q] = IF q = c THEN "stored" ELSE pc[q]
           /\ mem'[q] = IF q = c THEN Blank ELSE mem[q]
    BY <1>1 DEF Local, TypeInv, TypedProcesses
  <1>4. ClicksDecide'
    BY <1>1, <1>2, <1>3 DEF ClicksDecide, Accepted, Resumed
  <1>5. HeadsBacked'
    <2>1. \A r \in Runs : r # OnRun[c] => head'[r] = head[r]
      BY <1>1 DEF TypeInv, TypedHeads
    <2>2. head'[OnRun[c]].approval = verdict'[c] /\ c \in decided'
      BY <1>1, <1>2 DEF TypeInv, TypedHeads
    <2> QED
      BY <1>1, <2>1, <2>2 DEF HeadsBacked, Backed
  <1>6. CopiesBacked'
    <2>1. Blank.approval = "none"
      BY DEF Blank
    <2> QED
      BY <1>1, <1>3, <2>1 DEF CopiesBacked, Backed, RunOf
  <1>7. RowsBacked'
    BY <1>1 DEF RowsBacked, Backed
  <1> QED
    BY <1>4, <1>5, <1>6, <1>7

LEMMA DecisionLoad ==
    ASSUME TypeInv, DecisionInv, NEW c \in Clicks, LoadState(c) \/ Resume(c)
    PROVE  DecisionInv'
  <1> USE RunOfType
  <1>1. UNCHANGED <<verdict, decided, rows, head>>
    BY DEF LoadState, Resume, operatorVars, logVars
  <1>2. \A r \in Runs : Backed(r, head'[r].approval)
    BY <1>1 DEF DecisionInv, HeadsBacked
  <1>3. CASE Stop(c, "failed") \/ Stop(c, "done")
    BY <1>1, <1>3, DecisionStop DEF Stopped
  <1>4. CASE LoadState(c) /\ Local(c, "loaded", WithDecision(head[OnRun[c]], c))
    <2>1. WithDecision(head[OnRun[c]], c).approval = verdict[c]
      BY DEF WithDecision, TypeInv, TypedHeads, Values
    <2>2. c \notin decided /\ verdict[c] # "none"
      BY <1>4 DEF LoadState, DecisionInv, ClicksDecide, Accepted
    <2> QED
      BY <1>1, <1>2, <1>4, <2>1, <2>2, DecisionFrame DEF Resumed
  <1>5. CASE Resume(c) /\ Local(c, "running", head[OnRun[c]])
    <2>1. c \in decided
      BY <1>5 DEF Resume, DecisionInv, ClicksDecide, Resumed
    <2> QED
      BY <1>1, <1>2, <1>5, <2>1, DecisionFrame DEF Accepted
  <1> QED
    BY <1>3, <1>4, <1>5 DEF LoadState, Resume, Local

LEMMA DecisionApply ==
    ASSUME TypeInv, DecisionInv, NEW c \in Clicks,
           \/ ApplyNotApproved(c) \/ ApplyShadowed(c) \/ ApplyHold(c)
           \/ ApplyDeduped(c) \/ ApplyGuard(c) \/ ApplyGuardFails(c)
           \/ ShopifyCall(c) \/ ApplyReturn(c)
    PROVE  DecisionInv'
  <1> USE RunOfType
  <1>1. UNCHANGED <<verdict, decided, rows>>
    BY DEF ApplyNotApproved, ApplyShadowed, ApplyHold, ApplyDeduped, ApplyGuard,
           ApplyGuardFails, ShopifyCall, ApplyReturn, operatorVars, logVars
  <1>2. pc[c] \in {"running", "calling", "called"}
    BY DEF ApplyNotApproved, ApplyShadowed, ApplyHold, ApplyDeduped, ApplyGuard,
           ApplyGuardFails, ShopifyCall, ApplyReturn, Live, At
  <1>3. mem[c] \in Values
    BY DEF TypeInv, TypedProcesses
  <1>4. CASE \/ ApplyNotApproved(c) \/ ApplyShadowed(c) \/ ApplyDeduped(c)
             \/ ApplyGuardFails(c) \/ ApplyReturn(c)
    <2>1. PICK v : Checkpoint(c, v) /\ v.approval = mem[c].approval
      <3>1. \A b, e :
               /\ [mem[c] EXCEPT !.next = "verify"].approval = mem[c].approval
               /\ [mem[c] EXCEPT !.next = "verify", !.applied = b].approval
                    = mem[c].approval
               /\ [mem[c] EXCEPT !.next = "verify", !.applied = b, !.error = e].approval
                    = mem[c].approval
        BY <1>3 DEF Values
      <3>2. CASE ApplyNotApproved(c)
        BY <3>1, <3>2 DEF ApplyNotApproved
      <3>3. ASSUME NEW b \in BOOLEAN, NEW e \in BOOLEAN,
                   Checkpoint(c, [mem[c] EXCEPT !.next = "verify", !.applied = b, !.error = e])
            PROVE  \E v : Checkpoint(c, v) /\ v.approval = mem[c].approval
        <4> DEFINE v == [mem[c] EXCEPT !.next = "verify", !.applied = b, !.error = e]
        <4>1. Checkpoint(c, v) /\ v.approval = mem[c].approval
          BY <3>1, <3>3
        <4> HIDE DEF v
        <4> QED
          BY <4>1
      <3>4. CASE ApplyShadowed(c) \/ ApplyDeduped(c) \/ ApplyGuardFails(c)
        BY <3>3, <3>4 DEF ApplyShadowed, ApplyDeduped, ApplyGuardFails
      <3>5. CASE ApplyReturn(c)
        BY <3>1, <3>5 DEF ApplyReturn
      <3> QED
        BY <1>4, <3>2, <3>4, <3>5
    <2> QED
      BY <1>1, <1>2, <2>1, DecisionCheckpoint DEF Resumed
  <1>5. CASE ApplyHold(c) \/ ShopifyCall(c) \/ ApplyGuard(c)
    <2>1. PICK x, y : x \in {"calling", "called"} /\ Local(c, x, y)
                      /\ y.approval = mem[c].approval
      <3>1. CASE ApplyHold(c) \/ ShopifyCall(c)
        <4>1. PICK b, e : mem' = [mem EXCEPT ![c].applied = b, ![c].error = e]
          BY <3>1 DEF ApplyHold, ShopifyCall
        <4>2. Local(c, "called", [mem[c] EXCEPT !.applied = b, !.error = e])
          BY <3>1, <4>1 DEF ApplyHold, ShopifyCall, Local, TypeInv, TypedProcesses
        <4>3. [mem[c] EXCEPT !.applied = b, !.error = e].approval = mem[c].approval
          BY <1>3 DEF Values
        <4> QED
          BY <4>2, <4>3
      <3>2. CASE ApplyGuard(c)
        <4>1. Local(c, "calling", mem[c])
          BY <3>2 DEF ApplyGuard, Local, TypeInv, TypedProcesses
        <4> QED
          BY <4>1
      <3> QED
        BY <1>5, <3>1, <3>2
    <2>2. \A r \in Runs : Backed(r, head'[r].approval)
      BY <1>5 DEF ApplyHold, ShopifyCall, ApplyGuard, DecisionInv, HeadsBacked
    <2>3. c \in decided /\ Backed(RunOf(c), mem[c].approval)
      BY <1>2 DEF DecisionInv, ClicksDecide, CopiesBacked, Resumed
    <2> QED
      BY <1>1, <2>1, <2>2, <2>3, DecisionFrame DEF Accepted
  <1> QED
    BY <1>4, <1>5
LEMMA DecisionClose ==
    ASSUME TypeInv, DecisionInv, NEW c \in Clicks,
           Verify(c) \/ NotifyFind(c) \/ NotifyAppend(c) \/ AuditCleanup(c)
    PROVE  DecisionInv'
  <1> USE RunOfType
  <1>1. UNCHANGED <<verdict, decided, rows>>
    BY DEF Verify, NotifyFind, NotifyAppend, AuditCleanup, operatorVars, logVars
  <1>2. pc[c] \in Resumed
    BY DEF Verify, NotifyFind, NotifyAppend, AuditCleanup, At, Resumed
  <1>3. mem[c] \in Values
    BY DEF TypeInv, TypedProcesses
  <1>4. CASE Verify(c)
    <2>1. PICK n, t, e : Checkpoint(c, [mem[c] EXCEPT !.next = n, !.retries = t, !.error = e])
      BY <1>4 DEF Verify
    <2>2. [mem[c] EXCEPT !.next = n, !.retries = t, !.error = e].approval = mem[c].approval
      BY <1>3 DEF Values
    <2> QED
      BY <1>1, <1>2, <2>1, <2>2, DecisionCheckpoint
  <1>5. CASE \E n : Checkpoint(c, [mem[c] EXCEPT !.next = n])
    <2>1. PICK n : Checkpoint(c, [mem[c] EXCEPT !.next = n])
      BY <1>5
    <2>2. [mem[c] EXCEPT !.next = n].approval = mem[c].approval
      BY <1>3 DEF Values
    <2> QED
      BY <1>1, <1>2, <2>1, <2>2, DecisionCheckpoint
  <1>6. CASE pc' = [pc EXCEPT ![c] = "appending"] /\ UNCHANGED <<head, mem>>
    <2>1. Local(c, "appending", mem[c])
      BY <1>6 DEF Local, TypeInv, TypedProcesses
    <2>2. \A r \in Runs : Backed(r, head'[r].approval)
      BY <1>6 DEF DecisionInv, HeadsBacked
    <2>3. c \in decided /\ Backed(RunOf(c), mem[c].approval)
      BY <1>2 DEF DecisionInv, ClicksDecide, CopiesBacked, Resumed
    <2> QED
      BY <1>1, <2>1, <2>2, <2>3, DecisionFrame DEF Accepted
  <1> QED
    BY <1>4, <1>5, <1>6 DEF NotifyFind, NotifyAppend, AuditCleanup

LEMMA DecisionAudit ==
    ASSUME TypeInv, DecisionInv, NEW c \in Clicks, AuditWrite(c)
    PROVE  DecisionInv'
  <1> USE RunOfType
  <1>1. /\ UNCHANGED <<verdict, decided, head, mem>>
        /\ pc[c] = "running" /\ pc' = [pc EXCEPT ![c] = "cleanup"]
        /\ rows' \subseteq rows \cup {AuditRow(c)}
    BY DEF AuditWrite, At, operatorVars
  <1>2. c \in decided /\ Backed(OnRun[c], mem[c].approval)
    BY <1>1 DEF DecisionInv, ClicksDecide, CopiesBacked, Resumed
  <1>3. \A q \in Processes : pc'[q] = IF q = c THEN "cleanup" ELSE pc[q]
    BY <1>1 DEF TypeInv, TypedProcesses
  <1>4. ClicksDecide'
    BY <1>1, <1>2, <1>3 DEF DecisionInv, ClicksDecide, Accepted, Resumed
  <1>5. HeadsBacked'
    BY <1>1 DEF DecisionInv, HeadsBacked, Backed
  <1>6. CopiesBacked'
    BY <1>1, <1>3 DEF DecisionInv, CopiesBacked, Backed, RunOf
  <1>7. AuditRow(c).run = OnRun[c] /\ AuditRow(c).approved = mem[c].approval
    BY DEF AuditRow
  <1>8. RowsBacked'
    <2>1. \A row \in rows' : Backed(row.run, row.approved)
      BY <1>1, <1>2, <1>7 DEF DecisionInv, RowsBacked
    <2> QED
      BY <1>1, <2>1 DEF RowsBacked, Backed
  <1> QED
    BY <1>4, <1>5, <1>6, <1>8 DEF DecisionInv

LEMMA DecisionTime ==
    ASSUME TypeInv, DecisionInv,
           \/ \E k \in Keys : ExpireGuard(k)
           \/ \E p \in Processes : TaskFails(p)
           \/ Restart
    PROVE  DecisionInv'
  <1>1. ASSUME NEW k \in Keys, ExpireGuard(k) PROVE DecisionInv'
    BY <1>1 DEF ExpireGuard, operatorVars, logVars, DecisionInv, ClicksDecide, HeadsBacked,
                CopiesBacked, RowsBacked, Backed, RunOf
  <1>2. ASSUME NEW p \in Processes, TaskFails(p) PROVE DecisionInv'
    BY <1>2, DecisionStop DEF TaskFails, operatorVars, logVars, Stopped
  <1>3. CASE Restart
    <2>1. /\ UNCHANGED <<verdict, decided, rows>>
          /\ \A p \in Processes : mem'[p] = Blank /\ pc'[p] \in {pc[p], "dead"} \ Underway
      BY <1>3 DEF Restart, operatorVars, logVars, Underway, Stopped, PCs
    <2>2. ClicksDecide'
      BY <2>1, RunOfType DEF DecisionInv, ClicksDecide, Accepted, Resumed, Underway, Stopped, PCs
    <2>3. HeadsBacked'
      <3>1. \A r \in Runs : head'[r] = head[r] \/ head'[r] = Blank
        BY <1>3 DEF Restart, AfterRestart
      <3>2. \A r \in Runs : Backed(r, head'[r].approval)
        BY <3>1, BlankBacked DEF DecisionInv, HeadsBacked
      <3> QED
        BY <2>1, <3>2 DEF HeadsBacked, Backed
    <2>4. CopiesBacked'
      BY <2>1 DEF CopiesBacked, Backed, Blank
    <2>5. RowsBacked'
      BY <2>1 DEF DecisionInv, RowsBacked, Backed
    <2> QED
      BY <2>2, <2>3, <2>4, <2>5 DEF DecisionInv
  <1> QED
    BY <1>1, <1>2, <1>3

LEMMA DecisionStep == TypeInv /\ DecisionInv /\ [Next]_vars => DecisionInv'
  <1> SUFFICES ASSUME TypeInv, DecisionInv, [Next]_vars PROVE DecisionInv'
    OBVIOUS
  <1>1. CASE UNCHANGED vars
    BY <1>1 DEF vars, operatorVars, logVars, DecisionInv, ClicksDecide, HeadsBacked,
                CopiesBacked, RowsBacked, Backed, RunOf
  <1>2. CASE Next
    BY <1>2, DecisionStarter, DecisionProposal, DecisionSubmit, DecisionStored, DecisionLoad,
       DecisionApply, DecisionClose, DecisionAudit, DecisionTime
    DEF Next, ClickStep
  <1> QED
    BY <1>1, <1>2

(* An audit row never quotes a decision nobody stored for its run, however  *)
(* clicks overwrite each other's checkpoints and whatever fails             *)
(* (resume_workflow, write_audit_record).                                   *)
THEOREM AuditQuotes == Spec => []RowsQuoteOperators
  <1>1. DecisionInv => RowsQuoteOperators
    BY DEF DecisionInv, RowsBacked, Backed, RowsQuoteOperators
  <1> QED
    BY <1>1, TypeInit, TypeStep, DecisionInit, DecisionStep, PTL DEF Spec
-----------------------------------------------------------------------------
(* A decision buys at most one write and one row. *)

LEMMA SpendInit == Init => SpendInv
  BY RunOfType DEF Init, SpendInv

(* A click moves on without writing, and not back to where it could write   *)
(* or audit again.                                                          *)
LEMMA SpendFrame ==
    ASSUME TypeInv, SpendInv, UNCHANGED <<writers, rows>>,
           NEW p \in Processes, NEW x, NEW y, Local(p, x, y),
           p \in Clicks => \/ Fresh(p)
                          \/ /\ x \notin Accepted \cup {"idle", "stored", "asked", "calling"}
                             /\ x = "running" => y.next \notin Unspent,
           p \in Clicks /\ x \notin Stopped \cup {"cleanup"}
               => pc[p] \notin Stopped \cup {"cleanup"},
           x = "calling" => y.approval = "approved"
    PROVE  SpendInv'
  <1>1. \A q \in Processes :
           /\ pc'[q] = IF q = p THEN x ELSE pc[q]
           /\ mem'[q] = IF q = p THEN y ELSE mem[q]
    BY DEF Local, TypeInv, TypedProcesses
  <1>2. \A c \in Clicks : Fresh(c)' => Fresh(c)
    BY <1>1, RunOfType DEF Fresh
  <1>3. \A c \in Clicks : pc'[c] \notin Stopped \cup {"cleanup"} =>
           pc[c] \notin Stopped \cup {"cleanup"}
    BY <1>1, RunOfType
  <1>4. \A c \in Clicks : pc'[c] = "calling" => mem'[c].approval = "approved"
    BY <1>1, RunOfType DEF SpendInv
  <1> QED
    BY <1>2, <1>3, <1>4 DEF SpendInv

LEMMA SpendStop ==
    ASSUME TypeInv, SpendInv, UNCHANGED <<writers, rows>>,
           NEW p \in Processes, NEW x \in Stopped, Stop(p, x)
    PROVE  SpendInv'
  <1>1. Local(p, x, Blank)
    BY DEF Stop, Local
  <1>2. x \notin Accepted \cup {"idle", "stored", "asked", "calling", "running"}
    BY DEF Stopped, Accepted
  <1> QED
    BY <1>1, <1>2, SpendFrame

(* Storing a checkpoint lets a click go on only behind apply_mutation, or   *)
(* when it had not passed it yet.                                           *)
LEMMA SpendCheckpoint ==
    ASSUME TypeInv, SpendInv, UNCHANGED <<writers, rows>>,
           NEW p \in Processes, NEW v, Checkpoint(p, v),
           p \in Clicks => Fresh(p) \/ v.next \notin Unspent \ {"apply_mutation"},
           pc[p] \in Resumed,
           pc[p] = "cleanup" => v.next = "end"
    PROVE  SpendInv'
  <1> DEFINE x == After(p, v)
             y == IF x = "running" THEN v ELSE Blank
  <1>1. Local(p, x, y)
    BY DEF Checkpoint, Local
  <1>2. x \in {"listing", "done", "closed", "running"}
        /\ (x = "running" => v.next \notin {"apply_mutation", "end"})
    BY DEF After
  <1>3. x = "listing" => p \notin Clicks
    BY RunOfType DEF After
  <1>4. p \in Clicks => \/ Fresh(p)
                       \/ /\ x \notin Accepted \cup {"idle", "stored", "asked", "calling"}
                          /\ x = "running" => y.next \notin Unspent
    BY <1>2 DEF Accepted
  <1>5. p \in Clicks /\ x \notin Stopped \cup {"cleanup"}
           => pc[p] \notin Stopped \cup {"cleanup"}
    BY <1>2, <1>3 DEF Stopped, Resumed
  <1>6. x # "calling"
    BY <1>2
  <1> HIDE DEF x, y
  <1> QED
    BY <1>1, <1>4, <1>5, <1>6, SpendFrame
LEMMA SpendStarter ==
    ASSUME TypeInv, SpendInv, NEW r \in Runs,
           StartWorkflow(r) \/ StarterStep(r) \/ ExpirePending(r)
    PROVE  SpendInv'
  <1> USE RunOfType
  <1>1. UNCHANGED <<writers, rows>>
    BY DEF StartWorkflow, StarterStep, SaveWorkflowState, ExpirePending, shopifyVars, logVars
  <1>2. CASE StartWorkflow(r) \/ SaveWorkflowState(r)
    <2>1. PICK x, y : x \in {"running", "done"} /\ Local(r, x, y)
      BY <1>2 DEF StartWorkflow, SaveWorkflowState, Local, TypeInv, TypedProcesses
    <2> QED
      BY <1>1, <2>1, SpendFrame
  <1>3. CASE ExpirePending(r)
    BY <1>1, <1>3 DEF ExpirePending, SpendInv, Fresh
  <1> QED
    BY <1>2, <1>3 DEF StarterStep

LEMMA SpendProposal ==
    ASSUME TypeInv, SpendInv, NEW p \in Processes, ProposalStep(p)
    PROVE  SpendInv'
  <1>1. UNCHANGED <<writers, rows>>
    BY DEF ProposalStep, Detect, Investigate, Propose, Interrupt, shopifyVars, logVars
  <1>2. pc[p] \in {"running", "asked"} /\ Fresh(p)
    BY DEF ProposalStep, Detect, Investigate, Propose, Interrupt, At, Fresh, Unspent
  <1>3. CASE Propose(p)
    <2>1. PICK y : Local(p, "asked", y)
      BY <1>3 DEF Propose, Local
    <2> QED
      BY <1>1, <1>2, <2>1, SpendFrame DEF Stopped
  <1>4. CASE Detect(p) \/ Investigate(p) \/ Interrupt(p)
    <2>1. PICK v : Checkpoint(p, v)
      BY <1>4 DEF Detect, Investigate, Interrupt
    <2> QED
      BY <1>1, <1>2, <2>1, SpendCheckpoint DEF Resumed
  <1> QED
    BY <1>3, <1>4 DEF ProposalStep

LEMMA SpendDecision ==
    ASSUME TypeInv, SpendInv, NEW c \in Clicks,
           \/ RestSubmit(c) \/ SlackAction(c)
           \/ LoadState(c) \/ StoreDecision(c) \/ Resume(c)
    PROVE  SpendInv'
  <1> USE RunOfType
  <1>1. UNCHANGED <<writers, rows>>
    BY DEF RestSubmit, SlackAction, LoadState, StoreDecision, Resume, shopifyVars, logVars
  <1>2. Fresh(c) /\ pc[c] \notin Stopped \cup {"cleanup"}
    BY DEF RestSubmit, SlackAction, LoadState, StoreDecision, Resume, Fresh, Accepted, Stopped
  <1>3. PICK x, y : Local(c, x, y) /\ x # "calling"
    <2>1. CASE RestSubmit(c) \/ SlackAction(c)
      BY <2>1 DEF RestSubmit, SlackAction, Local, TypeInv, TypedProcesses
    <2>2. CASE LoadState(c) \/ StoreDecision(c) \/ Resume(c)
      BY <2>2 DEF LoadState, StoreDecision, Resume, Stop, Local
    <2> QED
      BY <2>1, <2>2
  <1> QED
    BY <1>1, <1>2, <1>3, SpendFrame

LEMMA SpendApply ==
    ASSUME TypeInv, SpendInv, NEW c \in Clicks,
           \/ ApplyNotApproved(c) \/ ApplyShadowed(c) \/ ApplyDeduped(c)
           \/ ApplyGuard(c) \/ ApplyGuardFails(c) \/ ApplyReturn(c)
    PROVE  SpendInv'
  <1>1. UNCHANGED <<writers, rows>>
    BY DEF ApplyNotApproved, ApplyShadowed, ApplyDeduped, ApplyGuard, ApplyGuardFails,
           ApplyReturn, shopifyVars, logVars
  <1>2. c \in Processes /\ mem[c] \in Values
    BY RunOfType DEF TypeInv, TypedProcesses
  <1>3. CASE ApplyGuard(c)
    <2>1. Local(c, "calling", mem[c])
      BY <1>2, <1>3 DEF ApplyGuard, Local, TypeInv, TypedProcesses
    <2>2. Fresh(c) /\ mem[c].approval = "approved" /\ pc[c] = "running"
      BY <1>3 DEF ApplyGuard, Live, At, Fresh, Unspent
    <2> QED
      BY <1>1, <1>2, <2>1, <2>2, SpendFrame DEF Stopped
  <1>4. CASE \/ ApplyNotApproved(c) \/ ApplyShadowed(c) \/ ApplyDeduped(c)
             \/ ApplyGuardFails(c) \/ ApplyReturn(c)
    <2>1. PICK v : Checkpoint(c, v) /\ v.next = "verify"
      <3>1. ASSUME NEW b \in BOOLEAN, NEW e \in BOOLEAN, NEW v,
                   \/ v = [mem[c] EXCEPT !.next = "verify"]
                   \/ v = [mem[c] EXCEPT !.next = "verify", !.applied = b]
                   \/ v = [mem[c] EXCEPT !.next = "verify", !.applied = b, !.error = e]
            PROVE  v.next = "verify"
        BY <1>2, <3>1 DEF Values
      <3> QED
        BY <1>4, <3>1 DEF ApplyNotApproved, ApplyShadowed, ApplyDeduped, ApplyGuardFails,
                          ApplyReturn
    <2>2. pc[c] \in Resumed \ {"cleanup"}
      BY <1>4 DEF ApplyNotApproved, ApplyShadowed, ApplyDeduped, ApplyGuardFails, ApplyReturn,
                  Live, At, Resumed
    <2> QED
      BY <1>1, <1>2, <2>1, <2>2, SpendCheckpoint DEF Unspent
  <1> QED
    BY <1>3, <1>4

LEMMA SpendWrite ==
    ASSUME TypeInv, SpendInv, NEW c \in Clicks, ApplyHold(c) \/ ShopifyCall(c)
    PROVE  SpendInv'
  <1>1. /\ UNCHANGED rows /\ writers' \subseteq writers \cup {c}
        /\ pc[c] \in {"running", "calling"} /\ pc' = [pc EXCEPT ![c] = "called"]
    BY DEF ApplyHold, ShopifyCall, Live, At, logVars
  <1>2. \A d \in Clicks : d # c => mem'[d] = mem[d] /\ pc'[d] = pc[d]
    BY <1>1, RunOfType DEF ApplyHold, ShopifyCall, TypeInv, TypedProcesses
  <1>3. pc'[c] = "called"
    BY <1>1, RunOfType DEF TypeInv, TypedProcesses
  <1>4. \A d \in Clicks : Fresh(d)' => Fresh(d) /\ d # c
    BY <1>2, <1>3 DEF Fresh, Accepted
  <1>5. \A d \in Clicks : pc'[d] \notin Stopped \cup {"cleanup"} =>
           pc[d] \notin Stopped \cup {"cleanup"}
    BY <1>1, <1>2 DEF Stopped
  <1> QED
    BY <1>1, <1>2, <1>3, <1>4, <1>5 DEF SpendInv

LEMMA SpendClose ==
    ASSUME TypeInv, SpendInv, NEW c \in Clicks,
           Verify(c) \/ NotifyFind(c) \/ NotifyAppend(c) \/ AuditCleanup(c)
    PROVE  SpendInv'
  <1>1. UNCHANGED <<writers, rows>>
    BY DEF Verify, NotifyFind, NotifyAppend, AuditCleanup, shopifyVars, logVars
  <1>2. c \in Processes /\ mem[c] \in Values
    BY RunOfType DEF TypeInv, TypedProcesses
  <1>3. CASE Verify(c)
    <2>0. PICK passed \in BOOLEAN :
             LET tried == IF passed THEN mem[c].retries ELSE mem[c].retries + 1 IN
             Checkpoint(c, [mem[c] EXCEPT !.next = RouteAfterVerify(passed, tried),
                                          !.retries = tried,
                                          !.error = ErrorAfter(passed, @)])
      BY <1>3 DEF Verify
    <2> DEFINE t == IF passed THEN mem[c].retries ELSE mem[c].retries + 1
               n == RouteAfterVerify(passed, t)
               e == ErrorAfter(passed, mem[c].error)
    <2>1. /\ n \in {"notify", "apply_mutation"}
          /\ Checkpoint(c, [mem[c] EXCEPT !.next = n, !.retries = t, !.error = e])
      BY <2>0 DEF RouteAfterVerify
    <2> HIDE DEF t, n, e
    <2>2. [mem[c] EXCEPT !.next = n, !.retries = t, !.error = e].next = n
      BY <1>2 DEF Values
    <2>3. pc[c] = "running"
      BY <1>3 DEF Verify, At
    <2> QED
      BY <1>1, <1>2, <2>1, <2>2, <2>3, SpendCheckpoint DEF Unspent, Resumed
  <1>4. ASSUME NEW n \in {"audit", "end"}, Checkpoint(c, [mem[c] EXCEPT !.next = n]),
               pc[c] \in Resumed, pc[c] = "cleanup" => n = "end"
        PROVE  SpendInv'
    <2>1. [mem[c] EXCEPT !.next = n].next = n
      BY <1>2 DEF Values
    <2> QED
      BY <1>1, <1>2, <1>4, <2>1, SpendCheckpoint DEF Unspent
  <1>5. CASE NotifyFind(c) /\ pc' = [pc EXCEPT ![c] = "appending"] /\ UNCHANGED mem
    <2>1. Local(c, "appending", mem[c]) /\ pc[c] = "running"
      BY <1>2, <1>5 DEF NotifyFind, At, Local, TypeInv, TypedProcesses
    <2> QED
      BY <1>1, <1>2, <2>1, SpendFrame DEF Accepted, Stopped
  <1> QED
    BY <1>3, <1>4, <1>5 DEF NotifyFind, NotifyAppend, AuditCleanup, At, Resumed

LEMMA SpendAudit ==
    ASSUME TypeInv, SpendInv, NEW c \in Clicks, AuditWrite(c)
    PROVE  SpendInv'
  <1>1. /\ UNCHANGED <<mem, writers>> /\ pc' = [pc EXCEPT ![c] = "cleanup"]
        /\ rows' \subseteq rows \cup {AuditRow(c)} /\ AuditRow(c).by = c
        /\ pc[c] = "running"
    BY DEF AuditWrite, AuditRow, At, shopifyVars
  <1>2. \A d \in Clicks : pc'[d] = IF d = c THEN "cleanup" ELSE pc[d]
    BY <1>1, RunOfType DEF TypeInv, TypedProcesses
  <1>3. \A d \in Clicks : Fresh(d)' => Fresh(d)
    BY <1>1, <1>2 DEF Fresh, Accepted
  <1>4. \A d \in Clicks : pc'[d] \notin Stopped \cup {"cleanup"} => \A row \in rows' : row.by # d
    BY <1>1, <1>2 DEF SpendInv
  <1> QED
    BY <1>1, <1>2, <1>3, <1>4 DEF SpendInv

LEMMA SpendTime ==
    ASSUME TypeInv, SpendInv,
           \/ \E k \in Keys : ExpireGuard(k)
           \/ \E p \in Processes : TaskFails(p)
           \/ Restart
    PROVE  SpendInv'
  <1>1. ASSUME NEW k \in Keys, ExpireGuard(k) PROVE SpendInv'
    BY <1>1 DEF ExpireGuard, logVars, SpendInv, Fresh
  <1>2. ASSUME NEW p \in Processes, TaskFails(p) PROVE SpendInv'
    BY <1>2, SpendStop DEF TaskFails, shopifyVars, logVars, Stopped
  <1>3. CASE Restart
    <2>1. /\ UNCHANGED <<writers, rows>>
          /\ \A p \in Processes : (pc'[p] = pc[p] /\ pc[p] \notin Underway) \/ pc'[p] = "dead"
      BY <1>3 DEF Restart, shopifyVars, logVars
    <2>2. \A c \in Clicks : Fresh(c)' => Fresh(c)
      BY <2>1, RunOfType DEF Fresh, Accepted, Underway, Stopped, PCs
    <2>3. \A c \in Clicks : pc'[c] \notin Stopped \cup {"cleanup"} =>
             pc[c] \notin Stopped \cup {"cleanup"} /\ pc'[c] # "calling"
      BY <2>1, RunOfType DEF Underway, Stopped, PCs
    <2> QED
      BY <2>1, <2>2, <2>3 DEF SpendInv, Stopped
  <1> QED
    BY <1>1, <1>2, <1>3

LEMMA SpendStep == TypeInv /\ SpendInv /\ [Next]_vars => SpendInv'
  <1> SUFFICES ASSUME TypeInv, SpendInv, [Next]_vars PROVE SpendInv'
    OBVIOUS
  <1>1. CASE UNCHANGED vars
    BY <1>1 DEF vars, shopifyVars, logVars, SpendInv, Fresh
  <1>2. CASE Next
    BY <1>2, SpendStarter, SpendProposal, SpendDecision, SpendApply, SpendWrite, SpendClose,
       SpendAudit, SpendTime
    DEF Next, ClickStep
  <1> QED
    BY <1>1, <1>2
-----------------------------------------------------------------------------
(* The workflow implements the approval gate: every step is a decision, a   *)
(* write, a row, or invisible.                                              *)

Ledger == [c \in Clicks |-> IF c \in decided THEN verdict[c] ELSE "none"]
Audited == {row.by : row \in rows}

Invisible == UNCHANGED <<verdict, decided, writers, rows>>

GateStep == [Gate!GateNext]_(Gate!gateVars)

(* The steps that neither decide nor write nor record. *)
Unrecorded ==
    \/ UNCHANGED vars
    \/ \E r \in Runs : StartWorkflow(r) \/ StarterStep(r) \/ ExpirePending(r)
    \/ \E p \in Processes : ProposalStep(p)
    \/ \E c \in Clicks :
          \/ LoadState(c) \/ Resume(c)
          \/ ApplyNotApproved(c) \/ ApplyShadowed(c) \/ ApplyDeduped(c)
          \/ ApplyGuard(c) \/ ApplyGuardFails(c) \/ ApplyReturn(c)
          \/ Verify(c) \/ NotifyFind(c) \/ NotifyAppend(c) \/ AuditCleanup(c)
    \/ \E k \in Keys : ExpireGuard(k)
    \/ \E p \in Processes : TaskFails(p)
    \/ Restart

LEMMA UnrecordedIsInvisible == Unrecorded => Invisible
  BY DEF Unrecorded, Invisible, vars, StartWorkflow, StarterStep, SaveWorkflowState,
         ExpirePending, ProposalStep, Detect, Investigate, Propose, Interrupt, LoadState,
         Resume, ApplyNotApproved, ApplyShadowed, ApplyDeduped, ApplyGuard, ApplyGuardFails,
         ApplyReturn, Verify, NotifyFind, NotifyAppend, AuditCleanup, ExpireGuard,
         TaskFails, Restart, operatorVars, shopifyVars, logVars

LEMMA NextIsRecorded ==
    ASSUME [Next]_vars
    PROVE  \/ Unrecorded
           \/ \E c \in Clicks : \/ RestSubmit(c) \/ SlackAction(c) \/ StoreDecision(c)
                               \/ ApplyHold(c) \/ ShopifyCall(c) \/ AuditWrite(c)
  BY DEF Next, ClickStep, Unrecorded

LEMMA InvisibleSteps == Unrecorded => GateStep
  <1> SUFFICES ASSUME Unrecorded PROVE GateStep
    OBVIOUS
  <1>1. UNCHANGED <<Ledger, writers, Audited>>
    BY UnrecordedIsInvisible DEF Invisible, Ledger, Audited
  <1> QED
    BY <1>1 DEF GateStep, Gate!gateVars, Ledger, Audited

LEMMA SubmitSteps ==
    ASSUME TypeInv, DecisionInv, NEW c \in Clicks, RestSubmit(c) \/ SlackAction(c)
    PROVE  GateStep
  <1>1. c \notin decided /\ UNCHANGED <<decided, writers, rows>>
    BY DEF RestSubmit, SlackAction, DecisionInv, ClicksDecide, shopifyVars, logVars
  <1>2. \A d \in Clicks : d # c => verdict'[d] = verdict[d]
    BY DEF RestSubmit, SlackAction, Choose, TypeInv, TypedLogs
  <1>3. UNCHANGED <<Ledger, writers, Audited>>
    BY <1>1, <1>2 DEF Ledger, Audited
  <1> QED
    BY <1>3 DEF GateStep, Gate!gateVars, Ledger, Audited

LEMMA StoreSteps ==
    ASSUME TypeInv, DecisionInv, NEW c \in Clicks, StoreDecision(c)
    PROVE  GateStep
  <1>1. /\ c \notin decided /\ decided' = decided \cup {c} /\ UNCHANGED <<verdict, writers, rows>>
        /\ verdict[c] \in {"approved", "rejected"}
    BY DEF StoreDecision, DecisionInv, ClicksDecide, Accepted, shopifyVars, logVars,
           TypeInv, TypedLogs
  <1>2. Ledger[c] = "none" /\ Ledger' = [Ledger EXCEPT ![c] = verdict[c]]
    BY <1>1 DEF Ledger
  <1>3. UNCHANGED <<writers, Audited>>
    BY <1>1 DEF Audited
  <1>4. Gate!Decide(c)
    BY <1>1, <1>2, <1>3 DEF Gate!Decide, Ledger, Audited
  <1> QED
    BY <1>4 DEF GateStep, Gate!GateNext

LEMMA WriteSteps ==
    ASSUME TypeInv, DecisionInv, SpendInv, NEW c \in Clicks, ApplyHold(c) \/ ShopifyCall(c)
    PROVE  GateStep
  <1>1. /\ UNCHANGED <<verdict, decided, rows>>
        /\ writers' = writers \/ writers' = writers \cup {c}
        /\ pc[c] \in {"running", "calling"}
    BY DEF ApplyHold, ShopifyCall, Live, At, operatorVars, logVars
  <1>2. c \in decided /\ c \notin writers /\ mem[c].approval = "approved"
    BY DEF ApplyHold, ShopifyCall, Live, At, DecisionInv, ClicksDecide, SpendInv, Fresh, Unspent,
           Resumed, Accepted
  <1>3. Backed(OnRun[c], "approved")
    BY <1>1, <1>2, RunOfType DEF DecisionInv, CopiesBacked
  <1>4. verdict[c] # "none"
    BY <1>2 DEF DecisionInv, ClicksDecide
  <1>5. UNCHANGED <<Ledger, Audited>>
    BY <1>1 DEF Ledger, Audited
  <1>6. Gate!Approved(OnRun[c]) /\ Ledger[c] # "none"
    BY <1>2, <1>3, <1>4 DEF Gate!Approved, Ledger, Backed, TypeInv, TypedLogs
  <1>7. CASE writers' = writers
    BY <1>5, <1>7 DEF GateStep, Gate!gateVars, Ledger, Audited
  <1>8. CASE writers' = writers \cup {c}
    <2>1. Gate!Write(c)
      BY <1>2, <1>5, <1>6, <1>8 DEF Gate!Write, Ledger, Audited
    <2> QED
      BY <2>1 DEF GateStep, Gate!GateNext
  <1> QED
    BY <1>1, <1>7, <1>8

LEMMA AuditSteps ==
    ASSUME TypeInv, DecisionInv, SpendInv, NEW c \in Clicks, AuditWrite(c)
    PROVE  GateStep
  <1>1. /\ UNCHANGED <<verdict, decided, writers>> /\ pc[c] = "running"
        /\ rows' = rows \/ rows' = rows \cup {AuditRow(c)}
    BY DEF AuditWrite, At, operatorVars, shopifyVars
  <1>2. c \in decided /\ verdict[c] # "none" /\ \A row \in rows : row.by # c
    BY <1>1 DEF DecisionInv, ClicksDecide, SpendInv, Resumed, Stopped
  <1>3. UNCHANGED <<Ledger, writers>> /\ Ledger[c] # "none"
    BY <1>1, <1>2 DEF Ledger
  <1>4. CASE rows' = rows
    BY <1>3, <1>4 DEF GateStep, Gate!gateVars, Ledger
  <1>5. CASE rows' = rows \cup {AuditRow(c)}
    <2>1. AuditRow(c).by = c
      BY DEF AuditRow
    <2>2. Audited' = Audited \cup {c} /\ c \notin Audited
      BY <1>2, <1>5, <2>1 DEF Audited
    <2>3. Gate!Audit(c)
      BY <1>3, <2>2 DEF Gate!Audit, Ledger, Audited
    <2> QED
      BY <2>3 DEF GateStep, Gate!GateNext
  <1> QED
    BY <1>1, <1>4, <1>5

(* The workflow implements the gate for any interleaving of starters,       *)
(* clicks, failures and restarts: a decision is spent on at most one        *)
(* Shopify write and one audit row, and no write happens on a run nobody    *)
(* approved (interrupt_before, apply_mutation, _route_after_verify, audit). *)
THEOREM WorkflowImplementsGate == Spec => ImplementsGate
  <1>1. Init => Gate!GateInit
    BY DEF Init, Gate!GateInit
  <1>2. TypeInv /\ DecisionInv /\ SpendInv /\ [Next]_vars => GateStep
    <2> SUFFICES ASSUME TypeInv, DecisionInv, SpendInv, [Next]_vars PROVE GateStep
      OBVIOUS
    <2> QED
      BY NextIsRecorded, InvisibleSteps, SubmitSteps, StoreSteps, WriteSteps, AuditSteps
  <1>3. Spec => [](TypeInv /\ DecisionInv /\ SpendInv)
    BY TypeInit, TypeStep, DecisionInit, DecisionStep, SpendInit, SpendStep, PTL DEF Spec
  <1> QED
    BY <1>1, <1>2, <1>3, PTL DEF Spec, ImplementsGate, Gate!GateSpec, GateStep

(* A task that can reach the Shopify call has not written under its         *)
(* decision before (interrupt_before in build_graph, _route_after_verify).  *)
THEOREM DecisionsPayOnce == Spec => []OneWritePerDecision
  <1>1. TypeInv /\ SpendInv => OneWritePerDecision
    BY DEF SpendInv, Fresh, Unspent, At, OneWritePerDecision
  <1> QED
    BY <1>1, TypeInit, TypeStep, SpendInit, SpendStep, PTL DEF Spec
-----------------------------------------------------------------------------
(* Shadow mode. *)

LEMMA ModeInit == Init => ModeInv
  BY RunOfType DEF Init, ModeInv

LEMMA ModeStep == TypeInv /\ ModeInv /\ [Next]_vars => ModeInv'
  <1> SUFFICES ASSUME TypeInv, ModeInv, [Next]_vars PROVE ModeInv'
    OBVIOUS
  <1> USE RunOfType
  <1>1. CASE NoNewCaller /\ UNCHANGED shadow
    BY <1>1 DEF NoNewCaller, ModeInv
  <1>2. CASE Restart
    BY <1>2 DEF Restart, ModeInv, Underway, Stopped, PCs
  <1>3. CASE UNCHANGED vars
    BY <1>3 DEF vars, ModeInv
  <1>4. ASSUME NEW c \in Clicks, ApplyGuard(c) PROVE ModeInv'
    <2>1. ~shadow /\ UNCHANGED shadow
      BY <1>4 DEF ApplyGuard, Live
    <2> QED
      BY <2>1 DEF ModeInv
  <1>5. ASSUME NEW c \in Clicks,
               \/ ApplyNotApproved(c) \/ ApplyShadowed(c) \/ ApplyDeduped(c)
               \/ ApplyGuardFails(c) \/ ApplyReturn(c) \/ Verify(c) \/ AuditCleanup(c)
        PROVE  ModeInv'
    <2>1. (\E v : Checkpoint(c, v)) /\ UNCHANGED shadow
      BY <1>5 DEF ApplyNotApproved, ApplyShadowed, ApplyDeduped, ApplyGuardFails, ApplyReturn,
                  Verify, AuditCleanup
    <2> QED
      BY <1>1, <2>1, CheckpointCallers
  <1>6. ASSUME NEW c \in Clicks,
               \/ ApplyHold(c) \/ ShopifyCall(c) \/ NotifyFind(c) \/ NotifyAppend(c)
               \/ AuditWrite(c)
        PROVE  ModeInv'
    <2>1. \A d \in Clicks : pc'[d] = "calling" => pc[d] = "calling"
      BY <1>6, AfterPC DEF ApplyHold, ShopifyCall, NotifyFind, NotifyAppend, AuditWrite,
                           Checkpoint, TypeInv, TypedProcesses
    <2>2. UNCHANGED shadow
      BY <1>6 DEF ApplyHold, ShopifyCall, NotifyFind, NotifyAppend, AuditWrite
    <2> QED
      BY <2>1, <2>2 DEF ModeInv
  <1>7. CASE \/ \E r \in Runs : StartWorkflow(r) \/ StarterStep(r) \/ ExpirePending(r)
             \/ \E p \in Processes : ProposalStep(p)
             \/ \E c \in Clicks : \/ RestSubmit(c) \/ SlackAction(c)
                                 \/ LoadState(c) \/ StoreDecision(c) \/ Resume(c)
             \/ \E p \in Processes : TaskFails(p)
    <2>1. NoNewCaller
      BY <1>7, KeyOthers
    <2>2. UNCHANGED shadow
      BY <1>7 DEF StartWorkflow, StarterStep, SaveWorkflowState, ExpirePending, ProposalStep,
                  Detect, Investigate, Propose, Interrupt, RestSubmit, SlackAction, LoadState,
                  StoreDecision, Resume, TaskFails
    <2> QED
      BY <1>1, <2>1, <2>2
  <1>8. ASSUME NEW k \in Keys, ExpireGuard(k) PROVE ModeInv'
    BY <1>8 DEF ExpireGuard, ModeInv
  <1> QED
    BY <1>2, <1>3, <1>4, <1>5, <1>6, <1>7, <1>8 DEF Next, ClickStep

(* No step of a server in shadow mode writes to Shopify, also for runs      *)
(* proposed, approved or under way when the mode was switched               *)
(* (apply_mutation).                                                        *)
THEOREM ShadowIsSilent == Spec => ShadowWritesNothing
  <1>1. TypeInv /\ ModeInv /\ [Next]_vars => [shadow /\ shadow' => writers' = writers]_vars
    <2> SUFFICES ASSUME ModeInv, [Next]_vars, shadow PROVE UNCHANGED writers
      BY DEF vars
    <2>1. \A c \in Clicks : ~ApplyHold(c) /\ ~ShopifyCall(c)
      BY DEF ModeInv, ApplyHold, ShopifyCall, Live
    <2> QED
      BY <2>1 DEF Next, vars, StartWorkflow, StarterStep, SaveWorkflowState, ExpirePending,
           ProposalStep, Detect, Investigate, Propose, Interrupt, RestSubmit, SlackAction,
           ClickStep, LoadState, StoreDecision, Resume,
           ApplyNotApproved, ApplyShadowed, ApplyDeduped, ApplyGuard, ApplyGuardFails,
           ApplyReturn, Verify, NotifyFind, NotifyAppend, AuditWrite, AuditCleanup, ExpireGuard,
           TaskFails, Restart, shopifyVars
  <1> QED
    BY <1>1, TypeInit, TypeStep, ModeInit, ModeStep, PTL DEF Spec, ShadowWritesNothing
=============================================================================
