-------------------------- MODULE DetectionProofs --------------------------
(* The intake of Detection.tla, for any items, ids and requests.           *)
EXTENDS Detection, TLAPS

USE DetectionAssumption

LEMMA SomeChoices == Any(Items) \in Items /\ Any(Levels) \in Levels /\ Any(Ids) \in Ids
  BY DEF Any

LEMMA IntakeInit == Init => IntakeInv
  <1> SUFFICES ASSUME Init PROVE IntakeInv
    OBVIOUS
  <1>1. committed \in [Items -> Nat]
    BY DEF Init
  <1>2. event \in [Ids -> Event]
    <2>1. Quiet \in Event
      BY SomeChoices DEF Quiet, Event, Optional
    <2> QED
      BY <2>1 DEF Init
  <1>3. TypeOK
    BY <1>1, <1>2, SomeChoices DEF Init, TypeOK, Optional, RequestPCs, JobPCs
  <1>4. MarkInv /\ AdmitInv
    BY DEF Init, MarkInv, AdmitInv, Working
  <1> QED
    BY <1>3, <1>4 DEF IntakeInv

(* What the operators, Shopify and the job do leaves requests and marks alone. *)
LEMMA ChangeTyped ==
    ASSUME TypeOK, NEW levels, ChangeStock(levels)
    PROVE  /\ stock' \in [Items -> Levels]
           /\ event' \in [Ids -> Event]
           /\ inflight' \subseteq Ids /\ admitted' \subseteq Ids
  <1>1. levels \in [Items -> Levels] /\ stock' = levels
    BY DEF ChangeStock
  <1>2. PICK ids \in SUBSET Unused :
          \E about \in Bijection(ids, {i \in Items : levels[i] # stock[i]}), told \in SUBSET ids :
             /\ event' = [d \in Ids |-> IF d \in ids THEN Webhook(about[d], levels, d \in told)
                                                    ELSE event[d]]
             /\ inflight' = inflight \cup ids
             /\ admitted' = admitted \ ids
    BY DEF ChangeStock
  <1>3. PICK about \in Bijection(ids, {i \in Items : levels[i] # stock[i]}), told \in SUBSET ids :
          /\ event' = [d \in Ids |-> IF d \in ids THEN Webhook(about[d], levels, d \in told)
                                                 ELSE event[d]]
          /\ inflight' = inflight \cup ids
          /\ admitted' = admitted \ ids
    BY <1>2
  <1>4. about \in [ids -> Items]
    BY DEF Bijection, Injection
  <1>5. \A d \in ids, b \in BOOLEAN : Webhook(about[d], levels, b) \in Event
    BY <1>1, <1>4 DEF Webhook, Event, Optional, TypeOK
  <1>6. event' \in [Ids -> Event]
    <2>1. \A d \in ids : (d \in told) \in BOOLEAN
      OBVIOUS
    <2>2. \A d \in Ids : (IF d \in ids THEN Webhook(about[d], levels, d \in told)
                                    ELSE event[d]) \in Event
      BY <1>5, <2>1 DEF TypeOK
    <2> QED
      BY <1>3, <2>2
  <1>7. inflight' \subseteq Ids /\ admitted' \subseteq Ids
    BY <1>3 DEF Unused, TypeOK
  <1> QED
    BY <1>1, <1>6, <1>7

LEMMA ChangeAdmits ==
    ASSUME TypeOK, AdmitInv, NEW levels, ChangeStock(levels),
           UNCHANGED <<seen, served, requestVars>>
    PROVE  AdmitInv'
  <1>1. PICK ids \in SUBSET Unused : admitted' = admitted \ ids
    BY DEF ChangeStock
  <1> QED
    BY <1>1 DEF Unused, Busy, AdmitInv, requestVars, Working

(* Whoever changes the stock, Shopify announces it and nothing else happens *)
(* but that a run may be over.                                              *)
StockChanges == StockMoves \/ AdjustStock \/ TransferStock

LEMMA ChangeOnly ==
    ASSUME StockChanges
    PROVE  /\ \E levels : ChangeStock(levels)
           /\ runs' \subseteq runs
           /\ UNCHANGED <<enabled, baseline, committed, seen, served, requestVars, jobVars>>
  <1>1. CASE StockMoves
    BY <1>1 DEF StockMoves
  <1>2. CASE AdjustStock
    BY <1>2 DEF AdjustStock, correctionFrame
  <1>3. CASE TransferStock
    <2>1. \E levels : ChangeStock(levels)
      BY <1>3 DEF TransferStock
    <2>2. runs' \subseteq runs
      BY <1>3 DEF TransferStock
    <2> QED
      BY <1>3, <2>1, <2>2 DEF TransferStock, correctionFrame
  <1> QED
    BY <1>1, <1>2, <1>3 DEF StockChanges

LEMMA IntakeOutside ==
    ASSUME IntakeInv,
           \/ StockChanges \/ LoseWebhook \/ SetBaseline \/ SetEnabled
           \/ DetectAndInvestigate \/ CloseRun
    PROVE  IntakeInv'
  <1> USE DEF IntakeInv
  <1>1. CASE StockChanges
    <2>1. PICK levels : ChangeStock(levels)
      BY <1>1, ChangeOnly
    <2>2. UNCHANGED <<enabled, baseline, committed, seen, served, requestVars, jobVars>>
          /\ runs' \subseteq runs
      BY <1>1, ChangeOnly
    <2>3. TypeOK'
      BY <2>1, <2>2, ChangeTyped DEF TypeOK, requestVars, jobVars
    <2>4. AdmitInv'
      BY <2>1, <2>2, ChangeAdmits
    <2>5. MarkInv'
      BY <2>2 DEF MarkInv, requestVars
    <2> QED
      BY <2>3, <2>4, <2>5
  <1>3. CASE LoseWebhook \/ SetBaseline \/ SetEnabled \/ DetectAndInvestigate \/ CloseRun
    <2>1. UNCHANGED <<markVars, requestVars>>
      BY <1>3 DEF LoseWebhook, SetBaseline, SetEnabled, DetectAndInvestigate, CloseRun
    <2>2. TypeOK'
      <3>1. CASE LoseWebhook
        BY <3>1 DEF LoseWebhook, TypeOK, stockVars, markVars, requestVars, jobVars
      <3>2. CASE SetBaseline
        BY <3>2 DEF SetBaseline, TypeOK, Optional, shopifyVars, markVars, requestVars, jobVars
      <3>3. CASE SetEnabled
        BY <3>3 DEF SetEnabled, TypeOK, stockVars, shopifyVars, markVars, requestVars, jobVars
      <3>4. CASE DetectAndInvestigate
        BY <3>4 DEF DetectAndInvestigate, TypeOK, stockVars, shopifyVars, markVars,
                    requestVars, jobVars
      <3>5. CASE CloseRun
        BY <3>5 DEF CloseRun, TypeOK, stockVars, shopifyVars, markVars, requestVars, jobVars
      <3> QED
        BY <1>3, <3>1, <3>2, <3>3, <3>4, <3>5
    <2>3. MarkInv' /\ AdmitInv'
      BY <2>1 DEF MarkInv, AdmitInv, markVars, requestVars
    <2> QED
      BY <2>2, <2>3
  <1> QED
    BY <1>1, <1>3

LEMMA RestEffect ==
    ASSUME TypeOK, NEW h \in Handlers, Rest(h)
    PROVE  /\ pc' = [pc EXCEPT ![h] = "idle"]
           /\ pc' \in [Handlers -> RequestPCs]
           /\ ticket' \in [Handlers -> Ids] /\ expects' \in [Handlers -> Levels]
           /\ \A g \in Handlers : pc'[g] # "idle" => pc'[g] = pc[g] /\ ticket'[g] = ticket[g]
  BY SomeChoices DEF Rest, Turn, TypeOK, RequestPCs

(* A request that ends, and forgets or leaves its mark. *)
LEMMA IntakeRest ==
    ASSUME TypeOK, MarkInv, AdmitInv, NEW h \in Handlers, Rest(h),
           UNCHANGED <<seen, admitted>>,
           served' = served \/ (pc[h] \in Working /\ served' = served \cup {ticket[h]})
    PROVE  MarkInv' /\ AdmitInv'
  <1>1. pc'[h] = "idle"
    BY RestEffect DEF TypeOK
  <1>2. \A g \in Handlers : pc'[g] \in Working \cup {"admitted"} =>
           g # h /\ pc'[g] = pc[g] /\ ticket'[g] = ticket[g]
    BY <1>1, RestEffect DEF Working
  <1>3. AdmitInv'
    <2>1. served' \subseteq seen
      BY DEF MarkInv, AdmitInv
    <2> QED
      BY <1>2, <2>1 DEF AdmitInv, Working
  <1>4. \A g \in Handlers : pc'[g] \in Working => ticket'[g] \notin served'
    BY <1>2 DEF MarkInv
  <1>5. MarkInv'
    BY <1>2, <1>4 DEF MarkInv
  <1> QED
    BY <1>3, <1>5

LEMMA IntakeRequest ==
    ASSUME IntakeInv, NEW h \in Handlers, Deliver(h) \/ HandlerStep(h) \/ RequestFails(h)
    PROVE  IntakeInv'
  <1> USE DEF IntakeInv
  <1>1. CASE Deliver(h)
    <2>1. TypeOK'
      BY <1>1 DEF Deliver, Turn, TypeOK, RequestPCs, stockVars, shopifyVars, markVars, jobVars
    <2>2. \A g \in Handlers : pc'[g] \in Working \cup {"admitted"} =>
             pc'[g] = pc[g] /\ ticket'[g] = ticket[g]
      BY <1>1 DEF Deliver, Turn, TypeOK, Working
    <2>3. UNCHANGED <<seen, admitted, served>>
      BY <1>1 DEF Deliver, markVars
    <2> QED
      BY <2>1, <2>2, <2>3 DEF MarkInv, AdmitInv
  <1>2. CASE CheckSwitch(h)
    <2>1. CASE Answer(h) /\ UNCHANGED admitted
      <3>1. TypeOK'
        BY <1>2, <2>1, RestEffect DEF CheckSwitch, Answer, TypeOK, stockVars, jobVars
      <3> QED
        BY <1>2, <2>1, <3>1, IntakeRest DEF CheckSwitch, Answer
    <2>2. CASE /\ Turn(h, "admitted") /\ admitted' = admitted \cup {ticket[h]}
               /\ UNCHANGED <<ticket, expects, inflight>>
      <3>1. TypeOK'
        BY <1>2, <2>2 DEF CheckSwitch, Turn, TypeOK, RequestPCs, stockVars, jobVars
      <3>2. UNCHANGED <<seen, served, ticket>> /\ admitted \subseteq admitted'
        BY <1>2, <2>2 DEF CheckSwitch
      <3>3. \A g \in Handlers : g # h => pc'[g] = pc[g]
        BY <2>2 DEF Turn, TypeOK
      <3>4. pc'[h] = "admitted" /\ ticket[h] \in admitted'
        BY <2>2 DEF Turn, TypeOK
      <3> QED
        BY <3>1, <3>2, <3>3, <3>4 DEF MarkInv, AdmitInv, Working
    <2> QED
      BY <1>2, <2>1, <2>2 DEF CheckSwitch
  <1>3. CASE CheckAndSet(h)
    <2>1. CASE Answer(h) /\ UNCHANGED <<seen, served>>
      <3>1. TypeOK'
        BY <1>3, <2>1, RestEffect DEF CheckAndSet, Answer, TypeOK, stockVars, jobVars
      <3> QED
        BY <1>3, <2>1, <3>1, IntakeRest DEF CheckAndSet, Answer
    <2>2. CASE /\ IsNew(h) /\ seen' = seen \cup {ticket[h]} /\ served' = served \ {ticket[h]}
               /\ Turn(h, "marked") /\ UNCHANGED <<ticket, expects, inflight>>
      <3>1. TypeOK'
        BY <1>3, <2>2 DEF CheckAndSet, Turn, TypeOK, RequestPCs, stockVars, jobVars
      <3>2. \A g \in Handlers : g # h => pc'[g] = pc[g]
        BY <2>2 DEF Turn, TypeOK
      <3>3. pc'[h] = "marked" /\ pc[h] = "admitted" /\ UNCHANGED admitted
        BY <1>3, <2>2 DEF CheckAndSet, Turn, TypeOK
      <3>4. \A g \in Handlers : pc[g] \in Working => ticket[g] # ticket[h]
        BY <2>2 DEF IsNew, MarkInv
      <3>5. MarkInv'
        BY <2>2, <3>2, <3>3, <3>4 DEF MarkInv
      <3>6. AdmitInv'
        BY <2>2, <3>2, <3>3 DEF AdmitInv
      <3> QED
        BY <3>1, <3>5, <3>6
    <2> QED
      BY <1>3, <2>1, <2>2 DEF CheckAndSet
  <1>4. CASE ResolveBaseline(h)
    <2>1. CASE Answer(h)
      <3>1. TypeOK'
        BY <1>4, <2>1, RestEffect DEF ResolveBaseline, Answer, TypeOK, stockVars, markVars, jobVars
      <3> QED
        BY <1>4, <2>1, <3>1, IntakeRest DEF ResolveBaseline, Answer, markVars
    <2>2. ASSUME NEW b \in ExpectedBy(event[ticket[h]]),
                 Turn(h, "starting"), expects' = [expects EXCEPT ![h] = b],
                 inflight' = inflight \ {ticket[h]}, UNCHANGED ticket
          PROVE  IntakeInv'
      <3>1. b \in Levels
        BY DEF ExpectedBy, TypeOK, Event, Optional
      <3>2. TypeOK'
        BY <1>4, <2>2, <3>1 DEF ResolveBaseline, Turn, TypeOK, RequestPCs, stockVars, markVars,
                                jobVars
      <3>3. pc[h] = "marked" /\ UNCHANGED <<seen, admitted, served>>
        BY <1>4 DEF ResolveBaseline, markVars
      <3>4. \A g \in Handlers : (pc'[g] \in Working <=> pc[g] \in Working)
                                /\ (pc'[g] = "admitted" <=> pc[g] = "admitted")
        BY <2>2, <3>3 DEF Turn, TypeOK, Working
      <3> QED
        BY <2>2, <3>2, <3>3, <3>4 DEF MarkInv, AdmitInv
    <2> QED
      BY <1>4, <2>1, <2>2 DEF ResolveBaseline
  <1>5. CASE RunWorkflow(h)
    <2>1. expects[h] \in Levels /\ event[ticket[h]].item \in Items
      BY DEF TypeOK, Event
    <2>2. TypeOK'
      BY <1>5, <2>1, RestEffect DEF RunWorkflow, TypeOK, Runs, stockVars, shopifyVars, jobVars
    <2>3. pc[h] \in Working
      BY <1>5 DEF RunWorkflow, Working
    <2> QED
      BY <1>5, <2>2, <2>3, IntakeRest DEF RunWorkflow
  <1>6. CASE RequestFails(h)
    <2>1. TypeOK'
      BY <1>6, RestEffect DEF RequestFails, TypeOK, stockVars, shopifyVars, jobVars
    <2>2. CASE seen' = seen
      <3>1. served' = served /\ UNCHANGED admitted
        BY <1>6, <2>2 DEF RequestFails
      <3> QED
        BY <1>6, <2>1, <2>2, <3>1, IntakeRest DEF RequestFails
    <2>3. CASE pc[h] = "admitted" /\ seen' = seen \cup {ticket[h]}
      <3>1. \A g \in Handlers : pc'[g] \in Working \cup {"admitted"} =>
               pc'[g] = pc[g] /\ ticket'[g] = ticket[g]
        BY <1>6, RestEffect DEF RequestFails, Working
      <3>2. served' \subseteq served /\ UNCHANGED admitted
        BY <1>6 DEF RequestFails
      <3>3. AdmitInv'
        BY <2>3, <3>1, <3>2 DEF AdmitInv
      <3>4. MarkInv'
        BY <2>3, <3>1, <3>2 DEF MarkInv
      <3> QED
        BY <2>1, <3>3, <3>4
    <2> QED
      BY <1>6, <2>2, <2>3 DEF RequestFails
  <1> QED
    BY <1>1, <1>2, <1>3, <1>4, <1>5, <1>6 DEF HandlerStep

JobFailure == NoLevel \/ ItemFails \/ CycleFails

LEMMA IntakeTime ==
    ASSUME IntakeInv, ForgetWebhook \/ JobStep \/ JobFailure \/ Tick \/ Restart
    PROVE  IntakeInv'
  <1> USE DEF IntakeInv
  <1>1. CASE ForgetWebhook
    <2>1. PICK d \in seen : /\ \A h \in Handlers : pc[h] \in Working => ticket[h] # d
                            /\ seen' = seen \ {d} /\ served' = served \ {d}
      BY <1>1 DEF ForgetWebhook
    <2>2. TypeOK'
      BY <1>1, <2>1 DEF ForgetWebhook, TypeOK, stockVars, shopifyVars, requestVars, jobVars
    <2>3. MarkInv' /\ AdmitInv'
      BY <1>1, <2>1 DEF ForgetWebhook, MarkInv, AdmitInv, requestVars
    <2> QED
      BY <2>2, <2>3
  <1>2. CASE JobStep \/ JobFailure \/ Tick
    <2>1. UNCHANGED <<markVars, requestVars>>
      BY <1>2 DEF JobStep, WakeUp, ReadBaseline, ReadLevel, CheckMarker, Fire, EndCycle,
                  JobFailure, NoLevel, ItemFails, CycleFails, Tick, jobFrame
    <2>2. MarkInv' /\ AdmitInv'
      BY <2>1 DEF MarkInv, AdmitInv, markVars, requestVars
    <2>3. TypeOK'
      <3>1. UNCHANGED jobFrame
        BY <1>2 DEF JobStep, WakeUp, ReadBaseline, ReadLevel, CheckMarker, Fire, EndCycle,
                    JobFailure, NoLevel, ItemFails, CycleFails, Tick
      <3> USE <3>1 DEF jobFrame, TypeOK, stockVars, shopifyVars, markVars, requestVars
      <3>2. CASE WakeUp \/ ReadBaseline \/ ReadLevel \/ EndCycle \/ NoLevel \/ CycleFails
        BY <3>2 DEF WakeUp, ReadBaseline, ReadLevel, EndCycle, NoLevel, CycleFails, JobPCs
      <3>3. CASE CheckMarker \/ ItemFails
        BY <3>3 DEF CheckMarker, ItemFails, JobPCs
      <3>4. CASE Fire
        <4>1. base \subseteq Levels
          BY DEF Optional
        <4> QED
          BY <3>4, <4>1 DEF Fire, JobPCs, Runs
      <3>5. CASE Tick
        <4>1. marker' \in [Items -> 0..MarkerLife]
          BY <3>5 DEF Tick, Aged, Less
        <4>2. sleep' \in 0..Interval
          BY <3>5 DEF Tick, Less
        <4> QED
          BY <3>5, <4>1, <4>2 DEF Tick
      <3> QED
        BY <1>2, <3>2, <3>3, <3>4, <3>5 DEF JobStep, JobFailure
    <2> QED
      BY <2>2, <2>3
  <1>3. CASE Restart
    BY <1>3, SomeChoices DEF Restart, TypeOK, MarkInv, AdmitInv, Working, RequestPCs, JobPCs,
                             stockVars, shopifyVars, markVars
  <1> QED
    BY <1>1, <1>2, <1>3

LEMMA IntakeStep == IntakeInv /\ [Next]_vars => IntakeInv'
  <1> SUFFICES ASSUME IntakeInv, [Next]_vars PROVE IntakeInv'
    OBVIOUS
  <1>1. CASE UNCHANGED vars
    BY <1>1 DEF vars, IntakeInv, TypeOK, MarkInv, AdmitInv, stockVars, shopifyVars, markVars,
                requestVars, jobVars
  <1> QED
    BY <1>1, IntakeOutside, IntakeRequest, IntakeTime
    DEF Next, Normal, External, Failure, StockChanges, JobFailure

(* The types, of requests and of the reconciliation job. *)
THEOREM TypeCorrect == Spec => []TypeOK
  BY IntakeInit, IntakeStep, PTL DEF Spec, IntakeInv

(* The invariant the run checks is inductive: marks, admitted events and    *)
(* requests at work agree for any number of each.                           *)
THEOREM IntakeInductive == Spec => []IntakeInv
  BY IntakeInit, IntakeStep, PTL DEF Spec

(* However often and however concurrently a webhook is delivered, one run  *)
(* starts per life of its mark (check_and_set in inventory_level_updated). *)
THEOREM MarksExclude == Spec => []OneRunPerMark
  <1>1. IntakeInv => OneRunPerMark
    BY DEF IntakeInv, MarkInv, OneRunPerMark, Working
  <1> QED
    BY <1>1, IntakeInit, IntakeStep, PTL DEF Spec

(* Suppressed webhooks are not marked (the switch is read before the id).  *)
THEOREM SuppressionLeavesNoMark == Spec => []SuppressedReplayable
  <1>1. IntakeInv => SuppressedReplayable
    BY DEF IntakeInv, AdmitInv, SuppressedReplayable
  <1> QED
    BY <1>1, IntakeInit, IntakeStep, PTL DEF Spec

-----------------------------------------------------------------------------
(* The intake implements the ledger: every step lets an event in, marks it, *)
(* starts a run, forgets a mark, turns the switch, or is invisible.         *)

LedgerStep == [Ledger!LedgerNext]_(Ledger!ledgerVars)

LEMMA LedgerFrame == UNCHANGED <<enabled, markVars>> => LedgerStep
  BY DEF LedgerStep, Ledger!ledgerVars, markVars

LEMMA LedgerOutside ==
    ASSUME IntakeInv,
           \/ StockChanges \/ LoseWebhook \/ SetBaseline \/ SetEnabled
           \/ DetectAndInvestigate \/ CloseRun
    PROVE  LedgerStep
  <1>1. CASE StockChanges
    <2>1. PICK levels : ChangeStock(levels)
      BY <1>1, ChangeOnly
    <2>2. PICK ids \in SUBSET Unused : admitted' = admitted \ ids
      BY <2>1 DEF ChangeStock
    <2>3. ids \in SUBSET Ids /\ Ledger!Announce(ids)
      BY <1>1, <2>2, ChangeOnly DEF Unused, Ledger!Announce
    <2> QED
      BY <2>3 DEF LedgerStep, Ledger!LedgerNext
  <1>3. CASE SetEnabled
    <2>1. Ledger!Switch
      BY <1>3 DEF SetEnabled, Ledger!Switch, markVars
    <2> QED
      BY <2>1 DEF LedgerStep, Ledger!LedgerNext
  <1>4. CASE LoseWebhook \/ SetBaseline \/ DetectAndInvestigate \/ CloseRun
    BY <1>4, LedgerFrame DEF LoseWebhook, SetBaseline, DetectAndInvestigate, CloseRun
  <1> QED
    BY <1>1, <1>3, <1>4

LEMMA LedgerRequest ==
    ASSUME IntakeInv, NEW h \in Handlers, Deliver(h) \/ HandlerStep(h) \/ RequestFails(h)
    PROVE  LedgerStep
  <1>1. ticket[h] \in Ids /\ served \subseteq seen
    BY DEF IntakeInv, TypeOK, AdmitInv
  <1>2. CASE CheckSwitch(h)
    <2>1. CASE enabled /\ admitted' = admitted \cup {ticket[h]}
      <3>1. Ledger!Admit(ticket[h])
        BY <1>2, <2>1 DEF CheckSwitch, Ledger!Admit
      <3> QED
        BY <1>1, <3>1 DEF LedgerStep, Ledger!LedgerNext
    <2>2. CASE UNCHANGED admitted
      BY <1>2, <2>2, LedgerFrame DEF CheckSwitch, markVars
    <2> QED
      BY <1>2, <2>1, <2>2 DEF CheckSwitch, SwitchOn
  <1>3. ASSUME pc[h] = "admitted", ticket[h] \notin seen, seen' = seen \cup {ticket[h]},
               served' = served \ {ticket[h]}, UNCHANGED <<enabled, admitted>>
        PROVE  LedgerStep
    <2>1. ticket[h] \in admitted
      BY <1>3 DEF IntakeInv, AdmitInv
    <2>2. Ledger!Mark(ticket[h])
      BY <1>1, <1>3, <2>1 DEF Ledger!Mark
    <2> QED
      BY <1>1, <2>2 DEF LedgerStep, Ledger!LedgerNext
  <1>4. CASE CheckAndSet(h)
    <2>1. CASE UNCHANGED <<seen, served>>
      BY <1>4, <2>1, LedgerFrame DEF CheckAndSet, markVars
    <2>2. CASE IsNew(h) /\ seen' = seen \cup {ticket[h]} /\ served' = served \ {ticket[h]}
      BY <1>3, <1>4, <2>2 DEF CheckAndSet, IsNew
    <2> QED
      BY <1>4, <2>1, <2>2 DEF CheckAndSet
  <1>5. CASE RequestFails(h)
    <2>1. CASE seen' = seen
      BY <1>5, <2>1, LedgerFrame DEF RequestFails, markVars
    <2>2. CASE seen' # seen
      <3>1. pc[h] = "admitted" /\ seen' = seen \cup {ticket[h]} /\ ticket[h] \notin seen
        BY <1>5, <2>2 DEF RequestFails
      <3>2. served' = served \ {ticket[h]} /\ UNCHANGED <<enabled, admitted>>
        BY <1>5, <3>1 DEF RequestFails
      <3> QED
        BY <1>3, <3>1, <3>2
    <2> QED
      BY <2>1, <2>2
  <1>6. CASE RunWorkflow(h)
    <2>1. CASE UNCHANGED served
      BY <1>6, <2>1, LedgerFrame DEF RunWorkflow, markVars
    <2>2. CASE served' = served \cup {ticket[h]}
      <3>1. ticket[h] \in seen \ served
        BY <1>6 DEF RunWorkflow, IntakeInv, MarkInv, Working
      <3>2. Ledger!Start(ticket[h])
        BY <1>6, <2>2, <3>1 DEF RunWorkflow, Ledger!Start
      <3> QED
        BY <1>1, <3>2 DEF LedgerStep, Ledger!LedgerNext
    <2> QED
      BY <1>6, <2>1, <2>2 DEF RunWorkflow
  <1>7. CASE Deliver(h) \/ ResolveBaseline(h)
    BY <1>7, LedgerFrame DEF Deliver, ResolveBaseline
  <1> QED
    BY <1>2, <1>4, <1>5, <1>6, <1>7 DEF HandlerStep

LEMMA LedgerTime ==
    ASSUME IntakeInv, ForgetWebhook \/ JobStep \/ JobFailure \/ Tick \/ Restart
    PROVE  LedgerStep
  <1>1. CASE ForgetWebhook
    <2>1. PICK d \in seen : seen' = seen \ {d} /\ served' = served \ {d}
      BY <1>1 DEF ForgetWebhook
    <2>2. d \in Ids /\ Ledger!Forget(d)
      BY <1>1, <2>1 DEF ForgetWebhook, Ledger!Forget, IntakeInv, TypeOK
    <2> QED
      BY <2>2 DEF LedgerStep, Ledger!LedgerNext
  <1>2. CASE JobStep \/ JobFailure \/ Tick \/ Restart
    BY <1>2, LedgerFrame DEF JobStep, WakeUp, ReadBaseline, ReadLevel, CheckMarker, Fire,
                             EndCycle, JobFailure, NoLevel, ItemFails, CycleFails, Tick, Restart,
                             jobFrame
  <1> QED
    BY <1>1, <1>2

(* However often and concurrently events are delivered, whatever fails or   *)
(* restarts: a run is started only under a mark of its own, and a mark set  *)
(* only for an event that found the switch on (is_enabled before            *)
(* check_and_set in inventory_level_updated).                               *)
THEOREM IntakeImplementsLedger == Spec => ImplementsLedger
  <1>1. Init => Ledger!LedgerInit
    BY DEF Init, Ledger!LedgerInit
  <1>2. IntakeInv /\ [Next]_vars => LedgerStep
    <2> SUFFICES ASSUME IntakeInv, [Next]_vars PROVE LedgerStep
      OBVIOUS
    <2>1. CASE UNCHANGED vars
      BY <2>1, LedgerFrame DEF vars
    <2> QED
      BY <2>1, LedgerOutside, LedgerRequest, LedgerTime
      DEF Next, Normal, External, Failure, StockChanges, JobFailure
  <1> QED
    BY <1>1, <1>2, IntakeInductive, PTL DEF Spec, ImplementsLedger, Ledger!LedgerSpec, LedgerStep
=============================================================================
