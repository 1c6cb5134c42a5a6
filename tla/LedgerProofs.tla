---------------------------- MODULE LedgerProofs ----------------------------
(***************************************************************************)
(* What the writes and the audit rows say about the decisions behind them, *)
(* in general, and how far every task still is from its end.               *)
(***************************************************************************)
EXTENDS OutcomeProofs, FiniteSetTheorems

(* A stored decision stays stored, with the verdict it had. *)
LEMMA DecisionsStand ==
    ASSUME TypeInv, DecisionInv, [Next]_vars
    PROVE  decided \subseteq decided' /\ \A d \in decided : verdict'[d] = verdict[d]
  <1>1. CASE Unrecorded
    BY <1>1, UnrecordedIsInvisible DEF Invisible
  <1>2. ASSUME NEW c \in Clicks, RestSubmit(c) \/ SlackAction(c)
        PROVE  decided \subseteq decided' /\ \A d \in decided : verdict'[d] = verdict[d]
    <2>1. c \notin decided /\ UNCHANGED decided
      BY <1>2 DEF RestSubmit, SlackAction, DecisionInv, ClicksDecide
    <2>2. \A d \in Clicks : d # c => verdict'[d] = verdict[d]
      BY <1>2 DEF RestSubmit, SlackAction, Choose, TypeInv, TypedLogs
    <2> QED
      BY <2>1, <2>2 DEF TypeInv, TypedLogs
  <1>3. ASSUME NEW c \in Clicks,
               StoreDecision(c) \/ ApplyHold(c) \/ ShopifyCall(c) \/ AuditWrite(c)
        PROVE  decided \subseteq decided' /\ UNCHANGED verdict
    BY <1>3 DEF StoreDecision, ApplyHold, ShopifyCall, AuditWrite, operatorVars
  <1> QED
    BY <1>1, <1>2, <1>3, NextIsRecorded

LEMMA BackingStands ==
    ASSUME TypeInv, DecisionInv, [Next]_vars, NEW r, NEW a, Backed(r, a)
    PROVE  Backed(r, a)'
  BY DecisionsStand DEF Backed

-----------------------------------------------------------------------------
(* Writes and rows are accounted for. *)

LEMMA LogInit == Init => LogInv
  BY DEF Init, LogInv

(* No write and no row is added. *)
LEMMA LogFrame ==
    ASSUME TypeInv, DecisionInv, LogInv, [Next]_vars, UNCHANGED <<writers, rows>>
    PROVE  LogInv'
  BY DecisionsStand, BackingStands DEF LogInv

LEMMA LogWrite ==
    ASSUME TypeInv, DecisionInv, SpendInv, LogInv, [Next]_vars,
           NEW c \in Clicks, ApplyHold(c) \/ ShopifyCall(c)
    PROVE  LogInv'
  <1>1. /\ UNCHANGED rows /\ writers' \subseteq writers \cup {c}
        /\ pc[c] \in {"running", "calling"} /\ mem[c].approval = "approved"
    BY DEF ApplyHold, ShopifyCall, Live, At, logVars, SpendInv
  <1>2. c \in decided /\ Backed(OnRun[c], "approved")
    BY <1>1, RunOfType DEF DecisionInv, ClicksDecide, CopiesBacked, Resumed
  <1>3. \A d \in writers' : d \in decided' /\ Backed(OnRun[d], "approved")'
    BY <1>1, <1>2, DecisionsStand, BackingStands DEF LogInv
  <1> QED
    BY <1>1, <1>3, DecisionsStand DEF LogInv

LEMMA LogRow ==
    ASSUME TypeInv, DecisionInv, SpendInv, LogInv, [Next]_vars,
           NEW c \in Clicks, AuditWrite(c)
    PROVE  LogInv'
  <1>1. /\ UNCHANGED writers /\ pc[c] = "running"
        /\ rows' \subseteq rows \cup {AuditRow(c)}
    BY DEF AuditWrite, At, shopifyVars
  <1>2. c \in decided /\ \A row \in rows : row.by # c
    BY <1>1 DEF DecisionInv, ClicksDecide, Resumed, SpendInv, Stopped
  <1>3. mem[c].action # "rejected"
    BY RunOfType DEF TypeInv, TypedProcesses, Values, Actions
  <1>4. /\ AuditRow(c).by = c /\ AuditRow(c).run = OnRun[c]
        /\ AuditRow(c).resolution = "rejected" => AuditRow(c).approved = "rejected"
    BY <1>3 DEF AuditRow
  <1>5. \A d \in writers' : d \in decided' /\ Backed(OnRun[d], "approved")'
    BY <1>1, DecisionsStand, BackingStands DEF LogInv
  <1>6. \A row \in rows' :
          /\ row.by \in decided' /\ OnRun[row.by] = row.run
          /\ row.resolution = "rejected" => row.approved = "rejected"
    BY <1>1, <1>2, <1>4, DecisionsStand DEF LogInv
  <1>7. \A row, other \in rows' : row.by = other.by => row = other
    <2> HIDE DEF AuditRow
    <2> QED
      BY <1>1, <1>2, <1>4 DEF LogInv
  <1> QED
    BY <1>5, <1>6, <1>7 DEF LogInv

LEMMA LogStep ==
    TypeInv /\ DecisionInv /\ SpendInv /\ LogInv /\ [Next]_vars => LogInv'
  <1> SUFFICES ASSUME TypeInv, DecisionInv, SpendInv, LogInv, [Next]_vars PROVE LogInv'
    OBVIOUS
  <1>1. CASE Unrecorded
    BY <1>1, UnrecordedIsInvisible, LogFrame DEF Invisible
  <1>2. ASSUME NEW c \in Clicks, RestSubmit(c) \/ SlackAction(c) \/ StoreDecision(c)
        PROVE  LogInv'
    BY <1>2, LogFrame DEF RestSubmit, SlackAction, StoreDecision, shopifyVars, logVars
  <1> QED
    BY <1>1, <1>2, LogWrite, LogRow, NextIsRecorded

LEMMA Accounted == Spec => [](TypeInv /\ DecisionInv /\ SpendInv /\ LogInv)
  BY TypeInit, TypeStep, DecisionInit, DecisionStep, SpendInit, SpendStep, LogInit, LogStep,
     PTL DEF Spec

(* A run that was written to and is recorded as rejected has both an        *)
(* approval and a rejection stored for it, whatever the interleaving, the   *)
(* failures and the checkpointer (apply_mutation, audit).                   *)
THEOREM OnlyContestedRunsMislead == Spec => []RejectedWritesWereContested
  <1>1. TypeInv /\ DecisionInv /\ LogInv => RejectedWritesWereContested
    <2> SUFFICES ASSUME TypeInv, DecisionInv, LogInv, NEW row \in rows,
                        row.resolution = "rejected", NEW c \in writers, OnRun[c] = row.run
                 PROVE  Backed(row.run, "approved") /\ Backed(row.run, "rejected")
      BY DEF RejectedWritesWereContested, Backed
    <2>1. Backed(row.run, "approved")
      BY DEF LogInv
    <2>2. row.approved = "rejected"
      BY DEF LogInv
    <2>3. Backed(row.run, "rejected")
      BY <2>2 DEF DecisionInv, RowsBacked
    <2> QED
      BY <2>1, <2>3
  <1> QED
    BY <1>1, Accounted, PTL

(* What approvals.py promises of a rejection -- nothing is written -- does  *)
(* hold where operators make one decision per run: the exception the code   *)
(* has needs two.                                                           *)
OneDecisionEach == \A c, d \in Clicks : OnRun[c] = OnRun[d] => c = d

THEOREM SingleRejectionsHold == OneDecisionEach /\ Spec => []RejectedMeansUntouched
  <1>1. CASE OneDecisionEach
    <2>1. TypeInv /\ RejectedWritesWereContested => RejectedMeansUntouched
      <3> SUFFICES ASSUME TypeInv, RejectedWritesWereContested, NEW row \in rows,
                          row.resolution = "rejected", NEW c \in writers, OnRun[c] = row.run
                   PROVE  FALSE
        BY DEF RejectedMeansUntouched
      <3>1. PICK d \in decided : OnRun[d] = row.run /\ verdict[d] = "approved"
        BY DEF RejectedWritesWereContested
      <3>2. PICK e \in decided : OnRun[e] = row.run /\ verdict[e] = "rejected"
        BY DEF RejectedWritesWereContested
      <3> QED
        BY <1>1, <3>1, <3>2 DEF OneDecisionEach, TypeInv, TypedLogs
    <2> QED
      BY <2>1, Accounted, OnlyContestedRunsMislead, PTL
  <1> QED
    BY <1>1

(* However many tasks run, crash and repeat each other, a run has no more   *)
(* Shopify writes and no more audit rows than stored decisions              *)
(* (interrupt_before in build_graph, apply_mutation, write_audit_record).   *)
DecisionsOf(r) == {c \in decided : OnRun[c] = r}
WritersOf(r) == {c \in writers : OnRun[c] = r}
RowsOf(r) == {row \in rows : row.run = r}

THEOREM DecisionsBoundEffects ==
    IsFiniteSet(Clicks) /\ Spec =>
        [](\A r \in Runs : /\ Cardinality(WritersOf(r)) <= Cardinality(DecisionsOf(r))
                          /\ Cardinality(RowsOf(r)) <= Cardinality(DecisionsOf(r)))
  <1>1. CASE IsFiniteSet(Clicks)
    <2>1. TypeInv /\ LogInv =>
            \A r \in Runs : /\ Cardinality(WritersOf(r)) <= Cardinality(DecisionsOf(r))
                           /\ Cardinality(RowsOf(r)) <= Cardinality(DecisionsOf(r))
      <3> SUFFICES ASSUME TypeInv, LogInv, NEW r \in Runs
                   PROVE  /\ Cardinality(WritersOf(r)) <= Cardinality(DecisionsOf(r))
                          /\ Cardinality(RowsOf(r)) <= Cardinality(DecisionsOf(r))
        OBVIOUS
      <3>1. IsFiniteSet(DecisionsOf(r))
        BY <1>1, FS_Subset DEF DecisionsOf, TypeInv, TypedLogs
      <3>2. WritersOf(r) \in SUBSET DecisionsOf(r)
        BY DEF WritersOf, DecisionsOf, LogInv
      <3>3. Cardinality(WritersOf(r)) <= Cardinality(DecisionsOf(r))
        BY <3>1, <3>2, FS_Subset
      <3> DEFINE by == [row \in RowsOf(r) |-> row.by]
      <3>4. by \in [RowsOf(r) -> DecisionsOf(r)]
        BY DEF RowsOf, DecisionsOf, LogInv
      <3>5. \A row, other \in RowsOf(r) : by[row] = by[other] => row = other
        BY DEF RowsOf, LogInv
      <3>6. by \in Injection(RowsOf(r), DecisionsOf(r))
        <4> HIDE DEF by
        <4> QED
          BY <3>4, <3>5 DEF Injection, IsInjective
      <3>7. Cardinality(RowsOf(r)) <= Cardinality(DecisionsOf(r))
        <4> HIDE DEF by
        <4> QED
          BY <3>1, <3>6, FS_Injection
      <3> QED
        BY <3>3, <3>7
    <2> QED
      BY <2>1, Accounted, PTL
  <1> QED
    BY <1>1

-----------------------------------------------------------------------------
(* Tasks count down. *)

CountDown == \A p \in Processes : Moves(p) => StepsLeft(p)' < StepsLeft(p)

LEMMA AheadBounds ==
    /\ \A place : Ahead(place) \in 0..17
    /\ \A place : place \notin Stopped => 0 < Ahead(place)
    /\ \A place \in Stopped : Ahead(place) = 0
    /\ \A place \in Nodes \cup {"absent"} : Ahead(place) < 14
  <1>1. \A place : Ahead(place) \in 0..17 /\ (place \notin Stopped => 0 < Ahead(place))
    BY DEF Ahead
  <1>2. \A place \in Stopped : Ahead(place) = 0
    BY DEF Ahead, Stopped
  <1>3. \A place \in Nodes \cup {"absent"} : Ahead(place) < 14
    BY DEF Ahead, Nodes, Stopped
  <1> QED
    BY <1>1, <1>2, <1>3

LEMMA AheadValues ==
    /\ Ahead("idle") = 17 /\ Ahead("checked") = 16 /\ Ahead("loaded") = 15
    /\ Ahead("stored") = 14 /\ Ahead("detect") = 13 /\ Ahead("investigate") = 12
    /\ Ahead("propose") = 11 /\ Ahead("asked") = 10 /\ Ahead("apply_mutation") = 9
    /\ Ahead("calling") = 8 /\ Ahead("called") = 7 /\ Ahead("verify") = 6
    /\ Ahead("notify") = 5 /\ Ahead("appending") = 4 /\ Ahead("audit") = 3
    /\ Ahead("cleanup") = 2 /\ Ahead("listing") = 1 /\ Ahead("end") = 1
    /\ Ahead("done") = 0 /\ Ahead("closed") = 0
  BY DEF Ahead, Stopped

LEMMA CountFrame ==
    ASSUME NEW p, OthersStay(p), StepsLeft(p)' < StepsLeft(p)
    PROVE  CountDown
  BY DEF OthersStay, CountDown, Moves

LEMMA CountUnmoved == ASSUME UNCHANGED <<pc, mem>> PROVE CountDown
  BY DEF CountDown, Moves

LEMMA CountCheckpoint ==
    ASSUME TypeInv, NEW p \in Processes, NEW v, Checkpoint(p, v),
           1 < StepsLeft(p),
           v.next \in {"apply_mutation", "end"} \/ Ahead(v.next) < StepsLeft(p)
    PROVE  CountDown
  <1>1. /\ OthersStay(p) /\ pc'[p] = After(p, v)
        /\ pc'[p] = "running" => mem'[p] = v
    BY CheckpointMoves
  <1>2. CASE v.next \in {"apply_mutation", "end"}
    <2>1. pc'[p] \in {"listing", "done", "closed"}
      BY <1>1, <1>2 DEF After
    <2>2. StepsLeft(p)' \in {0, 1}
      BY <2>1, AheadValues DEF StepsLeft
    <2>3. StepsLeft(p) \in 0..17
      BY AheadBounds DEF StepsLeft
    <2> QED
      BY <1>1, <2>2, <2>3, CountFrame
  <1>3. CASE v.next \notin {"apply_mutation", "end"} /\ Ahead(v.next) < StepsLeft(p)
    <2>1. pc'[p] = "running" /\ mem'[p] = v
      BY <1>1, <1>3 DEF After
    <2>2. StepsLeft(p)' = Ahead(v.next)
      BY <2>1 DEF StepsLeft
    <2> QED
      BY <1>1, <1>3, <2>2, CountFrame
  <1> QED
    BY <1>2, <1>3

LEMMA CountStarter ==
    ASSUME TypeInv, NEW r \in Runs, StartWorkflow(r) \/ StarterStep(r) \/ ExpirePending(r)
    PROVE  CountDown
  <1> USE RunOfType DEF TypeInv, TypedProcesses
  <1>1. CASE StartWorkflow(r)
    <2>1. OthersStay(r) /\ pc[r] = "idle" /\ pc'[r] = "running" /\ mem'[r] = Initial
      BY <1>1 DEF StartWorkflow, OthersStay
    <2>2. StepsLeft(r) = 17 /\ StepsLeft(r)' = 13
      BY <2>1, AheadValues DEF StepsLeft, Initial, Blank
    <2> QED
      BY <2>1, <2>2, CountFrame
  <1>2. CASE SaveWorkflowState(r)
    <2>1. OthersStay(r) /\ pc[r] = "listing" /\ pc'[r] = "done"
      BY <1>2 DEF SaveWorkflowState, OthersStay
    <2>2. StepsLeft(r) = 1 /\ StepsLeft(r)' = 0
      BY <2>1, AheadValues DEF StepsLeft
    <2> QED
      BY <2>1, <2>2, CountFrame
  <1>3. CASE ExpirePending(r)
    BY <1>3, CountUnmoved DEF ExpirePending
  <1> QED
    BY <1>1, <1>2, <1>3 DEF StarterStep

LEMMA CountProposal ==
    ASSUME TypeInv, NEW p \in Processes, ProposalStep(p)
    PROVE  CountDown
  <1>1. mem[p] \in Values
    BY DEF TypeInv, TypedProcesses
  <1>2. CASE Propose(p)
    <2>1. OthersStay(p) /\ At(p, "propose") /\ pc'[p] = "asked"
      BY <1>2 DEF Propose, OthersStay, TypeInv, TypedProcesses
    <2>2. StepsLeft(p) = 11 /\ StepsLeft(p)' = 10
      BY <2>1, AheadValues DEF StepsLeft, At
    <2> QED
      BY <2>1, <2>2, CountFrame
  <1>3. ASSUME NEW n, Checkpoint(p, [mem[p] EXCEPT !.next = n]), 1 < StepsLeft(p),
               n \in {"apply_mutation", "end"} \/ Ahead(n) < StepsLeft(p)
        PROVE  CountDown
    <2>1. [mem[p] EXCEPT !.next = n].next = n
      BY <1>1 DEF Values
    <2> QED
      BY <1>3, <2>1, CountCheckpoint
  <1>4. CASE Detect(p)
    <2>1. StepsLeft(p) = 13 /\ Ahead("investigate") = 12
      BY <1>4, AheadValues DEF Detect, At, StepsLeft
    <2> QED
      BY <1>3, <1>4, <2>1 DEF Detect
  <1>5. CASE Investigate(p)
    <2>1. StepsLeft(p) = 12 /\ Ahead("propose") = 11
      BY <1>5, AheadValues DEF Investigate, At, StepsLeft
    <2> QED
      BY <1>3, <1>5, <2>1 DEF Investigate
  <1>6. CASE Interrupt(p)
    <2>1. StepsLeft(p) = 10
      BY <1>6, AheadValues DEF Interrupt, StepsLeft
    <2> QED
      BY <1>3, <1>6, <2>1 DEF Interrupt
  <1> QED
    BY <1>2, <1>4, <1>5, <1>6 DEF ProposalStep

LEMMA CountDecision ==
    ASSUME TypeInv, NEW c \in Clicks,
           \/ RestSubmit(c) \/ SlackAction(c)
           \/ LoadState(c) \/ StoreDecision(c) \/ Resume(c)
    PROVE  CountDown
  <1> USE RunOfType DEF TypeInv, TypedProcesses
  <1>1. CASE RestSubmit(c) \/ SlackAction(c)
    <2>1. OthersStay(c) /\ pc[c] = "idle" /\ pc'[c] \in {"checked", "done"}
      BY <1>1 DEF RestSubmit, SlackAction, OthersStay
    <2>2. StepsLeft(c) = 17 /\ StepsLeft(c)' \in {0, 16}
      BY <2>1, AheadValues DEF StepsLeft
    <2> QED
      BY <2>1, <2>2, CountFrame
  <1>2. CASE LoadState(c)
    <2>1. OthersStay(c) /\ pc[c] = "checked" /\ pc'[c] \in {"loaded", "failed"}
      BY <1>2 DEF LoadState, Stop, OthersStay
    <2>2. StepsLeft(c) = 16 /\ StepsLeft(c)' \in {0, 15}
      BY <2>1, AheadValues, AheadBounds DEF StepsLeft, Stopped
    <2> QED
      BY <2>1, <2>2, CountFrame
  <1>3. CASE StoreDecision(c)
    <2>1. OthersStay(c) /\ pc[c] = "loaded" /\ pc'[c] = "stored"
      BY <1>3 DEF StoreDecision, Stop, OthersStay
    <2>2. StepsLeft(c) = 15 /\ StepsLeft(c)' = 14
      BY <2>1, AheadValues DEF StepsLeft
    <2> QED
      BY <2>1, <2>2, CountFrame
  <1>4. CASE Resume(c)
    <2>1. /\ OthersStay(c) /\ pc[c] = "stored"
          /\ pc'[c] = "done" \/ (pc'[c] = "running" /\ mem'[c] = head[OnRun[c]])
      BY <1>4 DEF Resume, Stop, OthersStay
    <2>2. head[OnRun[c]].next \in Nodes \cup {"absent"}
      BY DEF TypedHeads, Values
    <2>3. StepsLeft(c) = 14 /\ StepsLeft(c)' \in 0..13
      BY <2>1, <2>2, AheadValues, AheadBounds DEF StepsLeft
    <2> QED
      BY <2>1, <2>3, CountFrame
  <1> QED
    BY <1>1, <1>2, <1>3, <1>4

LEMMA CountApply ==
    ASSUME TypeInv, NEW c \in Clicks,
           \/ ApplyNotApproved(c) \/ ApplyShadowed(c) \/ ApplyHold(c)
           \/ ApplyDeduped(c) \/ ApplyGuard(c) \/ ApplyGuardFails(c)
           \/ ShopifyCall(c) \/ ApplyReturn(c)
    PROVE  CountDown
  <1> USE RunOfType
  <1>1. CASE ApplyHold(c)
    <2>1. OthersStay(c) /\ At(c, "apply_mutation") /\ pc'[c] = "called"
      BY <1>1 DEF ApplyHold, Live, OthersStay, TypeInv, TypedProcesses
    <2>2. StepsLeft(c) = 9 /\ StepsLeft(c)' = 7
      BY <2>1, AheadValues DEF StepsLeft, At
    <2> QED
      BY <2>1, <2>2, CountFrame
  <1>2. CASE ApplyGuard(c)
    <2>1. OthersStay(c) /\ At(c, "apply_mutation") /\ pc'[c] = "calling"
      BY <1>2 DEF ApplyGuard, Live, OthersStay, TypeInv, TypedProcesses
    <2>2. StepsLeft(c) = 9 /\ StepsLeft(c)' = 8
      BY <2>1, AheadValues DEF StepsLeft, At
    <2> QED
      BY <2>1, <2>2, CountFrame
  <1>3. CASE ShopifyCall(c)
    <2>1. OthersStay(c) /\ pc[c] = "calling" /\ pc'[c] = "called"
      BY <1>3 DEF ShopifyCall, OthersStay, TypeInv, TypedProcesses
    <2>2. StepsLeft(c) = 8 /\ StepsLeft(c)' = 7
      BY <2>1, AheadValues DEF StepsLeft
    <2> QED
      BY <2>1, <2>2, CountFrame
  <1>4. mem[c] \in Values
    BY DEF TypeInv, TypedProcesses
  <1>5. CASE ApplyNotApproved(c)
    <2> DEFINE v == [mem[c] EXCEPT !.next = "verify", !.applied = FALSE]
    <2>1. Checkpoint(c, v) /\ v.next = "verify"
      BY <1>4, <1>5 DEF ApplyNotApproved, Values
    <2>2. StepsLeft(c) = 9 /\ Ahead("verify") = 6
      BY <1>5, AheadValues DEF ApplyNotApproved, At, StepsLeft
    <2> HIDE DEF v
    <2> QED
      BY <2>1, <2>2, CountCheckpoint
  <1>6. ASSUME NEW b \in BOOLEAN, NEW e \in BOOLEAN, StepsLeft(c) = 9,
               Checkpoint(c, [mem[c] EXCEPT !.next = "verify", !.applied = b, !.error = e])
        PROVE  CountDown
    <2> DEFINE v == [mem[c] EXCEPT !.next = "verify", !.applied = b, !.error = e]
    <2>1. Checkpoint(c, v) /\ v.next = "verify"
      BY <1>4, <1>6 DEF Values
    <2>2. Ahead("verify") = 6
      BY AheadValues
    <2> HIDE DEF v
    <2> QED
      BY <1>6, <2>1, <2>2, CountCheckpoint
  <1>7. CASE ApplyShadowed(c) \/ ApplyDeduped(c) \/ ApplyGuardFails(c)
    <2>1. StepsLeft(c) = 9
      BY <1>7, AheadValues DEF ApplyShadowed, ApplyDeduped, ApplyGuardFails, Live, At, StepsLeft
    <2> QED
      BY <1>6, <1>7, <2>1 DEF ApplyShadowed, ApplyDeduped, ApplyGuardFails
  <1>8. CASE ApplyReturn(c)
    <2> DEFINE v == [mem[c] EXCEPT !.next = "verify"]
    <2>1. Checkpoint(c, v) /\ v.next = "verify"
      BY <1>4, <1>8 DEF ApplyReturn, Values
    <2>2. StepsLeft(c) = 7 /\ Ahead("verify") = 6
      BY <1>8, AheadValues DEF ApplyReturn, StepsLeft
    <2> HIDE DEF v
    <2> QED
      BY <2>1, <2>2, CountCheckpoint
  <1> QED
    BY <1>1, <1>2, <1>3, <1>5, <1>7, <1>8

LEMMA CountClose ==
    ASSUME TypeInv, NEW c \in Clicks,
           \/ Verify(c) \/ NotifyFind(c) \/ NotifyAppend(c)
           \/ AuditWrite(c) \/ AuditCleanup(c)
    PROVE  CountDown
  <1> USE RunOfType
  <1>v. mem[c] \in Values
    BY DEF TypeInv, TypedProcesses
  <1>1. CASE Verify(c)
    <2>1. StepsLeft(c) = 6 /\ Ahead("notify") = 5
      BY <1>1, AheadValues DEF Verify, At, StepsLeft
    <2>2. PICK passed, t :
             Checkpoint(c, [mem[c] EXCEPT !.next = RouteAfterVerify(passed, t),
                                          !.retries = t,
                                          !.error = ErrorAfter(passed, @)])
      BY <1>1, Zenon DEF Verify
    <2> DEFINE v == [mem[c] EXCEPT !.next = RouteAfterVerify(passed, t),
                                   !.retries = t,
                                   !.error = ErrorAfter(passed, @)]
    <2>3. Checkpoint(c, v) /\ v.next \in {"notify", "apply_mutation"}
      BY <1>v, <2>2 DEF Values, RouteAfterVerify
    <2> HIDE DEF v
    <2> QED
      BY <2>1, <2>2, <2>3, CountCheckpoint
  <1>2. CASE NotifyFind(c) \/ NotifyAppend(c)
    <2>1. /\ (StepsLeft(c) = 5 /\ At(c, "notify")) \/ StepsLeft(c) = 4
          /\ Ahead("audit") = 3
      BY <1>2, AheadValues DEF NotifyFind, NotifyAppend, At, StepsLeft
    <2>2. CASE Checkpoint(c, [mem[c] EXCEPT !.next = "audit"])
      <3> DEFINE v == [mem[c] EXCEPT !.next = "audit"]
      <3>1. Checkpoint(c, v) /\ v.next = "audit"
        BY <1>v, <2>2 DEF Values
      <3> HIDE DEF v
      <3> QED
        BY <2>1, <3>1, CountCheckpoint
    <2>3. CASE NotifyFind(c) /\ pc' = [pc EXCEPT ![c] = "appending"] /\ UNCHANGED mem
      <3>1. OthersStay(c) /\ At(c, "notify") /\ pc'[c] = "appending"
        BY <2>3 DEF NotifyFind, OthersStay, TypeInv, TypedProcesses
      <3>2. StepsLeft(c) = 5 /\ StepsLeft(c)' = 4
        BY <3>1, AheadValues DEF StepsLeft, At
      <3> QED
        BY <3>1, <3>2, CountFrame
    <2> QED
      BY <1>2, <2>2, <2>3 DEF NotifyFind, NotifyAppend
  <1>3. CASE AuditWrite(c)
    <2>1. OthersStay(c) /\ At(c, "audit") /\ pc'[c] = "cleanup"
      BY <1>3 DEF AuditWrite, OthersStay, TypeInv, TypedProcesses
    <2>2. StepsLeft(c) = 3 /\ StepsLeft(c)' = 2
      BY <2>1, AheadValues DEF StepsLeft, At
    <2> QED
      BY <2>1, <2>2, CountFrame
  <1>4. CASE AuditCleanup(c)
    <2>1. StepsLeft(c) = 2
      BY <1>4, AheadValues DEF AuditCleanup, StepsLeft
    <2> DEFINE v == [mem[c] EXCEPT !.next = "end"]
    <2>2. Checkpoint(c, v) /\ v.next = "end"
      BY <1>4, <1>v DEF AuditCleanup, Values
    <2> HIDE DEF v
    <2> QED
      BY <2>1, <2>2, CountCheckpoint
  <1> QED
    BY <1>1, <1>2, <1>3, <1>4

LEMMA CountTime ==
    ASSUME TypeInv,
           \/ \E k \in Keys : ExpireGuard(k)
           \/ \E p \in Processes : TaskFails(p)
           \/ Restart
    PROVE  CountDown
  <1>1. ASSUME NEW k \in Keys, ExpireGuard(k) PROVE CountDown
    BY <1>1, CountUnmoved DEF ExpireGuard
  <1>2. ASSUME NEW p \in Processes, TaskFails(p) PROVE CountDown
    <2>1. OthersStay(p) /\ pc[p] \in Underway /\ pc'[p] = "failed"
      BY <1>2, StopMoves DEF TaskFails
    <2>2. StepsLeft(p)' = 0
      BY <2>1, AheadBounds DEF StepsLeft, Stopped
    <2>3. (IF pc[p] = "running" THEN mem[p].next ELSE pc[p]) \notin Stopped
      BY <2>1 DEF Underway, TypeInv, TypedProcesses, Values, Nodes, Stopped
    <2>4. 0 < StepsLeft(p)
      BY <2>3, AheadBounds DEF StepsLeft
    <2> QED
      BY <2>1, <2>2, <2>4, CountFrame
  <1>3. CASE Restart
    <2> SUFFICES ASSUME NEW p \in Processes, Moves(p) PROVE StepsLeft(p)' < StepsLeft(p)
      BY DEF CountDown
    <2>1. pc[p] \in Underway /\ pc'[p] = "dead"
      BY <1>3 DEF Restart, Moves, Underway, Stopped, PCs
    <2>2. StepsLeft(p)' = 0
      BY <2>1, AheadBounds DEF StepsLeft, Stopped
    <2>3. (IF pc[p] = "running" THEN mem[p].next ELSE pc[p]) \notin Stopped
      BY <2>1 DEF Underway, TypeInv, TypedProcesses, Values, Nodes, Stopped
    <2>4. 0 < StepsLeft(p)
      BY <2>3, AheadBounds DEF StepsLeft
    <2> QED
      BY <2>2, <2>4
  <1> QED
    BY <1>1, <1>2, <1>3

(* Every step of a task leaves it fewer steps to its end, and no step of    *)
(* another task, no expiry and no crash gives it more: a task takes at most *)
(* 17 steps, and no resumption goes round verify -> apply_mutation          *)
(* (interrupt_before in build_graph, _route_after_verify).                  *)
THEOREM NoTaskGoesRound == Spec => TasksCountDown
  <1>1. TypeInv /\ [Next]_vars => [CountDown]_vars
    <2> SUFFICES ASSUME TypeInv, Next PROVE CountDown
      OBVIOUS
    <2> QED
      BY CountStarter, CountProposal, CountDecision, CountApply, CountClose, CountTime
      DEF Next, ClickStep
  <1> QED
    BY <1>1, TypeInit, TypeStep, PTL DEF Spec, TasksCountDown, CountDown

-----------------------------------------------------------------------------
(* The whole invariant the runs check is inductive and holds in general.    *)
THEOREM WorkflowInductive == Spec => []Inv
  <1>1. /\ TypeInv /\ KeyInv /\ DecisionInv /\ SpendInv /\ ModeInv
        /\ AlertInv /\ LogInv /\ OrderInv
        => Inv
    BY DEF Inv
  <1>2. Spec => [](TypeInv /\ KeyInv)
    BY TypeInit, TypeStep, KeyInit, KeyStep, PTL DEF Spec
  <1>3. Spec => [](ModeInv /\ AlertInv)
    BY TypeInit, TypeStep, ModeInit, ModeStep, AlertInit, AlertStep, PTL DEF Spec
  <1>4. Spec => [](DecisionInv /\ OrderInv)
    BY TypeInit, TypeStep, DecisionInit, DecisionStep, OrderInit, OrderStep, PTL DEF Spec
  <1> QED
    BY <1>1, <1>2, <1>3, <1>4, Accounted, PTL
=============================================================================
