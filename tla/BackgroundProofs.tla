-------------------------- MODULE BackgroundProofs --------------------------
(***************************************************************************)
(* Proofs about the background tasks, for any number of events and any     *)
(* length of the week.                                                     *)
(***************************************************************************)
EXTENDS Background, TLAPS

-----------------------------------------------------------------------------
(* The inductive invariant *)

(* Posted, then waiting, then not yet emitted: in this order. *)
Sorted(s) == \A i, j \in DOMAIN s : i < j => s[i] < s[j]

QueueInv ==
    /\ Sorted(posts) /\ Sorted(inbox)
    /\ \A i \in DOMAIN posts : posts[i] <= emitted
    /\ \A j \in DOMAIN inbox : inbox[j] <= emitted
    /\ \A i \in DOMAIN posts, j \in DOMAIN inbox : posts[i] < inbox[j]

(* A step of time in calm follows a pulse; two of them have one between.   *)
BeatInv ==
    /\ calm > 0 => Up /\ (beatIn = 0 \/ age = 0)
    /\ calm > 1 => age < FreshFor

TaskInv ==
    /\ serverUp <=> report # "off"
    /\ quiet => Up
    /\ report \in {"sending", "marking"} => slot \in Window
    /\ report = "marking" => attempts > 0
    /\ slot = 0 => attempts = 0
    /\ posted <= attempts

(* The key speaks of this Monday and lasts past its end, or of the last     *)
(* one and goes before 8:00.                                                *)
KeyInv ==
    /\ lastSent # NoDate => expiresIn > 0
    /\ lastSent = monday => attempts > 0 /\ slot + expiresIn <= 5
    /\ lastSent = 1 - monday => slot + expiresIn <= 1

Marked ==
    /\ report # "sending"
    /\ slot \in Window => lastSent = monday /\ slot + expiresIn >= 4

OnceInv ==
    /\ ~cutOff => attempts <= 1
    /\ attempts > 0 /\ ~cutOff => report = "marking" \/ Marked

TriedInv ==
    quiet /\ slot \in Window /\ looked /\ report = "asleep" => attempts > 0

ReportInv == TaskInv /\ KeyInv /\ OnceInv /\ TriedInv

IInv == TypeOK /\ QueueInv /\ BeatInv /\ ReportInv

-----------------------------------------------------------------------------
(* Sequences *)

LEMMA AppendSorted ==
    ASSUME NEW s \in Seq(Int), NEW e \in Int, Sorted(s),
           \A i \in DOMAIN s : s[i] < e
    PROVE  Sorted(Append(s, e))
BY DEF Sorted

LEMMA TailSorted ==
    ASSUME NEW s \in Seq(Int), s # <<>>, Sorted(s)
    PROVE  /\ Sorted(Tail(s))
           /\ \A j \in DOMAIN Tail(s) : Head(s) < Tail(s)[j] /\ j + 1 \in DOMAIN s
                                         /\ Tail(s)[j] = s[j + 1]
BY DEF Sorted

-----------------------------------------------------------------------------
(* Types *)

LEMMA QueueTypes ==
    ASSUME WorkerTypeOK, [Next]_vars
    PROVE  /\ emitted' \in 0..MaxEvents
           /\ inbox' \in Seq(Events) /\ posts' \in Seq(Events)
<1>t. /\ emitted \in 0..MaxEvents /\ inbox \in Seq(Events) /\ posts \in Seq(Events)
      /\ <<>> \in Seq(Events)
    BY DEF WorkerTypeOK
<1>1. CASE Emit
    <2>1. emitted + 1 \in Events /\ emitted + 1 \in 0..MaxEvents
        BY <1>t, <1>1, WorkerAssumption DEF Emit, Events
    <2> QED BY <1>t, <1>1, <2>1 DEF Emit
<1>2. CASE Dispatch
    BY <1>t, <1>2 DEF Dispatch
<1>3. CASE UNCHANGED <<emitted, posts>> /\ inbox' \in {inbox, <<>>}
    BY <1>t, <1>3
<1> QED
    BY <1>1, <1>2, <1>3
    DEF Next, WorkerNext, SubscriptionStep, Subscribe, SubscribeFails, ListenFails,
        Reconnect, Retry, DispatchEnds, Beat, Tick, Stop, WorkerStops, Start,
        WorkerStarts, LoseRedis, WorkerLosesRedis, RegainRedis, vars, workerVars,
        queueVars

(* The week goes round. *)
LEMMA NextSlot ==
    ASSUME NEW s \in 0..WeekSlots - 1
    PROVE  /\ (s + 1) % WeekSlots = IF s + 1 = WeekSlots THEN 0 ELSE s + 1
           /\ (s + 1) % WeekSlots \in 0..WeekSlots - 1
BY ReportAssumption, SMTT(30)

LEMMA ClockEffect ==
    ASSUME Clock
    PROVE  /\ report \in {"off", "asleep"} /\ report' = report
           /\ looked' = FALSE
           /\ expiresIn' = IF expiresIn > 0 THEN expiresIn - 1 ELSE 0
           /\ lastSent' = IF expiresIn > 1 THEN lastSent ELSE NoDate
           /\ slot' = 0 => /\ monday' = 1 - monday /\ attempts' = 0 /\ posted' = 0
                           /\ cutOff' = FALSE
           /\ slot' # 0 => UNCHANGED <<monday, attempts, posted, cutOff>>
BY DEF Clock

LEMMA TypeStep == TypeOK /\ [Next]_vars => TypeOK'
<1> SUFFICES ASSUME TypeOK, [Next]_vars PROVE TypeOK'
    OBVIOUS
<1>q. emitted' \in 0..MaxEvents /\ inbox' \in Seq(Events) /\ posts' \in Seq(Events)
    BY QueueTypes DEF TypeOK
<1> USE DEF HeartbeatInterval, HeartbeatTTL, KeyLife, NoDate
<1>w. ASSUME UNCHANGED lifeVars,
             WorkerNext \/ UNCHANGED workerVars
      PROVE  WorkerTypeOK'
    <2>0. /\ serverUp' \in BOOLEAN /\ redisUp' \in BOOLEAN
          /\ subscribed \in BOOLEAN /\ beatIn \in 0..1 /\ age \in 0..3 /\ calm \in 0..2
          /\ worker \in {"off", "subscribe", "listen", "post", "backoff"}
        BY <1>w DEF TypeOK, WorkerTypeOK, lifeVars
    <2>1. worker' \in {"off", "subscribe", "listen", "post", "backoff"} /\ subscribed' \in BOOLEAN
        BY <2>0, <1>w
        DEF WorkerNext, SubscriptionStep, Emit, Subscribe, SubscribeFails, ListenFails,
            Reconnect, Retry, Dispatch, DispatchEnds, Beat, Tick, workerVars, queueVars,
            AfterCrash
    <2>2. beatIn' \in 0..1 /\ age' \in 0..3 /\ calm' \in 0..2
        BY <2>0, <1>w
        DEF WorkerNext, SubscriptionStep, Emit, Subscribe, SubscribeFails, ListenFails,
            Reconnect, Retry, Dispatch, DispatchEnds, Beat, Tick, workerVars, beatVars,
            SleepAfterBeat
    <2> QED BY <1>q, <2>0, <2>1, <2>2 DEF WorkerTypeOK
<1>r. ASSUME UNCHANGED lifeVars,
             ReportNext \/ UNCHANGED reportVars
      PROVE  ReportTypeOK'
    <2> USE DEF TypeOK, ReportTypeOK, lifeVars, clockVars, keyVars
    <2>1. CASE Look
        BY <2>1, <1>r DEF Look, AfterError
    <2>2. CASE SendWeeklyReport
        BY <2>2, <1>r DEF SendWeeklyReport, Counted
    <2>3. CASE MarkSent
        BY <2>3, <1>r DEF MarkSent, AfterError
    <2>4. CASE Clock
        <3>1. slot' \in 0..WeekSlots - 1
            BY <2>4, NextSlot DEF Clock
        <3>2. quiet' \in BOOLEAN /\ looked' \in BOOLEAN
            BY <2>4 DEF Clock, Up
        <3>3. CASE slot' = 0
            BY <3>1, <3>2, <3>3, <2>4, <1>r, ClockEffect
        <3>4. CASE slot' # 0
            BY <3>1, <3>2, <3>4, <2>4, <1>r, ClockEffect
        <3> QED BY <3>3, <3>4
    <2>5. CASE UNCHANGED reportVars
        BY <2>5, <1>r DEF reportVars
    <2> QED BY <2>1, <2>2, <2>3, <2>4, <2>5, <1>r DEF ReportNext, ReportTask
<1>1. CASE WorkerNext /\ UNCHANGED <<lifeVars, reportVars>>
    BY <1>1, <1>w, <1>r DEF TypeOK
<1>2. CASE ReportNext /\ UNCHANGED <<lifeVars, workerVars>>
    BY <1>2, <1>w, <1>r DEF TypeOK
<1>o. ASSUME serverUp' \in BOOLEAN, redisUp' \in BOOLEAN, subscribed' \in BOOLEAN,
             worker' \in {"off", "subscribe", "listen", "post", "backoff"},
             beatIn' \in 0..1, age' \in 0..3, calm' \in 0..2
      PROVE  WorkerTypeOK'
    BY <1>q, <1>o DEF WorkerTypeOK
<1>v. /\ serverUp \in BOOLEAN /\ redisUp \in BOOLEAN /\ subscribed \in BOOLEAN
      /\ worker \in {"off", "subscribe", "listen", "post", "backoff"}
      /\ beatIn \in 0..1 /\ age \in 0..3 /\ calm \in 0..2
    BY DEF TypeOK, WorkerTypeOK
<1>3. CASE Stop
    <2>1. WorkerTypeOK'
        <3>1. serverUp' \in BOOLEAN /\ redisUp' \in BOOLEAN /\ subscribed' \in BOOLEAN
            BY <1>v, <1>3, Zenon DEF Stop, WorkerStops
        <3>2. worker' = "off" /\ beatIn' = beatIn /\ age' = age /\ calm' = 0
            BY <1>3 DEF Stop, WorkerStops
        <3> QED BY <1>o, <1>v, <3>1, <3>2
    <2>2. cutOff' \in BOOLEAN
        BY <1>3, Zenon DEF Stop, ReportStops
    <2>3. ReportTypeOK'
        BY <1>v, <1>3, <2>2 DEF Stop, ReportStops, TypeOK, ReportTypeOK, clockVars, keyVars
    <2> QED BY <2>1, <2>3 DEF TypeOK
<1>4. CASE Start
    <2>1. WorkerTypeOK'
        BY <1>o, <1>v, <1>4 DEF Start, WorkerStarts
    <2>2. ReportTypeOK'
        BY <1>v, <1>4 DEF Start, ReportStarts, TypeOK, ReportTypeOK, clockVars, keyVars
    <2> QED BY <2>1, <2>2 DEF TypeOK
<1>5. CASE LoseRedis
    <2>1. WorkerTypeOK'
        <3>1. serverUp' \in BOOLEAN /\ redisUp' \in BOOLEAN /\ subscribed' \in BOOLEAN
            BY <1>v, <1>5, Zenon DEF LoseRedis, WorkerLosesRedis
        <3>2. worker' = worker /\ beatIn' = beatIn /\ age' \in {age, 3} /\ calm' = 0
            BY <1>5 DEF LoseRedis, WorkerLosesRedis
        <3> QED BY <1>o, <1>v, <3>1, <3>2
    <2>2. ReportTypeOK'
        <3>1. /\ serverUp' \in BOOLEAN /\ redisUp' \in BOOLEAN
              /\ looked' \in BOOLEAN /\ quiet' \in BOOLEAN /\ cutOff' \in BOOLEAN
            BY <1>v, <1>5, Zenon DEF LoseRedis, ReportLosesRedis, TypeOK, ReportTypeOK, clockVars,
                                     keyVars
        <3>2. /\ lastSent' \in {lastSent, 2} /\ expiresIn' \in {expiresIn, 0}
              /\ slot' = slot /\ monday' = monday /\ report' = report
              /\ attempts' = attempts /\ posted' = posted
            BY <1>5 DEF LoseRedis, ReportLosesRedis, clockVars, keyVars
        <3> QED BY <3>1, <3>2 DEF TypeOK, ReportTypeOK
    <2> QED BY <2>1, <2>2 DEF TypeOK
<1>6. CASE RegainRedis
    BY <1>q, <1>6 DEF RegainRedis, TypeOK, WorkerTypeOK, ReportTypeOK, workerVars, queueVars,
                      beatVars, reportVars, clockVars, keyVars
<1>7. CASE UNCHANGED vars
    BY <1>7, <1>w, <1>r DEF vars, TypeOK
<1> QED BY <1>1, <1>2, <1>3, <1>4, <1>5, <1>6, <1>7 DEF Next

-----------------------------------------------------------------------------
(* The queue *)

LEMMA QueueStep == TypeOK /\ QueueInv /\ [Next]_vars => QueueInv'
<1> SUFFICES ASSUME TypeOK, QueueInv, [Next]_vars PROVE QueueInv'
    OBVIOUS
<1>t. /\ emitted \in Int /\ inbox \in Seq(Int) /\ posts \in Seq(Int)
    BY WorkerAssumption DEF TypeOK, WorkerTypeOK, Events
<1>c. CASE UNCHANGED <<emitted, posts>> /\ inbox' = <<>>
    BY <1>c DEF QueueInv, Sorted
<1>1. CASE Emit
    <2>1. CASE inbox' = inbox
        BY <2>1, <1>1, <1>t DEF QueueInv, Emit, Sorted
    <2>2. CASE inbox' = Append(inbox, emitted + 1)
        <3>1. Sorted(inbox')
            BY <2>2, <1>t, AppendSorted DEF QueueInv
        <3>2. \A j \in DOMAIN inbox' : inbox'[j] <= emitted + 1
            BY <2>2, <1>t DEF QueueInv
        <3>3. \A i \in DOMAIN posts, j \in DOMAIN inbox' : posts[i] < inbox'[j]
            BY <2>2, <1>t DEF QueueInv
        <3>4. \A i \in DOMAIN posts : posts[i] <= emitted + 1
            BY <1>t DEF QueueInv
        <3> QED BY <3>1, <3>2, <3>3, <3>4, <1>1 DEF QueueInv, Emit
    <2> QED BY <2>1, <2>2, <1>1 DEF Emit
<1>2. CASE Dispatch
    <2>0. inbox # <<>> /\ Head(inbox) \in Int /\ Head(inbox) = inbox[1] /\ 1 \in DOMAIN inbox
        BY <1>2, <1>t DEF Dispatch
    <2>1. Sorted(posts')
        BY <2>0, <1>2, <1>t, AppendSorted DEF Dispatch, QueueInv
    <2>2. /\ Sorted(inbox')
          /\ \A j \in DOMAIN inbox' : Head(inbox) < inbox'[j] /\ j + 1 \in DOMAIN inbox
                                      /\ inbox'[j] = inbox[j + 1]
        BY <2>0, <1>2, <1>t, TailSorted DEF Dispatch, QueueInv
    <2>3. \A i \in DOMAIN posts' : posts'[i] = Head(inbox) \/ (i \in DOMAIN posts /\ posts'[i] = posts[i])
        BY <2>0, <1>2, <1>t DEF Dispatch
    <2>4. emitted' = emitted
        BY <1>2 DEF Dispatch
    <2> QED BY <2>0, <2>1, <2>2, <2>3, <2>4 DEF QueueInv
<1>e. CASE UNCHANGED <<emitted, posts, inbox>>
    BY <1>e DEF QueueInv, Sorted
<1>3. CASE WorkerLosesRedis
    BY <1>3, <1>e, <1>c DEF WorkerLosesRedis
<1> QED
    BY <1>e, <1>c, <1>1, <1>2, <1>3
    DEF Next, WorkerNext, SubscriptionStep, Subscribe, SubscribeFails, ListenFails,
        Reconnect, Retry, DispatchEnds, Beat, Tick, Stop, WorkerStops, Start,
        WorkerStarts, LoseRedis, RegainRedis, vars, workerVars, queueVars

-----------------------------------------------------------------------------
(* The heartbeat *)

LEMMA BeatStep == TypeOK /\ BeatInv /\ [Next]_vars => BeatInv'
<1> SUFFICES ASSUME TypeOK, BeatInv, [Next]_vars PROVE BeatInv'
    OBVIOUS
<1> USE DEF TypeOK, WorkerTypeOK, BeatInv, FreshFor, HeartbeatInterval, HeartbeatTTL, Up
<1>u. CASE UNCHANGED <<beatVars, lifeVars>>
    BY <1>u DEF beatVars, lifeVars
<1>1. CASE Beat /\ UNCHANGED lifeVars
    BY <1>1 DEF Beat, SleepAfterBeat, lifeVars
<1>2. CASE Tick /\ UNCHANGED lifeVars
    BY <1>2 DEF Tick, lifeVars
<1>3. CASE Stop \/ LoseRedis
    BY <1>3 DEF Stop, WorkerStops, LoseRedis, WorkerLosesRedis
<1>4. CASE Start \/ RegainRedis
    BY <1>4 DEF Start, WorkerStarts, RegainRedis, workerVars, beatVars
<1> QED
    BY <1>u, <1>1, <1>2, <1>3, <1>4
    DEF Next, WorkerNext, SubscriptionStep, Emit, Subscribe, SubscribeFails, ListenFails,
        Reconnect, Retry, Dispatch, DispatchEnds, vars, workerVars, beatVars

-----------------------------------------------------------------------------
(* The report *)

LEMMA ReportStep == TypeOK /\ ReportInv /\ [Next]_vars => ReportInv'
<1> SUFFICES ASSUME TypeOK, ReportInv, [Next]_vars PROVE ReportInv'
    OBVIOUS
<1> USE ReportAssumption
    DEF TypeOK, ReportTypeOK, WorkerTypeOK, ReportInv, TaskInv, KeyInv, OnceInv, TriedInv, Marked, Up,
        Window, NoDate, KeyLife, clockVars, keyVars, lifeVars
<1>u. CASE UNCHANGED <<reportVars, lifeVars>>
    BY <1>u DEF reportVars
<1>1. CASE Look /\ UNCHANGED lifeVars
    BY <1>1 DEF Look, Due, AfterError
<1>2. CASE SendWeeklyReport /\ UNCHANGED lifeVars
    BY <1>2 DEF SendWeeklyReport, Counted
<1>3. CASE MarkSent /\ UNCHANGED lifeVars
    <2>1. cutOff' \in BOOLEAN /\ (~cutOff' => ~cutOff /\ redisUp)
        BY <1>3, Zenon DEF MarkSent
    <2>2. CASE redisUp
        BY <1>3, <2>1, <2>2 DEF MarkSent, AfterError
    <2>3. CASE ~redisUp
        BY <1>3, <2>1, <2>3 DEF MarkSent, AfterError
    <2> QED BY <2>2, <2>3
<1>4. CASE Clock /\ UNCHANGED lifeVars
    <2>1. slot' = (IF slot + 1 = WeekSlots THEN 0 ELSE slot + 1)
        BY <1>4, NextSlot DEF Clock
    <2>2. serverUp' = serverUp /\ redisUp' = redisUp /\ (quiet' => serverUp /\ redisUp)
        BY <1>4 DEF Clock
    <2>3. CASE slot' = 0
        <3>1. /\ attempts' = 0 /\ posted' = 0 /\ cutOff' = FALSE /\ looked' = FALSE
              /\ report' = report /\ report \in {"off", "asleep"}
            BY <1>4, <2>3, ClockEffect
        <3>2. /\ monday' = 1 - monday
              /\ expiresIn' = IF expiresIn > 0 THEN expiresIn - 1 ELSE 0
              /\ lastSent' = IF expiresIn > 1 THEN lastSent ELSE NoDate
            BY <1>4, <2>3, ClockEffect
        <3>3. slot >= 3
            BY <2>1, <2>3
        <3>4. TaskInv'
            BY <2>2, <2>3, <3>1
        <3>5. KeyInv'
            BY <2>3, <3>2, <3>3
        <3>6. OnceInv' /\ TriedInv'
            BY <2>3, <3>1
        <3> QED BY <3>4, <3>5, <3>6
    <2>4. CASE slot' # 0
        BY <1>4, <2>1, <2>2, <2>4, ClockEffect
    <2> QED BY <2>3, <2>4
<1>5. CASE Stop
    BY <1>5 DEF Stop, ReportStops
<1>6. CASE Start
    BY <1>6 DEF Start, ReportStarts
<1>7. CASE LoseRedis
    BY <1>7 DEF LoseRedis, ReportLosesRedis
<1>8. CASE RegainRedis
    BY <1>8 DEF RegainRedis, reportVars
<1> QED
    BY <1>u, <1>1, <1>2, <1>3, <1>4, <1>5, <1>6, <1>7, <1>8
    DEF Next, ReportNext, ReportTask, vars

-----------------------------------------------------------------------------
(* The theorems *)

(* The invariant holds through all stops, starts and outages. *)
THEOREM BackgroundInvariant == Spec => []IInv
<1>1. Init => IInv
    <2> SUFFICES ASSUME Init PROVE IInv
        OBVIOUS
    <2>1. TypeOK
        <3>1. inbox \in Seq(Events) /\ posts \in Seq(Events)
            BY DEF Init, WorkerInit
        <3>b. /\ serverUp \in BOOLEAN /\ redisUp \in BOOLEAN /\ subscribed \in BOOLEAN
              /\ looked \in BOOLEAN /\ quiet \in BOOLEAN /\ cutOff \in BOOLEAN
            BY Zenon DEF Init, WorkerInit, ReportInit
        <3>2. WorkerTypeOK
            BY <3>1, <3>b, WorkerAssumption
            DEF Init, WorkerInit, WorkerTypeOK, HeartbeatInterval, HeartbeatTTL
        <3>3. ReportTypeOK
            BY <3>b DEF Init, ReportInit, ReportTypeOK, NoDate, KeyLife
        <3> QED BY <3>2, <3>3 DEF TypeOK
    <2>2. QueueInv
        BY DEF Init, WorkerInit, QueueInv, Sorted
    <2>3. BeatInv
        BY DEF Init, WorkerInit, BeatInv
    <2>4. ReportInv
        BY DEF Init, ReportInit, ReportInv, TaskInv, KeyInv, OnceInv, TriedInv, NoDate
    <2> QED BY <2>1, <2>2, <2>3, <2>4 DEF IInv
<1>2. IInv /\ [Next]_vars => IInv'
    BY TypeStep, QueueStep, BeatStep, ReportStep DEF IInv
<1> QED BY <1>1, <1>2, PTL DEF Spec

(* The tasks' variables stay within their types.                            *)
THEOREM TypeCorrect == Spec => []TypeOK
<1>1. IInv => TypeOK
    BY DEF IInv
<1> QED BY <1>1, BackgroundInvariant, PTL

(* No notification (event_router.py) is posted twice or out of order,       *)
(* however often the worker reconnects or the server restarts.             *)
THEOREM PostsAreOrdered == Spec => []PostedOnceInOrder
<1>1. IInv => PostedOnceInOrder
    BY DEF IInv, QueueInv, Sorted, PostedOnceInOrder
<1> QED BY <1>1, BackgroundInvariant, PTL

(* The heartbeat's interval and TTL and the age limit of /health fit: an    *)
(* interval after the last outage the worker counts as healthy and goes on  *)
(* to.                                                                      *)
THEOREM NoFalseAlarm == Spec => []QuietServersAreHealthy
<1>1. IInv => QuietServersAreHealthy
    BY DEF IInv, BeatInv, QuietServersAreHealthy, WorkerCheck, Up, TypeOK, WorkerTypeOK,
           HeartbeatInterval, HeartbeatTTL, FreshFor
<1> QED BY <1>1, BackgroundInvariant, PTL

(* The weekly report is posted once a Monday, unless its key was not set or *)
(* lost at once.                                                            *)
THEOREM ReportsOnce == Spec => []OneReport
<1>1. IInv => OneReport
    BY DEF IInv, ReportInv, TaskInv, OnceInv, OneReport, TypeOK, ReportTypeOK
<1> QED BY <1>1, BackgroundInvariant, PTL

(* A Monday without an outage does not pass without a report being tried.   *)
THEOREM ReportsEveryMonday == Spec => MondaysAreTried
<1>1. ASSUME IInv, [Next]_vars
      PROVE  [quiet /\ slot \in Window /\ slot' \notin Window => attempts > 0]_reportVars
    <2> SUFFICES ASSUME quiet, slot \in Window, slot' \notin Window
                 PROVE  attempts > 0
        OBVIOUS
    <2>1. Clock
        BY <1>1
        DEF Next, WorkerNext, SubscriptionStep, ReportNext, ReportTask, Look,
            SendWeeklyReport, MarkSent, Stop, ReportStops, Start, ReportStarts, LoseRedis,
            ReportLosesRedis, RegainRedis, vars, reportVars, clockVars
    <2>2. report = "asleep" /\ looked
        BY <2>1, <1>1 DEF Clock, IInv, ReportInv, TaskInv, Up
    <2> QED BY <2>2, <1>1 DEF IInv, ReportInv, TriedInv
<1> QED BY <1>1, BackgroundInvariant, PTL DEF Spec, MondaysAreTried
-----------------------------------------------------------------------------
(* What the worker's connection has heard *)

(* Forwarded to the connection and not dropped from it: posted, or next. *)
Known(e) ==
    \/ \E i \in DOMAIN posts : posts[i] = e
    \/ \E j \in DOMAIN inbox : inbox[j] = e

(* Redis forwards only to a worker that is there and past its subscription. *)
LinkInv ==
    /\ subscribed => Up /\ worker \in {"listen", "post"}
    /\ worker = "off" <=> ~serverUp

Keeps(e) == Known(e) \/ (emitted < e /\ e <= emitted') => Known(e)'

NothingDrops == subscribed /\ subscribed' => \A e \in Events : Keeps(e)

(* From one step to the next on one subscription no event is lost: what was *)
(* heard stays queued or posted, and what is emitted is heard.  With        *)
(* PostedOnceInOrder, a worker that stays connected posts every event, once *)
(* and in order (_subscribe_loop, _dispatch).                               *)
ConnectedWorkersMissNothing == [][NothingDrops]_vars

LEMMA LinkStep == TypeOK /\ LinkInv /\ [Next]_vars => LinkInv'
<1> SUFFICES ASSUME TypeOK, LinkInv, [Next]_vars PROVE LinkInv'
    OBVIOUS
<1> USE DEF LinkInv, Up
<1>1. CASE UNCHANGED lifeVars /\ UNCHANGED <<worker, subscribed>>
    BY <1>1 DEF lifeVars
<1>2. CASE SubscriptionStep /\ UNCHANGED lifeVars
    BY <1>2 DEF SubscriptionStep, Subscribe, SubscribeFails, ListenFails, Reconnect, Retry,
                Dispatch, DispatchEnds, AfterCrash, lifeVars
<1>3. CASE Stop
    BY <1>3 DEF Stop, WorkerStops
<1>4. CASE Start
    BY <1>4 DEF Start, WorkerStarts
<1>5. CASE LoseRedis
    BY <1>5 DEF LoseRedis, WorkerLosesRedis
<1>6. CASE RegainRedis
    BY <1>6 DEF RegainRedis, workerVars, queueVars
<1> QED
    BY <1>1, <1>2, <1>3, <1>4, <1>5, <1>6
    DEF Next, WorkerNext, Emit, Beat, Tick, vars, workerVars, queueVars

LEMMA EmitKeeps ==
    ASSUME TypeOK, LinkInv, Emit, subscribed, NEW e \in Events
    PROVE  Keeps(e)
<1>1. inbox \in Seq(Int) /\ emitted \in Int /\ e \in Int
    BY WorkerAssumption DEF TypeOK, WorkerTypeOK, Events
<1>2. inbox' = Append(inbox, emitted + 1) /\ posts' = posts /\ emitted' = emitted + 1
    BY DEF Emit, LinkInv, Up
<1>3. \A j \in DOMAIN inbox : j \in DOMAIN inbox' /\ inbox'[j] = inbox[j]
    BY <1>1, <1>2
<1>4. \E j \in DOMAIN inbox' : inbox'[j] = emitted + 1
    <2>1. Len(inbox) + 1 \in DOMAIN inbox' /\ inbox'[Len(inbox) + 1] = emitted + 1
        BY <1>1, <1>2
    <2> QED BY <2>1
<1>5. emitted < e /\ e <= emitted' => e = emitted + 1
    BY <1>1, <1>2
<1> QED BY <1>2, <1>3, <1>4, <1>5 DEF Keeps, Known

LEMMA DispatchKeeps ==
    ASSUME TypeOK, Dispatch, NEW e \in Events
    PROVE  Keeps(e)
<1>1. inbox \in Seq(Int) /\ posts \in Seq(Int) /\ inbox # <<>> /\ emitted \in Int /\ e \in Int
    BY WorkerAssumption DEF TypeOK, WorkerTypeOK, Events, Dispatch
<1>2. posts' = Append(posts, Head(inbox)) /\ inbox' = Tail(inbox) /\ emitted' = emitted
    BY DEF Dispatch
<1>3. \A i \in DOMAIN posts : i \in DOMAIN posts' /\ posts'[i] = posts[i]
    BY <1>1, <1>2
<1>4. Len(posts) + 1 \in DOMAIN posts' /\ posts'[Len(posts) + 1] = inbox[1]
    BY <1>1, <1>2
<1>5. ASSUME NEW j \in DOMAIN inbox, j # 1
      PROVE  j - 1 \in DOMAIN inbox' /\ inbox'[j - 1] = inbox[j]
    BY <1>1, <1>2, <1>5
<1>6. ~(emitted < e /\ e <= emitted')
    BY <1>1, <1>2
<1> QED BY <1>3, <1>4, <1>5, <1>6 DEF Keeps, Known

(* A step on a standing subscription leaves the queue alone, or is one of two. *)
LEMMA StandingSteps ==
    ASSUME TypeOK, LinkInv, [Next]_vars, subscribed, subscribed'
    PROVE  Emit \/ Dispatch \/ UNCHANGED <<emitted, inbox, posts>>
BY DEF Next, WorkerNext, SubscriptionStep, Subscribe, SubscribeFails, ListenFails, Reconnect,
       Retry, DispatchEnds, Beat, Tick, Stop, WorkerStops, Start, WorkerStarts, LoseRedis,
       WorkerLosesRedis, RegainRedis, vars, workerVars, queueVars, LinkInv, Up

(* On one subscription nothing is lost between emitting and posting, for    *)
(* any number of events and whatever Slack answers.                         *)
THEOREM SubscriptionsLoseNothing == Spec => ConnectedWorkersMissNothing
<1>1. Init => LinkInv
    BY DEF Init, WorkerInit, LinkInv
<1>2. TypeOK /\ LinkInv /\ [Next]_vars => [NothingDrops]_vars
    <2> SUFFICES ASSUME TypeOK, LinkInv, [Next]_vars, subscribed, subscribed', NEW e \in Events
                 PROVE  Keeps(e)
        BY DEF NothingDrops
    <2>1. CASE UNCHANGED <<emitted, inbox, posts>>
        <3>1. emitted \in Int /\ e \in Int
            BY WorkerAssumption DEF TypeOK, WorkerTypeOK, Events
        <3> QED BY <2>1, <3>1 DEF Keeps, Known
    <2> QED BY <2>1, StandingSteps, EmitKeeps, DispatchKeeps
<1> QED
    BY <1>1, <1>2, LinkStep, TypeCorrect, PTL DEF Spec, ConnectedWorkersMissNothing
=============================================================================
