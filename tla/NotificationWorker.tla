------------------------- MODULE NotificationWorker -------------------------
(***************************************************************************)
(* Slack notifications (app/services/event_router.py): tasks of the server *)
(* publish events to a Redis channel, the worker subscribes to it, posts   *)
(* them to Slack one at a time, and returns after failures; beside it a    *)
(* heartbeat is stored, from which /health judges the worker.              *)
(*                                                                         *)
(* Time runs in steps of HEARTBEAT_INTERVAL, 300 s.  Events are numbered   *)
(* in the order they are emitted.  Whether Slack takes a post is left out: *)
(* the worker goes on in the same way and never posts an event again.      *)
(***************************************************************************)
EXTENDS ServerLife, Integers, SequencesExt

CONSTANT MaxEvents  \* bounds the number of events

ASSUME WorkerAssumption == MaxEvents \in Nat

VARIABLES
    emitted,     \* number of events emitted so far
    subscribed,  \* Redis forwards the channel to the worker's connection
    inbox,       \* events forwarded and not yet read
    posts,       \* events posted to Slack, in order
    worker,      \* where the subscription task is
    beatIn,      \* time until the heartbeat loop wakes up
    age,         \* age of the heartbeat key, HeartbeatTTL when it is gone
    calm         \* time since the server or Redis was last away

queueVars == <<emitted, subscribed, inbox, posts, worker>>
beatVars == <<beatIn, age, calm>>
workerVars == <<queueVars, beatVars>>

HeartbeatInterval == 1
HeartbeatTTL == 3   \* 700 s
FreshFor == 2       \* 600 s

Events == 1..MaxEvents

WorkerTypeOK ==
    /\ serverUp \in BOOLEAN /\ redisUp \in BOOLEAN
    /\ emitted \in 0..MaxEvents
    /\ subscribed \in BOOLEAN
    /\ inbox \in Seq(Events) /\ posts \in Seq(Events)
    /\ worker \in {"off", "subscribe", "listen", "post", "backoff"}
    /\ beatIn \in 0..HeartbeatInterval
    /\ age \in 0..HeartbeatTTL
    /\ calm \in 0..HeartbeatInterval + 1

WorkerInit ==
    /\ emitted = 0 /\ subscribed = FALSE
    /\ inbox = <<>> /\ posts = <<>>
    /\ worker = "subscribe"
    /\ beatIn = 0 /\ age = HeartbeatTTL /\ calm = 0

-----------------------------------------------------------------------------
(* The channel *)

(* A node of some run emits.  A failing publish is logged and dropped, and *)
(* so is an event nobody listens to.                                       *)
Emit ==
    /\ serverUp /\ emitted < MaxEvents
    /\ emitted' = emitted + 1
    /\ inbox' = IF redisUp /\ subscribed THEN Append(inbox, emitted + 1) ELSE inbox
    /\ UNCHANGED <<subscribed, posts, worker, beatVars>>

Subscribe ==
    /\ worker = "subscribe" /\ redisUp
    /\ worker' = "listen" /\ subscribed' = TRUE /\ inbox' = <<>>
    /\ UNCHANGED <<emitted, posts, beatVars>>

(* Faulty variant: a failure of the connection ends the task. *)
AfterCrashEnded == "off"

AfterCrash == "backoff"

SubscribeFails ==
    /\ worker = "subscribe" /\ ~redisUp
    /\ worker' = AfterCrash
    /\ UNCHANGED <<emitted, subscribed, inbox, posts, beatVars>>

(* listen() raises on the lost connection; what was not read goes with it. *)
ListenFails ==
    /\ worker = "listen" /\ ~subscribed
    /\ worker' = AfterCrash /\ inbox' = <<>>
    /\ UNCHANGED <<emitted, subscribed, posts, beatVars>>

(* The Redis library may also restore the connection by itself. *)
Reconnect ==
    /\ worker = "listen" /\ ~subscribed /\ redisUp
    /\ subscribed' = TRUE /\ inbox' = <<>>
    /\ UNCHANGED <<emitted, posts, worker, beatVars>>

Retry ==
    /\ worker = "backoff"
    /\ worker' = "subscribe"
    /\ UNCHANGED <<emitted, subscribed, inbox, posts, beatVars>>

(* The next message is read and posted to Slack. *)
Dispatch ==
    /\ worker = "listen" /\ inbox # <<>>
    /\ posts' = Append(posts, Head(inbox))
    /\ inbox' = Tail(inbox)
    /\ worker' = "post"
    /\ UNCHANGED <<emitted, subscribed, beatVars>>

(* Faulty variants: an event Slack refused is queued again; an error while *)
(* posting leaves the subscription.                                        *)
DispatchEndsRequeued ==
    /\ worker = "post"
    /\ worker' = "listen"
    /\ inbox' \in {inbox, Append(inbox, Last(posts))}
    /\ UNCHANGED <<emitted, subscribed, posts, beatVars>>
DispatchEndsLeaving ==
    /\ worker = "post"
    /\ worker' = "subscribe" /\ subscribed' = FALSE /\ inbox' = <<>>
    /\ UNCHANGED <<emitted, posts, beatVars>>

(* Slack answered, refused or timed out: the loop goes on. *)
DispatchEnds ==
    /\ worker = "post"
    /\ worker' = "listen"
    /\ UNCHANGED <<emitted, subscribed, inbox, posts, beatVars>>

-----------------------------------------------------------------------------
(* The heartbeat *)

(* Faulty variant: a failed pulse is not followed by the usual sleep alone. *)
SleepAfterBeatLonger == IF redisUp THEN HeartbeatInterval ELSE HeartbeatTTL

SleepAfterBeat == HeartbeatInterval

Beat ==
    /\ serverUp /\ beatIn = 0
    /\ age' = IF redisUp THEN 0 ELSE age
    /\ beatIn' = SleepAfterBeat
    /\ UNCHANGED <<queueVars, calm>>

(* The loop is prompt: no step of time passes it while it is due. *)
Tick ==
    /\ ~(serverUp /\ beatIn = 0)
    /\ beatIn' = IF beatIn > 0 THEN beatIn - 1 ELSE 0
    /\ age' = IF age < HeartbeatTTL THEN age + 1 ELSE age
    /\ calm' = IF Up /\ calm <= HeartbeatInterval THEN calm + 1 ELSE calm
    /\ UNCHANGED queueVars

(* GET /health *)
WorkerCheck ==
    IF ~redisUp THEN "error"
    ELSE IF age = HeartbeatTTL THEN "not_started"
    ELSE IF age < FreshFor THEN "ok" ELSE "stale"

-----------------------------------------------------------------------------
(* What happens to the worker when its server or Redis goes and comes. *)

WorkerStops ==
    /\ worker' = "off" /\ subscribed' = FALSE /\ inbox' = <<>> /\ calm' = 0
    /\ UNCHANGED <<emitted, posts, beatIn, age>>

WorkerStarts ==
    /\ worker' = "subscribe" /\ beatIn' = 0
    /\ UNCHANGED <<emitted, subscribed, inbox, posts, age, calm>>

(* What the worker's connection has received already may still be read; the *)
(* heartbeat key survives or not.                                            *)
WorkerLosesRedis ==
    /\ subscribed' = FALSE /\ inbox' \in {inbox, <<>>}
    /\ age' \in {age, HeartbeatTTL} /\ calm' = 0
    /\ UNCHANGED <<emitted, posts, worker, beatIn>>

SubscriptionStep ==
    Subscribe \/ SubscribeFails \/ ListenFails \/ Reconnect \/ Retry \/ Dispatch
    \/ DispatchEnds

WorkerNext == Emit \/ SubscriptionStep \/ Beat \/ Tick

-----------------------------------------------------------------------------
(* Properties *)

(* No event is posted twice or before an earlier one, across reconnections  *)
(* and restarts: what an operator sees in Slack is the order the runs went. *)
PostedOnceInOrder == \A i, j \in DOMAIN posts : i < j => posts[i] < posts[j]

(* /health calls the worker healthy whenever server and Redis have been    *)
(* there for more than one interval: interval, age limit and TTL fit each   *)
(* other, and no earlier outage leaves a false alarm behind.                *)
QuietServersAreHealthy == calm > HeartbeatInterval => WorkerCheck = "ok"

(* The worker finds back to its channel after any outages and restarts.     *)
WorkerReturns == <>[]Up => <>[]subscribed

(* An event that reached a subscribed worker is posted, unless the server   *)
(* or Redis goes away meanwhile: an error with one event, or a slow post,  *)
(* never costs another.                                                     *)
HeardIsPosted ==
    \A e \in Events :
        (subscribed /\ Contains(inbox, e)) ~> (Contains(posts, e) \/ ~Up)
=============================================================================
