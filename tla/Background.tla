----------------------------- MODULE Background -----------------------------
(***************************************************************************)
(* The background tasks the server runs beside its requests (the lifespan  *)
(* of app/main.py): notification worker and weekly report, through stops   *)
(* and starts of the server and outages of Redis.  They share nothing      *)
(* else; each has a clock of its own.                                      *)
(***************************************************************************)
EXTENDS NotificationWorker, WeeklyReport

vars == <<lifeVars, workerVars, reportVars>>

TypeOK == WorkerTypeOK /\ ReportTypeOK

Init == serverUp = TRUE /\ redisUp = TRUE /\ WorkerInit /\ ReportInit

Stop ==
    /\ serverUp /\ serverUp' = FALSE
    /\ WorkerStops /\ ReportStops
    /\ UNCHANGED redisUp

Start ==
    /\ ~serverUp /\ serverUp' = TRUE
    /\ WorkerStarts /\ ReportStarts
    /\ UNCHANGED redisUp

LoseRedis ==
    /\ redisUp /\ redisUp' = FALSE
    /\ WorkerLosesRedis /\ ReportLosesRedis
    /\ UNCHANGED serverUp

RegainRedis ==
    /\ ~redisUp /\ redisUp' = TRUE
    /\ UNCHANGED <<serverUp, workerVars, reportVars>>

Next ==
    \/ WorkerNext /\ UNCHANGED <<lifeVars, reportVars>>
    \/ ReportNext /\ UNCHANGED <<lifeVars, workerVars>>
    \/ Stop \/ Start \/ LoseRedis \/ RegainRedis

(* The event loop runs the subscription task whenever it is ready. *)
Spec ==
    /\ Init /\ [][Next]_vars
    /\ WF_vars(SubscriptionStep /\ UNCHANGED <<lifeVars, reportVars>>)
=============================================================================
