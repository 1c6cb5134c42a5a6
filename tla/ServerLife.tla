----------------------------- MODULE ServerLife -----------------------------
(* What the background tasks of one server share: the process they run in  *)
(* (the lifespan of app/main.py) and its Redis, either of which may go and *)
(* come back.                                                              *)
VARIABLES
    serverUp,
    redisUp

lifeVars == <<serverUp, redisUp>>

Up == serverUp /\ redisUp
=============================================================================
