---------------------------- MODULE IntakeLedger ----------------------------
(***************************************************************************)
(* What the webhook intake promises about one event, however often, how    *)
(* concurrently and through which failures it is delivered: it is marked   *)
(* as seen only if it was let in while the switch was on, and it starts a  *)
(* run at most once until its mark is forgotten.                           *)
(***************************************************************************)
CONSTANT Ids

VARIABLES
    on,        \* the kill switch lets events in
    admitted,  \* events that were let in
    marked,    \* events marked as seen
    started    \* events that started a run under their present mark

ledgerVars == <<on, admitted, marked, started>>

LedgerInit == on = TRUE /\ admitted = {} /\ marked = {} /\ started = {}

Switch == on' = ~on /\ UNCHANGED <<admitted, marked, started>>

(* Ids without a mark may come to stand for other events. *)
Announce(fresh) ==
    /\ fresh \cap marked = {}
    /\ admitted' = admitted \ fresh
    /\ UNCHANGED <<on, marked, started>>

Admit(d) ==
    /\ on
    /\ admitted' = admitted \cup {d}
    /\ UNCHANGED <<on, marked, started>>

Mark(d) ==
    /\ d \in admitted \ marked
    /\ marked' = marked \cup {d}
    /\ UNCHANGED <<on, admitted, started>>

Start(d) ==
    /\ d \in marked \ started
    /\ started' = started \cup {d}
    /\ UNCHANGED <<on, admitted, marked>>

Forget(d) ==
    /\ marked' = marked \ {d}
    /\ started' = started \ {d}
    /\ UNCHANGED <<on, admitted>>

LedgerNext ==
    \/ Switch
    \/ \E fresh \in SUBSET Ids : Announce(fresh)
    \/ \E d \in Ids : Admit(d) \/ Mark(d) \/ Start(d) \/ Forget(d)

LedgerSpec == LedgerInit /\ [][LedgerNext]_ledgerVars
=============================================================================
