----------------------------- MODULE MCWorkflow -----------------------------
(***************************************************************************)
(* Small instances of Workflow for TLC: which run each click is about, and *)
(* which runs would write the same target.                                 *)
(***************************************************************************)
EXTENDS WorkflowInvariant

CONSTANTS r1, r2, c1, c2, t1

OneRun == [c \in Clicks |-> r1]
RunEach == [c \in Clicks |-> IF c = c1 THEN r1 ELSE r2]

(* Two runs about the same item, location and quantity share a guard key. *)
SameTarget == [r \in Runs |-> t1]
=============================================================================
