---------------------------- MODULE MCDetection ----------------------------
(* Small instances of Detection. *)
EXTENDS Detection

CONSTANTS i1, d1, h1, h2

Alone == [i \in Items |-> {i}]
=============================================================================
