--------------------------- MODULE WriteContract ---------------------------
(***************************************************************************)
(* What the tools may conclude from a call of the Shopify client, whose    *)
(* request may be repeated and may arrive late.  Success: Shopify has done *)
(* it, at least once and never more often than there are attempts; unless  *)
(* the caller leaves unread what Shopify refuses.  Failure: nothing.       *)
(***************************************************************************)
EXTENDS Naturals

CONSTANTS
    Calls,
    Unread,   \* the calls whose caller does not read userErrors
    Attempts  \* how often a request is sent at most

VARIABLES
    outcome,  \* per call: what its caller has been told
    done      \* per call: how often Shopify has done it

contractVars == <<outcome, done>>

ContractInit ==
    /\ outcome = [c \in Calls |-> "open"]
    /\ done = [c \in Calls |-> 0]

(* Also after its caller has been told. *)
CarryOut(c) ==
    /\ done[c] < Attempts
    /\ done' = [done EXCEPT ![c] = @ + 1]
    /\ UNCHANGED outcome

Succeed(c) ==
    /\ outcome[c] = "open"
    /\ done[c] > 0 \/ c \in Unread
    /\ outcome' = [outcome EXCEPT ![c] = "success"]
    /\ UNCHANGED done

Fail(c) ==
    /\ outcome[c] = "open"
    /\ outcome' = [outcome EXCEPT ![c] = "failure"]
    /\ UNCHANGED done

ContractNext == \E c \in Calls : CarryOut(c) \/ Succeed(c) \/ Fail(c)

ContractSpec == ContractInit /\ [][ContractNext]_contractVars
=============================================================================
