---------------------------- MODULE ApprovalGate ----------------------------
(***************************************************************************)
(* What the human-in-the-loop design promises about Shopify writes,        *)
(* whatever the interleaving of tasks, retries and crashes: a write is     *)
(* paid for by an operator decision of its own, and happens only on a run  *)
(* somebody approved.  A decision that is retried, raced or lost may buy   *)
(* no write at all; it never buys two.                                     *)
(***************************************************************************)
CONSTANTS Clicks, OnRun

VARIABLES
    ledger,   \* per click: "none" until its decision is recorded
    writers,  \* clicks whose decision was spent on a Shopify write
    audited   \* clicks whose decision was spent on an audit row

gateVars == <<ledger, writers, audited>>

Approved(r) == \E d \in Clicks : OnRun[d] = r /\ ledger[d] = "approved"

GateInit ==
    /\ ledger = [c \in Clicks |-> "none"]
    /\ writers = {}
    /\ audited = {}

Decide(c) ==
    /\ ledger[c] = "none"
    /\ \E v \in {"approved", "rejected"} : ledger' = [ledger EXCEPT ![c] = v]
    /\ UNCHANGED <<writers, audited>>

Write(c) ==
    /\ ledger[c] # "none" /\ c \notin writers
    /\ Approved(OnRun[c])
    /\ writers' = writers \cup {c}
    /\ UNCHANGED <<ledger, audited>>

Audit(c) ==
    /\ ledger[c] # "none" /\ c \notin audited
    /\ audited' = audited \cup {c}
    /\ UNCHANGED <<ledger, writers>>

GateNext == \E c \in Clicks : Decide(c) \/ Write(c) \/ Audit(c)

GateSpec == GateInit /\ [][GateNext]_gateVars
=============================================================================
