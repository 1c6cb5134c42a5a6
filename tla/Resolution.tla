----------------------------- MODULE Resolution -----------------------------
(***************************************************************************)
(* The quantities of one workflow run: how a reported discrepancy becomes  *)
(* a severity, a proposal, a Shopify write and a verdict on that write     *)
(* (detect, investigate, propose, apply_mutation and verify in             *)
(* app/agent/nodes.py), against stock that sales and other apps keep       *)
(* moving between any two steps.  Workflow.tla models the control around   *)
(* these steps; here the operator has approved and Shopify answers.        *)
(***************************************************************************)
EXTENDS Bands

CONSTANTS
    Locations,    \* the item's Shopify locations
    Here,         \* the location with the discrepancy
    LookAlikes,   \* locations whose id contains Here's id as a substring
    Quantities,   \* baselines and actual quantities an event may carry
    Levels,       \* stock levels that occur, per location
    OrderCounts,  \* numbers of open orders for the SKU
    Commitments   \* units of the item committed to orders at Here

ASSUME ResolutionAssumption ==
    /\ Here \in LookAlikes /\ LookAlikes \subseteq Locations
    /\ Quantities \subseteq Int
    /\ Levels \in [Locations -> SUBSET Int]
    /\ OrderCounts \subseteq Nat /\ 0 \in OrderCounts
    /\ Commitments \subseteq Nat

VARIABLES
    stage,      \* the last node that ran
    stock,      \* units available per location, in Shopify
    committed,  \* units at Here on hand but committed to orders
    report,     \* expected_quantity and actual_quantity of the event
    severity,
    seen,       \* available_locations: the levels investigate read, if any
    orders,     \* open_orders_count as investigate found it
    proposal,   \* proposed_action, proposed_quantity, transfer source and size
    verdict,    \* how verify_mutation came to verification_passed
    disturbed   \* the report was stale, or stock moved on its own since

vars == <<stage, stock, committed, report, severity, seen, orders, proposal,
          verdict, disturbed>>

Severities == {"critical", "major", "moderate", "minor"}
Held == "hold_for_review"
Verdicts == {"none", "skipped", "confirmed", "unlisted", "refuted", "failed"}
Writes == {"adjust_to_expected", "transfer_inventory"}

-----------------------------------------------------------------------------
(* The rules *)

ClassifySeverity(expected, actual) ==
    IF Reaches(expected, actual, 50) THEN "critical"
    ELSE IF Reaches(expected, actual, 20) THEN "major"
    ELSE IF Reaches(expected, actual, 5) THEN "moderate"
    ELSE "minor"

(* Faulty variants: any location with stock will do; one that would be left *)
(* empty will not.                                                          *)
CandidatesWithStock(levels, shortage) ==
    {l \in DOMAIN levels \ LookAlikes : levels[l] > 0}
CandidatesLeftWithSome(levels, shortage) ==
    {l \in DOMAIN levels \ LookAlikes : levels[l] > shortage}

(* _find_transfer_source skips the reported location, and with it every one *)
(* whose id contains its id.                                                *)
Candidates(levels, shortage) ==
    {l \in DOMAIN levels \ LookAlikes : levels[l] >= shortage}

(* The richest candidates; max() takes the first one Shopify listed. *)
TransferSources(levels, shortage) ==
    LET found == IF shortage > 0 THEN Candidates(levels, shortage) ELSE {}
    IN {l \in found : \A m \in found : levels[m] <= levels[l]}

(* Faulty variant: the transfer rule is tried before the severity rules. *)
ActionTransferFirst(sev, count, sources) ==
    IF sources # {} THEN "transfer_inventory"
    ELSE IF sev \in {"major", "moderate"} THEN "adjust_to_expected" ELSE Held

(* Faulty variant: no branch for minor gaps. *)
ActionWithoutElse(sev, count, sources) ==
    IF sev = "minor" THEN "none" ELSE ActionTransferFirst(sev, count, {})

ActionFor(sev, count, sources) ==
    IF sev = "critical" \/ (sev = "major" /\ count > 5) THEN Held
    ELSE IF sev \in {"major", "moderate"} THEN
        IF sources # {} THEN "transfer_inventory" ELSE "adjust_to_expected"
    ELSE Held

-----------------------------------------------------------------------------
(* The run *)

NoProposal == [action |-> "none", quantity |-> 0, source |-> Here, moved |-> 0]

TypeOK ==
    /\ stage \in {"idle", "reported", "detect", "investigate", "propose",
                  "apply_mutation", "verify"}
    /\ stock \in [Locations -> Int]
    /\ committed \in Nat
    /\ report \in [expected : Int, actual : Int]
    /\ severity \in Severities \cup {"none"}
    /\ seen \in [{} -> Int] \/ seen \in [Locations -> Int]
    /\ orders \in Nat
    /\ proposal \in [action : Writes \cup {Held, "none"}, quantity : Int,
                     source : Locations, moved : Int]
    /\ proposal.action = "none" <=>
          stage \in {"idle", "reported", "detect", "investigate"}
    /\ verdict \in Verdicts
    /\ disturbed \in BOOLEAN

Init ==
    /\ stage = "idle"
    /\ stock \in {levels \in [Locations -> UNION {Levels[l] : l \in Locations}] :
                    \A l \in Locations : levels[l] \in Levels[l]}
    /\ committed \in Commitments
    /\ report = [expected |-> 0, actual |-> 0]
    /\ severity = "none"
    /\ seen = [l \in {} |-> 0]
    /\ orders = 0
    /\ proposal = NoProposal
    /\ verdict = "none"
    /\ disturbed = FALSE

(* Sales, restocks and other apps.  (Once verified, the run is over.) *)
StockMoves ==
    /\ stage \notin {"idle", "verify"}
    /\ \E l \in Locations : \E q \in Levels[l] : stock' = [stock EXCEPT ![l] = q]
    /\ disturbed' = TRUE
    /\ UNCHANGED <<stage, committed, report, severity, seen, orders, proposal, verdict>>

(* An event from the webhook, the scheduler or the API: the actual quantity *)
(* may be stale, or just what the caller says.                              *)
Report ==
    /\ stage = "idle"
    /\ \E e, a \in Quantities :
          /\ report' = [expected |-> e, actual |-> a]
          /\ disturbed' = (a # stock[Here])
    /\ stage' = "reported"
    /\ UNCHANGED <<stock, committed, severity, seen, orders, proposal, verdict>>

DetectDiscrepancy ==
    /\ stage = "reported"
    /\ severity' = ClassifySeverity(report.expected, report.actual)
    /\ stage' = "detect"
    /\ UNCHANGED <<stock, committed, report, seen, orders, proposal, verdict, disturbed>>

(* Each of the two lookups may fail on its own: no levels, no orders. *)
Investigate ==
    /\ stage = "detect"
    /\ seen' \in {stock, [l \in {} |-> 0]}
    /\ orders' \in OrderCounts
    /\ stage' = "investigate"
    /\ UNCHANGED <<stock, committed, report, severity, proposal, verdict, disturbed>>

ProposeResolution ==
    /\ stage = "investigate"
    /\ LET shortage == report.expected - report.actual
           sources == TransferSources(seen, shortage)
           action == ActionFor(severity, orders, sources)
           chosen == IF action = "transfer_inventory" THEN sources ELSE {Here} IN
       \E s \in chosen :
          proposal' = [action |-> action, quantity |-> report.expected, source |-> s,
                       moved |-> IF action = "transfer_inventory" THEN shortage ELSE 0]
    /\ stage' = "propose"
    /\ UNCHANGED <<stock, committed, report, severity, seen, orders, verdict, disturbed>>

(* inventorySetOnHandQuantities sets what is on hand, committed units       *)
(* included; inventoryMoveQuantities moves available units.                 *)
SetOnHand(l, quantity) ==
    [stock EXCEPT ![l] = quantity - (IF l = Here THEN committed ELSE 0)]

Move(from, quantity) ==
    [stock EXCEPT ![from] = @ - quantity, ![Here] = @ + quantity]

ApplyMutation ==
    /\ stage = "propose"
    /\ stock' = CASE proposal.action = "adjust_to_expected" -> SetOnHand(Here, proposal.quantity)
                  [] proposal.action = "transfer_inventory" -> Move(proposal.source, proposal.moved)
                  [] OTHER -> stock
    /\ stage' = "apply_mutation"
    /\ UNCHANGED <<committed, report, severity, seen, orders, proposal, verdict, disturbed>>

(* Faulty variant: a transfer is verified by the quantity it moved. *)
ConfirmsMoved(level) ==
    level = (IF proposal.action = "transfer_inventory" THEN proposal.moved ELSE proposal.quantity)

Confirms(level) == level = proposal.quantity

(* verify_mutation reads the first level whose location id contains Here's  *)
(* id.  A location that is not in the answer passes; a failed query does not. *)
VerifyMutation ==
    /\ stage = "apply_mutation"
    /\ IF proposal.action = Held THEN verdict' = "skipped"
       ELSE \/ verdict' \in {"unlisted", "failed"}
            \/ \E l \in LookAlikes :
                  verdict' = IF Confirms(stock[l]) THEN "confirmed" ELSE "refuted"
    /\ stage' = "verify"
    /\ UNCHANGED <<stock, committed, report, severity, seen, orders, proposal, disturbed>>

Next ==
    \/ StockMoves \/ Report \/ DetectDiscrepancy \/ Investigate
    \/ ProposeResolution \/ ApplyMutation \/ VerifyMutation

Spec == Init /\ [][Next]_vars

-----------------------------------------------------------------------------
(* Properties *)

(* Only a gap of at least 5 % and less than 50 % of the baseline is ever    *)
(* proposed as a stock write, and so never one for a baseline below 3 (a    *)
(* zero, negative or tiny baseline makes every gap critical): the chain     *)
(* from detect_discrepancy to propose_resolution.                           *)
WritesAreModerate ==
    proposal.action \in Writes =>
        LET gap == Gap(report.expected, report.actual) IN
        /\ 100 * gap >= 5 * report.expected
        /\ 2 * gap < report.expected
        /\ proposal.quantity >= 3

(* A proposed transfer takes from another location what that location had   *)
(* when it was looked at, and exactly the reported shortage.                *)
TransfersFit ==
    proposal.action = "transfer_inventory" =>
        /\ proposal.source \in DOMAIN seen \ {Here}
        /\ proposal.moved = report.expected - report.actual
        /\ 0 < proposal.moved /\ proposal.moved <= seen[proposal.source]

(* If nothing else moved the stock since the report, a transfer empties no  *)
(* location below zero and brings the reported one to its baseline.         *)
QuietTransfersRestore ==
    stage = "apply_mutation" /\ proposal.action = "transfer_inventory" /\ ~disturbed =>
        stock[proposal.source] >= 0 /\ stock[Here] = report.expected

(* "Resolves shortages without inflating total inventory counts when stock *)
(* exists elsewhere" (ADR-010): if a location that is not taken for the     *)
(* reported one can cover the shortage, an approved write only moves stock. *)
(* The ADR has no such exception: stock of a location whose id contains the *)
(* reported one's is never used, and the shortage is adjusted away.         *)
ShortagesAreMoved ==
    LET short == report.expected - report.actual
        others == DOMAIN seen \ LookAlikes IN
    /\ stage = "apply_mutation" /\ ~disturbed
    /\ proposal.action \in Writes /\ short > 0
    /\ \E l \in others : seen[l] >= short
    => \E l \in others : stock = [seen EXCEPT ![l] = @ - short, ![Here] = @ + short]

(* verify_mutation refutes a write that took effect for three reasons only: *)
(* stock moved on its own; the write was an adjustment and units are        *)
(* committed to orders, so that what was set (on hand) is not what is read  *)
(* back (available); or another location was taken for the reported one.    *)
RefutationExplained ==
    verdict = "refuted" =>
        \/ disturbed
        \/ proposal.action = "adjust_to_expected" /\ committed > 0
        \/ \E l \in LookAlikes \ {Here} : stock[l] # proposal.quantity

(* "Re-query Shopify to confirm the inventory mutation actually took        *)
(* effect" (nodes.py): with quiet stock, reading back a write that took     *)
(* effect does not refute it.                                               *)
QuietWritesNotRefuted == verdict = "refuted" => disturbed
=============================================================================
