-------------------------- MODULE ResolutionProofs --------------------------
(***************************************************************************)
(* The rules of Resolution hold for all locations and all integer          *)
(* quantities, not only the sampled ones.                                  *)
(***************************************************************************)
EXTENDS Resolution, FiniteSetTheorems, WellFoundedInduction, TLAPS

(* The bands are exhaustive and ordered; what is neither critical nor minor *)
(* is a gap from 5 % up to, not including, 50 % (_classify_severity).       *)
LEMMA SeverityBands ==
    ASSUME NEW e \in Int, NEW a \in Int
    PROVE  /\ ClassifySeverity(e, a) \in Severities
           /\ ClassifySeverity(e, a) \in {"major", "moderate"} =>
                 /\ 100 * Gap(e, a) >= 5 * e
                 /\ 2 * Gap(e, a) < e
                 /\ e >= 3
  <1>1. Gap(e, a) \in Nat
    BY DEF Gap
  <1>2. Base(e) \in Nat /\ Base(e) >= 1 /\ Base(e) >= e
    BY DEF Base
  <1>3. ClassifySeverity(e, a) \in Severities
    BY DEF ClassifySeverity, Severities
  <1>4. ASSUME ClassifySeverity(e, a) \in {"major", "moderate"}
        PROVE  100 * Gap(e, a) >= 5 * Base(e) /\ 100 * Gap(e, a) < 50 * Base(e)
    <2>1. ~ Reaches(e, a, 50) /\ (Reaches(e, a, 20) \/ Reaches(e, a, 5))
      BY <1>4 DEF ClassifySeverity
    <2> QED
      BY <2>1, <1>1, <1>2 DEF Reaches
  <1>5. ASSUME ClassifySeverity(e, a) \in {"major", "moderate"}
        PROVE  100 * Gap(e, a) >= 5 * e /\ 2 * Gap(e, a) < e /\ e >= 3
    <2>1. CASE e > 1
      <3>1. Base(e) = e
        BY <2>1 DEF Base
      <3> QED
        BY <1>4, <1>5, <1>1, <3>1
    <2>2. CASE ~ (e > 1)
      <3>1. Base(e) = 1
        BY <2>2 DEF Base
      <3> QED
        BY <1>4, <1>5, <1>1, <3>1
    <2> QED
      BY <2>1, <2>2
  <1> QED
    BY <1>3, <1>5

(* Only a middling severity leads to a write, and a transfer is proposed   *)
(* only when there is a source (propose_resolution).                       *)
LEMMA ActionRule ==
    ASSUME NEW sev \in Severities, NEW count \in Nat, NEW sources
    PROVE  /\ ActionFor(sev, count, sources) \in Writes \cup {Held}
           /\ ActionFor(sev, count, sources) \in Writes => sev \in {"major", "moderate"}
           /\ ActionFor(sev, count, sources) = "transfer_inventory" => sources # {}
  BY DEF ActionFor, Writes, Held, Severities

(* A transfer source is another location that can cover the shortage       *)
(* (_find_transfer_source).                                                *)
LEMMA SourceRule ==
    ASSUME NEW levels, NEW shortage \in Int, NEW s \in TransferSources(levels, shortage)
    PROVE  /\ s \in DOMAIN levels \ LookAlikes
           /\ shortage > 0
           /\ levels[s] >= shortage
  <1>1. CASE shortage > 0
    BY <1>1 DEF TransferSources, Candidates
  <1>2. CASE ~ (shortage > 0)
    BY <1>2 DEF TransferSources
  <1> QED
    BY <1>1, <1>2

(* A finite set of locations has a richest one: the locations with more     *)
(* than a given one are a finite set, and proper inclusion of finite sets   *)
(* is well founded.                                                         *)
LEMMA RichestExists ==
    ASSUME NEW C, IsFiniteSet(C), C # {}, NEW level \in [C -> Int]
    PROVE  \E l \in C : \A m \in C : level[m] <= level[l]
  <1> DEFINE Better(l) == {m \in C : level[m] > level[l]}
             T == {Better(l) : l \in C}
  <1>1. T \subseteq FiniteSubsetsOf(C) /\ T # {}
    <2>1. T \subseteq SUBSET C /\ T # {}
      <3>1. \A l \in C : Better(l) \in SUBSET C
        OBVIOUS
      <3> HIDE DEF Better
      <3> QED
        BY <3>1
    <2> HIDE DEF T
    <2> QED
      BY <2>1, FS_FiniteSubsetsOfFinite
  <1>2. PICK B \in T : \A D \in T : <<D, B>> \notin StrictSubsetOrdering(C)
    <2> HIDE DEF T
    <2> QED
      BY <1>1, FS_StrictSubsetOrderingWellFounded, WFMin
  <1>3. PICK l \in C : B = Better(l)
    OBVIOUS
  <1>4. ASSUME NEW m \in C, level[m] > level[l] PROVE FALSE
    <2>1. Better(m) \subseteq Better(l) /\ m \in Better(l) /\ m \notin Better(m)
      BY <1>4
    <2>2. Better(m) \in T /\ <<Better(m), B>> \notin StrictSubsetOrdering(C)
      BY <1>2
    <2>3. Better(m) \in SUBSET C /\ Better(l) \in SUBSET C
      OBVIOUS
    <2> HIDE DEF Better, T
    <2>4. Better(m) # Better(l)
      BY <2>1
    <2> QED
      BY <1>3, <2>1, <2>2, <2>3, <2>4 DEF StrictSubsetOrdering
  <1> QED
    BY <1>4

(* max() of the candidates in _find_transfer_source returns one whenever    *)
(* there are any.                                                           *)
LEMMA SourcesExist ==
    ASSUME IsFiniteSet(Locations), NEW levels, NEW shortage \in Int, shortage > 0,
           levels \in [{} -> Int] \/ levels \in [Locations -> Int],
           Candidates(levels, shortage) # {}
    PROVE  TransferSources(levels, shortage) # {}
  <1> DEFINE found == Candidates(levels, shortage)
  <1>1. found \subseteq Locations /\ levels \in [Locations -> Int]
    BY DEF Candidates
  <1>2. IsFiniteSet(found)
    <2> HIDE DEF found
    <2> QED
      BY <1>1, FS_Subset
  <1>3. PICK l \in found : \A m \in found : levels[m] <= levels[l]
    <2> DEFINE level == [m \in found |-> levels[m]]
    <2>1. level \in [found -> Int]
      BY <1>1
    <2> HIDE DEF level
    <2>2. PICK l \in found : \A m \in found : level[m] <= level[l]
      BY <1>2, <2>1, RichestExists
    <2> QED
      BY <2>2 DEF level
  <1> QED
    BY <1>3 DEF TransferSources

-----------------------------------------------------------------------------
(* The inductive invariant: the properties, and what each stage hands on   *)
(* to the next -- without the severity being that of the report, nothing   *)
(* could be said of the proposal.                                          *)
Assessed == {"detect", "investigate", "propose", "apply_mutation", "verify"}

SeverityInv ==
    stage \in Assessed => severity = ClassifySeverity(report.expected, report.actual)

ProposalInv ==
    proposal.action \in Writes =>
        /\ severity \in {"major", "moderate"}
        /\ stage \in Assessed
        /\ proposal.quantity = report.expected

ResolutionInv == TypeOK /\ SeverityInv /\ ProposalInv /\ TransfersFit

LEMMA InvInit == Init => ResolutionInv
  <1> SUFFICES ASSUME Init PROVE ResolutionInv
    OBVIOUS
  <1>1. stock \in [Locations -> Int]
    BY ResolutionAssumption DEF Init
  <1>2. TypeOK
    <2>1. seen \in [{} -> Int]
      BY DEF Init
    <2>2. committed \in Nat
      BY ResolutionAssumption DEF Init
    <2>3. /\ proposal \in [action : Writes \cup {Held, "none"}, quantity : Int,
                           source : Locations, moved : Int]
          /\ proposal.action = "none"
      BY ResolutionAssumption DEF Init, NoProposal
    <2> QED
      <3>1. report \in [expected : Int, actual : Int]
        BY DEF Init
      <3>2. orders \in Nat /\ severity \in Severities \cup {"none"}
        BY DEF Init
      <3>3. /\ stage = "idle" /\ verdict \in Verdicts /\ disturbed \in BOOLEAN
        BY DEF Init, Verdicts
      <3> QED
        BY <1>1, <2>1, <2>2, <2>3, <3>1, <3>2, <3>3 DEF TypeOK
  <1>3. proposal.action = "none" /\ stage = "idle"
    BY DEF Init, NoProposal
  <1> QED
    BY <1>2, <1>3 DEF ResolutionInv, SeverityInv, ProposalInv, TransfersFit, Assessed, Writes

LEMMA InvNext == ResolutionInv /\ [Next]_vars => ResolutionInv'
  <1> SUFFICES ASSUME ResolutionInv, [Next]_vars PROVE ResolutionInv'
    OBVIOUS
  <1> USE DEF ResolutionInv
  <1>1. CASE StockMoves
    <2>1. stock' \in [Locations -> Int]
      BY <1>1, ResolutionAssumption DEF StockMoves, TypeOK
    <2>2. TypeOK'
      BY <1>1, <2>1 DEF StockMoves, TypeOK
    <2> QED
      BY <1>1, <2>2 DEF StockMoves, SeverityInv, ProposalInv, TransfersFit
  <1>2. CASE Report
    <2>1. TypeOK'
      BY <1>2, ResolutionAssumption DEF Report, TypeOK
    <2>2. proposal.action = "none" /\ proposal' = proposal /\ stage' = "reported"
      BY <1>2 DEF Report, TypeOK
    <2> QED
      BY <2>1, <2>2 DEF SeverityInv, ProposalInv, TransfersFit, Assessed, Writes
  <1>3. CASE DetectDiscrepancy
    <2>1. severity' \in Severities
      BY <1>3, SeverityBands DEF DetectDiscrepancy, TypeOK
    <2>2. TypeOK'
      BY <1>3, <2>1 DEF DetectDiscrepancy, TypeOK
    <2>3. proposal.action = "none" /\ proposal' = proposal
      BY <1>3 DEF DetectDiscrepancy, TypeOK
    <2> QED
      BY <1>3, <2>2, <2>3
      DEF DetectDiscrepancy, SeverityInv, ProposalInv, TransfersFit, Writes
  <1>4. CASE Investigate
    <2>1. TypeOK'
      BY <1>4, ResolutionAssumption DEF Investigate, TypeOK
    <2>2. proposal.action = "none" /\ proposal' = proposal
      BY <1>4 DEF Investigate, TypeOK
    <2> QED
      BY <1>4, <2>1, <2>2
      DEF Investigate, SeverityInv, ProposalInv, TransfersFit, Writes, Assessed
  <1>5. CASE ProposeResolution
    <2> DEFINE shortage == report.expected - report.actual
               sources == TransferSources(seen, shortage)
               action == ActionFor(severity, orders, sources)
    <2>1. PICK s \in IF action = "transfer_inventory" THEN sources ELSE {Here} :
            proposal' = [action |-> action, quantity |-> report.expected, source |-> s,
                         moved |-> IF action = "transfer_inventory" THEN shortage ELSE 0]
      BY <1>5 DEF ProposeResolution
    <2>2. shortage \in Int /\ orders \in Nat /\ report.expected \in Int
      BY DEF TypeOK
    <2>3. severity \in Severities
      BY <1>5, SeverityBands DEF ProposeResolution, SeverityInv, Assessed, TypeOK
    <2>4. /\ action \in Writes \cup {Held}
          /\ action \in Writes => severity \in {"major", "moderate"}
      BY <2>2, <2>3, ActionRule
    <2>5. action = "transfer_inventory" =>
            s \in DOMAIN seen \ LookAlikes /\ shortage > 0 /\ seen[s] >= shortage
      BY <2>1, <2>2, SourceRule
    <2>6. s \in Locations
      BY <2>1, <2>5, ResolutionAssumption DEF TypeOK
    <2> HIDE DEF shortage, sources, action
    <2>7. TypeOK'
      BY <1>5, <2>1, <2>2, <2>4, <2>6 DEF ProposeResolution, TypeOK, Writes, Held
    <2>8. TransfersFit'
      <3>1. CASE action = "transfer_inventory"
        BY <3>1, <1>5, <2>1, <2>2, <2>5, ResolutionAssumption
        DEF ProposeResolution, TransfersFit, shortage
      <3>2. CASE action # "transfer_inventory"
        BY <3>2, <2>1 DEF TransfersFit
      <3> QED
        BY <3>1, <3>2
    <2> QED
      BY <1>5, <2>1, <2>4, <2>7, <2>8
      DEF ProposeResolution, SeverityInv, ProposalInv, Assessed
  <1>6. CASE ApplyMutation
    <2>1. ASSUME NEW q \in Int, NEW l \in Locations
          PROVE  /\ SetOnHand(Here, q) \in [Locations -> Int]
                 /\ Move(l, q) \in [Locations -> Int]
      BY ResolutionAssumption DEF SetOnHand, Move, TypeOK
    <2>2. stock' \in [Locations -> Int]
      BY <1>6, <2>1 DEF ApplyMutation, TypeOK
    <2>3. TypeOK'
      BY <1>6, <2>2 DEF ApplyMutation, TypeOK
    <2> QED
      BY <1>6, <2>3
      DEF ApplyMutation, SeverityInv, ProposalInv, TransfersFit, Assessed
  <1>7. CASE VerifyMutation
    <2>1. verdict' \in Verdicts
      BY <1>7 DEF VerifyMutation, Verdicts
    <2>2. TypeOK'
      BY <1>7, <2>1 DEF VerifyMutation, TypeOK
    <2> QED
      BY <1>7, <2>2
      DEF VerifyMutation, SeverityInv, ProposalInv, TransfersFit, Assessed
  <1>8. CASE UNCHANGED vars
    BY <1>8 DEF vars, TypeOK, SeverityInv, ProposalInv, TransfersFit
  <1> QED
    BY <1>1, <1>2, <1>3, <1>4, <1>5, <1>6, <1>7, <1>8 DEF Next

LEMMA Invariance == Spec => []ResolutionInv
  BY InvInit, InvNext, PTL DEF Spec

(* Every variable keeps its type, whatever the quantities. *)
THEOREM TypeCorrect == Spec => []TypeOK
  <1>1. ResolutionInv => TypeOK
    BY DEF ResolutionInv
  <1> QED
    BY <1>1, Invariance, PTL

(* No write is ever proposed outside the 5 % to 50 % band, nor for a       *)
(* baseline below 3, for all integer quantities (detect_discrepancy to     *)
(* propose_resolution).                                                    *)
THEOREM Moderation == Spec => []WritesAreModerate
  <1>1. ResolutionInv => WritesAreModerate
    <2> SUFFICES ASSUME ResolutionInv, proposal.action \in Writes
                 PROVE  /\ 100 * Gap(report.expected, report.actual) >= 5 * report.expected
                        /\ 2 * Gap(report.expected, report.actual) < report.expected
                        /\ proposal.quantity >= 3
      BY DEF WritesAreModerate
    <2>1. report.expected \in Int /\ report.actual \in Int
      BY DEF ResolutionInv, TypeOK
    <2>2. /\ ClassifySeverity(report.expected, report.actual) \in {"major", "moderate"}
          /\ proposal.quantity = report.expected
      BY DEF ResolutionInv, ProposalInv, SeverityInv
    <2> QED
      BY <2>1, <2>2, SeverityBands
  <1> QED
    BY <1>1, Invariance, PTL

(* Every proposed transfer fits what its source was seen to have, for all  *)
(* locations and quantities (_find_transfer_source, propose_resolution).   *)
THEOREM TransferSoundness == Spec => []TransfersFit
  <1>1. ResolutionInv => TransfersFit
    BY DEF ResolutionInv
  <1> QED
    BY <1>1, Invariance, PTL

-----------------------------------------------------------------------------
(* Undisturbed runs: the report and the levels seen are those Shopify still *)
(* has when the transfer is made; a verdict is passed on final stock only.  *)
QuietInv ==
    ~disturbed =>
        /\ stage \in {"reported", "detect", "investigate", "propose"} =>
              report.actual = stock[Here]
        /\ stage \in {"investigate", "propose"} => seen = stock \/ DOMAIN seen = {}
        /\ QuietTransfersRestore

VerdictInv == verdict # "none" => stage = "verify"

LEMMA QuietInit == Init => QuietInv /\ VerdictInv
  BY DEF Init, QuietInv, VerdictInv, QuietTransfersRestore

(* Moving what the source was seen to have leaves it at zero or more, and   *)
(* the location at its baseline (inventoryMoveQuantities).                  *)
LEMMA MoveRestores ==
    ASSUME ResolutionInv, QuietInv, ~disturbed, ApplyMutation,
           proposal.action = "transfer_inventory"
    PROVE  stock'[proposal.source] >= 0 /\ stock'[Here] = report.expected
  <1>1. stage = "propose" /\ stock' = Move(proposal.source, proposal.moved)
    BY DEF ApplyMutation
  <1>2. /\ proposal.source \in DOMAIN seen \ {Here}
        /\ proposal.moved = report.expected - report.actual
        /\ proposal.moved <= seen[proposal.source]
    BY DEF ResolutionInv, TransfersFit
  <1>3. seen = stock /\ report.actual = stock[Here]
    BY <1>1, <1>2 DEF QuietInv
  <1>4. /\ stock \in [Locations -> Int] /\ Here \in Locations
        /\ report.expected \in Int /\ report.actual \in Int
    BY ResolutionAssumption DEF ResolutionInv, TypeOK
  <1>5. proposal.source \in Locations /\ proposal.source # Here
    BY <1>2, <1>3, <1>4
  <1>6. /\ stock'[proposal.source] = stock[proposal.source] - proposal.moved
        /\ stock'[Here] = stock[Here] + proposal.moved
    BY <1>1, <1>4, <1>5 DEF Move
  <1> QED
    BY <1>2, <1>3, <1>4, <1>5, <1>6

LEMMA QuietStep ==
    ResolutionInv /\ QuietInv /\ VerdictInv /\ [Next]_vars => QuietInv' /\ VerdictInv'
  <1> SUFFICES ASSUME ResolutionInv, QuietInv, VerdictInv, [Next]_vars
               PROVE  QuietInv' /\ VerdictInv'
    OBVIOUS
  <1>1. CASE StockMoves
    <2>1. disturbed'
      BY <1>1, Zenon DEF StockMoves
    <2>2. VerdictInv'
      BY <1>1 DEF StockMoves, VerdictInv
    <2> QED
      BY <2>1, <2>2, Zenon DEF QuietInv
  <1>2. CASE Report
    <2>1. PICK e, a \in Quantities : /\ report' = [expected |-> e, actual |-> a]
                                    /\ disturbed' = (a # stock[Here])
      BY <1>2, Zenon DEF Report
    <2>2. report'.actual = a
      BY <2>1
    <2>3. ~disturbed' => report'.actual = stock[Here]
      BY <2>1, <2>2, Zenon
    <2>4. stage' = "reported" /\ stock' = stock
      BY <1>2 DEF Report
    <2>5. VerdictInv'
      BY <1>2 DEF Report, VerdictInv
    <2> QED
      BY <2>3, <2>4, <2>5 DEF QuietInv, QuietTransfersRestore
  <1>3. CASE DetectDiscrepancy
    BY <1>3 DEF DetectDiscrepancy, QuietInv, VerdictInv, QuietTransfersRestore
  <1>4. CASE Investigate
    BY <1>4 DEF Investigate, QuietInv, VerdictInv, QuietTransfersRestore
  <1>5. CASE ProposeResolution
    BY <1>5 DEF ProposeResolution, QuietInv, VerdictInv, QuietTransfersRestore
  <1>6. CASE ApplyMutation
    <2>1. QuietTransfersRestore' \/ disturbed
      BY <1>6, MoveRestores DEF ApplyMutation, QuietTransfersRestore
    <2>2. stage' = "apply_mutation" /\ disturbed' = disturbed /\ VerdictInv'
      BY <1>6 DEF ApplyMutation, VerdictInv
    <2> QED
      BY <2>1, <2>2 DEF QuietInv
  <1>7. CASE VerifyMutation
    BY <1>7 DEF VerifyMutation, QuietInv, VerdictInv, QuietTransfersRestore
  <1>8. CASE UNCHANGED vars
    BY <1>8 DEF vars, QuietInv, VerdictInv, QuietTransfersRestore
  <1> QED
    BY <1>1, <1>2, <1>3, <1>4, <1>5, <1>6, <1>7, <1>8 DEF Next

(* On quiet stock every transfer, of any size and between any locations,    *)
(* restores its target and overdraws no source (_find_transfer_source to    *)
(* apply_mutation).                                                         *)
THEOREM TransfersRestore == Spec => []QuietTransfersRestore
  <1>1. ResolutionInv /\ QuietInv => QuietTransfersRestore
    BY DEF QuietInv, QuietTransfersRestore
  <1> QED
    BY <1>1, InvInit, InvNext, QuietInit, QuietStep, PTL DEF Spec

-----------------------------------------------------------------------------
(* Shortages.  A write proposed although another location could cover the   *)
(* shortage is a transfer from one of those locations.                      *)
SourceInv ==
    LET short == report.expected - report.actual IN
    /\ proposal.action = "transfer_inventory" =>
          proposal.source \in DOMAIN seen \ LookAlikes
    /\ proposal.action \in Writes /\ short > 0 /\ Candidates(seen, short) # {} =>
          proposal.action = "transfer_inventory"

MovedInv == SourceInv /\ ShortagesAreMoved

LEMMA MovedInit == Init => MovedInv
  BY DEF Init, NoProposal, MovedInv, SourceInv, ShortagesAreMoved, Writes

LEMMA SourceChosen ==
    ASSUME IsFiniteSet(Locations), ResolutionInv, ProposeResolution
    PROVE  SourceInv'
  <1> DEFINE short == report.expected - report.actual
             sources == TransferSources(seen, short)
             action == ActionFor(severity, orders, sources)
  <1>1. PICK s \in IF action = "transfer_inventory" THEN sources ELSE {Here} :
          proposal' = [action |-> action, quantity |-> report.expected, source |-> s,
                       moved |-> IF action = "transfer_inventory" THEN short ELSE 0]
    BY DEF ProposeResolution
  <1>2. short \in Int /\ UNCHANGED <<report, seen>>
    BY DEF ResolutionInv, TypeOK, ProposeResolution
  <1>3. action = "transfer_inventory" => s \in DOMAIN seen \ LookAlikes
    BY <1>1, <1>2, SourceRule
  <1>4. ASSUME action \in Writes, short > 0, Candidates(seen, short) # {}
        PROVE  action = "transfer_inventory"
    <2>1. sources # {}
      BY <1>2, <1>4, SourcesExist DEF ResolutionInv, TypeOK
    <2> QED
      BY <1>4, <2>1 DEF ActionFor, Writes, Held
  <1>5. proposal'.action = action /\ proposal'.source = s
    BY <1>1
  <1> HIDE DEF short, action
  <1> QED
    BY <1>2, <1>3, <1>4, <1>5 DEF SourceInv, short

LEMMA ShortageMoved ==
    ASSUME ResolutionInv, QuietInv, SourceInv, ApplyMutation
    PROVE  ShortagesAreMoved'
  <1> DEFINE short == report.expected - report.actual
             others == DOMAIN seen \ LookAlikes
  <1>1. stage = "propose" /\ UNCHANGED <<report, seen, proposal, disturbed>>
    BY DEF ApplyMutation
  <1>2. SUFFICES ASSUME ~disturbed, proposal.action \in Writes, short > 0,
                        NEW l \in others, seen[l] >= short
                 PROVE  \E s \in others :
                           stock' = [seen EXCEPT ![s] = @ - short, ![Here] = @ + short]
    BY <1>1 DEF ShortagesAreMoved
  <1>3. proposal.action = "transfer_inventory"
    BY <1>2 DEF SourceInv, Candidates
  <1>4. proposal.source \in others /\ proposal.moved = short
    BY <1>3 DEF SourceInv, ResolutionInv, TransfersFit
  <1>5. seen = stock
    BY <1>1, <1>2 DEF QuietInv
  <1>6. stock' = [stock EXCEPT ![proposal.source] = @ - short, ![Here] = @ + short]
    BY <1>3, <1>4 DEF ApplyMutation, Move
  <1> QED
    BY <1>4, <1>5, <1>6

LEMMA MovedStep ==
    ASSUME IsFiniteSet(Locations), ResolutionInv, QuietInv, MovedInv, [Next]_vars
    PROVE  MovedInv'
  <1> USE DEF MovedInv
  <1>1. CASE StockMoves
    <2>1. disturbed' /\ UNCHANGED <<report, seen, proposal>>
      BY <1>1, Zenon DEF StockMoves
    <2> QED
      BY <2>1, Zenon DEF SourceInv, ShortagesAreMoved
  <1>2. CASE Report \/ DetectDiscrepancy \/ Investigate
    <2>1. proposal.action = "none" /\ UNCHANGED proposal
      BY <1>2 DEF Report, DetectDiscrepancy, Investigate, ResolutionInv, TypeOK
    <2> QED
      BY <2>1 DEF SourceInv, ShortagesAreMoved, Writes
  <1>3. CASE ProposeResolution
    <2>1. stage' # "apply_mutation"
      BY <1>3 DEF ProposeResolution
    <2> QED
      BY <1>3, <2>1, SourceChosen DEF ShortagesAreMoved
  <1>4. CASE ApplyMutation
    BY <1>4, ShortageMoved DEF ApplyMutation, SourceInv
  <1>5. CASE VerifyMutation
    BY <1>5 DEF VerifyMutation, SourceInv, ShortagesAreMoved
  <1>6. CASE UNCHANGED vars
    BY <1>6 DEF vars, SourceInv, ShortagesAreMoved
  <1> QED
    BY <1>1, <1>2, <1>3, <1>4, <1>5, <1>6 DEF Next

(* With any finite number of locations and any quantities: an approved      *)
(* write leaves the total of the item as it was whenever another location   *)
(* could cover the shortage (_find_transfer_source, propose_resolution).    *)
THEOREM ShortagesMove == IsFiniteSet(Locations) /\ Spec => []ShortagesAreMoved
  <1>1. CASE IsFiniteSet(Locations)
    <2>1. ResolutionInv /\ QuietInv /\ MovedInv /\ [Next]_vars => MovedInv'
      BY <1>1, MovedStep
    <2>2. MovedInv => ShortagesAreMoved
      BY DEF MovedInv
    <2> QED
      BY <2>1, <2>2, InvInit, InvNext, QuietInit, QuietStep, MovedInit, PTL DEF Spec
  <1> QED
    BY <1>1

-----------------------------------------------------------------------------
(* Refuted writes.  An undisturbed adjustment leaves what is on hand at the *)
(* baseline, and so what is available short of it by the committed units.   *)
AdjustInv ==
    ~disturbed /\ stage = "apply_mutation" /\ proposal.action = "adjust_to_expected" =>
        stock[Here] = report.expected - committed

RefutedInv == committed \in Commitments /\ AdjustInv /\ RefutationExplained

LEMMA RefutedInit == Init => RefutedInv
  BY DEF Init, RefutedInv, AdjustInv, RefutationExplained

LEMMA AdjustSets ==
    ASSUME ResolutionInv, ApplyMutation, proposal.action = "adjust_to_expected"
    PROVE  stock'[Here] = report.expected - committed
  <1>1. stock' = SetOnHand(Here, report.expected)
    BY DEF ApplyMutation, ResolutionInv, ProposalInv, Writes
  <1>2. Here \in Locations /\ stock \in [Locations -> Int]
    BY ResolutionAssumption DEF ResolutionInv, TypeOK
  <1> QED
    BY <1>1, <1>2 DEF SetOnHand

LEMMA VerdictExplained ==
    ASSUME ResolutionInv, QuietInv, RefutedInv, VerifyMutation,
           verdict' = "refuted", ~disturbed,
           \A l \in LookAlikes \ {Here} : stock[l] = proposal.quantity
    PROVE  proposal.action = "adjust_to_expected" /\ committed > 0
  <1>1. /\ stage = "apply_mutation" /\ proposal.action # Held
        /\ ~Confirms(stock[Here])
    <2>1. stage = "apply_mutation" /\ proposal.action # Held
      BY DEF VerifyMutation
    <2>2. PICK l \in LookAlikes : ~Confirms(stock[l])
      BY DEF VerifyMutation
    <2> QED
      BY <2>1, <2>2 DEF Confirms
  <1>2. proposal.action \in Writes
    BY <1>1 DEF ResolutionInv, TypeOK
  <1>3. stock[Here] # report.expected
    BY <1>1, <1>2 DEF Confirms, ResolutionInv, ProposalInv
  <1>4. proposal.action # "transfer_inventory"
    BY <1>1, <1>3 DEF QuietInv, QuietTransfersRestore
  <1>5. proposal.action = "adjust_to_expected"
    BY <1>2, <1>4 DEF Writes
  <1>6. stock[Here] = report.expected - committed /\ report.expected \in Int
    BY <1>1, <1>5 DEF RefutedInv, AdjustInv, ResolutionInv, TypeOK
  <1>7. committed \in Nat
    BY DEF ResolutionInv, TypeOK
  <1> QED
    BY <1>3, <1>5, <1>6, <1>7

LEMMA RefutedStep ==
    ASSUME ResolutionInv, QuietInv, VerdictInv, RefutedInv, [Next]_vars
    PROVE  RefutedInv'
  <1> USE DEF RefutedInv, AdjustInv, RefutationExplained
  <1>1. CASE StockMoves
    <2>1. disturbed'
      BY <1>1, Zenon DEF StockMoves
    <2>2. UNCHANGED committed
      BY <1>1 DEF StockMoves
    <2> QED
      BY <2>1, <2>2, Zenon
  <1>2. CASE Report \/ DetectDiscrepancy \/ Investigate \/ ProposeResolution
    <2>1. verdict # "refuted" /\ UNCHANGED <<committed, verdict>>
          /\ stage' # "apply_mutation"
      BY <1>2 DEF Report, DetectDiscrepancy, Investigate, ProposeResolution, VerdictInv
    <2> QED
      BY <2>1
  <1>3. CASE ApplyMutation
    <2>1. verdict # "refuted"
          /\ UNCHANGED <<committed, verdict, report, proposal, disturbed>>
      BY <1>3 DEF ApplyMutation, VerdictInv
    <2>2. proposal.action = "adjust_to_expected" => stock'[Here] = report.expected - committed
      BY <1>3, AdjustSets
    <2> QED
      BY <2>1, <2>2
  <1>4. CASE VerifyMutation
    <2>1. /\ UNCHANGED <<stock, committed, proposal, disturbed>> /\ stage' = "verify"
      BY <1>4 DEF VerifyMutation
    <2>2. /\ verdict' = "refuted" /\ ~disturbed
          /\ \A l \in LookAlikes \ {Here} : stock[l] = proposal.quantity
          => proposal.action = "adjust_to_expected" /\ committed > 0
      BY <1>4, VerdictExplained
    <2> QED
      BY <2>1, <2>2
  <1>5. CASE UNCHANGED vars
    BY <1>5 DEF vars
  <1> QED
    BY <1>1, <1>2, <1>3, <1>4, <1>5 DEF Next

(* Verification refutes a write for three reasons only, for any locations   *)
(* and quantities: stock moved on its own; the write was an adjustment and  *)
(* units are committed to orders -- what is set is what is on hand, what is *)
(* read back what is available; or the level of a location whose id         *)
(* contains this one's was read (adjust_inventory_level, verify_mutation).  *)
THEOREM RefutationsAreExplained == Spec => []RefutationExplained
  <1>1. RefutedInv => RefutationExplained
    BY DEF RefutedInv
  <1>2. ResolutionInv /\ QuietInv /\ VerdictInv /\ RefutedInv /\ [Next]_vars => RefutedInv'
    BY RefutedStep
  <1> QED
    BY <1>1, <1>2, InvInit, InvNext, QuietInit, QuietStep, RefutedInit, PTL DEF Spec

(* Hence what nodes.py promises of verification does hold for items without *)
(* committed units, at locations that are not mistaken for one another: on  *)
(* quiet stock a write that took effect is not refuted.                     *)
THEOREM UncommittedWritesStand ==
    (LookAlikes = {Here} /\ Commitments \subseteq {0}) /\ Spec => []QuietWritesNotRefuted
  <1>1. CASE LookAlikes = {Here} /\ Commitments \subseteq {0}
    <2>1. RefutedInv => QuietWritesNotRefuted
      BY <1>1 DEF RefutedInv, RefutationExplained, QuietWritesNotRefuted
    <2>2. ResolutionInv /\ QuietInv /\ VerdictInv /\ RefutedInv /\ [Next]_vars => RefutedInv'
      BY <1>1, RefutedStep
    <2> QED
      BY <2>1, <2>2, InvInit, InvNext, QuietInit, QuietStep, RefutedInit, PTL DEF Spec
  <1> QED
    BY <1>1

-----------------------------------------------------------------------------
(* The severity and the intake's threshold measure the same gap. *)

LEMMA GapTypes ==
    ASSUME NEW e \in Int, NEW a \in Int
    PROVE  Gap(e, a) \in Nat /\ Base(e) \in Nat \ {0}
  BY DEF Gap, Base

(* What reaches a percentage reaches every smaller one. *)
LEMMA ReachesDown ==
    ASSUME NEW e \in Int, NEW a \in Int, NEW high \in Nat, NEW low \in Nat,
           low <= high, Reaches(e, a, high)
    PROVE  Reaches(e, a, low)
  <1> DEFINE b == Base(e)
  <1>1. b \in Nat /\ 100 * Gap(e, a) \in Nat
    <2>1. Base(e) \in Nat /\ Gap(e, a) \in Nat
      BY GapTypes, Zenon
    <2> QED
      BY <2>1
  <1>2. low * b <= high * b
    <2> HIDE DEF b
    <2>1. high = low + (high - low) /\ high - low \in Nat
      OBVIOUS
    <2>2. high * b = low * b + (high - low) * b
      BY <1>1, <2>1
    <2>3. (high - low) * b \in Nat /\ low * b \in Nat
      BY <1>1, <2>1
    <2> QED
      BY <2>2, <2>3
  <1>3. low * b \in Nat /\ high * b \in Nat
    <2> HIDE DEF b
    <2> QED
      BY <1>1
  <1> QED
    <2> HIDE DEF b
    <2>1. high * b <= 100 * Gap(e, a)
      BY DEF Reaches, b
    <2>2. low * b <= 100 * Gap(e, a)
      BY <1>1, <1>2, <1>3, <2>1
    <2> QED
      BY <2>2 DEF Reaches, b

(* An event that an intake with a threshold of 5 % or more lets through is  *)
(* never classified as minor (the comparison in inventory_level_updated and *)
(* run_reconciliation, SEVERITY_THRESHOLDS).                                *)
LEMMA AcceptedIsNotMinor ==
    ASSUME NEW e \in Int, NEW a \in Int, NEW t \in Nat, t >= 5, Reaches(e, a, t)
    PROVE  ClassifySeverity(e, a) # "minor"
  <1>1. Reaches(e, a, 5)
    BY ReachesDown
  <1> QED
    BY <1>1 DEF ClassifySeverity

HeldInv ==
    proposal.action = Held =>
        \/ severity = "critical" \/ severity = "minor"
        \/ severity = "major" /\ orders > 5

LEMMA HeldStep == ResolutionInv /\ HeldInv /\ [Next]_vars => HeldInv'
  <1> SUFFICES ASSUME ResolutionInv, HeldInv, [Next]_vars PROVE HeldInv'
    OBVIOUS
  <1>1. CASE ProposeResolution
    <2> DEFINE action == ActionFor(severity, orders,
                                   TransferSources(seen, report.expected - report.actual))
    <2>1. proposal'.action = action /\ UNCHANGED <<severity, orders>>
      BY <1>1 DEF ProposeResolution
    <2>2. severity \in Severities
      BY <1>1, SeverityBands DEF ProposeResolution, ResolutionInv, SeverityInv, Assessed, TypeOK
    <2>3. action = Held =>
            \/ severity = "critical" \/ severity = "minor"
            \/ severity = "major" /\ orders > 5
      BY <2>2 DEF ActionFor, Severities, Held
    <2> HIDE DEF action
    <2> QED
      BY <2>1, <2>3 DEF HeldInv
  <1>2. CASE Report \/ DetectDiscrepancy \/ Investigate
    <2>1. proposal.action = "none" /\ UNCHANGED proposal
      BY <1>2 DEF Report, DetectDiscrepancy, Investigate, ResolutionInv, TypeOK
    <2> QED
      BY <2>1 DEF HeldInv, Held
  <1>3. CASE StockMoves \/ ApplyMutation \/ VerifyMutation \/ UNCHANGED vars
    BY <1>3 DEF StockMoves, ApplyMutation, VerifyMutation, vars, HeldInv
  <1> QED
    BY <1>1, <1>2, <1>3 DEF Next

(* A run that the webhook or the scheduler started (threshold 5 % or more)  *)
(* is held for review only if its gap is at least half the baseline, or a   *)
(* fifth of it with more than five open orders; otherwise an operator is    *)
(* asked to approve a write (propose_resolution).                           *)
HoldsAreGrave ==
    LET e == report.expected
        a == report.actual IN
    proposal.action = Held /\ Reaches(e, a, 5) =>
        Reaches(e, a, 50) \/ (Reaches(e, a, 20) /\ orders > 5)

THEOREM OnlyGraveRunsAreHeld == Spec => []HoldsAreGrave
  <1>1. ResolutionInv /\ HeldInv => HoldsAreGrave
    <2> SUFFICES ASSUME ResolutionInv, HeldInv, proposal.action = Held,
                        Reaches(report.expected, report.actual, 5)
                 PROVE  \/ Reaches(report.expected, report.actual, 50)
                        \/ Reaches(report.expected, report.actual, 20) /\ orders > 5
      BY DEF HoldsAreGrave
    <2>1. stage \in Assessed
      BY DEF ResolutionInv, TypeOK, Assessed, Held
    <2>2. severity = ClassifySeverity(report.expected, report.actual)
      BY <2>1 DEF ResolutionInv, SeverityInv
    <2> QED
      BY <2>2 DEF HeldInv, ClassifySeverity
  <1>2. Init => HeldInv
    BY DEF Init, NoProposal, HeldInv, Held
  <1> QED
    BY <1>1, <1>2, InvInit, InvNext, HeldStep, PTL DEF Spec
=============================================================================
