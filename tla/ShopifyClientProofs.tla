------------------------ MODULE ShopifyClientProofs ------------------------
(* The client of ShopifyClient.tla, for any number of calls, any costs and  *)
(* any size of the bucket that holds one query of the estimated cost.       *)
EXTENDS ShopifyClient, TLAPS

USE ClientAssumption DEF Estimate, MaxRetries

-----------------------------------------------------------------------------
(* The inductive invariant *)

Sent(c) == effects[c] + admitted[c]

(* No request of the call is answered for good yet. *)
Unclosed(c) ==
    \/ pc[c] \in {"idle", "ready"}
    \/ pc[c] = "answered" /\ answer[c].kind \notin {"data", "lost"}

(* Before the last answer, every admitted request is excused by a server   *)
(* error, and there were no more of them than attempts.                    *)
RepeatInv(c) ==
    /\ Sent(c) <= 1 + unsettled[c] /\ Sent(c) <= MaxRetries
    /\ Unclosed(c) => Sent(c) <= unsettled[c]
    /\ pc[c] \in {"idle", "ready"} => Sent(c) <= attempt[c]
    /\ pc[c] = "answered" => attempt[c] < MaxRetries /\ Sent(c) <= attempt[c] + 1
    /\ pc[c] = "idle" => attempt[c] = 0
    /\ pc[c] = "ok" /\ c \notin Unread => effects[c] > 0
    /\ pc[c] = "answered" /\ answer[c].kind = "data" => effects[c] > 0

(* What an undisturbed call has slept so far is back in the bucket, or will *)
(* be when its timer runs out: a point before its second request, a whole   *)
(* query before its third.                                                  *)
ThrottleInv(c) ==
    c \notin contended /\ Cost[c] <= Estimate =>
        /\ pc[c] = "ready" /\ attempt[c] = 1 => points + timer[c] >= 1
        /\ pc[c] = "ready" /\ attempt[c] = 2 => points + timer[c] >= Estimate
        /\ pc[c] = "answered" /\ attempt[c] = 1 /\ answer[c].kind = "throttled"
              => points >= 1
        /\ pc[c] = "answered" /\ attempt[c] = 2 => answer[c].kind # "throttled"
        /\ pc[c] = "ready" /\ attempt[c] = MaxRetries => cause[c] # "throttled"
        /\ pc[c] = "failed" => cause[c] # "throttled"

ClientInv ==
    /\ TypeOK
    /\ \A c \in Calls : RepeatInv(c)
    /\ \A c \in Calls : ThrottleInv(c)

-----------------------------------------------------------------------------
LEMMA ClientInit == Init => ClientInv
  <1> SUFFICES ASSUME Init PROVE ClientInv
    OBVIOUS
  <1>1. TypeOK
    BY DEF Init, TypeOK, NoAnswer, Untold, Kinds, Causes
  <1>2. ASSUME NEW c \in Calls PROVE RepeatInv(c) /\ ThrottleInv(c)
    <2>1. /\ pc[c] = "idle" /\ attempt[c] = 0
          /\ effects[c] = 0 /\ admitted[c] = 0 /\ unsettled[c] = 0
      BY DEF Init
    <2> QED
      BY <2>1 DEF RepeatInv, ThrottleInv, Sent, Unclosed
  <1> QED
    BY <1>1, <1>2 DEF ClientInv

(* A step of one call leaves the others their values; if it takes points, *)
(* they are marked as contended.                                           *)
Others(c) ==
    \A d \in Calls \ {c} :
        /\ pc'[d] = pc[d] /\ attempt'[d] = attempt[d] /\ timer'[d] = timer[d]
        /\ answer'[d] = answer[d] /\ cause'[d] = cause[d]
        /\ effects'[d] = effects[d] /\ admitted'[d] = admitted[d]
        /\ unsettled'[d] = unsettled[d]
        /\ d \in contended => d \in contended'
        /\ attempt[d] > 0 /\ d \notin contended' => points' >= points

LEMMA OthersKeep ==
    ASSUME ClientInv, TypeOK', NEW c \in Calls, Others(c),
           NEW d \in Calls \ {c}
    PROVE  RepeatInv(d)' /\ ThrottleInv(d)'
  <1>1. RepeatInv(d)'
    BY DEF ClientInv, Others, RepeatInv, Sent, Unclosed
  <1>2. ThrottleInv(d)'
    BY DEF ClientInv, Others, ThrottleInv, TypeOK
  <1> QED
    BY <1>1, <1>2

LEMMA TickKeeps == ClientInv /\ Tick => ClientInv'
  <1> SUFFICES ASSUME ClientInv, Tick PROVE ClientInv'
    OBVIOUS
  <1>1. TypeOK'
    BY DEF ClientInv, TypeOK, Tick, Restored
  <1>2. ASSUME NEW c \in Calls PROVE RepeatInv(c)'
    BY DEF ClientInv, Tick, RepeatInv, Sent, Unclosed
  <1>3. ASSUME NEW c \in Calls PROVE ThrottleInv(c)'
    <2>1. points' + timer'[c] >= points + timer[c] \/ points' + timer'[c] >= Estimate
      BY DEF ClientInv, TypeOK, Tick, Restored
    <2>2. points' >= points
      BY DEF ClientInv, TypeOK, Tick, Restored
    <2>3. points' \in Nat /\ timer'[c] \in Nat /\ points \in Nat /\ timer[c] \in Nat
      BY <1>1 DEF ClientInv, TypeOK
    <2> QED
      BY <2>1, <2>2, <2>3 DEF ClientInv, Tick, ThrottleInv
  <1> QED
    BY <1>1, <1>2, <1>3 DEF ClientInv

LEMMA CallerTyped ==
    ASSUME ClientInv, NEW c \in Calls, Caller(c)
    PROVE  TypeOK' /\ Others(c)
  <1> USE DEF ClientInv
  <1>1. CASE WaitForBudget(c)
    BY <1>1 DEF WaitForBudget, BudgetWait, TypeOK, Others, shopVars, Untold
  <1>2. CASE WaitFails(c) \/ ReceiveFails(c) \/ RaiseLast(c)
    <2>1. PICK why \in Causes : Fail(c, why) /\ UNCHANGED <<shopVars, bucket>>
      BY <1>2 DEF WaitFails, ReceiveFails, RaiseLast, TypeOK, Causes
    <2>2. NoAnswer \in [kind : Kinds, told : 0..MaxBucket \cup {Untold}]
      BY DEF NoAnswer, Kinds
    <2>3. TypeOK'
      BY <2>1, <2>2 DEF Fail, TypeOK, shopVars
    <2>4. Others(c)
      BY <2>1 DEF Fail, TypeOK, Others, shopVars
    <2> QED
      BY <2>3, <2>4
  <1>3. CASE Receive(c)
    <2>1. /\ bucket' \in 0..MaxBucket \cup {Untold}
          /\ answer' \in [Calls -> [kind : Kinds, told : 0..MaxBucket \cup {Untold}]]
          /\ cause' \in [Calls -> Causes]
      BY <1>3 DEF Receive, TypeOK, NoAnswer, Untold, Kinds, Causes, CauseOf
    <2>2. attempt[c] < MaxRetries
      BY <1>3 DEF Receive, RepeatInv
    <2>3. /\ attempt' \in [Calls -> 0..MaxRetries]
          /\ timer' \in [Calls -> Nat]
          /\ pc' \in [Calls -> {"idle", "ready", "answered", "ok", "failed"}]
      <3>1. /\ attempt[c] + 1 \in 0..MaxRetries
            /\ ThrottleBackoff(attempt[c]) \in Nat /\ ErrorBackoff(attempt[c]) \in Nat
        BY <2>2 DEF TypeOK, ThrottleBackoff, ErrorBackoff, Seconds
      <3>2. CASE Retried(answer[c].kind)
        <4>1. /\ pc' = [pc EXCEPT ![c] = "ready"]
              /\ attempt' = [attempt EXCEPT ![c] = @ + 1]
              /\ \E n \in {0, ThrottleBackoff(attempt[c]), ErrorBackoff(attempt[c])} :
                    timer' = [timer EXCEPT ![c] = n]
          BY <1>3, <3>2 DEF Receive
        <4> QED
          BY <3>1, <4>1 DEF TypeOK
      <3>3. CASE ~Retried(answer[c].kind)
        <4>1. /\ pc' = [pc EXCEPT ![c] = IF Succeeds(c, answer[c].kind) THEN "ok" ELSE "failed"]
              /\ attempt' = [attempt EXCEPT ![c] = 0] /\ timer' = timer
          BY <1>3, <3>3 DEF Receive
        <4> QED
          BY <4>1 DEF TypeOK
      <3> QED
        BY <3>2, <3>3
    <2>4. TypeOK'
      BY <1>3, <2>1, <2>3 DEF Receive, TypeOK, shopVars
    <2>5. Others(c)
      BY <1>3 DEF Receive, TypeOK, Others, shopVars
    <2> QED
      BY <2>4, <2>5
  <1> QED
    BY <1>1, <1>2, <1>3 DEF Caller

LEMMA CallerKeeps ==
    ASSUME ClientInv, NEW c \in Calls, Caller(c)
    PROVE  RepeatInv(c)' /\ ThrottleInv(c)'
  <1> USE DEF ClientInv
  <1>0. TypeOK'
    BY CallerTyped
  <1>1. CASE WaitForBudget(c)
    BY <1>1 DEF WaitForBudget, TypeOK, RepeatInv, ThrottleInv, Sent, Unclosed, shopVars
  <1>2. CASE WaitFails(c) \/ ReceiveFails(c)
    BY <1>2 DEF WaitFails, ReceiveFails, Fail, TypeOK, RepeatInv, ThrottleInv, Sent,
                Unclosed, shopVars
  <1>3. CASE RaiseLast(c)
    BY <1>3 DEF RaiseLast, Fail, TypeOK, RepeatInv, ThrottleInv, Sent, Unclosed, shopVars
  <1>4. CASE Receive(c)
    <2> DEFINE kind == answer[c].kind
    <2>1. CASE Retried(kind)
      <3>1. /\ pc'[c] = "ready" /\ attempt'[c] = attempt[c] + 1
            /\ cause'[c] = CauseOf(kind)
            /\ timer'[c] = IF attempt[c] + 1 = MaxRetries THEN 0
                           ELSE IF kind = "throttled" THEN ThrottleBackoff(attempt[c])
                           ELSE ErrorBackoff(attempt[c])
        BY <1>4, <2>1 DEF Receive, TypeOK, Retried, Succeeds
      <3>2. RepeatInv(c)'
        BY <1>4, <2>1, <3>1 DEF Receive, TypeOK, RepeatInv, Sent, Unclosed, shopVars, Retried
      <3>3. ThrottleInv(c)'
        BY <1>4, <2>1, <3>1 DEF Receive, TypeOK, RepeatInv, ThrottleInv, shopVars, Retried,
             CauseOf, ThrottleBackoff, ErrorBackoff, Seconds
      <3> QED
        BY <3>2, <3>3
    <2>2. CASE ~Retried(kind)
      <3>1. /\ pc'[c] = IF Succeeds(c, kind) THEN "ok" ELSE "failed"
            /\ cause'[c] = IF Succeeds(c, kind) THEN "none" ELSE CauseOf(kind)
        BY <1>4, <2>2 DEF Receive, TypeOK
      <3>2. RepeatInv(c)'
        BY <1>4, <2>2, <3>1 DEF Receive, TypeOK, RepeatInv, Sent, Unclosed, shopVars,
             Retried, Succeeds, CauseOf, Kinds
      <3>3. ThrottleInv(c)'
        BY <1>4, <2>2, <3>1 DEF Receive, TypeOK, ThrottleInv, shopVars, Retried, Succeeds,
             CauseOf
      <3> QED
        BY <3>2, <3>3
    <2> QED
      BY <2>1, <2>2
  <1> QED
    BY <1>1, <1>2, <1>3, <1>4 DEF Caller

LEMMA ChargeEffect ==
    ASSUME TypeOK, NEW c \in Calls, Charge(c)
    PROVE  /\ points' \in 0..MaxBucket /\ contended' \subseteq Calls
           /\ contended \subseteq contended'
           /\ c \in contended' <=> c \in contended
           /\ \A d \in Calls \ {c} :
                 attempt[d] > 0 => d \in contended'
  BY DEF Charge, TypeOK

LEMMA AnswerTyped ==
    ASSUME TypeOK, NEW c \in Calls, NEW kind \in Kinds,
           NEW told \in 0..MaxBucket \cup {Untold}, AnswerWith(c, kind, told)
    PROVE  /\ pc' \in [Calls -> {"idle", "ready", "answered", "ok", "failed"}]
           /\ answer' \in [Calls -> [kind : Kinds, told : 0..MaxBucket \cup {Untold}]]
           /\ attempt' = attempt /\ timer' = timer /\ cause' = cause /\ bucket' = bucket
           /\ \A d \in Calls \ {c} : pc'[d] = pc[d] /\ answer'[d] = answer[d]
  BY DEF AnswerWith, TypeOK

LEMMA AnswersTyped ==
    ASSUME ClientInv, NEW c \in Calls, Answers(c)
    PROVE  TypeOK' /\ Others(c)
  <1> USE DEF ClientInv
  <1>1. CASE Throttle(c)
    <2>1. PICK kind \in Kinds, told \in 0..MaxBucket \cup {Untold} : AnswerWith(c, kind, told)
      BY <1>1 DEF Throttle, TypeOK, Kinds
    <2> QED
      BY <1>1, <2>1, AnswerTyped DEF Throttle, shopVars, TypeOK, Others
  <1>4. CASE RefuseRequest(c)
    <2>1. PICK kind \in Kinds, told \in 0..MaxBucket \cup {Untold} : AnswerWith(c, kind, told)
      BY <1>4, ChargeEffect DEF RefuseRequest, TypeOK, Kinds
    <2>2. /\ points' \in 0..MaxBucket /\ contended' \subseteq Calls
          /\ contended \subseteq contended'
          /\ \A d \in Calls \ {c} : attempt[d] > 0 => d \in contended' \/ points' = points
      BY <1>4, ChargeEffect DEF RefuseRequest, TypeOK
    <2>3. admitted' = admitted /\ effects' = effects /\ unsettled' = unsettled
      BY <1>4 DEF RefuseRequest
    <2> QED
      BY <2>1, <2>2, <2>3, AnswerTyped DEF TypeOK, Others
  <1>2. CASE Serve(c) \/ RefuseInput(c)
    <2>1. PICK kind \in Kinds, told \in 0..MaxBucket \cup {Untold} : AnswerWith(c, kind, told)
      BY <1>2, ChargeEffect DEF Serve, RefuseInput, Kinds
    <2>2. /\ points' \in 0..MaxBucket /\ contended' \subseteq Calls
          /\ contended \subseteq contended'
          /\ \A d \in Calls \ {c} : attempt[d] > 0 => d \in contended'
      BY <1>2, ChargeEffect DEF Serve, RefuseInput
    <2>3. /\ effects' \in [Calls -> Nat]
          /\ \A d \in Calls \ {c} : effects'[d] = effects[d]
          /\ admitted' = admitted /\ unsettled' = unsettled
      BY <1>2 DEF Serve, RefuseInput, TypeOK
    <2> QED
      BY <2>1, <2>2, <2>3, AnswerTyped DEF TypeOK, Others
  <1>3. CASE BreakDown(c)
    <2>1. PICK kind \in Kinds, told \in 0..MaxBucket \cup {Untold} : AnswerWith(c, kind, told)
      BY <1>3 DEF BreakDown, Kinds
    <2>2. /\ points' \in 0..MaxBucket /\ contended' \subseteq Calls
          /\ contended \subseteq contended'
          /\ \A d \in Calls \ {c} : attempt[d] > 0 => d \in contended' \/ points' = points
      BY <1>3, ChargeEffect DEF BreakDown, TypeOK
    <2>3. /\ admitted' \in [Calls -> Nat] /\ unsettled' \in [Calls -> Nat]
          /\ effects' = effects
          /\ \A d \in Calls \ {c} : admitted'[d] = admitted[d] /\ unsettled'[d] = unsettled[d]
      BY <1>3 DEF BreakDown, TypeOK
    <2> QED
      BY <2>1, <2>2, <2>3, AnswerTyped DEF TypeOK, Others
  <1> QED
    BY <1>1, <1>2, <1>3, <1>4 DEF Answers

LEMMA AnswersKeep ==
    ASSUME ClientInv, NEW c \in Calls, Answers(c)
    PROVE  RepeatInv(c)' /\ ThrottleInv(c)'
  <1> USE DEF ClientInv
  <1>0. TypeOK'
    BY AnswersTyped
  <1>1. ASSUME NEW kind \in Kinds, NEW told, AnswerWith(c, kind, told)
        PROVE  /\ pc[c] = "ready" /\ timer[c] = 0 /\ attempt[c] < MaxRetries
               /\ pc'[c] = "answered" /\ answer'[c].kind = kind
               /\ attempt' = attempt
    BY <1>1 DEF AnswerWith, Sends, TypeOK
  <1>2. CASE Throttle(c)
    BY <1>1, <1>2 DEF Throttle, shopVars, TypeOK, RepeatInv, ThrottleInv, Sent, Unclosed,
                      Kinds
  <1>5. CASE RefuseRequest(c)
    <2>1. pc'[c] = "answered" /\ answer'[c].kind = "rejected" /\ attempt' = attempt
          /\ pc[c] = "ready" /\ attempt[c] < MaxRetries
      BY <1>1, <1>5 DEF RefuseRequest, Kinds
    <2>2. admitted' = admitted /\ effects' = effects /\ unsettled' = unsettled
      BY <1>5 DEF RefuseRequest
    <2> QED
      BY <2>1, <2>2 DEF TypeOK, RepeatInv, ThrottleInv, Sent, Unclosed
  <1>3. CASE Serve(c) \/ RefuseInput(c)
    BY <1>1, <1>3, ChargeEffect DEF Serve, RefuseInput, TypeOK, RepeatInv, ThrottleInv,
                      Sent, Unclosed, Kinds
  <1>4. CASE BreakDown(c)
    BY <1>1, <1>4, ChargeEffect DEF BreakDown, TypeOK, RepeatInv, ThrottleInv,
                      Sent, Unclosed, Kinds
  <1> QED
    BY <1>2, <1>3, <1>4, <1>5 DEF Answers

LEMMA CarryOutKeeps ==
    ASSUME ClientInv, NEW c \in Calls, CarryOut(c)
    PROVE  TypeOK' /\ Others(c) /\ RepeatInv(c)' /\ ThrottleInv(c)'
  <1>1. TypeOK' /\ Others(c)
    BY DEF ClientInv, CarryOut, TypeOK, Others, callVars
  <1>2. RepeatInv(c)'
    BY DEF ClientInv, CarryOut, TypeOK, RepeatInv, Sent, Unclosed, callVars
  <1>3. ThrottleInv(c)'
    BY DEF ClientInv, CarryOut, ThrottleInv, callVars
  <1> QED
    BY <1>1, <1>2, <1>3

LEMMA ClientStep == ClientInv /\ [Next]_vars => ClientInv'
  <1> SUFFICES ASSUME ClientInv, [Next]_vars PROVE ClientInv'
    OBVIOUS
  <1>1. CASE Tick
    BY <1>1, TickKeeps
  <1>2. ASSUME NEW c \in Calls, Caller(c) \/ Answers(c) \/ CarryOut(c)
        PROVE  ClientInv'
    <2>1. TypeOK' /\ Others(c) /\ RepeatInv(c)' /\ ThrottleInv(c)'
      BY <1>2, CallerTyped, CallerKeeps, AnswersTyped, AnswersKeep, CarryOutKeeps
    <2> QED
      BY <2>1, OthersKeep DEF ClientInv
  <1>3. CASE UNCHANGED vars
    BY <1>3 DEF vars, callVars, shopVars, ClientInv, TypeOK, RepeatInv, ThrottleInv, Sent,
                Unclosed
  <1> QED
    BY <1>1, <1>2, <1>3 DEF Next

(* The strengthened invariant holds throughout, for any calls, costs, bucket *)
(* sizes and failures (execute).                                             *)
THEOREM ClientInvariant == Spec => []ClientInv
  BY ClientInit, ClientStep, PTL DEF Spec

-----------------------------------------------------------------------------
(* The invariants the runs check *)

(* No step leaves the types: no call is tried more than three times. *)
THEOREM TypeCorrect == Spec => []TypeOK
  BY ClientInvariant, PTL DEF ClientInv

(* A call is carried out at most once more than server errors were answered. *)
THEOREM RepeatsAreExcused == Spec => []RepeatsFollowServerErrors
  <1>1. ClientInv => RepeatsFollowServerErrors
    BY DEF ClientInv, RepeatInv, Sent, RepeatsFollowServerErrors
  <1> QED
    BY <1>1, ClientInvariant, PTL

(* Three attempts outlast an empty bucket unless other calls drain it. *)
THEOREM BackoffRestoresBudget == Spec => []ThrottledOutMeansContended
  <1>1. ClientInv => ThrottledOutMeansContended
    BY DEF ClientInv, ThrottleInv, ThrottledOutMeansContended
  <1> QED
    BY <1>1, ClientInvariant, PTL

-----------------------------------------------------------------------------
(* The contract *)

LEMMA ContractInit == Init => Contract!ContractInit
  <1> SUFFICES ASSUME Init PROVE Contract!ContractInit
    OBVIOUS
  <1>1. \A c \in Calls : Outcome(c) = "open"
    BY DEF Init, Outcome
  <1>2. effects = [c \in Calls |-> 0]
    BY DEF Init
  <1> QED
    BY <1>1, <1>2 DEF Contract!ContractInit

(* A step that tells no caller anything and has no effect. *)
LEMMA ContractStutter ==
    ASSUME \A d \in Calls : Outcome(d)' = Outcome(d), effects' = effects
    PROVE  UNCHANGED Contract!contractVars
  BY DEF Contract!contractVars

LEMMA OutcomeMove ==
    ASSUME NEW c \in Calls, NEW result,
           \A d \in Calls \ {c} : Outcome(d)' = Outcome(d), Outcome(c)' = result
    PROVE  [d \in Calls |-> Outcome(d)]'
              = [[d \in Calls |-> Outcome(d)] EXCEPT ![c] = result]
  OBVIOUS

LEMMA OthersOutcome ==
    ASSUME NEW c \in Calls, Others(c), NEW d \in Calls \ {c}
    PROVE  Outcome(d)' = Outcome(d)
  BY DEF Others, Outcome

(* The caller is told success or failure; a success was done, or nobody reads *)
(* whether it was.                                                            *)
LEMMA CallerContract ==
    ASSUME ClientInv, NEW c \in Calls, Caller(c)
    PROVE  [Contract!ContractNext]_(Contract!contractVars)
  <1>1. Others(c) /\ effects' = effects
    BY CallerTyped DEF Caller, WaitForBudget, WaitFails, Receive, ReceiveFails, RaiseLast,
                       shopVars
  <1>2. pc[c] \in {"idle", "ready", "answered"} /\ Outcome(c) = "open"
    BY DEF Caller, WaitForBudget, WaitFails, Receive, ReceiveFails, RaiseLast, Outcome
  <1>3. Outcome(c)' \in {"open", "success", "failure"}
    BY DEF Outcome
  <1>4. CASE Outcome(c)' = "open"
    BY <1>1, <1>2, <1>4, OthersOutcome, ContractStutter
  <1>5. CASE Outcome(c)' = "success"
    <2>1. pc'[c] = "ok"
      BY <1>5 DEF Outcome
    <2>2. effects[c] > 0 \/ c \in Unread
      BY <1>1, <2>1, CallerKeeps DEF RepeatInv
    <2> QED
      BY <1>1, <1>2, <1>5, <2>2, OthersOutcome, OutcomeMove
      DEF Contract!ContractNext, Contract!Succeed
  <1>6. CASE Outcome(c)' = "failure"
    BY <1>1, <1>2, <1>6, OthersOutcome, OutcomeMove
    DEF Contract!ContractNext, Contract!Fail
  <1> QED
    BY <1>3, <1>4, <1>5, <1>6

(* Shopify carries a call out, whatever its caller knows by then. *)
LEMMA EffectContract ==
    ASSUME ClientInv, NEW c \in Calls, Others(c), effects' = [effects EXCEPT ![c] = @ + 1],
           Outcome(c)' = Outcome(c), TypeOK', RepeatInv(c)'
    PROVE  [Contract!ContractNext]_(Contract!contractVars)
  <1>1. effects[c] \in Nat /\ effects'[c] = effects[c] + 1
    BY DEF ClientInv, TypeOK
  <1>2. effects[c] < MaxRetries
    BY <1>1 DEF RepeatInv, Sent, TypeOK
  <1>3. [d \in Calls |-> Outcome(d)]' = [d \in Calls |-> Outcome(d)]
    BY OthersOutcome
  <1> QED
    BY <1>2, <1>3 DEF Contract!ContractNext, Contract!CarryOut

LEMMA AnswersContract ==
    ASSUME ClientInv, NEW c \in Calls, Answers(c)
    PROVE  [Contract!ContractNext]_(Contract!contractVars)
  <1>1. Others(c) /\ pc[c] = "ready" /\ pc'[c] = "answered"
    BY AnswersTyped DEF Answers, Throttle, Serve, RefuseInput, RefuseRequest, BreakDown,
         AnswerWith, Sends, ClientInv, TypeOK
  <1>2. Outcome(c) = "open" /\ Outcome(c)' = "open"
    BY <1>1 DEF Outcome
  <1>3. CASE Serve(c)
    BY <1>1, <1>2, <1>3, AnswersTyped, AnswersKeep, EffectContract DEF Serve
  <1>4. CASE ~Serve(c)
    <2>1. effects' = effects
      BY <1>4 DEF Answers, Throttle, RefuseInput, RefuseRequest, BreakDown, shopVars
    <2> QED
      BY <1>1, <1>2, <2>1, OthersOutcome, ContractStutter
  <1> QED
    BY <1>3, <1>4

LEMMA CarryOutContract ==
    ASSUME ClientInv, NEW c \in Calls, CarryOut(c)
    PROVE  [Contract!ContractNext]_(Contract!contractVars)
  <1>1. Outcome(c)' = Outcome(c)
    BY DEF CarryOut, callVars, Outcome
  <1>2. effects' = [effects EXCEPT ![c] = @ + 1]
    BY DEF CarryOut
  <1> QED
    BY <1>1, <1>2, CarryOutKeeps, EffectContract

LEMMA ContractStep ==
    ClientInv /\ [Next]_vars => [Contract!ContractNext]_(Contract!contractVars)
  <1> SUFFICES ASSUME ClientInv, [Next]_vars
               PROVE  [Contract!ContractNext]_(Contract!contractVars)
    OBVIOUS
  <1>1. CASE Tick
    <2>1. effects' = effects /\ \A d \in Calls : Outcome(d)' = Outcome(d)
      BY <1>1 DEF Tick, Outcome
    <2> QED
      BY <2>1, ContractStutter
  <1>2. ASSUME NEW c \in Calls, Caller(c) \/ Answers(c) \/ CarryOut(c)
        PROVE  [Contract!ContractNext]_(Contract!contractVars)
    BY <1>2, CallerContract, AnswersContract, CarryOutContract
  <1>3. CASE UNCHANGED vars
    <2>1. effects' = effects /\ \A d \in Calls : Outcome(d)' = Outcome(d)
      BY <1>3 DEF vars, callVars, shopVars, Outcome
    <2> QED
      BY <2>1, ContractStutter
  <1> QED
    BY <1>1, <1>2, <1>3 DEF Next

(* A caller that reads userErrors is told success only of what Shopify has   *)
(* done, the answer to a caller never changes, and no call is done more      *)
(* often than it is sent, for any number of calls that share the bucket      *)
(* (execute, and the tools that report what it returns or raises).           *)
THEOREM ClientImplementsContract == Spec => ImplementsContract
  BY ClientInvariant, ContractInit, ContractStep, PTL DEF Spec, ImplementsContract,
     Contract!ContractSpec
-----------------------------------------------------------------------------
(* What success means, and why a call comes to an end *)

(* A success on the way to which Shopify reported no server error, of a call *)
(* whose userErrors are read: it was done once, and is not still to be done  *)
(* by a request on its way (inventoryMoveQuantities adds up when repeated).  *)
SuccessIsOnce ==
    \A c \in Calls \ Unread :
        pc[c] = "ok" /\ unsettled[c] = 0 => effects[c] = 1 /\ admitted[c] = 0

(* What is reported as written was written once, unless a 5xx answer made    *)
(* the client repeat it: neither throttling nor other calls double it.       *)
THEOREM SuccessesAreOnce == Spec => []SuccessIsOnce
  <1>1. ClientInv => SuccessIsOnce
    <2> SUFFICES ASSUME ClientInv, NEW c \in Calls \ Unread,
                        pc[c] = "ok", unsettled[c] = 0
                 PROVE  effects[c] = 1 /\ admitted[c] = 0
      BY DEF SuccessIsOnce
    <2>1. RepeatInv(c) /\ effects[c] \in Nat /\ admitted[c] \in Nat
      BY DEF ClientInv, TypeOK
    <2> QED
      BY <2>1 DEF RepeatInv, Sent
  <1> QED
    BY <1>1, ClientInvariant, PTL

(* Moves a call has left: two for every attempt, and the one that ends it. *)
CallRank(c) ==
    CASE pc[c] = "idle" -> 2 * MaxRetries + 2
      [] pc[c] = "ready" -> 2 * (MaxRetries - attempt[c]) + 1
      [] pc[c] = "answered" -> 2 * (MaxRetries - attempt[c])
      [] OTHER -> 0

CountsDown(c) ==
    /\ CallRank(c)' <= CallRank(c)
    /\ Caller(c) \/ Answers(c) => CallRank(c)' < CallRank(c)

AllCountDown == \A c \in Calls : CountsDown(c)

(* No step of another call, of Shopify or of time gives a call moves back, *)
(* and each of its own uses one up: it has at most eight.                  *)
CallsCountDown == [][AllCountDown]_vars

LEMMA RankDrops ==
    ASSUME ClientInv, NEW c \in Calls, Caller(c) \/ Answers(c)
    PROVE  CallRank(c)' < CallRank(c) /\ CallRank(c)' <= CallRank(c)
  <1>1. TypeOK' /\ RepeatInv(c) /\ RepeatInv(c)' /\ TypeOK
    BY CallerTyped, CallerKeeps, AnswersTyped, AnswersKeep DEF ClientInv
  <1>2. pc[c] \in {"idle", "ready", "answered", "ok", "failed"} /\ attempt[c] \in 0..3
        /\ pc'[c] \in {"idle", "ready", "answered", "ok", "failed"} /\ attempt'[c] \in 0..3
    BY <1>1 DEF TypeOK
  <1>3. CASE Answers(c)
    <2>1. pc[c] = "ready" /\ pc'[c] = "answered" /\ attempt'[c] = attempt[c]
      BY <1>1, <1>3 DEF Answers, Throttle, Serve, RefuseInput, RefuseRequest, BreakDown,
                        AnswerWith, Sends, TypeOK
    <2> QED
      BY <1>2, <2>1 DEF CallRank
  <1>4. CASE WaitForBudget(c)
    <2>1. pc[c] = "idle" /\ pc'[c] = "ready" /\ attempt'[c] = attempt[c]
      BY <1>1, <1>4 DEF WaitForBudget, TypeOK
    <2> QED
      BY <1>2, <2>1 DEF CallRank
  <1>5. CASE WaitFails(c) \/ ReceiveFails(c) \/ RaiseLast(c)
    <2>1. pc'[c] = "failed" /\ pc[c] \in {"idle", "ready", "answered"}
      BY <1>1, <1>5 DEF WaitFails, ReceiveFails, RaiseLast, Fail, TypeOK
    <2>2. pc[c] = "answered" => attempt[c] < 3
      BY <1>1 DEF RepeatInv
    <2> QED
      BY <1>2, <2>1, <2>2 DEF CallRank
  <1>6. CASE Receive(c)
    <2>1. pc[c] = "answered" /\ attempt[c] < 3
      BY <1>1, <1>6 DEF Receive, RepeatInv
    <2>2. \/ pc'[c] = "ready" /\ attempt'[c] = attempt[c] + 1
          \/ pc'[c] \in {"ok", "failed"}
      BY <1>1, <1>6 DEF Receive, TypeOK
    <2> QED
      BY <1>2, <2>1, <2>2 DEF CallRank
  <1> QED
    BY <1>3, <1>4, <1>5, <1>6 DEF Caller

LEMMA RankKept ==
    ASSUME ClientInv, NEW d \in Calls, pc'[d] = pc[d], attempt'[d] = attempt[d]
    PROVE  CallRank(d)' <= CallRank(d) /\ ~Caller(d) /\ ~Answers(d)
  <1>1. CallRank(d)' = CallRank(d) /\ CallRank(d) \in Nat
    <2>1. attempt[d] \in 0..3
      BY DEF ClientInv, TypeOK
    <2> QED
      BY <2>1 DEF CallRank
  <1>2. ~(CallRank(d)' < CallRank(d))
    BY <1>1
  <1> QED
    BY <1>1, <1>2, RankDrops

(* Every call of the client ends within eight moves of its own, whatever    *)
(* Shopify answers and whatever the other calls do (the loop of execute).   *)
THEOREM CallsTakeEightMoves == Spec => CallsCountDown
  <1>1. ASSUME ClientInv, [Next]_vars, NEW d \in Calls PROVE CountsDown(d)
    <2>1. CASE Tick \/ UNCHANGED vars
      <3>1. pc' = pc /\ attempt' = attempt
        BY <2>1 DEF Tick, vars, callVars
      <3> QED
        BY <1>1, <3>1, RankKept DEF CountsDown
    <2>2. ASSUME NEW c \in Calls, Caller(c) \/ Answers(c) \/ CarryOut(c), d # c
          PROVE  pc'[d] = pc[d] /\ attempt'[d] = attempt[d]
      BY <1>1, <2>2, CallerTyped, AnswersTyped, CarryOutKeeps DEF Others
    <2>3. CASE CarryOut(d)
      <3>1. pc' = pc /\ attempt' = attempt
        BY <2>3 DEF CarryOut, callVars
      <3> QED
        BY <1>1, <3>1, RankKept DEF CountsDown
    <2>4. CASE Caller(d) \/ Answers(d)
      <3>1. CallRank(d)' < CallRank(d) /\ CallRank(d)' <= CallRank(d)
        BY <1>1, <2>4, RankDrops
      <3> QED
        BY <3>1 DEF CountsDown
    <2> QED
      BY <1>1, <2>1, <2>2, <2>3, <2>4, RankKept DEF Next, CountsDown
  <1>2. ClientInv /\ [Next]_vars => [AllCountDown]_vars
    BY <1>1 DEF AllCountDown
  <1> QED
    BY <1>2, ClientInvariant, PTL DEF Spec, CallsCountDown
=============================================================================
