--------------------------- MODULE ReadinessProofs --------------------------
(***************************************************************************)
(* The readiness check, for any set of dependencies and any number of      *)
(* requests.                                                               *)
(***************************************************************************)
EXTENDS Readiness, FiniteSetTheorems, TLAPS

(* The goroutines that have not called wg.Done.                            *)
Out == {p \in Probes : probe[p] # "none"}

(* The counter of the WaitGroup is theirs, and the handler does not get    *)
(* past it before they are all back.                                       *)
WaitGroupCounts == wg = Cardinality(Out)

HandlerWaits == answer # "waiting" => Out = {}

(* What the goroutines have written so far: `healthy` first, then the      *)
(* status string of the probe that failed.                                 *)
HealthyAgrees ==
  healthy <=> \A p \in Probes : status[p] = "OK" /\ probe[p] # "failed"

AnswerAgrees ==
  /\ answer = "200" => healthy
  /\ answer = "503" => ~healthy

(* What they write is what their dependency was.                           *)
ReportAt(p) ==
  answer # "idle" =>
    /\ probe[p] = "probing" => status[p] = "OK" /\ StateOf(p) \in seen[p]
    /\ probe[p] = "failed" => "DOWN" \in seen[p]
    /\ probe[p] \in {"done", "none"} => status[p] \in seen[p]

Inv ==
  /\ TypeOK /\ WaitGroupCounts /\ HandlerWaits /\ HealthyAgrees /\ AnswerAgrees
  /\ \A p \in Probes : ReportAt(p)

LEMMA OutIsFinite == IsFiniteSet(Out) /\ Cardinality(Out) \in 0..Cardinality(Probes)
<1>1. Out \subseteq Probes /\ IsFiniteSet(Probes)
  BY ReadinessAssumption DEF Out
<1>2. IsFiniteSet(Out) /\ Cardinality(Out) <= Cardinality(Probes)
  BY <1>1, FS_Subset
<1>3. Cardinality(Out) \in Nat /\ Cardinality(Probes) \in Nat
  BY <1>1, <1>2, FS_CardinalityType
<1> QED BY <1>2, <1>3

LEMMA InvInit == Init => Inv
<1> SUFFICES ASSUME Init PROVE Inv
  OBVIOUS
<1>1. Out = {}
  BY DEF Init, Out
<1>2. wg = Cardinality(Out)
  BY <1>1, FS_EmptySet DEF Init
<1>3. wg \in 0..Cardinality(Probes)
  BY <1>2, OutIsFinite
<1>4. TypeOK
  BY <1>3, ReadinessAssumption DEF Init, TypeOK
<1> QED BY <1>1, <1>2, <1>4
     DEF Init, Inv, WaitGroupCounts, HandlerWaits, HealthyAgrees, AnswerAgrees, ReportAt

LEMMA WaitGroupStep ==
  ASSUME Inv, [Next]_vars
  PROVE  WaitGroupCounts' /\ HandlerWaits'
<1>0. /\ TypeOK /\ wg = Cardinality(Out)
      /\ answer # "waiting" => Out = {}
      /\ IsFiniteSet(Out) /\ Cardinality(Out) \in Nat
  BY OutIsFinite DEF Inv, WaitGroupCounts, HandlerWaits
<1>1. CASE Check
  <2>1. Out' = Probes /\ wg' = Cardinality(Probes) /\ answer' = "waiting"
    BY <1>1 DEF Check, Out
  <2> QED BY <2>1 DEF WaitGroupCounts, HandlerWaits
<1>2. CASE UNCHANGED <<wg, answer>> /\ Out' = Out
  BY <1>0, <1>2 DEF WaitGroupCounts, HandlerWaits
<1>3. CASE Answer
  <2>1. Out = {}
    BY <1>0, <1>3, FS_EmptySet DEF Answer, Joined
  <2>2. Out' = Out /\ wg' = wg
    BY <1>3 DEF Answer, Out
  <2> QED BY <1>0, <2>1, <2>2 DEF WaitGroupCounts, HandlerWaits
<1>4. CASE Finish
  <2>1. Out' = Out /\ wg' = wg /\ Out = {}
    BY <1>4 DEF Finish, Out
  <2> QED BY <1>0, <2>1 DEF WaitGroupCounts, HandlerWaits
<1>5. ASSUME NEW p \in Probes, Succeed(p) \/ Fail(p) \/ Report(p) \/ Toggle(p)
      PROVE  UNCHANGED <<wg, answer>> /\ Out' = Out
  BY <1>0, <1>5 DEF Succeed, Fail, Report, Toggle, Out, TypeOK
<1>6. ASSUME NEW p \in Probes, Done(p)
      PROVE  WaitGroupCounts' /\ HandlerWaits'
  <2>1. p \in Out /\ Out' = Out \ {p} /\ wg' = wg - 1 /\ answer' = answer
    BY <1>0, <1>6 DEF Done, Out, TypeOK
  <2>2. Cardinality(Out \ {p}) = Cardinality(Out) - 1
    BY <1>0, <2>1, FS_RemoveElement
  <2>3. answer = "waiting"
    BY <1>0, <2>1
  <2> QED BY <1>0, <2>1, <2>2, <2>3 DEF WaitGroupCounts, HandlerWaits
<1>7. CASE UNCHANGED vars
  BY <1>2, <1>7 DEF vars, Out
<1> QED BY <1>1, <1>2, <1>3, <1>4, <1>5, <1>6, <1>7 DEF Next

LEMMA TypeStep ==
  ASSUME Inv, [Next]_vars
  PROVE  TypeOK'
<1>0. TypeOK
  BY DEF Inv
<1>1. wg' \in 0..Cardinality(Probes)
  <2>1. wg' = Cardinality(Out')
    BY WaitGroupStep DEF WaitGroupCounts
  <2>2. Out' \subseteq Probes /\ IsFiniteSet(Probes)
    BY ReadinessAssumption DEF Out
  <2>3. IsFiniteSet(Out') /\ Cardinality(Out') <= Cardinality(Probes)
    BY <2>2, FS_Subset
  <2>4. Cardinality(Out') \in Nat /\ Cardinality(Probes) \in Nat
    BY <2>2, <2>3, FS_CardinalityType
  <2> QED BY <2>1, <2>3, <2>4
<1>2. CASE Answer \/ Finish \/ UNCHANGED vars
  BY <1>0, <1>1, <1>2 DEF Answer, Finish, vars, TypeOK
<1>4. CASE Check
  <2>1. checks' \in 0..MaxChecks
    BY <1>0, <1>4, ReadinessAssumption DEF Check, TypeOK
  <2>2. seen' \in [Probes -> SUBSET {"OK", "DOWN"}]
    BY <1>4 DEF Check, StateOf
  <2>3. /\ up' = up /\ probe' = [p \in Probes |-> "probing"] /\ healthy' = TRUE
        /\ status' = [p \in Probes |-> "OK"] /\ answer' = "waiting"
    BY <1>4 DEF Check
  <2> QED BY <1>0, <1>1, <2>1, <2>2, <2>3 DEF TypeOK
<1>3. ASSUME NEW p \in Probes, Succeed(p) \/ Fail(p) \/ Report(p) \/ Done(p) \/ Toggle(p)
      PROVE  TypeOK'
  <2>1. CASE Succeed(p) \/ Fail(p) \/ Done(p)
    BY <1>0, <1>1, <2>1 DEF Succeed, Fail, Done, TypeOK
  <2>2. CASE Report(p)
    BY <1>0, <1>1, <2>2 DEF Report, TypeOK
  <2>3. CASE Toggle(p)
    BY <1>0, <1>1, <2>3 DEF Toggle, TypeOK
  <2> QED BY <1>3, <2>1, <2>2, <2>3
<1> QED BY <1>2, <1>3, <1>4 DEF Next

LEMMA ReportStep ==
  ASSUME Inv, [Next]_vars
  PROVE  HealthyAgrees' /\ AnswerAgrees' /\ \A p \in Probes : ReportAt(p)'
<1>0. /\ TypeOK /\ HealthyAgrees /\ AnswerAgrees
      /\ \A p \in Probes : ReportAt(p)
      /\ answer # "waiting" => \A p \in Probes : probe[p] = "none"
  BY DEF Inv, HandlerWaits, Out
<1>1. CASE Check
  BY <1>0, <1>1 DEF Check, HealthyAgrees, AnswerAgrees, ReportAt, StateOf, TypeOK
<1>2. CASE Answer
  BY <1>0, <1>2 DEF Answer, HealthyAgrees, AnswerAgrees, ReportAt, StateOf, TypeOK
<1>3. CASE Finish
  BY <1>0, <1>3 DEF Finish, HealthyAgrees, AnswerAgrees, ReportAt, StateOf, TypeOK
<1>4. ASSUME NEW p \in Probes, Succeed(p) \/ Fail(p) \/ Report(p) \/ Done(p)
      PROVE  HealthyAgrees' /\ AnswerAgrees' /\ \A q \in Probes : ReportAt(q)'
  <2>1. answer = "waiting" /\ answer' = "waiting"
    BY <1>0, <1>4 DEF Succeed, Fail, Report, Done
  <2>2. HealthyAgrees'
    BY <1>0, <1>4, <2>1 DEF Succeed, Fail, Report, Done, HealthyAgrees, ReportAt, TypeOK
  <2>3. ASSUME NEW q \in Probes PROVE ReportAt(q)'
    BY <1>0, <1>4, <2>1 DEF Succeed, Fail, Report, Done, ReportAt, StateOf, TypeOK
  <2> QED BY <2>1, <2>2, <2>3 DEF AnswerAgrees
<1>5. ASSUME NEW p \in Probes, Toggle(p)
      PROVE  HealthyAgrees' /\ AnswerAgrees' /\ \A q \in Probes : ReportAt(q)'
  BY <1>0, <1>5 DEF Toggle, HealthyAgrees, AnswerAgrees, ReportAt, StateOf, TypeOK
<1>6. CASE UNCHANGED vars
  BY <1>0, <1>6 DEF vars, HealthyAgrees, AnswerAgrees, ReportAt, StateOf
<1> QED BY <1>1, <1>2, <1>3, <1>4, <1>5, <1>6 DEF Next

(* The inductive invariant holds of every reachable state.                 *)
THEOREM Invariance == Spec => []Inv
<1>1. Inv /\ [Next]_vars => Inv'
  BY TypeStep, WaitGroupStep, ReportStep DEF Inv
<1> QED BY InvInit, <1>1, PTL DEF Spec

(* Every variable of the readiness check keeps its type; the WaitGroup's   *)
(* counter never goes below zero, where Go would panic.                    *)
THEOREM TypeCorrect == Spec => []TypeOK
<1>1. Inv => TypeOK
  BY DEF Inv
<1> QED BY <1>1, Invariance, PTL

(* The code of an answer agrees with its fields, and each field is what    *)
(* its dependency was at some moment of the request, however the           *)
(* goroutines interleave and the dependencies come and go.                 *)
THEOREM AnswersTrue == Spec => []AnswerIsTrue
<1>1. Inv => AnswerIsTrue
  <2> SUFFICES ASSUME Inv, answer \in {"200", "503"} PROVE AnswerIsTrue
    BY DEF AnswerIsTrue
  <2>1. \A p \in Probes : probe[p] = "none"
    BY DEF Inv, HandlerWaits, Out
  <2>2. \A p \in Probes : status[p] \in seen[p]
    BY <2>1 DEF Inv, ReportAt
  <2>3. answer = "200" <=> \A p \in Probes : status[p] = "OK"
    BY <2>1 DEF Inv, HealthyAgrees, AnswerAgrees
  <2> QED BY <2>2, <2>3 DEF AnswerIsTrue
<1> QED BY <1>1, Invariance, PTL

(* While wg.Wait blocks, a goroutine is out that has yet to call wg.Done:  *)
(* none is counted twice or not at all.                                    *)
THEOREM WaitIsForSomebody ==
  Spec => [](answer = "waiting" /\ ~Joined => \E p \in Probes : probe[p] # "none")
<1>1. Inv => (~Joined => \E p \in Probes : probe[p] # "none")
  BY FS_EmptySet DEF Inv, WaitGroupCounts, Joined, Out
<1> QED BY <1>1, Invariance, PTL
=============================================================================
