----------------------------- MODULE Readiness ------------------------------
(***************************************************************************)
(* ReadyCheckHandle: two goroutines probe the database and Kafka while     *)
(* both come and go; the handler waits for them and answers from what they *)
(* left in `healthy` and in the two status strings.                        *)
(***************************************************************************)
EXTENDS Integers, FiniteSets

CONSTANTS
  Probes,   \* the dependencies: db and kafka
  MaxChecks \* requests in all (a bound)

ASSUME ReadinessAssumption == Probes # {} /\ IsFiniteSet(Probes) /\ MaxChecks \in Nat

VARIABLES
  up,      \* the dependencies that answer now
  probe,   \* probe -> where its goroutine is
  wg,      \* the WaitGroup's counter
  healthy, status, \* what the goroutines share with the handler
  answer,  \* the handler: "idle", "waiting", or its answer
  checks,  \* requests so far
  seen     \* history: probe -> what its dependency was during the request

vars == <<up, probe, wg, healthy, status, answer, checks, seen>>

StateOf(p) == IF p \in up THEN "OK" ELSE "DOWN"

Init ==
  /\ up = Probes
  /\ probe = [p \in Probes |-> "none"] /\ wg = 0
  /\ healthy = TRUE /\ status = [p \in Probes |-> "OK"]
  /\ answer = "idle" /\ checks = 0
  /\ seen = [p \in Probes |-> {}]

(* wg.Add for each probe, before its goroutine is started.                 *)
Check ==
  /\ answer = "idle" /\ checks < MaxChecks
  /\ checks' = checks + 1
  /\ answer' = "waiting"
  /\ healthy' = TRUE /\ status' = [p \in Probes |-> "OK"]
  /\ wg' = Cardinality(Probes) /\ probe' = [p \in Probes |-> "probing"]
  /\ seen' = [p \in Probes |-> {StateOf(p)}]
  /\ UNCHANGED up

(* The probe succeeds: nothing is written.                                 *)
Succeed(p) ==
  /\ probe[p] = "probing" /\ p \in up
  /\ probe' = [probe EXCEPT ![p] = "done"]
  /\ UNCHANGED <<up, wg, healthy, status, answer, checks, seen>>

(* The probe fails or runs into its three seconds: first healthy, then the *)
(* status string.                                                          *)
Fail(p) ==
  /\ probe[p] = "probing" /\ p \notin up
  /\ probe' = [probe EXCEPT ![p] = "failed"]
  /\ healthy' = FALSE
  /\ UNCHANGED <<up, wg, status, answer, checks, seen>>

Report(p) ==
  /\ probe[p] = "failed"
  /\ probe' = [probe EXCEPT ![p] = "done"]
  /\ status' = [status EXCEPT ![p] = "DOWN"]
  /\ UNCHANGED <<up, wg, healthy, answer, checks, seen>>

(* Mutant: a probe calls wg.Done both at its end and deferred.             *)
DoneTwice(p) ==
  /\ probe[p] = "done"
  /\ probe' = [probe EXCEPT ![p] = "none"]
  /\ wg' = wg - 2
  /\ UNCHANGED <<up, healthy, status, answer, checks, seen>>

(* defer wg.Done()                                                         *)
Done(p) ==
  /\ probe[p] = "done"
  /\ probe' = [probe EXCEPT ![p] = "none"]
  /\ wg' = wg - 1
  /\ UNCHANGED <<up, healthy, status, answer, checks, seen>>

(* Mutant: the handler goes on when the first probe is back.               *)
JoinedFirst == wg < Cardinality(Probes)

(* Mutant: one wg.Done too few.                                            *)
JoinedNever == wg < 0

(* wg.Wait()                                                               *)
Joined == wg = 0

Answer ==
  /\ answer = "waiting" /\ Joined
  /\ answer' = IF healthy THEN "200" ELSE "503"
  /\ UNCHANGED <<up, probe, wg, healthy, status, checks, seen>>

Finish ==
  /\ answer \in {"200", "503"} /\ \A p \in Probes : probe[p] = "none"
  /\ answer' = "idle"
  /\ UNCHANGED <<up, probe, wg, healthy, status, checks, seen>>

(* A dependency goes away or comes back.                                   *)
Toggle(p) ==
  /\ up' = IF p \in up THEN up \ {p} ELSE up \cup {p}
  /\ seen' = [seen EXCEPT ![p] = IF probe[p] = "probing" THEN {"OK", "DOWN"} ELSE @]
  /\ UNCHANGED <<probe, wg, healthy, status, answer, checks>>

Next ==
  \/ Check \/ Answer \/ Finish
  \/ \E p \in Probes : Succeed(p) \/ Fail(p) \/ Report(p) \/ Done(p) \/ Toggle(p)

Spec == Init /\ [][Next]_vars

(* Goroutines run; a probe ends, by its timeout at the latest.             *)
FairSpec ==
  /\ Spec /\ WF_vars(Answer)
  /\ \A p \in Probes : WF_vars(Succeed(p) \/ Fail(p) \/ Report(p) \/ Done(p))

-----------------------------------------------------------------------------
TypeOK ==
  /\ up \subseteq Probes
  /\ probe \in [Probes -> {"none", "probing", "failed", "done"}]
  /\ wg \in 0..Cardinality(Probes)
  /\ healthy \in BOOLEAN /\ status \in [Probes -> {"OK", "DOWN"}]
  /\ answer \in {"idle", "waiting", "200", "503"}
  /\ checks \in 0..MaxChecks /\ seen \in [Probes -> SUBSET {"OK", "DOWN"}]

(* The answer's code and its two fields agree, and each field is something *)
(* its dependency really was while the request was being answered.         *)
AnswerIsTrue ==
  answer \in {"200", "503"} =>
    /\ answer = "200" <=> \A p \in Probes : status[p] = "OK"
    /\ \A p \in Probes : status[p] \in seen[p]

(* Every check is answered, whatever the dependencies do meanwhile.        *)
Answered == answer = "waiting" ~> answer \in {"200", "503"}
=============================================================================
