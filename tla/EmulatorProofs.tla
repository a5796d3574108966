--------------------------- MODULE EmulatorProofs ---------------------------
(***************************************************************************)
(* Proofs about Emulator, for any number of random orders, any files and   *)
(* any topics.                                                             *)
(***************************************************************************)
EXTENDS Emulator, SequenceTheorems, TLAPS

Messages ==
  [random : 1..RandomCount, run : 1..(MaxFaults + 1)] \cup [file : Files]

(* What the run has passed over is in the topic, or was lost.              *)
Passed == \A i \in 1..Last : i < next /\ Loads(i) => Message(i) \in Delivered \cup lost

Inv ==
  /\ TypeOK /\ log \in Seq(Messages)
  /\ exit = "0" => next > Last
  /\ Passed

LEMMA LastIsNat == RandomCount \in Nat /\ FileCount \in Nat /\ Last \in Nat /\ MaxFaults \in Nat
BY EmulatorAssumption DEF Last

LEMMA MessageType ==
  ASSUME TypeOK, NEW i \in 1..Last
  PROVE  Message(i) \in Messages
<1>1. CASE i <= RandomCount
  BY <1>1, LastIsNat DEF TypeOK, Message, Messages
<1>2. CASE ~(i <= RandomCount)
  <2>1. i - RandomCount \in Files
    BY <1>2, LastIsNat DEF Last, Files
  <2> QED BY <1>2, <2>1 DEF Message, Messages, FileOf
<1> QED BY <1>1, <1>2

LEMMA AppendDelivers ==
  ASSUME NEW m \in Messages, log \in Seq(Messages), log' = Append(log, m)
  PROVE  log' \in Seq(Messages) /\ Delivered' = Delivered \cup {m}
<1>1. /\ log' \in Seq(Messages) /\ Len(log') = Len(log) + 1 /\ Len(log) \in Nat
      /\ \A k \in 1..Len(log) : log'[k] = log[k]
      /\ log'[Len(log) + 1] = m
  BY AppendProperties, LenProperties
<1>2. DOMAIN log = 1..Len(log) /\ DOMAIN log' = 1..(Len(log) + 1)
  BY <1>1, LenProperties
<1>3. 1..(Len(log) + 1) = (1..Len(log)) \cup {Len(log) + 1}
  BY <1>1
<1> QED BY <1>1, <1>2, <1>3 DEF Delivered

(* A step that moves on, or not, once the order it was at is accounted for. *)
LEMMA PassedKept ==
  ASSUME Inv, runs' = runs, Delivered \subseteq Delivered', lost \subseteq lost',
         \/ next' = next
         \/ next' = next + 1 /\ (next <= Last /\ Loads(next) => Message(next) \in Delivered' \cup lost')
  PROVE  Passed'
<1> SUFFICES ASSUME NEW i \in 1..Last, i < next', Loads(i)
             PROVE  Message(i)' \in Delivered' \cup lost'
  BY DEF Passed, Loads
<1>1. Message(i)' = Message(i)
  BY DEF Message
<1>2. CASE i < next
  BY <1>1, <1>2 DEF Inv, Passed
<1>3. CASE ~(i < next)
  <2>1. i = next
    BY <1>3, LastIsNat DEF Inv, TypeOK
  <2> QED BY <1>1, <1>3, <2>1, LastIsNat
<1> QED BY <1>2, <1>3

-----------------------------------------------------------------------------
(* The steps.                                                              *)

LEMMA InitInv == Init => Inv
<1> SUFFICES ASSUME Init PROVE Inv
  OBVIOUS
<1>1. /\ log = <<>> /\ lost = {} /\ topics = {}
      /\ next = 1 /\ exit = "running" /\ runs = 1 /\ faults = 0
  BY DEF Init
<1>2. log \in Seq(Messages) /\ Delivered = {}
  BY <1>1 DEF Delivered
<1>3. next \in 1..(Last + 1) /\ runs \in 1..(MaxFaults + 1) /\ faults \in 0..MaxFaults
  BY <1>1, LastIsNat
<1>4. TypeOK
  BY <1>1, <1>2, <1>3 DEF TypeOK
<1>5. Passed
  BY <1>1, LastIsNat DEF Passed
<1> QED BY <1>1, <1>2, <1>4, <1>5 DEF Inv

LEMMA WriteStep ==
  ASSUME Inv, NEW i \in 1..Last, Write(i) \/ WriteLost(i)
  PROVE  Inv'
<1>1. /\ exit = "running" /\ next = i /\ next' = next + 1
      /\ UNCHANGED <<topics, exit, runs>> /\ Message(i) \in Messages
  BY MessageType DEF Inv, Write, WriteLost, Writing
<1>2. /\ Delivered' \in {Delivered, Delivered \cup {Message(i)}} /\ log' \in Seq(Messages)
      /\ lost' \in {lost, lost \cup {Message(i)}} /\ Message(i) \in Delivered' \cup lost'
      /\ faults' \in 0..MaxFaults
  <2>1. CASE Write(i)
    BY <1>1, <2>1, AppendDelivers DEF Write, Inv, TypeOK
  <2>2. CASE WriteLost(i)
    BY <1>1, <2>2, LastIsNat DEF WriteLost, Inv, TypeOK, Delivered
  <2> QED BY <2>1, <2>2
<1>3. Passed'
  BY <1>1, <1>2, PassedKept
<1>4. next' \in 1..(Last + 1)
  BY <1>1, LastIsNat
<1>5. TypeOK'
  BY <1>1, <1>2, <1>4 DEF Inv, TypeOK, Messages
<1> QED BY <1>1, <1>2, <1>3, <1>5 DEF Inv

LEMMA WriteErrorStep ==
  ASSUME Inv, NEW i \in 1..Last, WriteError(i)
  PROVE  Inv'
<1>1. /\ exit' = "1" /\ UNCHANGED <<topics, next, runs, lost>> /\ Message(i) \in Messages
  BY MessageType DEF Inv, WriteError, WriteFailed
<1>2. Delivered' \in {Delivered, Delivered \cup {Message(i)}} /\ log' \in Seq(Messages)
  <2>1. CASE log' = log
    BY <2>1 DEF Inv, Delivered
  <2>2. CASE log' = Append(log, Message(i))
    BY <1>1, <2>2, AppendDelivers DEF Inv
  <2> QED BY <2>1, <2>2 DEF WriteError
<1>3. faults' \in 0..MaxFaults
  BY LastIsNat DEF WriteError, Inv, TypeOK
<1>4. Passed'
  BY <1>1, <1>2, PassedKept
<1>5. TypeOK'
  BY <1>1, <1>2, <1>3 DEF Inv, TypeOK, Messages
<1> QED BY <1>1, <1>2, <1>4, <1>5 DEF Inv

(* The steps that write nothing.                                           *)
LEMMA QuietStep ==
  ASSUME Inv, Skip \/ Exit \/ Kill
  PROVE  Inv'
<1>1. /\ UNCHANGED <<topics, runs, log, lost>> /\ faults' \in 0..MaxFaults
      /\ \/ exit' = exit /\ exit = "running" /\ next' = next + 1 /\ next <= Last /\ ~Loads(next)
         \/ exit' = "0" /\ next' = next /\ next > Last
         \/ exit' = "1" /\ next' = next
  BY LastIsNat DEF Skip, Exit, Kill, Inv, TypeOK
<1>2. Delivered' = Delivered /\ next' \in 1..(Last + 1)
  BY <1>1, LastIsNat DEF Delivered, Inv, TypeOK
<1>3. Passed'
  BY <1>1, <1>2, PassedKept
<1>4. TypeOK'
  BY <1>1, <1>2 DEF Inv, TypeOK
<1> QED BY <1>1, <1>3, <1>4 DEF Inv

LEMMA CreateStep ==
  ASSUME Inv, NEW t \in Creatable, Create(t)
  PROVE  Inv'
<1>1. /\ UNCHANGED <<next, exit, runs, log, lost, faults>> /\ Delivered' = Delivered
      /\ topics' \subseteq Creatable
  BY DEF Create, Inv, TypeOK, Delivered
<1>2. TypeOK'
  BY <1>1 DEF Inv, TypeOK
<1>3. Passed'
  BY <1>1, PassedKept
<1> QED BY <1>1, <1>2, <1>3 DEF Inv

LEMMA RestartStep ==
  ASSUME Inv, Restart
  PROVE  Inv'
<1>1. /\ exit' = "running" /\ next' = 1 /\ UNCHANGED <<topics, log, lost, faults>>
      /\ runs' \in 1..(MaxFaults + 1)
  BY LastIsNat DEF Restart, Inv, TypeOK
<1>2. Delivered' = Delivered /\ next' \in 1..(Last + 1)
  BY <1>1, LastIsNat DEF Delivered
<1>3. Passed'
  BY <1>1, LastIsNat DEF Passed
<1>4. TypeOK'
  BY <1>1, <1>2 DEF Inv, TypeOK
<1> QED BY <1>1, <1>3, <1>4 DEF Inv

LEMMA NextInv == Inv /\ [Next]_vars => Inv'
<1> SUFFICES ASSUME Inv, [Next]_vars PROVE Inv'
  OBVIOUS
<1>1. CASE UNCHANGED vars
  BY <1>1 DEF vars, Inv, TypeOK, Passed, Delivered, Message, Loads
<1> QED BY <1>1, WriteStep, WriteErrorStep, QuietStep, CreateStep, RestartStep DEF Next, Program

-----------------------------------------------------------------------------
(* The theorems.                                                           *)

(* The emulator's place in its work, its runs and what is in the topic.    *)
THEOREM Invariance == Spec => []Inv
BY InitInv, NextInv, PTL DEF Spec

(* An emulator that has exited with 0 has sent what it could load, for any *)
(* number of orders and however often it failed before.                    *)
THEOREM SentWhenDone == Spec => []DoneMeansSent
<1>1. Inv => DoneMeansSent
  BY LastIsNat DEF Inv, TypeOK, Passed, DoneMeansSent
<1> QED BY <1>1, Invariance, PTL
=============================================================================
