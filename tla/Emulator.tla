------------------------------ MODULE Emulator ------------------------------
(***************************************************************************)
(* cmd/emulator under docker-compose's "restart: on-failure": each run     *)
(* writes RandomCount orders with uids of their own, then one for each     *)
(* file that LoadOrderFromFile takes, and exits with 0; a write that fails *)
(* ends the run with 1, and the next starts over.                          *)
(***************************************************************************)
EXTENDS Naturals, Sequences

CONSTANTS
  RandomCount, \* random orders of a run: 10
  FileCount,   \* files of a run, order1.json and so on: 5
  Unreadable,  \* the files that are missing, malformed or not valid
  Topic,       \* what the writer is given: "wbl0_orders"
  Creatable,   \* the topics that anybody creates
  MaxFaults    \* failed writes, lost messages and killed runs (a bound)

Files == 1..FileCount

ASSUME EmulatorAssumption ==
  RandomCount \in Nat /\ FileCount \in Nat /\ MaxFaults \in Nat /\ Unreadable \subseteq Files

VARIABLES
  topics, \* the broker's topics
  next,   \* the order to write next, the random ones first
  exit,   \* the run's exit code, or "running"
  runs,   \* runs so far
  log,    \* what the service's topic holds
  lost,   \* history: what was written and never reached the topic
  faults

vars == <<topics, next, exit, runs, log, lost, faults>>

Init ==
  /\ topics = {}
  /\ next = 1 /\ exit = "running" /\ runs = 1
  /\ log = <<>> /\ lost = {} /\ faults = 0

(* An operator creates a topic, or the broker does for a reader that asks: *)
(* docker-compose.yml gives kafka-topics-setup no KAFKA_TOPIC to create.   *)
Create(t) ==
  /\ t \in Creatable \ topics
  /\ topics' = topics \cup {t}
  /\ UNCHANGED <<next, exit, runs, log, lost, faults>>

(* i < 10 for the random orders, 1 to 5 for the files.                     *)
Last == RandomCount + FileCount

FileOf(i) == i - RandomCount

(* A random order's uid is new in every run; a file's is the file's.       *)
Message(i) ==
  IF i <= RandomCount THEN [random |-> i, run |-> runs] ELSE [file |-> FileOf(i)]

Loads(i) == i <= RandomCount \/ FileOf(i) \notin Unreadable

Writing(i) == exit = "running" /\ next = i /\ i <= Last /\ Loads(i)

(* Mutant: a failed write is passed over, as a file that does not load is. *)
WriteFailedSkipped(i) == next' = next + 1 /\ UNCHANGED exit

(* The write's error is returned, and main exits.                          *)
WriteFailed(i) == exit' = "1" /\ UNCHANGED next

Write(i) ==
  /\ Writing(i) /\ Topic \in topics
  /\ log' = Append(log, Message(i))
  /\ next' = next + 1
  /\ UNCHANGED <<topics, exit, runs, lost, faults>>

(* The writer looks up its topic and creates none; a broker's error leaves *)
(* the message stored or not.                                              *)
WriteError(i) ==
  /\ Writing(i) /\ WriteFailed(i)
  /\ \/ Topic \notin topics /\ UNCHANGED <<log, faults>>
     \/ /\ Topic \in topics
        /\ faults < MaxFaults /\ faults' = faults + 1
        /\ log' \in {log, Append(log, Message(i))}
  /\ UNCHANGED <<topics, runs, lost>>

(* The writer asks for no acknowledgement: a message the broker drops is   *)
(* written all the same.                                                   *)
WriteLost(i) ==
  /\ Writing(i) /\ Topic \in topics
  /\ faults < MaxFaults /\ faults' = faults + 1
  /\ lost' = lost \cup {Message(i)}
  /\ next' = next + 1
  /\ UNCHANGED <<topics, exit, runs, log>>

(* A file that does not load is logged and passed over.                    *)
Skip ==
  /\ exit = "running" /\ next <= Last /\ ~Loads(next)
  /\ next' = next + 1
  /\ UNCHANGED <<topics, exit, runs, log, lost, faults>>

Exit ==
  /\ exit = "running" /\ next > Last
  /\ exit' = "0"
  /\ UNCHANGED <<topics, next, runs, log, lost, faults>>

Kill ==
  /\ exit = "running"
  /\ faults < MaxFaults /\ faults' = faults + 1
  /\ exit' = "1"
  /\ UNCHANGED <<topics, next, runs, log, lost>>

(* Mutant: the service has no restart policy.                              *)
RestartNever == exit = "none" /\ UNCHANGED vars

(* restart: on-failure; the count of runs stops where it tells no more.    *)
Restart ==
  /\ exit = "1"
  /\ exit' = "running" /\ next' = 1 /\ runs' = IF runs <= MaxFaults THEN runs + 1 ELSE runs
  /\ UNCHANGED <<topics, log, lost, faults>>

Program ==
  \/ \E i \in 1..Last : Write(i) \/ WriteError(i) \/ WriteLost(i)
  \/ Skip \/ Exit \/ Kill \/ Restart

Next == Program \/ \E t \in Creatable : Create(t)

Spec == Init /\ [][Next]_vars

(* The process runs, the broker answers, and the container is restarted;   *)
(* nobody has to create a topic.                                           *)
FairSpec == Spec /\ WF_vars(Program)

-----------------------------------------------------------------------------
Delivered == {log[k] : k \in DOMAIN log}

TypeOK ==
  /\ topics \subseteq Creatable
  /\ next \in 1..(Last + 1) /\ exit \in {"running", "0", "1"}
  /\ runs \in 1..(MaxFaults + 1) /\ faults \in 0..MaxFaults
  /\ Delivered \cup lost \subseteq
       [random : 1..RandomCount, run : 1..(MaxFaults + 1)] \cup [file : Files]

(* The emulator that exits with 0 has sent every order it could load, and  *)
(* of its own run every random one: each is in the topic, unless the       *)
(* broker dropped it.                                                      *)
DoneMeansSent ==
  exit = "0" => \A i \in 1..Last : Loads(i) => Message(i) \in Delivered \cup lost

(* Once its topic exists the emulator is done some day, however often it   *)
(* has failed, been killed and been started again.                         *)
DoneIfTopicExists == (Topic \in topics) ~> exit = "0"

(* "sends test orders from testdata/, exits when done" (README, Docker     *)
(* Compose): nobody has to do anything for it.                             *)
ExitsWhenDone == <>(exit = "0")
=============================================================================
