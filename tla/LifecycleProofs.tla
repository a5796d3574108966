--------------------------- MODULE LifecycleProofs --------------------------
(***************************************************************************)
(* Proofs about Lifecycle, for any configurations, any number of handlers  *)
(* and any bounds on faults and crashes.                                   *)
(***************************************************************************)
EXTENDS Lifecycle, SequenceTheorems, TLAPS

-----------------------------------------------------------------------------
(* Run's deferred calls.                                                   *)

Closers == {"stop", "pool", "consumer"}

Zero  == <<>>
One   == <<"stop">>
Two   == <<"stop", "pool">>
Three == <<"stop", "pool", "consumer">>

LEMMA Elements ==
  /\ Zero \in Seq(Closers) /\ Len(Zero) = 0
  /\ One \in Seq(Closers) /\ Len(One) = 1 /\ One[1] = "stop"
  /\ Two \in Seq(Closers) /\ Len(Two) = 2 /\ Two[1] = "stop" /\ Two[2] = "pool"
  /\ Three \in Seq(Closers) /\ Len(Three) = 3
  /\ Three[1] = "stop" /\ Three[2] = "pool" /\ Three[3] = "consumer"
BY EmptySeq DEF Closers, Zero, One, Two, Three

LEMMA Deferring ==
  /\ Append(Zero, "stop") = One /\ Append(One, "pool") = Two
  /\ Append(Two, "consumer") = Three
<1> "stop" \in Closers /\ "pool" \in Closers /\ "consumer" \in Closers
  BY DEF Closers
<1>1. Append(Zero, "stop") = One
  BY DEF Zero, One
<1>2. Append(One, "pool") = Two
  <2> DEFINE t == Append(One, "pool")
  <2>1. /\ t \in Seq(Closers) /\ Len(t) = Len(One) + 1 /\ t[Len(One) + 1] = "pool"
        /\ \A i \in 1..Len(One) : t[i] = One[i]
    <3>1. One \in Seq(Closers) /\ "pool" \in Closers
      BY Elements DEF Closers
    <3> QED BY <3>1, AppendProperties
  <2> HIDE DEF t
  <2>2. Len(t) = 2 /\ \A i \in 1..Len(t) : t[i] = Two[i]
    BY <2>1, Elements
  <2>3. t = Two
    BY <2>1, <2>2, Elements, SeqEqual
  <2> QED BY <2>3 DEF t
<1>3. Append(Two, "consumer") = Three
  <2> DEFINE t == Append(Two, "consumer")
  <2>1. /\ t \in Seq(Closers) /\ Len(t) = Len(Two) + 1 /\ t[Len(Two) + 1] = "consumer"
        /\ \A i \in 1..Len(Two) : t[i] = Two[i]
    <3>1. Two \in Seq(Closers) /\ "consumer" \in Closers
      BY Elements DEF Closers
    <3> QED BY <3>1, AppendProperties
  <2> HIDE DEF t
  <2>2. Len(t) = 3 /\ \A i \in 1..Len(t) : t[i] = Three[i]
    BY <2>1, Elements
  <2>3. t = Three
    BY <2>1, <2>2, Elements, SeqEqual
  <2> QED BY <2>3 DEF t
<1> QED BY <1>1, <1>2, <1>3

LEMMA Undeferring ==
  SubSeq(One, 1, 0) = Zero /\ SubSeq(Two, 1, 1) = One /\ SubSeq(Three, 1, 2) = Two
<1>1. SubSeq(One, 1, 0) = Zero
  BY DEF One, Zero
<1>2. SubSeq(Two, 1, 1) = One
  <2> DEFINE t == SubSeq(Two, 1, 1)
  <2>1. \A i \in 1..1 : Two[i] \in Closers
    BY Elements DEF Closers
  <2>2. t \in Seq(Closers) /\ Len(t) = 1 /\ t[1] = Two[1]
    BY <2>1, SubSeqProperties
  <2> HIDE DEF t
  <2>3. \A i \in 1..Len(t) : t[i] = One[i]
    BY <2>2, Elements
  <2> QED BY <2>2, <2>3, Elements, SeqEqual
<1>3. SubSeq(Three, 1, 2) = Two
  <2> DEFINE t == SubSeq(Three, 1, 2)
  <2>1. \A i \in 1..2 : Three[i] \in Closers
    BY Elements DEF Closers
  <2>2. t \in Seq(Closers) /\ Len(t) = 2 /\ \A i \in 1..2 : t[i] = Three[i]
    BY <2>1, SubSeqProperties
  <2> HIDE DEF t
  <2>3. \A i \in 1..Len(t) : t[i] = Two[i]
    BY <2>2, Elements
  <2> QED BY <2>2, <2>3, Elements, SeqEqual
<1> QED BY <1>1, <1>2, <1>3

-----------------------------------------------------------------------------
(* The invariant.                                                          *)

(* What has been deferred where.                                           *)
DeferredAt ==
  /\ run.pc = "config" => run.deferred = Zero
  /\ run.pc = "pool" => run.deferred = One
  /\ run.pc \in {"migrate", "mark", "apply", "clean", "populate"} => run.deferred = Two
  /\ run.pc \in {"limiters", "router", "select", "drain", "shutdown"} => run.deferred = Three

(* A consumer has a pool, and the pool is done with once its close has run. *)
PoolAt ==
  /\ run.pc \in {"config", "pool"} => pool = "none"
  /\ run.pc \in {"migrate", "mark", "apply", "clean", "populate", "limiters", "router",
                 "select", "drain", "shutdown"} => pool = "open"
  /\ consumer.at # "none" => pool # "none"
  /\ run.pc = "return" /\ run.deferred \in {Zero, One} => pool \in {"none", "closed"}

(* Only Shutdown returns 0, after the consumer and with no handler left;   *)
(* a closed server takes in no other.                                      *)
CodeAt ==
  /\ run.pc \notin {"return", "ended"} => run.code = 0
  /\ run.pc = "shutdown" => consumer.at = "stopped" /\ server.at = "closed"
  /\ run.pc = "return" /\ run.code = 0 =>
       consumer.at = "stopped" /\ server.at = "closed" /\ Idle
  /\ run.pc = "ended" /\ run.code = 0 /\ consumer.at # "none" =>
       consumer.at = "stopped" /\ Idle /\ pool = "closed"

Upto(n) == {m \in Migrations : m <= n}

(* A clean schema is complete up to its version, a dirty one up to it or   *)
(* the one before.                                                         *)
SchemaAt ==
  /\ ~db.dirty => db.tables = Upto(db.version)
  /\ db.dirty => db.version \in Migrations
                 /\ db.tables \in {Upto(db.version), Upto(db.version - 1)}
  /\ run.pc = "mark" => ~db.dirty /\ db.version < 2
  /\ run.pc = "apply" => db.dirty /\ db.tables = Upto(db.version - 1)
  /\ run.pc = "clean" => db.dirty /\ db.tables = Upto(db.version)
  /\ run.pc \in {"populate", "limiters", "router", "select", "drain", "shutdown"} =>
       ~db.dirty /\ db.version = 2

(* Nothing is started before Run has come that far.                        *)
StartedAt ==
  /\ run.pc \in {"config", "pool", "migrate", "mark", "apply", "clean", "populate"} =>
       consumer.at = "none" /\ server.at = "none"
  /\ consumer.at # "none" \/ server.at # "none" => ~db.dirty /\ db.version = 2
  /\ server.at = "none" => Idle

(* Nothing finds the pool closed before Run returns with an error.         *)
CutAt == "pool" \in cut => run.pc \in {"return", "ended"} /\ run.code = 1

Ats == DeferredAt /\ PoolAt /\ CodeAt /\ SchemaAt /\ StartedAt /\ CutAt

LEMMA Migrated == Upto(0) = {} /\ Upto(1) = {1} /\ Upto(2) = Migrations
BY DEF Upto, Migrations

-----------------------------------------------------------------------------
(* Types.                                                                  *)

Pcs == {"config", "pool", "migrate", "mark", "apply", "clean", "populate", "limiters",
        "router", "select", "drain", "shutdown", "return", "ended"}

Stacks == {Zero, One, Two, Three}

Runs == [pc : Pcs, input : Starts, deferred : Stacks, code : {0, 1}]

Consumers == [at : {"none", "reading", "received", "adding", "stopped"}, reader : BOOLEAN]

Servers == [at : {"none", "starting", "listening", "failed", "closed"}, err : BOOLEAN]

Others ==
  /\ cancelled \in BOOLEAN
  /\ pool \in {"none", "open", "closing", "closed"}
  /\ consumer \in Consumers
  /\ server \in Servers
  /\ handler \in [Handlers -> {"idle", "serving", "querying"}]
  /\ cut \subseteq {"context", "pool"}

Kept ==
  /\ db \in [version : 0..2, dirty : BOOLEAN, tables : SUBSET Migrations]
  /\ spent \in [faults : 0..MaxFaults, crashes : 0..MaxCrashes]

LEMMA TypeParts == TypeOK <=> run \in Runs /\ Others /\ Kept
BY DEF TypeOK, Runs, Pcs, Stacks, Zero, One, Two, Three, Others, Consumers, Servers, Kept, None

LEMMA GotoType ==
  ASSUME run \in Runs, NEW pc \in Pcs, Goto(pc)
  PROVE  /\ run' \in Runs /\ run'.pc = pc
         /\ run'.input = run.input /\ run'.deferred = run.deferred /\ run'.code = run.code
BY DEF Runs, Goto

LEMMA ReturnType ==
  ASSUME run \in Runs, NEW code \in {0, 1}, Return(code)
  PROVE  /\ run' \in Runs /\ run'.pc = "return" /\ run'.code = code
         /\ run'.deferred = run.deferred
BY DEF Runs, Return, Pcs

LEMMA GotoDeferringType ==
  ASSUME run \in Runs, NEW pc \in Pcs, NEW call, GotoDeferring(pc, call),
         Append(run.deferred, call) \in Stacks
  PROVE  /\ run' \in Runs /\ run'.pc = pc /\ run'.code = run.code
         /\ run'.deferred = Append(run.deferred, call)
BY DEF Runs, GotoDeferring

(* A deferred call is the last one, and leaves the ones before it.         *)
LEMMA DeferredType ==
  ASSUME run \in Runs, NEW call, Deferred(call)
  PROVE  /\ run' \in Runs /\ run.pc = "return" /\ run'.pc = "return" /\ run'.code = run.code
         /\ \/ call = "stop" /\ run.deferred = One /\ run'.deferred = Zero
            \/ call = "pool" /\ run.deferred = Two /\ run'.deferred = One
            \/ call = "consumer" /\ run.deferred = Three /\ run'.deferred = Two
<1> DEFINE d == run.deferred
<1>1. /\ run.pc = "return" /\ Len(d) > 0 /\ d[Len(d)] = call
      /\ run' = [run EXCEPT !.deferred = SubSeq(d, 1, Len(d) - 1)]
  BY DEF Deferred, At
<1>2. d \in Stacks
  BY DEF Runs
<1>3. \/ d = One /\ SubSeq(d, 1, Len(d) - 1) = Zero /\ call = "stop"
      \/ d = Two /\ SubSeq(d, 1, Len(d) - 1) = One /\ call = "pool"
      \/ d = Three /\ SubSeq(d, 1, Len(d) - 1) = Two /\ call = "consumer"
  <2>1. CASE d = Zero
    BY <1>1, <2>1, Elements
  <2>2. CASE d = One
    BY <1>1, <2>2, Elements, Undeferring
  <2>3. CASE d = Two
    BY <1>1, <2>3, Elements, Undeferring
  <2>4. CASE d = Three
    BY <1>1, <2>4, Elements, Undeferring
  <2> QED BY <1>2, <2>1, <2>2, <2>3, <2>4 DEF Stacks
<1>4. SubSeq(d, 1, Len(d) - 1) \in Stacks
  BY <1>3 DEF Stacks
<1> HIDE DEF d
<1>5. run' \in Runs /\ run'.pc = run.pc /\ run'.code = run.code
      /\ run'.deferred = SubSeq(d, 1, Len(d) - 1)
  BY <1>1, <1>4 DEF Runs
<1> QED BY <1>1, <1>3, <1>5 DEF d

-----------------------------------------------------------------------------
(* The steps.                                                              *)

Inv == run \in Runs /\ Others /\ Kept /\ Ats

LEMMA Different ==
  /\ Zero # One /\ Zero # Two /\ Zero # Three
  /\ One # Two /\ One # Three /\ Two # Three
<1>1. Len(Zero) = 0 /\ Len(One) = 1 /\ Len(Two) = 2 /\ Len(Three) = 3
  BY Elements
<1>2. 0 # 1 /\ 0 # 2 /\ 0 # 3 /\ 1 # 2 /\ 1 # 3 /\ 2 # 3
  OBVIOUS
<1> QED BY <1>1, <1>2, Zenon

LEMMA InitInv == Init => Inv
<1> SUFFICES ASSUME Init PROVE run \in Runs /\ Others /\ Kept /\ Ats
  BY DEF Inv
<1>1. run \in Runs /\ run.pc = "ended" /\ run.deferred = Zero /\ run.code = 0
  BY DEF Init, Runs, Pcs, Stacks, Zero
<1>2. /\ consumer = [at |-> "none", reader |-> FALSE] /\ server = [at |-> "none", err |-> FALSE]
      /\ pool = "none" /\ db = [version |-> 0, dirty |-> FALSE, tables |-> {}]
      /\ cancelled = FALSE /\ handler = [h \in Handlers |-> "idle"]
      /\ spent = [faults |-> 0, crashes |-> 0] /\ cut = {}
  BY DEF Init, None
<1>3. Others
  BY <1>2 DEF Others, Consumers, Servers
<1>4. Kept
  BY <1>2, LifecycleAssumption DEF Kept
<1>5. Ats
  BY <1>1, <1>2, Migrated DEF Ats, DeferredAt, PoolAt, CodeAt, SchemaAt, StartedAt, CutAt, Idle
<1> QED BY <1>1, <1>3, <1>4, <1>5

LEMMA StartStep ==
  ASSUME Inv, Start
  PROVE  Inv'
<1> SUFFICES run' \in Runs /\ Others' /\ Kept' /\ Ats'
  BY DEF Inv
<1>0. run \in Runs /\ Others /\ Kept /\ Ats
  BY DEF Inv
<1>1. /\ run' \in Runs /\ run'.pc = "config" /\ run'.deferred = Zero /\ run'.code = 0
  BY DEF Start, Started, Runs, Pcs, Stacks, Zero
<1>2. /\ consumer' = [at |-> "none", reader |-> FALSE] /\ server' = [at |-> "none", err |-> FALSE]
      /\ pool' = "none" /\ cancelled' = FALSE /\ handler' = [h \in Handlers |-> "idle"]
      /\ db' = db /\ spent' = spent /\ cut' = {}
  BY DEF Start, Started, None
<1>3. Others' /\ Kept'
  BY <1>0, <1>2 DEF Others, Kept, Consumers, Servers
<1>4. SchemaAt'
  BY <1>0, <1>1, <1>2 DEF Ats, SchemaAt
<1>5. DeferredAt' /\ PoolAt' /\ CodeAt' /\ CutAt'
  BY <1>1, <1>2 DEF DeferredAt, PoolAt, CodeAt, CutAt
<1>6. StartedAt'
  BY <1>0, <1>1, <1>2 DEF Ats, StartedAt, Idle
<1> QED BY <1>1, <1>3, <1>4, <1>5, <1>6 DEF Ats

(* Run before anything is started: to the pool and through the migrations. *)
LEMMA PrepareStep ==
  ASSUME Inv, LoadConfig \/ CreatePool \/ RunMigrations \/ StartFault
  PROVE  Inv'
<1> SUFFICES run' \in Runs /\ Others' /\ Kept' /\ Ats'
  BY DEF Inv
<1>0. run \in Runs /\ Others /\ Kept /\ Ats
  BY DEF Inv
<1>1. /\ run' \in Runs /\ run'.code \in {0, 1}
      /\ \/ run.pc = "config" /\ run'.pc = "pool" /\ run'.deferred = One /\ run'.code = 0
            /\ pool' = pool
         \/ run.pc = "pool" /\ run'.pc = "migrate" /\ run'.deferred = Two /\ run'.code = 0
            /\ pool' = "open"
         \/ run.pc = "migrate" /\ ~db.dirty /\ db.version = 2 /\ run'.pc = "populate"
            /\ run'.deferred = run.deferred /\ run'.code = run.code /\ pool' = pool
         \/ run.pc = "migrate" /\ ~db.dirty /\ db.version < 2 /\ run'.pc = "mark"
            /\ run'.deferred = run.deferred /\ run'.code = run.code /\ pool' = pool
         \/ run.pc \in {"config", "pool", "migrate", "mark", "apply", "clean"}
            /\ run'.pc = "return" /\ run'.deferred = run.deferred /\ run'.code = 1
            /\ pool' = pool
  <2>1. CASE LoadConfig
    <3>1. run.pc = "config" /\ run.deferred = Zero /\ run.code = 0 /\ pool' = pool
      BY <1>0, <2>1 DEF LoadConfig, At, Ats, DeferredAt, CodeAt
    <3>2. CASE GotoDeferring("pool", "stop")
      BY <1>0, <3>1, <3>2, Deferring, GotoDeferringType DEF Pcs, Stacks
    <3>3. CASE Return(1)
      BY <1>0, <3>1, <3>3, ReturnType
    <3> QED BY <2>1, <3>2, <3>3 DEF LoadConfig
  <2>2. CASE CreatePool
    <3>1. run.pc = "pool" /\ run.deferred = One /\ run.code = 0
      BY <1>0, <2>2 DEF CreatePool, At, Ats, DeferredAt, CodeAt
    <3>2. CASE GotoDeferring("migrate", "pool") /\ pool' = "open"
      BY <1>0, <3>1, <3>2, Deferring, GotoDeferringType DEF Pcs, Stacks
    <3>3. CASE Return(1) /\ pool' = pool
      BY <1>0, <3>1, <3>3, ReturnType
    <3> QED BY <2>2, <3>2, <3>3 DEF CreatePool
  <2>3. CASE RunMigrations
    <3>1. run.pc = "migrate" /\ pool' = pool /\ run.code = 0
      BY <1>0, <2>3 DEF RunMigrations, At, Ats, CodeAt
    <3>2. CASE ~db.dirty /\ db.version = 2 /\ Goto("populate")
      BY <1>0, <3>1, <3>2, GotoType DEF Pcs
    <3>3. CASE ~db.dirty /\ db.version < 2 /\ Goto("mark")
      BY <1>0, <3>1, <3>3, GotoType DEF Pcs
    <3>4. CASE Return(1)
      BY <1>0, <3>1, <3>4, ReturnType
    <3> QED BY <2>3, <3>2, <3>3, <3>4 DEF RunMigrations
  <2>4. CASE StartFault
    <3>1. /\ run.pc \in {"pool", "migrate", "mark", "apply", "clean"} /\ Return(1)
          /\ pool' = pool
      BY <2>4 DEF StartFault
    <3> QED BY <1>0, <3>1, ReturnType
  <2> QED BY <2>1, <2>2, <2>3, <2>4
<1>2. UNCHANGED <<consumer, server, handler, db, cancelled, cut>>
  BY DEF LoadConfig, CreatePool, RunMigrations, StartFault
<1>3. Others'
  BY <1>0, <1>1, <1>2 DEF Others
<1>4. Kept'
  BY <1>0, <1>2, LifecycleAssumption DEF Kept, LoadConfig, CreatePool, RunMigrations, StartFault
<1>5. DeferredAt' /\ PoolAt'
  <2>1. DeferredAt'
    BY <1>0, <1>1 DEF Ats, DeferredAt
  <2>2. PoolAt'
    BY <1>0, <1>1, <1>2, Different DEF Ats, DeferredAt, PoolAt, StartedAt
  <2> QED BY <2>1, <2>2
<1>6. CodeAt' /\ CutAt'
  BY <1>0, <1>1, <1>2 DEF Ats, CodeAt, CutAt
<1>7. SchemaAt' /\ StartedAt'
  BY <1>0, <1>1, <1>2 DEF Ats, SchemaAt, StartedAt, Idle
<1> QED BY <1>1, <1>3, <1>4, <1>5, <1>6, <1>7 DEF Ats

LEMMA MigrateStep ==
  ASSUME Inv, Migrate
  PROVE  Inv'
<1> SUFFICES run' \in Runs /\ Others' /\ Kept' /\ Ats'
  BY DEF Inv
<1>0. run \in Runs /\ Others /\ Kept /\ Ats
  BY DEF Inv
<1>1. UNCHANGED <<cancelled, pool, consumer, server, handler, spent, cut>>
  BY DEF Migrate
<1>2. /\ run' \in Runs /\ run'.deferred = run.deferred /\ run'.code = run.code
      /\ \/ /\ run.pc = "mark" /\ run'.pc = "apply"
            /\ db' = [db EXCEPT !.version = @ + 1, !.dirty = TRUE]
         \/ /\ run.pc = "apply" /\ run'.pc = "clean"
            /\ db' = [db EXCEPT !.tables = @ \cup {db.version}]
         \/ /\ run.pc = "clean" /\ run'.pc = "migrate"
            /\ db' = [db EXCEPT !.dirty = FALSE]
  BY <1>0, GotoType DEF Migrate, At, Pcs
<1>3. ASSUME NEW n \in {0, 1}
      PROVE  Upto(n) \cup {n + 1} = Upto(n + 1) /\ n + 1 - 1 = n
  BY <1>3, Migrated DEF Migrations
<1>4. Kept' /\ SchemaAt'
  <2>1. CASE run.pc = "mark"
    <3>0. db.version \in {0, 1} /\ db.tables = Upto(db.version) /\ db.tables \in SUBSET Migrations
      BY <1>0, <2>1 DEF Ats, SchemaAt, Kept
    <3>1. /\ db' = [version |-> db.version + 1, dirty |-> TRUE, tables |-> db.tables]
          /\ run'.pc = "apply"
      BY <1>0, <1>2, <2>1 DEF Kept
    <3>2. db'.version \in Migrations /\ db'.tables = Upto(db'.version - 1)
      BY <1>3, <3>0, <3>1 DEF Migrations
    <3> QED BY <1>0, <1>1, <3>0, <3>1, <3>2 DEF Kept, SchemaAt, Migrations
  <2>2. CASE run.pc = "apply"
    <3>1. /\ db.version \in Migrations /\ db.dirty /\ db.tables = Upto(db.version - 1)
          /\ db' = [version |-> db.version, dirty |-> db.dirty,
                    tables |-> db.tables \cup {db.version}]
          /\ run'.pc = "clean"
      BY <1>0, <1>2, <2>2 DEF Ats, SchemaAt, Kept
    <3>2. db'.tables = Upto(db'.version) /\ db'.tables \in SUBSET Migrations
      BY <3>1, Migrated DEF Migrations
    <3> QED BY <1>0, <1>1, <3>1, <3>2 DEF Kept, SchemaAt, Migrations
  <2>3. CASE run.pc = "clean"
    <3>1. /\ db' = [version |-> db.version, dirty |-> FALSE, tables |-> db.tables]
          /\ db.tables = Upto(db.version) /\ run'.pc = "migrate"
      BY <1>0, <1>2, <2>3 DEF Ats, SchemaAt, Kept
    <3> QED BY <1>0, <1>1, <3>1 DEF Kept, SchemaAt
  <2> QED BY <1>2, <2>1, <2>2, <2>3
<1>5. Others' /\ DeferredAt' /\ PoolAt' /\ CodeAt' /\ StartedAt' /\ CutAt'
  BY <1>0, <1>1, <1>2 DEF Others, Ats, DeferredAt, PoolAt, CodeAt, StartedAt, CutAt, Idle
<1> QED BY <1>2, <1>4, <1>5 DEF Ats

(* The consumer, the limiters and the server are started; the select.      *)
LEMMA ServeStep ==
  ASSUME Inv, StartConsumer \/ CreateLimiters \/ StartServer \/ Select
  PROVE  Inv'
<1> SUFFICES run' \in Runs /\ Others' /\ Kept' /\ Ats'
  BY DEF Inv
<1>0. run \in Runs /\ Others /\ Kept /\ Ats
  BY DEF Inv
<1>1. /\ run' \in Runs
      /\ \/ run.pc = "populate" /\ run'.pc = "limiters" /\ run'.deferred = Three
            /\ run'.code = 0 /\ consumer' = [at |-> "reading", reader |-> TRUE]
            /\ server' = server
         \/ run.pc = "limiters" /\ run'.pc = "router" /\ run'.deferred = Three
            /\ run'.code = 0 /\ consumer' = consumer /\ server' = server
         \/ run.pc = "router" /\ run'.pc = "select" /\ run'.deferred = Three
            /\ run'.code = 0 /\ consumer' = consumer
            /\ server' = [at |-> "starting", err |-> FALSE]
         \/ run.pc = "select" /\ run'.pc = "drain" /\ run'.deferred = Three
            /\ run'.code = 0 /\ consumer' = consumer /\ server' = server
         \/ run.pc \in {"limiters", "select"} /\ run'.pc = "return" /\ run'.deferred = Three
            /\ run'.code = 1 /\ consumer' = consumer /\ server' = server
  <2>1. CASE StartConsumer
    <3>1. run.pc = "populate" /\ run.deferred = Two /\ run.code = 0
      BY <1>0, <2>1 DEF StartConsumer, At, Ats, DeferredAt, CodeAt
    <3>2. run' \in Runs /\ run'.pc = "limiters" /\ run'.deferred = Three /\ run'.code = 0
      BY <1>0, <2>1, <3>1, Deferring, GotoDeferringType DEF StartConsumer, Pcs, Stacks
    <3> QED BY <2>1, <3>1, <3>2 DEF StartConsumer
  <2>2. CASE CreateLimiters \/ StartServer \/ Select
    <3>1. /\ run.pc \in {"limiters", "router", "select"} /\ run.deferred = Three /\ run.code = 0
      BY <1>0, <2>2 DEF CreateLimiters, StartServer, Select, At, Ats, DeferredAt, CodeAt
    <3>2. CASE CreateLimiters
      BY <1>0, <3>1, <3>2, GotoType, ReturnType DEF CreateLimiters, At, Pcs
    <3>3. CASE StartServer
      BY <1>0, <3>1, <3>3, GotoType DEF StartServer, At, Pcs
    <3>4. CASE Select
      BY <1>0, <3>1, <3>4, GotoType, ReturnType DEF Select, At, Pcs
    <3> QED BY <2>2, <3>2, <3>3, <3>4
  <2> QED BY <2>1, <2>2
<1>2. UNCHANGED <<pool, handler, db, cancelled, spent, cut>>
  BY DEF StartConsumer, CreateLimiters, StartServer, Select
<1>3. Others' /\ Kept'
  <2>1. /\ consumer' = consumer \/ consumer' = [at |-> "reading", reader |-> TRUE]
        /\ server' = server \/ server' = [at |-> "starting", err |-> FALSE]
    BY <1>1
  <2>2. Others'
    <3>0. /\ consumer \in Consumers /\ server \in Servers
          /\ [at |-> "reading", reader |-> TRUE] \in Consumers
          /\ [at |-> "starting", err |-> FALSE] \in Servers
      BY <1>0 DEF Others, Consumers, Servers
    <3>1. consumer' \in Consumers
      BY <2>1, <3>0
    <3>2. server' \in Servers
      BY <2>1, <3>0
    <3> QED BY <1>0, <1>2, <3>1, <3>2 DEF Others
  <2>3. Kept'
    BY <1>0, <1>2 DEF Kept
  <2> QED BY <2>2, <2>3
<1>4. DeferredAt' /\ PoolAt'
  BY <1>0, <1>1, <1>2, Different DEF Ats, DeferredAt, PoolAt
<1>5. CodeAt' /\ CutAt'
  BY <1>0, <1>1, <1>2 DEF Ats, CodeAt, CutAt
<1>6. SchemaAt' /\ StartedAt'
  BY <1>0, <1>1, <1>2 DEF Ats, SchemaAt, StartedAt, Idle
<1> QED BY <1>1, <1>3, <1>4, <1>5, <1>6 DEF Ats

LEMMA DrainStep ==
  ASSUME Inv, Drain \/ Shutdown \/ ShutdownTimesOut
  PROVE  Inv'
<1> SUFFICES run' \in Runs /\ Others' /\ Kept' /\ Ats'
  BY DEF Inv
<1>0. run \in Runs /\ Others /\ Kept /\ Ats
  BY DEF Inv
<1>1. /\ run' \in Runs /\ run'.deferred = Three
      /\ \/ run.pc = "drain" /\ run'.pc = "shutdown" /\ run'.code = 0 /\ consumer.at = "stopped"
            /\ server' = [server EXCEPT !.at = "closed"]
         \/ run.pc = "shutdown" /\ run'.pc = "return" /\ run'.code = 0 /\ Idle
            /\ server' = server
         \/ run.pc = "shutdown" /\ run'.pc = "return" /\ run'.code = 1 /\ server' = server
  <2>1. run.deferred = Three /\ run.code = 0
    BY <1>0 DEF Drain, Shutdown, ShutdownTimesOut, At, Ats, DeferredAt, CodeAt
  <2>2. CASE Drain
    BY <1>0, <2>1, <2>2, GotoType DEF Drain, At, Pcs
  <2>3. CASE Shutdown
    BY <1>0, <2>1, <2>3, ReturnType DEF Shutdown, At
  <2>4. CASE ShutdownTimesOut
    BY <1>0, <2>1, <2>4, ReturnType DEF ShutdownTimesOut, At
  <2> QED BY <2>2, <2>3, <2>4
<1>2. UNCHANGED <<pool, consumer, handler, db, cancelled, spent, cut>>
  BY DEF Drain, Shutdown, ShutdownTimesOut
<1>3. Others' /\ Kept'
  BY <1>0, <1>1, <1>2 DEF Others, Kept, Servers
<1>4. server'.at = "none" => server.at = "none"
  BY <1>0, <1>1 DEF Others, Servers
<1>5. DeferredAt' /\ PoolAt'
  BY <1>0, <1>1, <1>2, Different DEF Ats, DeferredAt, PoolAt
<1>6. CodeAt' /\ CutAt'
  BY <1>0, <1>1, <1>2 DEF Ats, CodeAt, CutAt, Idle, Others, Servers
<1>7. SchemaAt' /\ StartedAt'
  BY <1>0, <1>1, <1>2, <1>4 DEF Ats, SchemaAt, StartedAt, Idle
<1> QED BY <1>1, <1>3, <1>5, <1>6, <1>7 DEF Ats

LEMMA CloseStep ==
  ASSUME Inv, CloseConsumer \/ ClosePool \/ Stop \/ Exit \/ Crash
  PROVE  Inv'
<1> SUFFICES run' \in Runs /\ Others' /\ Kept' /\ Ats'
  BY DEF Inv
<1>0. run \in Runs /\ Others /\ Kept /\ Ats
  BY DEF Inv
<1>1. /\ run' \in Runs
      /\ \/ run.pc = "return" /\ run'.pc = "return" /\ run'.code = run.code
            /\ run.deferred = Three /\ run'.deferred = Two /\ pool' = pool
         \/ run.pc = "return" /\ run'.pc = "return" /\ run'.code = run.code
            /\ run.deferred = Two /\ run'.deferred = Two /\ pool' = "closing"
         \/ run.pc = "return" /\ run'.pc = "return" /\ run'.code = run.code
            /\ run.deferred = Two /\ run'.deferred = One /\ pool' = "closed"
         \/ run.pc = "return" /\ run'.pc = "return" /\ run'.code = run.code
            /\ run.deferred = One /\ run'.deferred = Zero /\ pool' = pool
         \/ run.pc = "return" /\ run'.pc = "ended" /\ run'.code = run.code
            /\ run.deferred = Zero /\ pool' = pool
         \/ run'.pc = "ended" /\ run'.code = 1 /\ pool' = pool
  <2>1. CASE CloseConsumer
    BY <1>0, <2>1, DeferredType DEF CloseConsumer
  <2>2. CASE ClosePool
    <3>1. CASE /\ pool = "open" /\ At("return") /\ run.deferred = <<"stop", "pool">>
               /\ pool' = "closing" /\ UNCHANGED run
      BY <1>0, <3>1 DEF At, Two
    <3>2. CASE Deferred("pool") /\ pool' = "closed"
      BY <1>0, <3>2, DeferredType
    <3> QED BY <2>2, <3>1, <3>2 DEF ClosePool
  <2>3. CASE Stop
    BY <1>0, <2>3, DeferredType DEF Stop
  <2>4. CASE Exit
    BY <1>0, <2>4, GotoType DEF Exit, At, Pcs, Zero
  <2>5. CASE Crash
    BY <1>0, <2>5 DEF Crash, Runs, Pcs
  <2> QED BY <2>1, <2>2, <2>3, <2>4, <2>5
<1>2. /\ UNCHANGED <<server, handler, db, cut>> /\ cancelled' \in BOOLEAN
      /\ consumer' \in Consumers
      /\ consumer'.at = consumer.at
  BY <1>0 DEF CloseConsumer, ClosePool, Stop, Exit, Crash, Others, Consumers
<1>3. Others'
  BY <1>0, <1>1, <1>2 DEF Others
<1>4. Kept'
  BY <1>0, LifecycleAssumption DEF Kept, CloseConsumer, ClosePool, Stop, Exit, Crash
<1>5. DeferredAt' /\ PoolAt'
  BY <1>0, <1>1, <1>2, Different DEF Ats, DeferredAt, PoolAt
<1>6. CodeAt' /\ CutAt'
  BY <1>0, <1>1, <1>2, Different DEF Ats, CodeAt, CutAt, PoolAt, Idle
<1>7. SchemaAt' /\ StartedAt'
  BY <1>0, <1>1, <1>2 DEF Ats, SchemaAt, StartedAt, Idle
<1> QED BY <1>1, <1>3, <1>4, <1>5, <1>6, <1>7 DEF Ats

(* The consumer's goroutine, the server's and the handlers'.               *)
LEMMA GoroutineStep ==
  ASSUME Inv,
         \/ Receive \/ Add \/ StopConsuming \/ Listen \/ ListenFails \/ Signal
         \/ \E h \in Handlers : Accept(h) \/ Query(h) \/ Answer(h)
  PROVE  Inv'
<1> SUFFICES run' \in Runs /\ Others' /\ Kept' /\ Ats'
  BY DEF Inv
<1>0. run \in Runs /\ Others /\ Kept /\ Ats
  BY DEF Inv
<1>1. UNCHANGED <<run, pool, db, spent>>
  BY DEF Receive, Add, StopConsuming, Listen, ListenFails, Signal, Accept, Query, Answer
<1>2. /\ consumer' \in Consumers
      /\ consumer.at = "none" <=> consumer'.at = "none"
      /\ consumer.at = "stopped" => consumer'.at = "stopped"
  <2>1. CASE Receive \/ Add \/ StopConsuming
    BY <1>0, <2>1 DEF Receive, Add, Consumer, StopConsuming, Others, Consumers
  <2>2. CASE consumer' = consumer
    BY <1>0, <2>2 DEF Others
  <2> QED BY <2>1, <2>2 DEF Listen, ListenFails, Signal, Accept, Query, Answer
<1>3. /\ server' \in Servers
      /\ server.at = "none" <=> server'.at = "none"
      /\ server.at = "closed" => server'.at = "closed"
  <2>1. CASE Listen
    BY <1>0, <2>1 DEF Listen, Others, Servers
  <2>2. CASE ListenFails
    <3>1. /\ server.at \in {"starting", "listening"}
          /\ server' = [at |-> "failed", err |-> TRUE]
      BY <2>2 DEF ListenFails
    <3>2. [at |-> "failed", err |-> TRUE] \in Servers
      BY DEF Servers
    <3>3. server'.at = "failed"
      BY <3>1
    <3> QED BY <3>1, <3>2, <3>3
  <2>3. CASE server' = server
    BY <1>0, <2>3 DEF Others
  <2> QED BY <2>1, <2>2, <2>3 DEF Receive, Add, StopConsuming, Signal, Accept, Query, Answer
<1>4. /\ handler' \in [Handlers -> {"idle", "serving", "querying"}]
      /\ server.at \in {"closed", "none"} /\ Idle => Idle'
  <2>1. ASSUME NEW h \in Handlers, Accept(h) \/ Query(h) \/ Answer(h)
        PROVE  /\ handler' \in [Handlers -> {"idle", "serving", "querying"}]
               /\ server.at \in {"closed", "none"} => ~Idle
    BY <1>0, <2>1 DEF Accept, Query, Answer, Others, Idle
  <2>2. CASE handler' = handler
    BY <1>0, <2>2 DEF Others, Idle
  <2> QED BY <2>1, <2>2 DEF Receive, Add, StopConsuming, Listen, ListenFails, Signal
<1>5. cancelled' \in BOOLEAN
  BY <1>0
  DEF Others, Receive, Add, StopConsuming, Listen, ListenFails, Signal, Accept, Query, Answer
<1>6. cut' \subseteq {"context", "pool"}
  BY <1>0
  DEF Others, Receive, Add, StopConsuming, Listen, ListenFails, Signal, Accept, Query, Answer
<1>7. Others' /\ Kept'
  BY <1>0, <1>1, <1>2, <1>3, <1>4, <1>5, <1>6 DEF Others, Kept
<1>8. DeferredAt' /\ PoolAt' /\ SchemaAt' /\ StartedAt'
  BY <1>0, <1>1, <1>2, <1>3, <1>4 DEF Ats, DeferredAt, PoolAt, SchemaAt, StartedAt
<1>9. CodeAt'
  <2>1. \/ run.pc # "ended" /\ Alive
        \/ run.pc = "ended" /\ UNCHANGED <<consumer, server, handler>>
    BY DEF Receive, Add, StopConsuming, Listen, ListenFails, Signal, Accept, Query, Answer, Alive
  <2> QED BY <1>0, <1>1, <1>2, <1>3, <1>4, <2>1 DEF Ats, CodeAt, Idle
<1>10. CutAt'
  <2>1. CASE "pool" \in cut' => "pool" \in cut
    BY <1>0, <1>1, <2>1 DEF Ats, CutAt
  <2>2. CASE "pool" \in cut' /\ "pool" \notin cut
    <3>1. /\ run.pc # "ended" /\ pool # "open"
          /\ consumer.at = "received" \/ \E h \in Handlers : handler[h] = "serving"
      BY <2>2
      DEF Receive, Add, StopConsuming, Listen, ListenFails, Signal, Accept, Query, Answer, Alive
    <3>2. run.pc \notin {"config", "pool"}
      BY <1>0, <3>1 DEF Ats, StartedAt, Idle
    <3>3. run.pc = "return"
      BY <1>0, <3>1, <3>2 DEF Ats, PoolAt, Runs, Pcs
    <3>4. run.code # 0
      BY <1>0, <3>1, <3>3 DEF Ats, CodeAt, Idle
    <3> QED BY <1>0, <1>1, <3>3, <3>4 DEF CutAt, Runs
  <2> QED BY <2>1, <2>2
<1> QED BY <1>0, <1>1, <1>7, <1>8, <1>9, <1>10 DEF Ats

LEMMA StutterStep ==
  ASSUME Inv, UNCHANGED vars
  PROVE  Inv'
BY DEF Inv, vars, Others, Kept, Ats, DeferredAt, PoolAt, CodeAt, SchemaAt, StartedAt, CutAt, Idle

LEMMA NextInv == Inv /\ [Next]_vars => Inv'
<1> SUFFICES ASSUME Inv, [Next]_vars PROVE Inv'
  OBVIOUS
<1> QED
  BY StartStep, PrepareStep, MigrateStep, ServeStep, DrainStep, CloseStep, GoroutineStep,
     StutterStep DEF Next, Run

-----------------------------------------------------------------------------
(* The theorems.                                                           *)

(* The invariant holds in every state of the process, through signals,     *)
(* faults of the database, crashes and restarts.                           *)
THEOREM Invariance == Spec => []Inv
BY InitInv, NextInv, PTL DEF Spec

(* Run's pc, its deferred calls and what it shares are what they are taken *)
(* for.                                                                    *)
THEOREM TypeCorrect == Spec => []TypeOK
<1>1. Inv => TypeOK
  BY TypeParts DEF Inv
<1> QED BY <1>1, Invariance, PTL

(* A process exits with 0 only after its consumer and its handlers, and    *)
(* none of their calls has found the pool closed, whatever the number of   *)
(* handlers.                                                               *)
THEOREM ExitsAreGraceful == Spec => []GracefulExit
<1>1. Inv => GracefulExit
  <2> SUFFICES ASSUME Inv, run.pc = "ended", run.code = 0, consumer.at # "none"
               PROVE  consumer.at = "stopped" /\ Idle /\ pool = "closed" /\ "pool" \notin cut
    BY DEF GracefulExit, None
  <2>1. consumer.at = "stopped" /\ Idle /\ pool = "closed"
    BY DEF Inv, Ats, CodeAt
  <2>2. "pool" \notin cut
    BY DEF Inv, Ats, CutAt
  <2> QED BY <2>1, <2>2
<1> QED BY <1>1, Invariance, PTL

(* Consumer and server run on a complete schema only, whatever crashes in  *)
(* the middle of a migration have left.                                    *)
THEOREM SchemaFirst == Spec => []SchemaComplete
<1>1. Inv => SchemaComplete
  BY Migrated DEF Inv, Ats, StartedAt, SchemaAt, SchemaComplete, None
<1> QED BY <1>1, Invariance, PTL

-----------------------------------------------------------------------------
(* What Run waits for on its way out.                                      *)

(* It waits for a consumer that was started and has been told to stop, and *)
(* for a pool that was opened and is closed for the first time: there is   *)
(* nothing that could leave it waiting for what will never be.             *)
WaitsEnd ==
  /\ At("drain") => cancelled /\ consumer.at # None
  /\ At("return") /\ run.deferred = <<"stop", "pool">> => pool \in {"open", "closing"}

Waits ==
  /\ run.pc \in {"limiters", "router", "select", "drain"} => consumer.at # "none"
  /\ run.pc = "drain" => cancelled
  /\ run.pc = "return" /\ run.deferred = Three => pool = "open"
  /\ run.pc = "return" /\ run.deferred = Two => pool \in {"open", "closing"}

LEMMA WaitsStep ==
  ASSUME Inv, Waits, [Next]_vars
  PROVE  Waits'
<1>0. run \in Runs /\ Others /\ DeferredAt /\ PoolAt
  BY DEF Inv, Ats
<1>1. CASE Start
  BY <1>1 DEF Start, Started, Waits
<1>2. CASE LoadConfig
  <2>1. run.deferred = Zero
    BY <1>0, <1>2 DEF LoadConfig, At, DeferredAt
  <2>2. CASE GotoDeferring("pool", "stop")
    BY <1>0, <2>1, <2>2, Deferring, GotoDeferringType DEF Pcs, Stacks, Waits
  <2>3. CASE Return(1)
    BY <1>0, <2>1, <2>3, ReturnType, Different DEF Waits
  <2> QED BY <1>2, <2>2, <2>3 DEF LoadConfig
<1>3. CASE CreatePool
  <2>1. run.deferred = One
    BY <1>0, <1>3 DEF CreatePool, At, DeferredAt
  <2>2. CASE GotoDeferring("migrate", "pool")
    BY <1>0, <2>1, <2>2, Deferring, GotoDeferringType DEF Pcs, Stacks, Waits
  <2>3. CASE Return(1)
    BY <1>0, <2>1, <2>3, ReturnType, Different DEF Waits
  <2> QED BY <1>3, <2>2, <2>3 DEF CreatePool
<1>4. CASE RunMigrations \/ Migrate \/ StartFault
  <2>1. /\ run.pc \in {"pool", "migrate", "mark", "apply", "clean"} /\ pool' = pool
        /\ Return(1) \/ (run.pc # "pool" /\ \E pc \in {"populate", "mark", "apply", "clean", "migrate"} : Goto(pc))
    BY <1>4 DEF RunMigrations, Migrate, StartFault, At
  <2>2. CASE Return(1)
    <3>1. run.deferred = One \/ (run.deferred = Two /\ pool = "open")
      BY <1>0, <2>1 DEF DeferredAt, PoolAt
    <3> QED BY <1>0, <2>1, <2>2, <3>1, ReturnType, Different DEF Waits
  <2>3. ASSUME NEW pc \in {"populate", "mark", "apply", "clean", "migrate"}, Goto(pc)
        PROVE  Waits'
    <3>1. run'.pc = pc
      BY <1>0, <2>3, GotoType DEF Pcs
    <3> QED BY <3>1 DEF Waits
  <2> QED BY <2>1, <2>2, <2>3
<1>5. CASE StartConsumer
  <2>1. GotoDeferring("limiters", "consumer") /\ consumer'.at = "reading" /\ run.deferred = Two
    BY <1>0, <1>5 DEF StartConsumer, At, DeferredAt
  <2>2. run'.pc = "limiters"
    BY <1>0, <2>1, Deferring, GotoDeferringType DEF Pcs, Stacks
  <2> QED BY <2>1, <2>2 DEF Waits
<1>6. CASE CreateLimiters \/ StartServer \/ Select \/ Drain \/ Shutdown \/ ShutdownTimesOut
  <2>1. /\ run.pc \in {"limiters", "router", "select", "drain", "shutdown"}
        /\ UNCHANGED <<pool, consumer, cancelled>>
        /\ \/ \E code \in {0, 1} : Return(code)
           \/ run.pc = "limiters" /\ Goto("router")
           \/ run.pc = "router" /\ Goto("select")
           \/ run.pc = "select" /\ cancelled /\ Goto("drain")
           \/ run.pc = "drain" /\ Goto("shutdown")
    BY <1>6 DEF CreateLimiters, StartServer, Select, Drain, Shutdown, ShutdownTimesOut, At
  <2>2. run.deferred = Three /\ pool = "open"
    BY <1>0, <2>1 DEF DeferredAt, PoolAt
  <2>3. ASSUME NEW code \in {0, 1}, Return(code) PROVE Waits'
    BY <1>0, <2>1, <2>2, <2>3, ReturnType, Different DEF Waits
  <2>4. ASSUME NEW pc \in {"router", "select", "drain", "shutdown"}, Goto(pc)
        PROVE  run'.pc = pc
    BY <1>0, <2>4, GotoType DEF Pcs
  <2> QED BY <2>1, <2>3, <2>4 DEF Waits
<1>7. CASE CloseConsumer
  <2>1. Deferred("consumer") /\ pool' = pool
    BY <1>7 DEF CloseConsumer
  <2>2. run.pc = "return" /\ run'.pc = "return" /\ run.deferred = Three /\ run'.deferred = Two
    BY <1>0, <2>1, DeferredType
  <2> QED BY <2>1, <2>2, Different DEF Waits
<1>8. CASE ClosePool
  <2>1. CASE pool' = "closing" /\ UNCHANGED run /\ run.pc = "return" /\ run.deferred = Two
    BY <2>1, Different DEF Waits
  <2>2. CASE Deferred("pool")
    BY <1>0, <2>2, DeferredType, Different DEF Waits
  <2> QED BY <1>8, <2>1, <2>2 DEF ClosePool, At, Two
<1>9. CASE Stop
  <2>1. Deferred("stop")
    BY <1>9 DEF Stop
  <2> QED BY <1>0, <2>1, DeferredType, Different DEF Waits
<1>10. CASE Exit \/ Crash
  <2>1. run'.pc = "ended"
    BY <1>0, <1>10 DEF Exit, Crash, Goto, Runs
  <2> QED BY <2>1 DEF Waits
<1>11. ASSUME run' = run, pool' = pool, cancelled => cancelled',
              consumer.at # "none" => consumer'.at # "none"
       PROVE  Waits'
  BY <1>11 DEF Waits
<1>12. CASE Receive \/ Add \/ StopConsuming
  <2>1. /\ run' = run /\ pool' = pool /\ cancelled' = cancelled /\ consumer \in Consumers
        /\ \E at \in {"reading", "received", "adding", "stopped"} :
             consumer' = [consumer EXCEPT !.at = at]
    BY <1>0, <1>12 DEF Receive, Add, Consumer, StopConsuming, Others
  <2>2. consumer'.at # "none"
    BY <2>1 DEF Consumers
  <2> QED BY <1>11, <2>1, <2>2
<1>13. CASE Listen \/ ListenFails \/ (\E h \in Handlers : Accept(h) \/ Query(h) \/ Answer(h))
            \/ Signal \/ UNCHANGED vars
  BY <1>11, <1>13 DEF Listen, ListenFails, Accept, Query, Answer, Signal, vars
<1> QED BY <1>1, <1>2, <1>3, <1>4, <1>5, <1>6, <1>7, <1>8, <1>9, <1>10, <1>12, <1>13
        DEF Next, Run

(* However a process is stopped, refused or cut short, and however often   *)
(* it was started, no way out of Run waits for what cannot come.           *)
THEOREM NoHang == Spec => []WaitsEnd
<1>1. Init => Waits
  BY DEF Init, Waits
<1>2. Inv /\ Waits /\ [Next]_vars => Waits'
  BY WaitsStep
<1>3. Inv /\ Waits => WaitsEnd
  BY DEF Waits, WaitsEnd, At, None, Two
<1> QED BY <1>1, <1>2, <1>3, Invariance, PTL DEF Spec

-----------------------------------------------------------------------------
(* What Load makes of an input.                                            *)

LEMMA LoadedFrom ==
  ASSUME NEW in \in Inputs, NEW v \in Variables
  PROVE  /\ Overload(in)[v] = Given(in, v)
         /\ Loaded(in)[v] = IF v \in Optional /\ Given(in, v) = Empty THEN Default[v]
                           ELSE Given(in, v)
BY DEF Overload, Given, Loaded, ApplyDefaults

(* A default is never empty, and is a value its variable may have.         *)
LEMMA Defaults ==
  /\ \A v \in Optional : Default[v] # Empty
  /\ Default["LOG_FORMAT"] = "text"
  /\ Default["HTTP_PORT"] = "8080" /\ Default["DB_PORT"] = "5432"
BY DEF Default, Optional, Ports, Empty

LEMMA LoadedUsable ==
  ASSUME NEW in \in Inputs, Loads(in)
  PROVE  Usable(in)
<1>1. /\ "CACHE_CAPACITY" \in Variables /\ "CACHE_CAPACITY" \notin Optional
      /\ Ports \subseteq Variables
      /\ \A v \in Variables : v \in Required \/ v \in Optional \/ v = "CACHE_CAPACITY"
  BY DEF Variables, Optional, Required, Ports
<1>2. Loaded(in)["CACHE_CAPACITY"] = Overload(in)["CACHE_CAPACITY"]
  BY <1>1, LoadedFrom
<1>3. /\ Loaded(in)["CACHE_CAPACITY"] \in DOMAIN NumberOf
      /\ NumberOf[Loaded(in)["CACHE_CAPACITY"]] > 0
  BY <1>2 DEF Loads, ValidCapacity, IsNumber
<1>4. NumberOf[Loaded(in)["CACHE_CAPACITY"]] \in Nat \ {0}
  BY <1>3, ConfigAssumption
<1>5. ASSUME NEW v \in Ports
      PROVE  1024 <= NumberOf[Loaded(in)[v]] /\ NumberOf[Loaded(in)[v]] <= 65535
  <2>1. /\ Loaded(in)[v] \in DOMAIN NumberOf
        /\ NumberOf[Loaded(in)[v]] >= 1024 /\ NumberOf[Loaded(in)[v]] <= 65535
    BY DEF Loads, ValidateConfigs, IsNumber
  <2> QED BY <2>1, ConfigAssumption
<1>6. ASSUME NEW v \in Variables PROVE Loaded(in)[v] # Empty
  <2>1. CASE v \in Required
    BY <2>1 DEF Loads, ValidateConfigs
  <2>2. CASE v \in Optional
    BY <2>2, LoadedFrom, Defaults
  <2>3. CASE v = "CACHE_CAPACITY"
    BY <1>3, <2>3, ConfigAssumption
  <2> QED BY <1>1, <2>1, <2>2, <2>3
<1> QED BY <1>4, <1>5, <1>6 DEF Usable

LEMMA RefusedWith ==
  ASSUME NEW in \in Inputs, in.parses, ~Loads(in)
  PROVE  \/ \E v \in Variables \ Optional : Given(in, v) = Empty
         \/ \E v \in Variables : Given(in, v) \in Wrong[v]
<1> SUFFICES ASSUME \A v \in Variables \ Optional : Given(in, v) # Empty,
                    \A v \in Variables : Given(in, v) \notin Wrong[v]
             PROVE  Loads(in)
  OBVIOUS
<1>1. /\ "CACHE_CAPACITY" \in Variables \ Optional /\ "LOG_FORMAT" \in Optional
      /\ Required \subseteq Variables \ Optional
      /\ Ports \subseteq Optional /\ Optional \subseteq Variables
  BY DEF Variables, Optional, Required, Ports
<1>2. \A v \in Variables : Given(in, v) # Empty => InRange(v, Given(in, v))
  BY WrongAssumption
<1>3. ValidCapacity(Overload(in))
  <2>1. InRange("CACHE_CAPACITY", Overload(in)["CACHE_CAPACITY"])
    BY <1>1, <1>2, LoadedFrom
  <2>2. /\ IsNumber(Overload(in)["CACHE_CAPACITY"])
        /\ NumberOf[Overload(in)["CACHE_CAPACITY"]] \in Nat \ {0}
    BY <2>1 DEF InRange
  <2>3. \A k \in Nat \ {0} : k > 0
    OBVIOUS
  <2> QED BY <2>2, <2>3 DEF ValidCapacity
<1>4. Loaded(in)["LOG_FORMAT"] \in {"text", "json"}
  <2>1. CASE Given(in, "LOG_FORMAT") = Empty
    BY <1>1, <2>1, LoadedFrom, Defaults
  <2>2. CASE Given(in, "LOG_FORMAT") # Empty
    <3>1. InRange("LOG_FORMAT", Given(in, "LOG_FORMAT"))
      BY <1>1, <1>2, <2>2
    <3>2. Given(in, "LOG_FORMAT") \in {"text", "json"}
      BY <3>1 DEF InRange
    <3>3. Loaded(in)["LOG_FORMAT"] = Given(in, "LOG_FORMAT")
      BY <1>1, <2>2, LoadedFrom
    <3> QED BY <3>2, <3>3
  <2> QED BY <2>1, <2>2
<1>5. \A v \in Required : Loaded(in)[v] # Empty
  BY <1>1, LoadedFrom
<1>6. ASSUME NEW v \in Ports
      PROVE  /\ IsNumber(Loaded(in)[v])
             /\ NumberOf[Loaded(in)[v]] >= 1024 /\ NumberOf[Loaded(in)[v]] <= 65535
  <2>1. CASE Given(in, v) = Empty
    <3>1. Loaded(in)[v] \in {"8080", "5432"}
      BY <1>1, <2>1, LoadedFrom, Defaults DEF Ports
    <3> QED BY <3>1, ConfigAssumption DEF IsNumber
  <2>2. CASE Given(in, v) # Empty
    <3>1. InRange(v, Given(in, v)) /\ Loaded(in)[v] = Given(in, v)
      BY <1>1, <1>2, <2>2, LoadedFrom
    <3>2. Loaded(in)[v] \in DOMAIN NumberOf
      BY <3>1 DEF InRange, IsNumber
    <3>3. NumberOf[Loaded(in)[v]] \in Int
      BY <3>2, ConfigAssumption
    <3> QED BY <3>1, <3>2, <3>3 DEF InRange, IsNumber
  <2> QED BY <2>1, <2>2
<1> QED BY <1>3, <1>4, <1>5, <1>6 DEF Loads, ValidateConfigs

(* Whatever a process is given, what it loads is usable: nothing is empty, *)
(* the cache holds at least one order, the ports are in range.             *)
THEOREM UsableWhenLoaded == Spec => []LoadedIsUsable
<1>1. LoadedIsUsable
  BY LoadedUsable DEF LoadedIsUsable
<1> QED BY <1>1, PTL

(* What is loaded is what was given or the documented default, and only a  *)
(* required variable that is empty or one out of range is refused.         *)
THEOREM LoadsAsDocumented == Spec => []LoadedAsDocumented
<1>1. ASSUME NEW in \in Inputs PROVE AsDocumented(in)
  <2>1. CASE Loads(in)
    BY <2>1, LoadedFrom DEF AsDocumented
  <2>2. CASE ~Loads(in)
    BY <2>2, RefusedWith DEF AsDocumented
  <2> QED BY <2>1, <2>2
<1>2. LoadedAsDocumented
  BY <1>1 DEF LoadedAsDocumented
<1> QED BY <1>2, PTL
=============================================================================
