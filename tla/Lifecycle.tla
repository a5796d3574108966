----------------------------- MODULE Lifecycle -----------------------------
(***************************************************************************)
(* The life of the process: Run in internal/app/app.go from the            *)
(* configuration to its deferred calls, the consumer, the server and the   *)
(* handlers it starts, what golang-migrate leaves in the database,         *)
(* crashes, and the restarts of docker-compose.                            *)
(***************************************************************************)
EXTENDS Config, Sequences

CONSTANTS
  Handlers,   \* goroutines that serve requests
  Inputs,     \* the .env files and environments there may be
  Starts,     \* those among them whose process is followed to its end
  Rates,      \* the values that limiter.NewRateFromFormatted takes
  MaxFaults,  \* errors of the database at start-up (a bound)
  MaxCrashes, \* times the process is killed (a bound)
  Signals     \* is anybody sending SIGINT or SIGTERM?

ASSUME LifecycleAssumption ==
  /\ \A in \in Inputs : DOMAIN in.file \subseteq Variables /\ DOMAIN in.env = Variables
  /\ Starts # {} /\ Starts \subseteq Inputs
  /\ MaxFaults \in Nat /\ MaxCrashes \in Nat /\ Signals \in BOOLEAN

(* Wrong is what it is called, among the values that are given.            *)
ASSUME WrongAssumption ==
  \A in \in Inputs : \A v \in Variables :
    Given(in, v) # Empty => (Given(in, v) \in Wrong[v] <=> ~InRange(v, Given(in, v)))

VARIABLES
  run,       \* Run: its pc, input, deferred calls and exit code
  cancelled, \* the context of signal.NotifyContext
  pool,      \* the pgx pool
  consumer,  \* where Consume is, and whether its reader is open
  server,    \* where ListenAndServe is, and whether errCh holds its error
  handler,   \* handler -> where it is
  db,        \* schema_migrations, and the migrations whose tables exist
  spent,     \* faults and crashes so far
  cut        \* history: what has cut a call of this process short

vars == <<run, cancelled, pool, consumer, server, handler, db, spent, cut>>

Migrations == 1..2
None == "none"

Started(input) ==
  /\ run' = [pc |-> "config", input |-> input, deferred |-> <<>>, code |-> 0]
  /\ cancelled' = FALSE
  /\ pool' = None
  /\ consumer' = [at |-> None, reader |-> FALSE]
  /\ server' = [at |-> None, err |-> FALSE]
  /\ handler' = [h \in Handlers |-> "idle"]
  /\ cut' = {}

Init ==
  /\ run \in [pc : {"ended"}, input : Starts, deferred : {<<>>}, code : {0}]
  /\ cancelled = FALSE
  /\ pool = None
  /\ consumer = [at |-> None, reader |-> FALSE]
  /\ server = [at |-> None, err |-> FALSE]
  /\ handler = [h \in Handlers |-> "idle"]
  /\ db = [version |-> 0, dirty |-> FALSE, tables |-> {}]
  /\ spent = [faults |-> 0, crashes |-> 0]
  /\ cut = {}

(* The operator, or "restart: unless-stopped", starts the next process.    *)
Start ==
  /\ run.pc = "ended"
  /\ \E input \in Starts : Started(input)
  /\ UNCHANGED <<db, spent>>

-----------------------------------------------------------------------------
(* Run.                                                                    *)

At(pc)   == run.pc = pc
Goto(pc) == run' = [run EXCEPT !.pc = pc]

GotoDeferring(pc, call) ==
  run' = [run EXCEPT !.pc = pc, !.deferred = Append(@, call)]

(* return: the deferred calls run next.                                    *)
Return(code) == run' = [run EXCEPT !.pc = "return", !.code = code]

(* config.Load; then the signals are caught.                               *)
LoadConfig ==
  /\ At("config")
  /\ IF Loads(run.input) THEN GotoDeferring("pool", "stop") ELSE Return(1)
  /\ UNCHANGED <<cancelled, pool, consumer, server, handler, db, spent, cut>>

(* The ping uses the context that a signal cancels.                        *)
CreatePool ==
  /\ At("pool")
  /\ \/ cancelled /\ Return(1) /\ UNCHANGED pool
     \/ ~cancelled /\ GotoDeferring("migrate", "pool") /\ pool' = "open"
  /\ UNCHANGED <<cancelled, consumer, server, handler, db, spent, cut>>

(* Mutant: one migration too many is looked for.                           *)
RunMigrationsLong ==
  /\ At("migrate")
  /\ \/ db.dirty /\ Return(1)
     \/ ~db.dirty /\ Goto("mark")
  /\ UNCHANGED <<cancelled, pool, consumer, server, handler, db, spent, cut>>

(* migrate.Up: nothing to do is ErrNoChange, a dirty schema is ErrDirty.   *)
RunMigrations ==
  /\ At("migrate")
  /\ \/ db.dirty /\ Return(1)
     \/ ~db.dirty /\ db.version = 2 /\ Goto("populate")
     \/ ~db.dirty /\ db.version < 2 /\ Goto("mark")
  /\ UNCHANGED <<cancelled, pool, consumer, server, handler, db, spent, cut>>

(* Each migration: its version is set dirty, its body is run as a whole,   *)
(* its version is set clean.                                               *)
Migrate ==
  /\ \/ /\ At("mark") /\ Goto("apply")
        /\ db' = [db EXCEPT !.version = @ + 1, !.dirty = TRUE]
     \/ /\ At("apply") /\ Goto("clean")
        /\ db' = [db EXCEPT !.tables = @ \cup {db.version}]
     \/ /\ At("clean") /\ Goto("migrate")
        /\ db' = [db EXCEPT !.dirty = FALSE]
  /\ UNCHANGED <<cancelled, pool, consumer, server, handler, spent, cut>>

(* Mutant: the error of the migrations is logged, as Populate's is.        *)
StartFaultIgnored ==
  /\ run.pc \in {"pool", "migrate", "mark", "apply", "clean"}
  /\ spent.faults < MaxFaults
  /\ spent' = [spent EXCEPT !.faults = @ + 1]
  /\ IF At("pool") THEN Return(1) ELSE Goto("populate")
  /\ UNCHANGED <<cancelled, pool, consumer, server, handler, db, cut>>

(* The database fails CreatePool or RunMigrations.                         *)
StartFault ==
  /\ run.pc \in {"pool", "migrate", "mark", "apply", "clean"}
  /\ spent.faults < MaxFaults
  /\ spent' = [spent EXCEPT !.faults = @ + 1]
  /\ Return(1)
  /\ UNCHANGED <<cancelled, pool, consumer, server, handler, db, cut>>

(* Populate, whose error is only logged; then the consumer is started.     *)
StartConsumer ==
  /\ At("populate")
  /\ GotoDeferring("limiters", "consumer")
  /\ consumer' = [at |-> "reading", reader |-> TRUE]
  /\ UNCHANGED <<cancelled, pool, server, handler, db, spent, cut>>

(* The formats of both limits are only looked at here.                     *)
CreateLimiters ==
  /\ At("limiters")
  /\ IF \A v \in {"RATE_LIMIT", "RATE_LIMIT_REGISTER"} : Loaded(run.input)[v] \in Rates
     THEN Goto("router") ELSE Return(1)
  /\ UNCHANGED <<cancelled, pool, consumer, server, handler, db, spent, cut>>

StartServer ==
  /\ At("router") /\ Goto("select")
  /\ server' = [at |-> "starting", err |-> FALSE]
  /\ UNCHANGED <<cancelled, pool, consumer, handler, db, spent, cut>>

(* Whichever is ready, and either when both are.                           *)
Select ==
  /\ At("select")
  /\ \/ cancelled /\ Goto("drain")
     \/ server.err /\ Return(1)
  /\ UNCHANGED <<cancelled, pool, consumer, server, handler, db, spent, cut>>

(* Mutant: the server is shut down without waiting for the consumer.       *)
DrainNothing ==
  /\ At("drain")
  /\ Goto("shutdown")
  /\ server' = [server EXCEPT !.at = "closed"]
  /\ UNCHANGED <<cancelled, pool, consumer, handler, db, spent, cut>>

(* <-consumerDone, then Shutdown closes the listener.                      *)
Drain ==
  /\ At("drain") /\ consumer.at = "stopped"
  /\ Goto("shutdown")
  /\ server' = [server EXCEPT !.at = "closed"]
  /\ UNCHANGED <<cancelled, pool, consumer, handler, db, spent, cut>>

Idle == \A h \in Handlers : handler[h] = "idle"

(* Shutdown waits for the handlers, for five seconds.                      *)
Shutdown ==
  /\ At("shutdown") /\ Idle
  /\ Return(0)
  /\ UNCHANGED <<cancelled, pool, consumer, server, handler, db, spent, cut>>

ShutdownTimesOut ==
  /\ At("shutdown") /\ ~Idle
  /\ Return(1)
  /\ UNCHANGED <<cancelled, pool, consumer, server, handler, db, spent, cut>>

(* The deferred calls, the last one first.                                 *)
Deferred(call) ==
  LET n == Len(run.deferred)
  IN  /\ At("return") /\ n > 0 /\ run.deferred[n] = call
      /\ run' = [run EXCEPT !.deferred = SubSeq(@, 1, n - 1)]

(* Mutant: the consumer is waited for as well.                             *)
CloseConsumerWaiting ==
  /\ consumer.at = "stopped"
  /\ Deferred("consumer")
  /\ consumer' = [consumer EXCEPT !.reader = FALSE]
  /\ UNCHANGED <<cancelled, pool, server, handler, db, spent, cut>>

(* From here on the reader returns io.EOF, and Consume reads again: a step *)
(* that changes nothing.                                                   *)
CloseConsumer ==
  /\ Deferred("consumer")
  /\ consumer' = [consumer EXCEPT !.reader = FALSE]
  /\ UNCHANGED <<cancelled, pool, server, handler, db, spent, cut>>

InUse == consumer.at = "adding" \/ \E h \in Handlers : handler[h] = "querying"

(* Close hands out no connection any more, and waits for those in use.     *)
ClosePool ==
  /\ \/ pool = "open" /\ At("return") /\ run.deferred = <<"stop", "pool">>
        /\ pool' = "closing" /\ UNCHANGED run
     \/ pool = "closing" /\ ~InUse /\ Deferred("pool") /\ pool' = "closed"
  /\ UNCHANGED <<cancelled, consumer, server, handler, db, spent, cut>>

Stop ==
  /\ Deferred("stop")
  /\ cancelled' = TRUE
  /\ UNCHANGED <<pool, consumer, server, handler, db, spent, cut>>

(* main exits, and every goroutine with it, wherever it is.                *)
Exit ==
  /\ At("return") /\ run.deferred = <<>>
  /\ Goto("ended")
  /\ UNCHANGED <<cancelled, pool, consumer, server, handler, db, spent, cut>>

-----------------------------------------------------------------------------
(* The goroutines Run has started, and the world.                          *)

Alive == run.pc # "ended"

Receive ==
  /\ Alive /\ consumer.at = "reading" /\ consumer.reader
  /\ consumer' = [consumer EXCEPT !.at = "received"]
  /\ UNCHANGED <<run, cancelled, pool, server, handler, db, spent, cut>>

Consumer(at) == consumer' = [consumer EXCEPT !.at = at]

(* processMessage may refuse the message.  AddOrderIfNotExists takes a     *)
(* connection and gives it back, done or failed.  It is given the context  *)
(* that a signal cancels, and that cuts it short: no connection for the    *)
(* order that comes, and the one being stored is rolled back.              *)
Add ==
  /\ Alive
  /\ \/ /\ consumer.at = "received" /\ pool = "open" /\ ~cancelled
        /\ Consumer("adding") /\ UNCHANGED cut
     \/ /\ consumer.at \in {"received", "adding"}
        /\ Consumer("reading") /\ UNCHANGED cut
     \/ /\ consumer.at \in {"received", "adding"} /\ cancelled
        /\ Consumer("reading") /\ cut' = cut \cup {"context"}
     \/ /\ consumer.at = "received" /\ pool # "open" /\ ~cancelled
        /\ Consumer("reading") /\ cut' = cut \cup {"pool"}
  /\ UNCHANGED <<run, cancelled, pool, server, handler, db, spent>>

StopConsuming ==
  /\ Alive /\ consumer.at = "reading" /\ cancelled
  /\ consumer' = [consumer EXCEPT !.at = "stopped"]
  /\ UNCHANGED <<run, cancelled, pool, server, handler, db, spent, cut>>

Listen ==
  /\ Alive /\ server.at = "starting"
  /\ server' = [server EXCEPT !.at = "listening"]
  /\ UNCHANGED <<run, cancelled, pool, consumer, handler, db, spent, cut>>

(* The port is taken, or the listener breaks.                              *)
ListenFails ==
  /\ Alive /\ server.at \in {"starting", "listening"}
  /\ server' = [at |-> "failed", err |-> TRUE]
  /\ UNCHANGED <<run, cancelled, pool, consumer, handler, db, spent, cut>>

Accept(h) ==
  /\ Alive /\ server.at = "listening" /\ handler[h] = "idle"
  /\ handler' = [handler EXCEPT ![h] = "serving"]
  /\ UNCHANGED <<run, cancelled, pool, consumer, server, db, spent, cut>>

(* A handler takes a connection if there is a pool, and gives it back.     *)
Query(h) ==
  /\ Alive /\ handler[h] = "serving" /\ pool = "open"
  /\ handler' = [handler EXCEPT ![h] = "querying"]
  /\ UNCHANGED <<run, cancelled, pool, consumer, server, db, spent, cut>>

(* It answers, with an error if there was no connection for it.            *)
Answer(h) ==
  /\ Alive /\ handler[h] \in {"serving", "querying"}
  /\ handler' = [handler EXCEPT ![h] = "idle"]
  /\ \/ UNCHANGED cut
     \/ handler[h] = "serving" /\ pool # "open" /\ cut' = cut \cup {"pool"}
  /\ UNCHANGED <<run, cancelled, pool, consumer, server, db, spent>>

(* SIGINT or SIGTERM; NotifyContext has caught them since LoadConfig.      *)
Signal ==
  /\ Signals /\ Alive /\ run.deferred # <<>> /\ ~cancelled
  /\ cancelled' = TRUE
  /\ UNCHANGED <<run, pool, consumer, server, handler, db, spent, cut>>

Crash ==
  /\ Alive /\ spent.crashes < MaxCrashes
  /\ spent' = [spent EXCEPT !.crashes = @ + 1]
  /\ run' = [run EXCEPT !.pc = "ended", !.code = 1]
  /\ UNCHANGED <<cancelled, pool, consumer, server, handler, db, cut>>

Run ==
  \/ LoadConfig \/ CreatePool \/ RunMigrations \/ Migrate
  \/ StartConsumer \/ CreateLimiters \/ StartServer \/ Select
  \/ Drain \/ Shutdown \/ CloseConsumer \/ ClosePool \/ Stop \/ Exit

Next ==
  \/ Start \/ Run \/ StartFault \/ ShutdownTimesOut
  \/ Receive \/ Add \/ StopConsuming
  \/ Listen \/ ListenFails
  \/ \E h \in Handlers : Accept(h) \/ Query(h) \/ Answer(h)
  \/ Signal \/ Crash

Spec == Init /\ [][Next]_vars

(* Goroutines run, the database answers what it is asked, handlers return; *)
(* the ctx of a cancelled read is picked up sooner or later even while     *)
(* messages keep coming.                                                   *)
FairSpec ==
  /\ Spec
  /\ WF_vars(Start) /\ WF_vars(Run) /\ WF_vars(Add) /\ SF_vars(StopConsuming)
  /\ \A h \in Handlers : WF_vars(Answer(h))

-----------------------------------------------------------------------------
TypeOK ==
  /\ run \in [pc : {"config", "pool", "migrate", "mark", "apply", "clean", "populate",
                    "limiters", "router", "select", "drain", "shutdown", "return", "ended"},
              input : Starts,
              deferred : {<<>>, <<"stop">>, <<"stop", "pool">>, <<"stop", "pool", "consumer">>},
              code : {0, 1}]
  /\ cancelled \in BOOLEAN
  /\ pool \in {None, "open", "closing", "closed"}
  /\ consumer \in [at : {None, "reading", "received", "adding", "stopped"}, reader : BOOLEAN]
  /\ server \in [at : {None, "starting", "listening", "failed", "closed"}, err : BOOLEAN]
  /\ handler \in [Handlers -> {"idle", "serving", "querying"}]
  /\ db \in [version : 0..2, dirty : BOOLEAN, tables : SUBSET Migrations]
  /\ spent \in [faults : 0..MaxFaults, crashes : 0..MaxCrashes]
  /\ cut \subseteq {"context", "pool"}

(* Whatever a process is given: what it loads is usable as the rest of the *)
(* program takes it to be, with a cache of at least one order; it is what  *)
(* was given, or the README's default; and only a required variable or one *)
(* out of range is a reason to refuse it.                                  *)
LoadedIsUsable     == At("config") => \A in \in Inputs : Loads(in) => Usable(in)
LoadedAsDocumented == At("config") => \A in \in Inputs : AsDocumented(in)

(* "Graceful shutdown via signal.NotifyContext for both the HTTP server    *)
(* and Kafka consumer": when a process exits with 0 its consumer has left  *)
(* the loop and its handlers are done, the pool was closed after them, and *)
(* no call of theirs has found it closed.  The signal itself may have had  *)
(* the insert under way rolled back (app.go:110, consumer.go:72): that     *)
(* order is the next process's, which reads the topic from its start.      *)
GracefulExit ==
  run.pc = "ended" /\ run.code = 0 /\ consumer.at # None =>
    consumer.at = "stopped" /\ Idle /\ pool = "closed" /\ "pool" \notin cut

(* Nothing works on the tables before all migrations have been applied,    *)
(* whatever earlier processes left behind.                                 *)
SchemaComplete ==
  consumer.at # None \/ server.at # None =>
    db.tables = Migrations /\ db.version = 2 /\ ~db.dirty

(* A process that was told to stop, or that could not start, ends: none of *)
(* its deferred calls waits for ever.                                      *)
EndsWhenTold == (cancelled \/ run.pc = "return") ~> run.pc = "ended"
=============================================================================
