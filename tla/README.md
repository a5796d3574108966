# Verification of gorder

TLA+ models of the order service in `src/`, the TLC runs that check them on small
instances, and proofs, checked by TLAPS, of the properties that matter most for every
instance. `PROJECT.json` ties each definition to the lines it models, each property to a run
and to a mutant of the code that breaks it, and each hazard to the properties that watch it.

## 1. The system

Orders arrive on a Kafka topic. One goroutine, the consumer, decodes and validates each
message, stores it in PostgreSQL (four tables, one transaction) and puts it into an in-memory
LRU cache. HTTP handlers, one goroutine per request, read an order from the cache, or from the
database on a miss, in which case they put it into the cache too. The process is told to stop
by a signal and is started again by docker-compose.

| Component | State it keeps | Operations | Talks to |
|---|---|---|---|
| LRU cache, `internal/cache` | map uid → node, doubly linked list between two sentinels, `OrdersInCache` gauge | `Set`, `Get`, `Delete`, `Size`, `Populate` | called by consumer, handlers, `Run`; `Populate` calls the repository |
| Repository, `internal/repository` | the tables, open transactions, pool connections | `AddOrderIfNotExists`, `AddOrder`, `OrderExists`, `GetOrderByUID[AndUser]`, `GetAllOrdersUID[ByUser]`, `GetRecentOrdersUID`, user methods, `Ping`, migrations | PostgreSQL through a pgx pool |
| Consumer, `internal/consumer` | position in the topic (no consumer group: it is lost with the process) | `Consume`, `CheckHealth` | Kafka, repository, cache, `OrdersProcessed` |
| Order handlers, `internal/handler` | none of their own | two pages, two user and two admin API routes | cache, repository |
| Lifecycle, `internal/app`, `cmd/main.go` | phases of the process | start with `Populate`, signal, consumer stop, `Shutdown`, exit, error returns | everything |
| Accounts, `handler/login.go`, `middleware/auth.go` | users table, JWT cookies in the browser | login, refresh, logout, register, `JWTAuth` | repository |
| Routing and rate limiting, `app.go`, `middleware/ratelimit.go`, `middleware/auth.go` | in-memory counters, one per address | `createRouter`'s chains, `RateLimitMiddleware`, `JWTAuth`, `RequireRole` | every handler |
| Readiness, `handler.go`, `consumer.go` | two locals shared with two goroutines | `ReadyCheckHandle`, `Ping`, `CheckHealth` | database, Kafka |
| Configuration, `internal/config` | – | `Load` | read by `Run` |
| Emulator, `cmd/emulator` | – | two loops of writes, then exit | Kafka |
| Models and validation; metrics | counters | `LoadOrderFromFile`, validator tags | – |
| Token generator, templates, API docs | – | – | – |

What is hard here, and so what the properties are aimed at:

- **Two fillers of one cache.** Between the store's answer and `cache.Set` no lock is held; the
  consumer and any number of handlers interleave there, with eviction and restarts.
- **Two places that decide who may see an order.** For an uncached order the query's `WHERE`
  clause, for a cached one a comparison in the handler. They ought to agree.
- **Check, then insert.** `AddOrderIfNotExists` is two statements; only the primary key makes
  them safe. An order is read by two queries in two snapshots.
- **Four tables, one transaction, one connection** that every way out has to give back.
- **Failure half way**: a lost `COMMIT` reply, a refused column, a cancelled context, a process
  that dies between commit, cache and counter, and the whole topic redelivered afterwards.
- **Pointers**: list, map and gauge of the cache are kept in step by hand.
- **Shutdown order**: consumer first, then the server, then the deferred calls in reverse, on the
  signal's path, the server's error path and every early return, and then the next start.
- **Half a schema**: golang-migrate marks, runs and cleans each migration in separate statements.
- **Racing registrations** over one name, with slow hashing between the request and the insert.
- **Several tabs** that log in, refresh and log out at once, their answers arriving in any order.
- **Windows**: a fixed-window limiter is judged against any period, not only its own.
- **A join**: the readiness answer is put together from what two goroutines left behind.

`PROJECT.json` lists these hazards at their lines (`hazards`).

## 2. The modules

```
OrderData            orders, rows, and the two forms of an order
 ├── OrderStore      abstract: what the repository promises
 │    ▲ implemented by
 │   Repository      the statements, transactions, pool     MCRepository   RepositoryProofs
 │
 ├── LRU (no data)   abstract: what the cache promises
 │    ▲ implemented by
 │   LRUCache        the pointers, map and gauge            MCLRUCache     LRUCacheProofs
 │
 └── OrderService    OrderStore + LRU + topic, consumer,    MCOrderService OrderServiceProofs
                     handlers and process

Accounts             users, tokens, cookies                 MCAccounts     AccountsProofs
Router               chains of middleware, the limiter      MCRouter       RouterProofs
Config
 └── Lifecycle       Run, its goroutines, the schema        MCLifecycle    LifecycleProofs
Readiness            two probes and their join              MCReadiness    ReadinessProofs
Emulator             the producer under its restart policy  MCEmulator     EmulatorProofs
```

`OrderService` composes the *abstract* store and cache, which keeps its state space small and its
proofs short. That `Repository` implements `OrderStore` and `LRUCache` implements `LRU` is proved,
and so is the other half: `OrderService` takes no steps of store and cache but theirs
(`StoreUsedAsPromised`, `CacheUsedAsPromised`). Two assumptions of the replacement are worth
naming. `LRU`'s operations are atomic because every method of `Cache` holds `mu` throughout. And
`OrderStore` lets a call take effect at one instant between call and return, which is what the
refinement shows of the multi-statement methods.

The modules in the lower half share no state with orders: accounts touch only the users table,
the router decides only whether a handler runs, the lifecycle only what exists while one does.
Each is therefore a specification of its own. `OrderService` keeps a process that is up or down,
the coarse view of `Lifecycle`, because the cache and the reader's offset are lost with it.

### OrderData

An order is a record of its uid, customer, `date_created`, number of items, and `refusedBy`:
validation is wider than the schema (a `uint` field against an `INTEGER` column, an e-mail of
any length against `VARCHAR(100)`), so a validated order may be refused by one of the four
INSERTs, and `refusedBy` says which. `RowOf` is the round trip through the database:
`TIMESTAMPTZ` keeps microseconds, a Go time nanoseconds, and the date is truncated. Everything
else in an order is carried along by the program and never looked at.

### LRU and LRUCache

`LRU` is one sequence, most recently used first, with `Set` (replace, insert or evict) and
`Hit`. `LRUCache` has `next` and `prev` of each node, the sentinels, the map, and the gauge.
`AddNode`, `RemoveNode`, `MoveToHead`, `PopTail` are the code's helpers as functions from links
to links; `SetExisting`, `SetNew`, `SetEvict` the three paths of `Set`; `Get` is a hit (a miss
changes nothing here); `PopulateOne`/`PopulateDone` the loop and the final assignment of the
gauge. `Delete` is as written, and only in `DeletingSpec`: the program itself never calls it.
`Chain`, the values read from the head, is the refinement mapping. The hit and miss counters are
left out: nothing reads them.

### OrderStore and Repository

`OrderStore`: a call is invoked, takes effect or fails, and is returned. An add takes effect
once per uid, or is refused; `InsertUnreported` is the commit whose reply was lost; a select
returns what is stored and visible to the owner it names. `Abandon` is the end of the calling
process.

`Repository`: each client has a program counter that names the next statement
(`exists`, `begin`, the tables in the order of `AddOrder`, `commit`, `rollback`, `query`,
`items`, `list`), and its open transaction. Read committed: `MustWait` is an INSERT that meets
another transaction's uncommitted key, `Taken` one that meets a committed key. A statement
outside a transaction needs a free connection for itself; `Begin` takes one until `EndTx`. The
deferred function of `AddOrder` is `Rollback`. `StatementError` can strike at any statement,
`CommitError` with either outcome, `Crash` at any time. The refinement mapping is `rows`, the
committed rows of table `orders`.

### OrderService

`phase` is the process: down, up, stopping (the signal's context is done), draining (the
consumer is gone, the server is shutting down). `topic` and `offset` are Kafka's log and the
reader's place in it; `consumer` is where `Consume`'s loop is. A request is served by
`ServeHit` (answered from the cache) or by `ServeMiss`/`ServeList` followed, after the store's
step, by one of the `Respond` actions, which sets the cache where the handler does. `Receive`,
`Skip`, `AddOk`, `AddFailed`, `StopConsuming` are the exits of one round of `Consume`. `Signal`,
`Shutdown`, `Exit`, `Crash`, `Boot` are `Run`; `Boot` fills the cache the way `Populate` does,
from the `Capacity` newest rows, each of which may be missing if it could not be loaded.
`atBoot` and `req[r].known` are history variables, written and never read by the program.

Routes differ in the role `createRouter` admits (`Allowed`), in the owner they put into the
query (`OwnerOf`), and in what they show of a cached order (`ShownFromCache`).

### Accounts

`users` maps the names that are taken to a password and a role; migration 000002 seeds it. A
call is sent, perhaps waits between two parts of its handler, and is answered: `Login` reads the
row and `Compare` runs bcrypt on what was read; `Hash` runs bcrypt and `Insert` is `CreateUser`,
which answers 409 whatever its error was; `Refresh` copies the claims of the token it is given;
`Logout` clears both cookies; `Authenticate` is `JWTAuth`; `Fail` is a statement that fails, or an
insert that is done and whose reply is lost. A token is its claims and its expiry; a forged or
malformed one is `None`. `Reads` says what bcrypt makes of a password: `GenerateFromPassword` (in
`Hash`) refuses one of more than 72 bytes, `CompareHashAndPassword` (`Matches`) refuses none and
reads the first 72, so a login with a longer password that begins with a stored one of 72 bytes is
let in. `jar` is the browser's cookie jar, which an answer changes when it
arrives (`Receive`), in any order; a cookie's Max-Age counts from then. `issued`, `created`, and a
call's `known` and `failed` are histories.

### Router

A route is its `Chain` of functions and `req[r].pos` is gin's index: `Pass` moves it on, `Abort`
writes an answer and jumps past the chain. `RateLimit`, `JWTAuth`, `RequireRole` and `Handle` are
the functions, one step each, so that requests interleave between them. `counter` is the memory
store of the limiter: a count and the time it expires, and a request after that time opens a new
window (`Counted`). `limited` is a history: when each request of an address came to the limiter
and whether it passed. What a handler answers is one value, "served": whether it is a 200 or a
404 is `OrderService`'s and `Accounts`' business. There is one limiter, and one counter for an
address, whichever of the three limited routes it asks for; `RegisterLimiter` is made and used
nowhere.

### Config and Lifecycle

`Config` is `Load` as functions of its input: `Overload` lays the file over the environment,
`ApplyDefaults` fills in, `ValidCapacity` and `ValidateConfigs` refuse, in the code's order: the
capacity is looked at before the defaults are set, the ports after. `Wrong` says for each variable
which of the values in use are out of its range, independently of the checks.

`Lifecycle`'s `run.pc` walks through `Run`; `run.deferred` is the stack of its deferred calls,
which every `Return` unwinds from the top: the reader's close, the pool's close, and `stop`, which
cancels the context last. Beside it run the consumer, the server with `errCh`, the handlers,
signals, and crashes that leave everything where it is. `ClosePool` takes two steps: first no
connection is handed out any more, then those in use are waited for. `Migrate` is golang-migrate:
mark the version dirty, run its statements, mark it clean; `db` outlives the process. The consumer
hands the signal's context on to the repository (`app.go:110`, `consumer.go:72`), so `Add` has a
cancelled call get no connection and an insert under way rolled back; `cut` is the history of what
cut a call short, that context or a pool that was closed.

### Readiness

`Check` starts one goroutine per dependency; each ends in `Succeed`, or in `Fail` (which writes
`healthy`) and `Report` (which writes the status string), and then `Done`. The handler goes on when
`Joined`. `Toggle` makes a dependency go or come back at any moment, and `seen` records what it was
while it was being probed.

### Emulator

`next` runs through both loops of `main`: the random orders, then the files. A write succeeds,
fails with the message stored or not (`WriteError`), or is dropped by a broker that was asked for
no acknowledgement (`WriteLost`). A failed write ends the run with 1 and docker-compose starts the
next (`Restart`), from the first order on. `Topic` is the one in the code; `topics` are those the
broker has. The program creates none: `Create` is somebody else's step, an operator's or the
broker's for a reader that asks, and `Creatable` the topics they may create. docker-compose.yml has a
service for it, `kafka-topics-setup`, but passes it no `KAFKA_TOPIC`, so the model does not take that
topic, or any, to be there. The emulator is modelled from its start; that docker-compose holds it
back until `kafka-topics-setup` has succeeded is left out.

## 3. The runs

| Run | Question | Instance |
|---|---|---|
| `lru_refines` | Is the pointer structure an LRU cache? List sound both ways, map into list, capacity, gauge, and `LRU` itself as a property | 4 uids, capacity 3, 4 nodes |
| `lru_delete_capacity` | What does `Delete` break? (violation) | 4 uids, capacity 2, `Delete` of some |
| `repo_refines` | Are the methods, interleaved and cut short anywhere, the atomic store? Are four tables whole, is what is committed left alone, is every connection returned, does every call return? | 3 callers, 2 connections, 3 orders of one uid: 2 rivals and one that the payment table refuses |
| `svc_requests` | Is every answer sound and complete, and do cache and store agree, through faults, lost replies, shutdown, crash and restart? | consumer and one request, 2 customers and an administrator, 3 orders, 2 of them rivals, capacity 1, topic of 2, 1 fault, 1 exit, read timeouts |
| `svc_consumer` | Is each order counted once, does the first of a uid win, and is every storable order stored unless a live process gave it up? | no requests, topic of 3 from 4 orders and a bad message, 1 fault, 1 exit, read timeouts |
| `svc_admin_page` | Does an administrator see all orders? (violation) | 1 request |
| `routes` | Is each request answered once and served to whom it should be; how many pass the limiter, and who is refused? | 2 requests at a time, 5 in all, 2 addresses, limit 2, period 2, every route |
| `accounts` | Who owns a name, what do tokens and cookies say, and what do a login and a registration answer? | 2 calls at a time, 3 names (one seeded, one too long), 3 passwords (one too long, and read by bcrypt like another), tokens of 1 and 2 ticks, 1 fault |
| `life_stops` | Is what loads usable; does `Run` end, and what is left under way when it has; what does it start over? | 3 starts followed to their end, every input with up to two variables off, 2 handlers, 1 fault, 1 crash, signals |
| `emu_sends` | When is the emulator done, and what has it sent then? | 2 random orders, 3 files, one unreadable, its topic and another created at any time or never, 3 faults |
| `emu_example` | Is it done with `KAFKA_TOPIC` as in `.env.example`? (violation) | only that topic is ever created, no faults |
| `ready_answers` | Is a readiness answer true, and does it come? | 2 probes, 2 checks |

What each property says is in the comment above its definition.

### Bounds

- `Nodes` (cache): without `Delete` at most `Capacity + 1` nodes exist at once, one in the
  moment before eviction, so the bound excludes nothing. With `Delete` unindexed nodes pile up
  in the list without limit; that run stops when the nodes run out, which is why it does not
  check deadlock. `MaxDrift` stops the gauge at −2 there.
- Capacity 3 of 4 uids: a node can be first, in the middle and last when it is moved, and
  eviction happens. `svc_*` use capacity 1, so that every `Set` of another uid evicts.
- `Clients`, `PoolSize`: a wait for a row and a wait for a connection need a holder each and
  one more caller: three callers on two connections. Two suffice for all safety questions, which
  are about pairs of callers, and their proofs hold for any number. One uid, for which all orders
  compete: what is done under different uids shares only the pool.
- `Requests` in `svc_requests`: one, against a consumer that sets and evicts the same uids. Two
  handlers interfere only through the cache, and the properties are proved for any number.
- `MaxTopic` 2 or 3: a repeat or a rival and one other order. `MaxFaults` 1 and `MaxExits` 1:
  one fault is followed by everything it leads to, the restart included.
- `NsPerMicro` 2: dates come in two forms, equal or not.
- `routes`: 4 arrivals at limit 2 reach the worst stretch (2·2 − 1 passing, in two windows), the
  fifth is refused; three instants with a period of 2 hold a window's end and the next one's start.
- `accounts`: the time runs from 0 to 1 with an access token of 1 tick and a refresh token of 2,
  so that the first expires and the second does not; two calls race for one name, two tabs for one
  jar.
- `life_stops`: the inputs include each variable on both sides of each of its limits, missing, and
  in the file or in the environment, two variables at a time, so that one error cannot hide
  another's check. The three starts followed to their end are a file that does not parse, a rate
  that nobody can read, and a good one. Two migrations are all there are.
- `emu_sends`: three faults end a run early, twice more its successors, and kill or lose in
  between. `ready_answers`: two checks, so that one starts on what the one before left.
- Deadlock is not checked where the system may rest: the service when producers and users do
  (`svc_*`), the router when nobody asks, the emulator when it is done.
- Symmetry only over nodes, calls, requests and addresses that no property tells apart;
  never in a run with a liveness property.

### Fairness

- `Repository.FairSpec`: strong fairness of each client's next statement. A connection or a row
  lock is free again and again rather than always; the pgx pool and PostgreSQL's lock queue
  serve their waiters in the order they came, so a waiter that could go again and again does.
  `StatementError` and `Crash` are not fair: they never have to happen.
- `OrderService.FairSpec`: weak fairness of the consumer's loop, of each store call's outcome and
  of the handler that waits for it, of `StopConsuming` once the context is done (`ReadMessage`
  returns on it), of `Shutdown`, `Exit` and `Boot`. `Boot` is docker-compose's restart policy, or
  whoever stopped the service. Nothing is assumed of producers, users, signals or faults.
- `Lifecycle.FairSpec`: weak fairness of `Start`, of `Run`'s own steps, of a store call and of a
  handler's return. Strong fairness of `StopConsuming`: while messages keep coming the reader is
  between two reads only now and then, and it looks at the context at each. Signals, crashes,
  faults, the server's failure and new requests never have to happen.
- `Emulator.FairSpec`: the process runs, the broker answers it, and it is restarted when it has
  failed (`restart: on-failure`). Nobody ever has to create a topic. `Readiness.FairSpec`: a probe ends, after
  its three seconds at the latest, and the handler goes on once both have.

### Findings

- `Delete` leaves the node in the list, so a later eviction removes it instead of a live node
  and the cache outgrows its capacity (`lru_delete_capacity`). Only tests call `Delete` today.
- The order page answers an administrator 404 for another customer's order while that order is
  cached, and 200 once it has been evicted (`svc_admin_page`). `AnswerComplete` therefore sets
  that one case apart and holds for every other route and role.
- The emulator writes to a topic of its own (`emulator.go:37`), whatever `KAFKA_TOPIC` is, and
  `.env.example:19` sets that to another. Nothing in the repository creates the emulator's topic
  (`docker-compose.yml:88`), so its first write fails, it exits with 1 and is restarted for ever
  (`emu_example`), where `src/README.md:137` has it send the test orders and exit when done, and
  `src/README.md:38` send them on the first run. `DoneIfTopicExists` is what does hold.

Met on the way, stated by the models and told here rather than by a run:

- A message whose store call failed is passed over and not tried again before the process
  restarts (`consumer.go:73`), and a read that ends in `DeadlineExceeded` for a reason of its own
  (a dial timeout is one) stops the consumer for good while the server goes on (`consumer.go:57`).
  `StoredOrGivenUp` says that these two are the only ways to leave a storable order out.
- `POST /register` has no limiter and `RegisterLimiter` is unused (`app.go:248`), where
  `src/README.md:92` lists one of 3 requests a minute; the limiter of `GET /register` stands behind
  its handler and appends its refusal to the page (`app.go:246`). `AnsweredOnce` sets the
  registration page apart.
- The user API requires the role `user`, so administrators are answered 403 there (`app.go:273`),
  where `src/README.md:60` lists it for both. `AccessAsDocumented` sets that case apart.
- After a crash or a database failure in the middle of a migration the schema is dirty, and every
  later start is refused until somebody repairs it by hand (`repository.go:86`). `SchemaComplete`
  holds for that very reason.
- A signal rolls back the insert under way and the process still exits with 0 (`app.go:110`,
  `consumer.go:72`): `GracefulExit` says no more of it than that the consumer is done. The order is
  not lost, for the next process reads the topic from its start (`StoredOrGivenUp`).
- A login password of more than 72 bytes is compared by its first 72 (`login.go:47`), while
  `POST /register` answers 500 to one (`login.go:111`). `CredentialsDecide` is about what bcrypt reads.
- The version and commit of the build are not handed to the handlers (`app.go:216`), so the
  answer `src/README.md:128` shows is not the one given.
- `Delete` counts the gauge down for a uid that is not there (`cache.go:133`); `Populate` sets the
  newest order first, so it is evicted first; the consumer caches the message's nanosecond date
  where the handlers cache the row's.

## 4. The proofs

Every theorem holds for all values of the constants. The assumptions are those the modules name
(`OrdersAssumption`, `NoOrderAssumption`, `ClientsAssumption`, `ServiceAssumption`,
`AccountsAssumption`, `LimitAssumption`, `RoutesAssumption`, `ConfigAssumption`,
`LifecycleAssumption`, `WrongAssumption`, `ReadinessAssumption`, `EmulatorAssumption`,
`PoolAssumption`, `CapacityAssumption`, `PointersAssumption`, `MicroAssumption`); they say that
sizes and bounds are natural, that a capacity or a limit is at least one, and that values meaning
"nobody" or "none" differ from real ones. `PointersAssumption` has the two sentinels and `nil`
differ from each other and from every node, and the nodes allocated at once be finitely many.
`ConfigAssumption` has `strconv.Atoi` read the two default ports as the numbers they spell;
`WrongAssumption` says what the constant `Wrong` is, for the values there are: a capacity below
one, a port outside 1024 to 65535, a log format that is neither `text` nor `json`. Each inductive
invariant below was model-checked before
it was proved.

**OrderServiceProofs** — `Invariance`, `TypeCorrect`, `CacheCoherent` (`CacheMatchesRows`),
`AnswersSound`. `CacheMatchesRows` is not inductive by itself.
`AddOk` and `RespondFound` put into the cache what a call left behind at some earlier time, so one
has to know that a finished call's outcome still agrees with the store: `CallsMatchRows`. It stays
true because rows never change, and it determines the right row only because a row sits under its
own uid (`RowsUnderUid`). What the waiting consumer or request asked must be what the call it waits
for was asked: `WaitersMatchCalls`, which also carries the owner from the route to the answer for
`AnswerSound`. For a hit, `AnswerSound` follows from `CacheMatchesRows` and the handler's
comparison. `BoundKept` is needed for the bound of `exits` only.

On top of it: `AnswersComplete`, `CountedOnce` (`ProcessedOnce`), `FirstWins`
(`FirstMessageWins`). `AnswersInv`: a request that found nothing, or a list,
has found at least what was stored and visible when it asked. `CountInv`: `processed`, and the one
order that is stored and not yet counted, are together at most what was stored since the start;
this needs that only the consumer adds (`OnlyConsumerAdds`) and that a process that is down counts
nothing (`DownIsEmpty`). `OrderInv`: while there was no fault, the stored order of a uid is the
first storable one in the topic (`FirstIsStored`), and of what was read nothing storable was left
out (`NothingPassed`).

`StoreUsedAsPromised` (every behaviour of the service is one of `OrderStore`) and
`CacheUsedAsPromised` (while the process is up, the cache takes only steps of `LRU`) close the
composition: with the two `Refinement` theorems, what is proved here over the abstract parts is
about the statements and the pointers beneath. `OwnAnswers`: a store call is under way exactly
while the consumer or the request that made it waits, so that no answer is ever left over for the
next message or request (`AskersWait`, and `ConsumerAt` for the consumer).

**LRUCacheProofs** — `Invariance`, `TypeCorrect`, `ListSound` (`ListIsSound`), `CapacityKept`
(`WithinCapacity`), `GaugeTrue` (`GaugeIsSize`), `OnePerUid`, `NodesSuffice`, `Refinement`
(`ImplementsLRU`), for `Spec`, the calls the program makes; `Delete` is not among them, and with it
`WithinCapacity` fails (section 3). The properties are stated over `Path`, the list as `next`
spells it out, which is no help in an induction. The invariant names the list instead: there are a
length `n` and a *walk* `p` of `n` nodes between the sentinels that `next` follows forwards and
`prev` backwards, without repetition (`Walk`); just the nodes on it hold orders, each is the map's
node for its order's uid, and the map has no other (`Content`); and `n` is the gauge and at most the
capacity (`Counts`). `Removed` and `Added` say what the two helpers of four assignments do to a
walk (it is cut at a node, or gets a new first one), for any links and any node, first and last
included; a step of `Get` or `Set` is one or two of them, so no step is argued about pointer by
pointer. `WalkFollows` ties the walk to `Path`, which is a recursive function: the least index at
which both disagree (`LeastNatural`, from the well-foundedness of `<` on the naturals) is neither 0
nor a successor. That the unlinked node of an eviction is the least recently used order, and that
nothing else moved, is `Refinement`; `ConsIs`, `FrontIs` and `ToFrontIs` translate cut and extended
walks into the sequence operators of `LRU`. `NodesSuffice` says that the model's bound on nodes,
one more than the capacity, cuts no behaviour off.

**RepositoryProofs** — `Invariance`, `TypeCorrect`, `OrdersWhole` (`TablesAgree`),
`OrdersStay` (`OrdersKept`), `ConnectionsReturned` (`ConnectionsAccounted`), `NoDeadlock`,
`Refinement` (`ImplementsOrderStore`). The invariant says for each label which inserts the open transaction
holds (`TxAt`), what a read has gathered so far (`DraftAt`), what a call at that label is
(`CallAt`), and that no two transactions hold one key (`KeyHeld`): without the last, two commits
could put two orders under one uid. From it follows that a commit meets none of its uid's rows in
any table (`ReadyToCommit`), hence leaves committed orders alone: of two callers past the check only
one gets that far (`OrdersStay`). For the refinement each statement is mapped to a step of the
store or to a stutter: `Commit` is the insert, a failed statement in a transaction is nothing until
its rollback has returned the call, and a read takes effect at its last query: the row that the
first one found is stored as it was (`DraftAt`), with all its items (`TablesAgree`). `NoDeadlock`
is the safety half of `CallsReturn`: whenever a call waits, for a connection or for another
transaction's key, some transaction waits for nothing. A pool that is all out is out to
transactions (`ConnectionsAccounted`); one of these can wait only at its first insert, has then
staged nothing (`WaitersHoldNoKey`), and so the one it waits for is past that point. It holds for a
pool of one connection.

**AccountsProofs** — `Invariance`, `TypeCorrect`, `NamesOwned` (`OneOwner`),
`LoginsDecided` (`CredentialsDecide`), `TokensTrue` (`TokensMatchUsers`), `JarOneSession`.
A user is never changed once there (`UsersKept`), so what a login read is still the row when bcrypt
is done (`ReadAgrees`), and what was right when it was sent stays right (`KnownIsRight`). Whatever is
under way carries its two cookies as a pair of one user and one role (`CookiesPaired`), the jar takes
both or none, and the refresh cookie is kept at least as long as the access cookie (`JarPaired`,
which is where `AccessTTL <= RefreshTTL` is used).

**LifecycleProofs** — `Invariance`, `TypeCorrect`, `ExitsAreGraceful` (`GracefulExit`),
`SchemaFirst` (`SchemaComplete`), `UsableWhenLoaded` (`LoadedIsUsable`), `LoadsAsDocumented`
(`LoadedAsDocumented`), `NoHang`. The invariant ties `run.pc` to the deferred calls there are
(`DeferredAt`), these to the pool (`PoolAt`), the exit code and the end of `Shutdown` to an idle
server and a stopped consumer (`CodeAt`), a call that found the pool closed to an exit with 1
(`CutAt`), the version and the dirty mark to the tables that exist
(`SchemaAt`), and everything that runs to the migrations having come to their end (`StartedAt`).
`NoHang` is the part of `EndsWhenTold` that is a matter of states alone: Run waits only for a
consumer that was started and whose context is cancelled, and for a pool that is there to be
closed. That takes one more invariant, of what each place of Run has started (`Waits`). The two
theorems about `Load` need no invariant: they are about the function `Load` is, and hold of every
input. What `Load` builds is the file over the environment over the defaults (`LoadedFrom`,
`Defaults`); what it refuses lacks a required value or has one out of range (`RefusedWith`), and
nothing that passes the checks before and after the defaults does (`LoadedUsable`).

**RouterProofs** — `ChainsKept`, `OneAnswer` (`AnsweredOnce`), `AccessKept`, `LimiterKept`,
`WithinBudget` (`BudgetKept`), `RefusalsDue` (`NoFalseRefusal`), `TypeCorrect`. `OnItsWay` says for
each kind of chain which answers there can be at which position. For the limiter, everything since
the open window began has been counted, a closed window let no more than `Limit` pass, and the
request that opened a window passed. So a stretch of one period that begins inside a window misses
that window's first request, and gets at most `Limit - 1` from it; it meets at most one window more,
hence `2 * Limit - 1`. A refusal was the count going over `Limit` in a window that is itself a
stretch of one period.

**ReadinessProofs** — `Invariance`, `TypeCorrect`, `AnswersTrue` (`AnswerIsTrue`). The counter of
the WaitGroup is the number of goroutines that have not called `Done`, hence the handler is past
`Wait` only when all are back, and `healthy` and the status strings, which two separate writes
change, agree by then. While it is blocked there, somebody is out (`WaitIsForSomebody`).

**EmulatorProofs** — `Invariance`, `SentWhenDone` (`DoneMeansSent`): what the run has passed by is
in the topic or was dropped (`Passed`), and a restart starts from nothing passed.

Model-checked only: liveness (`CallsReturn`, `StoredOrGivenUp`, `EndsWhenTold`,
`DoneIfTopicExists`, `Answered`), which is outside the prover's reach, as is ENABLED; `NoDeadlock`, `NoHang` and
`WaitIsForSomebody` are the parts of three of these that are a matter of states alone. The three
claims of section 3 that the code does not keep (`AdminSeesAllOrders`, `ExitsWhenDone`, and `WithinCapacity`
under `Delete`) are shown by their counterexamples. Every other property that a run checks is a theorem.

## 5. What is left out of the models

- Not modelled at all: the token generator, which signs one fixed set of claims; templates, static
  files and generated docs, which are layout; the request histogram, which nothing reads.
- Content of orders the control never looks at; logging; HTML; JSON; `validate` tags one by one
  (a message is either bad or an order).
- Branches no run of the program takes: errors of `createToken` and of `fs.Sub`, claims of the
  wrong type in a token the program signed, errors of the limiter's memory store.
- A uid that is not a UUID, or a user id that the database rejects: the query fails and the
  answer is 500, which `Fail` covers without naming the reason.
- Time zones of dates: only the truncation is kept. The order of items within an order.
- A transaction whose `COMMIT` is still under way when the process dies and that lands only
  after the next start: `Crash` resolves it at once, either way.
- `GetUser` and `CreateUser` take their connection as order calls do; `Accounts` leaves the pool
  out, whose exhaustion is a `Fail`.
- Several instances of the service on one database.

Assumed of code that is not in the repository: the writer of kafka-go, given no acknowledgement
level, waits for none, and creates no topic by itself; a dial timeout satisfies `errors.Is(err,
context.DeadlineExceeded)`; golang-migrate marks a version dirty before and clean after its
statements, and refuses a dirty one; each migration file runs as one implicit transaction; the
limiter's memory store counts in fixed windows that start at a request; `CheckHealth`'s connection,
which nobody closes, is closed with the garbage.

## 6. Plan

Written: everything in section 2. What is left, most useful first:

1. `Accounts` under `Router`: a token that expires between two functions of one chain, and the
   cookie session under the page redirects, with both specifications conjoined.
2. `Lifecycle` in place of `OrderService`'s four phases, with a refinement that shows that the
   four are all the order properties need.
