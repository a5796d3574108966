---------------------------- MODULE OrderService ----------------------------
(***************************************************************************)
(* The running service: the Kafka topic and the consumer that empties it   *)
(* into the store, the order handlers that read through the cache, and the *)
(* process that hosts them, which may be signalled or die and be started   *)
(* again.  The store is OrderStore, which Repository implements; the cache *)
(* is LRU, which LRUCache implements.                                      *)
(***************************************************************************)
EXTENDS OrderStore, Sequences, FiniteSets

CONSTANTS
  Consumer,    \* the client that adds orders
  Requests,    \* the clients that serve HTTP requests
  Admins,      \* the users with role admin; every other user has role user
  Capacity,    \* CACHE_CAPACITY
  Bad,         \* a message processMessage rejects
  MaxTopic,    \* messages ever produced (a bound)
  MaxFaults,   \* store calls that fail for no reason of their own (a bound)
  MaxExits,    \* times the process ends (a bound)
  ReadTimeouts \* whether a read of the topic may end in DeadlineExceeded

ASSUME ClientsAssumption ==
  /\ Consumer \notin Requests
  /\ Clients = Requests \cup {Consumer}

ASSUME ServiceAssumption ==
  /\ Admins \subseteq Customers
  /\ Anyone \notin Customers
  /\ Capacity \in Nat \ {0}
  /\ Bad \notin Orders
  /\ MaxTopic \in Nat /\ MaxFaults \in Nat /\ MaxExits \in Nat
  /\ ReadTimeouts \in BOOLEAN

VARIABLES
  phase,       \* of the process: down, up, stopping (ctx is done), draining
  topic,       \* every message, in the order Kafka keeps them
  offset,      \* how many of them the reader has returned since it started
  consumer,    \* where Consume's loop is
  lru,         \* the cache
  req,         \* request -> what it asked and what it was answered
  processed,   \* metrics.OrdersProcessed
  faults,      \* store failures so far
  exits,       \* ends of the process so far
  atBoot       \* history: the uids stored when the process last started

processVars == <<phase, exits, atBoot>>
consumerVars == <<offset, consumer, processed>>
vars == <<rows, call, phase, topic, offset, consumer, lru, req, processed,
          faults, exits, atBoot>>

Cache == INSTANCE LRU

-----------------------------------------------------------------------------
(* The routes of createRouter that serve orders, the roles they let in,    *)
(* and the owner their handlers put into the query.                        *)

OrderRoutes == {"admin", "user", "page"}
ListRoutes  == {"adminList", "userList", "home"}
Routes      == OrderRoutes \cup ListRoutes

Allowed(route, user) ==
  \/ route \in {"page", "home"}
  \/ route \in {"admin", "adminList"} /\ user \in Admins
  \/ route \in {"user", "userList"} /\ user \notin Admins

(* Mutant: the pages do not look at the role.                              *)
OwnerOfPlain(route, user) ==
  IF route \in {"admin", "adminList"} THEN Anyone ELSE user

OwnerOf(route, user) ==
  IF \/ route \in {"admin", "adminList"}
     \/ route \in {"page", "home"} /\ user \in Admins
  THEN Anyone ELSE user

(* Mutant: the page shows whatever the cache has.                          *)
ShownFromAnyCache(route, user, o) == route \in {"admin", "page"} \/ o.customer = user

(* A cached order is shown to its customer, and by the admin API.          *)
ShownFromCache(route, user, o) == route = "admin" \/ o.customer = user

Free == [status |-> "free"]

(* status: waiting for the store, or the HTTP status of the answer.        *)
Request(route, user, target, known, status, body) ==
  [route |-> route, user |-> user, target |-> target, known |-> known,
   status |-> status, body |-> body]

Statuses == {"waiting", "200", "404", "500"}

Asked == [route : Routes, user : Customers, target : SUBSET Uids,
          known : SUBSET Uids, status : Statuses, body : SUBSET Entries]

-----------------------------------------------------------------------------
Init ==
  /\ StoreInit
  /\ phase = "down"
  /\ topic = <<>>
  /\ offset = 0
  /\ consumer = "stopped"
  /\ Cache!Init
  /\ req = [r \in Requests |-> Free]
  /\ processed = 0
  /\ faults = 0
  /\ exits = 0
  /\ atBoot = {}

Produce(m) ==
  /\ Len(topic) < MaxTopic
  /\ topic' = Append(topic, m)
  /\ UNCHANGED <<storeVars, processVars, consumerVars, lru, req, faults>>

-----------------------------------------------------------------------------
(* Consume.  A failed read that is not one of the two context errors only  *)
(* goes round the loop.                                                    *)

Readable ==
  /\ consumer = "reading"
  /\ offset < Len(topic)

Message == topic[offset + 1]

(* Mutant: the order is cached before the store has taken it.              *)
ReceiveAndCache ==
  /\ phase = "up"
  /\ Readable
  /\ Message \in Orders
  /\ InvokeAdd(Consumer, Message)
  /\ Cache!Set(Message)
  /\ offset' = offset + 1
  /\ consumer' = "adding"
  /\ UNCHANGED <<processVars, topic, req, processed, faults>>

Receive ==
  /\ phase = "up"
  /\ Readable
  /\ Message \in Orders
  /\ InvokeAdd(Consumer, Message)
  /\ offset' = offset + 1
  /\ consumer' = "adding"
  /\ UNCHANGED <<processVars, topic, lru, req, processed, faults>>

(* The message does not parse or validate, or AddOrderIfNotExists is given *)
(* a context that is done and fails at once.                               *)
Skip ==
  /\ Readable
  /\ Message = Bad \/ phase = "stopping"
  /\ offset' = offset + 1
  /\ UNCHANGED <<storeVars, processVars, topic, consumer, lru, req, processed, faults>>

AddOk ==
  /\ consumer = "adding"
  /\ call[Consumer].status = "ok"
  /\ Cache!Set(call[Consumer].order)
  /\ processed' = processed + 1
  /\ Return(Consumer)
  /\ consumer' = "reading"
  /\ UNCHANGED <<processVars, topic, offset, req, faults>>

(* Mutant: the failed order is counted like the others.                    *)
AddFailedCounted ==
  /\ consumer = "adding"
  /\ call[Consumer].status = "failed"
  /\ Return(Consumer)
  /\ consumer' = "reading"
  /\ processed' = processed + 1
  /\ UNCHANGED <<processVars, topic, offset, lru, req, faults>>

(* The failure is logged; the loop goes on to the next message.            *)
AddFailed ==
  /\ consumer = "adding"
  /\ call[Consumer].status = "failed"
  /\ Return(Consumer)
  /\ consumer' = "reading"
  /\ UNCHANGED <<processVars, topic, offset, lru, req, processed, faults>>

(* readMessage returned Canceled, or DeadlineExceeded.                     *)
StopConsuming ==
  /\ consumer = "reading"
  /\ phase = "stopping" \/ ReadTimeouts
  /\ consumer' = "stopped"
  /\ UNCHANGED <<storeVars, processVars, topic, offset, lru, req, processed, faults>>

-----------------------------------------------------------------------------
(* The order handlers.                                                     *)

Serving == phase \in {"up", "stopping"}

(* The middleware let the request in and the cache has the order.          *)
ServeHit(r, route, user, uid) ==
  /\ Serving
  /\ req[r] = Free
  /\ Allowed(route, user)
  /\ \E i \in DOMAIN lru :
       /\ lru[i].uid = uid
       /\ Cache!Hit(i)
       /\ req' = [req EXCEPT ![r] =
            IF ShownFromCache(route, user, lru[i])
            THEN Request(route, user, {uid}, Stored, "200", {lru[i]})
            ELSE Request(route, user, {uid}, Stored, "404", {})]
  /\ UNCHANGED <<storeVars, processVars, consumerVars, topic, faults>>

Query(r, route, user, target) ==
  /\ Serving
  /\ req[r] = Free
  /\ Allowed(route, user)
  /\ InvokeSelect(r, target, OwnerOf(route, user))
  /\ req' = [req EXCEPT ![r] = Request(route, user, target, Stored, "waiting", {})]
  /\ UNCHANGED <<processVars, consumerVars, topic, lru, faults>>

ServeMiss(r, route, user, uid) ==
  /\ ~Cache!Cached(uid)
  /\ Query(r, route, user, {uid})

ServeList(r, route, user) == Query(r, route, user, Uids)

Respond(r, status, body) ==
  /\ req' = [req EXCEPT ![r].status = status, ![r].body = body]
  /\ Return(r)

Answered(r, status) ==
  /\ req[r].status = "waiting"
  /\ call[r].status = status

RespondFound(r) ==
  /\ Answered(r, "ok")
  /\ req[r].route \in OrderRoutes
  /\ \E o \in call[r].found :
       /\ Cache!Set(o)
       /\ Respond(r, "200", {o})
  /\ UNCHANGED <<processVars, consumerVars, topic, faults>>

(* pgx.ErrNoRows.                                                          *)
RespondAbsent(r) ==
  /\ Answered(r, "ok")
  /\ req[r].route \in OrderRoutes
  /\ call[r].found = {}
  /\ Respond(r, "404", {})
  /\ UNCHANGED <<processVars, consumerVars, topic, lru, faults>>

RespondList(r) ==
  /\ Answered(r, "ok")
  /\ req[r].route \in ListRoutes
  /\ Respond(r, "200", call[r].found)
  /\ UNCHANGED <<processVars, consumerVars, topic, lru, faults>>

RespondError(r) ==
  /\ Answered(r, "failed")
  /\ Respond(r, "500", {})
  /\ UNCHANGED <<processVars, consumerVars, topic, lru, faults>>

(* The answer is out and the goroutine serves another request.             *)
Finished(r) ==
  /\ req[r] # Free
  /\ req[r].status # "waiting"
  /\ req' = [req EXCEPT ![r] = Free]
  /\ UNCHANGED <<storeVars, processVars, consumerVars, topic, lru, faults>>

-----------------------------------------------------------------------------
(* The store's steps.                                                      *)

StoreStep(c) ==
  /\ Insert(c) \/ Refuse(c) \/ Select(c)
  /\ UNCHANGED <<processVars, consumerVars, topic, lru, req, faults>>

(* A call fails on the way to the database or on the way back.             *)
Fault(c) ==
  /\ faults < MaxFaults
  /\ Fail(c) \/ InsertUnreported(c)
  /\ faults' = faults + 1
  /\ UNCHANGED <<processVars, consumerVars, topic, lru, req>>

(* The signal's context ends under the consumer's call.                    *)
Cancelled ==
  /\ phase = "stopping"
  /\ Fail(Consumer) \/ InsertUnreported(Consumer)
  /\ UNCHANGED <<processVars, consumerVars, topic, lru, req, faults>>

-----------------------------------------------------------------------------
(* The process: Run.                                                       *)

(* SIGINT or SIGTERM.                                                      *)
Signal ==
  /\ phase = "up"
  /\ exits < MaxExits
  /\ phase' = "stopping"
  /\ UNCHANGED <<storeVars, consumerVars, topic, lru, req, faults, exits, atBoot>>

(* <-consumerDone, then srv.Shutdown: no new requests.                     *)
Shutdown ==
  /\ phase = "stopping"
  /\ consumer = "stopped"
  /\ phase' = "draining"
  /\ UNCHANGED <<storeVars, consumerVars, topic, lru, req, faults, exits, atBoot>>

(* Mutant: the reader resumes behind the last message it had returned.     *)
EndKeepingOffset ==
  /\ phase' = "down"
  /\ exits' = exits + 1
  /\ Abandon
  /\ consumer' = "stopped"
  /\ lru' = <<>>
  /\ req' = [r \in Requests |-> Free]
  /\ processed' = 0
  /\ UNCHANGED <<topic, offset, faults, atBoot>>

(* What was in memory is gone.                                             *)
End ==
  /\ phase' = "down"
  /\ exits' = exits + 1
  /\ Abandon
  /\ offset' = 0
  /\ consumer' = "stopped"
  /\ lru' = <<>>
  /\ req' = [r \in Requests |-> Free]
  /\ processed' = 0
  /\ UNCHANGED <<topic, faults, atBoot>>

(* Shutdown returned: every handler had.                                   *)
Exit ==
  /\ phase = "draining"
  /\ \A r \in Requests : req[r].status # "waiting"
  /\ End

(* The process dies, Run returns on the server's error, or Shutdown gives  *)
(* up after its five seconds.                                              *)
Crash ==
  /\ phase # "down"
  /\ exits < MaxExits
  /\ End

(* Populate asked for the Capacity newest orders, newest first, and Set    *)
(* each in turn, so that the newest ends up last in the list.  A row that  *)
(* could not be loaded is left out.                                        *)
StoredRows == {rows[uid] : uid \in Stored}

Ascending(s) == \A i, j \in DOMAIN s : i < j => s[i].uid # s[j].uid /\ s[i].date <= s[j].date

MostRecent(s) ==
  \A i \in DOMAIN s :
    Cardinality({row \in StoredRows : row.date > s[i].date}) < Capacity

(* Mutant: the query has no LIMIT, and the list no bound of its own.       *)
PopulatedUnlimited ==
  {s \in UNION {[1..n -> StoredRows] : n \in 0..Cardinality(Uids)} : Ascending(s)}

Populated ==
  {s \in UNION {[1..n -> StoredRows] : n \in 0..Capacity} : Ascending(s) /\ MostRecent(s)}

(* Run up to the start of the server.  The reader has no consumer group:   *)
(* it starts at the first message.                                         *)
Boot ==
  /\ phase = "down"
  /\ phase' = "up"
  /\ lru' \in Populated
  /\ consumer' = "reading"
  /\ atBoot' = Stored
  /\ UNCHANGED <<storeVars, topic, offset, req, processed, faults, exits>>

-----------------------------------------------------------------------------
Consume == Receive \/ Skip \/ AddOk \/ AddFailed

Serve(r) ==
  \/ \E user \in Customers :
       \/ \E route \in OrderRoutes, uid \in Uids :
            ServeHit(r, route, user, uid) \/ ServeMiss(r, route, user, uid)
       \/ \E route \in ListRoutes : ServeList(r, route, user)
  \/ RespondFound(r) \/ RespondAbsent(r) \/ RespondList(r) \/ RespondError(r)
  \/ Finished(r)

Next ==
  \/ \E m \in Orders \cup {Bad} : Produce(m)
  \/ Consume
  \/ StopConsuming
  \/ \E r \in Requests : Serve(r)
  \/ \E c \in Clients : StoreStep(c) \/ Fault(c)
  \/ Cancelled
  \/ Signal \/ Shutdown \/ Exit \/ Crash \/ Boot

Spec == Init /\ [][Next]_vars

(* The loop and the handlers run, the database answers, a stopping         *)
(* consumer is told so, and a process that ended is started again          *)
(* (docker-compose.yml's restart policy, or whoever stopped it).           *)
Fairness ==
  /\ WF_vars(Consume)
  /\ WF_vars(phase = "stopping" /\ StopConsuming)
  /\ \A c \in Clients : WF_vars(StoreStep(c))
  /\ \A r \in Requests :
       WF_vars(RespondFound(r) \/ RespondAbsent(r) \/ RespondList(r) \/ RespondError(r))
  /\ WF_vars(Shutdown) /\ WF_vars(Exit) /\ WF_vars(Boot)

FairSpec == Spec /\ Fairness

-----------------------------------------------------------------------------
TypeOK ==
  /\ rows \in [Uids -> Rows \cup {NoOrder}]
  /\ call \in [Clients -> Calls]
  /\ phase \in {"down", "up", "stopping", "draining"}
  /\ topic \in Seq(Orders \cup {Bad})
  /\ offset \in 0..Len(topic)
  /\ consumer \in {"reading", "adding", "stopped"}
  /\ lru \in Seq(Entries) /\ Len(lru) <= Capacity
  /\ req \in [Requests -> {Free} \cup Asked]
  /\ processed \in Nat
  /\ faults \in 0..MaxFaults
  /\ exits \in 0..MaxExits
  /\ atBoot \in SUBSET Uids

(* The cache never has an order the store lacks, nor another version of    *)
(* it: it is filled only after the store answered, by whoever asked, with  *)
(* no lock held from the answer to Set.                                    *)
CacheMatchesRows ==
  \A i \in DOMAIN lru :
    /\ rows[lru[i].uid] # NoOrder
    /\ Represents(lru[i], rows[lru[i].uid])

(* A 200 shows stored orders only, and a user only the user's own.         *)
AnswerSound ==
  \A r \in Requests : req[r].status = "200" =>
    \A o \in req[r].body :
      /\ o.uid \in req[r].target
      /\ rows[o.uid] # NoOrder
      /\ Represents(o, rows[o.uid])
      /\ req[r].user \in Admins \/ o.customer = req[r].user

(* What the proofs need besides: a row is found under its own uid, an      *)
(* outcome that waits to be returned agrees with the store, and whoever    *)
(* waits for it knows what was asked.                                      *)
RowsUnderUid == \A uid \in Stored : rows[uid].uid = uid

CallsMatchRows ==
  \A c \in Clients :
    /\ call[c].op = "add" /\ call[c].status = "ok" =>
         rows[call[c].order.uid] = RowOf(call[c].order)
    /\ call[c].op = "select" /\ call[c].status = "ok" =>
         \A row \in call[c].found :
           /\ row.uid \in call[c].target
           /\ rows[row.uid] = row
           /\ Visible(row, call[c].owner)

WaitersMatchCalls ==
  /\ consumer = "adding" => call[Consumer].op = "add"
  /\ \A r \in Requests : req[r].status = "waiting" =>
       /\ call[r].op = "select"
       /\ call[r].target = req[r].target
       /\ call[r].owner = OwnerOf(req[r].route, req[r].user)
       /\ Allowed(req[r].route, req[r].user)

(* A signal is only followed to the end if there is an end left to spend.  *)
BoundKept == phase \in {"stopping", "draining"} => exits < MaxExits

Inv ==
  /\ TypeOK /\ BoundKept /\ WaitersMatchCalls /\ RowsUnderUid /\ CallsMatchRows
  /\ CacheMatchesRows /\ AnswerSound

(* A 200 or 404 leaves out nothing that the asker may see and that was     *)
(* stored before the handler first looked.                                 *)
Complete(a) ==
  a.status \in {"200", "404"} =>
    \A uid \in a.target \cap a.known :
      a.user \in Admins \/ rows[uid].customer = a.user => \E o \in a.body : o.uid = uid

(* Every answer is complete, an administrator's order page set apart.      *)
AnswerComplete ==
  \A r \in Requests : req[r] # Free =>
    Complete(req[r]) \/ (req[r].route = "page" /\ req[r].user \in Admins)

(* README: "`admin` sees all orders".                                      *)
AdminSeesAllOrders ==
  \A r \in Requests : req[r] # Free =>
    (req[r].user \in Admins => Complete(req[r]))

(* OrdersProcessed counts an order once however often it is delivered: no  *)
(* more than what was stored since the process started.                    *)
ProcessedOnce == processed <= Cardinality(Stored \ atBoot)

(* The storable messages of the first n, by position.                      *)
Storables(n) == {i \in 1..n : topic[i] \in Orders /\ Storable(topic[i])}

(* Of several orders with one uid the first in the topic is stored, and    *)
(* once read it is stored or being added: nothing is passed over while the *)
(* store does not fail.                                                    *)
FirstMessageWins ==
  faults = 0 =>
    /\ \A uid \in Stored : \E i \in Storables(Len(topic)) :
         /\ rows[uid] = RowOf(topic[i])
         /\ \A j \in Storables(i - 1) : topic[j].uid # uid
    /\ phase = "up" => \A i \in Storables(offset) :
         \/ topic[i].uid \in Stored
         \/ i = offset /\ consumer = "adding"

(* Every order that can be stored is, however the process ends on the way: *)
(* but for one that a process which goes on for ever has passed over after *)
(* a failure, or never read because its consumer stopped unasked.  Nothing *)
(* but a restart makes up for these two.                                   *)
InTopic(o) == \E i \in DOMAIN topic : topic[i] = o

GivenUp(o) ==
  /\ phase = "up"
  /\ consumer = "stopped" \/ (faults > 0 /\ \E i \in 1..offset : topic[i] = o)

StoredOrGivenUp ==
  \A o \in Orders : Storable(o) =>
    InTopic(o) ~> (rows[o.uid] # NoOrder \/ []GivenUp(o))
=============================================================================
