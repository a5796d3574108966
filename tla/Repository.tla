----------------------------- MODULE Repository -----------------------------
(***************************************************************************)
(* The order methods of internal/repository/repository.go, statement by    *)
(* statement, over a PostgreSQL database of four tables (read committed)   *)
(* and a connection pool.  A call's record, its argument and its outcome   *)
(* are those of OrderStore; Next is the program's step and the database's. *)
(***************************************************************************)
EXTENDS OrderData, FiniteSets

CONSTANTS
  Clients,   \* goroutines inside a Repository method
  Anyone,    \* no WHERE customer_id clause
  PoolSize   \* connections of the pgx pool

ASSUME PoolAssumption == PoolSize \in Nat \ {0}

VARIABLES
  db,        \* the committed inserts
  tx,        \* client -> the inserts of its open transaction
  held,      \* the clients that own a connection
  pc,        \* client -> the statement it is about to send
  call,      \* client -> its call, as in OrderStore
  draft      \* client -> the row its order query returned

vars == <<db, tx, held, pc, call, draft>>

(* One INSERT: into which table, on behalf of which row, and for item the  *)
(* how-manieth of the loop.                                                *)
Ins(table, row, i) == [table |-> table, row |-> row, i |-> i]

Inserts ==
  UNION {{Ins(table, row, 1) : table \in Tables \ {"item"}}
           \cup {Ins("item", row, i) : i \in 1..row.items} : row \in Rows}

In(inserts, table, uid) ==
  {e \in inserts : e.table = table /\ e.row.uid = uid}

rows == [uid \in Uids |->
           IF In(db, "orders", uid) = {} THEN NoOrder
           ELSE (CHOOSE e \in In(db, "orders", uid) : TRUE).row]

Store == INSTANCE OrderStore

(* A statement outside a transaction borrows a connection for itself only. *)
ConnectionFree == Cardinality(held) < PoolSize

Init ==
  /\ db = {}
  /\ tx = [c \in Clients |-> {}]
  /\ held = {}
  /\ pc = [c \in Clients |-> "idle"]
  /\ call = [c \in Clients |-> Store!Idle]
  /\ draft = [c \in Clients |-> NoOrder]

Goto(c, label) == pc' = [pc EXCEPT ![c] = label]

(* The method returns to its caller.                                       *)
Answer(c, status) ==
  /\ call' = [call EXCEPT ![c].status = status]
  /\ Goto(c, "done")

AnswerFound(c, found) ==
  /\ call' = [call EXCEPT ![c].status = "ok", ![c].found = found]
  /\ Goto(c, "done")

-----------------------------------------------------------------------------
(* Calls.                                                                  *)

Invoke(c, label, record) ==
  /\ pc[c] = "idle"
  /\ call' = [call EXCEPT ![c] = record]
  /\ Goto(c, label)
  /\ UNCHANGED <<db, tx, held, draft>>

AddOrderIfNotExists(c, o) == Invoke(c, "exists", Store!AddCall(o, "pending"))

AddOrder(c, o) == Invoke(c, "begin", Store!AddCall(o, "pending"))

(* GetOrderByUID, or GetOrderByUIDAndUser when there is an owner.          *)
GetOrder(c, uid, owner) ==
  Invoke(c, "query", Store!SelectCall({uid}, owner, "pending", {}))

(* GetAllOrdersUID, or GetAllOrdersUIDByUser.                              *)
GetAllOrders(c, owner) ==
  Invoke(c, "list", Store!SelectCall(Uids, owner, "pending", {}))

Return(c) ==
  /\ pc[c] = "done"
  /\ call' = [call EXCEPT ![c] = Store!Idle]
  /\ draft' = [draft EXCEPT ![c] = NoOrder]
  /\ Goto(c, "idle")
  /\ UNCHANGED <<db, tx, held>>

-----------------------------------------------------------------------------
(* Adding an order.                                                        *)

OrderExists(c) ==
  /\ pc[c] = "exists"
  /\ ConnectionFree
  /\ IF In(db, "orders", call[c].order.uid) # {}
     THEN Answer(c, "failed")
     ELSE Goto(c, "begin") /\ UNCHANGED call
  /\ UNCHANGED <<db, tx, held, draft>>

Begin(c) ==
  /\ pc[c] = "begin"
  /\ ConnectionFree
  /\ held' = held \cup {c}
  /\ Goto(c, "orders")
  /\ UNCHANGED <<db, tx, call, draft>>

Staged(c, table) == {e \in tx[c] : e.table = table}

NextInsert(c) ==
  LET row == RowOf(call[c].order)
  IN  IF pc[c] = "item" THEN Ins("item", row, Cardinality(Staged(c, "item")) + 1)
      ELSE Ins(pc[c], row, 1)

(* Mutant: the table orders has no primary key.                            *)
NeverTaken(c) == FALSE

(* The primary key of orders: a committed row is an error, one that is     *)
(* staged makes the statement wait for the other transaction's end.        *)
Taken(c) ==
  pc[c] = "orders" /\ In(db, "orders", call[c].order.uid) # {}

MustWait(c) ==
  /\ pc[c] = "orders"
  /\ \E d \in Clients \ {c} : In(tx[d], "orders", call[c].order.uid) # {}

(* Mutant: the loop over the items is left one item too late.              *)
AfterLong(c) ==
  CASE pc[c] = "orders"   -> "delivery"
    [] pc[c] = "delivery" -> "payment"
    [] pc[c] = "payment"  -> "item"
    [] pc[c] = "item"     ->
         IF Cardinality(Staged(c, "item")) < call[c].order.items
         THEN "item" ELSE "commit"

After(c) ==
  CASE pc[c] = "orders"   -> "delivery"
    [] pc[c] = "delivery" -> "payment"
    [] pc[c] = "payment"  -> "item"
    [] pc[c] = "item"     ->
         IF Cardinality(Staged(c, "item")) + 1 < call[c].order.items
         THEN "item" ELSE "commit"

InsertRow(c) ==
  /\ pc[c] \in Tables
  /\ ~MustWait(c)
  /\ IF Taken(c) \/ call[c].order.refusedBy = pc[c]
     THEN Goto(c, "rollback") /\ UNCHANGED tx
     ELSE /\ tx' = [tx EXCEPT ![c] = @ \cup {NextInsert(c)}]
          /\ Goto(c, After(c))
  /\ UNCHANGED <<db, held, call, draft>>

(* The transaction is over and its connection is back in the pool.         *)
EndTx(c) ==
  /\ tx' = [tx EXCEPT ![c] = {}]
  /\ held' = held \ {c}

Commit(c) ==
  /\ pc[c] = "commit"
  /\ db' = db \cup tx[c]
  /\ EndTx(c)
  /\ Answer(c, "ok")
  /\ UNCHANGED draft

(* Commit returned an error, whether or not the database took it.  pgx has *)
(* closed the transaction by then: the deferred Rollback only logs.        *)
CommitError(c) ==
  /\ pc[c] = "commit"
  /\ db' \in {db, db \cup tx[c]}
  /\ EndTx(c)
  /\ Answer(c, "failed")
  /\ UNCHANGED draft

(* Mutant: the deferred function forgets to roll back.                     *)
RollbackForgotten(c) ==
  /\ pc[c] = "rollback"
  /\ Answer(c, "failed")
  /\ UNCHANGED <<db, tx, held, draft>>

(* Mutant: the deferred function commits, whatever came before.            *)
RollbackCommits(c) ==
  /\ pc[c] = "rollback"
  /\ db' = db \cup tx[c]
  /\ EndTx(c)
  /\ Answer(c, "failed")
  /\ UNCHANGED draft

(* The deferred function; pgx drops a connection it cannot roll back on,   *)
(* and the database then aborts the transaction itself.                    *)
Rollback(c) ==
  /\ pc[c] = "rollback"
  /\ EndTx(c)
  /\ Answer(c, "failed")
  /\ UNCHANGED <<db, draft>>

-----------------------------------------------------------------------------
(* Reading orders.                                                         *)

(* The LEFT JOIN: the order's row; a missing half would be NULL and fail   *)
(* the Scan.  ErrNoRows is an answer of no row.                            *)
Query(c) ==
  LET hits == {e \in db : /\ e.table = "orders"
                          /\ e.row.uid \in call[c].target
                          /\ Store!Visible(e.row, call[c].owner)}
  IN  /\ pc[c] = "query"
      /\ ConnectionFree
      /\ \/ /\ hits = {}
            /\ AnswerFound(c, {})
            /\ UNCHANGED draft
         \/ \E e \in hits :
              IF \E table \in {"delivery", "payment"} : In(db, table, e.row.uid) = {}
              THEN Answer(c, "failed") /\ UNCHANGED draft
              ELSE /\ draft' = [draft EXCEPT ![c] = e.row]
                   /\ Goto(c, "items")
                   /\ UNCHANGED call
      /\ UNCHANGED <<db, tx, held>>

(* The second query, in a snapshot of its own.                             *)
QueryItems(c) ==
  /\ pc[c] = "items"
  /\ ConnectionFree
  /\ AnswerFound(c, {[draft[c] EXCEPT !.items =
                        Cardinality(In(db, "item", draft[c].uid))]})
  /\ UNCHANGED <<db, tx, held, draft>>

List(c) ==
  /\ pc[c] = "list"
  /\ ConnectionFree
  /\ AnswerFound(c, {e.row : e \in {f \in db : /\ f.table = "orders"
                                               /\ Store!Visible(f.row, call[c].owner)}})
  /\ UNCHANGED <<db, tx, held, draft>>

-----------------------------------------------------------------------------
(* A statement fails: no connection, no database, or the context ended.    *)
StatementError(c) ==
  /\ \/ /\ pc[c] \in {"exists", "begin", "query", "items", "list"}
        /\ Answer(c, "failed")
     \/ /\ pc[c] \in Tables
        /\ Goto(c, "rollback")
        /\ UNCHANGED call
  /\ UNCHANGED <<db, tx, held, draft>>

(* The process dies; the database aborts what was open.                    *)
Crash ==
  /\ tx' = [c \in Clients |-> {}]
  /\ held' = {}
  /\ pc' = [c \in Clients |-> "idle"]
  /\ call' = [c \in Clients |-> Store!Idle]
  /\ draft' = [c \in Clients |-> NoOrder]
  /\ UNCHANGED db

(* The next statement of a call, the last one included.                    *)
Step(c) ==
  \/ OrderExists(c) \/ Begin(c) \/ InsertRow(c) \/ Commit(c) \/ Rollback(c)
  \/ Query(c) \/ QueryItems(c) \/ List(c)

Next ==
  \/ Crash
  \/ \E c \in Clients :
       \/ \E o \in Orders : AddOrderIfNotExists(c, o) \/ AddOrder(c, o)
       \/ \E owner \in Customers \cup {Anyone} :
            GetAllOrders(c, owner) \/ \E uid \in Uids : GetOrder(c, uid, owner)
       \/ Step(c) \/ Return(c)
       \/ CommitError(c) \/ StatementError(c)

Spec == Init /\ [][Next]_vars

(* The pool and the database's locks serve their waiters in turn.          *)
FairSpec == Spec /\ \A c \in Clients : SF_vars(Step(c))

-----------------------------------------------------------------------------
TypeOK ==
  /\ db \subseteq Inserts
  /\ tx \in [Clients -> SUBSET Inserts]
  /\ held \subseteq Clients
  /\ pc \in [Clients -> {"idle", "exists", "begin", "commit", "rollback",
                         "query", "items", "list", "done"} \cup Tables]
  /\ \A c \in Clients : call[c] \in Store!Calls
  /\ draft \in [Clients -> Rows \cup {NoOrder}]

(* "Orders are stored transactionally across four tables": what one table  *)
(* has of an order, the others have too, all of it and of the same order.  *)
TablesAgree ==
  \A uid \in Uids :
    \/ \A table \in Tables : In(db, table, uid) = {}
    \/ \E row \in Rows :
         /\ \A table \in Tables \ {"item"} : In(db, table, uid) = {Ins(table, row, 1)}
         /\ In(db, "item", uid) = {Ins("item", row, i) : i \in 1..row.items}

(* An order that is committed stays as it is in all four tables: of calls  *)
(* that passed OrderExists together, or came to AddOrder without it, no    *)
(* later one adds to it or puts another in its place.                      *)
OrdersKept ==
  [][\A uid \in Uids : In(db, "orders", uid) # {} =>
       \A table \in Tables : In(db', table, uid) = In(db, table, uid)]_vars

(* A connection is out exactly while a transaction is open: every way out  *)
(* of AddOrder gives it back.                                              *)
ConnectionsAccounted ==
  held = {c \in Clients : pc[c] \in Tables \cup {"commit", "rollback"}}

(* The methods, interleaved and cut short anywhere, are the atomic store.  *)
ImplementsOrderStore == Store!StoreSpec

(* Every call is answered: nobody waits for ever for a connection or for   *)
(* another transaction.                                                    *)
CallsReturn == \A c \in Clients : pc[c] \notin {"idle", "done"} ~> pc[c] \in {"idle", "done"}
=============================================================================
