-------------------------- MODULE RepositoryProofs --------------------------
(***************************************************************************)
(* Proofs about Repository, for any orders, clients and size of the pool:  *)
(* its invariants, and that its statements implement OrderStore's calls.   *)
(***************************************************************************)
EXTENDS Repository, FiniteSetTheorems, TLAPS

-----------------------------------------------------------------------------
(***************************************************************************)
(* The inductive invariant.                                                *)

InTx   == Tables \cup {"commit", "rollback"}
Adding == InTx \cup {"exists", "begin"}
Labels == Adding \cup {"idle", "query", "items", "list", "done"}

Heads(row, ts) == {Ins(table, row, 1) : table \in ts}
Items(row, n)  == {Ins("item", row, i) : i \in 1..n}
Whole(row)     == Heads(row, Tables \ {"item"}) \cup Items(row, row.items)

Types ==
  /\ db \subseteq Inserts
  /\ tx \in [Clients -> SUBSET Inserts]
  /\ held \subseteq Clients
  /\ pc \in [Clients -> Labels]
  /\ call \in [Clients -> Store!Calls]
  /\ draft \in [Clients -> Rows \cup {NoOrder}]

(* The call of a client is the one its statement belongs to.               *)
CallAt(c) ==
  /\ pc[c] = "idle" => call[c] = Store!Idle
  /\ pc[c] \in Adding => \E o \in Orders : call[c] = Store!AddCall(o, "pending")
  /\ pc[c] = "list" => \E owner \in Customers \cup {Anyone} :
       call[c] = Store!SelectCall(Uids, owner, "pending", {})
  /\ pc[c] \in {"query", "items"} => \E uid \in Uids, owner \in Customers \cup {Anyone} :
       call[c] = Store!SelectCall({uid}, owner, "pending", {})
  /\ pc[c] = "done" => call[c] # Store!Idle /\ call[c].status # "pending"

(* The tables a transaction has been through when it is at a statement.    *)
Through(label) ==
  CASE label = "orders"   -> {}
    [] label = "delivery" -> {"orders"}
    [] label = "payment"  -> {"orders", "delivery"}
    [] OTHER              -> {"orders", "delivery", "payment"}

(* What a transaction has inserted so far: n items of its order, and the   *)
(* order's row in the tables before.                                       *)
Sent(c, o, n) ==
  /\ tx[c] = Heads(RowOf(o), Through(pc[c])) \cup Items(RowOf(o), n)
  /\ pc[c] \in {"orders", "delivery", "payment"} => n = 0
  /\ pc[c] = "item" => n < o.items
  /\ pc[c] = "commit" => n = o.items /\ o.refusedBy # "item"
  /\ o.refusedBy \notin Through(pc[c])

TxAt(c) ==
  /\ pc[c] \notin InTx => tx[c] = {}
  /\ pc[c] \in Tables \cup {"commit"} =>
       \E o \in Orders, n \in Nat :
         call[c] = Store!AddCall(o, "pending") /\ Sent(c, o, n)

(* Between its two queries GetOrderByUID holds a row that is stored.       *)
DraftAt(c) ==
  pc[c] = "items" =>
    /\ draft[c] \in Rows
    /\ Ins("orders", draft[c], 1) \in db
    /\ draft[c].uid \in call[c].target
    /\ Store!Visible(draft[c], call[c].owner)

(* The primary key of orders: a staged row is of a uid nobody else has     *)
(* stored or staged.                                                       *)
KeyHeld ==
  \A c \in Clients : \A e \in tx[c] : e.table = "orders" =>
    /\ In(db, "orders", e.row.uid) = {}
    /\ \A d \in Clients \ {c} : In(tx[d], "orders", e.row.uid) = {}

Inv ==
  /\ Types /\ KeyHeld /\ TablesAgree /\ ConnectionsAccounted
  /\ \A c \in Clients : CallAt(c) /\ TxAt(c) /\ DraftAt(c)

-----------------------------------------------------------------------------
(* Orders, rows and inserts.                                               *)

LEMMA OrderRow ==
  ASSUME NEW o \in Orders
  PROVE  /\ RowOf(o) \in Rows
         /\ RowOf(o).uid = o.uid /\ RowOf(o).items = o.items
         /\ RowOf(o).customer = o.customer
         /\ o.uid \in Uids /\ o.items \in Nat \ {0}
         /\ o.refusedBy \in Tables \cup {"none"}
<1>1. o \in [uid : Uids, customer : Customers, date : Nat, items : Nat \ {0},
             refusedBy : Tables \cup {"none"}]
  BY OrdersAssumption
<1>2. RowOf(o) \in Rows
  BY DEF Rows
<1> QED BY <1>1, <1>2 DEF RowOf

LEMMA RowType ==
  ASSUME NEW row \in Rows
  PROVE  row.uid \in Uids /\ row.items \in Nat \ {0}
<1>1. PICK o \in Orders : row = RowOf(o)
  BY DEF Rows
<1> QED BY <1>1, OrderRow

LEMMA NoOrderIsNoRow == NoOrder \notin Rows
BY NoOrderAssumption DEF Entries

(* An insert is known by its three parts.                                  *)
LEMMA InsParts ==
  ASSUME NEW table, NEW row, NEW i
  PROVE  /\ Ins(table, row, i).table = table
         /\ Ins(table, row, i).row = row
         /\ Ins(table, row, i).i = i
BY DEF Ins

LEMMA InsertParts ==
  ASSUME NEW e \in Inserts
  PROVE  /\ e.table \in Tables /\ e.row \in Rows /\ e.i \in Nat
         /\ e = Ins(e.table, e.row, e.i)
         /\ e.table # "item" => e = Ins(e.table, e.row, 1)
<1>1. PICK row \in Rows : e \in {Ins(table, row, 1) : table \in Tables \ {"item"}}
                               \cup {Ins("item", row, i) : i \in 1..row.items}
  BY DEF Inserts
<1>2. CASE e \in {Ins(table, row, 1) : table \in Tables \ {"item"}}
  BY <1>2 DEF Ins
<1>3. CASE e \in {Ins("item", row, i) : i \in 1..row.items}
  <2>1. PICK i \in 1..row.items : e = Ins("item", row, i)
    BY <1>3
  <2> QED BY <2>1, RowType DEF Ins, Tables
<1> QED BY <1>1, <1>2, <1>3

LEMMA WholeIsInserts ==
  ASSUME NEW row \in Rows
  PROVE  Whole(row) \subseteq Inserts
BY DEF Whole, Heads, Items, Inserts

LEMMA InUnion ==
  ASSUME NEW a, NEW b, NEW table, NEW uid
  PROVE  In(a \cup b, table, uid) = In(a, table, uid) \cup In(b, table, uid)
BY DEF In

(* What the inserts of one order put into the tables.                      *)
LEMMA InWhole ==
  ASSUME NEW row \in Rows
  PROVE  /\ \A table \in Tables \ {"item"} :
              In(Whole(row), table, row.uid) = {Ins(table, row, 1)}
         /\ In(Whole(row), "item", row.uid) = {Ins("item", row, i) : i \in 1..row.items}
         /\ \A table, uid : uid # row.uid => In(Whole(row), table, uid) = {}
<1>1. \A e \in Whole(row) : e.row = row
  BY DEF Whole, Heads, Items, Ins
<1>2. \A table, uid : uid # row.uid => In(Whole(row), table, uid) = {}
  BY <1>1 DEF In
<1>3. ASSUME NEW table \in Tables \ {"item"}
      PROVE  In(Whole(row), table, row.uid) = {Ins(table, row, 1)}
  BY <1>3 DEF In, Whole, Heads, Items, Ins
<1>4. In(Whole(row), "item", row.uid) = {Ins("item", row, i) : i \in 1..row.items}
  BY DEF In, Whole, Heads, Items, Ins
<1> QED BY <1>2, <1>3, <1>4

(* The loop's items are as many as it has numbered.                        *)
LEMMA ItemsCount ==
  ASSUME NEW row, NEW n \in Nat
  PROVE  Cardinality(Items(row, n)) = n
<1> DEFINE f == [i \in 1..n |-> Ins("item", row, i)]
<1>1. IsFiniteSet(1..n) /\ Cardinality(1..n) = n
  BY FS_Interval
<1>2. f \in Bijection(1..n, Items(row, n))
  <2>1. f \in [1..n -> Items(row, n)]
    BY DEF Items
  <2>2. \A i, j \in 1..n : f[i] = f[j] => i = j
    BY DEF Ins
  <2>3. \A e \in Items(row, n) : \E i \in 1..n : f[i] = e
    BY DEF Items
  <2> HIDE DEF f
  <2> QED BY <2>1, <2>2, <2>3 DEF Bijection, Injection, Surjection, IsInjective
<1>3. ExistsBijection(1..n, Items(row, n))
  BY <1>2 DEF ExistsBijection
<1> QED BY <1>1, <1>3, FS_Bijection

-----------------------------------------------------------------------------
(* Calls.                                                                  *)

LEMMA AddCalls ==
  ASSUME NEW o \in Orders, NEW status \in {"pending", "ok", "failed"}
  PROVE  /\ Store!AddCall(o, status) \in Store!Calls \ {Store!Idle}
         /\ Store!AddCall(o, status).op = "add"
         /\ Store!AddCall(o, status).order = o
         /\ Store!AddCall(o, status).status = status
BY DEF Store!AddCall, Store!Calls, Store!Idle

LEMMA SelectCalls ==
  ASSUME NEW target \in SUBSET Uids, NEW owner \in Customers \cup {Anyone},
         NEW status \in {"pending", "ok", "failed"}, NEW found \in SUBSET Rows
  PROVE  /\ Store!SelectCall(target, owner, status, found) \in Store!Calls \ {Store!Idle}
         /\ Store!SelectCall(target, owner, status, found).op = "select"
         /\ Store!SelectCall(target, owner, status, found).target = target
         /\ Store!SelectCall(target, owner, status, found).owner = owner
         /\ Store!SelectCall(target, owner, status, found).status = status
<1> DEFINE q == Store!SelectCall(target, owner, status, found)
<1>1. q \in [op : {"select"}, target : SUBSET Uids, owner : Customers \cup {Anyone},
             status : {"pending", "ok", "failed"}, found : SUBSET Store!Rows]
  BY DEF Store!SelectCall, Store!Rows, Rows, Store!RowOf, RowOf
<1>2. q # Store!Idle
  BY DEF Store!SelectCall, Store!Idle
<1>3. q.op = "select" /\ q.target = target /\ q.owner = owner /\ q.status = status
  BY DEF Store!SelectCall
<1>4. q \in Store!Calls
  BY <1>1 DEF Store!Calls
<1> QED BY <1>2, <1>3, <1>4

LEMMA PendingSelects ==
  ASSUME NEW target \in SUBSET Uids, NEW owner \in Customers \cup {Anyone}
  PROVE  /\ Store!SelectCall(target, owner, "pending", {}) \in Store!Calls
         /\ Store!SelectCall(target, owner, "pending", {}) # Store!Idle
         /\ Store!SelectCall(target, owner, "pending", {}).op = "select"
         /\ Store!SelectCall(target, owner, "pending", {}).target = target
         /\ Store!SelectCall(target, owner, "pending", {}).owner = owner
         /\ Store!SelectCall(target, owner, "pending", {}).status = "pending"
<1> DEFINE q == Store!SelectCall(target, owner, "pending", {})
<1>1. q \in [op : {"select"}, target : SUBSET Uids, owner : Customers \cup {Anyone},
             status : {"pending", "ok", "failed"}, found : SUBSET Store!Rows]
  BY DEF Store!SelectCall
<1>2. q # Store!Idle
  BY DEF Store!SelectCall, Store!Idle
<1>3. q.op = "select" /\ q.target = target /\ q.owner = owner /\ q.status = "pending"
  BY DEF Store!SelectCall
<1>4. q \in Store!Calls
  BY <1>1 DEF Store!Calls
<1> QED BY <1>2, <1>3, <1>4

(* The record a method leaves when it answers.                             *)
LEMMA Answers ==
  ASSUME NEW q \in Store!Calls, q # Store!Idle, NEW status \in {"ok", "failed"}
  PROVE  LET a == [q EXCEPT !.status = status]
         IN  a \in Store!Calls /\ a # Store!Idle /\ a.status # "pending"
<1>1. CASE q \in [op : {"add"}, order : Orders, status : {"pending", "ok", "failed"}]
  BY <1>1 DEF Store!Calls, Store!Idle
<1>2. CASE q \in [op : {"select"}, target : SUBSET Uids, owner : Customers \cup {Anyone},
                  status : {"pending", "ok", "failed"}, found : SUBSET Store!Rows]
  <2> DEFINE a == [q EXCEPT !.status = status]
  <2>1. a \in [op : {"select"}, target : SUBSET Uids, owner : Customers \cup {Anyone},
               status : {"pending", "ok", "failed"}, found : SUBSET Store!Rows]
    BY <1>2
  <2>2. a # Store!Idle /\ a.status # "pending"
    BY <1>2 DEF Store!Idle
  <2> QED BY <2>1, <2>2 DEF Store!Calls
<1> QED BY <1>1, <1>2 DEF Store!Calls

-----------------------------------------------------------------------------
(* The steps.                                                              *)

(* A client that takes no step is where it was.                            *)
LEMMA Bystander ==
  ASSUME NEW d \in Clients, CallAt(d), TxAt(d), DraftAt(d),
         pc'[d] = pc[d], call'[d] = call[d], tx'[d] = tx[d], draft'[d] = draft[d],
         db \subseteq db'
  PROVE  CallAt(d)' /\ TxAt(d)' /\ DraftAt(d)'
<1>1. CallAt(d)'
  BY DEF CallAt
<1>2. TxAt(d)'
  BY DEF TxAt, Sent
<1>3. DraftAt(d)'
  BY DEF DraftAt
<1> QED BY <1>1, <1>2, <1>3

(* A step outside a transaction.                                           *)
LEMMA LocalStep ==
  ASSUME Inv, NEW c \in Clients,
         NEW label \in Labels \ InTx, NEW record \in Store!Calls,
         NEW row \in Rows \cup {NoOrder},
         pc[c] \notin InTx,
         pc' = [pc EXCEPT ![c] = label],
         call' = [call EXCEPT ![c] = record],
         draft' = [draft EXCEPT ![c] = row],
         UNCHANGED <<db, tx, held>>,
         CallAt(c)', DraftAt(c)'
  PROVE  Inv'
<1> USE DEF Inv
<1>1. Types'
  BY DEF Types
<1>2. \A d \in Clients : pc'[d] = IF d = c THEN label ELSE pc[d]
  BY DEF Types
<1>3. ConnectionsAccounted'
  BY <1>2 DEF ConnectionsAccounted, InTx
<1>4. KeyHeld' /\ TablesAgree'
  BY DEF KeyHeld, TablesAgree, In
<1>5. TxAt(c)'
  BY <1>2 DEF TxAt, InTx
<1>6. ASSUME NEW d \in Clients \ {c}
      PROVE  CallAt(d)' /\ TxAt(d)' /\ DraftAt(d)'
  <2>1. pc'[d] = pc[d] /\ call'[d] = call[d] /\ tx'[d] = tx[d] /\ draft'[d] = draft[d]
    BY DEF Types
  <2> QED BY <2>1, Bystander
<1> QED BY <1>1, <1>3, <1>4, <1>5, <1>6

(* A client inside a method has a pending call.                            *)
LEMMA CallsBegun ==
  ASSUME Inv, NEW c \in Clients, pc[c] \notin {"idle", "done"}
  PROVE  call[c] # Store!Idle /\ call[c].status = "pending"
<1>1. CallAt(c) /\ pc[c] \in Labels
  BY DEF Inv, Types
<1>2. CASE pc[c] \in Adding
  <2>1. PICK o \in Orders : call[c] = Store!AddCall(o, "pending")
    BY <1>1, <1>2 DEF CallAt
  <2> QED BY <2>1, AddCalls
<1>3. CASE pc[c] = "list"
  <2>1. PICK owner \in Customers \cup {Anyone} :
          call[c] = Store!SelectCall(Uids, owner, "pending", {})
    BY <1>1, <1>3 DEF CallAt
  <2> QED BY <2>1, PendingSelects
<1>4. CASE pc[c] \in {"query", "items"}
  <2>1. PICK uid \in Uids, owner \in Customers \cup {Anyone} :
          call[c] = Store!SelectCall({uid}, owner, "pending", {})
    BY <1>1, <1>4 DEF CallAt
  <2> DEFINE target == {uid}
  <2>2. target \in SUBSET Uids
    OBVIOUS
  <2>3. call[c] = Store!SelectCall(target, owner, "pending", {})
    BY <2>1
  <2> HIDE DEF target
  <2>4. /\ Store!SelectCall(target, owner, "pending", {}) # Store!Idle
        /\ Store!SelectCall(target, owner, "pending", {}).status = "pending"
    BY <2>2, PendingSelects
  <2> QED BY <2>3, <2>4
<1> QED BY <1>1, <1>2, <1>3, <1>4 DEF Labels

LEMMA InvokeStep ==
  ASSUME Inv, NEW c \in Clients,
         \/ \E o \in Orders : AddOrderIfNotExists(c, o) \/ AddOrder(c, o)
         \/ \E owner \in Customers \cup {Anyone} :
              GetAllOrders(c, owner) \/ \E uid \in Uids : GetOrder(c, uid, owner)
  PROVE  Inv'
<1>1. Types /\ c \in DOMAIN pc /\ c \in DOMAIN call /\ draft = [draft EXCEPT ![c] = draft[c]]
      /\ draft[c] \in Rows \cup {NoOrder}
  BY DEF Inv, Types
<1>2. ASSUME NEW label \in {"exists", "begin", "query", "list"}, NEW record \in Store!Calls,
             Invoke(c, label, record),
             /\ label \in {"exists", "begin"} =>
                  \E o \in Orders : record = Store!AddCall(o, "pending")
             /\ label = "list" => \E owner \in Customers \cup {Anyone} :
                  record = Store!SelectCall(Uids, owner, "pending", {})
             /\ label = "query" => \E uid \in Uids, owner \in Customers \cup {Anyone} :
                  record = Store!SelectCall({uid}, owner, "pending", {})
      PROVE  Inv'
  <2>1. /\ pc[c] = "idle" /\ call' = [call EXCEPT ![c] = record]
        /\ pc' = [pc EXCEPT ![c] = label] /\ UNCHANGED <<db, tx, held>>
        /\ draft' = [draft EXCEPT ![c] = draft[c]]
    BY <1>1, <1>2 DEF Invoke, Goto
  <2>2. pc'[c] = label /\ call'[c] = record
    BY <1>1, <2>1
  <2>3. CallAt(c)' /\ DraftAt(c)'
    BY <1>2, <2>2 DEF CallAt, DraftAt, Adding, InTx, Tables
  <2>4. label \in Labels \ InTx /\ pc[c] \notin InTx
    BY <2>1 DEF Labels, Adding, InTx, Tables
  <2> QED BY <1>1, <2>1, <2>3, <2>4, LocalStep
<1>3. ASSUME NEW o \in Orders, AddOrderIfNotExists(c, o) \/ AddOrder(c, o)
      PROVE  Inv'
  BY <1>2, <1>3, AddCalls DEF AddOrderIfNotExists, AddOrder
<1>4. ASSUME NEW owner \in Customers \cup {Anyone}, GetAllOrders(c, owner)
      PROVE  Inv'
  <2>1. Store!SelectCall(Uids, owner, "pending", {}) \in Store!Calls
    BY PendingSelects
  <2> QED BY <1>2, <1>4, <2>1 DEF GetAllOrders
<1>5. ASSUME NEW owner \in Customers \cup {Anyone}, NEW uid \in Uids, GetOrder(c, uid, owner)
      PROVE  Inv'
  <2>1. Store!SelectCall({uid}, owner, "pending", {}) \in Store!Calls
    BY PendingSelects
  <2> QED BY <1>2, <1>5, <2>1 DEF GetOrder
<1> QED BY <1>3, <1>4, <1>5

LEMMA ReturnStep ==
  ASSUME Inv, NEW c \in Clients, Return(c)
  PROVE  Inv'
<1>1. /\ pc[c] = "done" /\ call' = [call EXCEPT ![c] = Store!Idle]
      /\ pc' = [pc EXCEPT ![c] = "idle"] /\ UNCHANGED <<db, tx, held>>
      /\ draft' = [draft EXCEPT ![c] = NoOrder]
  BY DEF Return, Goto
<1>2. pc'[c] = "idle" /\ call'[c] = Store!Idle
  BY <1>1 DEF Inv, Types
<1>3. CallAt(c)' /\ DraftAt(c)'
  BY <1>2 DEF CallAt, DraftAt, Adding, InTx, Tables
<1>4. "idle" \in Labels \ InTx /\ pc[c] \notin InTx /\ Store!Idle \in Store!Calls
  BY <1>1 DEF Labels, Adding, InTx, Tables, Store!Calls
<1> QED BY <1>1, <1>3, <1>4, LocalStep

(* A method that is in no transaction answers with an outcome.             *)
LEMMA AnswerLocally ==
  ASSUME Inv, NEW c \in Clients, pc[c] \notin InTx, pc[c] \notin {"idle", "done"},
         NEW status \in {"ok", "failed"}, Answer(c, status),
         UNCHANGED <<db, tx, held, draft>>
  PROVE  Inv'
<1> DEFINE a == [call[c] EXCEPT !.status = status]
<1>1. /\ call' = [call EXCEPT ![c] = a] /\ pc' = [pc EXCEPT ![c] = "done"]
      /\ draft' = [draft EXCEPT ![c] = draft[c]]
  BY DEF Inv, Types, Answer, Goto
<1>2. call[c] # Store!Idle /\ call[c] \in Store!Calls
  BY CallsBegun DEF Inv, Types
<1>3. a \in Store!Calls /\ a # Store!Idle /\ a.status # "pending"
  BY <1>2, Answers
<1> HIDE DEF a
<1>4. pc'[c] = "done" /\ call'[c] = a
  BY <1>1 DEF Inv, Types
<1>5. CallAt(c)' /\ DraftAt(c)'
  BY <1>3, <1>4 DEF CallAt, DraftAt, Adding, InTx, Tables
<1>6. "done" \in Labels \ InTx /\ draft[c] \in Rows \cup {NoOrder}
  BY DEF Inv, Types, Labels, Adding, InTx, Tables
<1> QED BY <1>1, <1>3, <1>5, <1>6, LocalStep

(* A query answers with the rows it found.                                 *)
LEMMA AnswerFoundLocally ==
  ASSUME Inv, NEW c \in Clients, NEW target \in SUBSET Uids,
         NEW owner \in Customers \cup {Anyone},
         call[c] = Store!SelectCall(target, owner, "pending", {}),
         pc[c] \in {"query", "items", "list"},
         NEW found \in SUBSET Rows, AnswerFound(c, found),
         UNCHANGED <<db, tx, held, draft>>
  PROVE  Inv'
<1> DEFINE a == Store!SelectCall(target, owner, "ok", found)
<1>1. a = [call[c] EXCEPT !.status = "ok", !.found = found]
  <2> DEFINE p == [Store!SelectCall(target, owner, "pending", {}) EXCEPT !.status = "ok"]
  <2>1. p = Store!SelectCall(target, owner, "ok", {})
    BY DEF Store!SelectCall
  <2>2. [Store!SelectCall(target, owner, "ok", {}) EXCEPT !.found = found] = a
    BY DEF Store!SelectCall
  <2>3. [p EXCEPT !.found = found] = a
    BY <2>1, <2>2
  <2> QED BY <2>3
<1>2. /\ call' = [call EXCEPT ![c] = a] /\ pc' = [pc EXCEPT ![c] = "done"]
      /\ draft' = [draft EXCEPT ![c] = draft[c]]
  BY <1>1 DEF Inv, Types, AnswerFound, Goto
<1>3. a \in Store!Calls /\ a # Store!Idle /\ a.status # "pending"
  <2> DEFINE status == "ok"
  <2>1. status \in {"pending", "ok", "failed"} /\ status # "pending"
    OBVIOUS
  <2> HIDE DEF status
  <2>2. /\ Store!SelectCall(target, owner, status, found) \in Store!Calls \ {Store!Idle}
        /\ Store!SelectCall(target, owner, status, found).status = status
    BY <2>1, SelectCalls
  <2> QED BY <2>1, <2>2 DEF status
<1> HIDE DEF a
<1>4. pc'[c] = "done" /\ call'[c] = a
  BY <1>2 DEF Inv, Types
<1>5. CallAt(c)' /\ DraftAt(c)'
  BY <1>3, <1>4 DEF CallAt, DraftAt, Adding, InTx, Tables
<1>6. "done" \in Labels \ InTx /\ pc[c] \notin InTx /\ draft[c] \in Rows \cup {NoOrder}
  BY DEF Inv, Types, Labels, Adding, InTx, Tables
<1> QED BY <1>2, <1>3, <1>5, <1>6, LocalStep

LEMMA OrderExistsStep ==
  ASSUME Inv, NEW c \in Clients, OrderExists(c)
  PROVE  Inv'
<1>1. pc[c] = "exists" /\ pc[c] \notin InTx /\ UNCHANGED <<db, tx, held, draft>>
  BY DEF OrderExists, InTx, Tables
<1>2. CASE Answer(c, "failed")
  BY <1>1, <1>2, AnswerLocally
<1>3. CASE Goto(c, "begin") /\ UNCHANGED call
  <2>1. /\ pc' = [pc EXCEPT ![c] = "begin"] /\ call' = [call EXCEPT ![c] = call[c]]
        /\ draft' = [draft EXCEPT ![c] = draft[c]]
        /\ call[c] \in Store!Calls /\ draft[c] \in Rows \cup {NoOrder}
    BY <1>1, <1>3 DEF Inv, Types, Goto
  <2>2. pc'[c] = "begin" /\ call'[c] = call[c]
    BY <1>3, <2>1 DEF Inv, Types
  <2>3. CallAt(c)' /\ DraftAt(c)'
    <3>1. CallAt(c)
      BY DEF Inv
    <3> QED BY <1>1, <2>2, <3>1 DEF CallAt, DraftAt, Adding, InTx, Tables
  <2>4. "begin" \in Labels \ InTx
    BY DEF Labels, Adding, InTx, Tables
  <2> QED BY <1>1, <2>1, <2>3, <2>4, LocalStep
<1> QED BY <1>2, <1>3 DEF OrderExists

LEMMA ListStep ==
  ASSUME Inv, NEW c \in Clients, List(c)
  PROVE  Inv'
<1>1. PICK owner \in Customers \cup {Anyone} :
        call[c] = Store!SelectCall(Uids, owner, "pending", {})
  BY DEF Inv, CallAt, List
<1> DEFINE hits == {f \in db : /\ f.table = "orders"
                               /\ Store!Visible(f.row, call[c].owner)}
           found == {e.row : e \in hits}
<1>2. found \in SUBSET Rows
  <2>1. \A e \in hits : e \in Inserts
    BY DEF Inv, Types
  <2> QED BY <2>1, InsertParts
<1>3. pc[c] = "list" /\ AnswerFound(c, found) /\ UNCHANGED <<db, tx, held, draft>>
  BY DEF List
<1> HIDE DEF found
<1>4. Uids \in SUBSET Uids
  OBVIOUS
<1> QED BY <1>1, <1>2, <1>3, <1>4, AnswerFoundLocally

(* A stored row and what the four tables have of it.                       *)
LEMMA StoredWhole ==
  ASSUME Types, TablesAgree, NEW e \in db, e.table = "orders"
  PROVE  /\ e = Ins("orders", e.row, 1) /\ e.row \in Rows /\ e.row.uid \in Uids
         /\ \A table \in Tables \ {"item"} :
              In(db, table, e.row.uid) = {Ins(table, e.row, 1)}
         /\ In(db, "item", e.row.uid) = Items(e.row, e.row.items)
<1>1. /\ e = Ins("orders", e.row, 1) /\ e.row \in Rows /\ e.row.uid \in Uids
  BY InsertParts, RowType DEF Types
<1>2. e \in In(db, "orders", e.row.uid)
  BY DEF In
<1>3. PICK row \in Rows :
         /\ \A table \in Tables \ {"item"} :
              In(db, table, e.row.uid) = {Ins(table, row, 1)}
         /\ In(db, "item", e.row.uid) = {Ins("item", row, i) : i \in 1..row.items}
  BY <1>1, <1>2 DEF TablesAgree, Tables
<1>4. row = e.row
  <2>1. e = Ins("orders", row, 1)
    BY <1>2, <1>3 DEF Tables
  <2> QED BY <2>1, InsParts
<1> QED BY <1>1, <1>3, <1>4 DEF Items

LEMMA QueryStep ==
  ASSUME Inv, NEW c \in Clients, Query(c)
  PROVE  Inv'
<1> DEFINE hits == {e \in db : /\ e.table = "orders"
                               /\ e.row.uid \in call[c].target
                               /\ Store!Visible(e.row, call[c].owner)}
<1>1. pc[c] = "query" /\ pc[c] \notin InTx /\ UNCHANGED <<db, tx, held>>
  BY DEF Query, InTx, Tables
<1>2. PICK uid \in Uids, owner \in Customers \cup {Anyone} :
        call[c] = Store!SelectCall({uid}, owner, "pending", {})
  BY <1>1 DEF Inv, CallAt
<1>3. CASE AnswerFound(c, {}) /\ UNCHANGED draft
  <2> DEFINE found == {}
             target == {uid}
  <2>1. found \in SUBSET Rows /\ target \in SUBSET Uids
    OBVIOUS
  <2>2. call[c] = Store!SelectCall(target, owner, "pending", {}) /\ AnswerFound(c, found)
    BY <1>2, <1>3
  <2> HIDE DEF found, target
  <2> QED BY <1>1, <1>3, <2>1, <2>2, AnswerFoundLocally
<1>4. CASE Answer(c, "failed") /\ UNCHANGED draft
  BY <1>1, <1>4, AnswerLocally
<1>5. ASSUME NEW e \in hits, draft' = [draft EXCEPT ![c] = e.row],
             Goto(c, "items"), UNCHANGED call
      PROVE  Inv'
  <2>1. /\ e \in db /\ e.table = "orders"
        /\ e.row.uid \in call[c].target /\ Store!Visible(e.row, call[c].owner)
    BY <1>5
  <2>2. e = Ins("orders", e.row, 1) /\ e.row \in Rows
    BY <2>1, StoredWhole DEF Inv
  <2>3. /\ pc' = [pc EXCEPT ![c] = "items"] /\ call' = [call EXCEPT ![c] = call[c]]
        /\ call[c] \in Store!Calls
    BY <1>5 DEF Inv, Types, Goto
  <2>4. pc'[c] = "items" /\ call'[c] = call[c] /\ draft'[c] = e.row
    BY <1>5, <2>3 DEF Inv, Types
  <2>5. CallAt(c)'
    BY <1>2, <2>4 DEF CallAt, Adding, InTx, Tables
  <2>6. DraftAt(c)'
    BY <1>1, <2>1, <2>2, <2>4 DEF DraftAt
  <2>7. "items" \in Labels \ InTx
    BY DEF Labels, Adding, InTx, Tables
  <2> QED BY <1>1, <1>5, <2>2, <2>3, <2>5, <2>6, <2>7, LocalStep
<1> QED BY <1>3, <1>4, <1>5 DEF Query

(* The second query reads back the order the first one found.              *)
LEMMA ItemsFound ==
  ASSUME Inv, NEW c \in Clients, pc[c] = "items"
  PROVE  /\ draft[c] \in Rows /\ In(db, "orders", draft[c].uid) = {Ins("orders", draft[c], 1)}
         /\ [draft[c] EXCEPT !.items = Cardinality(In(db, "item", draft[c].uid))] = draft[c]
<1>1. draft[c] \in Rows /\ Ins("orders", draft[c], 1) \in db
  BY DEF Inv, DraftAt
<1>2. /\ Ins("orders", draft[c], 1).table = "orders"
      /\ Ins("orders", draft[c], 1).row = draft[c]
  BY InsParts
<1>3. /\ In(db, "orders", draft[c].uid) = {Ins("orders", draft[c], 1)}
      /\ In(db, "item", draft[c].uid) = Items(draft[c], draft[c].items)
  BY <1>1, <1>2, StoredWhole DEF Inv, Tables
<1>4. Cardinality(In(db, "item", draft[c].uid)) = draft[c].items
  BY <1>1, <1>3, RowType, ItemsCount
<1>5. [draft[c] EXCEPT !.items = draft[c].items] = draft[c]
  <2>1. PICK o \in Orders : draft[c] = RowOf(o)
    BY <1>1 DEF Rows
  <2>2. o \in [uid : Uids, customer : Customers, date : Nat, items : Nat \ {0},
               refusedBy : Tables \cup {"none"}]
    BY OrdersAssumption
  <2> QED BY <2>1, <2>2 DEF RowOf
<1> QED BY <1>1, <1>3, <1>4, <1>5

LEMMA QueryItemsStep ==
  ASSUME Inv, NEW c \in Clients, QueryItems(c)
  PROVE  Inv'
<1> DEFINE found == {[draft[c] EXCEPT !.items = Cardinality(In(db, "item", draft[c].uid))]}
<1>1. pc[c] = "items" /\ AnswerFound(c, found) /\ UNCHANGED <<db, tx, held, draft>>
  BY DEF QueryItems
<1>2. found \in SUBSET Rows
  BY <1>1, ItemsFound
<1>3. PICK uid \in Uids, owner \in Customers \cup {Anyone} :
        call[c] = Store!SelectCall({uid}, owner, "pending", {})
  BY <1>1 DEF Inv, CallAt
<1> DEFINE target == {uid}
<1>4. target \in SUBSET Uids /\ call[c] = Store!SelectCall(target, owner, "pending", {})
  BY <1>3
<1> HIDE DEF found, target
<1> QED BY <1>1, <1>2, <1>4, AnswerFoundLocally

(* A step into a transaction, or within one.                               *)
LEMMA InsideStep ==
  ASSUME Inv, NEW c \in Clients, NEW label \in InTx, NEW sent \in SUBSET Inserts,
         pc[c] \in Adding,
         pc' = [pc EXCEPT ![c] = label],
         tx' = [tx EXCEPT ![c] = sent],
         held' = held \cup {c},
         UNCHANGED <<db, call, draft>>,
         TxAt(c)', KeyHeld'
  PROVE  Inv'
<1> USE DEF Inv
<1>1. Types'
  BY DEF Types, Labels, Adding
<1>2. pc'[c] = label /\ \A d \in Clients \ {c} : pc'[d] = pc[d] /\ tx'[d] = tx[d]
  BY DEF Types
<1>3. ConnectionsAccounted'
  BY <1>2 DEF ConnectionsAccounted, InTx
<1>4. TablesAgree'
  BY DEF TablesAgree, In
<1>5. CallAt(c)' /\ DraftAt(c)'
  <2>1. CallAt(c) /\ label \in Adding /\ label \notin {"idle", "list", "query", "items", "done"}
    BY DEF Adding, InTx, Tables
  <2>2. \E o \in Orders : call'[c] = Store!AddCall(o, "pending")
    BY <2>1 DEF CallAt
  <2> QED BY <1>2, <2>1, <2>2 DEF CallAt, DraftAt
<1>6. ASSUME NEW d \in Clients \ {c}
      PROVE  CallAt(d)' /\ TxAt(d)' /\ DraftAt(d)'
  BY <1>2, Bystander
<1> QED BY <1>1, <1>3, <1>4, <1>5, <1>6

LEMMA NothingSent ==
  ASSUME NEW row
  PROVE  Heads(row, {}) \cup Items(row, 0) = {}
BY DEF Heads, Items

LEMMA BeginStep ==
  ASSUME Inv, NEW c \in Clients, Begin(c)
  PROVE  Inv'
<1>1. /\ pc[c] = "begin" /\ pc' = [pc EXCEPT ![c] = "orders"] /\ held' = held \cup {c}
      /\ UNCHANGED <<db, tx, call, draft>>
  BY DEF Begin, Goto
<1>2. pc[c] \in Adding /\ pc[c] \notin InTx /\ "orders" \in InTx
  BY <1>1 DEF Adding, InTx, Tables
<1>3. tx[c] = {} /\ tx' = [tx EXCEPT ![c] = tx[c]] /\ tx[c] \in SUBSET Inserts
  BY <1>1, <1>2 DEF Inv, TxAt, Types
<1>4. PICK o \in Orders : call[c] = Store!AddCall(o, "pending")
  BY <1>2 DEF Inv, CallAt
<1>5. pc'[c] = "orders" /\ tx'[c] = {} /\ call'[c] = Store!AddCall(o, "pending")
  BY <1>1, <1>3, <1>4 DEF Inv, Types
<1>6. Sent(c, o, 0)'
  BY <1>5, NothingSent DEF Sent, Through
<1>7. TxAt(c)'
  BY <1>5, <1>6 DEF TxAt, InTx, Tables
<1>8. KeyHeld'
  BY <1>1 DEF Inv, KeyHeld, In
<1> QED BY <1>1, <1>2, <1>3, <1>7, <1>8, InsideStep

(* A statement of a transaction that inserts nothing.                      *)
LEMMA GiveUpStep ==
  ASSUME Inv, NEW c \in Clients, pc[c] \in Tables, Goto(c, "rollback"),
         UNCHANGED <<db, tx, held, call, draft>>
  PROVE  Inv'
<1>1. pc[c] \in Adding /\ "rollback" \in InTx /\ pc' = [pc EXCEPT ![c] = "rollback"]
  BY DEF Adding, InTx, Goto
<1>2. tx' = [tx EXCEPT ![c] = tx[c]] /\ tx[c] \in SUBSET Inserts /\ pc'[c] = "rollback"
  BY <1>1 DEF Inv, Types
<1>3. held' = held \cup {c}
  BY DEF Inv, ConnectionsAccounted
<1>4. TxAt(c)'
  BY <1>2 DEF TxAt, InTx, Tables
<1>5. KeyHeld'
  BY DEF Inv, KeyHeld, In
<1> QED BY <1>1, <1>2, <1>3, <1>4, <1>5, InsideStep

(* The inserts of a transaction so far, and of which order.                *)
LEMMA SentSoFar ==
  ASSUME Inv, NEW c \in Clients, pc[c] \in Tables \cup {"commit"}
  PROVE  \E o \in Orders, n \in Nat :
           /\ Sent(c, o, n) /\ call[c] = Store!AddCall(o, "pending")
           /\ call[c].order = o
<1>1. PICK o \in Orders, n \in Nat :
        call[c] = Store!AddCall(o, "pending") /\ Sent(c, o, n)
  BY DEF Inv, TxAt
<1>2. call[c].order = o
  BY <1>1, AddCalls
<1> QED BY <1>1, <1>2

LEMMA StagedItems ==
  ASSUME NEW c \in Clients, NEW row, NEW n \in Nat,
         tx[c] = Heads(row, Through("item")) \cup Items(row, n)
  PROVE  Cardinality(Staged(c, "item")) = n
<1>1. Staged(c, "item") = Items(row, n)
  BY DEF Staged, Heads, Items, Through, Ins
<1> QED BY <1>1, ItemsCount

(* One more insert, and the statement after it.                            *)
LEMMA InsertSent ==
  ASSUME Inv, NEW c \in Clients, NEW o \in Orders, NEW n \in Nat,
         pc[c] \in Tables, Sent(c, o, n), call[c].order = o, o.refusedBy # pc[c]
  PROVE  /\ After(c) \in InTx /\ After(c) \notin {"orders", "rollback"}
         /\ NextInsert(c) \in Whole(RowOf(o)) /\ NextInsert(c).table = pc[c]
         /\ \E m \in Nat :
              /\ tx[c] \cup {NextInsert(c)}
                   = Heads(RowOf(o), Through(After(c))) \cup Items(RowOf(o), m)
              /\ After(c) \in {"delivery", "payment"} => m = 0
              /\ After(c) = "item" => m < o.items
              /\ After(c) = "commit" => m = o.items /\ o.refusedBy # "item"
         /\ o.refusedBy \notin Through(After(c))
<1> DEFINE row == RowOf(o)
<1>1. row.items = o.items /\ o.items \in Nat \ {0} /\ o.refusedBy \notin Through(pc[c])
  BY OrderRow DEF Sent
<1>2. tx[c] = Heads(row, Through(pc[c])) \cup Items(row, n)
  BY DEF Sent
<1> HIDE DEF row
<1>3. ASSUME NEW table \in {"orders", "delivery", "payment"}, pc[c] = table,
             After(c) = CASE table = "orders" -> "delivery"
                          [] table = "delivery" -> "payment"
                          [] table = "payment" -> "item"
      PROVE  /\ n = 0 /\ NextInsert(c) = Ins(table, row, 1) /\ NextInsert(c) \in Whole(row)
             /\ Through(After(c)) = Through(table) \cup {table}
             /\ tx[c] \cup {NextInsert(c)} = Heads(row, Through(After(c))) \cup Items(row, 0)
  <2>1. n = 0 /\ NextInsert(c) = Ins(table, row, 1)
    BY <1>3 DEF Sent, NextInsert, row
  <2>2. Through(After(c)) = Through(table) \cup {table}
    BY <1>3 DEF Through
  <2>3. NextInsert(c) \in Whole(row)
    BY <2>1 DEF Whole, Heads, Tables
  <2>4. Heads(row, Through(table) \cup {table}) = Heads(row, Through(table)) \cup {Ins(table, row, 1)}
    BY DEF Heads
  <2> QED BY <1>2, <1>3, <2>1, <2>2, <2>3, <2>4
<1>4. CASE pc[c] = "orders"
  <2>1. After(c) = "delivery"
    BY <1>4 DEF After
  <2> QED BY <1>1, <1>3, <1>4, <2>1, InsParts DEF InTx, Tables, row
<1>5. CASE pc[c] = "delivery"
  <2>1. After(c) = "payment"
    BY <1>5 DEF After
  <2> QED BY <1>1, <1>3, <1>5, <2>1, InsParts DEF InTx, Tables, row
<1>6. CASE pc[c] = "payment"
  <2>1. After(c) = "item"
    BY <1>6 DEF After
  <2> QED BY <1>1, <1>3, <1>6, <2>1, InsParts DEF InTx, Tables, row
<1>7. CASE pc[c] = "item"
  <2>1. n < o.items /\ Cardinality(Staged(c, "item")) = n
    BY <1>2, <1>7, StagedItems DEF Sent
  <2>2. NextInsert(c) = Ins("item", row, n + 1)
    BY <1>7, <2>1 DEF NextInsert, row
  <2>3. After(c) = IF n + 1 < o.items THEN "item" ELSE "commit"
    BY <1>7, <2>1 DEF After
  <2>4. Items(row, n + 1) = Items(row, n) \cup {Ins("item", row, n + 1)}
    <3>1. 1..(n + 1) = (1..n) \cup {n + 1}
      OBVIOUS
    <3> QED BY <3>1 DEF Items
  <2>5. NextInsert(c) \in Whole(row)
    <3>1. n + 1 \in 1..row.items
      BY <1>1, <2>1
    <3> QED BY <2>2, <3>1 DEF Whole, Items
  <2>6. Through(After(c)) = Through(pc[c])
    BY <1>7, <2>3 DEF Through
  <2>7. tx[c] \cup {NextInsert(c)} = Heads(row, Through(After(c))) \cup Items(row, n + 1)
    BY <1>2, <2>2, <2>4, <2>6
  <2>8. /\ After(c) \notin {"delivery", "payment", "orders", "rollback"} /\ After(c) \in InTx
        /\ After(c) = "item" => n + 1 < o.items
        /\ After(c) = "commit" => n + 1 = o.items /\ o.refusedBy # "item"
    BY <1>1, <1>7, <2>1, <2>3 DEF InTx, Tables
  <2> QED BY <1>1, <1>7, <2>2, <2>5, <2>6, <2>7, <2>8, InsParts DEF row
<1> QED BY <1>4, <1>5, <1>6, <1>7 DEF Tables

LEMMA InsertRowStep ==
  ASSUME Inv, NEW c \in Clients, InsertRow(c)
  PROVE  Inv'
<1>1. pc[c] \in Tables /\ ~MustWait(c) /\ UNCHANGED <<db, held, call, draft>>
  BY DEF InsertRow
<1>2. PICK o \in Orders, n \in Nat :
        Sent(c, o, n) /\ call[c] = Store!AddCall(o, "pending") /\ call[c].order = o
  BY <1>1, SentSoFar
<1>3. CASE Taken(c) \/ call[c].order.refusedBy = pc[c]
  BY <1>1, <1>3, GiveUpStep DEF InsertRow
<1>4. CASE ~(Taken(c) \/ call[c].order.refusedBy = pc[c])
  <2> DEFINE sent == tx[c] \cup {NextInsert(c)}
             label == After(c)
  <2>1. tx' = [tx EXCEPT ![c] = sent] /\ pc' = [pc EXCEPT ![c] = label]
    BY <1>4 DEF InsertRow, Goto
  <2>2. /\ label \in InTx /\ label \notin {"orders", "rollback"}
        /\ NextInsert(c) \in Whole(RowOf(o)) /\ NextInsert(c).table = pc[c]
        /\ o.refusedBy \notin Through(label)
    BY <1>1, <1>2, <1>4, InsertSent
  <2>3. PICK m \in Nat :
          /\ sent = Heads(RowOf(o), Through(label)) \cup Items(RowOf(o), m)
          /\ label \in {"delivery", "payment"} => m = 0
          /\ label = "item" => m < o.items
          /\ label = "commit" => m = o.items /\ o.refusedBy # "item"
    BY <1>1, <1>2, <1>4, InsertSent
  <2> HIDE DEF label
  <2>4. sent \in SUBSET Inserts
    BY <2>2, OrderRow, WholeIsInserts DEF Inv, Types
  <2>5. /\ tx'[c] = sent /\ pc'[c] = label /\ call'[c] = Store!AddCall(o, "pending")
        /\ \A d \in Clients \ {c} : tx'[d] = tx[d]
    BY <1>1, <1>2, <2>1 DEF Inv, Types
  <2>6. KeyHeld'
    <3> DEFINE uid == RowOf(o).uid
    <3>1. NextInsert(c).row = RowOf(o) /\ uid = call[c].order.uid
      BY <1>2, <2>2, OrderRow DEF Whole, Heads, Items, Ins
    <3>2. CASE pc[c] = "orders"
      <4>1. tx[c] = {}
        BY <1>2, <3>2, NothingSent DEF Sent, Through
      <4>2. /\ In(db, "orders", uid) = {}
            /\ \A d \in Clients \ {c} : In(tx[d], "orders", uid) = {}
        BY <1>1, <1>4, <3>1, <3>2 DEF Taken, MustWait
      <4>3. \A e \in tx'[c] : e.row.uid = uid
        BY <2>5, <3>1, <4>1
      <4>4. ASSUME NEW d \in Clients \ {c}, NEW e \in tx[d], e.table = "orders"
            PROVE  /\ In(db, "orders", e.row.uid) = {}
                   /\ \A f \in Clients \ {d} : In(tx'[f], "orders", e.row.uid) = {}
        <5>1. e.row.uid # uid
          BY <4>2, <4>4 DEF In
        <5>2. In(tx'[c], "orders", e.row.uid) = {}
          BY <4>3, <5>1 DEF In
        <5>3. /\ In(db, "orders", e.row.uid) = {}
              /\ \A f \in Clients \ {d} : In(tx[f], "orders", e.row.uid) = {}
          BY <4>4 DEF Inv, KeyHeld
        <5> QED BY <2>5, <5>2, <5>3
      <4>5. ASSUME NEW e \in tx'[c], e.table = "orders"
            PROVE  /\ In(db, "orders", e.row.uid) = {}
                   /\ \A f \in Clients \ {c} : In(tx'[f], "orders", e.row.uid) = {}
        BY <2>5, <4>2, <4>3, <4>5
      <4> QED BY <1>1, <2>5, <4>4, <4>5 DEF KeyHeld
    <3>3. CASE pc[c] # "orders"
      <4>1. \A u : \A d \in Clients : In(tx'[d], "orders", u) = In(tx[d], "orders", u)
        BY <2>2, <2>5, <3>3 DEF In
      <4>2. \A d \in Clients : \A e \in tx'[d] : e.table = "orders" => e \in tx[d]
        BY <2>2, <2>5, <3>3
      <4> QED BY <1>1, <4>1, <4>2 DEF Inv, KeyHeld
    <3> QED BY <3>2, <3>3
  <2> HIDE DEF sent
  <2>7. TxAt(c)'
    <3>1. Sent(c, o, m)'
      BY <2>2, <2>3, <2>5 DEF Sent
    <3> QED BY <2>2, <2>5, <3>1 DEF TxAt
  <2>8. held' = held \cup {c} /\ pc[c] \in Adding
    BY <1>1 DEF Inv, ConnectionsAccounted, Adding, InTx
  <2> QED BY <1>1, <2>1, <2>2, <2>4, <2>6, <2>7, <2>8, InsideStep
<1> QED BY <1>3, <1>4

(* A transaction that comes to its commit holds one whole order, under a   *)
(* uid nobody has stored.                                                  *)
LEMMA ReadyToCommit ==
  ASSUME Inv, NEW c \in Clients, pc[c] = "commit"
  PROVE  \E o \in Orders :
           /\ call[c] = Store!AddCall(o, "pending") /\ call[c].order = o
           /\ Storable(o) /\ tx[c] = Whole(RowOf(o))
           /\ \A table \in Tables : In(db, table, o.uid) = {}
<1>1. PICK o \in Orders, n \in Nat :
        Sent(c, o, n) /\ call[c] = Store!AddCall(o, "pending") /\ call[c].order = o
  BY SentSoFar
<1>2. n = o.items /\ o.refusedBy # "item" /\ Through("commit") = Tables \ {"item"}
  BY <1>1 DEF Sent, Through, Tables
<1>3. tx[c] = Whole(RowOf(o))
  BY <1>1, <1>2, OrderRow DEF Sent, Whole
<1>4. Storable(o)
  BY <1>1, <1>2, OrderRow DEF Sent, Storable
<1>5. In(db, "orders", o.uid) = {}
  <2> DEFINE e == Ins("orders", RowOf(o), 1)
  <2>1. e \in tx[c] /\ e.table = "orders" /\ e.row.uid = o.uid
    BY <1>3, OrderRow, InsParts DEF Whole, Heads, Tables
  <2> HIDE DEF e
  <2> QED BY <2>1 DEF Inv, KeyHeld
<1>6. \A table \in Tables : In(db, table, o.uid) = {}
  <2>1. o.uid \in Uids /\ "orders" \in Tables \ {"item"}
    BY OrderRow DEF Tables
  <2> QED BY <1>5, <2>1 DEF Inv, TablesAgree
<1> QED BY <1>1, <1>3, <1>4, <1>6

(* What a commit does to the tables.                                       *)
LEMMA Committed ==
  ASSUME Inv, NEW o \in Orders, db' = db \cup Whole(RowOf(o)),
         \A table \in Tables : In(db, table, o.uid) = {}
  PROVE  /\ TablesAgree'
         /\ In(db', "orders", o.uid) = {Ins("orders", RowOf(o), 1)}
         /\ \A table, uid : uid # o.uid => In(db', table, uid) = In(db, table, uid)
<1> DEFINE row == RowOf(o)
<1>1. row \in Rows /\ row.uid = o.uid
  BY OrderRow
<1> HIDE DEF row
<1>2. \A table, uid : In(db', table, uid) = In(db, table, uid) \cup In(Whole(row), table, uid)
  BY InUnion DEF row
<1>3. /\ \A table, uid : uid # o.uid => In(db', table, uid) = In(db, table, uid)
      /\ \A table \in Tables \ {"item"} : In(db', table, o.uid) = {Ins(table, row, 1)}
      /\ In(db', "item", o.uid) = {Ins("item", row, i) : i \in 1..row.items}
  <2>1. "item" \in Tables
    BY DEF Tables
  <2>2. /\ \A table \in Tables \ {"item"} : In(Whole(row), table, o.uid) = {Ins(table, row, 1)}
        /\ In(Whole(row), "item", o.uid) = {Ins("item", row, i) : i \in 1..row.items}
        /\ \A table, uid : uid # o.uid => In(Whole(row), table, uid) = {}
    BY <1>1, InWhole
  <2>3. ASSUME NEW table, NEW uid, uid # o.uid
        PROVE  In(db', table, uid) = In(db, table, uid)
    <3>1. In(Whole(row), table, uid) = {}
      BY <2>2, <2>3
    <3>2. In(db', table, uid) = In(db, table, uid) \cup In(Whole(row), table, uid)
      BY <1>2
    <3> QED BY <3>1, <3>2
  <2>4. \A table \in Tables : In(db', table, o.uid) = In(Whole(row), table, o.uid)
    BY <1>2
  <2> QED BY <2>1, <2>2, <2>3, <2>4
<1>4. ASSUME NEW uid \in Uids
      PROVE  \/ \A table \in Tables : In(db', table, uid) = {}
             \/ \E r \in Rows :
                  /\ \A table \in Tables \ {"item"} : In(db', table, uid) = {Ins(table, r, 1)}
                  /\ In(db', "item", uid) = {Ins("item", r, i) : i \in 1..r.items}
  <2>1. CASE uid = o.uid
    BY <1>1, <1>3, <2>1
  <2>2. CASE uid # o.uid
    <3>1. \A table : In(db', table, uid) = In(db, table, uid)
      BY <1>3, <2>2
    <3>2. \/ \A table \in Tables : In(db, table, uid) = {}
          \/ \E r \in Rows :
               /\ \A table \in Tables \ {"item"} : In(db, table, uid) = {Ins(table, r, 1)}
               /\ In(db, "item", uid) = {Ins("item", r, i) : i \in 1..r.items}
      BY DEF Inv, TablesAgree
    <3> QED BY <3>1, <3>2
  <2> QED BY <2>1, <2>2
<1>5. In(db', "orders", o.uid) = {Ins("orders", row, 1)}
  BY <1>3 DEF Tables
<1> QED BY <1>3, <1>4, <1>5 DEF TablesAgree, row

LEMMA EndStep ==
  ASSUME Inv, NEW c \in Clients, pc[c] \in {"commit", "rollback"},
         NEW status \in {"ok", "failed"}, EndTx(c), Answer(c, status), UNCHANGED draft,
         db' = db \/ (pc[c] = "commit" /\ db' = db \cup tx[c])
  PROVE  Inv'
<1> DEFINE a == [call[c] EXCEPT !.status = status]
<1>1. /\ call' = [call EXCEPT ![c] = a] /\ pc' = [pc EXCEPT ![c] = "done"]
      /\ tx' = [tx EXCEPT ![c] = {}] /\ held' = held \ {c}
  BY DEF Inv, Types, Answer, Goto, EndTx
<1>2. a \in Store!Calls /\ a # Store!Idle /\ a.status # "pending"
  <2>1. call[c] # Store!Idle /\ call[c] \in Store!Calls
    BY CallsBegun DEF Inv, Types
  <2> QED BY <2>1, Answers
<1> HIDE DEF a
<1>3. /\ pc'[c] = "done" /\ call'[c] = a /\ tx'[c] = {}
      /\ \A d \in Clients \ {c} :
           pc'[d] = pc[d] /\ call'[d] = call[d] /\ tx'[d] = tx[d] /\ draft'[d] = draft[d]
  BY <1>1 DEF Inv, Types
<1>4. Types'
  BY <1>1, <1>2 DEF Inv, Types, Labels
<1>5. ConnectionsAccounted'
  BY <1>1, <1>3 DEF Inv, ConnectionsAccounted, Tables
<1>6. TablesAgree'
  <2>1. CASE db' = db
    BY <2>1 DEF Inv, TablesAgree, In
  <2>2. CASE pc[c] = "commit" /\ db' = db \cup tx[c]
    BY <2>2, ReadyToCommit, Committed
  <2> QED BY <2>1, <2>2
<1>7. KeyHeld'
  <2> SUFFICES ASSUME NEW d \in Clients, NEW e \in tx'[d], e.table = "orders"
               PROVE  /\ In(db', "orders", e.row.uid) = {}
                      /\ \A f \in Clients \ {d} : In(tx'[f], "orders", e.row.uid) = {}
    BY DEF KeyHeld
  <2>1. d # c /\ e \in tx[d]
    BY <1>3
  <2>2. /\ In(db, "orders", e.row.uid) = {}
        /\ \A f \in Clients \ {d} : In(tx[f], "orders", e.row.uid) = {}
    BY <2>1 DEF Inv, KeyHeld
  <2>3. In(db', "orders", e.row.uid) = {}
    BY <2>1, <2>2 DEF In
  <2>4. \A f \in Clients \ {d} : In(tx'[f], "orders", e.row.uid) = {}
    BY <1>3, <2>2 DEF In
  <2> QED BY <2>3, <2>4
<1>8. CallAt(c)' /\ TxAt(c)' /\ DraftAt(c)'
  BY <1>2, <1>3 DEF CallAt, TxAt, DraftAt, Adding, InTx, Tables
<1>9. ASSUME NEW d \in Clients \ {c}
      PROVE  CallAt(d)' /\ TxAt(d)' /\ DraftAt(d)'
  <2>1. db \subseteq db'
    OBVIOUS
  <2>2. CallAt(d) /\ TxAt(d) /\ DraftAt(d)
    BY DEF Inv
  <2> QED BY <1>3, <2>1, <2>2, Bystander
<1> QED BY <1>4, <1>5, <1>6, <1>7, <1>8, <1>9 DEF Inv

LEMMA CrashStep ==
  ASSUME Inv, Crash
  PROVE  Inv'
<1>1. /\ UNCHANGED db /\ held' = {} /\ tx' = [c \in Clients |-> {}]
      /\ pc' = [c \in Clients |-> "idle"] /\ call' = [c \in Clients |-> Store!Idle]
      /\ draft' = [c \in Clients |-> NoOrder]
  BY DEF Crash
<1>2. Types'
  BY <1>1 DEF Inv, Types, Labels, Store!Calls
<1>3. TablesAgree' /\ KeyHeld'
  BY <1>1 DEF Inv, TablesAgree, KeyHeld, In
<1>4. ConnectionsAccounted'
  BY <1>1 DEF ConnectionsAccounted, Tables
<1>5. \A c \in Clients : CallAt(c)' /\ TxAt(c)' /\ DraftAt(c)'
  BY <1>1 DEF CallAt, TxAt, DraftAt, Adding, InTx, Tables
<1> QED BY <1>2, <1>3, <1>4, <1>5 DEF Inv

LEMMA StatementErrorStep ==
  ASSUME Inv, NEW c \in Clients, StatementError(c)
  PROVE  Inv'
<1>1. UNCHANGED <<db, tx, held, draft>>
  BY DEF StatementError
<1>2. CASE pc[c] \in {"exists", "begin", "query", "items", "list"} /\ Answer(c, "failed")
  <2>1. pc[c] \notin InTx /\ pc[c] \notin {"idle", "done"}
    BY <1>2 DEF InTx, Tables
  <2> QED BY <1>1, <1>2, <2>1, AnswerLocally
<1>3. CASE pc[c] \in Tables /\ Goto(c, "rollback") /\ UNCHANGED call
  BY <1>1, <1>3, GiveUpStep
<1> QED BY <1>2, <1>3 DEF StatementError

LEMMA InvInit == Init => Inv
<1> SUFFICES ASSUME Init PROVE Inv
  OBVIOUS
<1>1. /\ db = {} /\ held = {} /\ tx = [c \in Clients |-> {}]
      /\ pc = [c \in Clients |-> "idle"] /\ call = [c \in Clients |-> Store!Idle]
      /\ draft = [c \in Clients |-> NoOrder]
  BY DEF Init
<1>2. Types
  BY <1>1 DEF Types, Labels, Store!Calls
<1>3. TablesAgree /\ KeyHeld
  BY <1>1 DEF TablesAgree, KeyHeld, In
<1>4. ConnectionsAccounted
  BY <1>1 DEF ConnectionsAccounted, Tables
<1>5. \A c \in Clients : CallAt(c) /\ TxAt(c) /\ DraftAt(c)
  BY <1>1 DEF CallAt, TxAt, DraftAt, Adding, InTx, Tables
<1> QED BY <1>2, <1>3, <1>4, <1>5 DEF Inv

LEMMA InvNext == Inv /\ [Next]_vars => Inv'
<1> SUFFICES ASSUME Inv, [Next]_vars PROVE Inv'
  OBVIOUS
<1>1. CASE UNCHANGED vars
  <2>1. Types' /\ KeyHeld' /\ TablesAgree' /\ ConnectionsAccounted'
    BY <1>1 DEF vars, Inv, Types, KeyHeld, TablesAgree, ConnectionsAccounted, In
  <2>2. \A c \in Clients : CallAt(c)' /\ TxAt(c)' /\ DraftAt(c)'
    <3> SUFFICES ASSUME NEW c \in Clients PROVE CallAt(c)' /\ TxAt(c)' /\ DraftAt(c)'
      OBVIOUS
    <3> QED BY <1>1, Bystander DEF vars, Inv
  <2> QED BY <2>1, <2>2 DEF Inv
<1>2. CASE Crash
  BY <1>2, CrashStep
<1>3. ASSUME NEW c \in Clients,
             \/ \E o \in Orders : AddOrderIfNotExists(c, o) \/ AddOrder(c, o)
             \/ \E owner \in Customers \cup {Anyone} :
                  GetAllOrders(c, owner) \/ \E uid \in Uids : GetOrder(c, uid, owner)
      PROVE  Inv'
  BY <1>3, InvokeStep
<1>4. ASSUME NEW c \in Clients, Step(c)
      PROVE  Inv'
  <2>1. CASE Commit(c)
    BY <2>1, EndStep DEF Commit
  <2>2. CASE Rollback(c)
    BY <2>2, EndStep DEF Rollback
  <2> QED BY <1>4, <2>1, <2>2, OrderExistsStep, BeginStep, InsertRowStep, QueryStep,
             QueryItemsStep, ListStep DEF Step
<1>5. ASSUME NEW c \in Clients, Return(c) \/ StatementError(c)
      PROVE  Inv'
  BY <1>5, ReturnStep, StatementErrorStep
<1>6. ASSUME NEW c \in Clients, CommitError(c)
      PROVE  Inv'
  BY <1>6, EndStep DEF CommitError
<1> QED BY <1>1, <1>2, <1>3, <1>4, <1>5, <1>6 DEF Next

-----------------------------------------------------------------------------
(* The mapping: an order is stored when the table orders has it.           *)

RowIn(inserts) ==
  IF inserts = {} THEN NoOrder ELSE (CHOOSE e \in inserts : TRUE).row

LEMMA SameRow ==
  ASSUME NEW o
  PROVE  Store!RowOf(o) = RowOf(o) /\ Store!Storable(o) = Storable(o)
BY DEF Store!RowOf, RowOf, Store!Storable, Storable

LEMMA SameRows ==
  ASSUME db' = db
  PROVE  rows' = rows
BY DEF rows, In

LEMMA RowsStored ==
  ASSUME Types, TablesAgree
  PROVE  /\ DOMAIN rows = Uids
         /\ \A uid \in Uids : In(db, "orders", uid) = {} => rows[uid] = NoOrder
         /\ \A e \in db : e.table = "orders" =>
              e.row.uid \in Uids /\ rows[e.row.uid] = e.row /\ e.row # NoOrder
         /\ \A uid \in Uids : rows[uid] # NoOrder =>
              \E e \in db : e.table = "orders" /\ e.row.uid = uid /\ rows[uid] = e.row
<1>1. \A uid \in Uids : In(db, "orders", uid) = {} => rows[uid] = NoOrder
  BY DEF rows
<1>2. ASSUME NEW e \in db, e.table = "orders"
      PROVE  e.row.uid \in Uids /\ rows[e.row.uid] = e.row /\ e.row # NoOrder
  <2>1. /\ In(db, "orders", e.row.uid) = {Ins("orders", e.row, 1)}
        /\ e.row \in Rows /\ e.row.uid \in Uids
    BY <1>2, StoredWhole DEF Tables
  <2>2. rows[e.row.uid] = (CHOOSE x \in {Ins("orders", e.row, 1)} : TRUE).row
    BY <2>1 DEF rows
  <2>3. (CHOOSE x \in {Ins("orders", e.row, 1)} : TRUE) = Ins("orders", e.row, 1)
    OBVIOUS
  <2> QED BY <2>1, <2>2, <2>3, InsParts, NoOrderIsNoRow
<1>3. ASSUME NEW uid \in Uids, rows[uid] # NoOrder
      PROVE  \E e \in db : e.table = "orders" /\ e.row.uid = uid /\ rows[uid] = e.row
  <2>1. PICK e \in db : e.table = "orders" /\ e.row.uid = uid
    BY <1>1, <1>3 DEF In
  <2> QED BY <1>2, <2>1
<1> QED BY <1>1, <1>2, <1>3 DEF rows

(* What the store's query finds is what the table orders holds of it.      *)
LEMMA FoundInDb ==
  ASSUME Types, TablesAgree, NEW target \in SUBSET Uids, NEW owner
  PROVE  Store!Found(target, owner) =
           {e.row : e \in {f \in db : /\ f.table = "orders" /\ f.row.uid \in target
                                      /\ Store!Visible(f.row, owner)}}
<1> DEFINE hits == {f \in db : /\ f.table = "orders" /\ f.row.uid \in target
                               /\ Store!Visible(f.row, owner)}
           uids == {u \in target \cap Store!Stored : Store!Visible(rows[u], owner)}
<1>1. Store!Found(target, owner) = {rows[uid] : uid \in uids}
  BY DEF Store!Found
<1>2. \A e \in hits : e.row.uid \in uids /\ rows[e.row.uid] = e.row
  BY RowsStored DEF Store!Stored
<1>3. ASSUME NEW uid \in uids
      PROVE  \E e \in hits : rows[uid] = e.row
  <2>1. uid \in Uids /\ rows[uid] # NoOrder /\ uid \in target /\ Store!Visible(rows[uid], owner)
    BY DEF Store!Stored
  <2>2. PICK e \in db : e.table = "orders" /\ e.row.uid = uid /\ rows[uid] = e.row
    BY <2>1, RowsStored
  <2> QED BY <2>1, <2>2
<1> HIDE DEF hits, uids
<1>4. {rows[uid] : uid \in uids} = {e.row : e \in hits}
  BY <1>2, <1>3
<1> QED BY <1>1, <1>4 DEF hits

(* A method that fails is a call that fails.                               *)
LEMMA FailMaps ==
  ASSUME Inv, NEW c \in Clients, pc[c] \notin {"idle", "done"},
         Answer(c, "failed"), db' = db
  PROVE  Store!Fail(c)
BY CallsBegun, SameRows DEF Answer, Store!Fail, Store!Finish

LEMMA SelectMaps ==
  ASSUME Inv, NEW c \in Clients, NEW target \in SUBSET Uids,
         NEW owner \in Customers \cup {Anyone},
         call[c] = Store!SelectCall(target, owner, "pending", {}),
         AnswerFound(c, Store!Found(target, owner)), db' = db
  PROVE  Store!Select(c)
<1>1. /\ call[c].op = "select" /\ call[c].target = target /\ call[c].owner = owner
      /\ call[c].status = "pending"
  BY PendingSelects
<1>2. call' = [call EXCEPT ![c].status = "ok", ![c].found = Store!Found(target, owner)]
  BY DEF AnswerFound
<1> QED BY <1>1, <1>2, SameRows DEF Store!Select, Store!Pending

LEMMA QueryMaps ==
  ASSUME Inv, NEW c \in Clients, Query(c)
  PROVE  Store!StoreNext \/ UNCHANGED Store!storeVars
<1> DEFINE hits == {e \in db : /\ e.table = "orders"
                               /\ e.row.uid \in call[c].target
                               /\ Store!Visible(e.row, call[c].owner)}
<1>1. pc[c] = "query" /\ db' = db
  BY DEF Query
<1>2. PICK uid \in Uids, owner \in Customers \cup {Anyone} :
        call[c] = Store!SelectCall({uid}, owner, "pending", {})
  BY <1>1 DEF Inv, CallAt
<1> DEFINE target == {uid}
<1>3. target \in SUBSET Uids /\ call[c] = Store!SelectCall(target, owner, "pending", {})
  BY <1>2
<1> HIDE DEF target
<1>4. call[c].target = target /\ call[c].owner = owner
  BY <1>3, PendingSelects
<1>5. CASE hits = {} /\ AnswerFound(c, {})
  <2>1. Store!Found(target, owner) = {e.row : e \in hits}
    <3> DEFINE seen == {f \in db : /\ f.table = "orders" /\ f.row.uid \in target
                                   /\ Store!Visible(f.row, owner)}
    <3>1. Types /\ TablesAgree
      BY DEF Inv
    <3>2. Store!Found(target, owner) = {e.row : e \in seen}
      BY <1>3, <3>1, FoundInDb
    <3>3. seen = hits
      BY <1>4
    <3> HIDE DEF seen, hits
    <3> QED BY <3>2, <3>3
  <2>2. Store!Found(target, owner) = {}
    BY <1>5, <2>1
  <2> QED BY <1>1, <1>3, <1>5, <2>2, SelectMaps DEF Store!StoreNext
<1>6. CASE Answer(c, "failed")
  BY <1>1, <1>6, FailMaps DEF Store!StoreNext
<1>7. CASE UNCHANGED call
  BY <1>1, <1>7, SameRows DEF Store!storeVars
<1> QED BY <1>5, <1>6, <1>7 DEF Query

LEMMA QueryItemsMaps ==
  ASSUME Inv, NEW c \in Clients, QueryItems(c)
  PROVE  Store!Select(c)
<1>1. /\ pc[c] = "items" /\ db' = db
      /\ AnswerFound(c, {[draft[c] EXCEPT !.items = Cardinality(In(db, "item", draft[c].uid))]})
  BY DEF QueryItems
<1>2. AnswerFound(c, {draft[c]})
  BY <1>1, ItemsFound
<1>3. PICK uid \in Uids, owner \in Customers \cup {Anyone} :
        call[c] = Store!SelectCall({uid}, owner, "pending", {})
  BY <1>1 DEF Inv, CallAt
<1> DEFINE target == {uid}
           hits == {f \in db : /\ f.table = "orders" /\ f.row.uid \in target
                               /\ Store!Visible(f.row, owner)}
<1>4. target \in SUBSET Uids /\ call[c] = Store!SelectCall(target, owner, "pending", {})
  BY <1>3
<1>5. hits = {Ins("orders", draft[c], 1)}
  <2> DEFINE e == Ins("orders", draft[c], 1)
  <2>1. e \in db /\ draft[c].uid \in call[c].target /\ Store!Visible(draft[c], call[c].owner)
    BY <1>1 DEF Inv, DraftAt
  <2>2. draft[c].uid = uid /\ Store!Visible(draft[c], owner)
    <3> HIDE DEF target
    <3>1. call[c].target = target /\ call[c].owner = owner
      BY <1>4, PendingSelects
    <3> QED BY <2>1, <3>1 DEF target
  <2>3. e.table = "orders" /\ e.row = draft[c]
    BY InsParts
  <2>4. In(db, "orders", uid) = {e}
    BY <1>1, <2>2, ItemsFound
  <2> HIDE DEF e
  <2> QED BY <2>1, <2>2, <2>3, <2>4 DEF In, e
<1> HIDE DEF target
<1>6. Store!Found(target, owner) = {e.row : e \in hits}
  BY <1>4, FoundInDb DEF Inv
<1>7. Store!Found(target, owner) = {draft[c]}
  BY <1>5, <1>6, InsParts
<1> QED BY <1>1, <1>2, <1>4, <1>7, SelectMaps

LEMMA ListMaps ==
  ASSUME Inv, NEW c \in Clients, List(c)
  PROVE  Store!Select(c)
<1> DEFINE found == {e.row : e \in {f \in db : /\ f.table = "orders"
                                               /\ Store!Visible(f.row, call[c].owner)}}
<1>1. pc[c] = "list" /\ db' = db /\ AnswerFound(c, found)
  BY DEF List
<1>2. PICK owner \in Customers \cup {Anyone} :
        call[c] = Store!SelectCall(Uids, owner, "pending", {})
  BY <1>1 DEF Inv, CallAt
<1>3. Uids \in SUBSET Uids /\ call[c].owner = owner
  BY <1>2, PendingSelects
<1>4. Store!Found(Uids, owner) = found
  <2>1. {f \in db : f.table = "orders" /\ f.row.uid \in Uids /\ Store!Visible(f.row, owner)}
          = {f \in db : f.table = "orders" /\ Store!Visible(f.row, owner)}
    BY RowsStored DEF Inv
  <2> QED BY <1>3, <2>1, FoundInDb DEF Inv
<1> QED BY <1>1, <1>2, <1>3, <1>4, SelectMaps

(* The database takes a transaction: the order is there, all at once.      *)
LEMMA CommitMaps ==
  ASSUME Inv, NEW c \in Clients, pc[c] = "commit", NEW status \in {"ok", "failed"},
         db' = db \cup tx[c], Inv', Answer(c, status)
  PROVE  Store!Commit(c, status)
<1>1. PICK o \in Orders :
         /\ call[c] = Store!AddCall(o, "pending") /\ call[c].order = o
         /\ Storable(o) /\ tx[c] = Whole(RowOf(o))
         /\ \A table \in Tables : In(db, table, o.uid) = {}
  BY ReadyToCommit
<1>2. /\ In(db', "orders", o.uid) = {Ins("orders", RowOf(o), 1)}
      /\ \A table, uid : uid # o.uid => In(db', table, uid) = In(db, table, uid)
  BY <1>1, Committed
<1>3. o.uid \in Uids /\ RowOf(o).uid = o.uid /\ rows[o.uid] = NoOrder
  BY <1>1, OrderRow, RowsStored DEF Inv, Tables
<1>4. rows'[o.uid] = RowOf(o)
  <2> DEFINE e == Ins("orders", RowOf(o), 1)
  <2>1. rows'[o.uid] = (CHOOSE x \in {e} : TRUE).row
    BY <1>2, <1>3 DEF rows
  <2>2. (CHOOSE x \in {e} : TRUE) = e
    OBVIOUS
  <2> QED BY <2>1, <2>2, InsParts
<1>5. rows' = [rows EXCEPT ![o.uid] = RowOf(o)]
  <2>1. ASSUME NEW uid \in Uids \ {o.uid}
        PROVE  rows'[uid] = rows[uid]
    <3>1. In(db', "orders", uid) = In(db, "orders", uid)
      BY <1>2, Zenon
    <3>2. rows[uid] = RowIn(In(db, "orders", uid)) /\ rows'[uid] = RowIn(In(db', "orders", uid))
      BY DEF rows, RowIn
    <3> QED BY <3>1, <3>2
  <2>2. DOMAIN rows = Uids /\ rows = [uid \in Uids |-> rows[uid]]
        /\ rows' = [uid \in Uids |-> rows'[uid]]
    BY DEF rows
  <2> HIDE DEF rows
  <2>3. \A uid \in Uids : rows'[uid] = [rows EXCEPT ![o.uid] = RowOf(o)][uid]
    BY <1>3, <1>4, <2>1, <2>2
  <2> QED BY <2>2, <2>3
<1>6. Store!Pending(c, "add") /\ Store!Insertable(call[c].order)
  BY <1>1, <1>3, AddCalls, SameRow DEF Store!Pending, Store!Insertable
<1> QED BY <1>1, <1>5, <1>6, SameRow DEF Store!Commit, Store!Finish, Answer

LEMMA StepMaps ==
  ASSUME Inv, Inv', NEW c \in Clients,
         Step(c) \/ Return(c) \/ CommitError(c) \/ StatementError(c)
  PROVE  Store!StoreNext \/ UNCHANGED Store!storeVars
<1> USE DEF Store!StoreNext
<1>1. CASE OrderExists(c)
  <2>1. pc[c] = "exists" /\ db' = db
    BY <1>1 DEF OrderExists
  <2> QED BY <1>1, <2>1, FailMaps, SameRows DEF OrderExists, Store!storeVars
<1>2. CASE Begin(c) \/ InsertRow(c)
  BY <1>2, SameRows DEF Begin, InsertRow, Store!storeVars
<1>3. CASE Commit(c)
  BY <1>3, CommitMaps DEF Commit, Store!Insert
<1>4. CASE CommitError(c)
  <2>1. pc[c] = "commit" /\ Answer(c, "failed") /\ db' \in {db, db \cup tx[c]}
    BY <1>4 DEF CommitError
  <2>2. CASE db' = db
    BY <2>1, <2>2, FailMaps
  <2>3. CASE db' = db \cup tx[c]
    BY <2>1, <2>3, CommitMaps DEF Store!InsertUnreported
  <2> QED BY <2>1, <2>2, <2>3
<1>5. CASE Rollback(c)
  <2>1. pc[c] = "rollback" /\ Answer(c, "failed") /\ db' = db
    BY <1>5 DEF Rollback
  <2> QED BY <2>1, FailMaps
<1>6. CASE Query(c)
  BY <1>6, QueryMaps
<1>7. CASE QueryItems(c) \/ List(c)
  BY <1>7, QueryItemsMaps, ListMaps
<1>8. CASE Return(c)
  <2>1. /\ pc[c] = "done" /\ db' = db /\ call' = [call EXCEPT ![c] = Store!Idle]
        /\ call[c] # Store!Idle /\ call[c].status # "pending"
    BY <1>8 DEF Return, Inv, CallAt
  <2> QED BY <2>1, SameRows DEF Store!Return
<1>9. CASE StatementError(c)
  <2>1. db' = db
    BY <1>9 DEF StatementError
  <2>2. CASE pc[c] \in {"exists", "begin", "query", "items", "list"} /\ Answer(c, "failed")
    BY <2>1, <2>2, FailMaps
  <2>3. CASE UNCHANGED call
    BY <2>1, <2>3, SameRows DEF Store!storeVars
  <2> QED BY <1>9, <2>2, <2>3 DEF StatementError
<1> QED BY <1>1, <1>2, <1>3, <1>4, <1>5, <1>6, <1>7, <1>8, <1>9 DEF Step

LEMMA InvokeMaps ==
  ASSUME Inv, NEW c \in Clients,
         \/ \E o \in Orders : AddOrderIfNotExists(c, o) \/ AddOrder(c, o)
         \/ \E owner \in Customers \cup {Anyone} :
              GetAllOrders(c, owner) \/ \E uid \in Uids : GetOrder(c, uid, owner)
  PROVE  Store!StoreNext
<1>1. pc[c] = "idle" => call[c] = Store!Idle
  BY DEF Inv, CallAt
<1>2. ASSUME NEW o \in Orders, AddOrderIfNotExists(c, o) \/ AddOrder(c, o)
      PROVE  Store!InvokeAdd(c, o)
  BY <1>1, <1>2, SameRows DEF AddOrderIfNotExists, AddOrder, Invoke, Store!InvokeAdd
<1>3. ASSUME NEW owner \in Customers \cup {Anyone}, GetAllOrders(c, owner)
      PROVE  Store!InvokeSelect(c, Uids, owner)
  BY <1>1, <1>3, SameRows DEF GetAllOrders, Invoke, Store!InvokeSelect
<1>4. ASSUME NEW owner \in Customers \cup {Anyone}, NEW uid \in Uids, GetOrder(c, uid, owner)
      PROVE  Store!InvokeSelect(c, {uid}, owner)
  BY <1>1, <1>4, SameRows DEF GetOrder, Invoke, Store!InvokeSelect
<1>5. Uids \in SUBSET Uids /\ \A uid \in Uids : {uid} \in SUBSET Uids
  OBVIOUS
<1> QED BY <1>2, <1>3, <1>4, <1>5 DEF Store!StoreNext

LEMMA InitMaps == Init => Store!StoreInit
<1> SUFFICES ASSUME Init PROVE Store!StoreInit
  OBVIOUS
<1>1. db = {} /\ call = [c \in Clients |-> Store!Idle]
  BY DEF Init
<1>2. rows = [uid \in Uids |-> NoOrder]
  BY <1>1 DEF rows, In
<1> QED BY <1>1, <1>2 DEF Store!StoreInit

LEMMA NextMaps == Inv /\ Inv' /\ [Next]_vars => [Store!StoreNext]_(Store!storeVars)
<1> SUFFICES ASSUME Inv, Inv', [Next]_vars
             PROVE  Store!StoreNext \/ UNCHANGED Store!storeVars
  OBVIOUS
<1>1. CASE UNCHANGED vars
  BY <1>1, SameRows DEF vars, Store!storeVars
<1>2. CASE Crash
  BY <1>2, SameRows DEF Crash, Store!StoreNext, Store!Abandon
<1> QED BY <1>1, <1>2, StepMaps, InvokeMaps DEF Next

-----------------------------------------------------------------------------
(* The theorems.                                                           *)

(* The invariant holds of every state the repository can reach.            *)
THEOREM Invariance == Spec => []Inv
BY InvInit, InvNext, PTL DEF Spec

(* Every variable keeps its type, whatever statements fail.                *)
THEOREM TypeCorrect == Spec => []TypeOK
<1>1. Inv => TypeOK
  BY DEF Inv, Types, TypeOK, Labels, Adding, InTx
<1> QED BY <1>1, Invariance, PTL

(* An order is in all four tables, whole, or in none.                      *)
THEOREM OrdersWhole == Spec => []TablesAgree
<1>1. Inv => TablesAgree
  BY DEF Inv
<1> QED BY <1>1, Invariance, PTL

(* A step that changes the tables is a commit, of an order whose uid no    *)
(* table has.                                                              *)
LEMMA CommitsAdd ==
  ASSUME Inv, [Next]_vars, NEW uid \in Uids, In(db, "orders", uid) # {},
         NEW table \in Tables
  PROVE  In(db', table, uid) = In(db, table, uid)
<1>1. CASE db' = db
  BY <1>1
<1>2. ASSUME NEW c \in Clients, pc[c] = "commit", db' = db \cup tx[c]
      PROVE  In(db', table, uid) = In(db, table, uid)
  <2>1. PICK o \in Orders :
          tx[c] = Whole(RowOf(o)) /\ \A t \in Tables : In(db, t, o.uid) = {}
    BY <1>2, ReadyToCommit
  <2>2. uid # o.uid
    BY <2>1 DEF Tables
  <2>3. db' = db \cup Whole(RowOf(o))
    BY <1>2, <2>1
  <2>4. \A t, u : u # o.uid => In(db', t, u) = In(db, t, u)
    BY <2>1, <2>3, Committed, Zenon
  <2> QED BY <2>2, <2>4
<1>3. db' = db \/ \E c \in Clients : pc[c] = "commit" /\ db' = db \cup tx[c]
  <2>1. CASE UNCHANGED vars \/ Crash
    BY <2>1 DEF vars, Crash
  <2>2. ASSUME NEW c \in Clients,
               \/ \E o \in Orders : AddOrderIfNotExists(c, o) \/ AddOrder(c, o)
               \/ \E owner \in Customers \cup {Anyone} :
                    GetAllOrders(c, owner) \/ \E u \in Uids : GetOrder(c, u, owner)
               \/ Return(c) \/ StatementError(c)
        PROVE  db' = db
    BY <2>2 DEF AddOrderIfNotExists, AddOrder, GetAllOrders, GetOrder, Invoke, Return,
                StatementError
  <2>3. ASSUME NEW c \in Clients, Step(c) \/ CommitError(c)
        PROVE  db' = db \/ (pc[c] = "commit" /\ db' = db \cup tx[c])
    BY <2>3 DEF Step, OrderExists, Begin, InsertRow, Commit, CommitError, Rollback, Query,
                QueryItems, List
  <2> QED BY <2>1, <2>2, <2>3 DEF Next
<1> QED BY <1>1, <1>2, <1>3

(* No step adds to, changes or removes an order that is committed, whoever *)
(* races with whom for its uid.                                            *)
THEOREM OrdersStay == Spec => OrdersKept
<1>1. Inv /\ [Next]_vars =>
        [\A uid \in Uids : In(db, "orders", uid) # {} =>
           \A table \in Tables : In(db', table, uid) = In(db, table, uid)]_vars
  BY CommitsAdd
<1> QED BY <1>1, Invariance, PTL DEF Spec, OrdersKept

(* No way out of a method keeps a connection of the pool.                  *)
THEOREM ConnectionsReturned == Spec => []ConnectionsAccounted
<1>1. Inv => ConnectionsAccounted
  BY DEF Inv
<1> QED BY <1>1, Invariance, PTL

(* The methods, statement by statement, interleaved and cut short by       *)
(* errors and crashes, are atomic calls of the store OrderStore promises.  *)
THEOREM Refinement == Spec => ImplementsOrderStore
BY InvInit, InvNext, InitMaps, NextMaps, PTL DEF Spec, ImplementsOrderStore, Store!StoreSpec

-----------------------------------------------------------------------------
(* No deadlock.  A call waits for a connection, or for the end of another  *)
(* transaction that has staged its key.                                    *)

Waits(c) ==
  \/ pc[c] \in {"exists", "begin", "query", "items", "list"} /\ ~ConnectionFree
  \/ MustWait(c)

(* Whenever a call waits there is a transaction that does not: calls never *)
(* all wait for one another, however small the pool.  A transaction asks   *)
(* for no second connection, and it holds no key yet when it waits for one.*)
SomebodyRuns ==
  (\E c \in Clients : Waits(c)) => \E d \in Clients : pc[d] \in InTx /\ ~Waits(d)

(* A transaction that waits for its key has staged nothing.                *)
LEMMA WaitersHoldNoKey ==
  ASSUME Inv, NEW c \in Clients, pc[c] = "orders"
  PROVE  tx[c] = {}
<1>1. PICK o \in Orders, n \in Nat : Sent(c, o, n)
  BY DEF Inv, TxAt, Tables
<1>2. n = 0 /\ tx[c] = Heads(RowOf(o), {}) \cup Items(RowOf(o), 0)
  BY <1>1 DEF Sent, Through
<1>3. Heads(RowOf(o), {}) = {} /\ Items(RowOf(o), 0) = {}
  BY DEF Heads, Items
<1> QED BY <1>2, <1>3

LEMMA Runner ==
  ASSUME Inv, NEW d \in Clients, pc[d] \in InTx
  PROVE  \E e \in Clients : pc[e] \in InTx /\ ~Waits(e)
<1>1. \A e \in Clients : pc[e] \in InTx => (Waits(e) <=> MustWait(e))
  BY DEF Waits, InTx, Tables
<1>2. CASE ~MustWait(d)
  BY <1>1, <1>2
<1>3. CASE MustWait(d)
  <2>1. PICK e \in Clients : tx[e] # {}
    BY <1>3 DEF MustWait, In
  <2>2. pc[e] \in InTx /\ pc[e] # "orders"
    BY <2>1, WaitersHoldNoKey DEF Inv, TxAt
  <2> QED BY <1>1, <2>2 DEF MustWait
<1> QED BY <1>2, <1>3

LEMMA WaitersWaitForSome == Inv => SomebodyRuns
<1> SUFFICES ASSUME Inv, NEW c \in Clients, Waits(c)
             PROVE  \E d \in Clients : pc[d] \in InTx
  BY Runner DEF SomebodyRuns
<1>1. CASE ~ConnectionFree
  <2>1. held # {}
    BY <1>1, FS_EmptySet, PoolAssumption DEF ConnectionFree
  <2> QED BY <2>1 DEF Inv, ConnectionsAccounted, InTx
<1>2. CASE MustWait(c)
  BY <1>2 DEF MustWait, InTx, Tables
<1> QED BY <1>1, <1>2 DEF Waits

(* No deadlock over connections and keys, for any pool and any callers.    *)
THEOREM NoDeadlock == Spec => []SomebodyRuns
BY Invariance, WaitersWaitForSome, PTL
=============================================================================
