----------------------------- MODULE OrderStore -----------------------------
(***************************************************************************)
(* What internal/repository promises its callers about orders: an order is *)
(* stored whole or not at all, once per uid, and never changes afterwards; *)
(* a query returns rows that were stored while it ran.  A failed call says *)
(* nothing of what the database kept.                                      *)
(***************************************************************************)
EXTENDS OrderData

CONSTANTS
  Clients,   \* the goroutines that may be inside a Repository method
  Anyone     \* the owner of a query that does not filter by customer_id

VARIABLES
  rows,      \* uid -> the stored order, or NoOrder
  call       \* client -> its call, with its outcome once there is one

storeVars == <<rows, call>>

Idle == [op |-> "idle"]

AddCall(o, status) == [op |-> "add", order |-> o, status |-> status]

SelectCall(target, owner, status, found) ==
  [op |-> "select", target |-> target, owner |-> owner,
   status |-> status, found |-> found]

Calls ==
  {Idle}
    \cup [op : {"add"}, order : Orders, status : {"pending", "ok", "failed"}]
    \cup [op : {"select"}, target : SUBSET Uids, owner : Customers \cup {Anyone},
          status : {"pending", "ok", "failed"}, found : SUBSET Rows]

(* WHERE customer_id = $1, or no such clause.                              *)
Visible(row, owner) == owner = Anyone \/ row.customer = owner

Stored == {uid \in Uids : rows[uid] # NoOrder}

Found(target, owner) ==
  {rows[uid] : uid \in {u \in target \cap Stored : Visible(rows[u], owner)}}

StoreInit ==
  /\ rows = [uid \in Uids |-> NoOrder]
  /\ call = [c \in Clients |-> Idle]

(* The caller's side.                                                      *)
InvokeAdd(c, o) ==
  /\ call[c] = Idle
  /\ call' = [call EXCEPT ![c] = AddCall(o, "pending")]
  /\ UNCHANGED rows

InvokeSelect(c, target, owner) ==
  /\ call[c] = Idle
  /\ call' = [call EXCEPT ![c] = SelectCall(target, owner, "pending", {})]
  /\ UNCHANGED rows

Return(c) ==
  /\ call[c] # Idle
  /\ call[c].status # "pending"
  /\ call' = [call EXCEPT ![c] = Idle]
  /\ UNCHANGED rows

(* The store's side.                                                       *)
Pending(c, op) == call[c].op = op /\ call[c].status = "pending"

Finish(c, status) == call' = [call EXCEPT ![c].status = status]

(* Mutant: a second insert of the uid overwrites the first.                *)
Upsertable(o) == Storable(o)

Insertable(o) == rows[o.uid] = NoOrder /\ Storable(o)

Commit(c, status) ==
  /\ Pending(c, "add")
  /\ Insertable(call[c].order)
  /\ rows' = [rows EXCEPT ![call[c].order.uid] = RowOf(call[c].order)]
  /\ Finish(c, status)

Insert(c) == Commit(c, "ok")

(* The commit took place and its reply was lost.                           *)
InsertUnreported(c) == Commit(c, "failed")

(* The uid is taken, or a column cannot hold the order.                    *)
Refuse(c) ==
  /\ Pending(c, "add")
  /\ ~Insertable(call[c].order)
  /\ Finish(c, "failed")
  /\ UNCHANGED rows

Select(c) ==
  /\ Pending(c, "select")
  /\ call' = [call EXCEPT ![c].status = "ok",
                          ![c].found = Found(call[c].target, call[c].owner)]
  /\ UNCHANGED rows

(* The database could not be reached, or the context ended.                *)
Fail(c) ==
  /\ call[c] # Idle
  /\ call[c].status = "pending"
  /\ Finish(c, "failed")
  /\ UNCHANGED rows

(* The program that made the calls is gone, and its calls with it.         *)
Abandon ==
  /\ call' = [c \in Clients |-> Idle]
  /\ UNCHANGED rows

StoreNext ==
  \/ Abandon
  \/ \E c \in Clients :
       \/ \E o \in Orders : InvokeAdd(c, o)
       \/ \E target \in SUBSET Uids, owner \in Customers \cup {Anyone} :
            InvokeSelect(c, target, owner)
       \/ Insert(c) \/ InsertUnreported(c) \/ Refuse(c)
       \/ Select(c) \/ Fail(c) \/ Return(c)

StoreSpec == StoreInit /\ [][StoreNext]_storeVars
=============================================================================
