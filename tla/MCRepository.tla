---------------------------- MODULE MCRepository ----------------------------
(* An instance of Repository: orders that compete for one uid, of two      *)
(* owners and lengths, one of which the schema refuses half way.  Of three *)
(* clients on two connections one waits for another's row, and the third   *)
(* for a connection.                                                       *)
EXTENDS Repository

Order(uid, customer, date, items, refusedBy) ==
  [uid |-> uid, customer |-> customer, date |-> date, items |-> items,
   refusedBy |-> refusedBy]

MCOneUid    == {"u1"}
MCCustomers == {"alice", "bob"}
MCContended == {Order("u1", "alice", 1, 1, "none"), Order("u1", "bob", 2, 2, "none"),
                Order("u1", "bob", 2, 1, "payment")}
=============================================================================
