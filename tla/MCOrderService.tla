--------------------------- MODULE MCOrderService ---------------------------
(* Instances of OrderService: two orders that compete for one uid, of      *)
(* different customers, one more order whose date the database cuts, one   *)
(* the schema refuses, and an administrator who is nobody's customer.      *)
EXTENDS OrderService, TLC

Order(uid, customer, date, items, refusedBy) ==
  [uid |-> uid, customer |-> customer, date |-> date, items |-> items,
   refusedBy |-> refusedBy]

o1  == Order("u1", "alice", 2, 1, "none")
o1b == Order("u1", "bob", 4, 2, "none")
o2  == Order("u2", "bob", 7, 1, "none")
o3  == Order("u2", "alice", 8, 1, "delivery")

MCUids      == {"u1", "u2"}
MCCustomers == {"alice", "bob", "admin"}
MCAdmins    == {"admin"}

MCRivals    == {o1, o1b, o2, o3}
MCReplaced  == {o1, o1b, o2}
MCRequested == {o1, o2}

Symmetry == Permutations(Requests)
=============================================================================
