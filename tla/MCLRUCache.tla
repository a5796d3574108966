----------------------------- MODULE MCLRUCache -----------------------------
(* Instances of LRUCache.  Two of the orders have a date that the database *)
(* cuts, so that they come in two forms, the message's and the row's.      *)
EXTENDS LRUCache, TLC

CONSTANTS n1, n2, n3, n4  \* the nodes

Order(uid, customer, date) ==
  [uid |-> uid, customer |-> customer, date |-> date, items |-> 1,
   refusedBy |-> "none"]

MCUids      == {"u1", "u2", "u3", "u4"}
MCCustomers == {"alice"}

MCOrders == {Order("u1", "alice", 2), Order("u2", "alice", 3),
             Order("u3", "alice", 4), Order("u4", "alice", 5)}

MCDeletable == {"u1", "u2"}

Symmetry == Permutations(Nodes)
=============================================================================
