CONSTANTS
  n1 = n1
  n2 = n2
  n3 = n3
  n4 = n4
  Nodes = {n1, n2, n3, n4}
  head = head
  tail = tail
  Nil = Nil
  NoOrder = NoOrder
  NsPerMicro = 2
  Capacity = 2
  MaxDrift = 2
  Deletable <- MCDeletable
  Uids <- MCUids
  Customers <- MCCustomers
  Orders <- MCOrders
SPECIFICATION DeletingSpec
SYMMETRY Symmetry
INVARIANT WithinCapacity
\* the nodes, a bound of the model, may run out
CHECK_DEADLOCK FALSE
