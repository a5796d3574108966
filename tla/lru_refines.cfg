CONSTANTS
  n1 = n1
  n2 = n2
  n3 = n3
  n4 = n4
  Nodes = {n1, n2, n3, n4}
  head = head
  tail = tail
  Nil = Nil
  NoOrder = NoOrder
  NsPerMicro = 2
  Capacity = 3
  MaxDrift = 0
  Deletable = {}
  Uids <- MCUids
  Customers <- MCCustomers
  Orders <- MCOrders
SPECIFICATION Spec
SYMMETRY Symmetry
INVARIANTS TypeOK ListIsSound WithinCapacity GaugeIsSize
PROPERTY ImplementsLRU
