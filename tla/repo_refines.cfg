CONSTANTS
  Clients = {c1, c2, c3}
  Anyone = Anyone
  NoOrder = NoOrder
  NsPerMicro = 2
  PoolSize = 2
  Uids <- MCOneUid
  Customers <- MCCustomers
  Orders <- MCContended
SPECIFICATION FairSpec
INVARIANTS TypeOK TablesAgree ConnectionsAccounted
PROPERTIES OrdersKept ImplementsOrderStore CallsReturn
