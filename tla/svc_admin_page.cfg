CONSTANTS
  Consumer = Consumer
  Requests = {r1}
  Clients = {Consumer, r1}
  Anyone = Anyone
  NoOrder = NoOrder
  Bad = Bad
  NsPerMicro = 2
  Uids <- MCUids
  Customers <- MCCustomers
  Admins <- MCAdmins
  Orders <- MCRequested
  Capacity = 1
  MaxTopic = 2
  MaxFaults = 0
  MaxExits = 0
  ReadTimeouts = FALSE
SPECIFICATION Spec
INVARIANT AdminSeesAllOrders
CHECK_DEADLOCK FALSE
