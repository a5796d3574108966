CONSTANTS
  Consumer = Consumer
  Requests = {r1}
  Clients = {Consumer, r1}
  Anyone = Anyone
  NoOrder = NoOrder
  Bad = Bad
  NsPerMicro = 2
  Uids <- MCUids
  Customers <- MCCustomers
  Admins <- MCAdmins
  Orders <- MCReplaced
  Capacity = 1
  MaxTopic = 2
  MaxFaults = 1
  MaxExits = 1
  ReadTimeouts = TRUE
SPECIFICATION Spec
CHECK_DEADLOCK FALSE
INVARIANTS TypeOK CacheMatchesRows AnswerSound AnswerComplete
