CONSTANTS
  Consumer = Consumer
  Requests = {}
  Clients = {Consumer}
  Anyone = Anyone
  NoOrder = NoOrder
  Bad = Bad
  NsPerMicro = 2
  Uids <- MCUids
  Customers <- MCCustomers
  Admins <- MCAdmins
  Orders <- MCRivals
  Capacity = 1
  MaxTopic = 3
  MaxFaults = 1
  MaxExits = 1
  ReadTimeouts = TRUE
SPECIFICATION FairSpec
INVARIANTS ProcessedOnce FirstMessageWins
CHECK_DEADLOCK FALSE
PROPERTY StoredOrGivenUp
