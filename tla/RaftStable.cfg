\* One candidate, one term; the client makes three calls, to both nodes.
SPECIFICATION FairClientSpec
CONSTANTS
  Node = {1, 2}
  Peers <- TwoPeers
  Op <- Calls
  NoOne = NoOne
  Candidates = {1}
  Contacts = {1, 2}
  MaxTerm = 1
  MaxTasks = 2
  MaxLog = 2
  MaxInFlight = 1
  MaxLate = 1
  Endpoints <- BothNodes
  MaxCalls = 3
INVARIANTS
  OnlyHeadMisplaced
  FollowerLogShape
  CommitIndexReported
  MovedOnIsLogged
  OperationsInOrder
PROPERTIES
  LogNeverShrinks
  LogsConverge
CHECK_DEADLOCK FALSE
