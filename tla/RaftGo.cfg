\* A leader and a follower, two operations, the Go server of the follower: with
\* two calls to it in flight, they overtake one another.
SPECIFICATION ClusterSpec
CONSTANTS
  Node = {1, 2}
  Peers <- TwoPeers
  Op = {op}
  NoOne = NoOne
  Candidates = {1}
  Contacts = {1}
  MaxTerm = 1
  MaxTasks = 2
  MaxLog = 2
  MaxInFlight = 2
  MaxLate = 1
  Paired = {2}
  MaxGoCalls = 2
INVARIANTS
  ClusterTypeOK
  GoPanicsOnlyWhenShortFed
  GoCommitIsLogged
  GoLogFollowsNode
CHECK_DEADLOCK FALSE
