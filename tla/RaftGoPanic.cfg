\* A follower's Go server runs past its log.
SPECIFICATION ClusterSpec
CONSTANTS
  Node = {1, 2, 3}
  Peers <- ThreePeers
  Op = {op}
  NoOne = NoOne
  Candidates = {1}
  Contacts = {1}
  MaxTerm = 1
  MaxTasks = 2
  MaxLog = 2
  MaxInFlight = 1
  MaxLate = 0
  Paired = {2}
  MaxGoCalls = 2
INVARIANT GoKeepsRunning
CHECK_DEADLOCK FALSE
