\* Two candidates vote for each other.
SPECIFICATION Spec
CONSTANTS
  Node = {1, 2, 3}
  Peers <- ThreePeers
  Op = {op}
  NoOne = NoOne
  Candidates = {1, 2}
  Contacts = {1}
  MaxTerm = 1
  MaxTasks = 0
  MaxLog = 0
  MaxInFlight = 0
  MaxLate = 8
INVARIANT OneLeaderPerTerm
CHECK_DEADLOCK FALSE
