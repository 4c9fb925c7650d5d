\* Two candidates become leaders and call each other.
SPECIFICATION FairSpec
CONSTANTS
  Node = {1, 2, 3}
  Peers <- ThreePeers
  NoOne = NoOne
  Candidates = {1, 2}
  Stoppable = {}
  Thread = {1}
  MaxTerm = 1
  MaxStops = 0
PROPERTY HeartbeatsGoOn
CHECK_DEADLOCK FALSE
