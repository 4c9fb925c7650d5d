\* Two detectors that help each other, a node that starts late, one that
\* stops and may come back, one lost call.
SPECIFICATION FairSpec
CONSTANTS
  MembershipList <- FourNodes
  K = 3
  NoOne = NoOne
  Late = {4}
  Detectors = {1, 2}
  Stoppable = {4}
  MaxLosses = 1
  MaxStops = 1
INVARIANTS
  TypeOK
  OneLossTolerated
PROPERTIES
  StoppedIsForgotten
CHECK_DEADLOCK FALSE
