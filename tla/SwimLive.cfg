\* A detector and one that joined later, two nodes that may stop.
SPECIFICATION FairSpec
CONSTANTS
  Founder = {1, 2, 3}
  Joiner = {4}
  Bootstrap = 1
  K = 3
  NoOne = NoOne
  Detectors = {1, 4}
  Stoppable = {2, 3}
  Late = {}
  MaxLosses = 0
PROPERTY StoppedIsForgotten
CHECK_DEADLOCK FALSE
