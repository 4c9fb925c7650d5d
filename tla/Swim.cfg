\* Two detectors, a third node that may stop, a call that may be lost, and a
\* stream that is set up late.
SPECIFICATION Spec
CONSTANTS
  Founder = {1, 2, 3}
  Joiner = {}
  Bootstrap = 1
  K = 3
  NoOne = NoOne
  Detectors = {1, 2}
  Stoppable = {3}
  Late = {1}
  MaxLosses = 1
INVARIANTS
  TypeOK
  KeepsItself
  DetectorKnowsMembers
  OneFaultTolerated
CHECK_DEADLOCK FALSE
