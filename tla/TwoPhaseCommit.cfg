\* Five participants: p1 and p4 always commit, p2, p3 and p4 may fail.
SPECIFICATION FairSpec
CONSTANTS
  p1 = p1
  p2 = p2
  p3 = p3
  p4 = p4
  p5 = p5
  Participant = {p1, p2, p3, p4, p5}
  Addresses <- InOrder
  Forced = {p1, p4}
  Unreliable = {p2, p3, p4}
INVARIANTS
  TypeOK
  OwnVoteRespected
PROPERTIES
  KeepsPromise
  KeepsVotingPhase
  ReliableAreTold
CHECK_DEADLOCK FALSE
