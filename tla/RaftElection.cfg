\* Two candidates, two terms; one of them may stop and start again.
SPECIFICATION FairSpec
CONSTANTS
  Node = {1, 2, 3}
  Peers <- ThreePeers
  NoOne = NoOne
  Candidates = {1, 2}
  Stoppable = {1}
  Thread = {1}
  MaxTerm = 2
  MaxStops = 1
INVARIANTS
  TypeOK
PROPERTIES
  TermNeverFalls
  ElectedInItsTerm
  RoundsEnd
  ElectionsEnd
CHECK_DEADLOCK FALSE
