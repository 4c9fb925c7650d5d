\* Two candidates, two terms, two calls of the client.
SPECIFICATION ClientSpec
CONSTANTS
  Node = {1, 2, 3}
  Peers <- ThreePeers
  Op <- Calls
  NoOne = NoOne
  Candidates = {1, 2}
  Contacts = {1, 2, 3}
  MaxTerm = 2
  MaxTasks = 1
  MaxLog = 2
  MaxInFlight = 0
  MaxLate = 0
  Endpoints <- TheFirst
  MaxCalls = 2
INVARIANTS
  TypeOK
  OneGrantPerTerm
  RivalWinnersVoted
  StaleLeaderCannotCommit
  HeartbeatThreadsBounded
  LogTermsOrdered
PROPERTIES
  TermNeverFalls
\* The bounds stop the system.
CHECK_DEADLOCK FALSE
