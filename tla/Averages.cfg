\* Two Go clients share one worker of the Python server; a Python client
\* calls the Go server, whose integers have four bits.
SPECIFICATION FairSpec
CONSTANTS
  GoClient = {1, 2}
  PyClient = {3}
  NoReply = NoReply
  Inputs <- UsersInputs
  Calls <- UsersCalls
  MaxNumbers <- UsersNumbers
  MaxBreaks = 1
  Workers = 1
  Half = 8
INVARIANTS
  TypeOK
  AnswersAreMeans
PROPERTIES
  CallsEnd
CHECK_DEADLOCK FALSE
