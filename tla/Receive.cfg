CONSTANTS
  BufferLength = 150
  IdRange = 3
  NULL = NULL
  Packets <- MCPackets
  MaxPackets = 3
  MaxCuts = 1
  Command <- MCCommand
  Status <- MCStatus
  Subscriptions <- MCSubscriptions
  Version <- MCVersion
SPECIFICATION Spec
INVARIANTS TypeOK DeliversReached AnswersReached NeverMixes
PROPERTIES PassesShorten
CHECK_DEADLOCK FALSE
