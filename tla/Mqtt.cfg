CONSTANTS
  Hosts = {"ip", "domain"}
  KeepAliveHalf = 2
  SendTimout = 1
  ReconnectTimeout = 1
  Subscriptions = 2
  Answers = 2
  QueueRoom = 2
  DnsTable = 2
  Budget <- SafetyBudget
SPECIFICATION FairSpec
INVARIANTS
  OnlineHasSession
  NeverStranded
  AnswerFindsConnection
  NoStall
PROPERTIES
  SendsTaken
  EventuallyServing
