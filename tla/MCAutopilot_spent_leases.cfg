\* Nothing fails and nobody interferes; three delegated tickets, two claims.
CONSTANTS
  Tickets = {"t1", "t2", "t3"}
  Risk <- MCRisk
  Predelegated <- MCPredelegatedAll
  Dependencies <- MCDependencies
  AutoStart <- MCAutoStart
  AutoMerge <- MCAutoStart
  CriticalDefault = "halt"
  SecurityLanes = TRUE
  Profile = "FREE_PRIVATE_COMPENSATING"
  Controllers = {c}
  Operators = {}
  Order <- MCOrder
  RollbackIds <- MCNoRollbackIds
  Cap = 2
  MaxPolicy = 0
  MaxPulls = 1
  MaxFaults = 0
SPECIFICATION FairSpec
PROPERTY EveryTicketIsDelivered
