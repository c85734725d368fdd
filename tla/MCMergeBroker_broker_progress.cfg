\* Progress in the private profile, facts from a controller.
CONSTANTS
  Tickets = {"t1", "t2"}
  Risk <- MCRisk
  Predelegated <- MCPredelegated
  Dependencies <- MCDependencies
  AutoStart <- MCAutoStart
  AutoMerge <- MCAutoMerge
  CriticalDefault = "halt"
  SecurityLanes = TRUE
  Profile = "FREE_PRIVATE_COMPENSATING"
  Pull = {"pr1", "pr2"}
  TicketOf <- MCTicketOf
  CheckNames = {"evidence"}
  Outside = {"push", "postmerge", "close", "draft"}
  MaxHead = 2
  MaxTip = 0
  MaxPolicy = 0
  Run = {a}
  Modes = {"file"}
  MaxAge = 0
  MaxMalformed = 0
  Faults = {"lost reply", "error"}
  MaxFaults = 1
SPECIFICATION FairSpec
PROPERTY EligibleIsMerged
