\* Two brokers and two pull requests of independent tickets.
CONSTANTS
  Tickets = {"t1", "t3"}
  Risk <- MCRisk
  Predelegated <- MCPredelegatedAll
  Dependencies <- MCDependencies
  AutoStart <- MCAutoStart
  AutoMerge <- MCAutoMerge
  CriticalDefault = "halt"
  SecurityLanes = TRUE
  Profile = "FREE_PRIVATE_COMPENSATING"
  Pull = {"pr1", "pr3"}
  TicketOf <- MCTicketOf
  CheckNames = {"evidence"}
  Outside = {}
  MaxHead = 1
  MaxTip = 0
  MaxPolicy = 0
  Run = {a, b}
  Modes = {"online"}
  MaxAge = 0
  MaxMalformed = 0
  Faults = {}
  MaxFaults = 0
SPECIFICATION Spec
PROPERTY LandsOnCheckedBase
