\* The private profile: two brokers and one pull request.
CONSTANTS
  Tickets = {"t1"}
  Risk <- MCRisk
  Predelegated <- MCPredelegated
  Dependencies <- MCDependencies
  AutoStart <- MCAutoStart
  AutoMerge <- MCAutoMerge
  CriticalDefault = "halt"
  SecurityLanes = TRUE
  Profile = "FREE_PRIVATE_COMPENSATING"
  Pull = {"pr1"}
  TicketOf <- MCTicketOf
  CheckNames = {"evidence"}
  Outside = {"push", "policy"}
  MaxHead = 2
  MaxTip = 0
  MaxPolicy = 1
  Run = {a, b}
  Modes = {"online"}
  MaxAge = 1
  MaxMalformed = 1
  Faults = {"crash", "lost reply"}
  MaxFaults = 1
SPECIFICATION Spec
INVARIANTS
  SingleWriter
  ReceiptIsTrue
PROPERTY ReceiptsAreFinal
SYMMETRY RunSymmetry
