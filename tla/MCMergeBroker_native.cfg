\* The public profiles: rules with more checks than the broker asks for, merge-gate, native auto-merge.
CONSTANTS
  Tickets = {"t1"}
  Risk <- MCRisk
  Predelegated <- MCPredelegated
  Dependencies <- MCDependencies
  AutoStart <- MCAutoStart
  AutoMerge <- MCAutoMerge
  CriticalDefault = "halt"
  SecurityLanes = TRUE
  Profile = "FREE_PUBLIC_ORG_NATIVE_QUEUE"
  Pull = {"pr1"}
  TicketOf <- MCTicketOf
  CheckNames = {"evidence", "security"}
  Outside = {"push", "recheck", "unprotect", "relink"}
  MaxHead = 2
  MaxTip = 0
  MaxPolicy = 0
  Run = {a}
  Modes = {"online", "simulated"}
  MaxAge = 0
  MaxMalformed = 0
  Faults = {"lost reply", "error"}
  MaxFaults = 1
SPECIFICATION Spec
INVARIANTS
  LandsOnEvidence
  LandsOnAllChecks
  GateMeansEvidence
  ReceiptIsTrue
