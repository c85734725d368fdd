\* The private profile: two tickets of which one needs the other.
CONSTANTS
  Tickets = {"t1", "t2"}
  Risk <- MCRisk
  Predelegated <- MCPredelegated
  Dependencies <- MCDependencies
  AutoStart <- MCAutoStart
  AutoMerge <- MCAutoMerge
  CriticalDefault = "halt"
  SecurityLanes = TRUE
  Profile = "FREE_PRIVATE_COMPENSATING"
  Pull = {"pr1", "pr2"}
  TicketOf <- MCTicketOf
  CheckNames = {"evidence"}
  Outside = {"push", "recheck", "people", "postmerge"}
  MaxHead = 2
  MaxTip = 1
  MaxPolicy = 0
  Run = {a}
  Modes = {"file"}
  MaxAge = 0
  MaxMalformed = 0
  Faults = {"crash", "lost reply"}
  MaxFaults = 1
SPECIFICATION Spec
INVARIANTS
  TypeOK
  LandsOnEvidence
  DependenciesComeFirst
