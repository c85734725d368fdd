\* One controller and one operator: faults, rollbacks and a changed policy.
CONSTANTS
  Tickets = {"t1", "t2", "t3"}
  Risk <- MCRisk
  Predelegated <- MCPredelegated
  Dependencies <- MCDependencies
  AutoStart <- MCAutoStart
  AutoMerge <- MCAutoStart
  CriticalDefault = "halt"
  SecurityLanes = TRUE
  Profile = "FREE_PRIVATE_COMPENSATING"
  Controllers = {c}
  Operators = {o}
  Order <- MCOrder
  RollbackIds <- MCRollbackIds
  Cap = 2
  MaxPolicy = 1
  MaxPulls = 2
  MaxFaults = 2
SPECIFICATION FairSpec
INVARIANTS
  TypeOK
  OneWorkerPerOperation
  WipBounded
PROPERTIES
  DependenciesAreProven
  WorksInMandate
  DeliveredUnlessStuck
CHECK_DEADLOCK FALSE
