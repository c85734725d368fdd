\* Set-up, ticket graph and pull requests of a generated repository, each alone.
CONSTANTS
  Tickets = {"t1","t2"}
  Offers <- MCOffers
  Together <- MCTogether
  MaxEdits = 1
  MaxFaults = 1
  TicketOrder <- MCOrder
  MaxVersion = 2
  DogfoodEvidence = {"none","drift","good"}
  Nodes = {n1, n2, n3}
  Paths <- MCPaths
  Spare <- MCSpare
  Drafts <- MCDrafts
  Seed <- MCSeed
  MaxLandings = 3
SPECIFICATION FairSpec
INVARIANTS
  TypeOK
  DuplicatesAreReported
  LevelIsEarned
  CyclesAreFound
  DepthIsRounds
  WorkersKeepOff
  RollbackIsPossible
PROPERTIES
  OwnersWorkIsKept
  SetupCompletes
CHECK_DEADLOCK FALSE
