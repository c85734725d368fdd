\* One bootstrap beside an edited plan, one command at a time, every kind of fault.
CONSTANTS
  None = None
  Plans <- MCEditedPlans
  Repositories <- MCTwoRepositories
  Request <- MCRequest
  Authority <- MCAuthority
  Visibility <- MCVisibility
  DesiredPrivate <- MCDesiredPrivate
  Approvals <- MCApprovals
  Outside = {}
  MaxNodes = 3
  Run = {a}
  MaxActive = 1
  Faults = {"crash", "error", "lost reply", "no effect"}
  MaxFaults = 2
  MaxCommits = 4
  InOrder = TRUE
SPECIFICATION FairSpec
INVARIANTS
  TypeOK
  ReceiptsAreGenuine
  RulesetAfterGenesis
  PushUnderProtection
  AppliedIsDurable
  ResultIsTrue
  HermesNeverPublic
PROPERTIES
  KeepsPromise
  CompletesUnlessStranded
