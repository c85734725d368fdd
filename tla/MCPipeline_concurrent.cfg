\* Two plans for one name, two commands at a time on one ledger file.
CONSTANTS
  None = None
  Plans <- MCTwoPlans
  Repositories <- MCRepositories
  Request <- MCRequest
  Authority <- MCAuthority
  Visibility <- MCVisibility
  DesiredPrivate <- MCDesiredPrivate
  Approvals <- MCGoodApprovals
  Outside = {"create"}
  MaxNodes = 2
  Run = {a, b}
  MaxActive = 2
  Faults = {"crash", "error", "lost reply", "no effect"}
  MaxFaults = 1
  MaxCommits = 2
  InOrder = TRUE
SPECIFICATION Spec
INVARIANTS
  ReceiptsAreGenuine
  NoForeignWrite
  LedgerLoads
SYMMETRY RunSymmetry
