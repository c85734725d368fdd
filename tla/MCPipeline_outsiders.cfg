\* Everything outsiders can do to what is being built, one command at a time.
CONSTANTS
  None = None
  Plans <- MCPlans
  Repositories <- MCRepositories
  Request <- MCRequest
  Authority <- MCAuthority
  Visibility <- MCVisibility
  DesiredPrivate <- MCDesiredPrivate
  Approvals <- MCApprovals
  Outside = {"create", "delete", "alter", "develop"}
  MaxNodes = 2
  Run = {a}
  MaxActive = 1
  Faults = {"crash", "error", "lost reply", "no effect"}
  MaxFaults = 1
  MaxCommits = 2
  InOrder = TRUE
SPECIFICATION Spec
INVARIANT ReceiptedIsNotRewritten
PROPERTY KeepsPromise
