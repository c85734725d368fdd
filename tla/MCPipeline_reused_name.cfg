\* The name of a repository is reused by somebody else.
CONSTANTS
  None = None
  Plans <- MCPlans
  Repositories <- MCRepositories
  Request <- MCRequest
  Authority <- MCAuthority
  Visibility <- MCVisibility
  DesiredPrivate <- MCDesiredPrivate
  Approvals <- MCApprovals
  Outside = {"create", "delete"}
  MaxNodes = 3
  Run = {a}
  MaxActive = 1
  Faults = {"crash", "error", "lost reply", "no effect"}
  MaxFaults = 0
  MaxCommits = 4
  InOrder = TRUE
SPECIFICATION Spec
PROPERTY WritesToFingerprint
