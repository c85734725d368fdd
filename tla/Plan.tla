------------------------------- MODULE Plan -------------------------------
(***************************************************************************)
(* The approved plan (scripts/plan.py) and the approval that points at it  *)
(* (scripts/apply.py).  A plan is a constant here: what it says is fixed   *)
(* when its digest is approved, and every later stage only reads it.       *)
(***************************************************************************)
EXTENDS Integers, Sequences, FiniteSets

CONSTANTS
  Plans,           \* approved plans; each has its own operation id and digest
  Request,         \* plan |-> the request it was compiled from, `requestDigest`
  Repositories,    \* the sequence of repository identities of a plan
  Authority,       \* plan |-> "HERMES" or "OWNER", the `authorization` it needs
  Visibility,      \* plan |-> repository |-> `repositories[].visibility`, or
                   \* "unlisted" when the plan has no entry for it
  DesiredPrivate,  \* plan |-> repository |-> `desiredState.private` of
                   \* create-repository
  Approvals,       \* approval documents an operator can pass to a command
  None             \* the absent value

PHASES == {"before-files", "after-files"}

Repo == {Repositories[i] : i \in 1..Len(Repositories)}

ApplyKind == {"create-repository", "enable-secret-scanning",
              "set-default-branch", "enable-code-scanning", "create-ruleset"}

Op == [kind : ApplyKind, repo : Repo]

\* Two kinds create a resource under a name; the others update a setting.
Creates(op) == op.kind \in {"create-repository", "create-ruleset"}

ForEachRepository(kind) ==
  [i \in 1..Len(Repositories) |-> [kind |-> kind, repo |-> Repositories[i]]]

\* Defective variant: the ruleset is created together with the repository.
StagedRulesetFirst(phase) ==
  IF phase = "before-files"
  THEN ForEachRepository("create-repository")
         \o ForEachRepository("enable-secret-scanning")
         \o ForEachRepository("create-ruleset")
  ELSE ForEachRepository("set-default-branch")
         \o ForEachRepository("enable-code-scanning")

\* Defective variant: secret scanning waits until the files are there.
StagedProtectionLate(phase) ==
  IF phase = "before-files"
  THEN ForEachRepository("create-repository")
  ELSE ForEachRepository("set-default-branch")
         \o ForEachRepository("enable-secret-scanning")
         \o ForEachRepository("enable-code-scanning")
         \o ForEachRepository("create-ruleset")

\* githubOperations, cut at the phase boundary: `staged` of apply_plan.
Staged(phase) ==
  IF phase = "before-files"
  THEN ForEachRepository("create-repository")
         \o ForEachRepository("enable-secret-scanning")
  ELSE ForEachRepository("set-default-branch")
         \o ForEachRepository("enable-code-scanning")
         \o ForEachRepository("create-ruleset")

StagedOps(phase) == {Staged(phase)[i] : i \in 1..Len(Staged(phase))}

\* `publish:{identity}`, the ledger row of a genesis push.
PublishId(r) == [kind |-> "publish", repo |-> r]
PublishIds == {PublishId(r) : r \in Repo}

\* Every row a ledger can have.
ReceiptId == Op \cup PublishIds

\* The identities among the entries of repositories[].
Listed(plan) == {r \in Repo : Visibility[plan][r] # "unlisted"}

\* Every row a finished bootstrap has: the operations, and the genesis push of
\* each repository that has an entry.
Planned(plan) == Op \cup {PublishId(r) : r \in Listed(plan)}

----------------------------------------------------------------------------
\* An approval names the plan it covers by digest and operation id.
Approval == [plan : Plans, authority : {"HERMES", "OWNER", "unknown"},
             spent : BOOLEAN, named : BOOLEAN]

AuthorityRank(a) == CASE a = "HERMES" -> 0 [] a = "OWNER" -> 1 [] OTHER -> -1

\* _check_authorization as the set of documents it lets through.
Authorizes(a, plan) ==
  /\ a # None
  /\ a.plan = plan
  /\ AuthorityRank(a.authority) >= AuthorityRank(Authority[plan])
  /\ ~a.spent
  /\ a.named

\* Defective variant: the repository entry is believed, the operation not read.
ExposureByEntryOnly(plan) ==
  Authority[plan] = "HERMES" =>
    \A r \in Listed(plan) : Visibility[plan][r] # "public"

\* The two checks on exposure that come before any remote call: a repository
\* would be created as its entry says, and public is the owner's call.  Both
\* look at entries; an operation that has none is passed over.
ExposureApproved(plan) ==
  \A r \in Listed(plan) :
    /\ DesiredPrivate[plan][r] = (Visibility[plan][r] # "public")
    /\ Authority[plan] = "HERMES" => Visibility[plan][r] # "public"

ASSUME PlanAssumption ==
  /\ Repositories \in Seq(STRING)
  /\ Authority \in [Plans -> {"HERMES", "OWNER"}]
  /\ Visibility \in [Plans -> [Repo -> {"private", "public", "unlisted"}]]
  /\ DesiredPrivate \in [Plans -> [Repo -> BOOLEAN]]
  /\ Approvals \subseteq (Approval \cup {None})
=============================================================================
