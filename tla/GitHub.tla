------------------------------- MODULE GitHub -------------------------------
(***************************************************************************)
(* The repositories on GitHub as scripts/github_port.py and the git calls  *)
(* of scripts/publish.py see and change them, and what people outside the  *)
(* bootstrap may do to them meanwhile.                                     *)
(***************************************************************************)
EXTENDS Plan

CONSTANTS
  Outside,     \* what outsiders do: a subset of OutsideKind
  MaxNodes     \* bound: repository node ids GitHub issues in one run

OutsideKind == {"create", "delete", "alter", "develop"}

VARIABLES
  remote,      \* identity |-> the repository of that name, or None
  nodes,       \* node ids issued so far; a node id is never used again
  commits      \* genesis commits made so far; 0 is every commit of outsiders

githubVars == <<remote, nodes, commits>>

Elsewhere == "elsewhere"

(***************************************************************************)
(* A setting is TRUE when it has the value the plan approves.  `maker` and *)
(* `touched` are auxiliary: whose create call made the repository, and     *)
(* which plans wrote to it afterwards.                                     *)
(***************************************************************************)
Repository ==
  [node : Nat, private : BOOLEAN, secretScanning : BOOLEAN,
   defaultBranch : BOOLEAN, codeScanning : BOOLEAN,
   ruleset : {"none", "approved", "altered"},
   main : Nat \cup {None}, dev : Nat \cup {None},
   maker : Plans \cup {Elsewhere}, touched : SUBSET Plans]

ASSUME GitHubAssumption ==
  /\ Outside \subseteq OutsideKind
  /\ MaxNodes \in Nat
  /\ Elsewhere \notin Plans
  /\ None \notin Repository
  /\ None \notin Nat

\* A repository right after its creation; secret scanning may be on already.
NewRepository(maker, private, secretScanning, head) ==
  [node |-> nodes + 1, private |-> private, secretScanning |-> secretScanning,
   defaultBranch |-> FALSE, codeScanning |-> FALSE, ruleset |-> "none",
   main |-> head, dev |-> head, maker |-> maker, touched |-> {}]

Exists(r) == remote[r] # None

\* observe(...) is not None.
Present(op) ==
  /\ Exists(op.repo)
  /\ op.kind = "create-ruleset" => remote[op.repo].ruleset # "none"

\* _state_gap(desiredState, observe(...)) is empty.
InApprovedState(op, plan) ==
  LET repository == remote[op.repo] IN
    CASE op.kind = "create-repository" ->
           repository.private = DesiredPrivate[plan][op.repo]
      [] op.kind = "enable-secret-scanning" -> repository.secretScanning
      [] op.kind = "set-default-branch" -> repository.defaultBranch
      [] op.kind = "enable-code-scanning" -> repository.codeScanning
      [] op.kind = "create-ruleset" -> repository.ruleset = "approved"

\* resourceFingerprint: only a repository is observed with its node id.
Fingerprint(op) ==
  IF op.kind = "create-repository" THEN remote[op.repo].node ELSE None

----------------------------------------------------------------------------
\* What the remote accepts: a name is created once, a setting needs its
\* repository, and the default branch has to exist.
Accepts(op) ==
  CASE op.kind = "create-repository" -> ~Exists(op.repo) /\ nodes < MaxNodes
    [] op.kind = "enable-secret-scanning" -> Exists(op.repo)
    [] op.kind = "set-default-branch" ->
         Exists(op.repo) /\ remote[op.repo].dev # None
    [] op.kind = "enable-code-scanning" -> Exists(op.repo)
    [] op.kind = "create-ruleset" ->
         Exists(op.repo) /\ remote[op.repo].ruleset = "none"

\* port.create / port.update taking effect.
CreateRepository(op, plan) ==
  /\ op.kind = "create-repository"
  /\ \E on \in BOOLEAN :
       remote' = [remote EXCEPT ![op.repo] =
                    NewRepository(plan, DesiredPrivate[plan][op.repo], on,
                                  None)]
  /\ nodes' = nodes + 1

ChangeRepository(op, plan) ==
  /\ op.kind # "create-repository"
  /\ LET written == [remote[op.repo] EXCEPT !.touched = @ \cup {plan}] IN
       remote' = [remote EXCEPT ![op.repo] =
         CASE op.kind = "enable-secret-scanning" ->
                [written EXCEPT !.secretScanning = TRUE]
           [] op.kind = "set-default-branch" ->
                [written EXCEPT !.defaultBranch = TRUE]
           [] op.kind = "enable-code-scanning" ->
                [written EXCEPT !.codeScanning = TRUE]
           [] op.kind = "create-ruleset" ->
                [written EXCEPT !.ruleset = "approved"]]
  /\ nodes' = nodes

Effect(op, plan) ==
  /\ Accepts(op)
  /\ CreateRepository(op, plan) \/ ChangeRepository(op, plan)
  /\ commits' = commits

\* `git push origin <branch>` of a genesis commit: refused when the branch
\* has another history or an active ruleset protects it.
AcceptsPush(r, branch, commit) ==
  /\ Exists(r)
  /\ remote[r][branch] \in {None, commit}
  /\ remote[r].ruleset # "approved"

Push(r, branch, commit, plan) ==
  /\ AcceptsPush(r, branch, commit)
  /\ remote' = [remote EXCEPT ![r][branch] = commit,
                              ![r].touched = @ \cup {plan}]
  /\ UNCHANGED <<nodes, commits>>

----------------------------------------------------------------------------
\* Somebody else takes the name, with an empty repository or with history.
OutsideCreate(r) ==
  /\ "create" \in Outside
  /\ ~Exists(r)
  /\ nodes < MaxNodes
  /\ \E private \in BOOLEAN, head \in {None, 0} :
       remote' = [remote EXCEPT ![r] =
                    NewRepository(Elsewhere, private, TRUE, head)]
  /\ nodes' = nodes + 1
  /\ commits' = commits

OutsideDelete(r) ==
  /\ "delete" \in Outside
  /\ Exists(r)
  /\ remote' = [remote EXCEPT ![r] = None]
  /\ UNCHANGED <<nodes, commits>>

\* Somebody undoes one of the approved values.
OutsideAlter(r) ==
  /\ "alter" \in Outside
  /\ Exists(r)
  /\ \/ remote' = [remote EXCEPT ![r].secretScanning = FALSE]
     \/ remote' = [remote EXCEPT ![r].codeScanning = FALSE]
     \/ remote' = [remote EXCEPT ![r].defaultBranch = FALSE]
     \/ /\ remote[r].ruleset = "approved"
        /\ remote' = [remote EXCEPT ![r].ruleset = "altered"]
  /\ UNCHANGED <<nodes, commits>>

\* Ordinary work lands on a branch that exists.
OutsideDevelop(r) ==
  /\ "develop" \in Outside
  /\ Exists(r)
  /\ \E branch \in {"main", "dev"} :
       /\ remote[r][branch] # None
       /\ remote' = [remote EXCEPT ![r][branch] = 0]
  /\ UNCHANGED <<nodes, commits>>

OutsideNext ==
  \E r \in Repo : \/ OutsideCreate(r) \/ OutsideDelete(r)
                  \/ OutsideAlter(r) \/ OutsideDevelop(r)

GitHubInit ==
  /\ remote = [r \in Repo |-> None]
  /\ nodes = 0
  /\ commits = 0

GitHubTypeOK ==
  /\ remote \in [Repo -> Repository \cup {None}]
  /\ nodes \in Nat
  /\ commits \in Nat
=============================================================================
