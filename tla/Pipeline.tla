------------------------------ MODULE Pipeline ------------------------------
(***************************************************************************)
(* The bootstrap from approval to result: apply before-files, publish,     *)
(* apply after-files, build_result, in the order scripts/dogfood.sh runs   *)
(* them, with commands repeated after a failure and several at a time when *)
(* MaxActive allows it.  The ledger file is all that the commands share.   *)
(***************************************************************************)
EXTENDS Apply, Publish

CONSTANT
  InOrder    \* TRUE: publish is started as dogfood.sh does, after before-files

ASSUME PipelineAssumption == InOrder \in BOOLEAN

VARIABLES
  reported,  \* <<plan, phase>> that an apply run has reported completed
  results    \* plans whose result document has been issued

vars == <<githubVars, ledgerVars, todo, genesis, reported, results>>

operatorVars == <<reported, results>>

----------------------------------------------------------------------------
\* The digest of the request is all that is compared, so rows of another plan
\* of the same request pass.
SameRequest(rows, plan) == \A row \in rows : Request[row.plan] = Request[plan]

\* Defective variant: a result over whatever rows there are.
DeliverableSubset(plan, approval, rows) ==
  /\ Authorizes(approval, plan)
  /\ {row.id : row \in rows} # {}
  /\ SameRequest(rows, plan)

\* build_result: the ledger has exactly the planned rows, a genesis push among
\* them (it carries what CommitLore said), all of one request.
Deliverable(plan, approval, rows) ==
  /\ Authorizes(approval, plan)
  /\ \E r \in Repo : Held(rows, PublishId(r))
  /\ {row.id : row \in rows} = Planned(plan)
  /\ SameRequest(rows, plan)

BuildResult(plan) ==
  /\ \E approval \in Approvals : Deliverable(plan, approval, disk)
  /\ results' = results \cup {plan}
  /\ UNCHANGED <<githubVars, ledgerVars, todo, genesis, reported>>

BeginApply(p, plan, phase) ==
  /\ StartApply(p, plan, phase) \/ RefuseApply(p, plan, phase)
  /\ UNCHANGED <<genesis, operatorVars>>

BeginPublish(p, plan, r) ==
  /\ InOrder => <<plan, "before-files">> \in reported
  /\ \/ StartPublish(p, plan, r)
     \/ ResumePublish(p, plan, r)
     \/ RefusePublish(p, plan)
  /\ UNCHANGED <<todo, operatorVars>>

\* The operator reads the exit status of an apply run.
ContinueApply(p) ==
  /\ ApplyStep(p)
  /\ reported' = IF exit'[p] = "completed"
                 THEN reported \cup {<<job[p].plan, job[p].stage>>}
                 ELSE reported
  /\ UNCHANGED <<genesis, results>>

ContinuePublish(p) == PublishStep(p) /\ UNCHANGED <<todo, operatorVars>>

Operate ==
  \E plan \in Plans :
    \/ BuildResult(plan)
    \/ \E p \in Run, phase \in PHASES : BeginApply(p, plan, phase)
    \/ \E p \in Run, r \in Repo : BeginPublish(p, plan, r)

GoWrong ==
  \E p \in Run :
    \/ ApplyFault(p) /\ UNCHANGED <<genesis, operatorVars>>
    \/ PublishFault(p) /\ UNCHANGED <<todo, operatorVars>>
    \/ Crash(p) /\ UNCHANGED <<githubVars, todo, genesis, operatorVars>>

Next ==
  \/ Operate
  \/ \E p \in Run : ContinueApply(p) \/ ContinuePublish(p)
  \/ GoWrong
  \/ OutsideNext /\ UNCHANGED <<ledgerVars, todo, genesis, operatorVars>>

Init ==
  /\ GitHubInit /\ LedgerInit /\ ApplyInit /\ PublishInit
  /\ reported = {}
  /\ results = {}

Spec == Init /\ [][Next]_vars

(***************************************************************************)
(* A command that runs goes on to its end, and the operator repeats the    *)
(* stages: dogfood.sh is run again after a failure, and each stage that    *)
(* can be started is started again and again.  Nothing is assumed of       *)
(* faults, of outsiders and of a plan that cannot complete.                *)
(***************************************************************************)
\* Its exposure can be approved, and each repository has an entry, without
\* which the genesis row of the repository is not a planned one.
Completable(plan) == ExposureApproved(plan) /\ Listed(plan) = Repo

StartAgain(plan) ==
  /\ \A phase \in PHASES :
       SF_vars(\E p \in Run : /\ StartApply(p, plan, phase)
                              /\ UNCHANGED <<genesis, operatorVars>>)
  /\ \A r \in Repo :
       SF_vars(\E p \in Run : /\ InOrder => <<plan, "before-files">> \in reported
                              /\ StartPublish(p, plan, r)
                              /\ UNCHANGED <<todo, operatorVars>>)
  /\ WF_vars(BuildResult(plan))

Fairness ==
  /\ \A p \in Run : WF_vars(ContinueApply(p)) /\ WF_vars(ContinuePublish(p))
  /\ \A plan \in {plan \in Plans : Completable(plan)} : StartAgain(plan)

FairSpec == Spec /\ Fairness

----------------------------------------------------------------------------
\* Names, rows and values have the shape the code gives them.
TypeOK ==
  /\ GitHubTypeOK /\ LedgerTypeOK /\ ApplyTypeOK /\ PublishTypeOK
  /\ reported \subseteq (Plans \X PHASES)
  /\ results \subseteq Plans

\* Every row that is on disk, in the scratch file or in the memory of a run.
AllRows ==
  disk \cup (UNION {mem[p] : p \in Run})
       \cup (IF scratch = None THEN {} ELSE scratch)

Genuine(row) ==
  LET r == row.id.repo IN
    /\ Exists(r)
    /\ remote[r].maker = row.plan
    /\ IF row.id \in Op
       THEN /\ Present(row.id)
            /\ InApprovedState(row.id, row.plan)
            /\ row.mark = Fingerprint(row.id)
       ELSE CarriesGenesis(r, row.mark)

(***************************************************************************)
(* A receipt is worth what it says: while nobody deletes or changes what   *)
(* was built, every row anywhere names a resource that this plan made and  *)
(* that is now in the approved state (the post-write re-read of            *)
(* apply_plan, the ls-remote of publish_files), whatever calls failed,     *)
(* lied or lost their reply and wherever runs died.                        *)
(***************************************************************************)
ReceiptsAreGenuine == \A row \in AllRows : Genuine(row)

(***************************************************************************)
(* Provenance: no plan writes to a repository that another made, although  *)
(* runs only know names (the RESOURCE_COLLISION rule of apply_plan).       *)
(***************************************************************************)
NoForeignWrite ==
  \A r \in Repo : Exists(r) => remote[r].touched \subseteq {remote[r].maker}

(***************************************************************************)
(* A ruleset that requires project-ci exists only where the commit that    *)
(* carries the workflow is on both branches (the after-files gate).        *)
(***************************************************************************)
RulesetAfterGenesis ==
  \A r \in Repo :
    Exists(r) /\ remote[r].ruleset # "none" =>
      remote[r].main # None /\ remote[r].dev # None

(***************************************************************************)
(* Secret scanning and push protection are on before the genesis push      *)
(* reaches a repository of ours (the phase of enable-secret-scanning).     *)
(***************************************************************************)
PushUnderProtection ==
  \A r \in Repo :
    Exists(r) /\ remote[r].maker \in Plans /\ remote[r].main # None =>
      remote[r].secretScanning

(***************************************************************************)
(* The file never mixes plans and never holds two rows of one operation,   *)
(* the two states ReceiptLedger refuses to load as LEDGER_CORRUPT, even    *)
(* when several runs of several plans rewrite it.                          *)
(***************************************************************************)
LedgerLoads == Loadable(disk)

Passed(p) ==
  StagedOps(job[p].stage) \ {todo[p][i] : i \in 1..Len(todo[p])}

(***************************************************************************)
(* When commands run one at a time, whatever a run has gone past, and so   *)
(* reports as applied when it stops, is on disk and stays there: the next  *)
(* command can resume from it wherever this one ends.                      *)
(***************************************************************************)
AppliedIsDurable ==
  \A p \in Run :
    job[p] # None /\ job[p].stage \in PHASES =>
      \A op \in Passed(p) : Held(disk, op)

(***************************************************************************)
(* When commands run one at a time, an operation that has a receipt is     *)
(* never written again, whoever deleted, recreated or altered its resource *)
(* since: drift is reported and left for a person (the resume branch).     *)
(***************************************************************************)
ReceiptedIsNotRewritten ==
  \A p \in Run : Writing(p) => ~Held(disk, Current(p))

(***************************************************************************)
(* One plan, run one command at a time, keeps what Bootstrap promises: the *)
(* ledger file only grows, by one receipt, in the order of the plan.       *)
(***************************************************************************)
Promise == INSTANCE Bootstrap
  WITH receipts <- {row.id : row \in disk}, issued <- results # {}

KeepsPromise == Promise!BootstrapSpec

\* What a result over the rows of `source` says of the world.
BuiltBy(source) ==
  \A r \in Repo :
    /\ Exists(r)
    /\ remote[r].maker = source
    /\ \A op \in Op : op.repo = r => Present(op) /\ InApprovedState(op, source)
    /\ remote[r].main # None /\ remote[r].dev = remote[r].main

(***************************************************************************)
(* A result that was issued describes a world that one plan built: there   *)
(* is a plan of the same request that made every repository, whose genesis *)
(* commit is on both branches and whose approved values are all there (the *)
(* completeness checks of build_result).  That plan need not be the one    *)
(* the result is for: build_result does not compare bootstrapOperationId.  *)
(***************************************************************************)
ResultIsTrue ==
  \A plan \in results :
    \E source \in Plans : Request[source] = Request[plan] /\ BuiltBy(source)

(***************************************************************************)
(* A repository that has an entry in its plan is made as private as the    *)
(* entry says, whatever the operation asks for, and never public under an  *)
(* approval of Hermes.  (An operation without an entry is not looked at    *)
(* and makes what it asks for: nothing is said of it.)                     *)
(***************************************************************************)
HermesNeverPublic ==
  \A r \in Repo :
    Exists(r) /\ remote[r].maker \in Plans =>
      LET maker == remote[r].maker IN
        r \in Listed(maker) =>
          /\ remote[r].private = (Visibility[maker][r] # "public")
          /\ ~remote[r].private => Authority[maker] = "OWNER"

(***************************************************************************)
(* Whenever apply_plan decides to write, the repository it has looked at   *)
(* is the one whose node id the create-repository receipt in its ledger    *)
(* recorded: a reused name is noticed (resourceFingerprint of _receipt).   *)
(***************************************************************************)
WritesToFingerprint ==
  [][\A p \in Run : pc[p] = "next" /\ pc'[p] = "write" =>
       \A row \in mem[p] :
         row.id = [kind |-> "create-repository", repo |-> Current(p).repo]
           => row.mark = remote[Current(p).repo].node]_vars

\* Something that a plan made is on the remote and no receipt says so.
Stranded ==
  \E r \in Repo :
    /\ Exists(r)
    /\ remote[r].maker \in Plans
    /\ \/ ~Held(disk, [kind |-> "create-repository", repo |-> r])
       \/ remote[r].main # None /\ ~Held(disk, PublishId(r))
       \/ /\ remote[r].ruleset = "approved"
          /\ ~Held(disk, [kind |-> "create-ruleset", repo |-> r])

\* Rows of another plan are in the ledger file.
TakenFrom(plan) == \E row \in disk : row.plan # plan

(***************************************************************************)
(* Finitely many faults, at any step, cannot keep a bootstrap from its     *)
(* result except in two ways: a create or a push took effect and its       *)
(* receipt was never written (no later run can tell it from a stranger's), *)
(* or the ledger file belongs to another plan.                             *)
(***************************************************************************)
CompletesUnlessStranded ==
  \A plan \in Plans :
    Completable(plan) =>
      <>(plan \in results) \/ <>[]Stranded \/ <>[]TakenFrom(plan)
=============================================================================
