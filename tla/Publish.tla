------------------------------ MODULE Publish ------------------------------
(***************************************************************************)
(* publish (scripts/publish.py): build the genesis commit of one           *)
(* repository in an empty working directory, push it to the release branch *)
(* and then to the default branch, re-read both heads, and leave a receipt *)
(* in the ledger that apply resumes from.                                  *)
(***************************************************************************)
EXTENDS GitHub, Ledger

CONSTANT
  MaxCommits   \* bound: genesis commits built, each with a hash of its own

VARIABLE
  genesis      \* run |-> the commit it has built, or None

publishVars == <<githubVars, ledgerVars, genesis>>

ASSUME PublishAssumption == MaxCommits \in Nat

Publishing(p) == Active(p) /\ job[p].stage = "publish"

\* _remote_heads and the comparison of ls-remote: both branches at the commit.
CarriesGenesis(r, commit) ==
  /\ Exists(r)
  /\ remote[r].main = commit
  /\ remote[r].dev = commit

PublishAdmitted(plan, approval, rows) ==
  /\ Loadable(rows)
  /\ Authorizes(approval, plan)
  /\ OwnedBy(rows, plan)

PublishJob(plan, r) == [plan |-> plan, stage |-> "publish", repo |-> r]

\* No receipt of an earlier push: go on to build the commit.
StartPublish(p, plan, r) ==
  /\ MayStart(p)
  /\ \E approval \in Approvals : PublishAdmitted(plan, approval, disk)
  /\ ~Held(disk, PublishId(r))
  /\ commits + Cardinality({q \in Run : pc[q] = "build"}) < MaxCommits
  /\ Open(p, PublishJob(plan, r), "build")
  /\ genesis' = [genesis EXCEPT ![p] = None]
  /\ UNCHANGED <<githubVars, disk, scratch, budget>>

\* The ledger says the genesis is published: ask the remote whether its heads
\* are still the ones of the receipt, and push nothing either way.
ResumePublish(p, plan, r) ==
  /\ MayStart(p)
  /\ \E approval \in Approvals : PublishAdmitted(plan, approval, disk)
  /\ \E row \in disk :
       /\ row.id = PublishId(r)
       /\ exit' = [exit EXCEPT ![p] = IF CarriesGenesis(r, row.mark)
                                      THEN "completed" ELSE "PublishError"]
  /\ job' = [job EXCEPT ![p] = PublishJob(plan, r)]
  /\ UNCHANGED <<githubVars, disk, scratch, mem, pc, budget, genesis>>

RefusePublish(p, plan) ==
  /\ MayStart(p)
  /\ \E approval \in Approvals : ~PublishAdmitted(plan, approval, disk)
  /\ exit' = [exit EXCEPT ![p] = "refused"]
  /\ UNCHANGED <<githubVars, disk, scratch, mem, pc, job, budget, genesis>>

At(p, step) == Publishing(p) /\ pc[p] = step

\* Defective variant: the new head is not kept for the pushes.
BuildForgotten(p) ==
  /\ At(p, "build")
  /\ commits' = commits + 1
  /\ Goto(p, "push main")
  /\ UNCHANGED <<remote, nodes, disk, scratch, job, budget, genesis>>

\* The commit, whose files and bytes equal the planned ones and whose
\* checkout CommitLore passed and left alone.
Build(p) ==
  /\ At(p, "build")
  /\ commits' = commits + 1
  /\ genesis' = [genesis EXCEPT ![p] = commits + 1]
  /\ Goto(p, "push main")
  /\ UNCHANGED <<remote, nodes, disk, scratch, job, budget>>

PublishFails(p) ==
  /\ End(p, "PublishError")
  /\ UNCHANGED <<disk, scratch, job, genesis>>

\* The bytes differ, CommitLore refuses, or a git call fails.
CallFailsInPublish(p) ==
  /\ Publishing(p)
  /\ pc[p] \in {"build", "push main", "push dev", "list"}
  /\ Fault("error")
  /\ PublishFails(p)
  /\ UNCHANGED githubVars

BranchPushed(p) == IF pc[p] = "push main" THEN "main" ELSE "dev"

AtPush(p) == At(p, "push main") \/ At(p, "push dev")

PushBranch(p) ==
  /\ AtPush(p)
  /\ Push(job[p].repo, BranchPushed(p), genesis[p], job[p].plan)
  /\ Goto(p, IF pc[p] = "push main" THEN "push dev" ELSE "list")
  /\ UNCHANGED <<disk, scratch, job, budget, genesis>>

PushRejected(p) ==
  /\ AtPush(p)
  /\ ~AcceptsPush(job[p].repo, BranchPushed(p), genesis[p])
  /\ PublishFails(p)
  /\ UNCHANGED <<githubVars, budget>>

PushReplyLost(p) ==
  /\ AtPush(p)
  /\ Fault("lost reply")
  /\ Push(job[p].repo, BranchPushed(p), genesis[p], job[p].plan)
  /\ PublishFails(p)

\* ls-remote: both heads are the commit, and the receipt says so.
ListRemote(p) ==
  /\ At(p, "list")
  /\ CarriesGenesis(job[p].repo, genesis[p])
  /\ Remember(p, [id |-> PublishId(job[p].repo), plan |-> job[p].plan,
                  mark |-> genesis[p]])
  /\ pc' = [pc EXCEPT ![p] = "record"]
  /\ UNCHANGED <<githubVars, disk, scratch, job, exit, budget, genesis>>

ListDisagrees(p) ==
  /\ At(p, "list")
  /\ ~CarriesGenesis(job[p].repo, genesis[p])
  /\ PublishFails(p)
  /\ UNCHANGED <<githubVars, budget>>

RecordPublish(p) ==
  /\ Publishing(p)
  /\ \/ WriteScratch(p)
     \/ /\ pc[p] = "replace"
        /\ scratch # None
        /\ disk' = scratch
        /\ scratch' = None
        /\ End(p, "completed")
        /\ UNCHANGED <<job, budget>>
     \/ ReplaceMissing(p)
  /\ UNCHANGED <<githubVars, genesis>>

PublishStep(p) ==
  \/ Build(p) \/ PushBranch(p) \/ PushRejected(p)
  \/ ListRemote(p) \/ ListDisagrees(p) \/ RecordPublish(p)

PublishFault(p) == CallFailsInPublish(p) \/ PushReplyLost(p)

PublishInit == genesis = [p \in Run |-> None]

PublishTypeOK ==
  /\ genesis \in [Run -> Nat \cup {None}]
  /\ \A p \in Run :
       Publishing(p) => job[p].repo \in Repo
                        /\ (pc[p] # "build" => genesis[p] \in Nat)
=============================================================================
