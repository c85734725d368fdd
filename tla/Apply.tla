------------------------------- MODULE Apply -------------------------------
(***************************************************************************)
(* apply_plan (scripts/apply.py): one phase of an approved plan, operation *)
(* by operation.  Each remote call and each half of the ledger write is a  *)
(* step of its own, so that a crash, another run and outsiders can come    *)
(* between any two of them.                                                *)
(***************************************************************************)
EXTENDS GitHub, Ledger

VARIABLE
  todo    \* run |-> the operations of its phase it has not passed yet

applyVars == <<githubVars, ledgerVars, todo>>

Current(p) == Head(todo[p])

Applying(p) == Active(p) /\ job[p].stage \in PHASES

\* Defective variant: the genesis push is not waited for.
PhaseOpenUnpublished(phase, rows) ==
  phase = "after-files" => \A op \in StagedOps("before-files") : Held(rows, op)

\* after-files opens when every before-files operation and the genesis push
\* of every repository have a row in the ledger.
PhaseOpen(phase, rows) ==
  phase = "after-files" =>
    /\ \A op \in StagedOps("before-files") : Held(rows, op)
    /\ \A r \in Repo : Held(rows, PublishId(r))

\* Every check apply_plan makes before it touches the remote.
Admitted(plan, phase, approval, rows) ==
  /\ Loadable(rows)
  /\ ExposureApproved(plan)
  /\ OwnedBy(rows, plan)
  /\ Authorizes(approval, plan)
  /\ PhaseOpen(phase, rows)

StartApply(p, plan, phase) ==
  /\ MayStart(p)
  /\ \E approval \in Approvals : Admitted(plan, phase, approval, disk)
  /\ Open(p, [plan |-> plan, stage |-> phase, repo |-> None], "next")
  /\ todo' = [todo EXCEPT ![p] = Staged(phase)]
  /\ UNCHANGED <<githubVars, disk, scratch, budget>>

RefuseApply(p, plan, phase) ==
  /\ MayStart(p)
  /\ \E approval \in Approvals : ~Admitted(plan, phase, approval, disk)
  /\ exit' = [exit EXCEPT ![p] = "refused"]
  /\ UNCHANGED <<githubVars, disk, scratch, mem, pc, job, budget, todo>>

\* The operation is passed without a write, or with its receipt on disk.
Pass(p) == todo' = [todo EXCEPT ![p] = Tail(@)]

Stop(p, code) ==
  /\ End(p, code)
  /\ UNCHANGED <<githubVars, disk, scratch, job, budget, todo>>

AtOperation(p) ==
  /\ Applying(p)
  /\ pc[p] = "next"
  /\ todo[p] # <<>>

----------------------------------------------------------------------------
\* A receipt is held: the resource it names has to be there, be the same one,
\* and still have the approved state.
Unchanged(op, plan, rows) ==
  /\ Present(op)
  /\ \A row \in rows :
       row.id = op /\ row.mark # None => row.mark = Fingerprint(op)
  /\ InApprovedState(op, plan)

Resume(p) ==
  LET op == Current(p) IN
    /\ AtOperation(p)
    /\ Held(mem[p], op)
    /\ Unchanged(op, job[p].plan, mem[p])
    /\ Pass(p)
    /\ UNCHANGED <<githubVars, ledgerVars>>

RefuseResume(p) ==
  LET op == Current(p) IN
    /\ AtOperation(p)
    /\ Held(mem[p], op)
    /\ ~Unchanged(op, job[p].plan, mem[p])
    /\ Stop(p, IF Present(op) THEN "RESUMED_RESOURCE_DRIFTED"
                               ELSE "RESUMED_RESOURCE_ABSENT")

\* Defective variant: a resource of the right name is taken for our own.
ObserveByName(p) ==
  LET op == Current(p) IN
    /\ AtOperation(p)
    /\ ~Held(mem[p], op)
    /\ Creates(op) \/ Present(op)
    /\ Goto(p, IF Creates(op) /\ Present(op) THEN "reread" ELSE "write")
    /\ UNCHANGED <<githubVars, disk, scratch, job, budget, todo>>

\* Defective variant: a setting that has drifted is written once more.
ObserveDespiteReceipt(p) ==
  LET op == Current(p) IN
    /\ AtOperation(p)
    /\ Held(mem[p], op) => Present(op) /\ ~InApprovedState(op, job[p].plan)
    /\ Creates(op) # Present(op)
    /\ Goto(p, "write")
    /\ UNCHANGED <<githubVars, disk, scratch, job, budget, todo>>

\* No receipt: a create needs the name free, an update needs the resource.
Observe(p) ==
  LET op == Current(p) IN
    /\ AtOperation(p)
    /\ ~Held(mem[p], op)
    /\ Creates(op) # Present(op)
    /\ Goto(p, "write")
    /\ UNCHANGED <<githubVars, disk, scratch, job, budget, todo>>

RefuseObserve(p) ==
  LET op == Current(p) IN
    /\ AtOperation(p)
    /\ ~Held(mem[p], op)
    /\ Creates(op) = Present(op)
    /\ Stop(p, IF Creates(op) THEN "RESOURCE_COLLISION"
                               ELSE "RESUMED_RESOURCE_ABSENT")

----------------------------------------------------------------------------
Writing(p) == Applying(p) /\ pc[p] = "write"

Write(p) ==
  /\ Writing(p)
  /\ Effect(Current(p), job[p].plan)
  /\ Goto(p, "reread")
  /\ UNCHANGED <<disk, scratch, job, budget, todo>>

WriteRefused(p) ==
  /\ Writing(p)
  /\ ~Accepts(Current(p))
  /\ Stop(p, "REMOTE_REFUSED")

\* The reply is lost: the remote did it and the port raises.
WriteReplyLost(p) ==
  /\ Writing(p)
  /\ Fault("lost reply")
  /\ Effect(Current(p), job[p].plan)
  /\ End(p, "REMOTE_REFUSED")
  /\ UNCHANGED <<disk, scratch, job, todo>>

\* Exit 0 for a setting that did not change.
WriteWithoutEffect(p) ==
  /\ Writing(p)
  /\ ~Creates(Current(p))
  /\ Accepts(Current(p))
  /\ Fault("no effect")
  /\ Goto(p, "reread")
  /\ UNCHANGED <<githubVars, disk, scratch, job, todo>>

\* Any remote call can fail outright.  The observation of a resume is not
\* under the `try` and its error leaves apply_plan as it is.
CallFails(p) ==
  /\ Applying(p)
  /\ pc[p] \in {"next", "write", "reread"}
  /\ todo[p] # <<>>
  /\ Fault("error")
  /\ End(p, IF pc[p] = "next" /\ Held(mem[p], Current(p))
            THEN "GhError" ELSE "REMOTE_REFUSED")
  /\ UNCHANGED <<githubVars, disk, scratch, job, todo>>

\* Defective variant: being there counts as being as approved.
VerifiedByPresence(op, plan) == Present(op)

\* The re-read state has to hold everything the plan approves.
Verified(op, plan) == Present(op) /\ InApprovedState(op, plan)

Reread(p) ==
  LET op == Current(p) IN
    /\ Applying(p)
    /\ pc[p] = "reread"
    /\ Verified(op, job[p].plan)
    /\ Remember(p, [id |-> op, plan |-> job[p].plan, mark |-> Fingerprint(op)])
    /\ pc' = [pc EXCEPT ![p] = "record"]
    /\ UNCHANGED <<githubVars, disk, scratch, job, exit, budget, todo>>

RefuseReread(p) ==
  /\ Applying(p)
  /\ pc[p] = "reread"
  /\ ~Verified(Current(p), job[p].plan)
  /\ Stop(p, "REREAD_MISMATCH")

RecordReceipt(p) ==
  /\ Applying(p)
  /\ \/ WriteScratch(p) /\ UNCHANGED todo
     \/ ReplaceLedger(p, "next") /\ Pass(p)
     \/ ReplaceMissing(p) /\ UNCHANGED todo
  /\ UNCHANGED githubVars

CompleteApply(p) ==
  /\ Applying(p)
  /\ pc[p] = "next"
  /\ todo[p] = <<>>
  /\ Stop(p, "completed")

ApplyStep(p) ==
  \/ Resume(p) \/ RefuseResume(p) \/ Observe(p) \/ RefuseObserve(p)
  \/ Write(p) \/ WriteRefused(p)
  \/ Reread(p) \/ RefuseReread(p) \/ RecordReceipt(p) \/ CompleteApply(p)

ApplyFault(p) ==
  WriteReplyLost(p) \/ WriteWithoutEffect(p) \/ CallFails(p)

ApplyInit == todo = [p \in Run |-> <<>>]

ApplyTypeOK ==
  /\ todo \in [Run -> Seq(Op)]
  /\ \A p \in Run : Applying(p) /\ pc[p] # "next" => todo[p] # <<>>
=============================================================================
