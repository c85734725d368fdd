--------------------------- MODULE PipelineProofs ---------------------------
(***************************************************************************)
(* Theorems about Pipeline for every value of its constants: any plans and *)
(* repositories, any number of commands at a time, all faults, and         *)
(* outsiders that do all that GitHub.tla lets them do.                     *)
(***************************************************************************)
EXTENDS Pipeline, SequenceTheorems, TLAPS

----------------------------------------------------------------------------
\* One operation of a kind for each repository, in the order of the plan.
LEMMA ForEachType ==
  ASSUME NEW kind \in ApplyKind
  PROVE  /\ ForEachRepository(kind) \in Seq(Op)
         /\ Len(Repositories) \in Nat
         /\ Len(ForEachRepository(kind)) = Len(Repositories)
         /\ \A i \in 1..Len(Repositories) :
              ForEachRepository(kind)[i] = [kind |-> kind, repo |-> Repositories[i]]
<1>1. Len(Repositories) \in Nat
  BY PlanAssumption, LenProperties
<1>2. \A i \in 1..Len(Repositories) :
        [kind |-> kind, repo |-> Repositories[i]] \in Op
  BY DEF Op, Repo
<1> QED BY <1>1, <1>2 DEF ForEachRepository

\* The operations of a phase are a sequence of operations.
LEMMA StagedType ==
  ASSUME NEW phase
  PROVE  Staged(phase) \in Seq(Op)
<1> DEFINE Each(kind) == ForEachRepository(kind)
<1>1. \A s, t \in Seq(Op) : s \o t \in Seq(Op)
  BY ConcatProperties
<1>2. {"create-repository", "enable-secret-scanning", "set-default-branch",
       "enable-code-scanning", "create-ruleset"} \subseteq ApplyKind
  BY DEF ApplyKind
<1>3. \A kind \in ApplyKind : Each(kind) \in Seq(Op)
  BY ForEachType
<1> HIDE DEF Each
<1>4. /\ Each("create-repository") \o Each("enable-secret-scanning") \in Seq(Op)
      /\ Each("set-default-branch") \o Each("enable-code-scanning")
           \o Each("create-ruleset") \in Seq(Op)
  BY <1>1, <1>2, <1>3
<1> QED BY <1>4 DEF Staged, Each

\* Writing to the remote, by a run or by somebody else, keeps its types.
LEMMA EffectType ==
  ASSUME GitHubTypeOK, NEW op \in Op, NEW plan \in Plans, Effect(op, plan)
  PROVE  GitHubTypeOK'
<1>1. op.repo \in Repo
  BY DEF Op
<1>2. CASE CreateRepository(op, plan)
  <2>1. PICK on \in BOOLEAN :
          remote' = [remote EXCEPT ![op.repo] =
                       NewRepository(plan, DesiredPrivate[plan][op.repo], on, None)]
    BY <1>2 DEF CreateRepository
  <2>2. DesiredPrivate[plan][op.repo] \in BOOLEAN
    BY <1>1, PlanAssumption
  <2>3. NewRepository(plan, DesiredPrivate[plan][op.repo], on, None) \in Repository
    BY <2>2 DEF NewRepository, Repository, GitHubTypeOK
  <2>4. remote' \in [Repo -> Repository \cup {None}]
    BY <1>1, <2>1, <2>3 DEF GitHubTypeOK
  <2> QED BY <1>2, <2>4 DEF CreateRepository, Effect, GitHubTypeOK
<1>3. CASE ChangeRepository(op, plan)
  <2>1. remote[op.repo] \in Repository
    BY <1>1, <1>3 DEF Effect, Accepts, ChangeRepository, Exists, GitHubTypeOK,
                      Op, ApplyKind
  <2> DEFINE written == [remote[op.repo] EXCEPT !.touched = @ \cup {plan}]
  <2>2. written \in Repository
    BY <2>1 DEF Repository
  <2>3. /\ [written EXCEPT !.secretScanning = TRUE] \in Repository
        /\ [written EXCEPT !.defaultBranch = TRUE] \in Repository
        /\ [written EXCEPT !.codeScanning = TRUE] \in Repository
        /\ [written EXCEPT !.ruleset = "approved"] \in Repository
    <3> HIDE DEF written
    <3> QED BY <2>2 DEF Repository
  <2>4. PICK repository \in Repository :
          remote' = [remote EXCEPT ![op.repo] = repository]
    <3> HIDE DEF written
    <3> QED BY <1>3, <2>3 DEF ChangeRepository, Op, ApplyKind, written
  <2>5. remote' \in [Repo -> Repository \cup {None}]
    BY <1>1, <2>4 DEF GitHubTypeOK
  <2> QED BY <1>3, <2>5 DEF ChangeRepository, Effect, GitHubTypeOK
<1> QED BY <1>2, <1>3 DEF Effect

\* A push leaves a repository of the right shape.
LEMMA PushType ==
  ASSUME GitHubTypeOK, NEW r \in Repo, NEW branch \in {"main", "dev"},
         NEW commit \in Nat, NEW plan \in Plans, Push(r, branch, commit, plan)
  PROVE  GitHubTypeOK'
<1>1. remote[r] \in Repository
  BY DEF Push, AcceptsPush, Exists, GitHubTypeOK
<1>2. [remote[r] EXCEPT ![branch] = commit, !.touched = @ \cup {plan}]
        \in Repository
  BY <1>1 DEF Repository
<1>3. remote' \in [Repo -> Repository \cup {None}]
  BY <1>2 DEF Push, GitHubTypeOK
<1> QED BY <1>3 DEF Push, GitHubTypeOK

\* So does what other people do on GitHub.
LEMMA OutsideType ==
  ASSUME GitHubTypeOK, OutsideNext
  PROVE  GitHubTypeOK'
<1>1. PICK r \in Repo : \/ OutsideCreate(r) \/ OutsideDelete(r)
                        \/ OutsideAlter(r) \/ OutsideDevelop(r)
  BY DEF OutsideNext
<1>2. CASE OutsideCreate(r)
  <2>1. PICK private \in BOOLEAN, head \in {None, 0} :
          remote' = [remote EXCEPT ![r] =
                       NewRepository(Elsewhere, private, TRUE, head)]
    BY <1>2 DEF OutsideCreate
  <2>2. NewRepository(Elsewhere, private, TRUE, head) \in Repository
    BY DEF NewRepository, Repository, GitHubTypeOK
  <2>3. remote' \in [Repo -> Repository \cup {None}]
    <3>1. PICK repository \in Repository :
            remote' = [remote EXCEPT ![r] = repository]
      BY <2>1, <2>2
    <3> QED BY <3>1 DEF GitHubTypeOK
  <2>4. nodes' = nodes + 1 /\ commits' = commits
    BY <1>2 DEF OutsideCreate
  <2> QED BY <2>3, <2>4 DEF GitHubTypeOK
<1>3. CASE OutsideDelete(r)
  BY <1>3 DEF OutsideDelete, GitHubTypeOK
<1>4. CASE OutsideAlter(r)
  <2>1. remote[r] \in Repository
    BY <1>4 DEF OutsideAlter, Exists, GitHubTypeOK
  <2>2. /\ [remote[r] EXCEPT !.secretScanning = FALSE] \in Repository
        /\ [remote[r] EXCEPT !.codeScanning = FALSE] \in Repository
        /\ [remote[r] EXCEPT !.defaultBranch = FALSE] \in Repository
        /\ [remote[r] EXCEPT !.ruleset = "altered"] \in Repository
    BY <2>1 DEF Repository
  <2> QED BY <1>4, <2>2 DEF OutsideAlter, GitHubTypeOK
<1>5. CASE OutsideDevelop(r)
  <2>1. remote[r] \in Repository
    BY <1>5 DEF OutsideDevelop, Exists, GitHubTypeOK
  <2>2. \A branch \in {"main", "dev"} :
          [remote[r] EXCEPT ![branch] = 0] \in Repository
    BY <2>1 DEF Repository
  <2> QED BY <1>5, <2>2 DEF OutsideDevelop, GitHubTypeOK
<1> QED BY <1>1, <1>2, <1>3, <1>4, <1>5

----------------------------------------------------------------------------
\* What the end of a command, or one more step of it, leaves well-typed.
Local == LedgerTypeOK /\ ApplyTypeOK /\ PublishTypeOK

\* A command that ends leaves the local state in shape.
LEMMA EndType ==
  ASSUME Local, NEW p \in Run, NEW how \in Exit, End(p, how),
         UNCHANGED <<job, todo, genesis>>,
         disk' \subseteq Receipt, scratch' = None \/ scratch' \subseteq Receipt,
         budget' \in 0..MaxFaults
  PROVE  Local'
<1>1. /\ mem' \in [Run -> SUBSET Receipt]
      /\ pc' \in [Run -> Step]
      /\ exit' \in [Run -> Exit]
  BY DEF Local, LedgerTypeOK, End, Step
<1>2. \A q \in Run : pc'[q] # "idle" => q # p /\ pc'[q] = pc[q]
  BY DEF Local, LedgerTypeOK, End
<1>3. LedgerTypeOK'
  BY <1>1, <1>2 DEF Local, LedgerTypeOK, Active
<1>4. ApplyTypeOK'
  BY <1>2 DEF Local, ApplyTypeOK, Applying, Active
<1>5. PublishTypeOK'
  BY <1>2 DEF Local, PublishTypeOK, Publishing, Active
<1> QED BY <1>3, <1>4, <1>5 DEF Local

\* A command that goes on does so too.
LEMMA GotoType ==
  ASSUME Local, NEW p \in Run, NEW step \in Step, pc' = [pc EXCEPT ![p] = step],
         UNCHANGED <<exit, job, todo, genesis>>, mem' \in [Run -> SUBSET Receipt],
         disk' \subseteq Receipt, scratch' = None \/ scratch' \subseteq Receipt,
         budget' \in 0..MaxFaults, Active(p),
         Applying(p) /\ step # "next" => todo[p] # <<>>,
         Publishing(p) /\ step # "build" => genesis[p] \in Nat
  PROVE  Local'
<1>1. pc' \in [Run -> Step]
  BY DEF Local, LedgerTypeOK
<1>2. \A q \in Run : Active(q)' => Active(q)
  BY DEF Local, LedgerTypeOK, Active
<1>3. /\ \A q \in Run \ {p} : pc'[q] = pc[q]
      /\ pc'[p] = step
  BY DEF Local, LedgerTypeOK
<1>4. LedgerTypeOK'
  BY <1>1, <1>2 DEF Local, LedgerTypeOK
<1>5. ApplyTypeOK'
  BY <1>2, <1>3 DEF Local, ApplyTypeOK, Applying
<1>6. PublishTypeOK'
  BY <1>2, <1>3 DEF Local, PublishTypeOK, Publishing
<1> QED BY <1>4, <1>5, <1>6 DEF Local

\* A receipt is written of something that is there.
LEMMA ReceiptType ==
  ASSUME GitHubTypeOK, NEW op \in Op, Present(op), NEW plan \in Plans
  PROVE  [id |-> op, plan |-> plan, mark |-> Fingerprint(op)] \in Receipt
<1>1. remote[op.repo] \in Repository
  BY DEF Present, Exists, GitHubTypeOK, Op
<1>2. remote[op.repo].node \in Nat
  BY <1>1 DEF Repository
<1>3. Fingerprint(op) \in Nat \cup {None}
  BY <1>2 DEF Fingerprint
<1>4. op \in ReceiptId
  BY DEF ReceiptId
<1> QED BY <1>3, <1>4 DEF Receipt

\* A remembered receipt is a receipt.
LEMMA RememberType ==
  ASSUME LedgerTypeOK, NEW p \in Run, NEW receipt \in Receipt, Remember(p, receipt)
  PROVE  mem' \in [Run -> SUBSET Receipt]
BY DEF LedgerTypeOK, Remember

\* Faults use up their bound and no more.
LEMMA FaultType ==
  ASSUME LedgerTypeOK, NEW kind, Fault(kind)
  PROVE  budget' \in 0..MaxFaults
BY LedgerAssumption DEF LedgerTypeOK, Fault

\* What a running command was started for.
LEMMA JobType ==
  ASSUME LedgerTypeOK, NEW p \in Run, Active(p)
  PROVE  /\ job[p].plan \in Plans
         /\ job[p].stage \in PHASES \/ job[p].stage = "publish"
         /\ ~(Applying(p) /\ Publishing(p))
<1>1. job[p] \in Job
  BY DEF LedgerTypeOK
<1> QED BY <1>1 DEF Job, Stage, PHASES, Applying, Publishing

\* The operation a run is at is an operation.
LEMMA CurrentType ==
  ASSUME ApplyTypeOK, NEW p \in Run, todo[p] # <<>>
  PROVE  Current(p) \in Op /\ Tail(todo[p]) \in Seq(Op)
<1>1. todo[p] \in Seq(Op)
  BY DEF ApplyTypeOK
<1> QED BY <1>1, HeadTailProperties DEF Current

\* An operation is passed and the command is back at the head of the loop.
LEMMA PassType ==
  ASSUME ApplyTypeOK, NEW p \in Run, todo[p] # <<>>, Pass(p),
         \A q \in Run : Applying(q)' => Applying(q),
         \A q \in Run : Applying(q)' /\ pc'[q] # "next" => q # p /\ pc'[q] = pc[q]
  PROVE  ApplyTypeOK'
<1>1. todo' \in [Run -> Seq(Op)]
  BY CurrentType DEF Pass, ApplyTypeOK
<1>2. \A q \in Run : q # p => todo'[q] = todo[q]
  BY DEF Pass, ApplyTypeOK
<1> QED BY <1>1, <1>2 DEF ApplyTypeOK

\* Every step of apply keeps the types.
LEMMA ApplyStepType ==
  ASSUME GitHubTypeOK, Local, NEW p \in Run, ApplyStep(p), UNCHANGED genesis
  PROVE  GitHubTypeOK' /\ Local'
<1>1. /\ disk \subseteq Receipt
      /\ scratch = None \/ scratch \subseteq Receipt
      /\ mem \in [Run -> SUBSET Receipt]
      /\ budget \in 0..MaxFaults
  BY DEF Local, LedgerTypeOK
<1>2. Active(p)
  BY DEF ApplyStep, AtOperation, Applying, Writing, Resume, RefuseResume,
         Observe, RefuseObserve, Write, WriteRefused, Reread, RefuseReread,
         RecordReceipt, CompleteApply
<1>3. /\ job[p].plan \in Plans
      /\ Applying(p) => ~Publishing(p)
  BY <1>2, JobType DEF Local
<1>4. todo[p] # <<>> => Current(p) \in Op
  BY CurrentType DEF Local
<1>5. Applying(p) /\ pc[p] # "next" => todo[p] # <<>>
  BY DEF Local, ApplyTypeOK
<1>6. UNCHANGED githubVars => GitHubTypeOK'
  BY DEF githubVars, GitHubTypeOK
<1>7. ASSUME NEW code \in Exit, Stop(p, code)
      PROVE  GitHubTypeOK' /\ Local'
  BY <1>1, <1>6, <1>7, EndType DEF Stop
<1>8. CASE Resume(p)
  <2>1. UNCHANGED <<disk, scratch, mem, pc, job, exit, budget>>
    BY <1>8 DEF Resume, ledgerVars
  <2>2. ApplyTypeOK'
    BY <1>8, <2>1, PassType DEF Resume, AtOperation, Applying, Active, Local
  <2> QED BY <1>6, <1>8, <2>1, <2>2
          DEF Resume, Local, LedgerTypeOK, PublishTypeOK, Publishing, Active
<1>9. CASE RefuseResume(p) \/ RefuseObserve(p) \/ WriteRefused(p)
           \/ RefuseReread(p) \/ CompleteApply(p)
  <2>1. \E code \in Exit : Stop(p, code)
    BY <1>9 DEF RefuseResume, RefuseObserve, WriteRefused, RefuseReread,
                CompleteApply, Exit
  <2> QED BY <1>7, <2>1
<1>10. CASE Observe(p)
  <2>1. /\ pc' = [pc EXCEPT ![p] = "write"]
        /\ UNCHANGED <<exit, job, todo, genesis, mem, disk, scratch, budget>>
        /\ Applying(p) /\ todo[p] # <<>>
        /\ UNCHANGED githubVars
    BY <1>10 DEF Observe, AtOperation, Goto
  <2> QED BY <1>1, <1>2, <1>3, <1>6, <2>1, GotoType DEF Step
<1>11. CASE Write(p)
  <2>1. /\ pc' = [pc EXCEPT ![p] = "reread"]
        /\ UNCHANGED <<exit, job, todo, genesis, mem, disk, scratch, budget>>
        /\ Applying(p) /\ pc[p] = "write"
        /\ Effect(Current(p), job[p].plan)
    BY <1>11 DEF Write, Writing, Goto
  <2>2. GitHubTypeOK'
    BY <1>3, <1>4, <1>5, <2>1, EffectType
  <2> QED BY <1>1, <1>2, <1>3, <1>5, <2>1, <2>2, GotoType DEF Step
<1>12. CASE Reread(p)
  <2> DEFINE receipt == [id |-> Current(p), plan |-> job[p].plan,
                         mark |-> Fingerprint(Current(p))]
  <2>1. /\ pc' = [pc EXCEPT ![p] = "record"]
        /\ UNCHANGED <<exit, job, todo, genesis, disk, scratch, budget>>
        /\ Applying(p) /\ pc[p] = "reread"
        /\ Present(Current(p))
        /\ Remember(p, receipt)
        /\ UNCHANGED githubVars
    BY <1>12 DEF Reread, Verified
  <2>2. receipt \in Receipt
    BY <1>3, <1>4, <1>5, <2>1, ReceiptType
  <2> HIDE DEF receipt
  <2>3. mem' \in [Run -> SUBSET Receipt]
    BY <2>1, <2>2, RememberType DEF Local
  <2> QED BY <1>1, <1>2, <1>3, <1>5, <1>6, <2>1, <2>3, GotoType DEF Step
<1>13. CASE RecordReceipt(p)
  <2>1. Applying(p) /\ GitHubTypeOK'
    BY <1>6, <1>13 DEF RecordReceipt
  <2>2. CASE WriteScratch(p) /\ UNCHANGED todo
    <3>1. /\ pc' = [pc EXCEPT ![p] = "replace"]
          /\ UNCHANGED <<exit, job, mem, disk, budget>>
          /\ pc[p] = "record"
          /\ scratch' \subseteq Receipt
      BY <1>1, <2>2 DEF WriteScratch, Goto
    <3> QED BY <1>1, <1>2, <1>3, <1>5, <2>1, <2>2, <3>1, GotoType DEF Step
  <2>3. CASE ReplaceLedger(p, "next") /\ Pass(p)
    <3>1. /\ pc' = [pc EXCEPT ![p] = "next"]
          /\ UNCHANGED <<exit, job, mem, budget>>
          /\ pc[p] = "replace"
          /\ disk' \subseteq Receipt
          /\ scratch' = None
      BY <1>1, <2>3 DEF ReplaceLedger, Goto
    <3>2. /\ \A q \in Run : Active(q)' => Active(q)
          /\ \A q \in Run \ {p} : pc'[q] = pc[q]
          /\ pc'[p] = "next"
          /\ pc' \in [Run -> Step]
      BY <1>2, <3>1 DEF Local, LedgerTypeOK, Active, Step
    <3>3. LedgerTypeOK'
      BY <1>1, <3>1, <3>2 DEF Local, LedgerTypeOK
    <3>4. ApplyTypeOK'
      <4>1. todo[p] # <<>>
        BY <1>5, <2>1, <3>1
      <4>2. /\ \A q \in Run : Applying(q)' => Applying(q)
            /\ \A q \in Run : Applying(q)' /\ pc'[q] # "next" =>
                 q # p /\ pc'[q] = pc[q]
        BY <3>1, <3>2 DEF Applying
      <4> QED BY <2>3, <4>1, <4>2, PassType DEF Local
    <3>5. PublishTypeOK'
      BY <1>3, <2>1, <3>1, <3>2 DEF Local, PublishTypeOK, Publishing, Applying
    <3> QED BY <2>1, <3>3, <3>4, <3>5 DEF Local
  <2>4. CASE ReplaceMissing(p) /\ UNCHANGED todo
    <3>1. "FileNotFoundError" \in Exit
      BY DEF Exit
    <3> QED BY <1>1, <2>1, <2>4, <3>1, EndType DEF ReplaceMissing
  <2> QED BY <1>13, <2>2, <2>3, <2>4 DEF RecordReceipt
<1> QED BY <1>8, <1>9, <1>10, <1>11, <1>12, <1>13 DEF ApplyStep

\* Every failure of apply does so too.
LEMMA ApplyFaultType ==
  ASSUME GitHubTypeOK, Local, NEW p \in Run, ApplyFault(p), UNCHANGED genesis
  PROVE  GitHubTypeOK' /\ Local'
<1>1. /\ disk \subseteq Receipt
      /\ scratch = None \/ scratch \subseteq Receipt
      /\ mem \in [Run -> SUBSET Receipt]
  BY DEF Local, LedgerTypeOK
<1>2. Applying(p) /\ Active(p) /\ UNCHANGED <<disk, scratch, job, todo>>
  BY DEF ApplyFault, WriteReplyLost, WriteWithoutEffect, CallFails, Writing,
         Applying
<1>3. job[p].plan \in Plans /\ ~Publishing(p)
  BY <1>2, JobType DEF Local
<1>4. budget' \in 0..MaxFaults
  BY FaultType DEF ApplyFault, WriteReplyLost, WriteWithoutEffect, CallFails,
                   Local
<1>5. ASSUME NEW how \in Exit, End(p, how)
      PROVE  Local'
  BY <1>1, <1>2, <1>4, <1>5, EndType
<1>6. UNCHANGED githubVars => GitHubTypeOK'
  BY DEF githubVars, GitHubTypeOK
<1>7. CASE WriteReplyLost(p)
  <2>1. todo[p] # <<>>
    BY <1>7 DEF WriteReplyLost, Writing, Local, ApplyTypeOK
  <2>2. Current(p) \in Op
    BY <2>1, CurrentType DEF Local
  <2>3. GitHubTypeOK'
    BY <1>3, <1>7, <2>2, EffectType DEF WriteReplyLost
  <2> QED BY <1>5, <1>7, <2>3 DEF WriteReplyLost, Exit
<1>8. CASE WriteWithoutEffect(p)
  <2>1. /\ pc' = [pc EXCEPT ![p] = "reread"]
        /\ UNCHANGED <<exit, mem, githubVars>>
        /\ pc[p] = "write"
    BY <1>8 DEF WriteWithoutEffect, Writing, Goto
  <2>2. todo[p] # <<>>
    BY <1>2, <2>1 DEF Local, ApplyTypeOK
  <2> QED BY <1>1, <1>2, <1>3, <1>4, <1>6, <2>1, <2>2, GotoType DEF Step
<1>9. CASE CallFails(p)
  <2>1. \E how \in Exit : End(p, how)
    BY <1>9 DEF CallFails, Exit
  <2> QED BY <1>5, <1>6, <1>9, <2>1 DEF CallFails
<1> QED BY <1>7, <1>8, <1>9 DEF ApplyFault

\* Every step and failure of publish and refresh does so too.
LEMMA PublishStepType ==
  ASSUME GitHubTypeOK, Local, NEW p \in Run, UNCHANGED todo,
         PublishStep(p) \/ PublishFault(p)
  PROVE  GitHubTypeOK' /\ Local'
<1>1. /\ disk \subseteq Receipt
      /\ scratch = None \/ scratch \subseteq Receipt
      /\ mem \in [Run -> SUBSET Receipt]
      /\ budget \in 0..MaxFaults
  BY DEF Local, LedgerTypeOK
<1>2. Publishing(p) /\ Active(p) /\ UNCHANGED job
  BY DEF PublishStep, PublishFault, Build, PushBranch, PushRejected, ListRemote,
         ListDisagrees, RecordPublish, WriteScratch, ReplaceMissing, PublishFails,
         CallFailsInPublish, PushReplyLost, AtPush, At, Publishing
<1>3. job[p].plan \in Plans /\ ~Applying(p)
  BY <1>2, JobType DEF Local
<1>4. /\ job[p].repo \in Repo
      /\ pc[p] # "build" => genesis[p] \in Nat
  BY <1>2 DEF Local, PublishTypeOK
<1>5. \A kind : Fault(kind) => budget' \in 0..MaxFaults
  BY FaultType DEF Local
<1>6. UNCHANGED githubVars => GitHubTypeOK'
  BY DEF githubVars, GitHubTypeOK
<1>7. "PublishError" \in Exit /\ "completed" \in Exit /\ "FileNotFoundError" \in Exit
  BY DEF Exit
<1>8. CASE Build(p)
  <2>1. /\ pc' = [pc EXCEPT ![p] = "push main"]
        /\ genesis' = [genesis EXCEPT ![p] = commits + 1]
        /\ UNCHANGED <<remote, nodes, exit, mem, disk, scratch, job, budget>>
        /\ commits' = commits + 1
    BY <1>8 DEF Build, Goto
  <2>9. commits + 1 \in Nat
    BY DEF GitHubTypeOK
  <2>10. UNCHANGED <<remote, nodes>> /\ commits' \in Nat
    BY <2>1, <2>9
  <2>2. GitHubTypeOK'
    BY <2>10 DEF GitHubTypeOK
  <2>3. /\ pc' \in [Run -> Step]
        /\ \A q \in Run : Active(q)' => Active(q)
        /\ \A q \in Run \ {p} : pc'[q] = pc[q]
    BY <1>2, <2>1 DEF Local, LedgerTypeOK, Active, Step
  <2>4. LedgerTypeOK'
    BY <1>1, <2>1, <2>3 DEF Local, LedgerTypeOK
  <2>5. ApplyTypeOK'
    BY <1>3, <2>1, <2>3 DEF Local, ApplyTypeOK, Applying
  <2>6. /\ genesis' \in [Run -> Nat \cup {None}]
        /\ genesis'[p] \in Nat
        /\ \A q \in Run \ {p} : genesis'[q] = genesis[q]
    <3>1. genesis \in [Run -> Nat \cup {None}]
      BY DEF Local, PublishTypeOK
    <3>2. PICK commit \in Nat : genesis' = [genesis EXCEPT ![p] = commit]
      BY <2>1, <2>9
    <3> QED BY <3>1, <3>2
  <2>7. PublishTypeOK'
    BY <1>4, <2>1, <2>3, <2>6 DEF Local, PublishTypeOK, Publishing
  <2> QED BY <2>2, <2>4, <2>5, <2>7 DEF Local
<1>9. CASE AtPush(p) /\ Push(job[p].repo, BranchPushed(p), genesis[p], job[p].plan)
           /\ (PushBranch(p) \/ PushReplyLost(p))
  <2>1. genesis[p] \in Nat
    BY <1>4, <1>9 DEF AtPush, At
  <2>2. BranchPushed(p) \in {"main", "dev"}
    BY DEF BranchPushed
  <2>3. GitHubTypeOK'
    BY <1>3, <1>4, <1>9, <2>1, <2>2, PushType
  <2>4. CASE PushBranch(p)
    <3>1. \E step \in {"push dev", "list"} : pc' = [pc EXCEPT ![p] = step]
      BY <2>4 DEF PushBranch, Goto
    <3>2. UNCHANGED <<exit, mem, disk, scratch, job, budget, genesis>>
      BY <2>4 DEF PushBranch, Goto
    <3> QED BY <1>1, <1>2, <1>3, <2>1, <2>3, <3>1, <3>2, GotoType DEF Step
  <2>5. CASE PushReplyLost(p)
    BY <1>1, <1>5, <1>7, <2>3, <2>5, EndType DEF PushReplyLost, PublishFails
  <2> QED BY <1>9, <2>4, <2>5
<1>10. CASE PushRejected(p) \/ ListDisagrees(p) \/ CallFailsInPublish(p)
  <2>1. PublishFails(p) /\ UNCHANGED githubVars /\ budget' \in 0..MaxFaults
    BY <1>1, <1>5, <1>10 DEF PushRejected, ListDisagrees, CallFailsInPublish
  <2> QED BY <1>1, <1>6, <1>7, <2>1, EndType DEF PublishFails
<1>11. CASE ListRemote(p)
  <2> DEFINE receipt == [id |-> PublishId(job[p].repo), plan |-> job[p].plan,
                         mark |-> genesis[p]]
  <2>1. /\ pc' = [pc EXCEPT ![p] = "record"]
        /\ UNCHANGED <<exit, disk, scratch, job, budget, genesis, githubVars>>
        /\ pc[p] = "list"
        /\ Remember(p, receipt)
    BY <1>11 DEF ListRemote, At
  <2>2. receipt \in Receipt
    BY <1>3, <1>4, <2>1 DEF Receipt, ReceiptId, PublishIds
  <2> HIDE DEF receipt
  <2>3. mem' \in [Run -> SUBSET Receipt]
    BY <2>1, <2>2, RememberType DEF Local
  <2> QED BY <1>1, <1>2, <1>3, <1>4, <1>6, <2>1, <2>3, GotoType DEF Step
<1>12. CASE RecordPublish(p)
  <2>1. GitHubTypeOK' /\ UNCHANGED genesis
    BY <1>6, <1>12 DEF RecordPublish
  <2>2. CASE WriteScratch(p)
    <3>1. /\ pc' = [pc EXCEPT ![p] = "replace"]
          /\ UNCHANGED <<exit, job, mem, disk, budget>>
          /\ pc[p] = "record"
          /\ scratch' \subseteq Receipt
      BY <1>1, <2>2 DEF WriteScratch, Goto
    <3> QED BY <1>1, <1>2, <1>3, <1>4, <2>1, <3>1, GotoType DEF Step
  <2>3. CASE scratch # None /\ disk' = scratch /\ scratch' = None
             /\ End(p, "completed") /\ UNCHANGED <<job, budget>>
    BY <1>1, <1>7, <2>1, <2>3, EndType
  <2>4. CASE ReplaceMissing(p)
    BY <1>1, <1>7, <2>1, <2>4, EndType DEF ReplaceMissing
  <2> QED BY <1>12, <2>2, <2>3, <2>4 DEF RecordPublish
<1> QED BY <1>8, <1>9, <1>10, <1>11, <1>12
        DEF PublishStep, PublishFault, PushBranch, PushReplyLost

\* A command that starts, or that is refused when it starts.
LEMMA StartType ==
  ASSUME GitHubTypeOK, Local, NEW p \in Run, NEW plan \in Plans,
         \/ \E phase \in PHASES : BeginApply(p, plan, phase)
         \/ \E r \in Repo : BeginPublish(p, plan, r)
  PROVE  GitHubTypeOK' /\ Local'
<1>1. GitHubTypeOK'
  BY DEF BeginApply, BeginPublish, StartApply, RefuseApply, StartPublish,
         ResumePublish, RefusePublish, githubVars, GitHubTypeOK
<1>2. ~Active(p)
  BY DEF BeginApply, BeginPublish, StartApply, RefuseApply, StartPublish,
         ResumePublish, RefusePublish, MayStart
<1>3. ASSUME NEW newJob \in Job, NEW step \in Step, Open(p, newJob, step),
             UNCHANGED <<disk, scratch, budget>>
      PROVE  /\ LedgerTypeOK'
             /\ pc'[p] = step /\ job'[p] = newJob
             /\ \A q \in Run \ {p} : pc'[q] = pc[q] /\ job'[q] = job[q]
  <2>1. /\ mem' \in [Run -> SUBSET Receipt]
        /\ pc' \in [Run -> Step]
        /\ job' \in [Run -> Job \cup {None}]
        /\ exit' \in [Run -> Exit]
    BY <1>3 DEF Local, LedgerTypeOK, Open, Exit
  <2>2. /\ pc'[p] = step /\ job'[p] = newJob
        /\ \A q \in Run \ {p} : pc'[q] = pc[q] /\ job'[q] = job[q]
    BY <1>3 DEF Local, LedgerTypeOK, Open
  <2> QED BY <1>3, <2>1, <2>2 DEF Local, LedgerTypeOK, Active
<1>4. CASE \E phase \in PHASES :
             StartApply(p, plan, phase) /\ UNCHANGED genesis
  <2>1. PICK phase \in PHASES : StartApply(p, plan, phase) /\ UNCHANGED genesis
    BY <1>4
  <2> DEFINE newJob == [plan |-> plan, stage |-> phase, repo |-> None]
  <2>2. /\ newJob \in Job /\ newJob.stage = phase /\ newJob.stage # "publish"
        /\ "next" \in Step
    BY DEF Job, Stage, PHASES, Step
  <2>3. /\ Open(p, newJob, "next")
        /\ todo' = [todo EXCEPT ![p] = Staged(phase)]
        /\ UNCHANGED <<disk, scratch, budget, genesis>>
    BY <2>1 DEF StartApply
  <2> HIDE DEF newJob
  <2>4. /\ LedgerTypeOK'
        /\ pc'[p] = "next" /\ job'[p] = newJob
        /\ \A q \in Run \ {p} : pc'[q] = pc[q] /\ job'[q] = job[q]
    BY <1>3, <2>2, <2>3
  <2>5. /\ todo' \in [Run -> Seq(Op)]
        /\ \A q \in Run \ {p} : todo'[q] = todo[q]
    BY <2>3, StagedType DEF Local, ApplyTypeOK
  <2>6. ApplyTypeOK'
    BY <2>4, <2>5 DEF Local, ApplyTypeOK, Applying, Active
  <2>7. PublishTypeOK'
    BY <2>2, <2>3, <2>4 DEF Local, PublishTypeOK, Publishing, Active
  <2> QED BY <1>1, <2>4, <2>6, <2>7 DEF Local
<1>5. CASE \E r \in Repo : StartPublish(p, plan, r) /\ UNCHANGED todo
  <2>1. PICK r \in Repo : StartPublish(p, plan, r) /\ UNCHANGED todo
    BY <1>5
  <2> DEFINE newJob == PublishJob(plan, r)
  <2>2. /\ newJob \in Job /\ newJob.repo = r /\ newJob.stage \notin PHASES
        /\ "build" \in Step
    BY DEF Job, Stage, PHASES, Step, PublishJob
  <2>3. /\ Open(p, newJob, "build")
        /\ genesis' = [genesis EXCEPT ![p] = None]
        /\ UNCHANGED <<disk, scratch, budget, todo>>
    BY <2>1 DEF StartPublish
  <2> HIDE DEF newJob
  <2>4. /\ LedgerTypeOK'
        /\ pc'[p] = "build" /\ job'[p] = newJob
        /\ \A q \in Run \ {p} : pc'[q] = pc[q] /\ job'[q] = job[q]
    BY <1>3, <2>2, <2>3
  <2>5. /\ genesis' \in [Run -> Nat \cup {None}]
        /\ \A q \in Run \ {p} : genesis'[q] = genesis[q]
    BY <2>3 DEF Local, PublishTypeOK
  <2>6. ApplyTypeOK'
    BY <2>2, <2>3, <2>4 DEF Local, ApplyTypeOK, Applying, Active
  <2>7. PublishTypeOK'
    BY <2>2, <2>4, <2>5 DEF Local, PublishTypeOK, Publishing, Active
  <2> QED BY <1>1, <2>4, <2>6, <2>7 DEF Local
<1>6. CASE UNCHANGED <<disk, scratch, mem, pc, budget, todo, genesis>>
           /\ job' \in [Run -> Job \cup {None}]
           /\ (\A q \in Run \ {p} : job'[q] = job[q])
           /\ exit' \in [Run -> Exit]
  <2>1. \A q \in Run : Active(q)' => q # p /\ Active(q)
    BY <1>2, <1>6 DEF Active
  <2>2. LedgerTypeOK'
    BY <1>6, <2>1 DEF Local, LedgerTypeOK
  <2>3. ApplyTypeOK' /\ PublishTypeOK'
    BY <1>6, <2>1 DEF Local, ApplyTypeOK, PublishTypeOK, Applying, Publishing
  <2> QED BY <1>1, <2>2, <2>3 DEF Local
<1>7. CASE \E r \in Repo : ResumePublish(p, plan, r) /\ UNCHANGED todo
  <2>1. PICK r \in Repo : ResumePublish(p, plan, r) /\ UNCHANGED todo
    BY <1>7
  <2>2. PublishJob(plan, r) \in Job
    BY DEF Job, Stage, PublishJob
  <2>3. /\ job' \in [Run -> Job \cup {None}]
        /\ \A q \in Run \ {p} : job'[q] = job[q]
    BY <2>1, <2>2 DEF ResumePublish, Local, LedgerTypeOK
  <2>4. exit' \in [Run -> Exit]
    BY <2>1 DEF ResumePublish, Local, LedgerTypeOK, Exit
  <2> QED BY <1>6, <2>1, <2>3, <2>4 DEF ResumePublish
<1>8. CASE UNCHANGED <<todo, genesis>>
           /\ (RefusePublish(p, plan)
               \/ \E phase \in PHASES : RefuseApply(p, plan, phase))
  <2>1. exit' \in [Run -> Exit]
    BY <1>8 DEF RefusePublish, RefuseApply, Local, LedgerTypeOK, Exit
  <2>2. UNCHANGED <<disk, scratch, mem, pc, budget, job>>
    BY <1>8 DEF RefusePublish, RefuseApply
  <2>3. job \in [Run -> Job \cup {None}]
    BY DEF Local, LedgerTypeOK
  <2> QED BY <1>6, <1>8, <2>1, <2>2, <2>3
<1> QED BY <1>4, <1>5, <1>7, <1>8
        DEF BeginApply, BeginPublish, RefusePublish, RefuseApply

----------------------------------------------------------------------------
(***************************************************************************)
(* Type correctness: every reachable state has the shape TypeOK gives, for *)
(* any plans, repositories, runs, faults and outsiders.                    *)
(***************************************************************************)
THEOREM TypeCorrect == Spec => []TypeOK
<1>1. Init => TypeOK
  <2> SUFFICES ASSUME Init PROVE TypeOK
    OBVIOUS
  <2>1. GitHubTypeOK
    BY DEF Init, GitHubInit, GitHubTypeOK
  <2>2. LedgerTypeOK
    BY LedgerAssumption DEF Init, LedgerInit, LedgerTypeOK, Step, Exit, Active
  <2>3. ApplyTypeOK /\ PublishTypeOK
    BY DEF Init, LedgerInit, ApplyInit, PublishInit, ApplyTypeOK, PublishTypeOK,
           Applying, Publishing, Active
  <2> QED BY <2>1, <2>2, <2>3 DEF Init, TypeOK
<1>2. TypeOK /\ [Next]_vars => TypeOK'
  <2> SUFFICES ASSUME TypeOK, [Next]_vars PROVE TypeOK'
    OBVIOUS
  <2>1. GitHubTypeOK /\ Local
    BY DEF TypeOK, Local
  <2>2. /\ reported \subseteq (Plans \X PHASES)
        /\ results \subseteq Plans
    BY DEF TypeOK
  <2>3. ASSUME GitHubTypeOK', Local', UNCHANGED operatorVars
        PROVE  TypeOK'
    BY <2>2, <2>3 DEF TypeOK, Local, operatorVars
  <2>4. UNCHANGED <<ledgerVars, todo, genesis>> => Local'
    <3> SUFFICES ASSUME UNCHANGED <<ledgerVars, todo, genesis>> PROVE Local'
      OBVIOUS
    <3>1. UNCHANGED <<disk, scratch, mem, pc, job, exit, budget>>
      BY DEF ledgerVars
    <3> QED BY <2>1, <3>1 DEF Local, LedgerTypeOK, ApplyTypeOK, PublishTypeOK,
                              Applying, Publishing, Active
  <2>5. UNCHANGED githubVars => GitHubTypeOK'
    BY <2>1 DEF githubVars, GitHubTypeOK
  <2>6. CASE UNCHANGED vars
    BY <2>3, <2>4, <2>5, <2>6 DEF vars, operatorVars
  <2>7. CASE Operate
    <3>1. PICK plan \in Plans :
            \/ BuildResult(plan)
            \/ \E p \in Run, phase \in PHASES : BeginApply(p, plan, phase)
            \/ \E p \in Run, r \in Repo : BeginPublish(p, plan, r)
      BY <2>7 DEF Operate
    <3>2. CASE BuildResult(plan)
      BY <2>1, <2>2, <2>4, <2>5, <3>2 DEF BuildResult, TypeOK, Local
    <3>3. CASE \/ \E p \in Run, phase \in PHASES : BeginApply(p, plan, phase)
               \/ \E p \in Run, r \in Repo : BeginPublish(p, plan, r)
      <4>1. GitHubTypeOK' /\ Local'
        BY <2>1, <3>3, StartType
      <4>2. UNCHANGED operatorVars
        BY <3>3 DEF BeginApply, BeginPublish
      <4> QED BY <2>3, <4>1, <4>2
    <3> QED BY <3>1, <3>2, <3>3
  <2>8. CASE \E p \in Run : ContinueApply(p) \/ ContinuePublish(p)
    <3>1. PICK p \in Run : ContinueApply(p) \/ ContinuePublish(p)
      BY <2>8
    <3>2. CASE ContinueApply(p)
      <4>1. GitHubTypeOK' /\ Local'
        BY <2>1, <3>2, ApplyStepType DEF ContinueApply
      <4>2. job[p].plan \in Plans /\ job[p].stage \in PHASES
        <5>1. Applying(p)
          BY <3>2 DEF ContinueApply, ApplyStep, AtOperation, Writing, Resume,
                      RefuseResume, Observe, RefuseObserve, Write, WriteRefused,
                      Reread, RefuseReread, RecordReceipt, CompleteApply
        <5> QED BY <2>1, <5>1, JobType DEF Applying, Local
      <4>3. reported' \subseteq (Plans \X PHASES) /\ results' = results
        BY <2>2, <3>2, <4>2 DEF ContinueApply
      <4> QED BY <2>2, <4>1, <4>3 DEF TypeOK, Local
    <3>3. CASE ContinuePublish(p)
      BY <2>1, <2>3, <3>3, PublishStepType DEF ContinuePublish
    <3> QED BY <3>1, <3>2, <3>3
  <2>9. CASE GoWrong
    <3>1. PICK p \in Run :
            \/ ApplyFault(p) /\ UNCHANGED <<genesis, operatorVars>>
            \/ PublishFault(p) /\ UNCHANGED <<todo, operatorVars>>
            \/ Crash(p) /\ UNCHANGED <<githubVars, todo, genesis, operatorVars>>
      BY <2>9 DEF GoWrong
    <3>2. CASE Crash(p) /\ UNCHANGED <<githubVars, todo, genesis, operatorVars>>
      <4>1. budget' \in 0..MaxFaults
        BY <2>1, <3>2, FaultType DEF Crash, Local
      <4>2. /\ disk \subseteq Receipt
            /\ scratch = None \/ scratch \subseteq Receipt
        BY <2>1 DEF Local, LedgerTypeOK
      <4>3. "crashed" \in Exit /\ End(p, "crashed")
            /\ UNCHANGED <<disk, scratch, job, todo, genesis>>
        BY <3>2 DEF Exit, Crash
      <4>4. Local'
        BY <2>1, <4>1, <4>2, <4>3, EndType
      <4> QED BY <2>3, <2>5, <3>2, <4>4
    <3> QED BY <2>1, <2>3, <3>1, <3>2, ApplyFaultType, PublishStepType
  <2>10. CASE OutsideNext /\ UNCHANGED <<ledgerVars, todo, genesis, operatorVars>>
    BY <2>1, <2>3, <2>4, <2>10, OutsideType
  <2> QED BY <2>6, <2>7, <2>8, <2>9, <2>10 DEF Next
<1> QED BY <1>1, <1>2, PTL DEF Spec

----------------------------------------------------------------------------
(***************************************************************************)
(* The ledger file is readable because every copy of it is: the one on     *)
(* disk, the one in the scratch file, which can be any run's, and the one  *)
(* in the memory of each run, whose rows are all of the run's own plan.    *)
(***************************************************************************)
LedgerInv ==
  /\ Loadable(disk)
  /\ scratch # None => Loadable(scratch)
  /\ \A p \in Run : Loadable(mem[p])
  /\ \A p \in Run : Active(p) => OwnedBy(mem[p], job[p].plan)

\* The ways in which a step can change the ledger, its copies and their owners.
NothingWritten ==
  /\ UNCHANGED <<disk, scratch, mem>>
  /\ \A p \in Run : Active(p)' => Active(p) /\ job'[p] = job[p]

CommandEnds(p) ==
  /\ \E how : End(p, how)
  /\ UNCHANGED <<disk, scratch, job>>

CommandOpens(p) ==
  \/ \E plan \in Plans, phase \in PHASES : StartApply(p, plan, phase)
  \/ \E plan \in Plans, r \in Repo :
       /\ InOrder => <<plan, "before-files">> \in reported
       /\ StartPublish(p, plan, r)

CommandRemembers(p) ==
  /\ Reread(p) \/ ListRemote(p)
  /\ Active(p)
  /\ \E receipt : receipt.plan = job[p].plan /\ Remember(p, receipt)
  /\ \A q \in Run : Active(q)' => Active(q)
  /\ UNCHANGED <<disk, scratch, job>>

CommandReplaces(p) ==
  /\ scratch # None
  /\ disk' = scratch
  /\ scratch' = None
  /\ job' = job
  /\ \/ mem' = mem /\ \A q \in Run : Active(q)' => Active(q)
     \/ \E how : End(p, how)

\* What a step can do to the ledger, whatever command takes it.
LEMMA LedgerMoves ==
  ASSUME TypeOK, [Next]_vars
  PROVE  \/ NothingWritten
         \/ \E p \in Run : \/ CommandEnds(p) \/ CommandOpens(p)
                           \/ CommandRemembers(p) \/ CommandReplaces(p)
                           \/ WriteScratch(p)
<1>1. /\ pc \in [Run -> Step]
      /\ job \in [Run -> Job \cup {None}]
  BY DEF TypeOK, LedgerTypeOK
<1>2. ASSUME UNCHANGED <<disk, scratch, mem, pc, job>>
      PROVE  NothingWritten
  BY <1>2 DEF NothingWritten, Active
<1>3. ASSUME NEW p \in Run, Active(p), NEW step, pc' = [pc EXCEPT ![p] = step]
      PROVE  \A q \in Run : Active(q)' => Active(q)
  BY <1>1, <1>3 DEF Active
<1>4. ASSUME NEW p \in Run, Active(p), NEW step, Goto(p, step),
             UNCHANGED <<disk, scratch, job>>
      PROVE  NothingWritten
  <2>1. \A q \in Run : Active(q)' => Active(q)
    BY <1>3, <1>4 DEF Goto
  <2> QED BY <1>4, <2>1 DEF Goto, NothingWritten
<1>5. CASE UNCHANGED vars
  BY <1>2, <1>5 DEF vars, ledgerVars
<1>6. CASE Operate
  <2>1. PICK plan \in Plans :
          \/ BuildResult(plan)
          \/ \E p \in Run, phase \in PHASES : BeginApply(p, plan, phase)
          \/ \E p \in Run, r \in Repo : BeginPublish(p, plan, r)
    BY <1>6 DEF Operate
  <2>2. CASE BuildResult(plan)
    BY <1>2, <2>2 DEF BuildResult, ledgerVars
  <2>3. CASE \E p \in Run, phase \in PHASES : BeginApply(p, plan, phase)
    <3>1. PICK p \in Run, phase \in PHASES :
            StartApply(p, plan, phase) \/ RefuseApply(p, plan, phase)
      BY <2>3 DEF BeginApply
    <3>2. CASE StartApply(p, plan, phase)
      BY <3>2 DEF CommandOpens
    <3>3. CASE RefuseApply(p, plan, phase)
      BY <1>2, <3>3 DEF RefuseApply
    <3> QED BY <3>1, <3>2, <3>3
  <2>4. CASE \E p \in Run, r \in Repo : BeginPublish(p, plan, r)
    <3>1. PICK p \in Run, r \in Repo :
            /\ InOrder => <<plan, "before-files">> \in reported
            /\ \/ StartPublish(p, plan, r)
               \/ ResumePublish(p, plan, r)
               \/ RefusePublish(p, plan)
      BY <2>4 DEF BeginPublish
    <3>2. CASE StartPublish(p, plan, r)
      BY <3>1, <3>2 DEF CommandOpens
    <3>3. CASE ResumePublish(p, plan, r)
      <4>1. ~Active(p) /\ UNCHANGED <<disk, scratch, mem, pc>>
        BY <3>3 DEF ResumePublish, MayStart
      <4>2. \A q \in Run \ {p} : job'[q] = job[q]
        BY <1>1, <3>3 DEF ResumePublish
      <4> QED BY <4>1, <4>2 DEF NothingWritten, Active
    <3>4. CASE RefusePublish(p, plan)
      BY <1>2, <3>4 DEF RefusePublish
    <3> QED BY <3>1, <3>2, <3>3, <3>4
  <2> QED BY <2>1, <2>2, <2>3, <2>4
<1>7. CASE \E p \in Run : ContinueApply(p)
  <2>1. PICK p \in Run : ApplyStep(p)
    BY <1>7 DEF ContinueApply
  <2>2. Active(p)
    BY <2>1 DEF ApplyStep, AtOperation, Applying, Writing, Resume, RefuseResume,
                Observe, RefuseObserve, Write, WriteRefused, Reread, RefuseReread,
                RecordReceipt, CompleteApply
  <2>3. CASE Resume(p)
    BY <1>2, <2>3 DEF Resume, ledgerVars
  <2>4. CASE RefuseResume(p) \/ RefuseObserve(p) \/ WriteRefused(p)
             \/ RefuseReread(p) \/ CompleteApply(p)
    <3>1. CommandEnds(p)
      BY <2>4 DEF RefuseResume, RefuseObserve, WriteRefused, RefuseReread,
                  CompleteApply, Stop, CommandEnds
    <3> QED BY <3>1
  <2>5. CASE Observe(p) \/ Write(p)
    BY <1>4, <2>2, <2>5 DEF Observe, Write
  <2>6. CASE Reread(p)
    <3>1. \A q \in Run : Active(q)' => Active(q)
      BY <1>3, <2>2, <2>6 DEF Reread
    <3> QED BY <2>2, <2>6, <3>1 DEF Reread, CommandRemembers
  <2>7. CASE RecordReceipt(p)
    <3>1. CASE WriteScratch(p)
      BY <3>1
    <3>2. CASE ReplaceLedger(p, "next")
      <4>1. \A q \in Run : Active(q)' => Active(q)
        BY <1>3, <2>2, <3>2 DEF ReplaceLedger, Goto
      <4> QED BY <3>2, <4>1 DEF ReplaceLedger, Goto, CommandReplaces
    <3>3. CASE ReplaceMissing(p)
      BY <3>3 DEF ReplaceMissing, CommandEnds
    <3> QED BY <2>7, <3>1, <3>2, <3>3 DEF RecordReceipt
  <2> QED BY <2>1, <2>3, <2>4, <2>5, <2>6, <2>7 DEF ApplyStep
<1>8. ASSUME NEW p \in Run, PublishStep(p) \/ PublishFault(p)
      PROVE  NothingWritten \/ CommandEnds(p) \/ CommandRemembers(p)
               \/ CommandReplaces(p) \/ WriteScratch(p)
  <2>1. Active(p)
    BY <1>8 DEF PublishStep, PublishFault, Build, PushBranch, PushRejected,
                ListRemote, ListDisagrees, RecordPublish, CallFailsInPublish,
                PushReplyLost, AtPush, At, Publishing
  <2>2. CASE Build(p) \/ PushBranch(p)
    BY <1>4, <2>1, <2>2 DEF Build, PushBranch
  <2>3. CASE PushRejected(p) \/ ListDisagrees(p) \/ PublishFault(p)
    BY <2>3 DEF PushRejected, ListDisagrees, PublishFault, CallFailsInPublish,
                PushReplyLost, PublishFails, CommandEnds
  <2>4. CASE ListRemote(p)
    <3>1. \A q \in Run : Active(q)' => Active(q)
      BY <1>3, <2>1, <2>4 DEF ListRemote
    <3> QED BY <2>1, <2>4, <3>1 DEF ListRemote, CommandRemembers
  <2>5. CASE RecordPublish(p)
    BY <2>5 DEF RecordPublish, ReplaceMissing, CommandEnds, CommandReplaces
  <2> QED BY <1>8, <2>2, <2>3, <2>4, <2>5 DEF PublishStep
<1>9. CASE \E p \in Run : ContinuePublish(p)
  BY <1>8, <1>9 DEF ContinuePublish
<1>10. CASE GoWrong
  <2>1. PICK p \in Run : ApplyFault(p) \/ PublishFault(p) \/ Crash(p)
    BY <1>10 DEF GoWrong
  <2>2. CASE WriteReplyLost(p) \/ CallFails(p) \/ Crash(p)
    BY <2>2 DEF WriteReplyLost, CallFails, Crash, CommandEnds
  <2>3. CASE WriteWithoutEffect(p)
    <3>1. Active(p)
      BY <2>3 DEF WriteWithoutEffect, Writing, Applying
    <3> QED BY <1>4, <2>3, <3>1 DEF WriteWithoutEffect
  <2> QED BY <1>8, <2>1, <2>2, <2>3 DEF ApplyFault
<1>11. CASE OutsideNext /\ UNCHANGED <<ledgerVars, todo, genesis, operatorVars>>
  BY <1>2, <1>11 DEF ledgerVars
<1> QED BY <1>5, <1>6, <1>7, <1>9, <1>10, <1>11 DEF Next

\* Every step keeps the copies of the ledger loadable.
LEMMA LedgerInvariant == Spec => []LedgerInv
<1>1. Init => LedgerInv
  BY DEF Init, LedgerInit, LedgerInv, Loadable, Active
<1>2. TypeOK /\ LedgerInv /\ [Next]_vars => LedgerInv'
  <2> SUFFICES ASSUME TypeOK, LedgerInv, [Next]_vars PROVE LedgerInv'
    OBVIOUS
  <2>1. /\ mem \in [Run -> SUBSET Receipt]
        /\ pc \in [Run -> Step]
        /\ job \in [Run -> Job \cup {None}]
    BY DEF TypeOK, LedgerTypeOK
  <2>2. CASE NothingWritten
    BY <2>2 DEF NothingWritten, LedgerInv, Loadable, OwnedBy
  <2>3. ASSUME NEW p \in Run, NEW how, End(p, how)
        PROVE  /\ \A q \in Run : mem'[q] \in {{}, mem[q]}
               /\ \A q \in Run : Active(q)' => Active(q) /\ mem'[q] = mem[q]
    BY <2>1, <2>3 DEF End, Active
  <2>4. ASSUME NEW p \in Run, CommandEnds(p) PROVE LedgerInv'
    <3>1. /\ \A q \in Run : mem'[q] \in {{}, mem[q]}
          /\ \A q \in Run : Active(q)' => Active(q) /\ mem'[q] = mem[q]
      BY <2>3, <2>4 DEF CommandEnds
    <3> QED BY <2>4, <3>1 DEF CommandEnds, LedgerInv, Loadable, OwnedBy
  <2>5. ASSUME NEW p \in Run, CommandOpens(p) PROVE LedgerInv'
    <3>1. PICK newJob, step :
            /\ newJob \in Job
            /\ Open(p, newJob, step)
            /\ OwnedBy(disk, newJob.plan)
            /\ UNCHANGED <<disk, scratch>>
      <4>1. CASE \E plan \in Plans, phase \in PHASES : StartApply(p, plan, phase)
        <5>1. \A plan \in Plans, phase \in PHASES :
                /\ [plan |-> plan, stage |-> phase, repo |-> None] \in Job
                /\ [plan |-> plan, stage |-> phase, repo |-> None].plan = plan
          BY DEF Job, Stage
        <5> QED BY <4>1, <5>1 DEF StartApply, Admitted
      <4>2. CASE \E plan \in Plans, r \in Repo : StartPublish(p, plan, r)
        <5>1. \A plan \in Plans, r \in Repo :
                PublishJob(plan, r) \in Job /\ PublishJob(plan, r).plan = plan
          BY DEF Job, Stage, PublishJob
        <5> QED BY <4>2, <5>1 DEF StartPublish, PublishAdmitted
      <4> QED BY <2>5, <4>1, <4>2 DEF CommandOpens
    <3>2. /\ mem'[p] = disk /\ job'[p] = newJob
          /\ \A q \in Run \ {p} :
               mem'[q] = mem[q] /\ job'[q] = job[q] /\ pc'[q] = pc[q]
      BY <2>1, <3>1 DEF Open
    <3> QED BY <3>1, <3>2 DEF LedgerInv, Loadable, OwnedBy, Active
  <2>6. ASSUME NEW p \in Run, CommandRemembers(p) PROVE LedgerInv'
    <3>1. PICK receipt : receipt.plan = job[p].plan /\ Remember(p, receipt)
      BY <2>6 DEF CommandRemembers
    <3>2. /\ mem'[p] = {row \in mem[p] : row.id # receipt.id} \cup {receipt}
          /\ \A q \in Run \ {p} : mem'[q] = mem[q]
      BY <2>1, <3>1 DEF Remember
    <3>3. Loadable(mem[p]) /\ OwnedBy(mem[p], job[p].plan)
      BY <2>6 DEF CommandRemembers, LedgerInv
    <3>4. OwnedBy(mem'[p], job[p].plan)
      BY <3>1, <3>2, <3>3 DEF OwnedBy
    <3>5. Loadable(mem'[p])
      BY <3>2, <3>3, <3>4 DEF Loadable, OwnedBy
    <3> QED BY <2>6, <3>2, <3>4, <3>5 DEF CommandRemembers, LedgerInv, OwnedBy, Loadable
  <2>7. ASSUME NEW p \in Run, CommandReplaces(p) PROVE LedgerInv'
    <3>1. /\ \A q \in Run : mem'[q] \in {{}, mem[q]}
          /\ \A q \in Run : Active(q)' => Active(q) /\ mem'[q] = mem[q]
      BY <2>3, <2>7 DEF CommandReplaces
    <3>2. Loadable(disk')
      BY <2>7 DEF CommandReplaces, LedgerInv
    <3>3. scratch' = None /\ job' = job
      BY <2>7 DEF CommandReplaces
    <3> QED BY <3>1, <3>2, <3>3 DEF LedgerInv, Loadable, OwnedBy
  <2>8. ASSUME NEW p \in Run, WriteScratch(p) PROVE LedgerInv'
    <3>1. /\ scratch' = mem[p]
          /\ UNCHANGED <<disk, mem, job>>
          /\ \A q \in Run : Active(q)' => Active(q)
      BY <2>1, <2>8 DEF WriteScratch, Goto, Active
    <3> QED BY <3>1 DEF LedgerInv, Loadable, OwnedBy
  <2> QED BY <2>2, <2>4, <2>5, <2>6, <2>7, <2>8, LedgerMoves
<1> QED BY <1>1, <1>2, TypeCorrect, PTL DEF Spec

(***************************************************************************)
(* The ledger file always loads: never two rows of one operation, never    *)
(* rows of two plans, for any number of commands of any number of plans    *)
(* writing it without a lock, with crashes at any step.                    *)
(***************************************************************************)
THEOREM LedgerAlwaysLoads == Spec => []LedgerLoads
<1>1. LedgerInv => LedgerLoads
  BY DEF LedgerInv, LedgerLoads
<1> QED BY <1>1, LedgerInvariant, PTL

----------------------------------------------------------------------------
(***************************************************************************)
(* A plan that Hermes approves is private because the exposure of a plan   *)
(* is settled before its first remote call: a command that can still       *)
(* create has passed ExposureApproved.                                     *)
(***************************************************************************)
ExposureInv ==
  /\ \A p \in Run : Applying(p) => ExposureApproved(job[p].plan)
  /\ HermesNeverPublic

\* A command that applies has been applying, or has just been admitted.
LEMMA StartedOrRunning ==
  ASSUME TypeOK, [Next]_vars, NEW p \in Run, Applying(p)'
  PROVE  \/ Applying(p) /\ job'[p] = job[p]
         \/ \E plan \in Plans, phase \in PHASES : StartApply(p, plan, phase)
<1>1. /\ pc \in [Run -> Step]
      /\ job \in [Run -> Job \cup {None}]
      /\ mem \in [Run -> SUBSET Receipt]
  BY DEF TypeOK, LedgerTypeOK
<1>2. CASE NothingWritten
  BY <1>2 DEF NothingWritten, Applying
<1>3. ASSUME NEW q \in Run,
             CommandEnds(q) \/ CommandReplaces(q) \/ CommandRemembers(q)
               \/ WriteScratch(q)
      PROVE  Applying(p) /\ job'[p] = job[p]
  BY <1>1, <1>3 DEF CommandEnds, CommandReplaces, CommandRemembers, WriteScratch,
                    End, Goto, Applying, Active
<1>4. ASSUME NEW q \in Run, CommandOpens(q), q # p
      PROVE  Applying(p) /\ job'[p] = job[p]
  BY <1>1, <1>4 DEF CommandOpens, StartApply, StartPublish, Open, Applying, Active
<1>5. ASSUME NEW plan \in Plans, NEW r \in Repo, StartPublish(p, plan, r)
      PROVE  FALSE
  <2>1. job'[p].stage = "publish"
    BY <1>1, <1>5 DEF StartPublish, Open, PublishJob
  <2> QED BY <2>1 DEF Applying, PHASES
<1> QED BY <1>2, <1>3, <1>4, <1>5, LedgerMoves DEF CommandOpens

\* What a step can do to the remote, whatever command or person takes it.
LEMMA RemoteMoves ==
  ASSUME [Next]_vars
  PROVE  \/ UNCHANGED remote
         \/ \E p \in Run : Write(p) \/ WriteReplyLost(p)
         \/ \E p \in Run : PushBranch(p) \/ PushReplyLost(p)
         \/ OutsideNext
<1>1. ASSUME NEW p \in Run, ApplyStep(p) \/ ApplyFault(p)
      PROVE  UNCHANGED remote \/ Write(p) \/ WriteReplyLost(p)
  BY <1>1 DEF ApplyStep, ApplyFault, Resume, RefuseResume, Observe, RefuseObserve,
              WriteRefused, Reread, RefuseReread, RecordReceipt, CompleteApply,
              WriteWithoutEffect, CallFails, Stop, githubVars
<1>2. ASSUME NEW p \in Run, PublishStep(p) \/ PublishFault(p)
      PROVE  UNCHANGED remote \/ PushBranch(p) \/ PushReplyLost(p)
  BY <1>2 DEF PublishStep, PublishFault, Build, PushRejected, ListRemote,
              ListDisagrees, RecordPublish, CallFailsInPublish, githubVars
<1>3. CASE Operate \/ UNCHANGED vars \/ \E p \in Run : Crash(p) /\ UNCHANGED githubVars
  BY <1>3 DEF Operate, BuildResult, BeginApply, BeginPublish, StartApply,
       RefuseApply, StartPublish, ResumePublish, RefusePublish, vars, githubVars
<1> QED BY <1>1, <1>2, <1>3 DEF Next, GoWrong, ContinueApply, ContinuePublish

\* A repository that is ours stays as private as it was, or a command that may
\* create it has just made it as the operation of its plan says.
LEMMA ExposedOnlyByCreation ==
  ASSUME TypeOK, [Next]_vars, NEW r \in Repo,
         Exists(r)', remote'[r].maker \in Plans
  PROVE  \/ /\ Exists(r)
            /\ remote'[r].maker = remote[r].maker
            /\ remote'[r].private = remote[r].private
         \/ \E p \in Run : /\ Applying(p)
                           /\ remote'[r].maker = job[p].plan
                           /\ remote'[r].private = DesiredPrivate[job[p].plan][r]
<1>1. remote \in [Repo -> Repository \cup {None}]
  BY DEF TypeOK, GitHubTypeOK
<1> DEFINE Same == /\ Exists(r)
                   /\ remote'[r].maker = remote[r].maker
                   /\ remote'[r].private = remote[r].private
<1>2. ASSUME UNCHANGED remote
      PROVE  Same
  BY <1>2 DEF Exists
<1>3. ASSUME NEW p \in Run, Applying(p), todo[p] # <<>>,
             Effect(Current(p), job[p].plan)
      PROVE  \/ Same
             \/ /\ remote'[r].maker = job[p].plan
                /\ remote'[r].private = DesiredPrivate[job[p].plan][r]
  <2> DEFINE op == Current(p)
  <2>1. op \in Op
    BY <1>3, CurrentType DEF TypeOK
  <2>2. op.repo \in Repo
    BY <2>1 DEF Op
  <2> HIDE DEF op
  <2>3. CASE CreateRepository(op, job[p].plan)
    <3>1. PICK on \in BOOLEAN :
            remote' = [remote EXCEPT ![op.repo] =
              NewRepository(job[p].plan, DesiredPrivate[job[p].plan][op.repo], on,
                            None)]
      BY <2>3 DEF CreateRepository
    <3>2. CASE r = op.repo
      <4>1. remote'[r] =
              NewRepository(job[p].plan, DesiredPrivate[job[p].plan][r], on, None)
        BY <1>1, <3>1, <3>2
      <4> QED BY <4>1 DEF NewRepository
    <3>3. CASE r # op.repo
      BY <1>1, <2>2, <3>1, <3>3 DEF Exists
    <3> QED BY <3>2, <3>3
  <2>4. CASE ChangeRepository(op, job[p].plan)
    <3>1. Exists(op.repo)
      BY <1>3, <2>1, <2>4
         DEF Effect, Accepts, ChangeRepository, Op, ApplyKind, op
    <3>2. PICK repository :
            /\ remote' = [remote EXCEPT ![op.repo] = repository]
            /\ repository.maker = remote[op.repo].maker
            /\ repository.private = remote[op.repo].private
      <4> DEFINE written ==
            [remote[op.repo] EXCEPT !.touched = @ \cup {job[p].plan}]
      <4>1. remote[op.repo] \in Repository
        BY <1>1, <2>2, <3>1 DEF Exists
      <4>2. /\ written \in Repository
            /\ written.maker = remote[op.repo].maker
            /\ written.private = remote[op.repo].private
        <5>1. job[p].plan \in Plans
          BY <1>3, JobType DEF TypeOK, Applying
        <5> QED BY <4>1, <5>1 DEF Repository
      <4>3. PICK repository \in {[written EXCEPT !.secretScanning = TRUE],
                                 [written EXCEPT !.defaultBranch = TRUE],
                                 [written EXCEPT !.codeScanning = TRUE],
                                 [written EXCEPT !.ruleset = "approved"]} :
              remote' = [remote EXCEPT ![op.repo] = repository]
        BY <2>1, <2>4 DEF ChangeRepository, Op, ApplyKind
      <4>4. /\ repository.maker = written.maker
            /\ repository.private = written.private
        <5> HIDE DEF written
        <5> QED BY <4>2 DEF Repository
      <4> QED BY <4>2, <4>3, <4>4
    <3> QED BY <1>1, <2>2, <3>1, <3>2 DEF Exists
  <2> QED BY <1>3, <2>3, <2>4 DEF Effect, op
<1>4. ASSUME NEW q \in Repo, NEW branch \in {"main", "dev"}, NEW commit,
             NEW plan, Push(q, branch, commit, plan)
      PROVE  Same
  <2>1. remote[q] \in Repository
    BY <1>1, <1>4 DEF Push, AcceptsPush, Exists
  <2>2. PICK repository :
          /\ remote' = [remote EXCEPT ![q] = repository]
          /\ repository.maker = remote[q].maker
          /\ repository.private = remote[q].private
    <3> DEFINE pushed == [remote[q] EXCEPT ![branch] = commit,
                                           !.touched = @ \cup {plan}]
    <3>1. remote' = [remote EXCEPT ![q] = pushed]
      BY <1>4 DEF Push
    <3>2. pushed.maker = remote[q].maker /\ pushed.private = remote[q].private
      BY <2>1 DEF Repository
    <3> QED BY <3>1, <3>2
  <2> QED BY <1>1, <1>4, <2>2 DEF Push, AcceptsPush, Exists
<1>5. CASE OutsideNext
  <2>1. PICK q \in Repo : \/ OutsideCreate(q) \/ OutsideDelete(q)
                          \/ OutsideAlter(q) \/ OutsideDevelop(q)
    BY <1>5 DEF OutsideNext
  <2>2. CASE OutsideCreate(q)
    <3>1. PICK private \in BOOLEAN, head \in {None, 0} :
            remote' = [remote EXCEPT ![q] =
                         NewRepository(Elsewhere, private, TRUE, head)]
      BY <2>2 DEF OutsideCreate
    <3>2. r # q
      <4>1. NewRepository(Elsewhere, private, TRUE, head).maker \notin Plans
        BY GitHubAssumption DEF NewRepository
      <4> QED BY <1>1, <3>1, <4>1
    <3> QED BY <1>1, <3>1, <3>2 DEF Exists
  <2>3. CASE OutsideDelete(q)
    BY <1>1, <2>3 DEF OutsideDelete, Exists
  <2>4. CASE OutsideAlter(q) \/ OutsideDevelop(q)
    <3>1. remote[q] \in Repository /\ Exists(q)
      BY <1>1, <2>4 DEF OutsideAlter, OutsideDevelop, Exists
    <3>2. PICK field, value :
            /\ field \in {"secretScanning", "codeScanning", "defaultBranch",
                          "ruleset", "main", "dev"}
            /\ remote' = [remote EXCEPT ![q] = [remote[q] EXCEPT ![field] = value]]
      BY <2>4 DEF OutsideAlter, OutsideDevelop
    <3>3. /\ [remote[q] EXCEPT ![field] = value].maker = remote[q].maker
          /\ [remote[q] EXCEPT ![field] = value].private = remote[q].private
      BY <3>1, <3>2 DEF Repository
    <3> QED BY <1>1, <3>1, <3>2, <3>3 DEF Exists
  <2> QED BY <2>1, <2>2, <2>3, <2>4
<1>6. ASSUME NEW p \in Run, Write(p) \/ WriteReplyLost(p)
      PROVE  /\ Applying(p) /\ todo[p] # <<>>
             /\ Effect(Current(p), job[p].plan)
  BY <1>6 DEF Write, WriteReplyLost, Writing, TypeOK, ApplyTypeOK
<1>7. ASSUME NEW p \in Run, PushBranch(p) \/ PushReplyLost(p)
      PROVE  /\ job[p].repo \in Repo /\ BranchPushed(p) \in {"main", "dev"}
             /\ Push(job[p].repo, BranchPushed(p), genesis[p], job[p].plan)
  BY <1>7 DEF PushBranch, PushReplyLost, AtPush, At, TypeOK, PublishTypeOK,
              BranchPushed
<1> QED BY <1>2, <1>3, <1>4, <1>5, <1>6, <1>7, RemoteMoves

(***************************************************************************)
(* A repository that has an entry in its plan is as private as the entry   *)
(* says and public only for the owner's approval, for any plans (edited    *)
(* ones too, with or without entries), with commands of several plans at a *)
(* time and whatever others do.                                            *)
(***************************************************************************)
THEOREM HermesNeverMakesPublic == Spec => []HermesNeverPublic
<1>1. Init => ExposureInv
  BY DEF Init, LedgerInit, GitHubInit, ExposureInv, HermesNeverPublic, Exists,
         Applying, Active
<1>2. TypeOK /\ ExposureInv /\ [Next]_vars => ExposureInv'
  <2> SUFFICES ASSUME TypeOK, ExposureInv, [Next]_vars PROVE ExposureInv'
    OBVIOUS
  <2>1. \A p \in Run : Applying(p)' => ExposureApproved(job'[p].plan)
    <3> SUFFICES ASSUME NEW p \in Run, Applying(p)'
                 PROVE  ExposureApproved(job'[p].plan)
      OBVIOUS
    <3>1. CASE Applying(p) /\ job'[p] = job[p]
      BY <3>1 DEF ExposureInv
    <3>2. CASE \E plan \in Plans, phase \in PHASES : StartApply(p, plan, phase)
      <4>1. PICK plan \in Plans, phase \in PHASES : StartApply(p, plan, phase)
        BY <3>2
      <4>2. ExposureApproved(plan)
        BY <4>1 DEF StartApply, Admitted
      <4>3. job'[p].plan = plan
        BY <4>1 DEF StartApply, Open, TypeOK, LedgerTypeOK
      <4> QED BY <4>2, <4>3
    <3> QED BY <3>1, <3>2, StartedOrRunning
  <2>2. HermesNeverPublic'
    <3> DEFINE AsApproved(plan, private, r) ==
          /\ private = (Visibility[plan][r] # "public")
          /\ ~private => Authority[plan] = "OWNER"
    <3> SUFFICES ASSUME NEW r \in Repo, Exists(r)', remote'[r].maker \in Plans,
                        r \in Listed(remote'[r].maker)
                 PROVE  AsApproved(remote'[r].maker, remote'[r].private, r)
      BY DEF HermesNeverPublic, Exists
    <3>1. CASE /\ Exists(r)
               /\ remote'[r].maker = remote[r].maker
               /\ remote'[r].private = remote[r].private
      BY <3>1 DEF ExposureInv, HermesNeverPublic
    <3>2. ASSUME NEW p \in Run, Applying(p), remote'[r].maker = job[p].plan,
                 remote'[r].private = DesiredPrivate[job[p].plan][r]
          PROVE  AsApproved(remote'[r].maker, remote'[r].private, r)
      <4>1. ExposureApproved(job[p].plan) /\ job[p].plan \in Plans
        BY <3>2 DEF ExposureInv
      <4>2. Authority[job[p].plan] \in {"HERMES", "OWNER"}
        BY <4>1, PlanAssumption
      <4> QED BY <3>2, <4>1, <4>2 DEF ExposureApproved
    <3> QED BY <3>1, <3>2, ExposedOnlyByCreation
  <2> QED BY <2>1, <2>2 DEF ExposureInv
<1>3. ExposureInv => HermesNeverPublic
  BY DEF ExposureInv
<1> QED BY <1>1, <1>2, <1>3, TypeCorrect, PTL DEF Spec
=============================================================================
