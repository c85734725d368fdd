---------------------------- MODULE SerialProofs ----------------------------
(***************************************************************************)
(* What holds when the operator runs one command at a time, for any number *)
(* of plans, repositories and faults, and whatever outsiders do: the       *)
(* ledger file only grows, by one receipt after another in the order of    *)
(* the plan, and what has a receipt is left alone.                         *)
(***************************************************************************)
EXTENDS ReceiptProofs, FiniteSetTheorems

OneAtATime == MaxActive = 1

Alone == \A p, q \in Run : Active(p) /\ Active(q) => p = q

\* The operation or the push whose receipt a command would write next.
NextId(p) == IF Applying(p) THEN Current(p) ELSE PublishId(job[p].repo)

ApplyJob(p) == job[p] # None /\ job[p].stage \in PHASES

\* How many operations of its phase a command has gone past.
Behind(p) == Len(Staged(job[p].stage)) - Len(todo[p])

\* A command goes through its phase in order, and what is behind it is on disk.
InPlan(p) ==
  /\ Behind(p) \in Nat
  /\ \A i \in 1..Len(todo[p]) : todo[p][i] = Staged(job[p].stage)[Behind(p) + i]
  /\ \A i \in 1..Behind(p) : Held(disk, Staged(job[p].stage)[i])

BeforeFilesHeld == \A op \in StagedOps("before-files") : Held(disk, op)

\* What a command knows of the file, which nobody else writes meanwhile.
Informed(p) ==
  /\ Active(p) /\ pc[p] \notin {"record", "replace"} => mem[p] = disk
  /\ pc[p] \in {"record", "replace"} =>
       \E receipt \in mem[p] : receipt.id = NextId(p) /\ mem[p] = disk \cup {receipt}
  /\ pc[p] = "replace" => scratch = mem[p]
  /\ Active(p) /\ pc[p] # "next" => ~Held(disk, NextId(p))
  /\ Applying(p) => exit[p] = "none"
  /\ ApplyJob(p) => InPlan(p)
  /\ Applying(p) /\ job[p].stage = "after-files" =>
       \A r \in Repo : Held(disk, PublishId(r))
  /\ InOrder /\ Publishing(p) => BeforeFilesHeld

SerialInv ==
  /\ Alone
  /\ \A p \in Run : Informed(p)
  /\ (\E plan \in Plans : <<plan, "before-files">> \in reported) => BeforeFilesHeld

----------------------------------------------------------------------------
\* The steps of the command that acts, by what they do to the ledger.
Ends(p) ==
  /\ Active(p)
  /\ \E how : End(p, how)
  /\ UNCHANGED <<disk, scratch, job, todo>>

GoesOn(p) ==
  /\ Active(p)
  /\ \E step \in Step \ {"idle", "next", "record", "replace"} : Goto(p, step)
  /\ pc[p] = "next" => ~Held(mem[p], NextId(p))
  /\ pc[p] \notin {"record", "replace"}
  /\ UNCHANGED <<disk, scratch, job, todo>>

Remembers(p) ==
  /\ Active(p) /\ pc[p] \notin {"next", "record", "replace"}
  /\ pc' = [pc EXCEPT ![p] = "record"]
  /\ \E receipt : receipt.id = NextId(p) /\ Remember(p, receipt)
  /\ UNCHANGED <<disk, scratch, job, exit, todo>>

ReplacesInApply(p) == Applying(p) /\ ReplaceLedger(p, "next") /\ Pass(p)

ReplacesInPublish(p) ==
  /\ Publishing(p) /\ pc[p] = "replace"
  /\ disk' = scratch
  /\ \E how : End(p, how)
  /\ UNCHANGED <<job, todo>>

\* The ledger says that the genesis is published: only the job is noted.
Consults(p) ==
  /\ MayStart(p)
  /\ \E plan \in Plans, r \in Repo : job' = [job EXCEPT ![p] = PublishJob(plan, r)]
  /\ UNCHANGED <<disk, scratch, mem, pc, todo>>

Acts(p) ==
  \/ \E plan \in Plans, phase \in PHASES : StartApply(p, plan, phase)
  \/ \E plan \in Plans, r \in Repo :
       /\ InOrder => <<plan, "before-files">> \in reported
       /\ StartPublish(p, plan, r)
       /\ UNCHANGED todo
  \/ Consults(p) \/ Ends(p) \/ GoesOn(p) \/ Resume(p) \/ Remembers(p)
  \/ Active(p) /\ WriteScratch(p) /\ UNCHANGED todo
  \/ ReplacesInApply(p) \/ ReplacesInPublish(p)

NobodyActs ==
  /\ UNCHANGED <<disk, scratch, mem, pc, job, todo>>
  /\ \A p \in Run : exit'[p] = exit[p] \/ ~Active(p)

LEMMA ActorMoves ==
  ASSUME TypeOK, [Next]_vars
  PROVE  NobodyActs \/ \E p \in Run : Acts(p)
<1>1. CASE Operate
  <2>1. CASE \E plan \in Plans : BuildResult(plan)
    BY <2>1 DEF BuildResult, ledgerVars, NobodyActs
  <2>2. ASSUME NEW p \in Run, NEW plan \in Plans, NEW phase \in PHASES,
               BeginApply(p, plan, phase)
        PROVE  NobodyActs \/ Acts(p)
    BY <2>2 DEF BeginApply, RefuseApply, MayStart, Active, Acts, NobodyActs,
                TypeOK, LedgerTypeOK
  <2>3. ASSUME NEW p \in Run, NEW plan \in Plans, NEW r \in Repo,
               BeginPublish(p, plan, r)
        PROVE  NobodyActs \/ Acts(p)
    <3>1. CASE StartPublish(p, plan, r)
      BY <2>3, <3>1 DEF BeginPublish, Acts
    <3>2. CASE ResumePublish(p, plan, r)
      BY <2>3, <3>2 DEF BeginPublish, ResumePublish, MayStart, Acts, Consults
    <3>3. CASE RefusePublish(p, plan)
      BY <2>3, <3>3 DEF BeginPublish, RefusePublish, MayStart, Active, NobodyActs,
                        TypeOK, LedgerTypeOK
    <3> QED BY <2>3, <3>1, <3>2, <3>3 DEF BeginPublish
  <2> QED BY <1>1, <2>1, <2>2, <2>3 DEF Operate
<1>2. ASSUME NEW p \in Run, ApplyStep(p) \/ ApplyFault(p)
      PROVE  Acts(p)
  <2>1. Applying(p) /\ Active(p)
    BY <1>2 DEF ApplyStep, ApplyFault, AtOperation, Applying, Writing, Resume,
       RefuseResume, Observe, RefuseObserve, Write, WriteRefused, Reread,
       RefuseReread, RecordReceipt, CompleteApply, WriteReplyLost,
       WriteWithoutEffect, CallFails
  <2>2. CASE RefuseResume(p) \/ RefuseObserve(p) \/ WriteRefused(p)
             \/ RefuseReread(p) \/ CompleteApply(p) \/ WriteReplyLost(p) \/ CallFails(p)
    BY <2>1, <2>2 DEF RefuseResume, RefuseObserve, WriteRefused, RefuseReread,
       CompleteApply, WriteReplyLost, CallFails, Stop, Ends, Acts
  <2>3. CASE Observe(p) \/ Write(p) \/ WriteWithoutEffect(p)
    BY <2>1, <2>3 DEF Observe, Write, WriteWithoutEffect, AtOperation, Writing,
       GoesOn, Acts, Step, NextId
  <2>4. CASE Reread(p)
    <3>1. \E receipt : receipt.id = NextId(p) /\ Remember(p, receipt)
      <4>1. OpReceipt(p).id = NextId(p) /\ Remember(p, OpReceipt(p))
        BY <2>1, <2>4 DEF Reread, OpReceipt, NextId
      <4> QED BY <4>1
    <3> QED BY <2>1, <2>4, <3>1 DEF Reread, Remembers, Acts
  <2>5. CASE RecordReceipt(p)
    BY <2>1, <2>5 DEF RecordReceipt, ReplaceMissing, ReplacesInApply, Ends, Acts
  <2> QED BY <1>2, <2>2, <2>3, <2>4, <2>5 DEF ApplyStep, ApplyFault, Acts
<1>3. ASSUME NEW p \in Run, PublishStep(p) \/ PublishFault(p), UNCHANGED todo
      PROVE  Acts(p)
  <2>1. Publishing(p) /\ Active(p) /\ ~Applying(p)
    <3>1. Publishing(p) /\ Active(p)
      BY <1>3 DEF PublishStep, PublishFault, Build, PushBranch, PushRejected,
         ListRemote, ListDisagrees, RecordPublish, CallFailsInPublish,
         PushReplyLost, AtPush, At, Publishing
    <3> QED BY <3>1, JobType DEF TypeOK
  <2>2. CASE PushRejected(p) \/ ListDisagrees(p) \/ PublishFault(p)
    BY <1>3, <2>1, <2>2 DEF PushRejected, ListDisagrees, PublishFault,
       CallFailsInPublish, PushReplyLost, PublishFails, Ends, Acts
  <2>3. CASE Build(p) \/ PushBranch(p)
    BY <1>3, <2>1, <2>3 DEF Build, PushBranch, AtPush, At, GoesOn, Acts, Step
  <2>4. CASE ListRemote(p)
    <3>1. \E receipt : receipt.id = NextId(p) /\ Remember(p, receipt)
      <4>1. PushReceipt(p).id = NextId(p) /\ Remember(p, PushReceipt(p))
        BY <2>1, <2>4 DEF ListRemote, PushReceipt, NextId
      <4> QED BY <4>1
    <3> QED BY <1>3, <2>1, <2>4, <3>1 DEF ListRemote, At, Remembers, Acts
  <2>5. CASE RecordPublish(p)
    BY <1>3, <2>1, <2>5 DEF RecordPublish, ReplaceMissing, ReplacesInPublish, Ends, Acts
  <2> QED BY <1>3, <2>2, <2>3, <2>4, <2>5 DEF PublishStep
<1>4. CASE GoWrong
  <2>1. PICK p \in Run : \/ ApplyFault(p)
                         \/ PublishFault(p) /\ UNCHANGED todo
                         \/ Crash(p) /\ UNCHANGED todo
    BY <1>4 DEF GoWrong
  <2>2. CASE Crash(p) /\ UNCHANGED todo
    BY <2>2 DEF Crash, Ends, Acts
  <2> QED BY <1>2, <1>3, <2>1, <2>2
<1>5. CASE \/ OutsideNext /\ UNCHANGED <<ledgerVars, todo, genesis, operatorVars>>
           \/ UNCHANGED vars
  BY <1>5 DEF vars, ledgerVars, NobodyActs
<1> QED BY <1>1, <1>2, <1>3, <1>4, <1>5 DEF Next, ContinueApply, ContinuePublish

----------------------------------------------------------------------------
\* With one command at a time, a command starts when none is active.
LEMMA NoneIsActive ==
  ASSUME OneAtATime, NEW p \in Run, MayStart(p), NEW q \in Run
  PROVE  ~Active(q)
<1> DEFINE active == {x \in Run : Active(x)}
<1>1. IsFiniteSet(active) /\ active \subseteq Run
  BY LedgerAssumption, FS_Subset
<1>2. Cardinality(active) \in Nat /\ Cardinality(active) < 1
  BY <1>1, FS_CardinalityType DEF MayStart, OneAtATime
<1>3. active = {}
  BY <1>1, <1>2, FS_EmptySet
<1> QED BY <1>3

\* So nobody is disturbed by the command that acts.
LEMMA OthersAreIdle ==
  ASSUME TypeOK, OneAtATime, Alone, NEW p \in Run, Acts(p), NEW q \in Run, q # p
  PROVE  /\ ~Active(q) /\ pc'[q] = pc[q]
         /\ job'[q] = job[q] /\ todo'[q] = todo[q]
<1>1. /\ pc \in [Run -> Step] /\ job \in [Run -> Job \cup {None}]
      /\ todo \in [Run -> Seq(Op)]
  BY DEF TypeOK, LedgerTypeOK, ApplyTypeOK
<1>2. CASE \E plan \in Plans, phase \in PHASES : StartApply(p, plan, phase)
  <2>1. MayStart(p)
    BY <1>2 DEF StartApply
  <2> QED BY <1>1, <1>2, <2>1, NoneIsActive DEF StartApply, Open
<1>3. CASE \E plan \in Plans, r \in Repo : StartPublish(p, plan, r) /\ UNCHANGED todo
  <2>1. MayStart(p)
    BY <1>3 DEF StartPublish
  <2> QED BY <1>1, <1>3, <2>1, NoneIsActive DEF StartPublish, Open
<1>4. CASE Consults(p)
  <2>1. MayStart(p)
    BY <1>4 DEF Consults
  <2> QED BY <1>1, <1>4, <2>1, NoneIsActive DEF Consults
<1>5. CASE \/ Ends(p) \/ GoesOn(p) \/ Resume(p) \/ Remembers(p)
           \/ Active(p) /\ WriteScratch(p) /\ UNCHANGED todo
           \/ ReplacesInApply(p) \/ ReplacesInPublish(p)
  <2>1. Active(p)
    BY <1>5 DEF Ends, GoesOn, Resume, AtOperation, Remembers, ReplacesInApply,
                ReplacesInPublish, Applying, Publishing
  <2>2. ~Active(q)
    BY <2>1 DEF Alone
  <2> QED BY <1>1, <1>5, <2>2
          DEF Ends, End, GoesOn, Goto, Resume, Pass, ledgerVars, Remembers,
              WriteScratch, ReplacesInApply, ReplaceLedger, ReplacesInPublish
<1> QED BY <1>2, <1>3, <1>4, <1>5 DEF Acts

\* The file changes only by one receipt that a command has in memory.
LEMMA FileGrows ==
  ASSUME TypeOK, SerialInv, NEW p \in Run, Acts(p)
  PROVE  \/ disk' = disk
         \/ /\ ReplacesInApply(p) \/ ReplacesInPublish(p)
            /\ \E receipt : receipt.id = NextId(p) /\ disk' = disk \cup {receipt}
<1>1. CASE ReplacesInApply(p) \/ ReplacesInPublish(p)
  <2>1. pc[p] = "replace" /\ disk' = scratch
    BY <1>1 DEF ReplacesInApply, ReplaceLedger, ReplacesInPublish
  <2>2. Informed(p)
    BY DEF SerialInv
  <2> QED BY <1>1, <2>1, <2>2 DEF Informed
<1> QED BY <1>1 DEF Acts, StartApply, StartPublish, Consults, Ends, GoesOn, Resume,
                    ledgerVars, Remembers, WriteScratch

LEMMA ReceiptsStay ==
  ASSUME TypeOK, SerialInv, NEW p \in Run, Acts(p), NEW id, Held(disk, id)
  PROVE  Held(disk', id)
BY FileGrows DEF Held

\* Where a command stands in its phase, of its own or of another's doing.
LEMMA InPlanStays ==
  ASSUME TypeOK, SerialInv, NEW p \in Run, Acts(p), NEW q \in Run, InPlan(q),
         job'[q] = job[q], todo'[q] = todo[q]
  PROVE  InPlan(q)'
<1>1. Behind(q)' = Behind(q)
  BY DEF Behind
<1>2. \A i \in 1..Behind(q) : Held(disk', Staged(job[q].stage)[i])
  BY ReceiptsStay DEF InPlan
<1> QED BY <1>1, <1>2 DEF InPlan

LEMMA InPlanPasses ==
  ASSUME TypeOK, SerialInv, NEW p \in Run, Acts(p), Pass(p), InPlan(p),
         job'[p] = job[p], todo[p] # <<>>, Held(disk', Current(p))
  PROVE  InPlan(p)'
<1> DEFINE s == todo[p]
           staged == Staged(job[p].stage)
           behind == Behind(p)
<1>1. s \in Seq(Op) /\ todo'[p] = Tail(s) /\ Current(p) = s[1]
  BY CurrentPending DEF TypeOK, ApplyTypeOK, Pass
<1>2. /\ Len(s) \in Nat /\ 1 \in 1..Len(s) /\ Len(staged) \in Nat
      /\ behind \in Nat /\ behind = Len(staged) - Len(s)
  BY CurrentPending, StagedType, LenProperties DEF InPlan, Behind
<1>3. /\ Len(Tail(s)) = Len(s) - 1
      /\ \A i \in 1..(Len(s) - 1) : Tail(s)[i] = s[i + 1]
  BY <1>1, HeadTailProperties
<1>4. Behind(p)' = Len(staged) - Len(Tail(s))
  BY <1>1 DEF Behind
<1>5. \A i \in 1..Len(s) : s[i] = staged[behind + i]
  BY DEF InPlan
<1>6. \A i \in 1..behind : Held(disk', staged[i])
  BY ReceiptsStay DEF InPlan
<1> HIDE DEF s, staged, behind
<1>7. \A i \in 1..Len(Tail(s)) : Tail(s)[i] = staged[(behind + 1) + i]
  <2> TAKE i \in 1..Len(Tail(s))
  <2>1. i + 1 \in 1..Len(s) /\ Tail(s)[i] = s[i + 1]
        /\ behind + (i + 1) = (behind + 1) + i
    BY <1>2, <1>3
  <2> QED BY <1>5, <2>1
<1>8. \A i \in 1..(behind + 1) : Held(disk', staged[i])
  <2> TAKE i \in 1..(behind + 1)
  <2>1. CASE i = behind + 1
    BY <1>1, <1>2, <1>5, <2>1
  <2> QED BY <1>2, <1>6, <2>1
<1>9. Behind(p)' = behind + 1 /\ behind + 1 \in Nat
  <2>1. Len(Tail(s)) = Len(s) - 1
    BY <1>3
  <2> DEFINE here == Behind(p)'
             n == Len(staged)
             m == Len(s)
             k == Len(Tail(s))
  <2>2. here = n - k /\ k = m - 1 /\ behind = n - m /\ m \in Nat /\ n \in Nat
        /\ behind \in Nat
    BY <1>2, <1>4, <2>1
  <2> HIDE DEF here, n, m, k
  <2>3. here = behind + 1 /\ behind + 1 \in Nat
    BY <2>2
  <2> QED BY <2>3 DEF here
<1>10. Staged(job'[p].stage) = staged
  BY DEF staged
<1> QED BY <1>1, <1>7, <1>8, <1>9, <1>10 DEF InPlan

----------------------------------------------------------------------------
\* Who does not act is idle, and only its place in its last phase is left.
LEMMA OthersStayInformed ==
  ASSUME TypeOK, OneAtATime, SerialInv, NEW p \in Run, Acts(p),
         NEW q \in Run, q # p
  PROVE  Informed(q)'
<1>1. /\ ~Active(q) /\ pc'[q] = pc[q]
      /\ job'[q] = job[q] /\ todo'[q] = todo[q]
  BY OthersAreIdle DEF SerialInv
<1>2. pc'[q] = "idle" /\ ~Active(q)'
  BY <1>1 DEF Active
<1>3. ApplyJob(q)' => InPlan(q)'
  <2>1. ApplyJob(q)' => ApplyJob(q)
    BY <1>1 DEF ApplyJob
  <2>2. ApplyJob(q) => InPlan(q)
    BY DEF SerialInv, Informed
  <2> QED BY <1>1, <2>1, <2>2, InPlanStays
<1> QED BY <1>2, <1>3 DEF Informed, Applying, Publishing

\* A command starts with the file in memory, at the beginning of its phase.
LEMMA StartsInformed ==
  ASSUME TypeOK, SerialInv, NEW p \in Run, NEW plan \in Plans, NEW phase \in PHASES,
         StartApply(p, plan, phase)
  PROVE  Informed(p)'
<1>1. /\ mem'[p] = disk /\ disk' = disk
      /\ job'[p] = [plan |-> plan, stage |-> phase, repo |-> None]
      /\ pc'[p] = "next" /\ exit'[p] = "none" /\ todo'[p] = Staged(phase)
      /\ PhaseOpen(phase, disk)
  BY DEF TypeOK, LedgerTypeOK, ApplyTypeOK, StartApply, Open, Admitted
<1>2. job'[p].stage = phase /\ ~Publishing(p)'
  BY <1>1 DEF Publishing, PHASES
<1>3. InPlan(p)'
  <2> DEFINE staged == Staged(phase)
  <2>1. Behind(p)' = Len(staged) - Len(staged)
    BY <1>1, <1>2 DEF Behind
  <2>2. Len(staged) \in Nat
    BY StagedType, LenProperties
  <2> HIDE DEF staged
  <2>3. Behind(p)' = 0
    BY <2>1, <2>2
  <2>4. \A i \in 1..Len(staged) : staged[i] = staged[0 + i]
    BY <2>2
  <2>5. todo'[p] = staged /\ Staged(job'[p].stage) = staged
    BY <1>1, <1>2 DEF staged
  <2> QED BY <2>3, <2>4, <2>5 DEF InPlan
<1> QED BY <1>1, <1>2, <1>3 DEF Informed, PhaseOpen, Active, Applying

\* The command that acts stays informed.
LEMMA ActorStaysInformed ==
  ASSUME TypeOK, SerialInv, NEW p \in Run, Acts(p)
  PROVE  Informed(p)'
<1>1. /\ pc \in [Run -> Step] /\ exit \in [Run -> Exit]
      /\ job \in [Run -> Job \cup {None}]
      /\ mem \in [Run -> SUBSET Receipt]
      /\ todo \in [Run -> Seq(Op)]
  BY DEF TypeOK, LedgerTypeOK, ApplyTypeOK
<1>2. Informed(p)
  BY DEF SerialInv
<1>3. ASSUME job'[p] = job[p], todo'[p] = todo[p]
      PROVE  ApplyJob(p)' => InPlan(p)'
  <2>1. ApplyJob(p)' => ApplyJob(p)
    BY <1>3 DEF ApplyJob
  <2> QED BY <1>2, <1>3, <2>1, InPlanStays DEF Informed
<1>4. ASSUME ~Active(p)', job'[p] = job[p], todo'[p] = todo[p]
      PROVE  Informed(p)'
  BY <1>3, <1>4 DEF Informed, Active, Applying, Publishing
<1>5. ASSUME NEW r, Held(disk, PublishId(r))
      PROVE  Held(disk', PublishId(r))
  BY <1>5, ReceiptsStay
<1>6. BeforeFilesHeld => BeforeFilesHeld'
  BY ReceiptsStay DEF BeforeFilesHeld
<1>7. CASE \E plan \in Plans, phase \in PHASES : StartApply(p, plan, phase)
  BY <1>7, StartsInformed
<1>8. ASSUME NEW plan \in Plans, NEW r \in Repo, StartPublish(p, plan, r),
             InOrder => <<plan, "before-files">> \in reported
      PROVE  Informed(p)'
  <2>1. /\ mem'[p] = disk /\ disk' = disk /\ ~Held(disk, PublishId(r))
        /\ job'[p] = [plan |-> plan, stage |-> "publish", repo |-> r]
        /\ pc'[p] = "build"
    BY <1>1, <1>8 DEF StartPublish, Open, PublishJob
  <2>2. job'[p].stage = "publish" /\ job'[p].repo = r
    BY <2>1
  <2>3. ~Applying(p)' /\ ~ApplyJob(p)'
    BY <2>2 DEF Applying, ApplyJob, PHASES
  <2>4. NextId(p)' = PublishId(r)
    BY <2>2, <2>3 DEF NextId
  <2>5. InOrder => BeforeFilesHeld'
    BY <1>6, <1>8 DEF SerialInv
  <2> QED BY <2>1, <2>3, <2>4, <2>5 DEF Informed, Held
<1>9. CASE Consults(p)
  <2>1. PICK plan \in Plans, r \in Repo : job' = [job EXCEPT ![p] = PublishJob(plan, r)]
    BY <1>9 DEF Consults
  <2>2. job'[p].stage = "publish"
    BY <1>1, <2>1 DEF PublishJob
  <2>3. ~ApplyJob(p)' /\ ~Active(p)'
    BY <1>9, <2>2 DEF ApplyJob, Consults, MayStart, Active, PHASES
  <2> QED BY <2>3 DEF Informed, Active, Applying, Publishing
<1>10. CASE Ends(p) \/ ReplacesInPublish(p)
  <2>1. ~Active(p)'
    BY <1>1, <1>10 DEF Ends, ReplacesInPublish, End, Active
  <2> QED BY <1>4, <1>10, <2>1 DEF Ends, ReplacesInPublish
<1>11. ASSUME Active(p), job' = job, todo' = todo, exit' = exit, Active(p)',
              Held(disk', NextId(p)) => pc'[p] = "next",
              pc'[p] \notin {"record", "replace"} => mem'[p] = disk',
              pc'[p] \in {"record", "replace"} =>
                \E receipt \in mem'[p] :
                  receipt.id = NextId(p) /\ mem'[p] = disk' \cup {receipt},
              pc'[p] = "replace" => scratch' = mem'[p]
       PROVE  Informed(p)'
  <2>1. /\ Applying(p)' <=> Applying(p)
        /\ Publishing(p)' <=> Publishing(p)
        /\ NextId(p)' = NextId(p)
    BY <1>11 DEF Applying, Publishing, NextId, Current
  <2> QED BY <1>2, <1>3, <1>5, <1>6, <1>11, <2>1 DEF Informed
<1>12. CASE GoesOn(p)
  <2>1. Active(p)' /\ pc'[p] \notin {"record", "replace", "next"}
        /\ mem' = mem /\ exit' = exit /\ disk' = disk
    BY <1>1, <1>12 DEF GoesOn, Goto, Active
  <2>2. mem[p] = disk /\ ~Held(disk, NextId(p))
    BY <1>2, <1>12 DEF GoesOn, Informed
  <2> QED BY <1>11, <1>12, <2>1, <2>2 DEF GoesOn
<1>13. CASE Remembers(p)
  <2>1. PICK receipt : receipt.id = NextId(p) /\ Remember(p, receipt)
    BY <1>13 DEF Remembers
  <2>2. mem[p] = disk /\ ~Held(disk, NextId(p))
    BY <1>2, <1>13 DEF Remembers, Informed
  <2>3. mem'[p] = disk \cup {receipt}
    BY <1>1, <2>1, <2>2 DEF Remember, Held
  <2>4. Active(p)' /\ pc'[p] = "record" /\ disk' = disk
    BY <1>1, <1>13 DEF Remembers, Active
  <2> QED BY <1>11, <1>13, <2>1, <2>2, <2>3, <2>4 DEF Remembers
<1>14. CASE Active(p) /\ WriteScratch(p) /\ UNCHANGED todo
  <2>1. /\ pc[p] = "record" /\ pc'[p] = "replace" /\ Active(p)'
        /\ scratch' = mem[p] /\ mem' = mem /\ disk' = disk
    BY <1>1, <1>14 DEF WriteScratch, Goto, Active
  <2> QED BY <1>2, <1>11, <1>14, <2>1 DEF WriteScratch, Goto, Informed
<1>15. CASE Resume(p)
  <2>1. /\ Applying(p) /\ pc[p] = "next" /\ todo[p] # <<>> /\ Pass(p)
        /\ Held(mem[p], Current(p)) /\ UNCHANGED ledgerVars
    BY <1>15 DEF Resume, AtOperation
  <2>2. mem[p] = disk /\ ApplyJob(p)
    <3>1. job[p] # None
      BY <2>1, LedgerAssumption DEF TypeOK, LedgerTypeOK, Applying
    <3> QED BY <1>2, <2>1, <3>1 DEF Informed, Applying, ApplyJob
  <2>3. InPlan(p)'
    BY <1>2, <2>1, <2>2, InPlanPasses DEF Informed, ledgerVars
  <2> QED BY <1>2, <1>5, <2>1, <2>2, <2>3
          DEF Informed, ledgerVars, Active, Applying, Publishing, PHASES
<1>16. CASE ReplacesInApply(p)
  <2>1. /\ Applying(p) /\ pc[p] = "replace" /\ Pass(p) /\ todo[p] # <<>>
        /\ pc'[p] = "next" /\ disk' = scratch
        /\ UNCHANGED <<mem, exit, job>>
    BY <1>1, <1>16 DEF ReplacesInApply, ReplaceLedger, Goto, TypeOK, ApplyTypeOK
  <2>2. disk' = mem[p] /\ Held(disk', Current(p))
    BY <1>2, <2>1 DEF Informed, NextId, Held
  <2>3. InPlan(p)'
    <3>1. ApplyJob(p)
      BY <2>1, LedgerAssumption DEF TypeOK, LedgerTypeOK, Applying, ApplyJob
    <3> QED BY <1>2, <2>1, <2>2, <3>1, InPlanPasses DEF Informed
  <2> QED BY <1>2, <1>5, <2>1, <2>2, <2>3
          DEF Informed, Active, Applying, Publishing, PHASES
<1> QED BY <1>7, <1>8, <1>9, <1>10, <1>12, <1>13, <1>14, <1>15, <1>16 DEF Acts

\* When a phase is reported completed, all of it is on disk.
LEMMA ReportsAreDurable ==
  ASSUME TypeOK, SerialInv, [Next]_vars, BeforeFilesHeld => BeforeFilesHeld',
         NEW plan \in Plans, <<plan, "before-files">> \in reported'
  PROVE  BeforeFilesHeld'
<1>1. CASE <<plan, "before-files">> \in reported
  BY <1>1 DEF SerialInv
<1>2. CASE <<plan, "before-files">> \notin reported
  <2>1. PICK p \in Run : /\ ApplyStep(p)
                         /\ exit'[p] = "completed"
                         /\ <<job[p].plan, job[p].stage>> = <<plan, "before-files">>
    BY <1>2 DEF Next, Operate, BuildResult, BeginApply, BeginPublish,
                ContinueApply, ContinuePublish, GoWrong, operatorVars, vars
  <2>2. Applying(p) /\ Informed(p) /\ job[p].stage = "before-files"
    BY <2>1 DEF ApplyStep, AtOperation, Writing, Resume, RefuseResume, Observe,
                RefuseObserve, Write, WriteRefused, Reread, RefuseReread,
                RecordReceipt, CompleteApply, SerialInv
  <2>3. CompleteApply(p)
    <3>1. exit \in [Run -> Exit] /\ exit[p] = "none"
      BY <2>2 DEF TypeOK, LedgerTypeOK, Informed
    <3>2. CASE Resume(p) \/ Observe(p) \/ Write(p) \/ Reread(p)
      BY <2>1, <3>1, <3>2 DEF Resume, Observe, Write, Reread, Goto, ledgerVars
    <3>3. CASE RefuseResume(p) \/ RefuseObserve(p) \/ WriteRefused(p) \/ RefuseReread(p)
      BY <2>1, <3>1, <3>3 DEF RefuseResume, RefuseObserve, WriteRefused,
                              RefuseReread, Stop, End
    <3>4. CASE RecordReceipt(p)
      BY <2>1, <3>1, <3>4 DEF RecordReceipt, WriteScratch, ReplaceLedger,
                              ReplaceMissing, Goto, End
    <3> QED BY <2>1, <3>2, <3>3, <3>4 DEF ApplyStep
  <2>4. InPlan(p)
    <3>1. ApplyJob(p)
      BY <2>2, LedgerAssumption DEF TypeOK, LedgerTypeOK, Applying, ApplyJob
    <3> QED BY <2>2, <3>1 DEF Informed
  <2>5. BeforeFilesHeld
    <3> DEFINE staged == Staged("before-files")
    <3>1. Behind(p) = Len(staged) - Len(todo[p]) /\ Len(todo[p]) = 0
      BY <2>2, <2>3 DEF Behind, CompleteApply
    <3>2. Len(staged) \in Nat
      BY StagedType, LenProperties DEF PHASES
    <3>3. \A i \in 1..Behind(p) : Held(disk, staged[i])
      BY <2>2, <2>4 DEF InPlan
    <3> HIDE DEF staged
    <3>4. Behind(p) = Len(staged)
      BY <3>1, <3>2
    <3> QED BY <3>3, <3>4 DEF BeforeFilesHeld, StagedOps, staged
  <2> QED BY <2>5
<1> QED BY <1>1, <1>2

LEMMA SerialInvariant ==
  ASSUME OneAtATime
  PROVE  Spec => []SerialInv
<1>1. Init => SerialInv
  <2> SUFFICES ASSUME Init PROVE SerialInv
    OBVIOUS
  <2>1. /\ \A p \in Run : ~Active(p) /\ job[p] = None /\ pc[p] = "idle"
        /\ reported = {}
    BY DEF Init, LedgerInit, Active
  <2> QED BY <2>1
          DEF SerialInv, Alone, Informed, Applying, Publishing, ApplyJob
<1>2. TypeOK /\ SerialInv /\ [Next]_vars => SerialInv'
  <2> SUFFICES ASSUME TypeOK, SerialInv, [Next]_vars PROVE SerialInv'
    OBVIOUS
  <2>1. ASSUME NEW p \in Run, Acts(p)
        PROVE  /\ Alone' /\ \A q \in Run : Informed(q)'
               /\ BeforeFilesHeld => BeforeFilesHeld'
    <3>1. \A q \in Run : q # p => ~Active(q)'
      BY <2>1, OthersAreIdle DEF SerialInv, Active
    <3>2. \A q \in Run : Informed(q)'
      BY <2>1, OthersStayInformed, ActorStaysInformed
    <3>3. BeforeFilesHeld => BeforeFilesHeld'
      BY <2>1, ReceiptsStay DEF BeforeFilesHeld
    <3> QED BY <3>1, <3>2, <3>3 DEF Alone
  <2>2. ASSUME NobodyActs
        PROVE  /\ Alone' /\ \A q \in Run : Informed(q)'
               /\ BeforeFilesHeld => BeforeFilesHeld'
    <3>1. Alone' /\ (BeforeFilesHeld => BeforeFilesHeld')
      BY <2>2 DEF NobodyActs, SerialInv, Alone, Active, BeforeFilesHeld
    <3>2. ASSUME NEW q \in Run
          PROVE  Informed(q)'
      <4>1. Informed(q) /\ (exit'[q] = exit[q] \/ ~Active(q))
        BY <2>2 DEF SerialInv, NobodyActs
      <4>2. UNCHANGED <<disk, scratch, mem, pc, job, todo>>
        BY <2>2 DEF NobodyActs
      <4>3. /\ Active(q)' <=> Active(q)
            /\ Applying(q)' <=> Applying(q)
            /\ Publishing(q)' <=> Publishing(q)
            /\ ApplyJob(q)' <=> ApplyJob(q)
            /\ NextId(q)' = NextId(q)
            /\ InPlan(q)' <=> InPlan(q)
        BY <4>2 DEF Active, Applying, Publishing, ApplyJob, NextId, InPlan,
                    Behind, Current
      <4>4. exit'[q] = exit[q] \/ ~Applying(q)
        BY <4>1 DEF Applying
      <4> QED BY <3>1, <4>1, <4>2, <4>3, <4>4 DEF Informed
    <3> QED BY <3>1, <3>2
  <2>3. /\ Alone' /\ \A q \in Run : Informed(q)'
        /\ BeforeFilesHeld => BeforeFilesHeld'
    BY <2>1, <2>2, ActorMoves
  <2>4. (\E plan \in Plans : <<plan, "before-files">> \in reported') => BeforeFilesHeld'
    BY <2>3, ReportsAreDurable
  <2> QED BY <2>3, <2>4 DEF SerialInv
<1> QED BY <1>1, <1>2, TypeCorrect, PTL DEF Spec

(***************************************************************************)
(* Whatever an apply command has gone past, and so reports as applied when *)
(* it stops, is on disk and stays there, wherever commands died and        *)
(* whatever outsiders do: the next command can resume from it.             *)
(***************************************************************************)
THEOREM AppliedStaysDurable ==
  ASSUME OneAtATime
  PROVE  Spec => []AppliedIsDurable
<1>1. TypeOK /\ SerialInv => AppliedIsDurable
  <2> SUFFICES ASSUME TypeOK, SerialInv, NEW p \in Run, job[p] # None,
                      job[p].stage \in PHASES, NEW op \in Passed(p)
               PROVE  Held(disk, op)
    BY DEF AppliedIsDurable
  <2> DEFINE staged == Staged(job[p].stage)
             behind == Behind(p)
  <2>1. /\ InPlan(p)
        /\ Len(staged) \in Nat /\ Len(todo[p]) \in Nat /\ behind \in Nat
        /\ behind = Len(staged) - Len(todo[p])
    BY StagedType, LenProperties
       DEF SerialInv, Informed, ApplyJob, InPlan, Behind, TypeOK, ApplyTypeOK
  <2>2. PICK j \in 1..Len(staged) : op = staged[j]
    BY DEF Passed, StagedOps
  <2>3. /\ \A i \in 1..Len(todo[p]) : todo[p][i] = staged[behind + i]
        /\ \A i \in 1..behind : Held(disk, staged[i])
    BY <2>1 DEF InPlan
  <2>4. \A i \in 1..Len(todo[p]) : op # todo[p][i]
    BY DEF Passed
  <2> HIDE DEF staged, behind
  <2>5. ~(j > behind)
    <3> SUFFICES ASSUME j > behind PROVE FALSE
      OBVIOUS
    <3> DEFINE m == Len(staged)
               n == Len(todo[p])
    <3>1. j \in 1..m /\ m \in Nat /\ n \in Nat /\ behind \in Nat /\ behind = m - n
      BY <2>1
    <3> HIDE DEF m, n
    <3>2. j - behind \in 1..n /\ j = behind + (j - behind)
      BY <3>1
    <3>3. \E i \in 1..n : j = behind + i
      BY <3>2
    <3> QED BY <2>2, <2>3, <2>4, <3>3 DEF n
  <2>6. j \in 1..behind
    BY <2>1, <2>5
  <2> QED BY <2>2, <2>3, <2>6
<1> QED BY <1>1, SerialInvariant, TypeCorrect, PTL

(***************************************************************************)
(* An operation that has a receipt is never written again, whoever         *)
(* deleted, recreated or altered its resource since.                       *)
(***************************************************************************)
THEOREM NothingIsRewritten ==
  ASSUME OneAtATime
  PROVE  Spec => []ReceiptedIsNotRewritten
<1>1. SerialInv => ReceiptedIsNotRewritten
  BY DEF SerialInv, Informed, ReceiptedIsNotRewritten, Writing, Applying, NextId
<1> QED BY <1>1, SerialInvariant, PTL

----------------------------------------------------------------------------
\* The operations that have a receipt.
Receipted == {row.id : row \in disk}

\* The promise speaks of the same plan.
LEMMA SamePlan ==
  /\ \A phase : Promise!Staged(phase) = Staged(phase)
  /\ \A phase : Promise!StagedOps(phase) = StagedOps(phase)
  /\ \A r : Promise!PublishId(r) = PublishId(r)
  /\ Promise!Repo = Repo /\ Promise!PublishIds = PublishIds
  /\ Promise!ReceiptId = ReceiptId
<1>1. \A kind : Promise!ForEachRepository(kind) = ForEachRepository(kind)
  BY DEF Promise!ForEachRepository, ForEachRepository
<1>2. \A phase : Promise!Staged(phase) = Staged(phase)
  BY <1>1 DEF Promise!Staged, Staged
<1>3. \A phase : Promise!StagedOps(phase) = StagedOps(phase)
  BY <1>2 DEF Promise!StagedOps, StagedOps
<1>4. /\ \A r : Promise!PublishId(r) = PublishId(r)
      /\ Promise!Repo = Repo
  BY DEF Promise!PublishId, PublishId, Promise!Repo, Repo
<1>5. Promise!PublishIds = PublishIds
  BY <1>4 DEF Promise!PublishIds, PublishIds
<1>6. Promise!Op = Op
  BY <1>4 DEF Promise!Op, Op, Promise!ApplyKind, ApplyKind
<1> QED BY <1>2, <1>3, <1>4, <1>5, <1>6 DEF Promise!ReceiptId, ReceiptId

\* Only build_result issues a result.
LEMMA OnlyBuildIssues ==
  ASSUME [Next]_vars
  PROVE  results' = results \/ \E plan \in Plans : BuildResult(plan)
BY DEF Next, Operate, BeginApply, BeginPublish, ContinueApply, ContinuePublish,
       GoWrong, operatorVars, vars

\* A receipt that comes, comes in the order of the plan.
LEMMA ReceiptsComeInOrder ==
  ASSUME TypeOK, SerialInv, InOrder, NEW p \in Run, Acts(p),
         ReplacesInApply(p) \/ ReplacesInPublish(p), results' = results,
         Receipted' = Receipted \cup {NextId(p)}
  PROVE  Promise!Receive
<1>1. \A id : Held(disk, id) <=> id \in Receipted
  BY DEF Held, Receipted
<1>2. /\ Informed(p) /\ pc[p] = "replace" /\ Active(p)
      /\ NextId(p) \notin Receipted
  BY <1>1 DEF SerialInv, Informed, ReplacesInApply, ReplaceLedger,
              ReplacesInPublish, Applying, Publishing
<1>3. CASE ReplacesInPublish(p)
  <2> DEFINE r == job[p].repo
  <2>1. Publishing(p) /\ r \in Repo /\ NextId(p) = PublishId(r)
    <3>1. ~Applying(p) /\ Publishing(p)
      BY <1>3 DEF ReplacesInPublish, Applying, Publishing, PHASES
    <3> QED BY <3>1 DEF TypeOK, PublishTypeOK, NextId
  <2>2. StagedOps("before-files") \subseteq Receipted
    BY <1>1, <1>2, <2>1 DEF Informed, BeforeFilesHeld
  <2> HIDE DEF r
  <2>3. Promise!ReceiveGenesis
    BY <1>2, <2>1, <2>2, SamePlan DEF Promise!ReceiveGenesis, Receipted
  <2> QED BY <2>3 DEF Promise!Receive
<1>4. CASE ReplacesInApply(p)
  <2> DEFINE staged == Staged(job[p].stage)
             behind == Behind(p)
  <2>1. /\ Applying(p) /\ todo[p] # <<>> /\ NextId(p) = Current(p)
    BY <1>2, <1>4 DEF ReplacesInApply, NextId, TypeOK, ApplyTypeOK
  <2>2. InPlan(p) /\ job[p].stage \in PHASES
    BY <1>2, <2>1, LedgerAssumption
       DEF TypeOK, LedgerTypeOK, Applying, ApplyJob, Informed
  <2>3. /\ Current(p) = todo[p][1] /\ Len(todo[p]) \in Nat /\ 1 \in 1..Len(todo[p])
        /\ Len(staged) \in Nat
    BY <2>1, <2>2, CurrentPending, StagedType, LenProperties
  <2>4. /\ behind \in Nat /\ behind = Len(staged) - Len(todo[p])
        /\ todo[p][1] = staged[behind + 1]
        /\ \A j \in 1..behind : staged[j] \in Receipted
    BY <1>1, <2>2, <2>3 DEF InPlan, Behind
  <2> HIDE DEF behind
  <2>5. /\ behind + 1 \in 1..Len(staged) /\ (behind + 1) - 1 = behind
        /\ NextId(p) = staged[behind + 1]
    <3> DEFINE m == Len(staged)
               n == Len(todo[p])
    <3>1. m \in Nat /\ n \in Nat /\ 1 \in 1..n /\ behind \in Nat /\ behind = m - n
      BY <2>3, <2>4
    <3> HIDE DEF m, n
    <3>2. behind + 1 \in 1..m /\ (behind + 1) - 1 = behind
      BY <3>1
    <3> QED BY <2>1, <2>3, <2>4, <3>2 DEF m
  <2>6. Promise!InPlanOrder(job[p].stage, behind + 1)
    BY <2>4, <2>5, SamePlan DEF Promise!InPlanOrder, Receipted
  <2>7. CASE job[p].stage = "before-files"
    <3>1. Promise!ReceiveBeforeFiles
      BY <1>2, <2>5, <2>6, <2>7, SamePlan DEF Promise!ReceiveBeforeFiles, Receipted
    <3> QED BY <3>1 DEF Promise!Receive
  <2>8. CASE job[p].stage = "after-files"
    <3>1. PublishIds \subseteq Receipted
      BY <1>1, <1>2, <2>1, <2>8 DEF Informed, PublishIds
    <3>2. Promise!ReceiveAfterFiles
      BY <1>2, <2>5, <2>6, <2>8, <3>1, SamePlan
         DEF Promise!ReceiveAfterFiles, Receipted
    <3> QED BY <3>2 DEF Promise!Receive
  <2> QED BY <2>2, <2>7, <2>8 DEF PHASES
<1> QED BY <1>3, <1>4

(***************************************************************************)
(* The bootstrap keeps what Bootstrap promises, for any number of plans    *)
(* and repositories, any faults and any outsiders: its initial states are  *)
(* those of the promise, and each of its steps brings the one receipt that *)
(* the promise allows next, issues a result, or changes neither.           *)
(***************************************************************************)
THEOREM PromiseIsKept ==
  ASSUME OneAtATime, InOrder
  PROVE  Spec => KeepsPromise
<1>1. Init => Promise!BootstrapInit
  BY DEF Init, LedgerInit, Promise!BootstrapInit
<1>2. TypeOK /\ GenesisInv /\ SerialInv /\ [Next]_vars
        => [Promise!Receive \/ Promise!Issue]_<<{row.id : row \in disk}, results # {}>>
  <2> SUFFICES ASSUME TypeOK, GenesisInv, SerialInv, [Next]_vars
               PROVE  \/ Promise!Receive \/ Promise!Issue
                      \/ Receipted' = Receipted /\ results' = results
    BY DEF Receipted
  <2>1. CASE \E plan \in Plans : BuildResult(plan)
    <3>1. Receipted = ReceiptId /\ disk' = disk /\ results' # {}
      BY <2>1, DeliverableIsFull DEF BuildResult, Receipted, ledgerVars
    <3>2. Promise!Issue
      BY <3>1, SamePlan DEF Promise!Issue, Receipted
    <3> QED BY <3>2
  <2>2. ASSUME NEW p \in Run, Acts(p), results' = results
        PROVE  Promise!Receive \/ (Receipted' = Receipted /\ results' = results)
    <3>1. CASE disk' = disk
      BY <2>2, <3>1 DEF Receipted
    <3>2. CASE /\ ReplacesInApply(p) \/ ReplacesInPublish(p)
               /\ \E receipt : receipt.id = NextId(p) /\ disk' = disk \cup {receipt}
      <4>1. Receipted' = Receipted \cup {NextId(p)}
        BY <3>2 DEF Receipted
      <4> QED BY <2>2, <3>2, <4>1, ReceiptsComeInOrder
    <3> QED BY <2>2, <3>1, <3>2, FileGrows
  <2>3. CASE NobodyActs /\ results' = results
    BY <2>3 DEF NobodyActs, Receipted
  <2> QED BY <2>1, <2>2, <2>3, OnlyBuildIssues, ActorMoves
<1> QED BY <1>1, <1>2, TypeCorrect, GenesisInvariant, SerialInvariant, PTL
        DEF Spec, KeepsPromise, Promise!BootstrapSpec

=============================================================================
