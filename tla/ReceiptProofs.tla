--------------------------- MODULE ReceiptProofs ---------------------------
(***************************************************************************)
(* What receipts and results are worth, for any number of plans, commands  *)
(* and repositories and any faults, as long as nobody takes away or        *)
(* changes what was built: the safety properties of the bootstrap that     *)
(* relate the ledger to the remote.                                        *)
(***************************************************************************)
EXTENDS PipelineProofs

(***************************************************************************)
(* Strangers take names and no more, and publish is started as dogfood.sh  *)
(* does.  Without the first a receipt can outlive what it names; without   *)
(* the second the genesis is pushed to whatever has the name.              *)
(***************************************************************************)
Undisturbed == InOrder /\ Outside \subseteq {"create"}

CreateOp(r) == [kind |-> "create-repository", repo |-> r]
ScanOp(r) == [kind |-> "enable-secret-scanning", repo |-> r]

\* The operations a command has still before it.
Pending(p) == {todo[p][i] : i \in 1..Len(todo[p])}

\* All repositories are created before any of them is changed.
CreationsFirst(s) ==
  \A i, j \in 1..Len(s) :
    i < j /\ s[j].kind = "create-repository" => s[i].kind = "create-repository"

Made(r, plan) == Exists(r) /\ remote[r].maker = plan

Protected(r, plan) == Made(r, plan) /\ remote[r].secretScanning

Published(r) == remote[r].main # None /\ remote[r].dev # None

\* A command that applies is right about what it has gone past.
ApplierKnows(p) ==
  LET plan == job[p].plan IN
  /\ Pending(p) \subseteq StagedOps(job[p].stage)
  /\ CreationsFirst(todo[p])
  /\ exit[p] = "none"
  /\ \A r \in Repo :
       /\ CreateOp(r) \notin Pending(p) => Made(r, plan)
       /\ ScanOp(r) \notin Pending(p) => Protected(r, plan)
       /\ job[p].stage = "after-files" => Exists(r) /\ Published(r)
       /\ pc[p] = "reread" /\ Current(p) = CreateOp(r) => Made(r, plan)
  /\ pc[p] \in {"record", "replace"} => Held(mem[p], Current(p))

RowsAreGenuine ==
  \A row \in AllRows : Genuine(row) /\ (row.id \in PublishIds => row.mark \in Nat)

AppliersKnow == \A p \in Run : Applying(p) => ApplierKnows(p)

PublishersKnow ==
  \A p \in Run, r \in Repo : Publishing(p) => Protected(r, job[p].plan)

ReportsHold ==
  \A plan \in Plans, r \in Repo :
    <<plan, "before-files">> \in reported => Protected(r, plan)

ReceiptInv ==
  /\ RowsAreGenuine /\ AppliersKnow /\ PublishersKnow /\ ReportsHold
  /\ NoForeignWrite /\ RulesetAfterGenesis /\ PushUnderProtection
  /\ ResultIsTrue

----------------------------------------------------------------------------
\* What an operation can be.
LEMMA OpShape ==
  ASSUME NEW op \in Op
  PROVE  /\ op.repo \in Repo /\ op.kind \in ApplyKind
         /\ op = [kind |-> op.kind, repo |-> op.repo]
         /\ op.kind = "create-repository" => op = CreateOp(op.repo)
         /\ op.kind = "enable-secret-scanning" => op = ScanOp(op.repo)
         /\ op \notin PublishIds
BY DEF Op, ApplyKind, CreateOp, ScanOp, PublishIds, PublishId

\* What was there, stays: identity, heads, settings.
SameIdentity(old, new) ==
  new.node = old.node /\ new.private = old.private /\ new.maker = old.maker

SameHeads(old, new) == new.main = old.main /\ new.dev = old.dev

SettingsStay(old, new) ==
  /\ old.secretScanning => new.secretScanning
  /\ old.defaultBranch => new.defaultBranch
  /\ old.codeScanning => new.codeScanning

\* A write that takes effect, field by field.
LEMMA EffectMeans ==
  ASSUME TypeOK, NEW op \in Op, NEW plan \in Plans, Effect(op, plan)
  PROVE  LET r == op.repo IN
         /\ Exists(r)'
         /\ \A q \in Repo \ {r} : remote'[q] = remote[q]
         /\ op.kind = "create-repository" =>
              /\ ~Exists(r)
              /\ remote'[r].maker = plan
              /\ remote'[r].touched = {}
              /\ remote'[r].ruleset = "none"
              /\ remote'[r].main = None
         /\ op.kind # "create-repository" =>
              /\ Exists(r)
              /\ SameIdentity(remote[r], remote'[r])
              /\ SameHeads(remote[r], remote'[r])
              /\ SettingsStay(remote[r], remote'[r])
              /\ remote'[r].touched = remote[r].touched \cup {plan}
              /\ op.kind = "create-ruleset" => remote[r].ruleset = "none"
              /\ op.kind # "create-ruleset" => remote'[r].ruleset = remote[r].ruleset
<1> DEFINE r == op.repo
<1>1. /\ remote \in [Repo -> Repository \cup {None}]
      /\ r \in Repo /\ op.kind \in ApplyKind
  BY OpShape DEF TypeOK, GitHubTypeOK
<1>2. CASE CreateRepository(op, plan)
  <2>1. PICK on \in BOOLEAN :
          remote' = [remote EXCEPT ![r] =
                       NewRepository(plan, DesiredPrivate[plan][r], on, None)]
    BY <1>2 DEF CreateRepository
  <2>2. remote'[r] = NewRepository(plan, DesiredPrivate[plan][r], on, None)
    BY <1>1, <2>1
  <2>3. Exists(r)'
    <3>1. nodes + 1 \in Nat /\ DesiredPrivate[plan][r] \in BOOLEAN
      BY <1>1, PlanAssumption DEF TypeOK, GitHubTypeOK
    <3>2. NewRepository(plan, DesiredPrivate[plan][r], on, None) \in Repository
      BY <3>1 DEF NewRepository, Repository
    <3> QED BY <2>2, <3>2, GitHubAssumption DEF Exists
  <2>4. ~Exists(r) /\ op.kind = "create-repository"
    BY <1>2 DEF Effect, Accepts, CreateRepository
  <2>5. \A q \in Repo \ {r} : remote'[q] = remote[q]
    BY <1>1, <2>1
  <2> QED BY <2>2, <2>3, <2>4, <2>5 DEF NewRepository
<1>3. CASE ChangeRepository(op, plan)
  <2>1. /\ Exists(r) /\ op.kind # "create-repository"
        /\ op.kind = "create-ruleset" => remote[r].ruleset = "none"
    BY <1>1, <1>3 DEF Effect, Accepts, ChangeRepository, ApplyKind
  <2>2. remote[r] \in Repository
    BY <1>1, <2>1 DEF Exists
  <2> DEFINE written == [remote[r] EXCEPT !.touched = @ \cup {plan}]
  <2>3. /\ written \in Repository
        /\ SameIdentity(remote[r], written)
        /\ SameHeads(remote[r], written)
        /\ SettingsStay(remote[r], written)
        /\ written.touched = remote[r].touched \cup {plan}
        /\ written.ruleset = remote[r].ruleset
    BY <2>2 DEF Repository, SameIdentity, SameHeads, SettingsStay
  <2> HIDE DEF written
  <2>4. remote'[r] = CASE op.kind = "enable-secret-scanning" ->
                            [written EXCEPT !.secretScanning = TRUE]
                       [] op.kind = "set-default-branch" ->
                            [written EXCEPT !.defaultBranch = TRUE]
                       [] op.kind = "enable-code-scanning" ->
                            [written EXCEPT !.codeScanning = TRUE]
                       [] op.kind = "create-ruleset" ->
                            [written EXCEPT !.ruleset = "approved"]
    BY <1>1, <1>3 DEF ChangeRepository, written
  <2>5. /\ remote'[r] \in Repository
        /\ SameIdentity(written, remote'[r])
        /\ SameHeads(written, remote'[r])
        /\ SettingsStay(written, remote'[r])
        /\ remote'[r].touched = written.touched
        /\ op.kind # "create-ruleset" => remote'[r].ruleset = written.ruleset
    <3>1. CASE op.kind = "enable-secret-scanning"
      BY <2>3, <2>4, <3>1 DEF Repository, SameIdentity, SameHeads, SettingsStay
    <3>2. CASE op.kind = "set-default-branch"
      BY <2>3, <2>4, <3>2 DEF Repository, SameIdentity, SameHeads, SettingsStay
    <3>3. CASE op.kind = "enable-code-scanning"
      BY <2>3, <2>4, <3>3 DEF Repository, SameIdentity, SameHeads, SettingsStay
    <3>4. CASE op.kind = "create-ruleset"
      BY <2>3, <2>4, <3>4 DEF Repository, SameIdentity, SameHeads, SettingsStay
    <3> QED BY <1>1, <2>1, <3>1, <3>2, <3>3, <3>4 DEF ApplyKind
  <2>6. \A q \in Repo \ {r} : remote'[q] = remote[q]
    BY <1>1, <1>3 DEF ChangeRepository
  <2>7. Exists(r)'
    BY <2>5, GitHubAssumption DEF Exists
  <2> QED BY <2>1, <2>3, <2>5, <2>6, <2>7
             DEF SameIdentity, SameHeads, SettingsStay
<1> QED BY <1>2, <1>3 DEF Effect

\* A push that is accepted, field by field.
LEMMA PushMeans ==
  ASSUME TypeOK, NEW r \in Repo, NEW branch \in {"main", "dev"},
         NEW commit \in Nat, NEW plan \in Plans, Push(r, branch, commit, plan)
  PROVE  /\ Exists(r) /\ Exists(r)'
         /\ \A q \in Repo \ {r} : remote'[q] = remote[q]
         /\ SameIdentity(remote[r], remote'[r])
         /\ SettingsStay(remote[r], remote'[r])
         /\ remote'[r].ruleset = remote[r].ruleset
         /\ remote'[r].touched = remote[r].touched \cup {plan}
         /\ remote[r].main # None => remote'[r].main = remote[r].main
         /\ remote[r].dev # None => remote'[r].dev = remote[r].dev
<1>1. /\ remote \in [Repo -> Repository \cup {None}]
      /\ Exists(r) /\ remote[r] \in Repository
      /\ remote[r][branch] \in {None, commit}
  BY DEF TypeOK, GitHubTypeOK, Push, AcceptsPush, Exists
<1>2. /\ remote'[r] = [remote[r] EXCEPT ![branch] = commit, !.touched = @ \cup {plan}]
      /\ \A q \in Repo \ {r} : remote'[q] = remote[q]
  BY <1>1 DEF Push
<1>3. /\ remote'[r] \in Repository
      /\ SameIdentity(remote[r], remote'[r])
      /\ SettingsStay(remote[r], remote'[r])
      /\ remote'[r].ruleset = remote[r].ruleset
      /\ remote'[r].touched = remote[r].touched \cup {plan}
      /\ remote[r].main # None => remote'[r].main = remote[r].main
      /\ remote[r].dev # None => remote'[r].dev = remote[r].dev
  <2> DEFINE pushed == [remote[r] EXCEPT ![branch] = commit]
  <2>1. /\ pushed \in Repository
        /\ SameIdentity(remote[r], pushed)
        /\ SettingsStay(remote[r], pushed)
        /\ pushed.ruleset = remote[r].ruleset
        /\ pushed.touched = remote[r].touched
        /\ remote[r].main # None => pushed.main = remote[r].main
        /\ remote[r].dev # None => pushed.dev = remote[r].dev
    <3>1. CASE branch = "main"
      BY <1>1, <3>1 DEF Repository, SameIdentity, SettingsStay
    <3>2. CASE branch = "dev"
      BY <1>1, <3>2 DEF Repository, SameIdentity, SettingsStay
    <3> QED BY <3>1, <3>2
  <2>2. remote'[r] = [pushed EXCEPT !.touched = @ \cup {plan}]
    BY <1>2
  <2> HIDE DEF pushed
  <2> QED BY <2>1, <2>2 DEF Repository, SameIdentity, SettingsStay
<1>4. Exists(r)'
  BY <1>3, GitHubAssumption DEF Exists
<1> QED BY <1>1, <1>2, <1>3, <1>4
\* The operation a command is at is one it has before it.
LEMMA CurrentPending ==
  ASSUME TypeOK, NEW p \in Run, todo[p] # <<>>
  PROVE  /\ Current(p) \in Op /\ Current(p) = todo[p][1]
         /\ Len(todo[p]) \in Nat /\ 1 \in 1..Len(todo[p])
         /\ Current(p) \in Pending(p)
<1>1. todo[p] \in Seq(Op)
  BY DEF TypeOK, ApplyTypeOK
<1>2. Current(p) = todo[p][1] /\ Current(p) \in Op
  BY <1>1, HeadTailProperties DEF Current
<1>3. Len(todo[p]) \in Nat /\ 1 \in 1..Len(todo[p])
  BY <1>1, EmptySeq, LenProperties
<1> QED BY <1>2, <1>3 DEF Pending

\* A command that writes does so for an operation it has before it.
LEMMA WriteMeans ==
  ASSUME TypeOK, NEW p \in Run, Write(p) \/ WriteReplyLost(p)
  PROVE  /\ Applying(p) /\ pc[p] = "write" /\ todo[p] # <<>>
         /\ Current(p) \in Op /\ Current(p) \in Pending(p)
         /\ job[p].plan \in Plans
         /\ Effect(Current(p), job[p].plan)
<1>1. /\ Applying(p) /\ pc[p] = "write" /\ todo[p] # <<>>
      /\ Effect(Current(p), job[p].plan)
  BY DEF Write, WriteReplyLost, Writing, TypeOK, ApplyTypeOK
<1>2. job[p].plan \in Plans
  BY <1>1, JobType DEF TypeOK, Applying
<1> QED BY <1>1, <1>2, CurrentPending

\* A command that pushes does so to the repository it was started for.
LEMMA PushBranchMeans ==
  ASSUME TypeOK, NEW p \in Run, PushBranch(p) \/ PushReplyLost(p)
  PROVE  /\ Publishing(p) /\ job[p].plan \in Plans /\ job[p].repo \in Repo
         /\ genesis[p] \in Nat
         /\ BranchPushed(p) \in {"main", "dev"}
         /\ Push(job[p].repo, BranchPushed(p), genesis[p], job[p].plan)
<1>1. /\ Publishing(p) /\ pc[p] # "build"
      /\ Push(job[p].repo, BranchPushed(p), genesis[p], job[p].plan)
  BY DEF PushBranch, PushReplyLost, AtPush, At
<1>2. job[p].plan \in Plans
  BY <1>1, JobType DEF TypeOK, Publishing
<1> QED BY <1>1, <1>2 DEF TypeOK, PublishTypeOK, BranchPushed

\* Nobody takes away or changes what is there.
Grows(r) ==
  /\ Exists(r)'
  /\ SameIdentity(remote[r], remote'[r])
  /\ SettingsStay(remote[r], remote'[r])
  /\ remote[r].ruleset # "none" => remote'[r].ruleset = remote[r].ruleset
  /\ remote[r].main # None => remote'[r].main = remote[r].main
  /\ remote[r].dev # None => remote'[r].dev = remote[r].dev

LEMMA RemoteGrows ==
  ASSUME TypeOK, Undisturbed, [Next]_vars, NEW r \in Repo, Exists(r)
  PROVE  Grows(r)
<1>1. ASSUME remote'[r] = remote[r]
      PROVE  Grows(r)
  BY <1>1 DEF Grows, Exists, SameIdentity, SettingsStay
<1>2. ASSUME NEW p \in Run, Write(p) \/ WriteReplyLost(p)
      PROVE  Grows(r)
  <2> DEFINE op == Current(p)
  <2>1. op \in Op /\ job[p].plan \in Plans /\ Effect(op, job[p].plan)
    BY <1>2, WriteMeans
  <2> HIDE DEF op
  <2>2. CASE op.repo = r
    <3>1. op.kind # "create-repository"
      BY <2>1, <2>2, EffectMeans
    <3> QED BY <2>1, <2>2, <3>1, EffectMeans DEF Grows, SameHeads
  <2>3. CASE op.repo # r
    BY <1>1, <2>1, <2>3, EffectMeans
  <2> QED BY <2>2, <2>3
<1>3. ASSUME NEW p \in Run, PushBranch(p) \/ PushReplyLost(p)
      PROVE  Grows(r)
  <2> DEFINE q == job[p].repo
  <2>1. /\ q \in Repo /\ job[p].plan \in Plans /\ genesis[p] \in Nat
        /\ BranchPushed(p) \in {"main", "dev"}
        /\ Push(q, BranchPushed(p), genesis[p], job[p].plan)
    BY <1>3, PushBranchMeans
  <2> HIDE DEF q
  <2>2. CASE q = r
    BY <2>1, <2>2, PushMeans DEF Grows
  <2>3. CASE q # r
    BY <1>1, <2>1, <2>3, PushMeans
  <2> QED BY <2>2, <2>3
<1>4. CASE OutsideNext
  <2>1. PICK q \in Repo : OutsideCreate(q)
    BY <1>4 DEF OutsideNext, OutsideDelete, OutsideAlter, OutsideDevelop, Undisturbed
  <2>2. q # r /\ remote'[r] = remote[r]
    BY <2>1 DEF OutsideCreate, TypeOK, GitHubTypeOK
  <2> QED BY <1>1, <2>2
<1> QED BY <1>1, <1>2, <1>3, <1>4, RemoteMoves

\* So what a row says of the remote stays true.
LEMMA GenuineStays ==
  ASSUME TypeOK, Undisturbed, [Next]_vars, NEW row \in Receipt, Genuine(row),
         row.id \in PublishIds => row.mark \in Nat
  PROVE  Genuine(row)'
<1> DEFINE r == row.id.repo
<1>1. r \in Repo /\ (row.id \notin Op => row.id \in PublishIds)
  <2>1. row.id \in Op \cup PublishIds
    BY DEF Receipt, ReceiptId
  <2> QED BY <2>1, OpShape DEF PublishIds, PublishId
<1>2. Exists(r) /\ remote[r].maker = row.plan
  BY DEF Genuine
<1>3. Grows(r)
  BY <1>1, <1>2, RemoteGrows
<1>4. Exists(r)' /\ remote'[r].maker = row.plan
  BY <1>2, <1>3 DEF Grows, SameIdentity
<1>5. CASE row.id \in Op
  <2>1. Present(row.id)'
    BY <1>3, <1>5 DEF Genuine, Present, Grows
  <2>2. InApprovedState(row.id, row.plan)'
    <3>1. row.id.kind \in ApplyKind /\ InApprovedState(row.id, row.plan)
      BY <1>5, OpShape DEF Genuine
    <3> QED BY <1>3, <3>1
            DEF InApprovedState, ApplyKind, Grows, SameIdentity, SettingsStay
  <2>3. row.mark = Fingerprint(row.id)'
    BY <1>3, <1>5 DEF Genuine, Fingerprint, Grows, SameIdentity
  <2> QED BY <1>4, <1>5, <2>1, <2>2, <2>3 DEF Genuine
<1>6. CASE row.id \notin Op
  <2>1. CarriesGenesis(r, row.mark) /\ row.mark # None
    BY <1>1, <1>6, GitHubAssumption DEF Genuine
  <2>2. CarriesGenesis(r, row.mark)'
    BY <1>3, <2>1 DEF CarriesGenesis, Grows
  <2> QED BY <1>4, <1>6, <2>2 DEF Genuine
<1> QED BY <1>5, <1>6

\* Where the elements of a concatenation come from.
LEMMA ConcatElements ==
  ASSUME NEW S, NEW s \in Seq(S), NEW t \in Seq(S)
  PROVE  /\ s \o t \in Seq(S) /\ Len(s \o t) = Len(s) + Len(t)
         /\ \A i \in 1..Len(s) : (s \o t)[i] = s[i]
         /\ \A i \in 1..Len(t) : (s \o t)[Len(s) + i] = t[i]
         /\ \A i \in 1..Len(s \o t) :
              i \in 1..Len(s) \/ \E j \in 1..Len(t) : i = Len(s) + j
<1> DEFINE m == Len(s)
           n == Len(t)
           st == s \o t
<1>1. m \in Nat /\ n \in Nat
  BY LenProperties
<1>2. /\ st \in Seq(S) /\ Len(st) = m + n
      /\ \A i \in 1..(m + n) : st[i] = IF i <= m THEN s[i] ELSE t[i - m]
  BY ConcatProperties
<1> HIDE DEF m, n, st
<1>3. /\ \A i \in 1..m : st[i] = s[i]
      /\ \A i \in 1..n : st[m + i] = t[i]
  BY <1>1, <1>2
<1>4. \A i \in 1..(m + n) : i \in 1..m \/ \E j \in 1..n : i = m + j
  <2> TAKE i \in 1..(m + n)
  <2>1. CASE i > m
    <3>1. i - m \in 1..n /\ i = m + (i - m)
      BY <1>1, <2>1
    <3> QED BY <3>1
  <2> QED BY <1>1, <2>1
<1> QED BY <1>2, <1>3, <1>4 DEF m, n, st

\* The operations of two sequences in a row are those of the one and of the other.
LEMMA ConcatCreations ==
  ASSUME NEW s \in Seq(Op), NEW t \in Seq(Op),
         \A i \in 1..Len(t) : t[i].kind # "create-repository",
         CreationsFirst(s)
  PROVE  /\ s \o t \in Seq(Op) /\ CreationsFirst(s \o t)
         /\ {(s \o t)[i] : i \in 1..Len(s \o t)} =
              {s[i] : i \in 1..Len(s)} \cup {t[i] : i \in 1..Len(t)}
<1> DEFINE m == Len(s)
           n == Len(t)
           st == s \o t
<1>1. m \in Nat /\ n \in Nat
  BY LenProperties
<1>2. /\ st \in Seq(Op) /\ Len(st) = m + n
      /\ \A i \in 1..m : st[i] = s[i]
      /\ \A i \in 1..n : st[m + i] = t[i]
      /\ \A i \in 1..Len(st) : i \in 1..m \/ \E j \in 1..n : i = m + j
  BY ConcatElements
<1>3. \A i, j \in 1..m : i < j /\ s[j].kind = "create-repository"
                            => s[i].kind = "create-repository"
  BY DEF CreationsFirst
<1> HIDE DEF m, n, st
<1>4. ASSUME NEW i \in 1..Len(st), NEW j \in 1..Len(st), i < j,
             st[j].kind = "create-repository"
      PROVE  st[i].kind = "create-repository"
  <2>1. j \in 1..m
    BY <1>2, <1>4 DEF n
  <2>2. i \in 1..m
    BY <1>1, <1>2, <1>4, <2>1
  <2> QED BY <1>2, <1>3, <1>4, <2>1, <2>2
<1>5. CreationsFirst(st)
  BY <1>4 DEF CreationsFirst
<1>6. {st[i] : i \in 1..Len(st)} = {s[i] : i \in 1..m} \cup {t[i] : i \in 1..n}
  <2>1. \A i \in 1..Len(st) : (\E k \in 1..m : st[i] = s[k]) \/ \E k \in 1..n : st[i] = t[k]
    BY <1>2
  <2>2. \A k \in 1..m : k \in 1..Len(st) /\ st[k] = s[k]
    BY <1>1, <1>2
  <2>3. \A k \in 1..n : m + k \in 1..Len(st) /\ st[m + k] = t[k]
    BY <1>1, <1>2
  <2> QED BY <2>1, <2>2, <2>3
<1> QED BY <1>2, <1>5, <1>6 DEF m, n, st

\* The operations of one kind, and nothing else.
LEMMA ForEachKind ==
  ASSUME NEW kind \in ApplyKind
  PROVE  LET s == ForEachRepository(kind) IN
         /\ s \in Seq(Op)
         /\ \A i \in 1..Len(s) : s[i].kind = kind
         /\ CreationsFirst(s)
         /\ {s[i] : i \in 1..Len(s)} = {[kind |-> kind, repo |-> r] : r \in Repo}
<1> DEFINE s == ForEachRepository(kind)
           n == Len(Repositories)
<1>1. /\ s \in Seq(Op) /\ Len(s) = n
      /\ \A i \in 1..n : s[i] = [kind |-> kind, repo |-> Repositories[i]]
  BY ForEachType
<1> HIDE DEF s
<1>2. \A i \in 1..n : s[i].kind = kind
  <2> TAKE i \in 1..n
  <2>1. s[i] = [kind |-> kind, repo |-> Repositories[i]]
    BY <1>1
  <2> QED BY <2>1
<1>3. {s[i] : i \in 1..n} = {[kind |-> kind, repo |-> r] : r \in Repo}
  BY <1>1 DEF Repo
<1> QED BY <1>1, <1>2, <1>3 DEF CreationsFirst, s

\* before-files creates every repository and then protects each; after-files
\* creates none.
LEMMA StagedShape ==
  /\ \A phase \in PHASES : CreationsFirst(Staged(phase))
  /\ StagedOps("before-files") =
       {CreateOp(r) : r \in Repo} \cup {ScanOp(r) : r \in Repo}
<1> DEFINE creations == ForEachRepository("create-repository")
           scans == ForEachRepository("enable-secret-scanning")
           branches == ForEachRepository("set-default-branch")
           codeScans == ForEachRepository("enable-code-scanning")
           rulesets == ForEachRepository("create-ruleset")
<1>1. /\ "create-repository" \in ApplyKind
      /\ "enable-secret-scanning" \in ApplyKind
      /\ "set-default-branch" \in ApplyKind
      /\ "enable-code-scanning" \in ApplyKind
      /\ "create-ruleset" \in ApplyKind
  BY DEF ApplyKind
<1>2. /\ creations \in Seq(Op) /\ CreationsFirst(creations)
      /\ {creations[i] : i \in 1..Len(creations)} = {CreateOp(r) : r \in Repo}
  BY <1>1, ForEachKind DEF CreateOp
<1>3. /\ scans \in Seq(Op)
      /\ \A i \in 1..Len(scans) : scans[i].kind = "enable-secret-scanning"
      /\ {scans[i] : i \in 1..Len(scans)} = {ScanOp(r) : r \in Repo}
  BY <1>1, ForEachKind DEF ScanOp
<1>4. /\ branches \in Seq(Op) /\ CreationsFirst(branches)
  BY <1>1, ForEachKind
<1>5. /\ codeScans \in Seq(Op)
      /\ \A i \in 1..Len(codeScans) : codeScans[i].kind = "enable-code-scanning"
  BY <1>1, ForEachKind
<1>6. /\ rulesets \in Seq(Op)
      /\ \A i \in 1..Len(rulesets) : rulesets[i].kind = "create-ruleset"
  BY <1>1, ForEachKind
<1>7. /\ Staged("before-files") = creations \o scans
      /\ Staged("after-files") = branches \o codeScans \o rulesets
  BY DEF Staged
<1> HIDE DEF creations, scans, branches, codeScans, rulesets
<1>8. /\ CreationsFirst(creations \o scans)
      /\ {(creations \o scans)[i] : i \in 1..Len(creations \o scans)} =
           {CreateOp(r) : r \in Repo} \cup {ScanOp(r) : r \in Repo}
  <2>1. \A i \in 1..Len(scans) : scans[i].kind # "create-repository"
    BY <1>3
  <2> QED BY <1>2, <1>3, <2>1, ConcatCreations
<1>9. CreationsFirst(branches \o codeScans \o rulesets)
  <2>1. \A i \in 1..Len(codeScans) : codeScans[i].kind # "create-repository"
    BY <1>5
  <2>2. \A i \in 1..Len(rulesets) : rulesets[i].kind # "create-repository"
    BY <1>6
  <2>3. branches \o codeScans \in Seq(Op) /\ CreationsFirst(branches \o codeScans)
    BY <1>4, <1>5, <2>1, ConcatCreations
  <2> QED BY <1>6, <2>2, <2>3, ConcatCreations
<1> QED BY <1>7, <1>8, <1>9 DEF PHASES, StagedOps

\* What passing an operation leaves before a command.
LEMMA PassLeaves ==
  ASSUME TypeOK, NEW p \in Run, todo[p] # <<>>, Pass(p)
  PROVE  /\ Pending(p)' \subseteq Pending(p)
         /\ Pending(p) \subseteq Pending(p)' \cup {Current(p)}
         /\ CreationsFirst(todo[p]) => CreationsFirst(todo'[p])
<1> DEFINE s == todo[p]
<1>1. s \in Seq(Op) /\ todo'[p] = Tail(s)
  BY DEF TypeOK, ApplyTypeOK, Pass
<1>2. Len(s) \in Nat /\ 1 \in 1..Len(s) /\ Current(p) = s[1]
  BY CurrentPending
<1>3. /\ Len(Tail(s)) = Len(s) - 1
      /\ \A i \in 1..(Len(s) - 1) : Tail(s)[i] = s[i + 1]
  BY <1>1, HeadTailProperties
<1> HIDE DEF s
<1>4. \A i \in 1..Len(s) : i = 1 \/ (i - 1 \in 1..Len(Tail(s)) /\ s[i] = Tail(s)[i - 1])
  BY <1>2, <1>3
<1>5. \A i \in 1..Len(Tail(s)) : i + 1 \in 1..Len(s) /\ Tail(s)[i] = s[i + 1]
  BY <1>2, <1>3
<1>6. /\ {Tail(s)[i] : i \in 1..Len(Tail(s))} \subseteq {s[i] : i \in 1..Len(s)}
      /\ {s[i] : i \in 1..Len(s)} \subseteq
           {Tail(s)[i] : i \in 1..Len(Tail(s))} \cup {s[1]}
  BY <1>4, <1>5
<1>7. CreationsFirst(s) => CreationsFirst(Tail(s))
  BY <1>2, <1>5 DEF CreationsFirst
<1> QED BY <1>1, <1>2, <1>6, <1>7 DEF Pending, s

----------------------------------------------------------------------------
\* The receipt a command writes after its re-read.
OpReceipt(p) ==
  [id |-> Current(p), plan |-> job[p].plan, mark |-> Fingerprint(Current(p))]

PushReceipt(p) ==
  [id |-> PublishId(job[p].repo), plan |-> job[p].plan, mark |-> genesis[p]]

\* Where a row can be.
LEMMA RowPlaces ==
  ASSUME NEW row
  PROVE  row \in AllRows <=>
           \/ row \in disk
           \/ \E p \in Run : row \in mem[p]
           \/ scratch # None /\ row \in scratch
BY DEF AllRows

\* A row that is new somewhere is a receipt that was just remembered.
LEMMA RowsMove ==
  ASSUME TypeOK, [Next]_vars, NEW row \in AllRows'
  PROVE  \/ row \in AllRows
         \/ \E p \in Run : Reread(p) /\ row = OpReceipt(p)
         \/ \E p \in Run : ListRemote(p) /\ row = PushReceipt(p)
<1>1. mem \in [Run -> SUBSET Receipt]
  BY DEF TypeOK, LedgerTypeOK
<1>2. \/ row \in disk'
      \/ \E p \in Run : row \in mem'[p]
      \/ scratch' # None /\ row \in scratch'
  BY DEF AllRows
<1> DEFINE Known == \/ row \in disk
                    \/ \E p \in Run : row \in mem[p]
                    \/ scratch # None /\ row \in scratch
<1>3. Known => row \in AllRows
  BY RowPlaces
<1>4. CASE NothingWritten
  BY <1>2, <1>3, <1>4 DEF NothingWritten
<1>5. ASSUME NEW p \in Run, NEW how, End(p, how)
      PROVE  \A q \in Run : mem'[q] \subseteq mem[q]
  BY <1>1, <1>5 DEF End
<1>6. ASSUME NEW p \in Run, CommandEnds(p) \/ CommandReplaces(p)
      PROVE  row \in AllRows
  <2>1. \A q \in Run : mem'[q] \subseteq mem[q]
    BY <1>5, <1>6 DEF CommandEnds, CommandReplaces
  <2>2. disk' \in {disk, scratch} /\ scratch' \in {scratch, None}
        /\ (disk' = scratch /\ disk' # disk => scratch # None)
    BY <1>6 DEF CommandEnds, CommandReplaces
  <2> QED BY <1>2, <1>3, <2>1, <2>2
<1>7. ASSUME NEW p \in Run, CommandOpens(p)
      PROVE  row \in AllRows
  <2>1. UNCHANGED <<disk, scratch>> /\ \A q \in Run : mem'[q] \in {disk, mem[q]}
    BY <1>1, <1>7 DEF CommandOpens, StartApply, StartPublish, Open
  <2> QED BY <1>2, <1>3, <2>1
<1>8. ASSUME NEW p \in Run, WriteScratch(p)
      PROVE  row \in AllRows
  BY <1>2, <1>3, <1>8 DEF WriteScratch, Goto
<1>9. ASSUME NEW p \in Run, CommandRemembers(p), row \notin AllRows
      PROVE  (Reread(p) /\ row = OpReceipt(p)) \/ (ListRemote(p) /\ row = PushReceipt(p))
  <2>1. UNCHANGED <<disk, scratch>>
    BY <1>9 DEF CommandRemembers
  <2>2. \/ Reread(p) /\ Remember(p, OpReceipt(p))
        \/ ListRemote(p) /\ Remember(p, PushReceipt(p))
    BY <1>9 DEF CommandRemembers, Reread, ListRemote, OpReceipt, PushReceipt
  <2>3. ASSUME NEW receipt, Remember(p, receipt)
        PROVE  row = receipt
    <3>1. \A q \in Run : mem'[q] \subseteq mem[q] \cup {receipt}
      BY <1>1, <2>3 DEF Remember
    <3> QED BY <1>2, <1>3, <1>9, <2>1, <3>1
  <2> QED BY <2>2, <2>3
<1> QED BY <1>4, <1>6, <1>7, <1>8, <1>9, LedgerMoves

\* A command that publishes has been doing so, or has just been started, after
\* before-files if it is started in order.
LEMMA PublisherMoves ==
  ASSUME TypeOK, [Next]_vars, NEW p \in Run, Publishing(p)'
  PROVE  \/ Publishing(p) /\ job'[p] = job[p]
         \/ InOrder => <<job'[p].plan, "before-files">> \in reported
<1>1. /\ pc \in [Run -> Step]
      /\ job \in [Run -> Job \cup {None}]
      /\ mem \in [Run -> SUBSET Receipt]
  BY DEF TypeOK, LedgerTypeOK
<1>2. CASE NothingWritten
  BY <1>2 DEF NothingWritten, Publishing
<1>3. ASSUME NEW q \in Run,
             CommandEnds(q) \/ CommandReplaces(q) \/ CommandRemembers(q)
               \/ WriteScratch(q)
      PROVE  Publishing(p) /\ job'[p] = job[p]
  BY <1>1, <1>3 DEF CommandEnds, CommandReplaces, CommandRemembers, WriteScratch,
                    End, Goto, Publishing, Active
<1>4. ASSUME NEW q \in Run, CommandOpens(q), q # p
      PROVE  Publishing(p) /\ job'[p] = job[p]
  BY <1>1, <1>4 DEF CommandOpens, StartApply, StartPublish, Open, Publishing, Active
<1>5. ASSUME NEW plan \in Plans, NEW phase \in PHASES, StartApply(p, plan, phase)
      PROVE  FALSE
  <2>1. job'[p].stage = phase
    BY <1>1, <1>5 DEF StartApply, Open
  <2> QED BY <2>1 DEF Publishing, PHASES
<1>6. ASSUME NEW plan \in Plans, NEW r \in Repo, StartPublish(p, plan, r)
      PROVE  job'[p].plan = plan
  BY <1>1, <1>6 DEF StartPublish, Open, PublishJob
<1> QED BY <1>2, <1>3, <1>4, <1>5, <1>6, LedgerMoves DEF CommandOpens

\* What another command does, and what nobody's step does, leaves alone.
Untouched(p) ==
  /\ pc'[p] = pc[p] /\ mem'[p] = mem[p] /\ exit'[p] = exit[p]
  /\ job'[p] = job[p] /\ todo'[p] = todo[p]

\* One step further through the operations of a phase.
Advances(p) ==
  /\ Applying(p)
  /\ job'[p] = job[p]
  /\ \/ Untouched(p)
     \/ Resume(p) \/ Observe(p) \/ Write(p) \/ WriteWithoutEffect(p) \/ Reread(p)
     \/ WriteScratch(p) /\ todo' = todo
     \/ ReplaceLedger(p, "next") /\ Pass(p)

\* A command that applies was just started or goes one step further.
LEMMA ApplierMoves ==
  ASSUME TypeOK, [Next]_vars, NEW p \in Run, Applying(p)'
  PROVE  \/ \E plan \in Plans, phase \in PHASES : StartApply(p, plan, phase)
         \/ Advances(p)
<1>1. /\ pc \in [Run -> Step] /\ exit \in [Run -> Exit]
      /\ job \in [Run -> Job \cup {None}]
      /\ mem \in [Run -> SUBSET Receipt]
      /\ todo \in [Run -> Seq(Op)]
  BY DEF TypeOK, LedgerTypeOK, ApplyTypeOK
<1>2. pc'[p] # "idle" /\ job'[p].stage # "publish"
  BY DEF Applying, Active, PHASES
<1>3. ASSUME Untouched(p)
      PROVE  Advances(p)
  BY <1>3 DEF Untouched, Advances, Applying, Active
<1>4. ASSUME UNCHANGED <<ledgerVars, todo>>
      PROVE  Advances(p)
  BY <1>3, <1>4 DEF Untouched, ledgerVars
<1>5. ASSUME NEW q \in Run, NEW how, End(q, how), UNCHANGED <<job, todo>>
      PROVE  Advances(p)
  <2>1. p # q /\ Untouched(p)
    BY <1>1, <1>2, <1>5 DEF End, Untouched
  <2> QED BY <1>3, <2>1
<1>6. ASSUME NEW q \in Run, q # p, ApplyStep(q) \/ ApplyFault(q)
      PROVE  Untouched(p)
  BY <1>1, <1>6 DEF ApplyStep, ApplyFault, Resume, RefuseResume, Observe,
       RefuseObserve, Write, WriteRefused, Reread, RefuseReread, RecordReceipt,
       CompleteApply, WriteReplyLost, WriteWithoutEffect, CallFails, Stop, End,
       Goto, Pass, Remember, WriteScratch, ReplaceLedger, ReplaceMissing,
       ledgerVars, Untouched
<1>7. ASSUME ApplyStep(p) \/ ApplyFault(p)
      PROVE  Advances(p)
  <2>1. CASE \E how : End(p, how)
    BY <1>1, <1>2, <2>1 DEF End
  <2>2. CASE Resume(p) \/ Observe(p) \/ Write(p) \/ Reread(p) \/ WriteWithoutEffect(p)
    BY <2>2 DEF Resume, Observe, Write, Reread, WriteWithoutEffect, AtOperation,
                Writing, Advances, ledgerVars
  <2>3. CASE RecordReceipt(p) /\ ~ReplaceMissing(p)
    BY <2>3 DEF RecordReceipt, WriteScratch, ReplaceLedger, Advances
  <2> QED BY <1>7, <2>1, <2>2, <2>3
          DEF ApplyStep, ApplyFault, RefuseResume, RefuseObserve, WriteRefused,
              RefuseReread, RecordReceipt, CompleteApply, WriteReplyLost,
              CallFails, Stop, ReplaceMissing
<1>8. ASSUME NEW q \in Run, PublishStep(q) \/ PublishFault(q), UNCHANGED todo
      PROVE  Advances(p)
  <2>1. /\ Publishing(q) /\ UNCHANGED job
        /\ \/ \E how : End(q, how)
           \/ \E step : Goto(q, step)
           \/ ListRemote(q)
    BY <1>8 DEF PublishStep, PublishFault, Build, PushBranch, PushRejected,
                ListRemote, ListDisagrees, RecordPublish, CallFailsInPublish,
                PushReplyLost, AtPush, At, PublishFails, WriteScratch,
                ReplaceMissing
  <2>2. p # q
    BY <1>2, <2>1 DEF Publishing
  <2>3. Untouched(p)
    BY <1>1, <1>8, <2>1, <2>2 DEF End, Goto, ListRemote, Remember, Untouched
  <2> QED BY <1>3, <2>3
<1>9. CASE Operate
  <2>1. CASE \E plan \in Plans : BuildResult(plan)
    BY <1>4, <2>1 DEF BuildResult
  <2>2. ASSUME NEW q \in Run, NEW plan \in Plans, NEW phase \in PHASES,
               BeginApply(q, plan, phase), ~StartApply(p, plan, phase)
        PROVE  Advances(p)
    <3>1. CASE StartApply(q, plan, phase)
      <4>1. q # p /\ Untouched(p)
        BY <1>1, <2>2, <3>1 DEF StartApply, Open, Untouched
      <4> QED BY <1>3, <4>1
    <3>2. CASE RefuseApply(q, plan, phase)
      <4>1. q # p
        BY <1>2, <3>2 DEF RefuseApply, MayStart, Active
      <4>2. Untouched(p)
        BY <1>1, <3>2, <4>1 DEF RefuseApply, Untouched
      <4> QED BY <1>3, <4>2
    <3> QED BY <2>2, <3>1, <3>2 DEF BeginApply
  <2>3. ASSUME NEW q \in Run, NEW plan \in Plans, NEW r \in Repo,
               BeginPublish(q, plan, r)
        PROVE  Advances(p)
    <3>1. UNCHANGED todo
      BY <2>3 DEF BeginPublish
    <3>2. CASE StartPublish(q, plan, r)
      <4>1. q # p
        BY <1>1, <1>2, <3>2 DEF StartPublish, Open, PublishJob
      <4>2. Untouched(p)
        BY <1>1, <3>1, <3>2, <4>1 DEF StartPublish, Open, Untouched
      <4> QED BY <1>3, <4>2
    <3>3. CASE ResumePublish(q, plan, r) \/ RefusePublish(q, plan)
      <4>1. q # p
        BY <1>2, <3>3 DEF ResumePublish, RefusePublish, MayStart, Active
      <4>2. Untouched(p)
        BY <1>1, <3>1, <3>3, <4>1 DEF ResumePublish, RefusePublish, Untouched
      <4> QED BY <1>3, <4>2
    <3> QED BY <2>3, <3>2, <3>3 DEF BeginPublish
  <2> QED BY <1>9, <2>1, <2>2, <2>3 DEF Operate
<1>10. CASE \E q \in Run : ContinueApply(q) \/ ContinuePublish(q)
  <2>1. PICK q \in Run : ApplyStep(q) \/ (PublishStep(q) /\ UNCHANGED todo)
    BY <1>10 DEF ContinueApply, ContinuePublish
  <2> QED BY <1>3, <1>6, <1>7, <1>8, <2>1
<1>11. CASE GoWrong
  <2>1. PICK q \in Run : \/ ApplyFault(q)
                         \/ PublishFault(q) /\ UNCHANGED todo
                         \/ Crash(q) /\ UNCHANGED todo
    BY <1>11 DEF GoWrong
  <2>2. CASE Crash(q) /\ UNCHANGED todo
    BY <1>5, <2>2 DEF Crash
  <2> QED BY <1>3, <1>6, <1>7, <1>8, <2>1, <2>2
<1>12. CASE (OutsideNext /\ UNCHANGED <<ledgerVars, todo, genesis, operatorVars>>)
            \/ UNCHANGED vars
  BY <1>4, <1>12 DEF vars
<1> QED BY <1>9, <1>10, <1>11, <1>12 DEF Next

----------------------------------------------------------------------------
(***************************************************************************)
(* A ruleset has a receipt only in ledgers that also have the receipts of  *)
(* the pushes: after-files is admitted on them, and every copy of the      *)
(* ledger descends from one that it was admitted on.                       *)
(***************************************************************************)
RulesetOp(r) == [kind |-> "create-ruleset", repo |-> r]

GenesisHeld(rows) == \A r \in Repo : Held(rows, PublishId(r))

GenesisBefore(rows) ==
  (\E r \in Repo : Held(rows, RulesetOp(r))) => GenesisHeld(rows)

GenesisInv ==
  /\ GenesisBefore(disk)
  /\ scratch # None => GenesisBefore(scratch)
  /\ \A p \in Run : GenesisBefore(mem[p])
  /\ \A p \in Run :
       Applying(p) =>
         /\ Pending(p) \subseteq StagedOps(job[p].stage)
         /\ job[p].stage = "after-files" => GenesisHeld(mem[p])

\* Remembering a receipt loses no operation and brings one.
LEMMA RememberMeans ==
  ASSUME TypeOK, NEW p \in Run, NEW receipt, Remember(p, receipt)
  PROVE  /\ \A q \in Run \ {p} : mem'[q] = mem[q]
         /\ \A id : Held(mem[p], id) => Held(mem'[p], id)
         /\ \A id : Held(mem'[p], id) => id = receipt.id \/ Held(mem[p], id)
<1>1. /\ mem'[p] = {row \in mem[p] : row.id # receipt.id} \cup {receipt}
      /\ \A q \in Run \ {p} : mem'[q] = mem[q]
  BY DEF TypeOK, LedgerTypeOK, Remember
<1> QED BY <1>1 DEF Held

\* A command in after-files goes on holding the receipts of the pushes.
LEMMA AppliersHoldGenesis ==
  ASSUME TypeOK, GenesisInv, [Next]_vars, NEW p \in Run, Applying(p)'
  PROVE  /\ Pending(p)' \subseteq StagedOps(job'[p].stage)
         /\ job'[p].stage = "after-files" => GenesisHeld(mem'[p])
<1>1. CASE \E plan \in Plans, phase \in PHASES : StartApply(p, plan, phase)
  <2>1. PICK plan \in Plans, phase \in PHASES : StartApply(p, plan, phase)
    BY <1>1
  <2>2. /\ job'[p] = [plan |-> plan, stage |-> phase, repo |-> None]
        /\ todo'[p] = Staged(phase) /\ mem'[p] = disk /\ PhaseOpen(phase, disk)
    BY <2>1 DEF TypeOK, LedgerTypeOK, ApplyTypeOK, StartApply, Open, Admitted
  <2> QED BY <2>2 DEF Pending, StagedOps, PhaseOpen, GenesisHeld
<1>2. CASE Advances(p)
  <2>1. /\ Applying(p) /\ job'[p] = job[p]
        /\ Pending(p) \subseteq StagedOps(job[p].stage)
        /\ job[p].stage = "after-files" => GenesisHeld(mem[p])
    BY <1>2 DEF Advances, GenesisInv
  <2>2. Applying(p) /\ pc[p] # "next" => todo[p] # <<>>
    BY DEF TypeOK, ApplyTypeOK
  <2>3. CASE Reread(p)
    <3>1. todo' = todo /\ Remember(p, OpReceipt(p))
      BY <2>3 DEF Reread, OpReceipt
    <3>2. \A id : Held(mem[p], id) => Held(mem'[p], id)
      BY <3>1, RememberMeans
    <3> QED BY <2>1, <3>1, <3>2 DEF Pending, GenesisHeld
  <2>4. CASE todo'[p] = todo[p] /\ mem'[p] = mem[p]
    BY <2>1, <2>4 DEF Pending, GenesisHeld
  <2>5. CASE Pass(p) /\ todo[p] # <<>> /\ mem' = mem
    BY <2>1, <2>5, PassLeaves DEF GenesisHeld
  <2> QED BY <1>2, <2>1, <2>2, <2>3, <2>4, <2>5
          DEF Advances, Untouched, Resume, Observe, Write, WriteWithoutEffect,
              WriteScratch, ReplaceLedger, AtOperation, Goto, ledgerVars
<1> QED BY <1>1, <1>2, ApplierMoves

\* The ledger in memory stays in order when a receipt comes in.
LEMMA RemembersInOrder ==
  ASSUME TypeOK, GenesisInv, NEW p \in Run, CommandRemembers(p)
  PROVE  \A q \in Run : GenesisBefore(mem'[q])
<1>1. GenesisBefore(mem[p])
  BY DEF GenesisInv
<1>2. CASE Reread(p)
  <2>1. Applying(p) /\ todo[p] # <<>> /\ Remember(p, OpReceipt(p))
    BY <1>2 DEF Reread, OpReceipt, TypeOK, ApplyTypeOK
  <2>2. /\ Current(p) \in StagedOps(job[p].stage) /\ job[p].stage \in PHASES
        /\ job[p].stage = "after-files" => GenesisHeld(mem[p])
        /\ OpReceipt(p).id = Current(p)
    BY <2>1, CurrentPending DEF GenesisInv, Applying, OpReceipt
  <2>3. \A r \in Repo : Current(p) = RulesetOp(r) => job[p].stage = "after-files"
    BY <2>2, StagedShape DEF PHASES, CreateOp, ScanOp, RulesetOp
  <2>4. GenesisBefore(mem'[p])
    <3>1. /\ \A id : Held(mem[p], id) => Held(mem'[p], id)
          /\ \A id : Held(mem'[p], id) => id = Current(p) \/ Held(mem[p], id)
      BY <2>1, <2>2, RememberMeans
    <3> QED BY <1>1, <2>2, <2>3, <3>1 DEF GenesisBefore, GenesisHeld
  <2> QED BY <2>1, <2>4, RememberMeans DEF GenesisInv
<1>3. CASE ListRemote(p)
  <2>1. Remember(p, PushReceipt(p)) /\ PushReceipt(p).id = PublishId(job[p].repo)
    BY <1>3 DEF ListRemote, PushReceipt
  <2>2. \A r, q : PublishId(q) # RulesetOp(r)
    BY DEF PublishId, RulesetOp
  <2>3. GenesisBefore(mem'[p])
    <3>1. /\ \A id : Held(mem[p], id) => Held(mem'[p], id)
          /\ \A id : Held(mem'[p], id) =>
               id = PublishId(job[p].repo) \/ Held(mem[p], id)
      BY <2>1, RememberMeans
    <3> QED BY <1>1, <2>2, <3>1 DEF GenesisBefore, GenesisHeld
  <2> QED BY <2>1, <2>3, RememberMeans DEF GenesisInv
<1> QED BY <1>2, <1>3 DEF CommandRemembers

LEMMA GenesisInvariant == Spec => []GenesisInv
<1>1. Init => GenesisInv
  BY DEF Init, LedgerInit, GenesisInv, GenesisBefore, Held, Applying, Active
<1>2. TypeOK /\ GenesisInv /\ [Next]_vars => GenesisInv'
  <2> SUFFICES ASSUME TypeOK, GenesisInv, [Next]_vars PROVE GenesisInv'
    OBVIOUS
  <2>1. mem \in [Run -> SUBSET Receipt]
    BY DEF TypeOK, LedgerTypeOK
  <2>2. GenesisBefore({})
    BY DEF GenesisBefore, Held
  <2> DEFINE InOrderNow == /\ GenesisBefore(disk')
                           /\ scratch' # None => GenesisBefore(scratch')
                           /\ \A q \in Run : GenesisBefore(mem'[q])
  <2>3. ASSUME NothingWritten
        PROVE  InOrderNow
    BY <2>3 DEF NothingWritten, GenesisInv
  <2>4. ASSUME NEW p \in Run, NEW how, End(p, how)
        PROVE  \A q \in Run : mem'[q] \in {{}, mem[q]}
    BY <2>1, <2>4 DEF End
  <2>5. ASSUME NEW p \in Run, CommandEnds(p) \/ CommandReplaces(p)
        PROVE  InOrderNow
    <3>1. \A q \in Run : mem'[q] \in {{}, mem[q]}
      BY <2>4, <2>5 DEF CommandEnds, CommandReplaces
    <3>2. \/ disk' = disk /\ scratch' = scratch
          \/ scratch # None /\ disk' = scratch /\ scratch' = None
      BY <2>5 DEF CommandEnds, CommandReplaces
    <3> QED BY <2>2, <3>1, <3>2 DEF GenesisInv
  <2>6. ASSUME NEW p \in Run, CommandOpens(p)
        PROVE  InOrderNow
    <3>1. UNCHANGED <<disk, scratch>> /\ \A q \in Run : mem'[q] \in {disk, mem[q]}
      BY <2>1, <2>6 DEF CommandOpens, StartApply, StartPublish, Open
    <3> QED BY <3>1 DEF GenesisInv
  <2>7. ASSUME NEW p \in Run, CommandRemembers(p)
        PROVE  InOrderNow
    BY <2>7, RemembersInOrder DEF CommandRemembers, GenesisInv
  <2>8. ASSUME NEW p \in Run, WriteScratch(p)
        PROVE  InOrderNow
    BY <2>8 DEF WriteScratch, Goto, GenesisInv
  <2>9. InOrderNow
    BY <2>3, <2>5, <2>6, <2>7, <2>8, LedgerMoves
  <2> QED BY <2>9, AppliersHoldGenesis
          DEF GenesisInv, GenesisBefore, GenesisHeld, Held, Pending, Applying, Active
<1> QED BY <1>1, <1>2, TypeCorrect, PTL DEF Spec

\* A ledger over which a result can be issued has every row there can be: the
\* genesis rows that are not planned came before the rulesets that are.
LEMMA DeliverableIsFull ==
  ASSUME GenesisInv, NEW plan, NEW approval, Deliverable(plan, approval, disk)
  PROVE  {row.id : row \in disk} = ReceiptId
<1>1. /\ {row.id : row \in disk} = Planned(plan)
      /\ \E r \in Repo : Held(disk, PublishId(r))
  BY DEF Deliverable
<1>2. \A r \in Repo : RulesetOp(r) \in Op
  BY DEF RulesetOp, Op, ApplyKind
<1>3. \E r \in Repo : Held(disk, RulesetOp(r))
  BY <1>1, <1>2 DEF Held, Planned
<1>4. GenesisHeld(disk)
  BY <1>3 DEF GenesisInv, GenesisBefore
<1> QED BY <1>1, <1>4 DEF GenesisHeld, Held, Planned, Listed, ReceiptId, PublishIds

----------------------------------------------------------------------------
\* Nobody takes a repository from the plan that made it.
LEMMA KnowledgeStays ==
  ASSUME TypeOK, Undisturbed, [Next]_vars, NEW r \in Repo, NEW plan
  PROVE  /\ Made(r, plan) => Made(r, plan)'
         /\ Protected(r, plan) => Protected(r, plan)'
         /\ Exists(r) /\ Published(r) => Exists(r)' /\ Published(r)'
<1>1. Exists(r) => Grows(r)
  BY RemoteGrows
<1> QED BY <1>1 DEF Made, Protected, Published, Grows, SameIdentity, SettingsStay

\* What a row tells of its repository.
LEMMA RowTells ==
  ASSUME TypeOK, RowsAreGenuine, NEW row \in AllRows, NEW r \in Repo
  PROVE  /\ row \in Receipt
         /\ row.id = CreateOp(r) => Made(r, row.plan)
         /\ row.id = ScanOp(r) => Protected(r, row.plan)
         /\ row.id = PublishId(r) => Made(r, row.plan) /\ Published(r)
<1>1. row \in Receipt
  <2>1. \/ row \in disk
        \/ \E p \in Run : row \in mem[p]
        \/ scratch # None /\ row \in scratch
    BY RowPlaces
  <2> QED BY <2>1 DEF TypeOK, LedgerTypeOK
<1>2. Genuine(row) /\ (row.id \in PublishIds => row.mark \in Nat)
  BY DEF RowsAreGenuine
<1>3. CreateOp(r) \in Op /\ ScanOp(r) \in Op /\ PublishId(r) \in PublishIds \ Op
  BY OpShape DEF Op, ApplyKind, CreateOp, ScanOp, PublishIds
<1>4. CASE row.id = CreateOp(r)
  <2>1. row.id.repo = r
    BY <1>4 DEF CreateOp
  <2>2. row.id # ScanOp(r) /\ row.id # PublishId(r)
    BY <1>4 DEF CreateOp, ScanOp, PublishId
  <2> QED BY <1>1, <1>2, <1>4, <2>1, <2>2 DEF Genuine, Made
<1>5. CASE row.id = ScanOp(r)
  <2>1. row.id.repo = r /\ row.id.kind = "enable-secret-scanning"
    BY <1>5 DEF ScanOp
  <2>2. row.id # CreateOp(r) /\ row.id # PublishId(r)
    BY <1>5 DEF CreateOp, ScanOp, PublishId
  <2>3. Exists(r) /\ remote[r].maker = row.plan /\ InApprovedState(row.id, row.plan)
    BY <1>2, <1>3, <1>5, <2>1 DEF Genuine
  <2>4. remote[r].secretScanning
    BY <2>1, <2>3 DEF InApprovedState
  <2> QED BY <1>1, <1>5, <2>2, <2>3, <2>4 DEF Protected, Made
<1>6. CASE row.id = PublishId(r)
  <2>1. row.id.repo = r
    BY <1>6 DEF PublishId
  <2>2. row.id # CreateOp(r) /\ row.id # ScanOp(r)
    BY <1>6 DEF CreateOp, ScanOp, PublishId
  <2>3. CarriesGenesis(r, row.mark) /\ row.mark \in Nat /\ remote[r].maker = row.plan
    BY <1>2, <1>3, <1>6, <2>1 DEF Genuine
  <2> QED BY <1>1, <1>6, <2>2, <2>3, GitHubAssumption
          DEF CarriesGenesis, Made, Published
<1> QED BY <1>1, <1>4, <1>5, <1>6

\* A command that is past the creations has seen every repository made.
LEMMA MadeWhenChanging ==
  ASSUME TypeOK, AppliersKnow, NEW p \in Run, Applying(p), todo[p] # <<>>,
         Current(p).kind # "create-repository"
  PROVE  \A r \in Repo : Made(r, job[p].plan)
<1> SUFFICES ASSUME NEW r \in Repo PROVE CreateOp(r) \notin Pending(p)
  BY DEF AppliersKnow, ApplierKnows
<1>1. /\ CreationsFirst(todo[p])
      /\ Len(todo[p]) \in Nat /\ 1 \in 1..Len(todo[p])
      /\ todo[p][1].kind # "create-repository"
  BY CurrentPending DEF AppliersKnow, ApplierKnows
<1>2. ASSUME NEW j \in 1..Len(todo[p]), todo[p][j] = CreateOp(r)
      PROVE  FALSE
  <2>1. todo[p][j].kind = "create-repository"
    BY <1>2 DEF CreateOp
  <2>2. 1 < j
    BY <1>1, <2>1
  <2> QED BY <1>1, <2>1, <2>2 DEF CreationsFirst
<1> QED BY <1>2 DEF Pending

\* Every receipt is written of what its plan made and the command has re-read.
LEMMA RowsStayGenuine ==
  ASSUME TypeOK, ReceiptInv, Undisturbed, [Next]_vars
  PROVE  RowsAreGenuine'
<1> SUFFICES ASSUME NEW row \in AllRows'
             PROVE  Genuine(row)' /\ (row.id \in PublishIds => row.mark \in Nat)
  BY DEF RowsAreGenuine
<1>1. CASE row \in AllRows
  <2>1. Genuine(row) /\ (row.id \in PublishIds => row.mark \in Nat)
    BY <1>1 DEF ReceiptInv, RowsAreGenuine
  <2>2. row \in Receipt
    <3>1. \/ row \in disk
          \/ \E p \in Run : row \in mem[p]
          \/ scratch # None /\ row \in scratch
      BY <1>1, RowPlaces
    <3> QED BY <3>1 DEF TypeOK, LedgerTypeOK
  <2> QED BY <2>1, <2>2, GenuineStays
<1>2. ASSUME NEW p \in Run, Reread(p), row = OpReceipt(p)
      PROVE  Genuine(row)' /\ (row.id \in PublishIds => row.mark \in Nat)
  <2>1. /\ Applying(p) /\ pc[p] = "reread" /\ todo[p] # <<>>
        /\ Verified(Current(p), job[p].plan) /\ UNCHANGED githubVars
    BY <1>2 DEF Reread, TypeOK, ApplyTypeOK
  <2>2. Current(p) \in Op /\ Current(p) \notin PublishIds /\ Current(p).repo \in Repo
    BY <2>1, CurrentPending, OpShape
  <2>3. row.id = Current(p) /\ row.plan = job[p].plan /\ row.mark = Fingerprint(row.id)
    BY <1>2 DEF OpReceipt
  <2>4. Made(Current(p).repo, job[p].plan)
    <3>1. CASE Current(p).kind = "create-repository"
      <4>1. Current(p) = CreateOp(Current(p).repo)
        BY <2>2, <3>1, OpShape
      <4> QED BY <2>1, <2>2, <4>1 DEF ReceiptInv, AppliersKnow, ApplierKnows
    <3>2. CASE Current(p).kind # "create-repository"
      BY <2>1, <2>2, <3>2, MadeWhenChanging DEF ReceiptInv
    <3> QED BY <3>1, <3>2
  <2>5. Genuine(row)
    BY <2>1, <2>2, <2>3, <2>4 DEF Genuine, Made, Verified
  <2>6. Genuine(row)'
    BY <2>1, <2>5
       DEF Genuine, githubVars, Exists, Present, InApprovedState, Fingerprint,
           CarriesGenesis
  <2> QED BY <2>2, <2>3, <2>6
<1>3. ASSUME NEW p \in Run, ListRemote(p), row = PushReceipt(p)
      PROVE  Genuine(row)' /\ (row.id \in PublishIds => row.mark \in Nat)
  <2>1. /\ Publishing(p) /\ pc[p] = "list" /\ UNCHANGED githubVars
        /\ CarriesGenesis(job[p].repo, genesis[p])
    BY <1>3 DEF ListRemote, At
  <2>2. job[p].repo \in Repo /\ genesis[p] \in Nat
    BY <2>1 DEF TypeOK, PublishTypeOK
  <2>3. /\ row.id = PublishId(job[p].repo) /\ row.id.repo = job[p].repo
        /\ row.plan = job[p].plan /\ row.mark = genesis[p]
    BY <1>3 DEF PushReceipt, PublishId
  <2>4. row.id \notin Op
    BY <2>2, <2>3, OpShape DEF PublishIds
  <2>5. Made(job[p].repo, job[p].plan)
    BY <2>1, <2>2 DEF ReceiptInv, PublishersKnow, Protected
  <2>6. Genuine(row)
    BY <2>1, <2>3, <2>4, <2>5 DEF Genuine, Made
  <2>7. Genuine(row)'
    BY <2>1, <2>6
       DEF Genuine, githubVars, Exists, Present, InApprovedState, Fingerprint,
           CarriesGenesis
  <2> QED BY <2>2, <2>3, <2>7
<1> QED BY <1>1, <1>2, <1>3, RowsMove

\* A command publishes only where its plan has protected every repository.
LEMMA PublishersStayRight ==
  ASSUME TypeOK, ReceiptInv, Undisturbed, [Next]_vars
  PROVE  PublishersKnow'
<1>1. ASSUME NEW p \in Run, NEW r \in Repo, NEW plan, Publishing(p)', plan = job'[p].plan
      PROVE  Protected(r, plan)'
  <2>1. CASE Publishing(p) /\ job'[p] = job[p]
    <3>1. Protected(r, plan)
      BY <1>1, <2>1 DEF ReceiptInv, PublishersKnow
    <3> QED BY <3>1, KnowledgeStays
  <2>2. CASE <<plan, "before-files">> \in reported
    <3>1. Protected(r, plan)
      BY <2>2 DEF ReceiptInv, ReportsHold, TypeOK
    <3> QED BY <3>1, KnowledgeStays
  <2> QED BY <1>1, <2>1, <2>2, PublisherMoves DEF Undisturbed
<1> QED BY <1>1 DEF PublishersKnow, Protected, Made, Exists

\* A phase is reported completed when nothing of it is left to do.
LEMMA ReportsStayRight ==
  ASSUME TypeOK, ReceiptInv, Undisturbed, [Next]_vars
  PROVE  ReportsHold'
<1> SUFFICES ASSUME NEW plan \in Plans, NEW r \in Repo,
                    <<plan, "before-files">> \in reported'
             PROVE  Protected(r, plan)'
  BY DEF ReportsHold
<1>1. Protected(r, plan)
  <2>1. CASE <<plan, "before-files">> \in reported
    BY <2>1 DEF ReceiptInv, ReportsHold
  <2>2. CASE <<plan, "before-files">> \notin reported
    <3>1. PICK p \in Run : /\ ApplyStep(p)
                           /\ exit'[p] = "completed"
                           /\ <<job[p].plan, job[p].stage>> = <<plan, "before-files">>
      BY <2>2 DEF Next, Operate, BuildResult, BeginApply, BeginPublish,
                  ContinueApply, ContinuePublish, GoWrong, operatorVars, vars
    <3>2. Applying(p) /\ ApplierKnows(p)
      BY <3>1 DEF ApplyStep, AtOperation, Writing, Resume, RefuseResume, Observe,
                  RefuseObserve, Write, WriteRefused, Reread, RefuseReread,
                  RecordReceipt, CompleteApply, ReceiptInv, AppliersKnow
    <3>3. CompleteApply(p)
      <4>1. exit \in [Run -> Exit] /\ exit[p] = "none"
        BY <3>2 DEF TypeOK, LedgerTypeOK, ApplierKnows
      <4>2. CASE Resume(p) \/ Observe(p) \/ Write(p) \/ Reread(p)
        BY <3>1, <4>1, <4>2 DEF Resume, Observe, Write, Reread, Goto, ledgerVars
      <4>3. CASE RefuseResume(p) \/ RefuseObserve(p) \/ WriteRefused(p) \/ RefuseReread(p)
        BY <3>1, <4>1, <4>3 DEF RefuseResume, RefuseObserve, WriteRefused,
                                RefuseReread, Stop, End
      <4>4. CASE RecordReceipt(p)
        BY <3>1, <4>1, <4>4 DEF RecordReceipt, WriteScratch, ReplaceLedger,
                                ReplaceMissing, Goto, End
      <4> QED BY <3>1, <4>2, <4>3, <4>4 DEF ApplyStep
    <3>4. Pending(p) = {}
      BY <3>3 DEF CompleteApply, Pending
    <3> QED BY <3>1, <3>2, <3>4 DEF ApplierKnows
  <2> QED BY <2>1, <2>2
<1> QED BY <1>1, KnowledgeStays

\* A command is admitted to a phase on receipts, and these are genuine.
LEMMA StartsKnowing ==
  ASSUME TypeOK, LedgerInv, ReceiptInv, Undisturbed, [Next]_vars,
         NEW p \in Run, NEW plan \in Plans, NEW phase \in PHASES,
         StartApply(p, plan, phase)
  PROVE  ApplierKnows(p)'
<1>1. /\ job'[p] = [plan |-> plan, stage |-> phase, repo |-> None]
      /\ todo'[p] = Staged(phase)
      /\ pc'[p] = "next" /\ exit'[p] = "none"
      /\ OwnedBy(disk, plan) /\ PhaseOpen(phase, disk)
  BY DEF TypeOK, LedgerTypeOK, ApplyTypeOK, StartApply, Open, Admitted
<1>2. job'[p].plan = plan /\ job'[p].stage = phase
  BY <1>1
<1>3. Pending(p)' = StagedOps(phase) /\ CreationsFirst(todo'[p])
  BY <1>1, StagedShape DEF Pending, StagedOps
<1>4. ASSUME NEW r \in Repo
      PROVE  /\ CreateOp(r) \notin Pending(p)' => Made(r, plan)'
             /\ ScanOp(r) \notin Pending(p)' => Protected(r, plan)'
             /\ phase = "after-files" => Exists(r)' /\ Published(r)'
  <2>1. CASE phase = "before-files"
    BY <1>3, <2>1, StagedShape
  <2>2. CASE phase = "after-files"
    <3>1. /\ Held(disk, CreateOp(r)) /\ Held(disk, ScanOp(r))
          /\ Held(disk, PublishId(r))
      BY <1>1, <2>2, StagedShape DEF PhaseOpen
    <3>2. \A row \in disk : row \in AllRows /\ row.plan = plan
      BY <1>1, RowPlaces DEF OwnedBy
    <3>3. Made(r, plan) /\ Protected(r, plan) /\ Published(r)
      BY <3>1, <3>2, RowTells DEF Held, ReceiptInv
    <3> QED BY <2>2, <3>3, KnowledgeStays DEF Made
  <2> QED BY <2>1, <2>2 DEF PHASES
<1> HIDE DEF CreateOp, ScanOp
<1> QED BY <1>1, <1>2, <1>3, <1>4 DEF ApplierKnows, Made, Protected, Published, Exists

\* An operation that a command passes is one its ledger has a row of.
LEMMA PassesKnowing ==
  ASSUME TypeOK, LedgerInv, ReceiptInv, Undisturbed, [Next]_vars,
         NEW p \in Run, Applying(p), todo[p] # <<>>, Pass(p),
         Held(mem[p], Current(p)), NEW r \in Repo
  PROVE  /\ CreateOp(r) \notin Pending(p)' => Made(r, job[p].plan)
         /\ ScanOp(r) \notin Pending(p)' => Protected(r, job[p].plan)
<1>1. ApplierKnows(p)
  BY DEF ReceiptInv, AppliersKnow
<1>2. PICK row \in mem[p] : row.id = Current(p)
  BY DEF Held
<1>3. row \in AllRows /\ row.plan = job[p].plan
  BY RowPlaces DEF LedgerInv, OwnedBy, Applying
<1>4. Pending(p) \subseteq Pending(p)' \cup {Current(p)}
  BY PassLeaves
<1> QED BY <1>1, <1>2, <1>3, <1>4, RowTells DEF ApplierKnows, ReceiptInv

\* A command stays right about what it has gone past.
LEMMA AppliersStayRight ==
  ASSUME TypeOK, LedgerInv, ReceiptInv, Undisturbed, [Next]_vars
  PROVE  AppliersKnow'
<1> SUFFICES ASSUME NEW p \in Run, Applying(p)' PROVE ApplierKnows(p)'
  BY DEF AppliersKnow
<1>1. CASE \E plan \in Plans, phase \in PHASES : StartApply(p, plan, phase)
  BY <1>1, StartsKnowing
<1>2. CASE Advances(p)
  <2>1. Applying(p) /\ ApplierKnows(p) /\ job'[p] = job[p]
    BY <1>2 DEF Advances, ReceiptInv, AppliersKnow
  <2>2. PICK plan : plan = job[p].plan
    OBVIOUS
  <2>3. ASSUME NEW r \in Repo
        PROVE  /\ Made(r, plan) => Made(r, plan)'
               /\ Protected(r, plan) => Protected(r, plan)'
               /\ job[p].stage = "after-files" => Exists(r)' /\ Published(r)'
    BY <2>1, KnowledgeStays DEF ApplierKnows
  <2>4. ASSUME Pending(p)' \subseteq Pending(p), CreationsFirst(todo'[p]),
               exit'[p] = "none",
               \A r \in Repo :
                 /\ CreateOp(r) \notin Pending(p)' => Made(r, plan)'
                 /\ ScanOp(r) \notin Pending(p)' => Protected(r, plan)'
                 /\ pc'[p] = "reread" /\ Current(p)' = CreateOp(r) => Made(r, plan)',
               pc'[p] \in {"record", "replace"} => Held(mem'[p], Current(p)')
        PROVE  ApplierKnows(p)'
    <3> HIDE DEF CreateOp, ScanOp
    <3>1. job'[p].plan = plan /\ job'[p].stage = job[p].stage
      BY <2>1, <2>2
    <3>2. Pending(p)' \subseteq StagedOps(job'[p].stage)
      BY <2>1, <2>4, <3>1 DEF ApplierKnows
    <3>3. \A r \in Repo : job'[p].stage = "after-files" => Exists(r)' /\ Published(r)'
      BY <2>3, <3>1
    <3> QED BY <2>4, <3>1, <3>2, <3>3
            DEF ApplierKnows, Made, Protected, Published, Exists, Held, Current
  <2>5. ASSUME todo'[p] = todo[p], exit'[p] = exit[p],
               \A r \in Repo :
                 pc'[p] = "reread" /\ Current(p) = CreateOp(r) => Made(r, plan)',
               pc'[p] \in {"record", "replace"} => Held(mem'[p], Current(p))
        PROVE  ApplierKnows(p)'
    <3>1. Current(p)' = Current(p) /\ Pending(p)' = Pending(p)
      BY <2>5 DEF Current, Pending
    <3>2. \A r \in Repo : /\ CreateOp(r) \notin Pending(p) => Made(r, plan)'
                          /\ ScanOp(r) \notin Pending(p) => Protected(r, plan)'
      BY <2>1, <2>2, <2>3 DEF ApplierKnows
    <3>3. CreationsFirst(todo'[p]) /\ exit'[p] = "none"
      BY <2>1, <2>5 DEF ApplierKnows
    <3>4. Pending(p)' \subseteq Pending(p)
      BY <3>1
    <3>5. \A r \in Repo :
            /\ CreateOp(r) \notin Pending(p)' => Made(r, plan)'
            /\ ScanOp(r) \notin Pending(p)' => Protected(r, plan)'
            /\ pc'[p] = "reread" /\ Current(p)' = CreateOp(r) => Made(r, plan)'
      BY <2>5, <3>1, <3>2
    <3>6. pc'[p] \in {"record", "replace"} => Held(mem'[p], Current(p)')
      BY <2>5, <3>1
    <3> QED BY <2>4, <3>3, <3>4, <3>5, <3>6
  <2>6. ASSUME Pass(p), Held(mem[p], Current(p)), todo[p] # <<>>,
               exit'[p] = exit[p], pc'[p] = "next"
        PROVE  ApplierKnows(p)'
    <3>1. \A r \in Repo : /\ CreateOp(r) \notin Pending(p)' => Made(r, plan)'
                          /\ ScanOp(r) \notin Pending(p)' => Protected(r, plan)'
      BY <2>1, <2>2, <2>3, <2>6, PassesKnowing
    <3>2. Pending(p)' \subseteq Pending(p) /\ CreationsFirst(todo'[p])
      BY <2>1, <2>6, PassLeaves DEF ApplierKnows
    <3>3. exit'[p] = "none" /\ pc'[p] \notin {"reread", "record", "replace"}
      BY <2>1, <2>6 DEF ApplierKnows
    <3>4. \A r \in Repo :
            /\ CreateOp(r) \notin Pending(p)' => Made(r, plan)'
            /\ ScanOp(r) \notin Pending(p)' => Protected(r, plan)'
            /\ pc'[p] = "reread" /\ Current(p)' = CreateOp(r) => Made(r, plan)'
      BY <3>1, <3>3
    <3>5. pc'[p] \in {"record", "replace"} => Held(mem'[p], Current(p)')
      BY <3>3
    <3> QED BY <2>4, <3>2, <3>3, <3>4, <3>5
  <2>7. /\ pc \in [Run -> Step] /\ mem \in [Run -> SUBSET Receipt]
        /\ Applying(p) /\ pc[p] # "next" => todo[p] # <<>>
    BY DEF TypeOK, LedgerTypeOK, ApplyTypeOK
  <2>8. CASE Untouched(p)
    <3>1. \A r \in Repo : pc[p] = "reread" /\ Current(p) = CreateOp(r) => Made(r, plan)'
      BY <2>1, <2>2, <2>3 DEF ApplierKnows
    <3> QED BY <2>1, <2>5, <2>8, <3>1 DEF Untouched, ApplierKnows
  <2>9. CASE Observe(p)
    <3>1. pc'[p] = "write" /\ exit' = exit /\ todo' = todo
      BY <2>7, <2>9 DEF Observe, Goto
    <3> QED BY <2>5, <3>1
  <2>10. CASE Write(p)
    <3>1. pc'[p] = "reread" /\ exit' = exit /\ todo' = todo
      BY <2>7, <2>10 DEF Write, Goto
    <3>2. ASSUME NEW r \in Repo, Current(p) = CreateOp(r)
          PROVE  Made(r, plan)'
      <4>1. Current(p).repo = r /\ Current(p).kind = "create-repository"
        BY <3>2 DEF CreateOp
      <4> QED BY <2>2, <2>10, <4>1, WriteMeans, EffectMeans DEF Made
    <3> QED BY <2>5, <3>1, <3>2
  <2>11. CASE WriteWithoutEffect(p)
    <3>1. pc'[p] = "reread" /\ exit' = exit /\ todo' = todo /\ ~Creates(Current(p))
      BY <2>7, <2>11 DEF WriteWithoutEffect, Goto
    <3>2. \A r \in Repo : Creates(CreateOp(r))
      BY DEF Creates, CreateOp
    <3> QED BY <2>5, <3>1, <3>2
  <2>12. CASE Reread(p)
    <3>1. /\ pc'[p] = "record" /\ exit' = exit /\ todo' = todo
          /\ Remember(p, OpReceipt(p))
      BY <2>7, <2>12 DEF Reread, OpReceipt
    <3>2. Held(mem'[p], Current(p))
      <4>1. OpReceipt(p) \in mem'[p] /\ OpReceipt(p).id = Current(p)
        BY <2>7, <3>1 DEF Remember, OpReceipt
      <4> QED BY <4>1 DEF Held
    <3> QED BY <2>5, <3>1, <3>2
  <2>13. CASE WriteScratch(p) /\ todo' = todo
    <3>1. /\ pc[p] = "record" /\ pc'[p] = "replace" /\ exit' = exit /\ mem' = mem
      BY <2>7, <2>13 DEF WriteScratch, Goto
    <3> QED BY <2>1, <2>5, <2>13, <3>1 DEF ApplierKnows
  <2>14. CASE Resume(p)
    <3>1. /\ pc[p] = "next" /\ pc' = pc /\ exit' = exit /\ Pass(p)
          /\ Held(mem[p], Current(p)) /\ todo[p] # <<>>
      BY <2>14 DEF Resume, AtOperation, ledgerVars
    <3> QED BY <2>6, <3>1
  <2>15. CASE ReplaceLedger(p, "next") /\ Pass(p)
    <3>1. pc[p] = "replace" /\ pc'[p] = "next" /\ exit' = exit
      BY <2>7, <2>15 DEF ReplaceLedger, Goto
    <3> QED BY <2>1, <2>6, <2>7, <2>15, <3>1 DEF ApplierKnows
  <2> QED BY <1>2, <2>8, <2>9, <2>10, <2>11, <2>12, <2>13, <2>14, <2>15 DEF Advances
<1> QED BY <1>1, <1>2, ApplierMoves

\* No plan writes to what another made.
LEMMA ForeignStaysUntouched ==
  ASSUME TypeOK, ReceiptInv, Undisturbed, [Next]_vars
  PROVE  NoForeignWrite'
<1> SUFFICES ASSUME NEW r \in Repo, Exists(r)'
             PROVE  remote'[r].touched \subseteq {remote'[r].maker}
  BY DEF NoForeignWrite, Exists
<1>1. ASSUME remote'[r] = remote[r]
      PROVE  remote'[r].touched \subseteq {remote'[r].maker}
  BY <1>1 DEF ReceiptInv, NoForeignWrite, Exists
<1>2. ASSUME NEW plan, Made(r, plan), SameIdentity(remote[r], remote'[r]),
             remote'[r].touched = remote[r].touched \cup {plan}
      PROVE  remote'[r].touched \subseteq {remote'[r].maker}
  BY <1>2 DEF ReceiptInv, NoForeignWrite, Made, SameIdentity
<1>3. ASSUME NEW p \in Run, Write(p) \/ WriteReplyLost(p)
      PROVE  remote'[r].touched \subseteq {remote'[r].maker}
  <2> DEFINE op == Current(p)
  <2>1. /\ Applying(p) /\ todo[p] # <<>> /\ op \in Op
        /\ job[p].plan \in Plans /\ Effect(op, job[p].plan)
    BY <1>3, WriteMeans
  <2>2. op.kind # "create-repository" => Made(r, job[p].plan)
    BY <2>1, MadeWhenChanging DEF ReceiptInv
  <2> HIDE DEF op
  <2>3. CASE op.repo # r
    BY <1>1, <2>1, <2>3, EffectMeans
  <2>4. CASE op.repo = r /\ op.kind = "create-repository"
    BY <2>1, <2>4, EffectMeans
  <2>5. CASE op.repo = r /\ op.kind # "create-repository"
    BY <1>2, <2>1, <2>2, <2>5, EffectMeans
  <2> QED BY <2>3, <2>4, <2>5
<1>4. ASSUME NEW p \in Run, PushBranch(p) \/ PushReplyLost(p)
      PROVE  remote'[r].touched \subseteq {remote'[r].maker}
  <2> DEFINE q == job[p].repo
             plan == job[p].plan
  <2>1. /\ Publishing(p) /\ q \in Repo /\ plan \in Plans /\ genesis[p] \in Nat
        /\ BranchPushed(p) \in {"main", "dev"}
        /\ Push(q, BranchPushed(p), genesis[p], plan)
    BY <1>4, PushBranchMeans
  <2>2. Made(r, plan)
    BY <2>1 DEF ReceiptInv, PublishersKnow, Protected
  <2> HIDE DEF q, plan
  <2>3. CASE q # r
    BY <1>1, <2>1, <2>3, PushMeans
  <2>4. CASE q = r
    BY <1>2, <2>1, <2>2, <2>4, PushMeans
  <2> QED BY <2>3, <2>4
<1>5. CASE OutsideNext
  <2>1. PICK q \in Repo : OutsideCreate(q)
    BY <1>5 DEF OutsideNext, OutsideDelete, OutsideAlter, OutsideDevelop, Undisturbed
  <2>2. CASE q # r
    BY <1>1, <2>1, <2>2 DEF OutsideCreate, TypeOK, GitHubTypeOK
  <2>3. CASE q = r
    BY <2>1, <2>3 DEF OutsideCreate, NewRepository, TypeOK, GitHubTypeOK
  <2> QED BY <2>2, <2>3
<1> QED BY <1>1, <1>3, <1>4, <1>5, RemoteMoves

\* A ruleset is created only by after-files, which is admitted on the receipts
\* of the pushes.
LEMMA RulesetsComeLate ==
  ASSUME TypeOK, ReceiptInv, Undisturbed, [Next]_vars
  PROVE  RulesetAfterGenesis'
<1> SUFFICES ASSUME NEW r \in Repo, Exists(r)', remote'[r].ruleset # "none"
             PROVE  remote'[r].main # None /\ remote'[r].dev # None
  BY DEF RulesetAfterGenesis, Exists
<1>1. ASSUME Exists(r), Published(r)
      PROVE  remote'[r].main # None /\ remote'[r].dev # None
  BY <1>1, KnowledgeStays DEF Published
<1>2. ASSUME Exists(r), remote'[r].ruleset = remote[r].ruleset
      PROVE  remote'[r].main # None /\ remote'[r].dev # None
  BY <1>1, <1>2 DEF ReceiptInv, RulesetAfterGenesis, Published
<1>3. ASSUME remote'[r] = remote[r]
      PROVE  remote'[r].main # None /\ remote'[r].dev # None
  BY <1>2, <1>3 DEF Exists
<1>4. ASSUME NEW p \in Run, Write(p) \/ WriteReplyLost(p)
      PROVE  remote'[r].main # None /\ remote'[r].dev # None
  <2> DEFINE op == Current(p)
  <2>1. /\ Applying(p) /\ op \in Op /\ op \in Pending(p)
        /\ job[p].plan \in Plans /\ Effect(op, job[p].plan)
    BY <1>4, WriteMeans
  <2>2. op.kind = "create-ruleset" => job[p].stage = "after-files"
    <3>1. op \in StagedOps(job[p].stage) /\ job[p].stage \in PHASES
      BY <2>1 DEF ReceiptInv, AppliersKnow, ApplierKnows, Applying
    <3> QED BY <3>1, StagedShape DEF PHASES, CreateOp, ScanOp
  <2>3. op.kind = "create-ruleset" => Exists(r) /\ Published(r)
    BY <2>1, <2>2 DEF ReceiptInv, AppliersKnow, ApplierKnows
  <2> HIDE DEF op
  <2>4. CASE op.repo # r
    BY <1>3, <2>1, <2>4, EffectMeans
  <2>5. CASE op.repo = r /\ op.kind = "create-ruleset"
    BY <1>1, <2>3, <2>5
  <2>6. CASE op.repo = r /\ op.kind # "create-ruleset"
    BY <1>2, <2>1, <2>6, EffectMeans
  <2> QED BY <2>4, <2>5, <2>6
<1>5. ASSUME NEW p \in Run, PushBranch(p) \/ PushReplyLost(p)
      PROVE  remote'[r].main # None /\ remote'[r].dev # None
  <2> DEFINE q == job[p].repo
             plan == job[p].plan
  <2>1. /\ q \in Repo /\ plan \in Plans /\ genesis[p] \in Nat
        /\ BranchPushed(p) \in {"main", "dev"}
        /\ Push(q, BranchPushed(p), genesis[p], plan)
    BY <1>5, PushBranchMeans
  <2> HIDE DEF q, plan
  <2>2. CASE q # r
    BY <1>3, <2>1, <2>2, PushMeans
  <2>3. CASE q = r
    BY <1>2, <2>1, <2>3, PushMeans
  <2> QED BY <2>2, <2>3
<1>6. CASE OutsideNext
  <2>1. PICK q \in Repo : OutsideCreate(q)
    BY <1>6 DEF OutsideNext, OutsideDelete, OutsideAlter, OutsideDevelop, Undisturbed
  <2>2. CASE q # r
    BY <1>3, <2>1, <2>2 DEF OutsideCreate, TypeOK, GitHubTypeOK
  <2>3. CASE q = r
    BY <2>1, <2>3 DEF OutsideCreate, NewRepository, TypeOK, GitHubTypeOK
  <2> QED BY <2>2, <2>3
<1> QED BY <1>3, <1>4, <1>5, <1>6, RemoteMoves

\* The genesis reaches only repositories that are protected.
LEMMA PushesComeLate ==
  ASSUME TypeOK, ReceiptInv, Undisturbed, [Next]_vars
  PROVE  PushUnderProtection'
<1> SUFFICES ASSUME NEW r \in Repo, Exists(r)', remote'[r].maker \in Plans,
                    remote'[r].main # None
             PROVE  remote'[r].secretScanning
  BY DEF PushUnderProtection, Exists
<1>1. ASSUME Exists(r), remote[r].secretScanning
      PROVE  remote'[r].secretScanning
  BY <1>1, RemoteGrows DEF Grows, SettingsStay
<1>2. ASSUME Exists(r), remote'[r].main = remote[r].main
      PROVE  remote'[r].secretScanning
  <2>1. remote[r].maker = remote'[r].maker
    BY <1>2, RemoteGrows DEF Grows, SameIdentity
  <2> QED BY <1>1, <1>2, <2>1 DEF ReceiptInv, PushUnderProtection
<1>3. ASSUME remote'[r] = remote[r]
      PROVE  remote'[r].secretScanning
  BY <1>2, <1>3 DEF Exists
<1>4. ASSUME NEW p \in Run, Write(p) \/ WriteReplyLost(p)
      PROVE  remote'[r].secretScanning
  <2> DEFINE op == Current(p)
  <2>1. op \in Op /\ job[p].plan \in Plans /\ Effect(op, job[p].plan)
    BY <1>4, WriteMeans
  <2> HIDE DEF op
  <2>2. CASE op.repo # r
    BY <1>3, <2>1, <2>2, EffectMeans
  <2>3. CASE op.repo = r /\ op.kind = "create-repository"
    BY <2>1, <2>3, EffectMeans
  <2>4. CASE op.repo = r /\ op.kind # "create-repository"
    BY <1>2, <2>1, <2>4, EffectMeans DEF SameHeads
  <2> QED BY <2>2, <2>3, <2>4
<1>5. ASSUME NEW p \in Run, PushBranch(p) \/ PushReplyLost(p)
      PROVE  remote'[r].secretScanning
  <2>1. Publishing(p)
    BY <1>5, PushBranchMeans
  <2>2. Protected(r, job[p].plan)
    BY <2>1 DEF ReceiptInv, PublishersKnow
  <2> QED BY <1>1, <2>2 DEF Protected, Made
<1>6. CASE OutsideNext
  <2>1. PICK q \in Repo : OutsideCreate(q)
    BY <1>6 DEF OutsideNext, OutsideDelete, OutsideAlter, OutsideDevelop, Undisturbed
  <2>2. CASE q # r
    BY <1>3, <2>1, <2>2 DEF OutsideCreate, TypeOK, GitHubTypeOK
  <2>3. CASE q = r
    BY <2>1, <2>3, GitHubAssumption DEF OutsideCreate, NewRepository, TypeOK, GitHubTypeOK
  <2> QED BY <2>2, <2>3
<1> QED BY <1>3, <1>4, <1>5, <1>6, RemoteMoves

\* A result is issued on a complete ledger of genuine rows.
LEMMA ResultsStayTrue ==
  ASSUME TypeOK, LedgerInv, GenesisInv, ReceiptInv, Undisturbed, [Next]_vars
  PROVE  ResultIsTrue'
<1> DEFINE True(plan, r) ==
             /\ Exists(r)
             /\ remote[r].maker = plan
             /\ \A op \in Op : op.repo = r => Present(op) /\ InApprovedState(op, plan)
             /\ remote[r].main # None /\ remote[r].dev = remote[r].main
           TrueFor(plan, source) ==
             Request[source] = Request[plan] /\ \A r \in Repo : True(source, r)
<1>1. ASSUME NEW plan, NEW r \in Repo, True(plan, r)
      PROVE  True(plan, r)'
  <2>1. Grows(r)
    BY <1>1, RemoteGrows
  <2>2. ASSUME NEW op \in Op, op.repo = r
        PROVE  Present(op)' /\ InApprovedState(op, plan)'
    <3>1. Present(op) /\ InApprovedState(op, plan) /\ op.kind \in ApplyKind
      BY <1>1, <2>2, OpShape
    <3>2. Present(op)'
      BY <2>1, <2>2, <3>1 DEF Present, Grows
    <3>3. InApprovedState(op, plan)'
      BY <2>1, <2>2, <3>1
         DEF InApprovedState, ApplyKind, Present, Grows, SameIdentity, SettingsStay
    <3> QED BY <3>2, <3>3
  <2>3. \A op \in Op : op.repo = r => Present(op)' /\ InApprovedState(op, plan)'
    BY <2>2
  <2> QED BY <1>1, <2>1, <2>3
          DEF Grows, SameIdentity, Present, InApprovedState, Exists
<1>2. ASSUME NEW plan \in Plans, BuildResult(plan)
      PROVE  \E source \in Plans : TrueFor(plan, source)
  <2>1. PICK approval \in Approvals : Deliverable(plan, approval, disk)
    BY <1>2 DEF BuildResult
  <2>2. {row.id : row \in disk} = ReceiptId
    BY <2>1, DeliverableIsFull
  <2>3. PICK first \in disk : first \in Receipt
    BY <2>1 DEF Deliverable, Held, TypeOK, LedgerTypeOK
  <2>4. PICK source \in Plans : source = first.plan
    BY <2>3 DEF Receipt
  <2>5. \A row \in disk : row.plan = source /\ row \in AllRows
    BY <2>3, <2>4, RowPlaces DEF LedgerInv, Loadable
  <2>6. Request[source] = Request[plan]
    BY <2>1, <2>3, <2>4 DEF Deliverable, SameRequest
  <2>7. ASSUME NEW r \in Repo
        PROVE  True(source, r)
    <3>1. PICK published \in disk : published.id = PublishId(r)
      BY <2>2 DEF ReceiptId, PublishIds
    <3>2. /\ published.id \in PublishIds /\ published.id \notin Op
          /\ published.id.repo = r
      BY <3>1, OpShape DEF PublishIds, PublishId
    <3>3. /\ Exists(r) /\ remote[r].maker = source /\ published.mark \in Nat
          /\ remote[r].main = published.mark /\ remote[r].dev = published.mark
      BY <2>5, <3>2 DEF ReceiptInv, RowsAreGenuine, Genuine, CarriesGenesis
    <3>4. ASSUME NEW op \in Op
          PROVE  Present(op) /\ InApprovedState(op, source)
      <4>1. PICK row \in disk : row.id = op
        BY <2>2 DEF ReceiptId
      <4> QED BY <2>5, <4>1 DEF ReceiptInv, RowsAreGenuine, Genuine
    <3> QED BY <3>3, <3>4, GitHubAssumption
  <2> QED BY <2>6, <2>7
<1>3. \A plan \in results' :
        plan \in results \/ (plan \in Plans /\ BuildResult(plan))
  BY DEF Next, Operate, BuildResult, BeginApply, BeginPublish, ContinueApply,
         ContinuePublish, GoWrong, operatorVars, vars
<1>4. ASSUME NEW plan \in results'
      PROVE  \E source \in Plans :
               Request[source] = Request[plan] /\ \A r \in Repo : True(source, r)'
  <2>1. \E source \in Plans : TrueFor(plan, source)
    <3>1. CASE plan \in results
      BY <3>1 DEF ReceiptInv, ResultIsTrue, BuiltBy
    <3> QED BY <1>2, <1>3, <3>1
  <2> HIDE DEF True
  <2> QED BY <1>1, <2>1
<1> QED BY <1>4 DEF ResultIsTrue, BuiltBy, Present, InApprovedState, Exists

----------------------------------------------------------------------------
\* Undisturbed, receipts and what commands rely on stay true.
LEMMA ReceiptInvariant ==
  ASSUME Undisturbed
  PROVE  Spec => []ReceiptInv
<1>1. Init => ReceiptInv
  <2> SUFFICES ASSUME Init PROVE ReceiptInv
    OBVIOUS
  <2>1. /\ \A r \in Repo : ~Exists(r)
        /\ \A p \in Run : ~Active(p) /\ mem[p] = {}
        /\ disk = {} /\ scratch = None /\ reported = {} /\ results = {}
    BY DEF Init, GitHubInit, LedgerInit, Exists, Active
  <2>2. \A row \in AllRows : FALSE
    BY <2>1, RowPlaces
  <2> QED BY <2>1, <2>2
          DEF ReceiptInv, RowsAreGenuine, AppliersKnow, Applying, PublishersKnow,
              Publishing, ReportsHold, NoForeignWrite, RulesetAfterGenesis,
              PushUnderProtection, ResultIsTrue
<1>2. TypeOK /\ LedgerInv /\ GenesisInv /\ ReceiptInv /\ [Next]_vars => ReceiptInv'
  BY RowsStayGenuine, AppliersStayRight, PublishersStayRight, ReportsStayRight,
     ForeignStaysUntouched, RulesetsComeLate, PushesComeLate, ResultsStayTrue
     DEF ReceiptInv
<1> QED BY <1>1, <1>2, TypeCorrect, LedgerInvariant, GenesisInvariant, PTL DEF Spec

(***************************************************************************)
(* A receipt is worth what it says, in every copy of the ledger: it names  *)
(* a resource that its plan made and that is in the approved state,        *)
(* whatever calls failed, lied or lost their reply and wherever commands   *)
(* died (the re-reads of apply_plan and publish_files).                    *)
(***************************************************************************)
THEOREM ReceiptsStayGenuine ==
  ASSUME Undisturbed
  PROVE  Spec => []ReceiptsAreGenuine
<1>1. ReceiptInv => ReceiptsAreGenuine
  BY DEF ReceiptInv, RowsAreGenuine, ReceiptsAreGenuine
<1> QED BY <1>1, ReceiptInvariant, PTL

(***************************************************************************)
(* No plan writes to a repository that another made, though commands know  *)
(* repositories by name only and any number of plans run at a time.        *)
(***************************************************************************)
THEOREM NobodyWritesElsewhere ==
  ASSUME Undisturbed
  PROVE  Spec => []NoForeignWrite
<1>1. ReceiptInv => NoForeignWrite
  BY DEF ReceiptInv
<1> QED BY <1>1, ReceiptInvariant, PTL

(***************************************************************************)
(* The ruleset never comes before the genesis commit it would block.       *)
(***************************************************************************)
THEOREM RulesetsFollowGenesis ==
  ASSUME Undisturbed
  PROVE  Spec => []RulesetAfterGenesis
<1>1. ReceiptInv => RulesetAfterGenesis
  BY DEF ReceiptInv
<1> QED BY <1>1, ReceiptInvariant, PTL

(***************************************************************************)
(* The genesis commit reaches no repository of a plan before its secret    *)
(* scanning is on.                                                         *)
(***************************************************************************)
THEOREM PushesAreProtected ==
  ASSUME Undisturbed
  PROVE  Spec => []PushUnderProtection
<1>1. ReceiptInv => PushUnderProtection
  BY DEF ReceiptInv
<1> QED BY <1>1, ReceiptInvariant, PTL

(***************************************************************************)
(* A result that was issued describes the remote as it is, built whole by  *)
(* one plan of the same request: a ledger that passes build_result has the *)
(* rows of one plan, all that there can be, though build_result itself     *)
(* asks for less (it compares request digests, and the genesis rows of the *)
(* repositories that have an entry).                                       *)
(***************************************************************************)
THEOREM ResultsAreTrue ==
  ASSUME Undisturbed
  PROVE  Spec => []ResultIsTrue
<1>1. ReceiptInv => ResultIsTrue
  BY DEF ReceiptInv
<1> QED BY <1>1, ReceiptInvariant, PTL

=============================================================================
