----------------------------- MODULE SetupProofs -----------------------------
(***************************************************************************)
(* What holds of the set-up commands for any tickets, offers, edits and    *)
(* faults: the types of their state, that doubled issues are reported,     *)
(* that the owner's files stay, and that a level of assurance is earned.   *)
(***************************************************************************)
EXTENDS Kit, SequenceTheorems, FiniteSetTheorems, WellFoundedInduction, TLAPS

(***************************************************************************)
(* What a command holds while it runs, and that it holds nothing when it   *)
(* does not.                                                               *)
(***************************************************************************)
Alone == running \subseteq Together \/ \E c \in Commands : running \subseteq {c}

KitMayBeWritten ==
  \A i \in DOMAIN writes : writes[i] = "kit" => update \/ "kit" \in created

InstallHolds == ("install" \notin running => writes = << >>) /\ KitMayBeWritten

ResolveHolds == "resolve" \in running => resolved \in Locks

SyncHolds ==
  \A p \in Syncs :
    /\ p \notin running => sync[p].pc = "idle" /\ sync[p].queue = << >>
    /\ sync[p].pc = "list" => sync[p].queue = << >>

CanaryHolds == "canary" \notin running => stage = "idle"

GateHolds == "gate" \notin running => gate.pc = "idle" /\ gate.level = "DESIGN_ONLY"

CommandsInv ==
  SetupTypeOK /\ Alone /\ InstallHolds /\ ResolveHolds /\ SyncHolds
  /\ CanaryHolds /\ GateHolds

(***************************************************************************)
(* A run that had the issues for itself creates what is missing, each      *)
(* once; and as long as an issue is doubled a sync is running or was heard *)
(* of.                                                                     *)
(***************************************************************************)
Undoubled ==
  /\ \A t \in Tickets : ~Doubled(t)
  /\ \A p, q \in Syncs : p \in running /\ q \in running => p = q
  /\ \A p \in Syncs : LET Q == sync[p].queue IN
       /\ \A i \in DOMAIN Q : Q[i].number = Len(issues[Q[i].ticket])
       /\ \A i, j \in DOMAIN Q : Q[i].ticket = Q[j].ticket => i = j

SyncInv ==
  /\ ~overlapped => Undoubled
  /\ (\E t \in Tickets : Doubled(t)) => told \/ Syncs \cap running # {}

(***************************************************************************)
(* Evidence is complete when a run observed everything, and a gate that    *)
(* still passes has seen what it reports.                                  *)
(***************************************************************************)
Observed ==
  /\ \A i \in DOMAIN left : left[i] # "teardown"
  /\ stage \in {"execute", "teardown"} => "teardown" \notin marked
  /\ stage = "evidence" /\ marked = StepsOf(mode) => mode \in proven
  /\ \A m \in Visibilities : evidence[m] = "complete" => m \in proven

Seen ==
  gate.passed /\ gate.online =>
    /\ gate.pc \notin {"idle", "dev"} /\ ~gate.private => "dev" \in gate.seen
    /\ gate.pc \notin {"idle", "dev", "main"} /\ ~gate.private => "main" \in gate.seen
    /\ gate.pc \in {"level", "report"} =>
         gate.verified = ProfileOf(file.lock) /\ file.lock \in Locks

\* The gate finds the lock as it was when it started.
LockIsLeft == "gate" \notin Together \/ Together \cap {"install", "resolve"} = {}

GateInv ==
  /\ "gate" \in running => (gate.private <=> file.lock \in PrivateLocks) /\ Seen
  /\ gate.pc # "report" => gate.level = "DESIGN_ONLY"
  /\ LevelIsEarned

-----------------------------------------------------------------------------
\* Every set of numbers has a least one.
LEMMA LeastNumber ==
  ASSUME NEW T, T \subseteq Nat, T # {}
  PROVE  \E n \in T : \A m \in T : n <= m
<1> DEFINE R == OpToRel(<, Nat)
<1>1. IsWellFoundedOn(R, Nat)
  BY NatLessThanWellFounded
<1>2. \A m, n \in Nat : n <= m \/ <<m, n>> \in R
  BY DEF OpToRel
<1> HIDE DEF R
<1>3. \E n \in T : \A m \in T : ~ (<<m, n>> \in R)
  BY <1>1, WFMin
<1> QED BY <1>2, <1>3

\* What a run has to write are tickets, each once.
LEMMA OutdatedType ==
  ASSUME NEW p
  PROVE  /\ Outdated(p) \in Seq(Tickets)
         /\ \A i, j \in DOMAIN Outdated(p) : Outdated(p)[i] = Outdated(p)[j] => i = j
<1> DEFINE n == Len(TicketOrder)
           Differs(t) == issues[t] # <<sync[p].read[t]>>
           Entered(f, i) == IF i = 0 THEN << >>
               ELSE IF Differs(TicketOrder[i]) THEN Append(f[i - 1], TicketOrder[i])
               ELSE f[i - 1]
           Good(k, f) == f = [i \in 0 .. k |-> Entered(f, i)]
           Bad == {k \in Nat : ~ \E f : Good(k, f)}
<1>1. /\ n \in Nat /\ DOMAIN TicketOrder = 1 .. n
      /\ \A i \in 1 .. n : TicketOrder[i] \in Tickets
      /\ \A i, j \in 1 .. n : TicketOrder[i] = TicketOrder[j] => i = j
  BY IssueSyncAssumption, LenProperties, ElementOfSeq
<1> HIDE DEF n, Differs
<1>2. ASSUME NEW k \in Nat, NEW f, Good(k, f)
      PROVE  \E g : Good(k + 1, g)
  <2> DEFINE g == [i \in 0 .. k + 1 |-> IF i = k + 1 THEN Entered(f, i) ELSE f[i]]
  <2>1. ASSUME NEW i \in 0 .. k + 1
        PROVE  g[i] = Entered(g, i)
    <3>1. i # 0 => i - 1 \in 0 .. k + 1 /\ i - 1 # k + 1
      OBVIOUS
    <3>2. i # 0 => g[i - 1] = f[i - 1]
      BY <3>1
    <3>3. Entered(g, i) = Entered(f, i)
      BY <3>2
    <3>4. i # k + 1 => i \in 0 .. k
      OBVIOUS
    <3>5. i # k + 1 => f[i] = Entered(f, i)
      BY <1>2, <3>4
    <3> QED BY <3>3, <3>5
  <2>2. g = [i \in 0 .. k + 1 |-> g[i]]
    OBVIOUS
  <2> HIDE DEF g, Entered
  <2> QED BY <2>1, <2>2
<1>3. Bad = {}
  <2> SUFFICES ASSUME Bad # {} PROVE FALSE
    OBVIOUS
  <2>1. PICK k \in Bad : \A m \in Bad : k <= m
    BY LeastNumber
  <2>2. CASE k = 0
    <3> DEFINE f == [i \in 0 .. 0 |-> << >>]
    <3>1. Good(0, f)
      OBVIOUS
    <3> QED BY <2>1, <2>2, <3>1
  <2>3. CASE k # 0
    <3> HIDE DEF Good
    <3>1. k - 1 \in Nat /\ (k - 1) + 1 = k /\ ~ (k <= k - 1)
      BY <2>1, <2>3
    <3>2. PICK f : Good(k - 1, f)
      BY <2>1, <3>1
    <3>3. \E g : Good((k - 1) + 1, g)
      BY <1>2, <3>1, <3>2
    <3> QED BY <2>1, <3>1, <3>3
  <2> QED BY <2>2, <2>3
<1> DEFINE upTo == CHOOSE g : g = [i \in 0 .. n |-> Entered(g, i)]
<1>4. upTo = [i \in 0 .. n |-> Entered(upTo, i)]
  <2>1. PICK f : Good(n, f)
    <3> HIDE DEF Good
    <3> QED BY <1>1, <1>3
  <2> HIDE DEF Entered
  <2> QED BY <2>1
<1>5. \A i \in 0 .. n : upTo[i] = Entered(upTo, i)
  <2> HIDE DEF upTo, Entered
  <2> QED BY <1>4
<1> HIDE DEF upTo
<1> DEFINE Fits(i) ==
             /\ upTo[i] \in Seq(Tickets)
             /\ \A a \in DOMAIN upTo[i] : \E b \in 1 .. i : upTo[i][a] = TicketOrder[b]
             /\ \A a, b \in DOMAIN upTo[i] : upTo[i][a] = upTo[i][b] => a = b
           Wrong == {i \in 0 .. n : ~Fits(i)}
<1>6. Wrong = {}
  <2> SUFFICES ASSUME Wrong # {} PROVE FALSE
    OBVIOUS
  <2>1. PICK i \in Wrong : \A j \in Wrong : i <= j
    <3>1. Wrong \subseteq Nat
      OBVIOUS
    <3> HIDE DEF Wrong
    <3> QED BY <3>1, LeastNumber
  <2>2. upTo[i] = Entered(upTo, i)
    BY <1>5
  <2>3. CASE i = 0
    <3>1. upTo[i] = << >> /\ DOMAIN << >> = {}
      BY <2>2, <2>3
    <3> QED BY <2>1, <3>1, EmptySeq
  <2>4. CASE i # 0
    <3> DEFINE s == upTo[i - 1]
               t == TicketOrder[i]
    <3>1. i \in 1 .. n /\ i - 1 \in 0 .. n /\ ~ (i <= i - 1)
      BY <1>1, <2>4
    <3>2. Fits(i - 1) /\ t \in Tickets
      BY <1>1, <2>1, <3>1
    <3>3. CASE ~Differs(t)
      <4>1. upTo[i] = s
        BY <2>2, <2>4, <3>3
      <4>2. \A b \in 1 .. i - 1 : b \in 1 .. i
        BY <3>1
      <4>3. Fits(i)
        BY <3>2, <4>1, <4>2
      <4> QED BY <2>1, <4>3
    <3>4. CASE Differs(t)
      <4>1. upTo[i] = Append(s, t)
        BY <2>2, <2>4, <3>4
      <4>2. s \in Seq(Tickets)
        BY <3>2
      <4>3. \A a \in DOMAIN s : \E b \in 1 .. i - 1 : s[a] = TicketOrder[b]
        BY <3>2
      <4>4. \A a, b \in DOMAIN s : s[a] = s[b] => a = b
        BY <3>2
      <4>5. \A b \in 1 .. i - 1 : b \in 1 .. n /\ b # i /\ b \in 1 .. i
        BY <1>1, <3>1
      <4>6. i \in 1 .. i
        BY <3>1
      <4>7. \A a \in DOMAIN s : s[a] # t /\ \E b \in 1 .. i : s[a] = TicketOrder[b]
        BY <1>1, <3>1, <4>3, <4>5
      <4> DEFINE m == Len(s)
                 r == Append(s, t)
      <4>8. m \in Nat /\ DOMAIN s = 1 .. m
        BY <4>2, LenProperties
      <4>9. /\ r \in Seq(Tickets) /\ DOMAIN r = 1 .. m + 1
            /\ r[m + 1] = t /\ \A a \in 1 .. m : r[a] = s[a]
        BY <3>2, <4>2, AppendProperties, LenProperties
      <4> HIDE DEF m, r, s, t
      <4>10. \A a \in 1 .. m + 1 : a = m + 1 \/ a \in 1 .. m
        BY <4>8
      <4>11. \A a \in DOMAIN r : \E b \in 1 .. i : r[a] = TicketOrder[b]
        BY <4>6, <4>7, <4>8, <4>9, <4>10 DEF t
      <4>12. \A a, b \in DOMAIN r : r[a] = r[b] => a = b
        BY <4>4, <4>7, <4>8, <4>9, <4>10
      <4>13. Fits(i)
        BY <4>1, <4>9, <4>11, <4>12 DEF r
      <4> QED BY <2>1, <4>13
    <3> QED BY <3>3, <3>4
  <2> QED BY <2>3, <2>4
<1>7. Fits(n)
  BY <1>1, <1>6
<1>8. Outdated(p) = upTo[n]
  BY DEF Outdated, upTo, n, Differs
<1> QED BY <1>7, <1>8
-----------------------------------------------------------------------------
\* Commands begin and end.

LEMMA BeginKeeps ==
  ASSUME NEW c \in Commands, CommandsInv, Begin(c), offered' = offered
  PROVE  /\ running' \subseteq offered' /\ Alone'
         /\ \A d \in Commands \ {c} : d \in running' <=> d \in running
BY DEF CommandsInv, Begin, Alone, SetupTypeOK, CheckoutTypeOK

LEMMA FinishKeeps ==
  ASSUME NEW c \in Commands, CommandsInv, Finish(c), offered' = offered
  PROVE  /\ running' \subseteq offered' /\ Alone'
         /\ \A d \in Commands \ {c} : d \in running' <=> d \in running
BY DEF CommandsInv, Finish, Alone, SetupTypeOK, CheckoutTypeOK

LEMMA RunningStays ==
  ASSUME CommandsInv, UNCHANGED <<offered, running>>
  PROVE  running' \subseteq offered' /\ Alone'
BY DEF CommandsInv, Alone, SetupTypeOK, CheckoutTypeOK

LEMMA FaultKeeps ==
  ASSUME CommandsInv, Fault
  PROVE  faults' \in 0 .. MaxFaults
BY CheckoutAssumption DEF CommandsInv, Fault, SetupTypeOK, CheckoutTypeOK

LEMMA EditKeeps ==
  ASSUME CommandsInv, Edit
  PROVE  edits' \in 0 .. MaxEdits
BY CheckoutAssumption DEF CommandsInv, Edit, SetupTypeOK, CheckoutTypeOK

\* The commands that a step leaves alone.
LEMMA InstallersKeep ==
  ASSUME CommandsInv, UNCHANGED <<installVars, resolved>>,
         \A d \in {"install", "resolve"} : d \in running' <=> d \in running
  PROVE  InstallerTypeOK' /\ InstallHolds' /\ ResolveHolds'
BY DEF CommandsInv, SetupTypeOK, InstallerTypeOK, installVars, InstallHolds, ResolveHolds,
      KitMayBeWritten

LEMMA SyncsKeep ==
  ASSUME CommandsInv, UNCHANGED issueVars,
         \A d \in Syncs : d \in running' <=> d \in running
  PROVE  IssueSyncTypeOK' /\ SyncHolds'
BY DEF CommandsInv, SetupTypeOK, IssueSyncTypeOK, issueVars, SyncHolds

LEMMA CanaryKeeps ==
  ASSUME CommandsInv, UNCHANGED canaryVars, "canary" \in running' <=> "canary" \in running
  PROVE  CanaryTypeOK' /\ CanaryHolds'
BY DEF CommandsInv, SetupTypeOK, CanaryTypeOK, canaryVars, CanaryHolds

LEMMA GateKeeps ==
  ASSUME CommandsInv, UNCHANGED gate, "gate" \in running' <=> "gate" \in running
  PROVE  PhaseGateTypeOK' /\ GateHolds'
BY DEF CommandsInv, SetupTypeOK, PhaseGateTypeOK, GateHolds

-----------------------------------------------------------------------------
\* The types, command by command.

LEMMA LockForType ==
  ASSUME NEW o, NEW v
  PROVE  LockFor(o, v) \in Locks
BY DEF LockFor, Locks, PrivateLocks

\* The profile of a lock is one of the three, and private just when the lock is.
LEMMA ProfileOfLock ==
  ASSUME NEW lock \in Locks
  PROVE  ProfileOf(lock) \in Profiles /\ (ProfileOf(lock) = Private <=> lock \in PrivateLocks)
BY DEF ProfileOf, Locks, PrivateLocks, Profiles, Private

LEMMA VisibilityOfType ==
  ASSUME NEW lock
  PROVE  VisibilityOf(lock) \in Visibilities
BY DEF VisibilityOf, Visibilities

LEMMA PeopleKeepTypes ==
  ASSUME CommandsInv, People, UNCHANGED <<installVars, resolved, issueVars, canaryVars, gate>>
  PROVE  CommandsInv'
<1>1. CheckoutTypeOK
  BY DEF CommandsInv, SetupTypeOK
<1>2. CheckoutTypeOK' /\ UNCHANGED <<offered, running>>
  <2>1. CASE ChangeVisibility
    BY <1>1, <2>1, EditKeeps DEF ChangeVisibility, CheckoutTypeOK
  <2>2. CASE Reconfigure
    BY <1>1, <2>2, EditKeeps, LockForType DEF Reconfigure, CheckoutTypeOK, facts
  <2>3. CASE EditKit
    BY <1>1, <2>3, EditKeeps DEF EditKit, CheckoutTypeOK, facts, Content
  <2>4. ASSUME NEW b \in Branches, Unprotect(b)
        PROVE  CheckoutTypeOK' /\ UNCHANGED <<offered, running>>
    BY <1>1, <2>4, EditKeeps DEF Unprotect, CheckoutTypeOK
  <2>5. ASSUME NEW b \in Branches, Protect(b)
        PROVE  CheckoutTypeOK' /\ UNCHANGED <<offered, running>>
    BY <1>1, <2>5 DEF Protect, CheckoutTypeOK
  <2> QED BY <2>1, <2>2, <2>3, <2>4, <2>5 DEF People
<1> QED BY <1>2, RunningStays, InstallersKeep, SyncsKeep, CanaryKeeps, GateKeeps
        DEF CommandsInv, SetupTypeOK

\* The order of the writes.
LEMMA InFileOrderType ==
  ASSUME NEW S, S \subseteq Files
  PROVE  /\ InFileOrder(S) \in Seq(Files)
         /\ \A i \in DOMAIN InFileOrder(S) : InFileOrder(S)[i] \in S
         /\ Len(InFileOrder(S)) <= Cardinality(S)
<1> DEFINE ifIn(f) == IF f \in S THEN <<f>> ELSE << >>
           Fits(s, T) == s \in Seq(S) /\ Len(s) = Cardinality(T)
           first == ifIn("actions") \o ifIn("factory")
           second == first \o ifIn("lock")
           third == second \o ifIn("policy")
<1>1. ASSUME NEW f PROVE Fits(ifIn(f), S \cap {f}) /\ IsFiniteSet(S \cap {f})
  <2>1. CASE f \in S
    <3>1. S \cap {f} = {f}
      BY <2>1
    <3> QED BY <2>1, <3>1, FS_Singleton
  <2>2. CASE f \notin S
    <3>1. S \cap {f} = {}
      BY <2>2
    <3> QED BY <2>2, <3>1, FS_EmptySet
  <2> QED BY <2>1, <2>2
<1>2. ASSUME NEW s, NEW T, NEW f, T \subseteq S, f \notin T, IsFiniteSet(T), Fits(s, T)
      PROVE  /\ Fits(s \o ifIn(f), T \cup (S \cap {f}))
             /\ IsFiniteSet(T \cup (S \cap {f}))
  <2> DEFINE u == ifIn(f)
             U == S \cap {f}
  <2>1. Fits(u, U) /\ IsFiniteSet(U)
    BY <1>1
  <2>2. T \cap U = {}
    BY <1>2
  <2> HIDE DEF u, U
  <2>3. s \o u \in Seq(S) /\ Len(s \o u) = Len(s) + Len(u)
    BY <1>2, <2>1, ConcatProperties
  <2>4. /\ IsFiniteSet(T \cup U)
        /\ Cardinality(T \cup U) = Cardinality(T) + Cardinality(U) - Cardinality(T \cap U)
    BY <1>2, <2>1, FS_Union
  <2>5. Cardinality(T \cap U) = 0
    BY <2>2, FS_EmptySet
  <2>6. Len(s) \in Nat /\ Len(u) \in Nat
    BY <1>2, <2>1, LenProperties
  <2> QED BY <1>2, <2>1, <2>3, <2>4, <2>5, <2>6 DEF u, U
<1> DEFINE A == S \cap {"actions"}
           B == A \cup (S \cap {"factory"})
           C == B \cup (S \cap {"lock"})
           D == C \cup (S \cap {"policy"})
<1>3. /\ "factory" \notin A /\ "lock" \notin B /\ "policy" \notin C /\ "kit" \notin D
      /\ A \subseteq S /\ B \subseteq S /\ C \subseteq S /\ D \subseteq S
      /\ D \cup (S \cap {"kit"}) = S
  BY DEF Files
<1> HIDE DEF ifIn, Fits, A, B, C, D
<1>4. Fits(ifIn("actions"), A) /\ IsFiniteSet(A)
  BY <1>1 DEF A
<1>5. Fits(first, B) /\ IsFiniteSet(B)
  BY <1>2, <1>3, <1>4 DEF B
<1>6. Fits(second, C) /\ IsFiniteSet(C)
  <2> HIDE DEF first
  <2> QED BY <1>2, <1>3, <1>5 DEF C, second
<1>7. Fits(third, D) /\ IsFiniteSet(D)
  <2> HIDE DEF second
  <2> QED BY <1>2, <1>3, <1>6 DEF D, third
<1>8. Fits(third \o ifIn("kit"), S)
  <2> HIDE DEF third
  <2> QED BY <1>2, <1>3, <1>7
<1>9. InFileOrder(S) = third \o ifIn("kit")
  BY DEF InFileOrder, ifIn
<1>10. InFileOrder(S) \in Seq(S) /\ Len(InFileOrder(S)) = Cardinality(S)
  BY <1>8, <1>9 DEF Fits
<1>11. \A s \in Seq(S) : s \in Seq(Files) /\ \A i \in DOMAIN s : s[i] \in S
  BY SeqMonotonic, ElementOfSeq, LenProperties
<1>12. Len(InFileOrder(S)) \in Nat
  BY <1>10, LenProperties
<1> HIDE DEF first, second, third
<1> QED BY <1>10, <1>11, <1>12

LEMMA FilesFinite == IsFiniteSet(Files) /\ Cardinality(Files) \in Nat
<1>1. Files = {"actions"} \cup ({"factory"} \cup ({"kit"} \cup ({"lock"} \cup {"policy"})))
  BY DEF Files
<1> QED BY <1>1, FS_Singleton, FS_Union, FS_CardinalityType

\* The plan: every file at most once, the kit only when it may be written.
LEMMA PlanKeeps ==
  ASSUME CommandsInv, NEW u \in BOOLEAN, MakePlan(u), UNCHANGED resolved
  PROVE  /\ InstallerTypeOK'
         /\ KitMayBeWritten'
<1> DEFINE a == InFileOrder(Absent)
           d == InFileOrder(Differing)
<1>1. Absent \subseteq Files /\ Differing \subseteq Files /\ Absent \cap Differing = {}
  BY DEF Absent, Differing
<1>2. Outputs \in Content
  BY VisibilityOfType DEF CommandsInv, SetupTypeOK, CheckoutTypeOK, Outputs, Content
<1>3. a \in Seq(Files) /\ d \in Seq(Files)
  BY <1>1, InFileOrderType
<1>4. Len(a) <= Cardinality(Absent) /\ Len(d) <= Cardinality(Differing)
  BY <1>1, InFileOrderType
<1>5. Cardinality(Absent) + Cardinality(Differing) <= Cardinality(Files)
  <2>1. IsFiniteSet(Absent) /\ IsFiniteSet(Differing)
    BY <1>1, FilesFinite, FS_Subset
  <2>2. Cardinality(Absent \cup Differing)
          = Cardinality(Absent) + Cardinality(Differing) - Cardinality(Absent \cap Differing)
    BY <2>1, FS_Union
  <2>3. Cardinality(Absent \cap Differing) = 0
    BY <1>1, FS_EmptySet
  <2>4. Absent \cup Differing \subseteq Files
    BY <1>1
  <2>5. Cardinality(Absent \cup Differing) <= Cardinality(Files)
    BY <2>4, FilesFinite, FS_Subset
  <2>6. Cardinality(Absent) \in Nat /\ Cardinality(Differing) \in Nat
    BY <2>1, FS_CardinalityType
  <2> QED BY <2>2, <2>3, <2>5, <2>6
<1>6. /\ \A i \in DOMAIN a : a[i] \in Absent
      /\ \A i \in DOMAIN d : d[i] \in Differing
  BY <1>1, InFileOrderType
<1> HIDE DEF a, d
<1>7. /\ a \o d \in Seq(Files) /\ Len(a \o d) = Len(a) + Len(d)
      /\ \A i \in 1 .. Len(a) + Len(d) :
           (a \o d)[i] = IF i <= Len(a) THEN a[i] ELSE d[i - Len(a)]
  BY <1>3, ConcatProperties
<1>8. Len(a) \in Nat /\ Len(d) \in Nat /\ DOMAIN a = 1 .. Len(a) /\ DOMAIN d = 1 .. Len(d)
  BY <1>3, LenProperties
<1>9. Len(a \o d) <= Cardinality(Files)
  <2>1. Cardinality(Absent) \in Nat /\ Cardinality(Differing) \in Nat
    BY <1>1, FilesFinite, FS_Subset, FS_CardinalityType
  <2> QED BY <1>4, <1>5, <1>7, <1>8, <2>1, FilesFinite
<1>10. ASSUME NEW i \in DOMAIN (a \o d)
       PROVE  (a \o d)[i] \in Absent \/ (a \o d)[i] \in Differing
  <2>1. i \in 1 .. Len(a) + Len(d)
    BY <1>7, LenProperties
  <2>2. CASE i <= Len(a)
    BY <1>6, <1>7, <1>8, <2>1, <2>2
  <2>3. CASE ~ (i <= Len(a))
    <3>1. i - Len(a) \in DOMAIN d
      BY <1>8, <2>1, <2>3
    <3> QED BY <1>6, <1>7, <2>1, <2>3, <3>1
  <2> QED BY <2>2, <2>3
<1>11. /\ writes' = a \o d /\ created' = Absent /\ update' = u /\ wanted' = Outputs
       /\ Differing = {} \/ u
  BY DEF MakePlan, a, d
<1>12. InstallerTypeOK'
  BY <1>1, <1>2, <1>7, <1>9, <1>11
  DEF CommandsInv, SetupTypeOK, InstallerTypeOK
<1> QED BY <1>10, <1>11, <1>12 DEF KitMayBeWritten

\* Each write takes one file from the list.
LEMMA WriteKeeps ==
  ASSUME CommandsInv, writes # << >>,
         NEW v \in Content, NEW after, after = [file EXCEPT ![Head(writes)] = v[Head(writes)]]
  PROVE  /\ after \in Content
         /\ Head(writes) # "kit" => after.kit = file.kit
         /\ Tail(writes) \in Seq(Files) /\ Len(Tail(writes)) <= Cardinality(Files)
         /\ \A i \in DOMAIN Tail(writes) : Tail(writes)[i] = "kit" => update \/ "kit" \in created
         /\ Head(writes) = "kit" => update \/ "kit" \in created
<1>1. writes \in Seq(Files) /\ Len(writes) <= Cardinality(Files) /\ file \in Content
  BY DEF CommandsInv, SetupTypeOK, InstallerTypeOK, CheckoutTypeOK
<1>2. /\ Head(writes) \in Files /\ Tail(writes) \in Seq(Files)
      /\ Len(Tail(writes)) = Len(writes) - 1
      /\ \A i \in 1 .. Len(Tail(writes)) : Tail(writes)[i] = writes[i + 1]
  BY <1>1, HeadTailProperties
<1>3. Len(writes) \in Nat /\ Len(writes) # 0 /\ DOMAIN writes = 1 .. Len(writes)
  BY <1>1, LenProperties, EmptySeq
<1>4. DOMAIN Tail(writes) = 1 .. Len(writes) - 1
  BY <1>2, LenProperties
<1>5. Head(writes) = writes[1]
  BY <1>1
<1>6. \A i \in DOMAIN writes : writes[i] = "kit" => update \/ "kit" \in created
  BY DEF CommandsInv, InstallHolds, KitMayBeWritten
<1>7. after \in Content /\ (Head(writes) # "kit" => after.kit = file.kit)
  <2>1. CASE Head(writes) = "kit"
    BY <1>1, <2>1 DEF Content
  <2>2. CASE Head(writes) = "lock"
    BY <1>1, <2>2 DEF Content
  <2>3. CASE Head(writes) = "policy"
    BY <1>1, <2>3 DEF Content
  <2>4. CASE Head(writes) = "actions"
    BY <1>1, <2>4 DEF Content
  <2>5. CASE Head(writes) = "factory"
    BY <1>1, <2>5 DEF Content
  <2> QED BY <1>2, <2>1, <2>2, <2>3, <2>4, <2>5 DEF Files
<1> QED BY <1>1, <1>2, <1>3, <1>4, <1>5, <1>6, <1>7, FilesFinite

\* A factory lock out of date is the only thing that changes in a file set.
LEMMA UnsealedType ==
  ASSUME NEW f \in Content
  PROVE  Unsealed(f) \in Content /\ Unsealed(f).kit = f.kit /\ Unsealed(f).lock = f.lock
BY DEF Unsealed, Content

\* What a kill leaves of the file that was about to be written.
LEMMA KillLeaves ==
  ASSUME CommandsInv, KillInstall
  PROVE  \E v \in Content, after \in Content :
           /\ after = [file EXCEPT ![Head(writes)] = v[Head(writes)]]
           /\ file' \in {after, Unsealed(after)}
<1>1. Head(writes) \in Files /\ file \in Content
  BY HeadTailProperties
  DEF KillInstall, CommandsInv, SetupTypeOK, InstallerTypeOK, CheckoutTypeOK
<1>2. PICK cut \in {"torn", file[Head(writes)]}
                     \cup (IF Head(writes) = "kit" THEN {"garbled"} ELSE {}) :
        file' \in {[file EXCEPT ![Head(writes)] = cut],
                   Unsealed([file EXCEPT ![Head(writes)] = cut])}
  BY DEF KillInstall
<1> DEFINE torn == [actions |-> "torn", factory |-> "torn", kit |-> "torn",
                    lock |-> "torn", policy |-> "torn"]
           v == IF cut = "torn" THEN torn
                ELSE IF cut = "garbled" /\ Head(writes) = "kit"
                     THEN [torn EXCEPT !.kit = "garbled"]
                ELSE file
<1>3. torn \in Content /\ [torn EXCEPT !.kit = "garbled"] \in Content
  BY DEF Content
<1>4. v \in Content
  BY <1>1, <1>3
<1>5. v[Head(writes)] = cut
  <2>1. \A h \in Files : torn[h] = "torn"
    BY DEF Files
  <2>2. [torn EXCEPT !.kit = "garbled"].kit = "garbled"
    OBVIOUS
  <2> HIDE DEF torn
  <2> QED BY <1>1, <1>2, <2>1, <2>2
<1> HIDE DEF v
<1>6. [file EXCEPT ![Head(writes)] = v[Head(writes)]] \in Content
  BY <1>4, WriteKeeps DEF KillInstall
<1> QED BY <1>2, <1>4, <1>5, <1>6

\* What a write of the profile lock leaves.
LEMMA LockBecomesKeeps ==
  ASSUME CommandsInv, NEW x \in {"torn"} \cup Locks, LockBecomes(x)
  PROVE  /\ file' \in Content /\ wanted' \in Content
         /\ file'.kit = file.kit /\ UNCHANGED <<writes, update, created>>
<1> DEFINE f == [file EXCEPT !.lock = x]
<1>1. file \in Content /\ wanted \in Content
  BY DEF CommandsInv, SetupTypeOK, CheckoutTypeOK, InstallerTypeOK
<1>2. f \in Content /\ f.kit = file.kit
  BY <1>1 DEF Content
<1>3. /\ file' \in {f, Unsealed(f)} /\ wanted' \in {wanted, Unsealed(wanted)}
      /\ UNCHANGED <<writes, update, created>>
  BY DEF LockBecomes
<1> HIDE DEF f
<1> QED BY <1>1, <1>2, <1>3, UnsealedType

LEMMA NothingInstalledType == NothingInstalled \in Content
BY DEF NothingInstalled, Content, Files

LEMMA InstallerKeepsTypes ==
  ASSUME CommandsInv, InstallerNext, UNCHANGED <<issueVars, canaryVars, gate>>
  PROVE  CommandsInv'
<1> DEFINE Rest == \A d \in Commands \ {"install", "resolve"} : d \in running' <=> d \in running
           Kept == /\ CheckoutTypeOK' /\ InstallerTypeOK' /\ Alone'
                   /\ InstallHolds' /\ ResolveHolds' /\ Rest
<1>1. CheckoutTypeOK /\ InstallerTypeOK /\ InstallHolds /\ ResolveHolds
  BY DEF CommandsInv, SetupTypeOK
<1>2. "install" \in Commands /\ "resolve" \in Commands
  BY DEF Commands
<1>3. NothingInstalled \in Content /\ << >> \in Seq(Files) /\ Len(<< >>) <= Cardinality(Files)
  BY FilesFinite, NothingInstalledType
<1>4. ASSUME NEW u \in BOOLEAN, StartInstall(u)
      PROVE  Kept
  <2>1. running' \subseteq offered' /\ Alone' /\ Rest /\ "install" \in running'
        /\ ("resolve" \in running' <=> "resolve" \in running)
    BY <1>2, <1>4, BeginKeeps DEF StartInstall, Begin
  <2>2. /\ InstallerTypeOK'
        /\ KitMayBeWritten'
    BY <1>4, PlanKeeps DEF StartInstall
  <2>3. CheckoutTypeOK'
    BY <1>1, <1>4, <2>1 DEF StartInstall, CheckoutTypeOK, facts
  <2> QED BY <1>1, <1>4, <2>1, <2>2, <2>3 DEF StartInstall, InstallHolds, ResolveHolds
<1>5. ASSUME WriteFile PROVE Kept
  <2>1. /\ file' \in Content
        /\ Tail(writes) \in Seq(Files) /\ Len(Tail(writes)) <= Cardinality(Files)
        /\ KitMayBeWritten'
    <3>1. wanted \in Content
      BY <1>1 DEF InstallerTypeOK
    <3> QED BY <1>5, <3>1, WriteKeeps DEF WriteFile, KitMayBeWritten
  <2>2. running' \subseteq offered' /\ Alone' /\ UNCHANGED running
    BY <1>5, RunningStays DEF WriteFile
  <2>3. CheckoutTypeOK'
    BY <1>1, <1>5, <2>1, <2>2 DEF WriteFile, CheckoutTypeOK, facts
  <2>4. InstallerTypeOK'
    BY <1>1, <1>5, <2>1 DEF WriteFile, InstallerTypeOK
  <2> QED BY <1>1, <1>5, <2>1, <2>2, <2>3, <2>4 DEF WriteFile, InstallHolds, ResolveHolds
<1>6. ASSUME InstallerGone, UNCHANGED <<offered, resolved>>
      PROVE  /\ running' \subseteq offered' /\ Alone' /\ Rest
             /\ InstallerTypeOK' /\ InstallHolds' /\ ResolveHolds'
  <2>1. running' \subseteq offered' /\ Alone' /\ Rest
        /\ ("resolve" \in running' <=> "resolve" \in running)
    BY <1>2, <1>6, FinishKeeps DEF InstallerGone
  <2>2. InstallerTypeOK'
    BY <1>1, <1>3, <1>6 DEF InstallerGone, InstallerTypeOK
  <2>3. InstallHolds' /\ ResolveHolds'
    <3>1. KitMayBeWritten'
      BY <1>6 DEF InstallerGone, KitMayBeWritten
    <3> QED BY <1>1, <1>6, <2>1, <3>1 DEF InstallerGone, InstallHolds, ResolveHolds
  <2> QED BY <2>1, <2>2, <2>3
<1>7. ASSUME InstallEnds PROVE Kept
  <2>1. CheckoutTypeOK'
    BY <1>1, <1>6, <1>7 DEF InstallEnds, CheckoutTypeOK, facts
  <2> QED BY <1>6, <1>7, <2>1 DEF InstallEnds
<1>8. ASSUME KillInstall PROVE Kept
  <2>1. file' \in Content
    BY <1>8, KillLeaves, UnsealedType
  <2>2. CheckoutTypeOK'
    BY <1>1, <1>6, <1>8, <2>1, FaultKeeps DEF KillInstall, CheckoutTypeOK, facts
  <2> QED BY <1>6, <1>8, <2>2 DEF KillInstall
<1>9. ASSUME UNCHANGED <<writes, update, created>>, wanted' \in Content,
             \A d \in Commands \ {"resolve"} : d \in running' <=> d \in running
      PROVE  Rest /\ InstallHolds' /\ (resolved' \in Locks \cup {"none"} => InstallerTypeOK')
  <2>1. KitMayBeWritten'
    BY <1>1, <1>9 DEF InstallHolds, KitMayBeWritten
  <2>2. InstallHolds'
    BY <1>1, <1>2, <1>9, <2>1 DEF InstallHolds
  <2> QED BY <1>1, <1>9, <2>2 DEF InstallerTypeOK
<1>10. ASSUME StartResolve PROVE Kept
  <2>1. resolved' \in Locks
    BY <1>10, LockForType DEF StartResolve, CurrentLock
  <2>2. running' \subseteq offered' /\ Alone'
        /\ \A d \in Commands \ {"resolve"} : d \in running' <=> d \in running
    BY <1>2, <1>10, BeginKeeps DEF StartResolve
  <2>3. CheckoutTypeOK'
    BY <1>1, <1>10, <2>2 DEF StartResolve, CheckoutTypeOK, facts
  <2>4. wanted' \in Content /\ UNCHANGED <<writes, update, created>>
    BY <1>1, <1>10 DEF StartResolve, installVars, InstallerTypeOK
  <2> QED BY <1>9, <1>10, <2>1, <2>2, <2>3, <2>4 DEF StartResolve, ResolveHolds
<1>11. ASSUME WriteLock PROVE Kept
  <2>1. file' \in Content /\ wanted' \in Content /\ UNCHANGED <<writes, update, created>>
    BY <1>1, <1>11, LockBecomesKeeps DEF WriteLock, ResolveHolds
  <2>2. running' \subseteq offered' /\ Alone'
        /\ \A d \in Commands \ {"resolve"} : d \in running' <=> d \in running
    BY <1>2, <1>11, FinishKeeps DEF WriteLock
  <2>3. CheckoutTypeOK'
    BY <1>1, <1>11, <2>1, <2>2 DEF WriteLock, CheckoutTypeOK, facts
  <2> QED BY <1>9, <1>11, <2>1, <2>2, <2>3 DEF WriteLock, ResolveHolds, Finish
<1>12. ASSUME KillResolve PROVE Kept
  <2>1. file' \in Content /\ wanted' \in Content /\ UNCHANGED <<writes, update, created>>
    <3>1. CASE LockBecomes("torn")
      BY <3>1, LockBecomesKeeps
    <3>2. CASE UNCHANGED <<file, installVars>>
      BY <1>1, <3>2 DEF CheckoutTypeOK, InstallerTypeOK, installVars
    <3> QED BY <1>12, <3>1, <3>2 DEF KillResolve
  <2>2. running' \subseteq offered' /\ Alone'
        /\ \A d \in Commands \ {"resolve"} : d \in running' <=> d \in running
    BY <1>2, <1>12, FinishKeeps DEF KillResolve
  <2>3. CheckoutTypeOK'
    BY <1>1, <1>12, <2>1, <2>2, FaultKeeps DEF KillResolve, CheckoutTypeOK, facts
  <2> QED BY <1>9, <1>12, <2>1, <2>2, <2>3 DEF KillResolve, ResolveHolds, Finish
<1>13. Kept
  <2> HIDE DEF Kept
  <2> QED BY <1>4, <1>5, <1>7, <1>8, <1>10, <1>11, <1>12 DEF InstallerNext
<1>14. /\ \A d \in Syncs : d \in running' <=> d \in running
       /\ "canary" \in running' <=> "canary" \in running
       /\ "gate" \in running' <=> "gate" \in running
  BY <1>13 DEF Commands, Syncs
<1>15. IssueSyncTypeOK' /\ SyncHolds' /\ CanaryTypeOK' /\ CanaryHolds'
       /\ PhaseGateTypeOK' /\ GateHolds'
  BY <1>14, SyncsKeep, CanaryKeeps, GateKeeps
<1> QED BY <1>13, <1>15 DEF CommandsInv, SetupTypeOK

\* A plan has an entry for each ticket that differs.
LEMMA PlannedType ==
  ASSUME CommandsInv, NEW p, \A t \in Tickets : ~Doubled(t)
  PROVE  Planned(p) \in Seq(Entry)
<1> DEFINE s == Outdated(p)
<1>1. s \in Seq(Tickets)
  BY OutdatedType
<1>2. DOMAIN s = 1 .. Len(s) /\ Len(s) \in Nat /\ \A i \in DOMAIN s : s[i] \in Tickets
  BY <1>1, LenProperties, ElementOfSeq
<1>3. \A t \in Tickets : Len(issues[t]) \in 0 .. 1
  <2>1. ASSUME NEW t \in Tickets
        PROVE  Len(issues[t]) \in 0 .. 1
    <3>1. issues[t] \in Seq({ByHand} \cup Versions)
      BY DEF CommandsInv, SetupTypeOK, IssueSyncTypeOK
    <3>2. Len(issues[t]) \in Nat /\ ~ (Len(issues[t]) > 1)
      BY <3>1, LenProperties DEF Doubled
    <3> DEFINE n == Len(issues[t])
    <3>3. n \in Nat /\ ~ (n > 1)
      BY <3>2
    <3> HIDE DEF n
    <3>4. n \in 0 .. 1
      BY <3>3
    <3> QED BY <3>4 DEF n
  <2> QED BY <2>1
<1> HIDE DEF s
<1> DEFINE q == [i \in 1 .. Len(s) |-> [ticket |-> s[i], number |-> Len(issues[s[i]])]]
<1>4. q = Planned(p)
  BY <1>2 DEF Planned, s
<1>5. \A i \in 1 .. Len(s) : q[i] \in Entry
  BY <1>2, <1>3 DEF Entry
<1>6. q \in Seq(Entry)
  <2> DEFINE n == Len(s)
  <2>1. q \in [1 .. n -> Entry] /\ n \in Nat
    BY <1>2, <1>5
  <2> HIDE DEF q, n
  <2> QED BY <2>1, IsASeq
<1> QED BY <1>4, <1>6

LEMMA WrittenType ==
  ASSUME CommandsInv, NEW p \in Syncs, sync[p].queue # << >>
  PROVE  Written(p) \in [Tickets -> Seq({ByHand} \cup Versions)]
<1> DEFINE V == {ByHand} \cup Versions
           e == Head(sync[p].queue)
           v == sync[p].read[e.ticket]
<1>1. sync[p] \in SyncRun /\ issues \in [Tickets -> Seq(V)]
  BY DEF CommandsInv, SetupTypeOK, IssueSyncTypeOK
<1>2. sync[p].queue \in Seq(Entry) /\ sync[p].read \in [Tickets -> Versions]
  BY <1>1 DEF SyncRun
<1>3. e \in Entry
  BY <1>2, HeadTailProperties
<1>4. e.ticket \in Tickets /\ e.number \in 0 .. 1
  BY <1>3 DEF Entry
<1>5. v \in V
  BY <1>2, <1>4
<1> DEFINE s == issues[e.ticket]
<1>6. s \in Seq(V)
  BY <1>1, <1>4
<1> HIDE DEF V
<1>7. Append(s, v) \in Seq(V)
  <2> HIDE DEF s, v
  <2> QED BY <1>5, <1>6, AppendProperties
<1>8. [s EXCEPT ![e.number] = v] \in Seq(V)
  <2> HIDE DEF s, v, e
  <2>1. CASE e.number \in 1 .. Len(s)
    BY <1>5, <1>6, <2>1, ExceptSeq
  <2>2. CASE e.number \notin 1 .. Len(s)
    <3>1. e.number \notin DOMAIN s
      BY <1>6, <2>2, LenProperties
    <3>2. [s EXCEPT ![e.number] = v] = s
      BY <1>6, <3>1, LenProperties
    <3> QED BY <1>6, <3>2
  <2> QED BY <2>1, <2>2
<1> HIDE DEF e, v
<1>9. Written(p) = [issues EXCEPT ![e.ticket] =
                      IF e.number = 0 THEN Append(s, v) ELSE [s EXCEPT ![e.number] = v]]
  BY DEF Written, e, v
<1> DEFINE w == IF e.number = 0 THEN Append(s, v) ELSE [s EXCEPT ![e.number] = v]
<1>10. w \in Seq(V)
  BY <1>7, <1>8
<1> HIDE DEF w
<1>11. [issues EXCEPT ![e.ticket] = w] \in [Tickets -> Seq(V)]
  BY <1>1, <1>10
<1>12. Written(p) = [issues EXCEPT ![e.ticket] = w]
  BY <1>9 DEF w
<1> QED BY <1>11, <1>12 DEF V

\* What a run of the sync may become.
LEMMA SyncRunType ==
  ASSUME NEW r \in SyncRun
  PROVE  /\ \A c \in {"idle", "list", "write"}, q \in Seq(Entry) :
              [r EXCEPT !.pc = c, !.queue = q] \in SyncRun
         /\ \A f \in BOOLEAN : r.queue # << >> =>
              [r EXCEPT !.queue = Tail(@), !.failed = @ \/ f] \in SyncRun
         /\ \A v \in [Tickets -> Versions] :
              [SyncIdle EXCEPT !.pc = "list", !.read = v] \in SyncRun
         /\ SyncIdle \in SyncRun
<1>1. SyncIdle \in SyncRun
  <2>1. 1 \in Versions
    BY IssueSyncAssumption DEF Versions
  <2> QED BY <2>1 DEF SyncIdle, SyncRun
<1>2. \A c \in {"idle", "list", "write"}, q \in Seq(Entry) :
        [r EXCEPT !.pc = c, !.queue = q] \in SyncRun
  BY DEF SyncRun
<1>3. ASSUME NEW f \in BOOLEAN, r.queue # << >>
      PROVE  [r EXCEPT !.queue = Tail(@), !.failed = @ \/ f] \in SyncRun
  <2>1. r.queue \in Seq(Entry)
    BY DEF SyncRun
  <2>2. Tail(r.queue) \in Seq(Entry)
    BY <1>3, <2>1, HeadTailProperties
  <2>3. (r.failed \/ f) \in BOOLEAN
    OBVIOUS
  <2> QED BY <2>2, <2>3 DEF SyncRun
<1>4. \A v \in [Tickets -> Versions] :
        [SyncIdle EXCEPT !.pc = "list", !.read = v] \in SyncRun
  BY <1>1 DEF SyncRun
<1> QED BY <1>1, <1>2, <1>3, <1>4

LEMMA SyncKeepsTypes ==
  ASSUME CommandsInv, IssueSyncNext, UNCHANGED <<installVars, resolved, canaryVars, gate>>
  PROVE  CommandsInv'
<1> DEFINE Rest == \A d \in Commands \ Syncs : d \in running' <=> d \in running
           Kept == CheckoutTypeOK' /\ IssueSyncTypeOK' /\ Alone' /\ SyncHolds' /\ Rest
<1>1. CheckoutTypeOK /\ IssueSyncTypeOK /\ SyncHolds
  BY DEF CommandsInv, SetupTypeOK
<1>2. Syncs \subseteq Commands
  BY DEF Syncs, Commands
<1>3. \A p \in Syncs : sync[p] \in SyncRun
  BY <1>1 DEF IssueSyncTypeOK
<1>4. << >> \in Seq(Entry) /\ {"idle", "list", "write"} # {}
  OBVIOUS
\* A run is set to a value that fits where it stands.
<1>5. ASSUME NEW p \in Syncs, NEW r \in SyncRun, sync' = [sync EXCEPT ![p] = r],
             p \notin running' => r.pc = "idle" /\ r.queue = << >>,
             r.pc = "list" => r.queue = << >>,
             \A d \in Commands \ {p} : d \in running' <=> d \in running
      PROVE  sync' \in [Syncs -> SyncRun] /\ SyncHolds' /\ Rest
  <2>1. sync \in [Syncs -> SyncRun]
    BY <1>1 DEF IssueSyncTypeOK
  <2>2. sync' \in [Syncs -> SyncRun] /\ sync'[p] = r
        /\ \A q \in Syncs \ {p} : sync'[q] = sync[q]
    BY <1>5, <2>1
  <2> QED BY <1>1, <1>2, <1>5, <2>2 DEF SyncHolds
<1>6. ASSUME NEW p \in Syncs, NEW code, End(p, code), UNCHANGED offered
      PROVE  /\ sync' \in [Syncs -> SyncRun] /\ SyncHolds' /\ Rest
             /\ told' \in BOOLEAN /\ running' \subseteq offered' /\ Alone'
  <2>1. running' \subseteq offered' /\ Alone'
        /\ \A d \in Commands \ {p} : d \in running' <=> d \in running
    BY <1>2, <1>6, FinishKeeps DEF End
  <2>2. sync' = [sync EXCEPT ![p] = SyncIdle] /\ SyncIdle \in SyncRun
    BY <1>3, <1>6, SyncRunType DEF End
  <2>3. SyncIdle.pc = "idle" /\ SyncIdle.queue = << >>
    BY DEF SyncIdle
  <2>4. told' \in BOOLEAN
    BY <1>1, <1>6 DEF End, IssueSyncTypeOK
  <2> QED BY <1>5, <2>1, <2>2, <2>3, <2>4
<1>7. ASSUME NEW p \in Syncs, StartSync(p)
      PROVE  Kept
  <2> DEFINE r == [SyncIdle EXCEPT !.pc = "list", !.read = ticket]
  <2>1. running' \subseteq offered' /\ Alone' /\ p \in running'
        /\ \A d \in Commands \ {p} : d \in running' <=> d \in running
    BY <1>2, <1>7, BeginKeeps DEF StartSync, Begin
  <2>2. r \in SyncRun
    BY <1>1, <1>3, SyncRunType DEF IssueSyncTypeOK
  <2>3. r.pc = "list" /\ r.queue = << >>
    BY DEF SyncIdle
  <2>4. sync' = [sync EXCEPT ![p] = r]
    BY <1>7 DEF StartSync
  <2> HIDE DEF r
  <2>5. sync' \in [Syncs -> SyncRun] /\ SyncHolds' /\ Rest
    BY <1>5, <2>1, <2>2, <2>3, <2>4
  <2>6. overlapped' \in BOOLEAN
    BY <1>7 DEF StartSync
  <2>7. CheckoutTypeOK'
    BY <1>1, <1>7, <2>1 DEF StartSync, CheckoutTypeOK, facts
  <2> QED BY <1>1, <1>7, <2>1, <2>5, <2>6, <2>7 DEF StartSync, IssueSyncTypeOK
<1>8. ASSUME NEW p \in Syncs, ListIssues(p)
      PROVE  Kept
  <2>1. CASE \E t \in Tickets : Doubled(t)
    <3>1. End(p, "2") /\ UNCHANGED <<facts, config, file, offered, edits, faults,
                                     ticket, issues, overlapped>>
      BY <1>8, <2>1 DEF ListIssues
    <3> QED BY <1>1, <1>6, <3>1 DEF CheckoutTypeOK, IssueSyncTypeOK, facts
  <2>2. CASE \A t \in Tickets : ~Doubled(t)
    <3> DEFINE r == [sync[p] EXCEPT !.pc = "write", !.queue = Planned(p)]
    <3>1. UNCHANGED <<facts, config, file, offered, running, edits, faults,
                      ticket, issues, overlapped, told>>
      BY <1>8, <2>2 DEF ListIssues
    <3>2. sync' = [sync EXCEPT ![p] = r]
      BY <1>8, <2>2 DEF ListIssues
    <3>3. r \in SyncRun
      BY <1>3, <2>2, PlannedType, SyncRunType
    <3>4. r.pc = "write"
      BY <1>3 DEF SyncRun
    <3>5. p \in running
      BY <1>1, <1>8 DEF ListIssues, SyncHolds
    <3> HIDE DEF r
    <3>6. sync' \in [Syncs -> SyncRun] /\ SyncHolds' /\ Rest
      BY <1>5, <3>1, <3>2, <3>3, <3>4, <3>5
    <3> QED BY <1>1, <3>1, <3>6, RunningStays DEF CheckoutTypeOK, IssueSyncTypeOK, facts
  <2> QED BY <2>1, <2>2
<1>9. ASSUME NEW p \in Syncs, NEW f \in BOOLEAN, sync[p].queue # << >>, Wrote(p, f),
             UNCHANGED running
      PROVE  sync' \in [Syncs -> SyncRun] /\ SyncHolds' /\ Rest
  <2> DEFINE r == [sync[p] EXCEPT !.queue = Tail(@), !.failed = @ \/ f]
  <2>1. sync' = [sync EXCEPT ![p] = r]
    BY <1>9 DEF Wrote
  <2>2. r \in SyncRun
    BY <1>3, <1>9, SyncRunType
  <2>3. r.pc = sync[p].pc
    BY <1>3 DEF SyncRun
  <2>4. p \in running /\ sync[p].pc # "list"
    BY <1>1, <1>9 DEF SyncHolds
  <2> HIDE DEF r
  <2> QED BY <1>5, <1>9, <2>1, <2>2, <2>3, <2>4
<1>10. ASSUME NEW p \in Syncs, WriteIssue(p)
       PROVE  Kept
  <2>1. UNCHANGED <<facts, config, file, offered, running, edits, faults,
                    ticket, overlapped, told>>
    BY <1>10 DEF WriteIssue, checkoutVars
  <2>2. sync' \in [Syncs -> SyncRun] /\ SyncHolds' /\ Rest
    BY <1>9, <1>10, <2>1 DEF WriteIssue
  <2>3. issues' \in [Tickets -> Seq({ByHand} \cup Versions)]
    BY <1>10, WrittenType DEF WriteIssue
  <2> QED BY <1>1, <2>1, <2>2, <2>3, RunningStays DEF CheckoutTypeOK, IssueSyncTypeOK, facts
<1>11. ASSUME NEW p \in Syncs, WriteIssueFails(p)
       PROVE  Kept
  <2>1. UNCHANGED <<facts, config, file, offered, running, edits, ticket, overlapped, told>>
    BY <1>11 DEF WriteIssueFails
  <2>2. sync' \in [Syncs -> SyncRun] /\ SyncHolds' /\ Rest
    BY <1>9, <1>11, <2>1 DEF WriteIssueFails
  <2>3. issues' \in [Tickets -> Seq({ByHand} \cup Versions)]
    BY <1>1, <1>11, WrittenType DEF WriteIssueFails, IssueSyncTypeOK
  <2>4. faults' \in 0 .. MaxFaults
    BY <1>11, FaultKeeps DEF WriteIssueFails
  <2> QED BY <1>1, <2>1, <2>2, <2>3, <2>4, RunningStays
          DEF CheckoutTypeOK, IssueSyncTypeOK, facts
<1>12. ASSUME NEW p \in Syncs, RereadIssues(p) \/ ListFails(p) \/ KillSync(p)
       PROVE  Kept
  <2>1. /\ \E code : End(p, code)
        /\ UNCHANGED <<facts, config, file, offered, edits, ticket, issues, overlapped>>
        /\ faults' \in 0 .. MaxFaults
    BY <1>1, <1>12, FaultKeeps DEF RereadIssues, ListFails, KillSync, CheckoutTypeOK
  <2> QED BY <1>1, <1>6, <2>1 DEF CheckoutTypeOK, IssueSyncTypeOK, facts
<1>13. ASSUME NEW t \in Tickets, EditTicket(t) \/ EditIssue(t)
       PROVE  Kept
  <2>1. /\ UNCHANGED <<facts, config, file, offered, running, faults, sync, overlapped, told>>
        /\ edits' \in 0 .. MaxEdits
    BY <1>13, EditKeeps DEF EditTicket, EditIssue
  <2>2. ticket' \in [Tickets -> Versions]
    BY <1>1, <1>13, IssueSyncAssumption DEF EditTicket, EditIssue, IssueSyncTypeOK, Versions
  <2>3. issues' \in [Tickets -> Seq({ByHand} \cup Versions)]
    <3>1. CASE EditTicket(t)
      BY <1>1, <3>1 DEF EditTicket, IssueSyncTypeOK
    <3>2. CASE EditIssue(t)
      <4> DEFINE V == {ByHand} \cup Versions
                 s == issues[t]
      <4>1. issues \in [Tickets -> Seq(V)] /\ s \in Seq(V) /\ ByHand \in V
        BY <1>1 DEF IssueSyncTypeOK
      <4>2. 1 \in 1 .. Len(s)
        BY <3>2, <4>1, LenProperties, EmptySeq DEF EditIssue
      <4>3. issues' = [issues EXCEPT ![t] = [s EXCEPT ![1] = ByHand]]
        BY <3>2 DEF EditIssue
      <4> HIDE DEF V, s
      <4>4. [s EXCEPT ![1] = ByHand] \in Seq(V)
        BY <4>1, <4>2, ExceptSeq
      <4>5. issues' \in [Tickets -> Seq(V)]
        BY <4>1, <4>3, <4>4
      <4> QED BY <4>5 DEF V
    <3> QED BY <1>13, <3>1, <3>2
  <2>4. SyncHolds' /\ Rest
    BY <1>1, <2>1 DEF SyncHolds
  <2> QED BY <1>1, <2>1, <2>2, <2>3, <2>4, RunningStays
          DEF CheckoutTypeOK, IssueSyncTypeOK, facts
<1>14. Kept
  <2> HIDE DEF Kept
  <2> QED BY <1>7, <1>8, <1>10, <1>11, <1>12, <1>13 DEF IssueSyncNext, SyncStep
<1>15. \A d \in {"install", "resolve", "canary", "gate"} : d \in running' <=> d \in running
  BY <1>14 DEF Commands, Syncs
<1>16. InstallerTypeOK' /\ InstallHolds' /\ ResolveHolds' /\ CanaryTypeOK' /\ CanaryHolds'
       /\ PhaseGateTypeOK' /\ GateHolds'
  BY <1>15, InstallersKeep, CanaryKeeps, GateKeeps
<1> QED BY <1>14, <1>16 DEF CommandsInv, SetupTypeOK

-----------------------------------------------------------------------------
\* The canary and the gate.

LEMMA FlowType ==
  ASSUME NEW m \in Visibilities
  PROVE  /\ FlowOf(m) \in Seq(StepsOf(m))
         /\ \A i \in DOMAIN FlowOf(m) : FlowOf(m)[i] # "teardown"
<1>1. {FlowOf(m)[i] : i \in DOMAIN FlowOf(m)} = StepsOf(m) \ {"teardown"}
  BY CanaryAssumption
<1> DEFINE f == FlowOf(m)
<1>2. \E s : f \in Seq(s)
  <2> DEFINE All == PublicSteps \cup PrivateSteps
  <2>1. \A a, b : a \in Seq(All) /\ b \in Seq(All) => a \o b \in Seq(All)
    BY ConcatProperties
  <2>2. /\ <<"worker_stub_pr">> \in Seq(All) /\ <<"ci_gate_green">> \in Seq(All)
        /\ <<"ci_failed_once", "repaired">> \in Seq(All)
        /\ <<"reviewer_pass", "stale_intent_rejected">> \in Seq(All)
    BY DEF PublicSteps, PrivateSteps
  <2>3. TicketOne("public") \in Seq(All) /\ TicketOne("private") \in Seq(All)
    BY <2>1, <2>2 DEF TicketOne
  <2>4. SecondTicket \in Seq(All)
    BY DEF SecondTicket, PublicSteps, PrivateSteps
  <2>5. PublicFlow \in Seq(All)
    <3>1. <<"repo_created", "actions_source_collected", "rulesets_active",
            "merge_settings_exact", "security_features_enabled", "issue_sync">> \in Seq(All)
      BY DEF PublicSteps, PrivateSteps
    <3>2. <<"direct_push_rejected", "merge_without_gate_rejected", "native_auto_merged",
            "post_merge_pass", "verified">> \in Seq(All)
      BY DEF PublicSteps, PrivateSteps
    <3>3. <<"revert_flow", "replay_idempotent", "oob_audit_clean">> \in Seq(All)
      BY DEF PublicSteps, PrivateSteps
    <3> QED BY <2>1, <2>3, <2>4, <3>1, <3>2, <3>3 DEF PublicFlow
  <2>6. PrivateFlow \in Seq(All)
    <3>1. <<"repo_created", "native_enforcement_absent_confirmed", "issue_sync">> \in Seq(All)
      BY DEF PublicSteps, PrivateSteps
    <3>2. <<"custom_exact_head_merge", "broker_marker_present", "post_merge_triggered",
            "verified">> \in Seq(All)
      BY DEF PublicSteps, PrivateSteps
    <3>3. <<"out_of_band_write_detected", "post_merge_failure_detected",
            "rollback_invalidation", "replay_idempotent">> \in Seq(All)
      BY DEF PublicSteps, PrivateSteps
    <3> QED BY <2>1, <2>3, <2>4, <3>1, <3>2, <3>3 DEF PrivateFlow
  <2> QED BY <2>5, <2>6 DEF FlowOf
<1> HIDE DEF f
<1>3. \A i \in DOMAIN f : f[i] \in StepsOf(m) \ {"teardown"}
  BY <1>1 DEF f
<1>4. f \in Seq(StepsOf(m))
  <2> DEFINE n == Len(f)
  <2>1. DOMAIN f = 1 .. n /\ n \in Nat
    BY <1>2, LenProperties
  <2>2. f = [i \in 1 .. n |-> f[i]]
    BY <1>2, <2>1
  <2>3. f \in [1 .. n -> StepsOf(m)]
    BY <1>3, <2>1, <2>2
  <2> HIDE DEF n
  <2> QED BY <2>1, <2>3, IsASeq
<1> QED BY <1>3, <1>4 DEF f

LEMMA CanaryKeepsTypes ==
  ASSUME CommandsInv, CanaryNext, UNCHANGED <<installVars, resolved, issueVars, gate>>
  PROVE  CommandsInv'
<1> DEFINE Rest == \A d \in Commands \ {"canary"} : d \in running' <=> d \in running
           Kept == CheckoutTypeOK' /\ CanaryTypeOK' /\ Alone' /\ CanaryHolds' /\ Rest
<1>1. CheckoutTypeOK /\ CanaryTypeOK /\ CanaryHolds /\ "canary" \in Commands
  BY DEF CommandsInv, SetupTypeOK, Commands
<1>2. ASSUME NEW m \in Visibilities, StartCanary(m)
      PROVE  Kept
  <2>1. running' \subseteq offered' /\ Alone' /\ Rest /\ "canary" \in running'
    BY <1>1, <1>2, BeginKeeps DEF StartCanary, Begin
  <2>2. CanaryTypeOK'
    BY <1>1, <1>2, FlowType DEF StartCanary, CanaryTypeOK
  <2> QED BY <1>1, <1>2, <2>1, <2>2 DEF StartCanary, CheckoutTypeOK, facts, CanaryHolds
<1>3. ASSUME UNCHANGED <<facts, config, file, offered, running, edits>>,
             stage # "idle", faults' \in 0 .. MaxFaults
      PROVE  CheckoutTypeOK' /\ Alone' /\ CanaryHolds' /\ Rest
  <2>1. "canary" \in running
    BY <1>1, <1>3 DEF CanaryHolds
  <2> QED BY <1>1, <1>3, <2>1, RunningStays DEF CheckoutTypeOK, facts, CanaryHolds
<1>4. faults \in 0 .. MaxFaults
  BY <1>1 DEF CheckoutTypeOK
<1>5. ASSUME Observe
      PROVE  Kept
  <2>1. Head(left) \in StepsOf(mode) /\ Tail(left) \in Seq(StepsOf(mode))
    BY <1>1, <1>5, HeadTailProperties DEF Observe, CanaryTypeOK
  <2>2. CanaryTypeOK'
    BY <1>1, <1>5, <2>1 DEF Observe, CanaryTypeOK
  <2> QED BY <1>3, <1>4, <1>5, <2>2 DEF Observe, checkoutVars
<1>6. ASSUME ExecuteEnds
      PROVE  Kept
  <2>1. CanaryTypeOK'
    BY <1>1, <1>6 DEF ExecuteEnds, CanaryTypeOK
  <2> QED BY <1>3, <1>4, <1>6, <2>1 DEF ExecuteEnds, checkoutVars
<1>7. ASSUME StepFails
      PROVE  Kept
  <2>1. CanaryTypeOK'
    BY <1>1, <1>7, EmptySeq DEF StepFails, CanaryTypeOK
  <2> QED BY <1>3, <1>7, <2>1, FaultKeeps DEF StepFails
<1>8. ASSUME Teardown
      PROVE  Kept
  <2>1. "teardown" \in StepsOf(mode)
    BY DEF StepsOf, PublicSteps, PrivateSteps
  <2>2. CanaryTypeOK'
    BY <1>1, <1>8, <2>1 DEF Teardown, CanaryTypeOK
  <2> QED BY <1>3, <1>4, <1>8, <2>2 DEF Teardown, checkoutVars
<1>9. ASSUME TeardownSkipped
      PROVE  Kept
  <2>1. CanaryTypeOK'
    BY <1>1, <1>9 DEF TeardownSkipped, CanaryTypeOK
  <2> QED BY <1>3, <1>4, <1>9, <2>1 DEF TeardownSkipped, checkoutVars
<1>10. ASSUME CanaryEnds, UNCHANGED <<facts, config, file, offered, edits, proven>>,
              faults' \in 0 .. MaxFaults,
              evidence' \in [Visibilities -> {"none", "torn", "partial", "complete"}]
       PROVE  Kept
  <2>1. running' \subseteq offered' /\ Alone' /\ Rest
    BY <1>1, <1>10, FinishKeeps DEF CanaryEnds
  <2>2. CanaryTypeOK'
    BY <1>1, <1>10, EmptySeq DEF CanaryEnds, CanaryTypeOK, Visibilities
  <2> QED BY <1>1, <1>10, <2>1, <2>2 DEF CanaryEnds, CheckoutTypeOK, facts, CanaryHolds
<1>11. ASSUME WriteEvidence
       PROVE  Kept
  <2>1. evidence' \in [Visibilities -> {"none", "torn", "partial", "complete"}]
    BY <1>1, <1>11 DEF WriteEvidence, CanaryTypeOK
  <2> QED BY <1>4, <1>10, <1>11, <2>1 DEF WriteEvidence
<1>12. ASSUME KillCanary
       PROVE  Kept
  <2>1. evidence' \in [Visibilities -> {"none", "torn", "partial", "complete"}]
    BY <1>1, <1>12 DEF KillCanary, CanaryTypeOK
  <2> QED BY <1>10, <1>12, <2>1, FaultKeeps DEF KillCanary
<1>13. Kept
  <2> HIDE DEF Kept
  <2> QED BY <1>2, <1>5, <1>6, <1>7, <1>8, <1>9, <1>11, <1>12 DEF CanaryNext, CanaryStep
<1>14. \A d \in {"install", "resolve", "sync", "second sync", "gate"} :
         d \in running' <=> d \in running
  BY <1>13 DEF Commands
<1>15. InstallerTypeOK' /\ InstallHolds' /\ ResolveHolds' /\ IssueSyncTypeOK' /\ SyncHolds'
       /\ PhaseGateTypeOK' /\ GateHolds'
  BY <1>14, InstallersKeep, SyncsKeep, GateKeeps DEF Syncs
<1> QED BY <1>13, <1>15 DEF CommandsInv, SetupTypeOK

GateState ==
  [pc : {"idle", "dev", "main", "issues", "verify", "level", "report"},
   online : BOOLEAN, passed : BOOLEAN, private : BOOLEAN,
   verified : Profiles \cup {"none"}, seen : SUBSET Branches, level : Levels]

LEMMA VerifiedLevelType ==
  ASSUME NEW d
  PROVE  VerifiedLevel(d) \in Levels
<1>1. EvidenceProfile(Chosen) \in Profiles
  BY DEF EvidenceProfile, Profiles
<1> QED BY <1>1 DEF VerifiedLevel, Levels

LEMMA GateKeepsTypes ==
  ASSUME CommandsInv, GateNext, UNCHANGED <<installVars, resolved, issueVars, canaryVars>>
  PROVE  CommandsInv'
<1> DEFINE Rest == \A d \in Commands \ {"gate"} : d \in running' <=> d \in running
           Kept == CheckoutTypeOK' /\ gate' \in GateState /\ Alone' /\ GateHolds' /\ Rest
<1>1. CheckoutTypeOK /\ gate \in GateState /\ GateHolds /\ "gate" \in Commands
  BY DEF CommandsInv, SetupTypeOK, PhaseGateTypeOK, GateState, Commands
<1>2. GateIdle \in GateState /\ GateIdle.pc = "idle" /\ GateIdle.level = "DESIGN_ONLY"
  BY DEF GateIdle, GateState, Levels
<1>3. faults \in 0 .. MaxFaults
  BY <1>1 DEF CheckoutTypeOK
<1>4. ASSUME UNCHANGED <<facts, config, file, offered, running, edits>>,
             gate.pc # "idle", faults' \in 0 .. MaxFaults
      PROVE  CheckoutTypeOK' /\ Alone' /\ GateHolds' /\ Rest
  <2>1. "gate" \in running
    BY <1>1, <1>4 DEF GateHolds
  <2> QED BY <1>1, <1>4, <2>1, RunningStays DEF CheckoutTypeOK, facts, GateHolds
<1>5. ASSUME NEW online \in BOOLEAN, StartGate(online)
      PROVE  Kept
  <2>1. running' \subseteq offered' /\ Alone' /\ Rest /\ "gate" \in running'
    BY <1>1, <1>5, BeginKeeps DEF StartGate, Begin
  <2>2. PICK passed \in BOOLEAN :
          gate' = [GateIdle EXCEPT
                     !.pc = IF online THEN "dev" ELSE "level",
                     !.online = online, !.passed = passed,
                     !.private = (file.lock \in PrivateLocks)]
    <3>1. ContractHolds \in BOOLEAN /\ ContractMayHold \in BOOLEAN
      BY DEF ContractHolds, ContractMayHold
    <3> QED BY <1>5, <3>1 DEF StartGate
  <2>3. gate' \in GateState
    <3>1. (IF online THEN "dev" ELSE "level") \in {"dev", "level"}
      OBVIOUS
    <3>2. (file.lock \in PrivateLocks) \in BOOLEAN
      OBVIOUS
    <3> QED BY <1>2, <2>2, <3>1, <3>2 DEF GateState
  <2>4. CheckoutTypeOK'
    BY <1>1, <1>5, <2>1 DEF StartGate, CheckoutTypeOK, facts
  <2> QED BY <2>1, <2>3, <2>4 DEF GateHolds
<1>6. \A pc \in {"dev", "main", "issues", "verify"} :
        NextCheck(pc) \in {"main", "issues", "verify", "level"}
  BY DEF NextCheck
<1>7. ASSUME NEW next \in {"main", "issues", "verify", "level"}, NEW ok \in BOOLEAN, Check(next, ok)
      PROVE  gate' \in GateState
  BY <1>1, <1>7 DEF Check, GateState
<1>8. ASSUME NEW b \in Branches, CheckBranch(b)
      PROVE  Kept
  <2>1. gate.pc \in {"dev", "main"}
    BY <1>8 DEF CheckBranch, Branches
  <2>2. (gate.passed /\ (gate.private \/ Guarded(b))) \in BOOLEAN
    OBVIOUS
  <2> DEFINE n == NextCheck(b)
             ok == gate.passed /\ (gate.private \/ Guarded(b))
             s == IF ~gate.private /\ Guarded(b) THEN gate.seen \cup {b} ELSE gate.seen
  <2>3. gate' = [gate EXCEPT !.pc = n, !.passed = ok, !.seen = s]
    BY <1>8 DEF CheckBranch
  <2>4. n \in {"main", "issues", "verify", "level"} /\ s \in SUBSET Branches /\ ok \in BOOLEAN
    BY <1>1, <1>6, <1>8, <2>1, <2>2 DEF CheckBranch, GateState
  <2> HIDE DEF n, s, ok
  <2>5. gate' \in GateState
    BY <1>1, <2>3, <2>4 DEF GateState
  <2> QED BY <1>3, <1>4, <1>8, <2>1, <2>5 DEF CheckBranch, checkoutVars
<1>9. ASSUME CheckIssues
      PROVE  Kept
  <2>1. PICK ok \in BOOLEAN : Check("verify", ok)
    <3>1. /\ (\A t \in Tickets : issues[t] # << >>) \in BOOLEAN
          /\ (\E t \in Tickets : issues[t] # << >>) \in BOOLEAN
      OBVIOUS
    <3> QED BY <1>9, <3>1 DEF CheckIssues
  <2>2. gate' \in GateState
    BY <1>7, <2>1
  <2> QED BY <1>3, <1>4, <1>9, <2>2 DEF CheckIssues, checkoutVars
<1>10. ASSUME Verify
       PROVE  Kept
  <2> DEFINE v == IF file.lock = CurrentLock THEN ProfileOf(file.lock) ELSE "none"
             ok == gate.passed /\ file.lock = CurrentLock
  <2>1. gate' = [gate EXCEPT !.pc = "level", !.passed = ok, !.verified = v]
    BY <1>10 DEF Verify
  <2>2. v \in Profiles \cup {"none"} /\ ok \in BOOLEAN
    BY LockForType, ProfileOfLock DEF CurrentLock
  <2> HIDE DEF v, ok
  <2>3. gate' \in GateState
    BY <1>1, <2>1, <2>2 DEF GateState
  <2> QED BY <1>3, <1>4, <1>10, <2>3 DEF Verify, checkoutVars
<1>11. ASSUME RemoteCallFails
       PROVE  Kept
  <2>1. gate' \in GateState
    BY <1>6, <1>7, <1>11 DEF RemoteCallFails
  <2> QED BY <1>4, <1>11, <2>1, FaultKeeps DEF RemoteCallFails
<1>12. ASSUME Report
       PROVE  Kept
  <2>1. PICK l \in Levels : gate' = [gate EXCEPT !.pc = "report", !.level = l]
    <3>1. PICK d \in DogfoodEvidence :
            gate' = [gate EXCEPT !.pc = "report",
                       !.level = IF ~gate.passed THEN "DESIGN_ONLY"
                                 ELSE IF ~gate.online THEN "LOCAL_VERIFIED"
                                 ELSE VerifiedLevel(d)]
      BY <1>12 DEF Report
    <3> DEFINE l == IF ~gate.passed THEN "DESIGN_ONLY"
                    ELSE IF ~gate.online THEN "LOCAL_VERIFIED"
                    ELSE VerifiedLevel(d)
    <3>2. VerifiedLevel(d) \in Levels /\ "DESIGN_ONLY" \in Levels /\ "LOCAL_VERIFIED" \in Levels
      BY VerifiedLevelType DEF Levels
    <3>3. l \in Levels
      BY <1>1, <3>2 DEF GateState
    <3> HIDE DEF l
    <3>4. gate' = [gate EXCEPT !.pc = "report", !.level = l]
      BY <3>1 DEF l
    <3> QED BY <3>3, <3>4
  <2>2. gate' \in GateState
    BY <1>1, <2>1 DEF GateState
  <2> QED BY <1>3, <1>4, <1>12, <2>2 DEF Report, checkoutVars
<1>13. ASSUME GateEnds
       PROVE  Kept
  <2>1. running' \subseteq offered' /\ Alone' /\ Rest
    BY <1>1, <1>13, FinishKeeps DEF GateEnds
  <2> QED BY <1>1, <1>2, <1>13, <2>1 DEF GateEnds, CheckoutTypeOK, facts, GateHolds
<1>14. Kept
  <2> HIDE DEF Kept
  <2> QED BY <1>5, <1>8, <1>9, <1>10, <1>11, <1>12, <1>13 DEF GateNext, GateStep
<1>15. PhaseGateTypeOK'
  BY <1>14 DEF PhaseGateTypeOK, GateState
<1>16. \A d \in {"install", "resolve", "sync", "second sync", "canary"} :
         d \in running' <=> d \in running
  BY <1>14 DEF Commands
<1>17. InstallerTypeOK' /\ InstallHolds' /\ ResolveHolds' /\ IssueSyncTypeOK' /\ SyncHolds'
       /\ CanaryTypeOK' /\ CanaryHolds'
  BY <1>16, InstallersKeep, SyncsKeep, CanaryKeeps DEF Syncs
<1> QED BY <1>14, <1>15, <1>17 DEF CommandsInv, SetupTypeOK

-----------------------------------------------------------------------------
LEMMA CheckoutBegins ==
  ASSUME NEW owner \in OwnerTypes, NEW v \in Visibilities, NEW commands \in SUBSET Commands,
         CheckoutFrom(owner, v, commands), ToolsAtRest
  PROVE  CommandsInv
<1>1. config \in Locks
  BY LockForType DEF CheckoutFrom, CurrentLock
<1>2. file \in Content
  BY <1>1, NothingInstalledType, VisibilityOfType DEF CheckoutFrom, Content, Installed
<1>3. CheckoutTypeOK
  BY <1>1, <1>2, CheckoutAssumption DEF CheckoutFrom, CheckoutTypeOK
<1>4. InstallerTypeOK
  <2>1. << >> \in Seq(Files) /\ Len(<< >>) <= Cardinality(Files)
    BY FilesFinite
  <2> QED BY <2>1, NothingInstalledType DEF ToolsAtRest, InstallerInit, InstallerTypeOK
<1>5. InstallHolds /\ ResolveHolds /\ Alone
  <2>1. DOMAIN writes = {}
    BY DEF ToolsAtRest, InstallerInit
  <2>2. KitMayBeWritten
    BY <2>1 DEF KitMayBeWritten
  <2> QED BY <2>2 DEF CheckoutFrom, ToolsAtRest, InstallerInit, InstallHolds, ResolveHolds, Alone
<1>6. IssueSyncTypeOK
  <2>1. 1 \in Versions
    BY IssueSyncAssumption DEF Versions
  <2>2. SyncIdle \in SyncRun
    BY <2>1 DEF SyncIdle, SyncRun
  <2>3. <<1>> \in Seq({ByHand} \cup Versions) /\ << >> \in Seq({ByHand} \cup Versions)
    BY <2>1
  <2>4. issues \in [Tickets -> Seq({ByHand} \cup Versions)]
    BY <2>3 DEF ToolsAtRest, IssueSyncInit
  <2> QED BY <2>1, <2>2, <2>4 DEF ToolsAtRest, IssueSyncInit, IssueSyncTypeOK
<1>7. SyncHolds
  BY DEF ToolsAtRest, IssueSyncInit, SyncHolds, SyncIdle
<1>8. CanaryTypeOK /\ CanaryHolds
  BY EmptySeq DEF ToolsAtRest, CanaryInit, CanaryTypeOK, CanaryHolds, Visibilities
<1>9. PhaseGateTypeOK /\ GateHolds
  BY DEF ToolsAtRest, PhaseGateInit, PhaseGateTypeOK, GateHolds, GateIdle, Levels
<1> QED BY <1>3, <1>4, <1>5, <1>6, <1>7, <1>8, <1>9 DEF CommandsInv, SetupTypeOK

\* Whatever part a behaviour is about, the commands begin at rest.
LEMMA CommandsBegin ==
  ASSUME Init
  PROVE  /\ CommandsInv
         /\ \E owner \in OwnerTypes, v \in Visibilities, commands \in SUBSET Commands :
              CheckoutFrom(owner, v, commands)
         /\ ToolsAtRest
<1>1. CASE SetupInit
  <2>1. PICK offer \in Offers, v \in Visibilities : CheckoutFrom(offer[1], v, offer[2])
    BY <1>1 DEF SetupInit, CheckoutInit
  <2>2. offer[1] \in OwnerTypes /\ offer[2] \in SUBSET Commands
    BY CheckoutAssumption
  <2> QED BY <1>1, <2>1, <2>2, CheckoutBegins DEF SetupInit
<1>2. CASE SetupRests
  <2>1. "User" \in OwnerTypes /\ "public" \in Visibilities /\ {} \in SUBSET Commands
    BY DEF OwnerTypes, Visibilities
  <2> QED BY <1>2, <2>1, CheckoutBegins DEF SetupRests
<1> QED BY <1>1, <1>2 DEF Init

LEMMA CommandsStep ==
  ASSUME CommandsInv, [Next]_kitVars
  PROVE  CommandsInv'
<1>1. CASE UNCHANGED setupVars
  <2>1. UNCHANGED <<facts, config, file, offered, running, edits, faults, installVars,
                    resolved, issueVars, canaryVars, gate>>
    BY <1>1 DEF setupVars, checkoutVars
  <2>2. CheckoutTypeOK'
    BY <2>1 DEF CommandsInv, SetupTypeOK, CheckoutTypeOK, facts
  <2> QED BY <2>1, <2>2, RunningStays, InstallersKeep, SyncsKeep, CanaryKeeps, GateKeeps
          DEF CommandsInv, SetupTypeOK
<1>2. CASE SetupNext
  BY <1>2, PeopleKeepTypes, InstallerKeepsTypes, SyncKeepsTypes, CanaryKeepsTypes,
     GateKeepsTypes DEF SetupNext
<1> QED BY <1>1, <1>2 DEF Next, kitVars

LEMMA CommandsKeepTypes == Spec => []CommandsInv
<1>1. Init => CommandsInv
  BY CommandsBegin
<1>2. CommandsInv /\ [Next]_kitVars => CommandsInv'
  BY CommandsStep
<1> QED BY <1>1, <1>2, PTL DEF Spec

-----------------------------------------------------------------------------
(***************************************************************************)
(* Without --update the installer replaces what the owner wrote only in a  *)
(* file that it did not find when it made its plan                         *)
(* (install-governance.py:329-358).                                        *)
(***************************************************************************)
THEOREM OwnersWorkStays == Spec => OwnersWorkIsKept
<1> DEFINE Replaced == file.kit = "own" /\ file'.kit # "own"
           Allowed == update \/ "kit" \in created
<1>1. ASSUME CommandsInv, [Next]_kitVars
      PROVE  [Replaced => Allowed]_setupVars
  <2> SUFFICES ASSUME SetupNext, Replaced PROVE Allowed
    BY <1>1 DEF Next, kitVars
  <2>1. file \in Content /\ wanted \in Content
    BY <1>1 DEF CommandsInv, SetupTypeOK, CheckoutTypeOK, InstallerTypeOK
  <2>2. ASSUME NEW v \in Content, writes # << >>,
               NEW after, after = [file EXCEPT ![Head(writes)] = v[Head(writes)]],
               file'.kit = after.kit
        PROVE  Allowed
    <3>1. Head(writes) = "kit" => Allowed
      BY <1>1, <2>2, WriteKeeps
    <3>2. Head(writes) # "kit" => file'.kit = file.kit
      BY <1>1, <2>2, WriteKeeps
    <3> HIDE DEF Allowed
    <3> QED BY <2>2, <3>1, <3>2
  <2> HIDE DEF Allowed
  <2>3. CASE People
    <3>1. file'.kit \in {file.kit, "own"}
      BY <2>1, <2>3 DEF People, ChangeVisibility, Reconfigure, EditKit, Unprotect, Protect, Content
    <3> QED BY <3>1
  <2>4. CASE WriteFile
    BY <2>1, <2>2, <2>4 DEF WriteFile
  <2>5. CASE KillInstall
    <3>1. PICK v \in Content, after \in Content :
            /\ after = [file EXCEPT ![Head(writes)] = v[Head(writes)]]
            /\ file' \in {after, Unsealed(after)}
      BY <1>1, <2>5, KillLeaves
    <3>2. file'.kit = after.kit
      BY <3>1, UnsealedType
    <3> QED BY <2>2, <2>5, <3>1, <3>2 DEF KillInstall
  <2>6. CASE WriteLock \/ KillResolve
    <3>1. file'.kit = file.kit
      <4>1. resolved \in Locks \/ ~WriteLock
        BY <1>1 DEF CommandsInv, ResolveHolds, WriteLock
      <4> QED BY <1>1, <2>6, <4>1, LockBecomesKeeps DEF WriteLock, KillResolve
    <3> QED BY <3>1
  <2>7. CASE UNCHANGED file
    BY <2>7
  <2>8. InstallerNext => \/ WriteFile \/ KillInstall \/ WriteLock \/ KillResolve
                         \/ UNCHANGED file
    BY DEF InstallerNext, StartInstall, InstallEnds, StartResolve
  <2>9. IssueSyncNext => UNCHANGED file
    BY DEF IssueSyncNext, StartSync, SyncStep, ListIssues, WriteIssue, WriteIssueFails,
           RereadIssues, ListFails, KillSync, EditTicket, EditIssue, checkoutVars
  <2>10. CanaryNext => UNCHANGED file
    BY DEF CanaryNext, StartCanary, CanaryStep, Observe, ExecuteEnds, StepFails, Teardown,
           TeardownSkipped, WriteEvidence, KillCanary, checkoutVars
  <2>11. GateNext => UNCHANGED file
    BY DEF GateNext, StartGate, GateStep, CheckBranch, CheckIssues, Verify,
           RemoteCallFails, Report, GateEnds, checkoutVars
  <2> QED BY <2>3, <2>4, <2>5, <2>6, <2>7, <2>8, <2>9, <2>10, <2>11 DEF SetupNext
<1> QED BY <1>1, CommandsKeepTypes, PTL DEF Spec, OwnersWorkIsKept

-----------------------------------------------------------------------------
\* Issues and syncs.

LEMMA OthersLeaveSyncs ==
  ASSUME People \/ InstallerNext \/ CanaryNext \/ GateNext
  PROVE  \A p \in Syncs : p \in running' <=> p \in running
<1>1. ASSUME NEW c \in {"install", "resolve", "canary", "gate"}, Begin(c) \/ Finish(c)
      PROVE  \A p \in Syncs : p \in running' <=> p \in running
  BY <1>1 DEF Begin, Finish, Syncs
<1>2. CASE UNCHANGED running
  BY <1>2
<1>3. \/ UNCHANGED running
      \/ \E c \in {"install", "resolve", "canary", "gate"} : Begin(c) \/ Finish(c)
  <2>1. CASE People
    BY <2>1 DEF People, ChangeVisibility, Reconfigure, EditKit, Unprotect, Protect
  <2>2. CASE InstallerNext
    BY <2>2 DEF InstallerNext, StartInstall, WriteFile, InstallEnds, KillInstall, InstallerGone,
                StartResolve, WriteLock, KillResolve
  <2>3. CASE CanaryNext
    BY <2>3 DEF CanaryNext, StartCanary, CanaryStep, Observe, ExecuteEnds, StepFails, Teardown,
                TeardownSkipped, WriteEvidence, KillCanary, CanaryEnds, checkoutVars
  <2>4. CASE GateNext
    BY <2>4 DEF GateNext, StartGate, GateStep, CheckBranch, CheckIssues, Verify,
                RemoteCallFails, Report, GateEnds, checkoutVars
  <2> QED BY <2>1, <2>2, <2>3, <2>4
<1> QED BY <1>1, <1>2, <1>3

\* Planned entries name the issues that are there, each ticket once.
LEMMA PlannedOnce ==
  ASSUME NEW p
  PROVE  LET Q == Planned(p) IN
           /\ \A i \in DOMAIN Q : Q[i].number = Len(issues[Q[i].ticket])
           /\ \A i, j \in DOMAIN Q : Q[i].ticket = Q[j].ticket => i = j
<1> DEFINE s == Outdated(p)
<1>1. \A i, j \in DOMAIN s : s[i] = s[j] => i = j
  BY OutdatedType
<1> HIDE DEF s
<1>2. Planned(p) = [i \in DOMAIN s |-> [ticket |-> s[i], number |-> Len(issues[s[i]])]]
  BY DEF Planned, s
<1>3. /\ DOMAIN Planned(p) = DOMAIN s
      /\ \A i \in DOMAIN s : /\ Planned(p)[i].ticket = s[i]
                             /\ Planned(p)[i].number = Len(issues[s[i]])
  BY <1>2
<1> QED BY <1>1, <1>3

\* A write makes an issue more exactly where the plan has none.
LEMMA WrittenLength ==
  ASSUME CommandsInv, NEW p \in Syncs, sync[p].queue # << >>
  PROVE  /\ Head(sync[p].queue).ticket \in Tickets
         /\ \A t \in Tickets \ {Head(sync[p].queue).ticket} : Written(p)[t] = issues[t]
         /\ LET e == Head(sync[p].queue) IN
              Len(Written(p)[e.ticket]) =
                IF e.number = 0 THEN Len(issues[e.ticket]) + 1 ELSE Len(issues[e.ticket])
<1> DEFINE V == {ByHand} \cup Versions
           e == Head(sync[p].queue)
           v == sync[p].read[e.ticket]
           s == issues[e.ticket]
<1>1. sync[p] \in SyncRun /\ issues \in [Tickets -> Seq(V)]
  BY DEF CommandsInv, SetupTypeOK, IssueSyncTypeOK
<1>2. sync[p].queue \in Seq(Entry) /\ sync[p].read \in [Tickets -> Versions]
  BY <1>1 DEF SyncRun
<1>3. e \in Entry
  BY <1>2, HeadTailProperties
<1>4. e.ticket \in Tickets
  BY <1>3 DEF Entry
<1>5. s \in Seq(V) /\ v \in V
  BY <1>1, <1>2, <1>4
<1>6. Written(p) = [issues EXCEPT ![e.ticket] =
                      IF e.number = 0 THEN Append(s, v) ELSE [s EXCEPT ![e.number] = v]]
  BY DEF Written
<1> HIDE DEF e, v, s, V
<1>7. Len(Append(s, v)) = Len(s) + 1
  BY <1>5, AppendProperties
<1>8. Len([s EXCEPT ![e.number] = v]) = Len(s)
  <2>1. CASE e.number \in 1 .. Len(s)
    BY <1>5, <2>1, ExceptSeq
  <2>2. CASE e.number \notin 1 .. Len(s)
    <3>1. e.number \notin DOMAIN s
      BY <1>5, <2>2, LenProperties
    <3>2. [s EXCEPT ![e.number] = v] = s
      BY <1>5, <3>1, LenProperties
    <3> QED BY <3>2
  <2> QED BY <2>1, <2>2
<1> DEFINE w == IF e.number = 0 THEN Append(s, v) ELSE [s EXCEPT ![e.number] = v]
<1>9. Len(w) = IF e.number = 0 THEN Len(s) + 1 ELSE Len(s)
  BY <1>7, <1>8
<1>10. Written(p) = [issues EXCEPT ![e.ticket] = w]
  BY <1>6
<1> HIDE DEF w
<1>11. Written(p)[e.ticket] = w /\ \A t \in Tickets \ {e.ticket} : Written(p)[t] = issues[t]
  BY <1>1, <1>4, <1>10
<1> QED BY <1>4, <1>9, <1>11 DEF e, s

\* Where a sync stands when nobody else has been at work.
LEMMA LoneSync ==
  ASSUME CommandsInv, SyncInv, ~overlapped, NEW p \in Syncs, p \in running
  PROVE  \A q \in Syncs \ {p} : q \notin running /\ sync[q].queue = << >>
BY DEF CommandsInv, SyncInv, SyncHolds, Undoubled

\* One entry is written, or fails to be.
LEMMA WriteKeepsUndoubled ==
  ASSUME CommandsInv, SyncInv, ~overlapped, NEW p \in Syncs, sync[p].queue # << >>,
         issues' \in {issues, Written(p)}, UNCHANGED running,
         NEW f \in BOOLEAN, Wrote(p, f)
  PROVE  Undoubled'
<1> DEFINE Q == sync[p].queue
           e == Head(Q)
<1>1. Undoubled /\ SyncHolds
  BY DEF SyncInv, CommandsInv
<1>2. p \in running
  BY <1>1 DEF SyncHolds
<1>3. \A q \in Syncs \ {p} : q \notin running /\ sync[q].queue = << >>
  BY <1>2, LoneSync
<1>4. sync \in [Syncs -> SyncRun] /\ sync[p] \in SyncRun
  BY DEF CommandsInv, SetupTypeOK, IssueSyncTypeOK
<1>5. Q \in Seq(Entry)
  BY <1>4 DEF SyncRun
<1>6. /\ sync'[p].queue = Tail(Q)
      /\ \A q \in Syncs \ {p} : sync'[q] = sync[q]
  <2>1. sync' = [sync EXCEPT ![p].queue = Tail(@), ![p].failed = @ \/ f]
    BY DEF Wrote
  <2> QED BY <1>4, <2>1 DEF SyncRun
<1>7. /\ \A i \in DOMAIN Q : Q[i] \in Entry /\ Q[i].number = Len(issues[Q[i].ticket])
      /\ \A i, j \in DOMAIN Q : Q[i].ticket = Q[j].ticket => i = j
  BY <1>1, <1>5, LenProperties, ElementOfSeq DEF Undoubled
<1> HIDE DEF Q
<1>8. /\ e = Q[1] /\ DOMAIN Q = 1 .. Len(Q) /\ Len(Q) \in Nat /\ Len(Q) # 0
      /\ Tail(Q) \in Seq(Entry) /\ DOMAIN Tail(Q) = 1 .. Len(Q) - 1
      /\ \A i \in 1 .. Len(Q) - 1 : Tail(Q)[i] = Q[i + 1]
  <2>1. Q # << >>
    BY DEF Q
  <2>2. /\ Tail(Q) \in Seq(Entry) /\ Len(Tail(Q)) = Len(Q) - 1
        /\ \A i \in 1 .. Len(Tail(Q)) : Tail(Q)[i] = Q[i + 1]
    BY <1>5, <2>1, HeadTailProperties
  <2>3. DOMAIN Tail(Q) = 1 .. Len(Tail(Q))
    BY <2>2, LenProperties
  <2> QED BY <1>5, <2>1, <2>2, <2>3, LenProperties, EmptySeq
<1> DEFINE n == Len(Q)
<1>9. \A i \in 1 .. n - 1 : i + 1 \in DOMAIN Q /\ i + 1 # 1 /\ 1 \in DOMAIN Q
  BY <1>8
<1>10. e.number = Len(issues[e.ticket]) /\ e.ticket \in Tickets
  BY <1>7, <1>8 DEF Entry
<1>11. /\ \A t \in Tickets \ {e.ticket} : issues'[t] = issues[t]
       /\ ~ (Len(issues'[e.ticket]) > 1)
  <2>1. CASE issues' = issues
    BY <1>1, <1>10, <2>1 DEF Undoubled, Doubled
  <2>2. CASE issues' = Written(p)
    <3> DEFINE m == Len(issues[e.ticket])
    <3>1. /\ \A t \in Tickets \ {e.ticket} : issues'[t] = issues[t]
          /\ Len(issues'[e.ticket]) = IF e.number = 0 THEN m + 1 ELSE m
      BY <2>2, WrittenLength DEF Q
    <3>2. ~ (m > 1)
      BY <1>1, <1>10 DEF Undoubled, Doubled
    <3>3. e.number = m
      BY <1>10
    <3> HIDE DEF m
    <3> QED BY <3>1, <3>2, <3>3
  <2> QED BY <2>1, <2>2
<1>12. \A t \in Tickets : ~Doubled(t)'
  <2>1. \A t \in Tickets \ {e.ticket} : ~Doubled(t)'
    BY <1>1, <1>11 DEF Undoubled, Doubled
  <2> QED BY <1>11, <2>1 DEF Doubled
<1>13. ASSUME NEW i \in DOMAIN Tail(Q)
       PROVE  Tail(Q)[i].number = Len(issues'[Tail(Q)[i].ticket])
  <2>1. Tail(Q)[i] = Q[i + 1] /\ i + 1 \in DOMAIN Q
    BY <1>8, <1>9
  <2>2. Q[i + 1].ticket # e.ticket /\ Q[i + 1].ticket \in Tickets
    BY <1>7, <1>8, <1>9 DEF Entry
  <2> QED BY <1>7, <1>11, <2>1, <2>2
<1>14. \A i, j \in DOMAIN Tail(Q) : Tail(Q)[i].ticket = Tail(Q)[j].ticket => i = j
  <2>1. ASSUME NEW i \in 1 .. n - 1, NEW j \in 1 .. n - 1, Q[i + 1].ticket = Q[j + 1].ticket
        PROVE  i = j
    <3>1. i + 1 = j + 1
      BY <1>7, <1>9, <2>1
    <3>2. i \in Nat /\ j \in Nat
      OBVIOUS
    <3> QED BY <3>1, <3>2
  <2> QED BY <1>8, <2>1
<1>15. \A q \in Syncs \ {p} : DOMAIN sync'[q].queue = {}
  BY <1>3, <1>6
<1> DEFINE Fine(R) == /\ \A i \in DOMAIN R : R[i].number = Len(issues'[R[i].ticket])
                      /\ \A i, j \in DOMAIN R : R[i].ticket = R[j].ticket => i = j
<1>16. ASSUME NEW q \in Syncs
       PROVE  Fine(sync'[q].queue)
  <2>1. CASE q = p
    <3>1. Fine(Tail(Q))
      BY <1>13, <1>14
    <3> HIDE DEF Fine
    <3> QED BY <1>6, <2>1, <3>1
  <2>2. CASE q # p
    BY <1>15, <2>2
  <2> QED BY <2>1, <2>2
<1>17. \A q, r \in Syncs : q \in running' /\ r \in running' => q = r
  BY <1>1 DEF Undoubled
<1> QED BY <1>12, <1>16, <1>17 DEF Undoubled

\* A sync that ends leaves nothing behind.
LEMMA EndKeepsUndoubled ==
  ASSUME CommandsInv, Undoubled, NEW p \in Syncs, NEW code, End(p, code), UNCHANGED issues
  PROVE  Undoubled'
<1>1. /\ sync' = [sync EXCEPT ![p] = SyncIdle] /\ running' \subseteq running
      /\ sync \in [Syncs -> SyncRun]
  BY DEF End, Finish, CommandsInv, SetupTypeOK, IssueSyncTypeOK
<1>2. DOMAIN sync'[p].queue = {}
  BY <1>1 DEF SyncIdle
<1>3. \A q \in Syncs \ {p} : sync'[q] = sync[q]
  BY <1>1
<1>4. \A t \in Tickets : ~Doubled(t)'
  BY DEF Undoubled, Doubled
<1>5. ASSUME NEW q \in Syncs
      PROVE  LET R == sync'[q].queue IN
               /\ \A i \in DOMAIN R : R[i].number = Len(issues'[R[i].ticket])
               /\ \A i, j \in DOMAIN R : R[i].ticket = R[j].ticket => i = j
  <2>1. CASE q = p
    BY <1>2, <2>1
  <2>2. CASE q # p
    BY <1>3, <2>2 DEF Undoubled
  <2> QED BY <2>1, <2>2
<1>6. \A q, r \in Syncs : q \in running' /\ r \in running' => q = r
  BY <1>1 DEF Undoubled
<1> QED BY <1>4, <1>5, <1>6 DEF Undoubled

LEMMA SyncInvStep ==
  ASSUME CommandsInv, SyncInv, IssueSyncNext
  PROVE  SyncInv'
<1> DEFINE Some == \E t \in Tickets : Doubled(t)
           Heard == Syncs \cap running # {}
           Kept == (~overlapped' => Undoubled') /\ (Some' => told' \/ Heard')
<1>1. (~overlapped => Undoubled) /\ SyncHolds /\ (Some => told \/ Heard)
  BY DEF SyncInv, CommandsInv
<1>2. sync \in [Syncs -> SyncRun] /\ ticket \in [Tickets -> Versions]
  BY DEF CommandsInv, SetupTypeOK, IssueSyncTypeOK
<1>3. ASSUME NEW p \in Syncs, StartSync(p)
      PROVE  Kept
  <2>1. Heard'
    BY <1>3 DEF StartSync, Begin
  <2>2. ASSUME ~overlapped'
        PROVE  Undoubled'
    <3>1. ~overlapped /\ running = {} /\ running' = {p} /\ UNCHANGED issues
      BY <1>3, <2>2 DEF StartSync, Begin
    <3>2. sync' = [sync EXCEPT ![p] = [SyncIdle EXCEPT !.pc = "list", !.read = ticket]]
      BY <1>3 DEF StartSync
    <3>3. sync'[p].queue = << >> /\ \A q \in Syncs \ {p} : sync'[q] = sync[q]
      BY <1>2, <3>2 DEF SyncIdle
    <3>4. \A q \in Syncs \ {p} : sync[q].queue = << >>
      BY <1>1, <3>1 DEF SyncHolds
    <3>5. \A q \in Syncs : DOMAIN sync'[q].queue = {}
      BY <3>3, <3>4
    <3>6. \A t \in Tickets : ~Doubled(t)'
      BY <1>1, <3>1 DEF Undoubled, Doubled
    <3>7. \A q, r \in Syncs : q \in running' /\ r \in running' => q = r
      BY <3>1
    <3> QED BY <3>5, <3>6, <3>7 DEF Undoubled
  <2> QED BY <2>1, <2>2
<1>4. ASSUME NEW p \in Syncs, NEW code, End(p, code), UNCHANGED <<issues, overlapped>>,
             code = "0" => ~Some
      PROVE  Kept
  <2>1. Undoubled => Undoubled'
    BY <1>4, EndKeepsUndoubled
  <2>2. Some' <=> Some
    BY <1>4 DEF Doubled
  <2>3. told' = (told \/ (code # "0" /\ Some))
    BY <1>4 DEF End
  <2>4. Some' => told'
    <3> HIDE DEF Some
    <3> QED BY <1>4, <2>2, <2>3
  <2>5. ~overlapped' => Undoubled'
    BY <1>1, <1>4, <2>1
  <2> QED BY <2>4, <2>5
<1>5. ASSUME NEW p \in Syncs, ListIssues(p)
      PROVE  Kept
  <2>1. CASE Some
    BY <1>4, <1>5, <2>1 DEF ListIssues
  <2>2. CASE ~Some
    <3>1. /\ sync' = [sync EXCEPT ![p].pc = "write", ![p].queue = Planned(p)]
          /\ UNCHANGED <<running, told, issues, overlapped>>
      BY <1>5, <2>2 DEF ListIssues
    <3>2. ~Some'
      BY <2>2, <3>1 DEF Doubled
    <3>3. ASSUME ~overlapped'
          PROVE  Undoubled'
      <4> DEFINE Fine(R) == /\ \A i \in DOMAIN R : R[i].number = Len(issues[R[i].ticket])
                            /\ \A i, j \in DOMAIN R : R[i].ticket = R[j].ticket => i = j
      <4>1. Undoubled
        BY <1>1, <3>1, <3>3
      <4>2. Fine(Planned(p)) /\ \A q \in Syncs \ {p} : Fine(sync[q].queue)
        BY <4>1, PlannedOnce DEF Undoubled
      <4>3. sync'[p].queue = Planned(p) /\ \A q \in Syncs \ {p} : sync'[q] = sync[q]
        BY <1>2, <3>1 DEF SyncRun
      <4>4. \A q \in Syncs : Fine(sync'[q].queue)
        <5> HIDE DEF Fine
        <5> QED BY <4>2, <4>3
      <4>5. \A t \in Tickets : ~Doubled(t)'
        BY <3>2
      <4>6. \A q, r \in Syncs : q \in running' /\ r \in running' => q = r
        BY <3>1, <4>1 DEF Undoubled
      <4>7. UNCHANGED issues
        BY <3>1
      <4>8. ASSUME NEW q \in Syncs
            PROVE  LET R == sync'[q].queue IN
                     /\ \A i \in DOMAIN R : R[i].number = Len(issues'[R[i].ticket])
                     /\ \A i, j \in DOMAIN R : R[i].ticket = R[j].ticket => i = j
        BY <4>4, <4>7
      <4> QED BY <4>5, <4>6, <4>8 DEF Undoubled
    <3> QED BY <3>2, <3>3
  <2> QED BY <2>1, <2>2
<1>6. ASSUME NEW p \in Syncs, WriteIssue(p) \/ WriteIssueFails(p)
      PROVE  Kept
  <2>1. /\ sync[p].queue # << >> /\ issues' \in {issues, Written(p)}
        /\ UNCHANGED <<running, overlapped>>
        /\ \E f \in BOOLEAN : Wrote(p, f)
    BY <1>6 DEF WriteIssue, WriteIssueFails, checkoutVars
  <2>2. ~overlapped' => Undoubled'
    <3>1. PICK f \in BOOLEAN : Wrote(p, f)
      BY <2>1
    <3> QED BY <2>1, <3>1, WriteKeepsUndoubled
  <2>3. Heard'
    BY <1>1, <2>1 DEF SyncHolds
  <2> QED BY <2>2, <2>3
<1>7. ASSUME NEW p \in Syncs, RereadIssues(p)
      PROVE  Kept
  <2>1. PICK code : /\ End(p, code) /\ UNCHANGED <<issues, overlapped>>
                    /\ code = "0" => \A t \in Tickets : Len(issues[t]) = 1
    BY <1>7 DEF RereadIssues
  <2>2. code = "0" => ~Some
    <3>1. ~ (1 > 1)
      OBVIOUS
    <3>2. code = "0" => \A t \in Tickets : ~Doubled(t)
      BY <2>1, <3>1 DEF Doubled
    <3> QED BY <3>2
  <2> QED BY <1>4, <2>1, <2>2
<1>8. ASSUME NEW p \in Syncs, ListFails(p) \/ KillSync(p)
      PROVE  Kept
  <2>1. PICK code : End(p, code) /\ UNCHANGED <<issues, overlapped>> /\ code # "0"
    BY <1>8 DEF ListFails, KillSync
  <2> QED BY <1>4, <2>1
<1>9. ASSUME NEW t \in Tickets, EditTicket(t) \/ EditIssue(t)
      PROVE  Kept
  <2>1. UNCHANGED <<running, sync, overlapped, told>>
    BY <1>9 DEF EditTicket, EditIssue
  <2>2. \A u \in Tickets : Len(issues'[u]) = Len(issues[u])
    <3>1. CASE EditTicket(t)
      BY <3>1 DEF EditTicket
    <3>2. CASE EditIssue(t)
      <4> DEFINE V == {ByHand} \cup Versions
                 s == issues[t]
      <4>1. issues \in [Tickets -> Seq(V)] /\ s \in Seq(V) /\ ByHand \in V
        BY <1>9 DEF CommandsInv, SetupTypeOK, IssueSyncTypeOK
      <4>2. 1 \in 1 .. Len(s)
        BY <3>2, <4>1, LenProperties, EmptySeq DEF EditIssue
      <4>3. issues' = [issues EXCEPT ![t] = [s EXCEPT ![1] = ByHand]]
        BY <3>2 DEF EditIssue
      <4> HIDE DEF V, s
      <4>4. Len([s EXCEPT ![1] = ByHand]) = Len(s)
        BY <4>1, <4>2, ExceptSeq
      <4>5. \A u \in Tickets \ {t} : issues'[u] = issues[u]
        BY <4>1, <4>3
      <4>6. issues'[t] = [s EXCEPT ![1] = ByHand]
        BY <1>9, <4>1, <4>3
      <4> QED BY <4>4, <4>5, <4>6 DEF s
    <3> QED BY <1>9, <3>1, <3>2
  <2>3. \A u \in Tickets : Doubled(u)' <=> Doubled(u)
    BY <2>2 DEF Doubled
  <2>4. Undoubled => Undoubled'
    <3> SUFFICES ASSUME Undoubled PROVE Undoubled'
      OBVIOUS
    <3>1. ASSUME NEW q \in Syncs, NEW i \in DOMAIN sync[q].queue
          PROVE  sync[q].queue[i].ticket \in Tickets
      <4>1. sync[q].queue \in Seq(Entry)
        BY <1>2 DEF SyncRun
      <4>2. sync[q].queue[i] \in Entry
        BY <3>1, <4>1, ElementOfSeq, LenProperties
      <4> QED BY <4>2 DEF Entry
    <3> QED BY <2>1, <2>2, <2>3, <3>1 DEF Undoubled
  <2>5. Some' <=> Some
    BY <2>3
  <2>6. Heard' <=> Heard
    BY <2>1
  <2>7. Some' => told' \/ Heard'
    <3> HIDE DEF Some, Heard
    <3> QED BY <1>1, <2>1, <2>5, <2>6
  <2> QED BY <1>1, <2>1, <2>4, <2>7
<1>10. Kept
  <2> HIDE DEF Kept
  <2> QED BY <1>3, <1>5, <1>6, <1>7, <1>8, <1>9 DEF IssueSyncNext, SyncStep
<1> QED BY <1>10 DEF SyncInv

(***************************************************************************)
(* However often syncs are killed, fail and are run again: a ticket gets a *)
(* second issue only when two overlap, and then one still runs or did not  *)
(* end with 0 (create-issues.py:149-152, 160-168, 226-231).                *)
(***************************************************************************)
THEOREM DoublesAreHeardOf == Spec => []DuplicatesAreReported
<1>1. Init => SyncInv
  <2> SUFFICES ASSUME Init PROVE SyncInv
    OBVIOUS
  <2>1. IssueSyncInit /\ \E owner \in OwnerTypes, v \in Visibilities,
          commands \in SUBSET Commands : CheckoutFrom(owner, v, commands)
    BY CommandsBegin DEF ToolsAtRest
  <2>2. \A t \in Tickets : Len(issues[t]) <= 1
    BY <2>1 DEF IssueSyncInit
  <2>3. running = {} /\ \A p \in Syncs : DOMAIN sync[p].queue = {}
    BY <2>1 DEF IssueSyncInit, CheckoutFrom, SyncIdle
  <2>4. \A t \in Tickets : ~Doubled(t)
    <3>1. \A t \in Tickets : Len(issues[t]) \in {0, 1}
      BY <2>1 DEF IssueSyncInit
    <3>2. \A n \in {0, 1} : ~ (n > 1)
      OBVIOUS
    <3> QED BY <3>1, <3>2 DEF Doubled
  <2>5. Undoubled
    BY <2>3, <2>4 DEF Undoubled
  <2> QED BY <2>4, <2>5 DEF SyncInv
<1>2. CommandsInv /\ SyncInv /\ [Next]_kitVars => SyncInv'
  <2> SUFFICES ASSUME CommandsInv, SyncInv, [Next]_kitVars PROVE SyncInv'
    OBVIOUS
  <2>1. CASE IssueSyncNext
    BY <2>1, SyncInvStep
  <2>2. ASSUME UNCHANGED issueVars, \A p \in Syncs : p \in running' <=> p \in running
        PROVE  SyncInv'
    <3>1. UNCHANGED <<issues, sync, overlapped, told>>
      BY <2>2 DEF issueVars
    <3>2. \A t \in Tickets : Doubled(t)' <=> Doubled(t)
      BY <3>1 DEF Doubled
    <3>3. Undoubled => Undoubled'
      BY <2>2, <3>1, <3>2 DEF Undoubled
    <3>4. Syncs \cap running # {} => Syncs \cap running' # {}
      BY <2>2
    <3> QED BY <3>1, <3>2, <3>3, <3>4 DEF SyncInv
  <2>3. CASE UNCHANGED setupVars
    BY <2>2, <2>3 DEF setupVars, checkoutVars
  <2> QED BY <2>1, <2>2, <2>3, OthersLeaveSyncs DEF Next, kitVars, SetupNext
<1>3. SyncInv => DuplicatesAreReported
  BY DEF SyncInv, Undoubled, DuplicatesAreReported
<1> QED BY <1>1, <1>2, <1>3, CommandsKeepTypes, PTL DEF Spec

-----------------------------------------------------------------------------
\* Evidence and levels.

LEMMA ObservedStep ==
  ASSUME CommandsInv, Observed, CanaryNext
  PROVE  Observed' /\ proven \subseteq proven'
<1>1. /\ mode \in Visibilities /\ left \in Seq(StepsOf(mode))
      /\ evidence \in [Visibilities -> {"none", "torn", "partial", "complete"}]
  BY DEF CommandsInv, SetupTypeOK, CanaryTypeOK
<1>2. "teardown" \in StepsOf(mode)
  BY DEF StepsOf, PublicSteps, PrivateSteps
<1>3. DOMAIN << >> = {}
  OBVIOUS
<1>4. ASSUME NEW m \in Visibilities, StartCanary(m)
      PROVE  Observed' /\ proven \subseteq proven'
  <2>1. \A i \in DOMAIN left' : left'[i] # "teardown"
    BY <1>4, FlowType DEF StartCanary
  <2> QED BY <1>4, <2>1 DEF StartCanary, Observed
<1>5. CASE Observe
  <2>1. /\ Head(left) # "teardown"
        /\ \A i \in DOMAIN Tail(left) : Tail(left)[i] # "teardown"
    <3>1. /\ Head(left) = left[1] /\ Tail(left) \in Seq(StepsOf(mode))
          /\ Len(Tail(left)) = Len(left) - 1
          /\ \A i \in 1 .. Len(Tail(left)) : Tail(left)[i] = left[i + 1]
      BY <1>1, <1>5, HeadTailProperties DEF Observe
    <3>2. /\ Len(left) \in Nat /\ Len(left) # 0 /\ DOMAIN left = 1 .. Len(left)
          /\ DOMAIN Tail(left) = 1 .. Len(Tail(left))
      BY <1>1, <1>5, <3>1, LenProperties, EmptySeq DEF Observe
    <3> DEFINE n == Len(left)
    <3>3. \A i \in 1 .. n - 1 : i + 1 \in 1 .. n
      BY <3>2
    <3>4. 1 \in 1 .. n
      BY <3>2
    <3> QED BY <3>1, <3>2, <3>3, <3>4 DEF Observed
  <2> QED BY <1>5, <2>1 DEF Observe, Observed
<1>6. CASE ExecuteEnds
  BY <1>6 DEF ExecuteEnds, Observed
<1>7. CASE StepFails
  BY <1>3, <1>7 DEF StepFails, Observed
<1>8. CASE Teardown
  <2>1. proven \subseteq proven' /\ (marked' = StepsOf(mode) => mode \in proven')
    BY <1>8 DEF Teardown
  <2> QED BY <1>8, <2>1 DEF Teardown, Observed
<1>9. CASE TeardownSkipped
  BY <1>2, <1>9 DEF TeardownSkipped, Observed
<1>10. CASE WriteEvidence
  <2>1. \A m \in Visibilities : evidence'[m] = "complete" => m \in proven
    BY <1>1, <1>10 DEF WriteEvidence, Observed
  <2> QED BY <1>3, <1>10, <2>1 DEF WriteEvidence, CanaryEnds, Observed
<1>11. CASE KillCanary
  <2>1. \A m \in Visibilities : evidence'[m] = "complete" => m \in proven
    BY <1>1, <1>11 DEF KillCanary, Observed
  <2> QED BY <1>3, <1>11, <2>1 DEF KillCanary, CanaryEnds, Observed
<1> QED BY <1>4, <1>5, <1>6, <1>7, <1>8, <1>9, <1>10, <1>11 DEF CanaryNext, CanaryStep

LEMMA ObservedAlways == Spec => [](Observed /\ CommandsInv)
<1>1. Init => Observed
  BY CommandsBegin DEF ToolsAtRest, CanaryInit, Observed
<1>2. CommandsInv /\ Observed /\ [Next]_kitVars => Observed'
  <2> SUFFICES ASSUME CommandsInv, Observed, [Next]_kitVars PROVE Observed'
    OBVIOUS
  <2>1. CASE CanaryNext
    BY <2>1, ObservedStep
  <2>2. CASE UNCHANGED canaryVars
    BY <2>2 DEF canaryVars, Observed
  <2> QED BY <2>1, <2>2 DEF Next, kitVars, SetupNext, setupVars
<1> QED BY <1>1, <1>2, CommandsKeepTypes, PTL DEF Spec

\* While the gate runs nobody writes the lock.
LEMMA LockStays ==
  ASSUME LockIsLeft, CommandsInv, People \/ InstallerNext, "gate" \in running
  PROVE  file'.lock = file.lock
<1>1. file \in Content /\ Alone /\ "gate" # "install" /\ "gate" # "resolve"
  BY DEF CommandsInv, SetupTypeOK, CheckoutTypeOK
<1>2. "install" \notin running /\ "resolve" \notin running
  BY <1>1 DEF Alone, LockIsLeft
<1>3. CASE People
  BY <1>1, <1>3 DEF People, ChangeVisibility, Reconfigure, EditKit, Unprotect, Protect, Content
<1>4. CASE InstallerNext
  BY <1>2, <1>4 DEF InstallerNext, StartInstall, WriteFile, InstallEnds, KillInstall,
                    StartResolve, WriteLock, KillResolve
<1> QED BY <1>3, <1>4

LEMMA OthersLeaveGate ==
  ASSUME People \/ InstallerNext \/ IssueSyncNext \/ CanaryNext
  PROVE  "gate" \in running' <=> "gate" \in running
<1>1. ASSUME NEW c \in Commands \ {"gate"}, Begin(c) \/ Finish(c)
      PROVE  "gate" \in running' <=> "gate" \in running
  BY <1>1 DEF Begin, Finish
<1>2. CASE UNCHANGED running
  BY <1>2
<1>3. UNCHANGED running \/ \E c \in Commands \ {"gate"} : Begin(c) \/ Finish(c)
  <2>1. CASE People
    BY <2>1 DEF People, ChangeVisibility, Reconfigure, EditKit, Unprotect, Protect
  <2>2. CASE InstallerNext
    BY <2>2 DEF InstallerNext, StartInstall, WriteFile, InstallEnds, KillInstall, InstallerGone,
                StartResolve, WriteLock, KillResolve, Commands
  <2>3. CASE CanaryNext
    BY <2>3 DEF CanaryNext, StartCanary, CanaryStep, Observe, ExecuteEnds, StepFails, Teardown,
                TeardownSkipped, WriteEvidence, KillCanary, CanaryEnds, checkoutVars, Commands
  <2>4. CASE IssueSyncNext
    <3>1. Syncs \subseteq Commands \ {"gate"}
      BY DEF Syncs, Commands
    <3> QED BY <2>4, <3>1
        DEF IssueSyncNext, SyncStep, StartSync, ListIssues, WriteIssue, WriteIssueFails,
            RereadIssues, ListFails, KillSync, EditTicket, EditIssue, End, checkoutVars
  <2> QED BY <2>1, <2>2, <2>3, <2>4
<1> QED BY <1>1, <1>2, <1>3

\* As long as the level is that of the design alone, it is earned.
LEMMA DesignIsEarned ==
  ASSUME gate.level \in {"DESIGN_ONLY", "LOCAL_VERIFIED"}
  PROVE  LevelIsEarned
BY DEF LevelIsEarned

LEMMA GateStepKeeps ==
  ASSUME CommandsInv, Observed, GateInv, GateNext, UNCHANGED canaryVars
  PROVE  GateInv'
<1>1. /\ gate \in GateState /\ GateHolds /\ file \in Content
      /\ gate.pc # "report" => gate.level = "DESIGN_ONLY"
  BY DEF CommandsInv, SetupTypeOK, CheckoutTypeOK, PhaseGateTypeOK, GateState, GateInv
<1>2. gate.pc # "idle" => (gate.private <=> file.lock \in PrivateLocks) /\ Seen
  BY <1>1 DEF GateHolds, GateInv
\* The steps before the report.
<1>3. ASSUME gate'.pc # "report", gate'.level = "DESIGN_ONLY",
             "gate" \in running' => (gate'.private <=> file'.lock \in PrivateLocks) /\ Seen'
      PROVE  GateInv'
  BY <1>3 DEF GateInv, LevelIsEarned
<1>4. ASSUME NEW online \in BOOLEAN, StartGate(online)
      PROVE  GateInv'
  <2>1. PICK passed \in BOOLEAN :
          gate' = [GateIdle EXCEPT
                     !.pc = IF online THEN "dev" ELSE "level",
                     !.online = online, !.passed = passed,
                     !.private = (file.lock \in PrivateLocks)]
    <3>1. ContractHolds \in BOOLEAN /\ ContractMayHold \in BOOLEAN
      BY DEF ContractHolds, ContractMayHold
    <3> QED BY <1>4, <3>1 DEF StartGate
  <2>2. /\ gate'.pc = IF online THEN "dev" ELSE "level"
        /\ gate'.online = online /\ gate'.private = (file.lock \in PrivateLocks)
        /\ gate'.level = "DESIGN_ONLY"
    BY <2>1 DEF GateIdle
  <2>3. Seen'
    BY <2>2 DEF Seen
  <2> QED BY <1>3, <1>4, <2>2, <2>3 DEF StartGate
<1>5. ASSUME NEW b \in Branches, CheckBranch(b)
      PROVE  GateInv'
  <2>1. /\ gate.pc = b /\ b \in {"dev", "main"} /\ UNCHANGED file
        /\ gate' = [gate EXCEPT !.pc = NextCheck(b),
                                !.passed = @ /\ (gate.private \/ Guarded(b)),
                                !.seen = IF ~gate.private /\ Guarded(b)
                                         THEN @ \cup {b} ELSE @]
    BY <1>5 DEF CheckBranch, checkoutVars, Branches
  <2>2. NextCheck(b) = IF b = "dev" THEN "main" ELSE "issues"
    BY <2>1 DEF NextCheck
  <2>3. /\ gate'.pc = IF b = "dev" THEN "main" ELSE "issues"
        /\ gate'.online = gate.online /\ gate'.private = gate.private
        /\ gate'.level = gate.level
        /\ gate'.passed => gate.passed /\ (gate.private \/ Guarded(b))
        /\ gate'.seen = IF ~gate.private /\ Guarded(b) THEN gate.seen \cup {b} ELSE gate.seen
    BY <1>1, <2>1, <2>2 DEF GateState
  <2>4. Seen'
    BY <1>2, <2>1, <2>3 DEF Seen
  <2> QED BY <1>1, <1>2, <1>3, <2>1, <2>3, <2>4
<1>6. ASSUME NEW next \in {"main", "issues", "verify", "level"}, NEW ok \in BOOLEAN, Check(next, ok)
      PROVE  /\ gate'.pc = next /\ gate'.passed = (gate.passed /\ ok)
             /\ gate'.online = gate.online /\ gate'.private = gate.private
             /\ gate'.level = gate.level /\ gate'.seen = gate.seen
  BY <1>1, <1>6 DEF Check, GateState
<1>7. CASE CheckIssues
  <2>1. PICK ok \in BOOLEAN : Check("verify", ok)
    <3>1. /\ (\A t \in Tickets : issues[t] # << >>) \in BOOLEAN
          /\ (\E t \in Tickets : issues[t] # << >>) \in BOOLEAN
      OBVIOUS
    <3> QED BY <1>7, <3>1 DEF CheckIssues
  <2>2. gate.pc = "issues" /\ UNCHANGED file
    BY <1>7 DEF CheckIssues, checkoutVars
  <2>3. Seen'
    BY <1>2, <1>6, <2>1, <2>2 DEF Seen
  <2> QED BY <1>1, <1>2, <1>3, <1>6, <2>1, <2>2, <2>3
<1>8. CASE RemoteCallFails
  <2>1. /\ gate.pc \in {"dev", "main", "issues", "verify"} /\ UNCHANGED file
        /\ Check(NextCheck(gate.pc), FALSE)
    BY <1>8 DEF RemoteCallFails
  <2>2. NextCheck(gate.pc) \in {"main", "issues", "verify", "level"}
    BY <2>1 DEF NextCheck
  <2>3. Seen'
    BY <1>6, <2>1, <2>2 DEF Seen
  <2> QED BY <1>1, <1>2, <1>3, <1>6, <2>1, <2>2, <2>3
<1>9. CASE Verify
  <2>1. /\ gate.pc = "verify" /\ UNCHANGED file
        /\ gate' = [gate EXCEPT !.pc = "level", !.passed = @ /\ file.lock = CurrentLock,
                                !.verified = IF file.lock = CurrentLock
                                             THEN ProfileOf(file.lock) ELSE "none"]
    BY <1>9 DEF Verify, checkoutVars
  <2>2. /\ gate'.pc = "level"
        /\ gate'.online = gate.online /\ gate'.private = gate.private
        /\ gate'.level = gate.level /\ gate'.seen = gate.seen
        /\ gate'.passed => gate.passed /\ file.lock = CurrentLock
        /\ gate'.passed => gate'.verified = ProfileOf(file.lock)
    BY <1>1, <2>1 DEF GateState
  <2>3. CurrentLock \in Locks
    BY LockForType DEF CurrentLock
  <2>4. Seen'
    BY <1>2, <2>1, <2>2, <2>3 DEF Seen
  <2> QED BY <1>1, <1>2, <1>3, <2>1, <2>2, <2>4
<1>10. CASE GateEnds
  <2>1. gate'.pc = "idle" /\ gate'.level = "DESIGN_ONLY" /\ "gate" \notin running'
    BY <1>10 DEF GateEnds, GateIdle, Finish
  <2> QED BY <1>3, <2>1
<1>11. CASE Report
  <2>1. PICK d \in DogfoodEvidence :
          gate' = [gate EXCEPT !.pc = "report",
                     !.level = IF ~gate.passed THEN "DESIGN_ONLY"
                               ELSE IF ~gate.online THEN "LOCAL_VERIFIED"
                               ELSE VerifiedLevel(d)]
    BY <1>11 DEF Report
  <2>2. gate.pc = "level" /\ UNCHANGED file
    BY <1>11 DEF Report, checkoutVars
  <2>3. /\ gate'.pc = "report"
        /\ gate'.online = gate.online /\ gate'.private = gate.private
        /\ gate'.passed = gate.passed /\ gate'.verified = gate.verified
        /\ gate'.seen = gate.seen
        /\ gate'.level = IF ~gate.passed THEN "DESIGN_ONLY"
                          ELSE IF ~gate.online THEN "LOCAL_VERIFIED"
                          ELSE VerifiedLevel(d)
    BY <1>1, <2>1 DEF GateState
  <2>4. Seen'
    BY <1>2, <2>2, <2>3 DEF Seen
  <2>5. LevelIsEarned'
    <3>1. CASE ~gate.passed \/ ~gate.online \/ ~EvidenceCounts
      <4>1. gate'.level \in {"DESIGN_ONLY", "LOCAL_VERIFIED"}
        <5>1. ~EvidenceCounts => VerifiedLevel(d) = "LOCAL_VERIFIED"
          BY DEF VerifiedLevel
        <5>2. CASE ~gate.passed
          BY <2>3, <5>2
        <5>3. CASE gate.passed /\ ~gate.online
          BY <2>3, <5>3
        <5>4. CASE gate.passed /\ gate.online /\ ~EvidenceCounts
          <6>1. gate'.level = VerifiedLevel(d)
            BY <2>3, <5>4
          <6> QED BY <5>1, <5>4, <6>1
        <5> QED BY <3>1, <5>2, <5>3, <5>4
      <4> QED BY <4>1 DEF LevelIsEarned
    <3>2. CASE gate.passed /\ gate.online /\ EvidenceCounts
      <4>1. /\ gate.verified = ProfileOf(file.lock) /\ file.lock \in Locks
            /\ gate.verified \in Profiles
            /\ gate.verified = Private <=> file.lock \in PrivateLocks
            /\ ~gate.private => gate.seen = Branches
        <5>1. gate.verified = ProfileOf(file.lock) /\ file.lock \in Locks
          BY <1>2, <2>2, <3>2 DEF Seen
        <5>2. ~gate.private => gate.seen = Branches
          BY <1>1, <1>2, <2>2, <3>2 DEF Seen, GateState, Branches
        <5> QED BY <5>1, <5>2, ProfileOfLock
      <4>2. Chosen \in Visibilities
        BY DEF Chosen, Readable, Visibilities
      <4>3. EvidenceProfile(Chosen) = gate.verified /\ Chosen \in proven
        BY <3>2, <4>1, <4>2 DEF EvidenceCounts, Observed
      <4>4. UNCHANGED proven
        BY DEF canaryVars
      <4>5. gate'.level = VerifiedLevel(d)
        BY <2>3, <3>2
      <4>6. gate'.level = IF d \in {"none", "short"} THEN ProfileLevel(gate.verified)
                          ELSE IF d = "good" /\ gate.verified \in Native THEN "9_9_CANDIDATE"
                          ELSE "MULTI_REPO_DOGFOOD_VERIFIED"
        BY <3>2, <4>3, <4>5 DEF VerifiedLevel
      <4>7. gate.verified \in Native => gate.seen = Branches
        BY <1>2, <2>2, <4>1 DEF Native
      <4>8. \A p \in Profiles : ProfileLevel(p) \notin {"9_9_CANDIDATE", "MULTI_REPO_DOGFOOD_VERIFIED"}
        BY DEF ProfileLevel
      <4>9. Private \notin Native
        BY DEF Native
      <4>10. gate.verified = Private =>
               gate'.level \in {ProfileLevel(Private), "MULTI_REPO_DOGFOOD_VERIFIED"}
        BY <4>6, <4>9
      <4>11. gate'.level \in {ProfileLevel(p) : p \in Profiles} =>
               gate'.level = ProfileLevel(gate.verified)
        BY <4>6, <4>8
      <4> QED BY <2>3, <4>1, <4>3, <4>4, <4>7, <4>10, <4>11 DEF LevelIsEarned
    <3> QED BY <3>1, <3>2
  <2> QED BY <1>2, <2>2, <2>3, <2>4, <2>5 DEF GateInv
<1> QED BY <1>4, <1>5, <1>7, <1>8, <1>9, <1>10, <1>11 DEF GateNext, GateStep

(***************************************************************************)
(* What the gate reports it has found itself: the lock true on GitHub, the *)
(* rules of both branches, and complete evidence of a canary of that       *)
(* profile - if nobody writes the lock while the gate runs, which reads it *)
(* three times (phase-gate.py, remote_checks and assurance_level).         *)
(***************************************************************************)
THEOREM LevelsAreEarned == ASSUME LockIsLeft PROVE Spec => []LevelIsEarned
<1>1. Init => GateInv
  <2> SUFFICES ASSUME Init PROVE GateInv
    OBVIOUS
  <2>1. gate = GateIdle /\ running = {}
    BY CommandsBegin DEF ToolsAtRest, PhaseGateInit, CheckoutFrom
  <2> QED BY <2>1, DesignIsEarned DEF GateInv, GateIdle
<1>2. LockIsLeft /\ Observed /\ CommandsInv /\ GateInv /\ [Next]_kitVars => GateInv'
  <2> SUFFICES ASSUME LockIsLeft, Observed, CommandsInv, GateInv, [Next]_kitVars PROVE GateInv'
    OBVIOUS
  <2>1. ASSUME UNCHANGED gate, proven \subseteq proven', "gate" \in running' <=> "gate" \in running,
               "gate" \in running => file'.lock = file.lock
        PROVE  GateInv'
    <3>1. Seen /\ "gate" \in running => Seen'
      BY <2>1 DEF Seen
    <3>2. LevelIsEarned'
      BY <2>1 DEF GateInv, LevelIsEarned
    <3> QED BY <2>1, <3>1, <3>2 DEF GateInv
  <2>2. CASE UNCHANGED setupVars
    BY <2>1, <2>2 DEF setupVars, checkoutVars, canaryVars
  <2>3. CASE GateNext /\ UNCHANGED <<installVars, resolved, issueVars, canaryVars>>
    BY <2>3, GateStepKeeps
  <2>4. CASE (People \/ InstallerNext) /\ UNCHANGED <<canaryVars, gate>>
    BY <2>1, <2>4, LockStays, OthersLeaveGate DEF canaryVars
  <2>5. CASE IssueSyncNext /\ UNCHANGED <<canaryVars, gate>>
    <3>1. UNCHANGED file
      BY <2>5 DEF IssueSyncNext, StartSync, SyncStep, ListIssues, WriteIssue, WriteIssueFails,
           RereadIssues, ListFails, KillSync, EditTicket, EditIssue, checkoutVars
    <3> QED BY <2>1, <2>5, <3>1, OthersLeaveGate DEF canaryVars
  <2>6. CASE CanaryNext /\ UNCHANGED gate
    <3>1. UNCHANGED file
      BY <2>6 DEF CanaryNext, StartCanary, CanaryStep, Observe, ExecuteEnds, StepFails, Teardown,
           TeardownSkipped, WriteEvidence, KillCanary, checkoutVars
    <3>2. proven \subseteq proven'
      BY <2>6, ObservedStep
    <3> QED BY <2>1, <2>6, <3>1, <3>2, OthersLeaveGate
  <2> QED BY <2>2, <2>3, <2>4, <2>5, <2>6 DEF Next, kitVars, SetupNext
<1>3. GateInv => LevelIsEarned
  BY DEF GateInv
<1> QED BY <1>1, <1>2, <1>3, ObservedAlways, PTL DEF Spec
=============================================================================
