--------------------------- MODULE AutopilotProofs ---------------------------
(***************************************************************************)
(* What holds of the controller for any tickets, policies, faults and      *)
(* number of processes: the shape of its state, that workers start only on *)
(* proven dependencies and within the mandate, and, with one controller,   *)
(* that no operation gets two workers and the claims stay within the wip.  *)
(***************************************************************************)
EXTENDS Autopilot, SequenceTheorems, FiniteSetTheorems, WellFoundedInduction, TLAPS

OneController == \A p, q \in Controllers : p = q

OneOperator == \A p, q \in Operators : p = q

RollbackFile == [id : Known(RollbackIds), of : Ids, origin : Tickets]

PullState == {"open", "pending", "success", "failure"}

Lease == [policy : Nat, attempt : Nat]

Claiming(p) == pc[p] \in {"claim", "invoke", "work"}

Dispatching(p) == pc[p] = "dispatch" \/ Claiming(p)

(***************************************************************************)
(* The shape of the state, with what each process has loaded.              *)
(***************************************************************************)
WorldShape ==
  /\ rollbacks \subseteq RollbackFile
  /\ policy \in 1 .. MaxPolicy + 1
  /\ leases \in [Ids -> Lease]
  /\ pulls \in [Ids -> Seq(PullState)]
  /\ faults \in 0 .. MaxFaults
  /\ proven \subseteq Ids
  /\ workers \in [Ids -> [1 .. MaxPolicy + 1 -> Nat]]

OwnShape ==
  /\ pc \in [Run -> Stages]
  /\ seen \in [Run -> SUBSET RollbackFile]
  /\ verified \in [Run -> SUBSET Ids]
  /\ queue \in [Run -> Seq(Ids)]
  /\ claim \in [Run -> Lease]

Bounded ==
  /\ \A t \in Ids : leases[t].policy <= policy /\ Len(pulls[t]) <= MaxPulls
  /\ \A p \in Run : claim[p].policy <= policy

\* What a process works on is there.
Loaded(p) ==
  /\ seen[p] \subseteq rollbacks
  /\ Dispatching(p) => queue[p] # << >>
  /\ Claiming(p) => claim[p].policy # 0
  /\ pc[p] = "rollback" => Known(RollbackIds) \ Present(seen[p]) # {}

Shape == WorldShape /\ OwnShape /\ Bounded /\ \A p \in Run : Loaded(p)

(***************************************************************************)
(* What a process takes for verified has been, and a worker waits for it.  *)
(***************************************************************************)
Recorded ==
  \A t \in Ids : \A i \in DOMAIN pulls[t] : pulls[t][i] = "success" => t \in proven

Waited(p) ==
  /\ verified[p] \subseteq proven
  /\ pc[p] = "plan" => \A t \in Known(queue[p]) : pulls[t] # << >>
  /\ Claiming(p) => DependenciesOf(Head(queue[p])) \subseteq verified[p]

ProvenInv == Recorded /\ \A p \in Run : Waited(p)

(***************************************************************************)
(* With one operator the ids of rollback tickets are unique, and so a      *)
(* ticket has the risk it had when it was planned.                         *)
(***************************************************************************)
UniqueIds == \A f, g \in rollbacks : f.id = g.id => f = g

Roles ==
  /\ \A p \in Operators : pc[p] \in {"idle", "rollback"}
  /\ \A p \in Controllers : pc[p] # "rollback"

Permitted(p) ==
  /\ pc[p] = "rollback" => seen[p] = rollbacks
  /\ Dispatching(p) =>
       \A t \in Known(queue[p]) : t \in Present(seen[p]) /\ InMandate(seen[p], t)

MandateInv == UniqueIds /\ Roles /\ \A p \in Run : Permitted(p)

(***************************************************************************)
(* With one controller a claim is made for a policy that no lease of the   *)
(* ticket has had, and what is left of a plan fits in the budget.          *)
(***************************************************************************)
WorkersLeased ==
  \A t \in Ids, v \in 1 .. MaxPolicy + 1 :
    workers[t][v] <= 1 /\ (workers[t][v] # 0 => v <= leases[t].policy)

Fresh(p) ==
  LET t == Head(queue[p]) IN
  /\ pc[p] = "claim" => leases[t].policy < claim[p].policy
  /\ pc[p] = "invoke" =>
       leases[t] = claim[p] /\ workers[t][claim[p].policy] = 0

\* How many tickets of its plan a process has still to claim.
Unclaimed(p) ==
  CASE pc[p] \in {"dispatch", "claim"} -> Len(queue[p])
    [] pc[p] \in {"invoke", "work"} -> Len(queue[p]) - 1
    [] OTHER -> 0

LeaseInv ==
  /\ Roles /\ WorkersLeased
  /\ \A p \in Controllers : Fresh(p) /\ Cardinality(Leased) + Unclaimed(p) <= Cap
  /\ Cardinality(Leased) <= Cap

-----------------------------------------------------------------------------
\* Every set of numbers has a least one.
LEMMA LeastNumber ==
  ASSUME NEW T, T \subseteq Nat, T # {}
  PROVE  \E n \in T : \A m \in T : n <= m
<1> DEFINE R == OpToRel(<, Nat)
<1>1. IsWellFoundedOn(R, Nat)
  BY NatLessThanWellFounded
<1>2. \A m, n \in Nat : n <= m \/ <<m, n>> \in R
  BY DEF OpToRel
<1> HIDE DEF R
<1>3. \E n \in T : \A m \in T : ~ (<<m, n>> \in R)
  BY <1>1, WFMin
<1> QED BY <1>2, <1>3

\* The tickets of a set in their order are tickets of that set.
LEMMA InOrderType ==
  ASSUME NEW S
  PROVE  InOrder(S) \in Seq(S \cap Ids)
<1> DEFINE all == Order \o RollbackIds
           n == Len(all)
           K == S \cap Ids
           Entry(f, i) == IF i = 0 THEN << >>
               ELSE IF all[i] \in S THEN Append(f[i - 1], all[i]) ELSE f[i - 1]
           Good(k, f) == f \in [0 .. k -> Seq(K)] /\ \A i \in 0 .. k : f[i] = Entry(f, i)
           Bad == {k \in Nat : k <= n /\ ~ \E f : Good(k, f)}
<1>0. all \in Seq(Ids)
  <2>1. Order \in Seq(Ids) /\ RollbackIds \in Seq(Ids)
    BY AutopilotAssumption DEF Ids
  <2> QED BY <2>1, ConcatProperties
<1> HIDE DEF all
<1>1. n \in Nat /\ \A i \in 1 .. n : all[i] \in Ids
  BY <1>0, LenProperties
<1>2. ASSUME NEW k \in Nat, k < n, NEW f, Good(k, f)
      PROVE  \E g : Good(k + 1, g)
  <2> DEFINE e == IF all[k + 1] \in S THEN Append(f[k], all[k + 1]) ELSE f[k]
             g == [i \in 0 .. k + 1 |-> IF i = k + 1 THEN e ELSE f[i]]
  <2>1. k + 1 \in 1 .. n /\ k \in 0 .. k
    BY <1>1, <1>2
  <2>2. f[k] \in Seq(K) /\ all[k + 1] \in Ids
    BY <1>1, <1>2, <2>1
  <2>3. e \in Seq(K)
    BY <2>2, AppendProperties
  <2>4. g \in [0 .. k + 1 -> Seq(K)]
    BY <1>2, <2>3
  <2>5. ASSUME NEW i \in 0 .. k + 1
        PROVE  g[i] = Entry(g, i)
    <3>1. CASE i = k + 1
      BY <1>2, <2>1, <3>1
    <3>2. CASE i \in 0 .. k
      <4>1. g[i] = f[i] /\ i \in 0 .. k + 1
        BY <1>2, <3>2
      <4>2. f[i] = Entry(f, i)
        BY <1>2, <3>2
      <4>3. i # 0 => i - 1 \in 0 .. k + 1 /\ g[i - 1] = f[i - 1]
        BY <1>2, <3>2
      <4> QED BY <4>1, <4>2, <4>3
    <3> QED BY <2>5, <3>1, <3>2
  <2> HIDE DEF g, Entry
  <2> QED BY <2>4, <2>5
<1>3. Bad = {}
  <2> SUFFICES ASSUME Bad # {} PROVE FALSE
    OBVIOUS
  <2>1. PICK k \in Bad : \A m \in Bad : k <= m
    BY LeastNumber
  <2>2. CASE k = 0
    <3> DEFINE f == [i \in 0 .. 0 |-> << >>]
    <3>1. Good(0, f)
      OBVIOUS
    <3> QED BY <2>1, <2>2, <3>1
  <2>3. CASE k # 0
    <3> HIDE DEF Good, n
    <3>1. k \in Nat /\ k <= n /\ ~ \E g : Good(k, g)
      BY <2>1
    <3>2. k - 1 \in Nat /\ k - 1 < n /\ (k - 1) + 1 = k /\ k - 1 \notin Bad
      BY <1>1, <2>1, <2>3, <3>1
    <3>3. PICK f : Good(k - 1, f)
      BY <1>1, <3>2, <3>1
    <3>4. \E g : Good((k - 1) + 1, g)
      BY <1>2, <3>2, <3>3
    <3> QED BY <3>2, <3>1, <3>4
  <2> QED BY <2>2, <2>3
<1>4. PICK f : Good(n, f)
  <2> HIDE DEF Good
  <2> QED BY <1>1, <1>3
<1> DEFINE Body(g) == [i \in 0 .. n |-> Entry(g, i)]
<1>5. f = Body(f)
  BY <1>4
<1> DEFINE upTo == CHOOSE g : g = Body(g)
<1>6. upTo = Body(upTo)
  <2> HIDE DEF Body
  <2> QED BY <1>5
<1>7. \A i \in 0 .. n : upTo[i] = Entry(upTo, i)
  <2> HIDE DEF upTo, Entry
  <2> QED BY <1>6
<1> HIDE DEF upTo
<1> DEFINE Wrong == {i \in 0 .. n : upTo[i] \notin Seq(K)}
<1>8. Wrong = {}
  <2> SUFFICES ASSUME Wrong # {} PROVE FALSE
    OBVIOUS
  <2>1. PICK i \in Wrong : \A j \in Wrong : i <= j
    <3>1. Wrong \subseteq Nat
      OBVIOUS
    <3> QED BY <3>1, LeastNumber
  <2>2. i \in 0 .. n /\ upTo[i] \notin Seq(K)
    BY <2>1
  <2>3. upTo[i] = Entry(upTo, i)
    BY <1>7, <2>2
  <2>4. i # 0
    BY <2>2, <2>3, EmptySeq
  <2>5. i - 1 \in 0 .. n /\ i \in 1 .. n /\ ~ (i <= i - 1)
    BY <1>1, <2>2, <2>4
  <2>6. upTo[i - 1] \in Seq(K) /\ all[i] \in Ids
    BY <1>1, <2>1, <2>5
  <2>7. CASE all[i] \in S
    <3>1. upTo[i] = Append(upTo[i - 1], all[i]) /\ all[i] \in K
      BY <2>4, <2>6, <2>3, <2>7
    <3> QED BY <2>2, <2>6, <3>1, AppendProperties
  <2>8. CASE all[i] \notin S
    BY <2>2, <2>4, <2>6, <2>3, <2>8
  <2> QED BY <2>7, <2>8
<1>9. upTo[n] \in Seq(K)
  BY <1>1, <1>8
<1> QED BY <1>9 DEF InOrder, upTo, all

\* Tickets and leases are finitely many.
LEMMA IdsFinite == IsFiniteSet(Tickets) /\ IsFiniteSet(Ids)
<1>1. ASSUME NEW s, s \in Seq(Known(s))
      PROVE  IsFiniteSet(Known(s))
  <2>1. DOMAIN s = 1 .. Len(s) /\ Len(s) \in Nat
    BY <1>1, LenProperties
  <2>2. IsFiniteSet(DOMAIN s)
    BY <2>1, FS_Interval
  <2>3. s \in Surjection(DOMAIN s, Known(s))
    BY <1>1, LenProperties DEF Known, Surjection
  <2> QED BY <2>2, <2>3, FS_Surjection
<1>2. IsFiniteSet(Known(Order)) /\ IsFiniteSet(Known(RollbackIds))
  BY <1>1, AutopilotAssumption
<1> QED BY <1>2, FS_Union, AutopilotAssumption DEF Ids

LEMMA LeasedFinite ==
  /\ IsFiniteSet(Leased) /\ Cardinality(Leased) \in Nat
  /\ IsFiniteSet(Leased)' /\ Cardinality(Leased)' \in Nat
<1>1. Leased \subseteq Ids /\ Leased' \subseteq Ids
  BY DEF Leased
<1> QED BY <1>1, IdsFinite, FS_Subset, FS_CardinalityType

-----------------------------------------------------------------------------
\* Operators of the model.

\* The planned ticket a ticket leads to is a planned ticket.
LEMMA OriginType ==
  ASSUME NEW F, F \subseteq RollbackFile, NEW t \in Present(F)
  PROVE  t \in Ids /\ Origin(F, t) \in Tickets
<1>1. t \in Tickets \/ \E f \in F : f.id = t
  BY DEF Present
<1>2. \A f \in F : f.id \in Known(RollbackIds) /\ f.origin \in Tickets
  BY DEF RollbackFile
<1>3. t \notin Tickets => File(F, t) \in F /\ File(F, t).id = t
  BY <1>1 DEF File
<1> QED BY <1>1, <1>2, <1>3 DEF Origin, Ids

\* The id that rollback takes is one that no ticket has.
LEMMA FreeIdIsFree ==
  ASSUME NEW F, Known(RollbackIds) \ Present(F) # {}
  PROVE  FreeId(F) \in Known(RollbackIds) \ Present(F)
<1> DEFINE free == {i \in DOMAIN RollbackIds : RollbackIds[i] \notin Present(F)}
<1>1. free # {} /\ free \subseteq Nat /\ DOMAIN RollbackIds = 1 .. Len(RollbackIds)
  BY AutopilotAssumption, LenProperties DEF Known
<1>2. PICK i \in free : \A j \in free : i <= j
  BY <1>1, LeastNumber
<1>3. \A j \in 1 .. i - 1 : RollbackIds[j] \in Present(F)
  <2>1. i \in 1 .. Len(RollbackIds) /\ Len(RollbackIds) \in Nat
    BY <1>1, AutopilotAssumption, LenProperties
  <2> SUFFICES ASSUME NEW j \in 1 .. i - 1 PROVE j \notin free /\ j \in DOMAIN RollbackIds
    OBVIOUS
  <2>2. ~ (i <= j) /\ j \in 1 .. Len(RollbackIds)
    BY <2>1
  <2> QED BY <1>1, <1>2, <2>2
<1>4. \E i_1 \in DOMAIN RollbackIds :
        /\ RollbackIds[i_1] \notin Present(F)
        /\ \A j \in 1 .. i_1 - 1 : RollbackIds[j] \in Present(F)
  BY <1>2, <1>3
<1> QED BY <1>4 DEF FreeId, Known

\* The budget is what the leases leave of the wip.
LEMMA BudgetFits ==
  /\ Budget \in Nat
  /\ Cardinality(Leased) <= Cap => Cardinality(Leased) + Budget <= Cap
<1>1. Cap \in Nat
  BY AutopilotAssumption
<1> QED BY <1>1, LeasedFinite DEF Budget

\* What run-once starts is ready, within the mandate and within the budget.
LEMMA StartableShape ==
  ASSUME NEW F, NEW V
  PROVE  /\ Startable(F, V) \in Seq(Ids)
         /\ \A t \in Known(Startable(F, V)) : t \in Ready(F, V) /\ InMandate(F, t)
         /\ Len(Startable(F, V)) <= Budget
<1> DEFINE S == {t \in Ready(F, V) : InMandate(F, t)}
           s == InOrder(S)
           n == IF Len(s) < Budget THEN Len(s) ELSE Budget
<1>1. s \in Seq(S \cap Ids) /\ Len(s) \in Nat
  BY InOrderType, LenProperties
<1>2. Budget \in Nat
  BY BudgetFits
<1>3. n \in Nat /\ n <= Len(s) /\ n <= Budget
  BY <1>1, <1>2
<1>4. \A i \in 1 .. n : s[i] \in S \cap Ids
  BY <1>1, <1>3, LenProperties
<1> HIDE DEF n, s
<1>5. /\ SubSeq(s, 1, n) \in Seq(S \cap Ids)
      /\ Len(SubSeq(s, 1, n)) = n
  <2>1. /\ SubSeq(s, 1, n) \in Seq(S \cap Ids)
        /\ Len(SubSeq(s, 1, n)) = IF 1 <= n THEN n - 1 + 1 ELSE 0
    BY <1>3, <1>4, SubSeqProperties
  <2> QED BY <1>3, <2>1
<1>6. \A t \in Known(SubSeq(s, 1, n)) : t \in S \cap Ids
  BY <1>5, LenProperties DEF Known
<1>7. Startable(F, V) = SubSeq(s, 1, n)
  BY DEF Startable, s, n
<1> QED BY <1>3, <1>5, <1>6, <1>7

-----------------------------------------------------------------------------
\* The steps of processes.
Steps(p) ==
  \/ p \in Controllers /\ RunOnce(p)
  \/ p \in Operators /\ BeginRollback(p)
  \/ Continue(p) \/ Crash(p)

\* What a process has of its own is as it was.
Rests(p) ==
  /\ pc'[p] = pc[p] /\ seen'[p] = seen[p] /\ verified'[p] = verified[p]
  /\ queue'[p] = queue[p] /\ claim'[p] = claim[p]

Left(p) ==
  /\ pc'[p] = "idle" /\ seen'[p] = {} /\ verified'[p] = {}
  /\ queue'[p] = << >> /\ claim'[p] = NoLease

TakesNext(p) ==
  /\ pc'[p] = "dispatch" /\ claim'[p] = NoLease
  /\ queue'[p] = Tail(queue[p]) /\ queue'[p] # << >>
  /\ seen'[p] = seen[p] /\ verified'[p] = verified[p]

LEMMA NextMeans ==
  ASSUME [Next]_vars
  PROVE  \/ \E p \in Run : Steps(p)
         \/ UNCHANGED <<rollbacks, leases, pc, own, workers>>
            /\ (World \/ ChangePolicy \/ UNCHANGED vars)
BY DEF Next, Steps, Run, World, ChangePolicy, vars, aux

LEMMA LeaveShape ==
  ASSUME OwnShape, NEW p \in Run, Leave(p)
  PROVE  OwnShape' /\ Left(p)
<1>1. NoLease \in Lease /\ << >> \in Seq(Ids) /\ "idle" \in Stages
  BY EmptySeq DEF NoLease, Lease, Stages
<1> QED BY <1>1 DEF OwnShape, Leave, Left

\* The ticket a process is at is a ticket.
LEMMA HeadType ==
  ASSUME OwnShape, NEW p \in Run, queue[p] # << >>
  PROVE  /\ Head(queue[p]) \in Ids /\ Head(queue[p]) \in Known(queue[p])
         /\ Tail(queue[p]) \in Seq(Ids)
         /\ Known(Tail(queue[p])) \subseteq Known(queue[p])
         /\ Len(queue[p]) \in Nat /\ Len(queue[p]) # 0
         /\ Len(Tail(queue[p])) = Len(queue[p]) - 1
<1> DEFINE s == queue[p]
<1>1. s \in Seq(Ids) /\ s # << >>
  BY DEF OwnShape
<1> HIDE DEF s
<1>2. /\ Head(s) \in Ids /\ Head(s) = s[1] /\ Tail(s) \in Seq(Ids)
      /\ Len(Tail(s)) = Len(s) - 1
      /\ Len(s) \in Nat /\ Len(s) # 0
      /\ DOMAIN s = 1 .. Len(s)
      /\ DOMAIN Tail(s) = 1 .. Len(s) - 1
  BY <1>1, HeadTailProperties, LenProperties, EmptySeq
<1>3. \A i \in 1 .. Len(s) - 1 : Tail(s)[i] = s[i + 1]
  BY <1>1, HeadTailProperties
<1>4. \A i \in DOMAIN Tail(s) : i + 1 \in DOMAIN s /\ Tail(s)[i] = s[i + 1]
  BY <1>2, <1>3
<1>5. 1 \in DOMAIN s
  BY <1>2
<1> QED BY <1>2, <1>4, <1>5 DEF s, Known

LEMMA NextTicketShape ==
  ASSUME OwnShape, NEW p \in Run, queue[p] # << >>, NextTicket(p)
  PROVE  OwnShape' /\ (Left(p) \/ TakesNext(p))
<1>1. CASE Leave(p)
  BY <1>1, LeaveShape
<1>2. CASE ~ Leave(p)
  <2>1. /\ Len(queue[p]) # 1
        /\ pc' = [pc EXCEPT ![p] = "dispatch"]
        /\ queue' = [queue EXCEPT ![p] = Tail(@)]
        /\ claim' = [claim EXCEPT ![p] = NoLease]
        /\ UNCHANGED <<seen, verified>>
    BY <1>2 DEF NextTicket
  <2>2. Tail(queue[p]) \in Seq(Ids) /\ Len(Tail(queue[p])) # 0
    BY <2>1, HeadType
  <2>3. Tail(queue[p]) # << >>
    BY <2>2, EmptySeq
  <2>4. NoLease \in Lease /\ "dispatch" \in Stages
    BY DEF NoLease, Lease, Stages
  <2> QED BY <2>1, <2>2, <2>3, <2>4 DEF OwnShape, TakesNext
<1> QED BY <1>1, <1>2

\* Nobody's step moves another process.
LEMMA OthersRest ==
  ASSUME OwnShape, NEW p \in Run, Steps(p), NEW q \in Run, q # p
  PROVE  Rests(q)
<1>1. ASSUME Leave(p) \/ NextTicket(p)
      PROVE  Rests(q)
  BY <1>1 DEF OwnShape, NextTicket, Leave, Rests
<1>2. CASE RunOnce(p) \/ BeginRollback(p)
  BY <1>2 DEF OwnShape, RunOnce, BeginRollback, Goto, Rests
<1>3. CASE CollectFacts(p) \/ LookUp(p) \/ ReadLease(p) \/ WriteLease(p) \/ Invoke(p)
  BY <1>3 DEF OwnShape, CollectFacts, LookUp, ReadLease, WriteLease, Invoke, Goto,
              own, Rests
<1>4. CASE Plan(p)
  <2>1. \/ Leave(p)
        \/ /\ pc' = [pc EXCEPT ![p] = "dispatch"]
           /\ \E plan : queue' = [queue EXCEPT ![p] = plan]
           /\ UNCHANGED <<seen, verified, claim>>
    BY <1>4 DEF Plan
  <2> QED BY <1>1, <2>1 DEF OwnShape, Rests
<1>5. CASE FactsUnavailable(p) \/ Resume(p) \/ NotWired(p) \/ Worked(p)
             \/ WorkFailed(p) \/ WriteRollback(p) \/ Crash(p)
  BY <1>1, <1>5 DEF FactsUnavailable, Resume, NotWired, Worked, WorkFailed,
                    WriteRollback, Crash
<1> QED BY <1>2, <1>3, <1>4, <1>5 DEF Steps, Continue

-----------------------------------------------------------------------------
\* The shape of the state is kept.

\* Rollback tickets are only added, and policies only go up.
Onward == rollbacks \subseteq rollbacks' /\ policy <= policy'

\* A worker delivers at most a pull request more.
LEMMA DeliverShape ==
  ASSUME Shape, NEW t \in Ids, Deliver(t)
  PROVE  /\ pulls' \in [Ids -> Seq(PullState)]
         /\ \A u \in Ids : Len(pulls'[u]) <= MaxPulls
<1>1. /\ pulls \in [Ids -> Seq(PullState)]
      /\ \A u \in Ids : Len(pulls[u]) <= MaxPulls
  BY DEF Shape, WorldShape, Bounded
<1>2. CASE UNCHANGED pulls
  BY <1>1, <1>2
<1>3. CASE ~ UNCHANGED pulls
  <2> DEFINE s == pulls[t]
             longer == <<"open">> \o s
  <2>1. pulls' = [pulls EXCEPT ![t] = longer] /\ Len(s) # MaxPulls
    BY <1>3 DEF Deliver
  <2>2. s \in Seq(PullState) /\ Len(s) \in Nat /\ Len(s) <= MaxPulls /\ MaxPulls \in Nat
    BY <1>1, LenProperties, AutopilotAssumption
  <2>3. <<"open">> \in Seq(PullState) /\ Len(<<"open">>) = 1
    BY DEF PullState
  <2> HIDE DEF s
  <2>4. longer \in Seq(PullState) /\ Len(longer) = 1 + Len(s)
    BY <2>2, <2>3, ConcatProperties
  <2> HIDE DEF longer
  <2>5. Len(longer) <= MaxPulls
    BY <2>1, <2>2, <2>4
  <2> QED BY <1>1, <2>1, <2>4, <2>5
<1> QED BY <1>2, <1>3

\* What a step of a process does to all that is not its own.
LEMMA StepKeepsWorld ==
  ASSUME Shape, NEW p \in Run, Steps(p)
  PROVE  /\ WorldShape' /\ Onward /\ policy' = policy
         /\ \A t \in Ids : leases'[t].policy <= policy /\ Len(pulls'[t]) <= MaxPulls
<1>1. /\ WorldShape /\ OwnShape /\ Loaded(p) /\ policy \in Nat
      /\ claim[p] \in Lease /\ claim[p].policy <= policy
      /\ \A t \in Ids : leases[t].policy <= policy /\ Len(pulls[t]) <= MaxPulls
  BY AutopilotAssumption DEF Shape, Bounded, OwnShape, WorldShape
<1>2. policy <= policy
  BY <1>1
<1>3. ASSUME Fault
      PROVE  faults' \in 0 .. MaxFaults
  <2>1. MaxFaults \in Nat
    BY AutopilotAssumption
  <2> QED BY <1>1, <1>3, <2>1 DEF Fault, WorldShape
<1>4. CASE \/ RunOnce(p) \/ BeginRollback(p) \/ CollectFacts(p) \/ Plan(p)
           \/ Resume(p) \/ ReadLease(p)
  BY <1>1, <1>2, <1>4 DEF RunOnce, BeginRollback, CollectFacts, Plan, Resume,
                          ReadLease, aux, WorldShape, Onward
<1>5. CASE FactsUnavailable(p) \/ LookUp(p) \/ NotWired(p)
  <2>1. faults' \in 0 .. MaxFaults /\ UNCHANGED <<rollbacks, policy, leases, pulls, aux>>
    BY <1>1, <1>3, <1>5 DEF FactsUnavailable, LookUp, NotWired, WorldShape
  <2> QED BY <1>1, <1>2, <2>1 DEF aux, WorldShape, Onward
<1>6. CASE WriteLease(p)
  <2>1. Head(queue[p]) \in Ids
    BY <1>1, <1>6, HeadType DEF WriteLease, Goto, Loaded, Dispatching, Claiming
  <2>2. /\ leases' = [leases EXCEPT ![Head(queue[p])] = claim[p]]
        /\ UNCHANGED <<rollbacks, policy, pulls, faults, aux>>
    BY <1>6 DEF WriteLease
  <2> QED BY <1>1, <1>2, <2>1, <2>2 DEF aux, WorldShape, Onward
<1>7. CASE Invoke(p)
  <2> DEFINE t == Head(queue[p])
             v == claim[p].policy
  <2>1. t \in Ids /\ v # 0
    BY <1>1, <1>7, HeadType DEF Invoke, Goto, Loaded, Dispatching, Claiming
  <2>2. v \in 1 .. MaxPolicy + 1
    <3>1. v \in Nat /\ policy <= MaxPolicy + 1 /\ MaxPolicy \in Nat
      BY <1>1, AutopilotAssumption DEF WorldShape, Lease
    <3> QED BY <1>1, <2>1, <3>1
  <2>3. /\ workers' = [workers EXCEPT ![t][v] = @ + 1]
        /\ UNCHANGED <<rollbacks, policy, leases, pulls, faults, proven>>
    BY <1>7 DEF Invoke
  <2> HIDE DEF t, v
  <2>4. workers' \in [Ids -> [1 .. MaxPolicy + 1 -> Nat]]
    <3>1. workers[t] \in [1 .. MaxPolicy + 1 -> Nat]
      BY <1>1, <2>1 DEF WorldShape
    <3>2. workers[t][v] + 1 \in Nat
      <4>1. workers[t][v] \in Nat
        BY <2>2, <3>1
      <4> QED BY <4>1
    <3>3. [workers[t] EXCEPT ![v] = @ + 1] \in [1 .. MaxPolicy + 1 -> Nat]
      BY <3>1, <3>2
    <3> QED BY <1>1, <2>1, <2>3, <3>3 DEF WorldShape
  <2> QED BY <1>1, <1>2, <2>3, <2>4 DEF WorldShape, Onward
<1>8. CASE Worked(p) \/ WorkFailed(p) \/ Crash(p)
  <2>1. faults' \in 0 .. MaxFaults /\ UNCHANGED <<rollbacks, policy, leases, aux>>
    BY <1>1, <1>3, <1>8 DEF Worked, WorkFailed, Crash, WorldShape
  <2>2. UNCHANGED pulls \/ (pc[p] = "work" /\ Deliver(Head(queue[p])))
    BY <1>8 DEF Worked, WorkFailed, Crash
  <2>3. pc[p] = "work" => Head(queue[p]) \in Ids
    BY <1>1, HeadType DEF Loaded, Dispatching, Claiming
  <2>4. /\ pulls' \in [Ids -> Seq(PullState)]
        /\ \A u \in Ids : Len(pulls'[u]) <= MaxPulls
    BY <1>1, <2>2, <2>3, DeliverShape DEF WorldShape
  <2> QED BY <1>1, <1>2, <2>1, <2>4 DEF aux, WorldShape, Onward
<1>9. CASE WriteRollback(p)
  <2> DEFINE F == seen[p]
             file(t) == [id |-> FreeId(F), of |-> t, origin |-> Origin(F, t)]
  <2>1. PICK t \in Present(F) : rollbacks' = rollbacks \cup {file(t)}
    BY <1>9 DEF WriteRollback
  <2>2. F \subseteq RollbackFile /\ Known(RollbackIds) \ Present(F) # {}
    BY <1>1, <1>9 DEF WriteRollback, Loaded, OwnShape
  <2>3. file(t) \in RollbackFile
    <3>1. t \in Ids /\ Origin(F, t) \in Tickets /\ FreeId(F) \in Known(RollbackIds)
      BY <2>2, OriginType, FreeIdIsFree
    <3> QED BY <3>1 DEF RollbackFile
  <2> HIDE DEF file
  <2>4. UNCHANGED <<policy, leases, pulls, faults, aux>>
    BY <1>9 DEF WriteRollback
  <2> QED BY <1>1, <1>2, <2>1, <2>3, <2>4 DEF aux, WorldShape, Onward
<1> QED BY <1>4, <1>5, <1>6, <1>7, <1>8, <1>9 DEF Steps, Continue
\* What a step of a process leaves of its own.
LEMMA StepKeepsOwn ==
  ASSUME Shape, NEW p \in Run, Steps(p)
  PROVE  OwnShape' /\ Loaded(p)' /\ claim'[p].policy <= policy
<1>1. /\ WorldShape /\ OwnShape /\ Loaded(p) /\ policy \in Nat /\ policy # 0
      /\ claim[p] \in Lease /\ claim[p].policy <= policy
      /\ policy <= policy /\ 0 <= policy /\ NoLease.policy = 0
  BY AutopilotAssumption DEF Shape, Bounded, OwnShape, WorldShape, NoLease
<1>2. rollbacks \subseteq rollbacks'
  BY StepKeepsWorld DEF Onward
<1>3. ASSUME Left(p) \/ (TakesNext(p) /\ queue[p] # << >>), OwnShape'
      PROVE  OwnShape' /\ Loaded(p)' /\ claim'[p].policy <= policy
  <2>1. claim'[p].policy <= policy /\ seen'[p] \subseteq rollbacks'
    BY <1>1, <1>2, <1>3 DEF Left, TakesNext, Loaded
  <2>2. pc'[p] \in {"idle", "dispatch"} /\ (pc'[p] = "dispatch" => queue'[p] # << >>)
    BY <1>3 DEF Left, TakesNext
  <2> QED BY <1>3, <2>1, <2>2 DEF Loaded, Dispatching, Claiming
<1>4. CASE FactsUnavailable(p) \/ WriteRollback(p) \/ Crash(p)
  <2>1. Leave(p)
    BY <1>4 DEF FactsUnavailable, WriteRollback, Crash
  <2> QED BY <1>1, <1>3, <2>1, LeaveShape
<1>5. CASE Resume(p) \/ NotWired(p) \/ Worked(p) \/ WorkFailed(p)
  <2>1. NextTicket(p) /\ queue[p] # << >>
    BY <1>1, <1>5 DEF Resume, NotWired, Worked, WorkFailed, Loaded, Dispatching, Claiming
  <2> QED BY <1>1, <1>3, <2>1, NextTicketShape
<1>6. CASE RunOnce(p) \/ BeginRollback(p)
  <2> DEFINE to == IF RunOnce(p) THEN "facts" ELSE "rollback"
  <2>1. /\ pc' = [pc EXCEPT ![p] = to]
        /\ seen' = [seen EXCEPT ![p] = rollbacks]
        /\ UNCHANGED <<rollbacks, verified, queue, claim>>
    BY <1>6 DEF RunOnce, BeginRollback, Goto
  <2>2. to = "rollback" => Known(RollbackIds) \ Present(rollbacks) # {}
    BY <1>6 DEF BeginRollback
  <2>3. to \in {"facts", "rollback"} /\ {"facts", "rollback"} \subseteq Stages
    BY DEF Stages
  <2> HIDE DEF to
  <2>4. OwnShape'
    BY <1>1, <2>1, <2>3 DEF OwnShape, WorldShape
  <2>5. pc'[p] = to /\ seen'[p] = rollbacks /\ claim'[p] = claim[p]
    BY <1>1, <2>1 DEF OwnShape
  <2> QED BY <1>1, <2>1, <2>2, <2>3, <2>4, <2>5 DEF Loaded, Dispatching, Claiming
<1>7. CASE CollectFacts(p)
  <2> DEFINE M == {t \in Present(rollbacks) : IsMerged(t)}
             merged == InOrder(M)
  <2>1. /\ pc' = [pc EXCEPT ![p] = "plan"] /\ queue' = [queue EXCEPT ![p] = merged]
        /\ UNCHANGED <<rollbacks, seen, verified, claim>>
    BY <1>7 DEF CollectFacts, Goto
  <2>2. merged \in Seq(Ids)
    <3> HIDE DEF M
    <3>1. merged \in Seq(M \cap Ids) /\ M \cap Ids \subseteq Ids
      BY InOrderType
    <3> QED BY <3>1, SeqMonotonic
  <2> HIDE DEF merged
  <2> QED BY <1>1, <2>1, <2>2 DEF OwnShape, Loaded, Dispatching, Claiming, Stages
<1>8. CASE LookUp(p)
  <2>1. /\ queue' = [queue EXCEPT ![p] = Tail(@)] /\ queue[p] # << >> /\ pc[p] = "plan"
        /\ \/ verified' = [verified EXCEPT ![p] = @ \cup {Head(queue[p])}]
           \/ UNCHANGED verified
        /\ UNCHANGED <<rollbacks, pc, seen, claim>>
    BY <1>1, <1>8 DEF LookUp, OwnShape
  <2>2. Head(queue[p]) \in Ids /\ Tail(queue[p]) \in Seq(Ids)
    BY <1>1, <2>1, HeadType
  <2> QED BY <1>1, <2>1, <2>2 DEF OwnShape, Loaded, Dispatching, Claiming
<1>9. CASE Plan(p)
  <2> DEFINE plan == Startable(seen[p], verified[p])
  <2>1. CASE plan = << >>
    <3>1. Leave(p)
      BY <1>9, <2>1 DEF Plan
    <3> QED BY <1>1, <1>3, <3>1, LeaveShape
  <2>2. CASE plan # << >>
    <3>1. /\ pc' = [pc EXCEPT ![p] = "dispatch"] /\ queue' = [queue EXCEPT ![p] = plan]
          /\ UNCHANGED <<rollbacks, seen, verified, claim>>
      BY <1>9, <2>2 DEF Plan
    <3>2. plan \in Seq(Ids)
      BY StartableShape
    <3> HIDE DEF plan
    <3> QED BY <1>1, <2>2, <3>1, <3>2 DEF OwnShape, Loaded, Dispatching, Claiming, Stages
  <2> QED BY <2>1, <2>2
<1>10. CASE ReadLease(p)
  <2> DEFINE lease == [policy |-> policy, attempt |-> leases[Head(queue[p])].attempt + 1]
  <2>1. /\ pc[p] = "dispatch" /\ pc' = [pc EXCEPT ![p] = "claim"]
        /\ claim' = [claim EXCEPT ![p] = lease]
        /\ UNCHANGED <<rollbacks, policy, leases, seen, verified, queue>>
    BY <1>10 DEF ReadLease, Goto
  <2>2. queue[p] # << >>
    BY <1>1, <2>1 DEF Loaded, Dispatching
  <2>3. lease \in Lease /\ lease.policy = policy
    <3>1. leases[Head(queue[p])].attempt \in Nat
      BY <1>1, <2>2, HeadType DEF WorldShape, Lease
    <3>2. leases[Head(queue[p])].attempt + 1 \in Nat
      BY <3>1
    <3> QED BY <1>1, <3>2 DEF Lease
  <2> HIDE DEF lease
  <2> QED BY <1>1, <2>1, <2>2, <2>3 DEF OwnShape, Loaded, Dispatching, Claiming, Stages
<1>11. CASE WriteLease(p) \/ Invoke(p)
  <2> DEFINE to == IF WriteLease(p) THEN "invoke" ELSE "work"
  <2>1. /\ Claiming(p) /\ pc' = [pc EXCEPT ![p] = to]
        /\ UNCHANGED <<rollbacks, policy, own>>
    BY <1>11 DEF WriteLease, Invoke, Goto, Claiming
  <2>2. to \in {"invoke", "work"} /\ {"invoke", "work"} \subseteq Stages
    BY DEF Stages
  <2> HIDE DEF to
  <2> QED BY <1>1, <2>1, <2>2 DEF OwnShape, Loaded, Dispatching, Claiming, own
<1> QED BY <1>4, <1>5, <1>6, <1>7, <1>8, <1>9, <1>10, <1>11 DEF Steps, Continue
\* The rest of the world changes pull requests and the policy only.
LEMMA WorldMoves ==
  ASSUME Shape, World
  PROVE  /\ UNCHANGED <<rollbacks, policy, leases, pc, own, workers>>
         /\ faults' \in 0 .. MaxFaults
         /\ \E t \in Ids, from, to \in PullState :
              /\ SetPull(t, from, to)
              /\ \/ to # "success" /\ proven' = proven
                 \/ proven' = proven \cup {t}
<1>1. /\ UNCHANGED <<rollbacks, policy, leases, pc, own, workers>>
      /\ \E t \in Ids : Merge(t) \/ PostMerge(t) \/ PostMergeFails(t) \/ Rerun(t)
  BY DEF World
<1>2. PICK t \in Ids : Merge(t) \/ PostMerge(t) \/ PostMergeFails(t) \/ Rerun(t)
  BY <1>1
<1>3. Fault \/ UNCHANGED faults => faults' \in 0 .. MaxFaults
  <2>1. MaxFaults \in Nat /\ faults \in 0 .. MaxFaults
    BY AutopilotAssumption DEF Shape, WorldShape
  <2> QED BY <2>1 DEF Fault
<1>4. \E from, to \in PullState :
        /\ SetPull(t, from, to)
        /\ \/ to # "success" /\ proven' = proven
           \/ proven' = proven \cup {t}
  <2>1. {"open", "pending", "success", "failure"} \subseteq PullState
    BY DEF PullState
  <2>2. CASE Merge(t)
    BY <2>1, <2>2 DEF Merge
  <2>3. CASE PostMerge(t)
    BY <2>1, <2>3 DEF PostMerge
  <2>4. CASE PostMergeFails(t)
    BY <2>1, <2>4 DEF PostMergeFails
  <2>5. CASE Rerun(t)
    BY <2>1, <2>5 DEF Rerun
  <2> QED BY <1>2, <2>2, <2>3, <2>4, <2>5
<1>5. Fault \/ UNCHANGED faults
  BY <1>2 DEF Merge, PostMerge, PostMergeFails, Rerun
<1> QED BY <1>1, <1>3, <1>4, <1>5

LEMMA SetPullShape ==
  ASSUME Shape, NEW t \in Ids, NEW from \in PullState, NEW to \in PullState,
         SetPull(t, from, to)
  PROVE  /\ pulls' \in [Ids -> Seq(PullState)]
         /\ \A u \in Ids : Len(pulls'[u]) = Len(pulls[u])
         /\ \A u \in Ids : \A i \in DOMAIN pulls'[u] :
              /\ i \in DOMAIN pulls[u]
              /\ pulls'[u][i] = pulls[u][i] \/ (u = t /\ pulls'[u][i] = to)
<1> DEFINE s == pulls[t]
<1>1. pulls \in [Ids -> Seq(PullState)] /\ s \in Seq(PullState)
  BY DEF Shape, WorldShape
<1>2. PICK i \in DOMAIN s : pulls' = [pulls EXCEPT ![t][i] = to]
  BY DEF SetPull
<1> DEFINE r == [s EXCEPT ![i] = to]
<1>3. r \in Seq(PullState) /\ Len(r) = Len(s) /\ DOMAIN r = DOMAIN s
      /\ \A j \in DOMAIN s : r[j] = IF j = i THEN to ELSE s[j]
  BY <1>1, <1>2, ExceptSeq, LenProperties
<1>4. pulls' = [pulls EXCEPT ![t] = r]
  BY <1>1, <1>2
<1> HIDE DEF r
<1>5. \A u \in Ids : pulls'[u] = IF u = t THEN r ELSE pulls[u]
  BY <1>1, <1>4
<1> QED BY <1>1, <1>3, <1>4, <1>5
LEMMA ShapeInvariant == Spec => []Shape
<1>1. Init => Shape
  <2> SUFFICES ASSUME Init PROVE Shape
    OBVIOUS
  <2>1. NoLease \in Lease /\ NoLease.policy = 0 /\ "idle" \in Stages
    BY DEF NoLease, Lease, Stages
  <2>2. /\ << >> \in Seq(Ids) /\ << >> \in Seq(PullState) /\ Len(<< >>) = 0
        /\ MaxPolicy \in Nat /\ MaxFaults \in Nat /\ MaxPulls \in Nat
    BY AutopilotAssumption, EmptySeq
  <2>3. 0 \in 0 .. MaxFaults /\ 1 \in 1 .. MaxPolicy + 1 /\ 0 <= 1 /\ 0 <= MaxPulls
    BY <2>2
  <2>4. WorldShape
    BY <2>1, <2>2, <2>3 DEF Init, WorldShape
  <2>5. OwnShape
    BY <2>1, <2>2 DEF Init, OwnShape
  <2>6. Bounded
    BY <2>1, <2>2, <2>3 DEF Init, Bounded
  <2>7. \A p \in Run : Loaded(p)
    BY DEF Init, Loaded, Dispatching, Claiming
  <2> QED BY <2>4, <2>5, <2>6, <2>7 DEF Shape
<1>2. Shape /\ [Next]_vars => Shape'
  <2> SUFFICES ASSUME Shape, [Next]_vars PROVE Shape'
    OBVIOUS
  <2>1. /\ WorldShape /\ OwnShape /\ Bounded /\ policy \in Nat
        /\ \A p \in Run : Loaded(p)
    BY AutopilotAssumption DEF Shape, WorldShape
  <2>2. ASSUME NEW p \in Run, Steps(p)
        PROVE  Shape'
    <3>1. /\ WorldShape' /\ Onward /\ policy' = policy
          /\ \A t \in Ids : leases'[t].policy <= policy /\ Len(pulls'[t]) <= MaxPulls
      BY <2>2, StepKeepsWorld
    <3>2. OwnShape' /\ Loaded(p)' /\ claim'[p].policy <= policy
      BY <2>2, StepKeepsOwn
    <3>3. ASSUME NEW q \in Run, q # p
          PROVE  Loaded(q)' /\ claim'[q].policy <= policy
      <4>1. Rests(q) /\ Loaded(q) /\ claim[q].policy <= policy
        BY <2>1, <2>2, <3>3, OthersRest DEF Bounded
      <4>2. Present(seen'[q]) = Present(seen[q])
        BY <4>1 DEF Rests
      <4> QED BY <3>1, <4>1, <4>2 DEF Rests, Loaded, Dispatching, Claiming, Onward
    <3> QED BY <3>1, <3>2, <3>3 DEF Shape, Bounded
  <2>3. CASE World
    <3>1. /\ UNCHANGED <<rollbacks, policy, leases, pc, own, workers>>
          /\ faults' \in 0 .. MaxFaults
          /\ \E t \in Ids, from, to \in PullState :
               /\ SetPull(t, from, to)
               /\ proven' = proven \/ proven' = proven \cup {t}
      BY <2>3, WorldMoves
    <3>2. PICK t \in Ids, from \in PullState, to \in PullState :
            /\ SetPull(t, from, to)
            /\ proven' = proven \/ proven' = proven \cup {t}
      BY <3>1
    <3>3. /\ pulls' \in [Ids -> Seq(PullState)]
          /\ \A u \in Ids : Len(pulls'[u]) = Len(pulls[u])
      BY <3>2, SetPullShape
    <3>4. WorldShape'
      BY <2>1, <3>1, <3>2, <3>3 DEF WorldShape
    <3>5. OwnShape' /\ \A p \in Run : Loaded(p)'
      BY <2>1, <3>1 DEF OwnShape, Loaded, Dispatching, Claiming, own
    <3>6. Bounded'
      BY <2>1, <3>1, <3>3 DEF Bounded, own
    <3> QED BY <3>4, <3>5, <3>6 DEF Shape
  <2>4. CASE ChangePolicy
    <3>1. /\ policy <= MaxPolicy /\ policy' = policy + 1
          /\ UNCHANGED <<rollbacks, leases, pulls, pc, own, faults, aux>>
      BY <2>4 DEF ChangePolicy
    <3>2. MaxPolicy \in Nat /\ policy' \in 1 .. MaxPolicy + 1
          /\ policy' \in Nat /\ policy <= policy'
      BY <2>1, <3>1, AutopilotAssumption
    <3>3. WorldShape'
      BY <2>1, <3>1, <3>2 DEF WorldShape, aux
    <3>4. OwnShape' /\ \A p \in Run : Loaded(p)'
      BY <2>1, <3>1 DEF OwnShape, Loaded, Dispatching, Claiming, own
    <3>5. Bounded'
      <4>1. \A n \in Nat : n <= policy => n <= policy'
        BY <2>1, <3>2
      <4>2. /\ \A t \in Ids : leases[t].policy \in Nat
            /\ \A p \in Run : claim[p].policy \in Nat
        BY <2>1 DEF WorldShape, OwnShape, Lease
      <4> QED BY <2>1, <3>1, <4>1, <4>2 DEF Bounded, own
    <3> QED BY <3>3, <3>4, <3>5 DEF Shape
  <2>5. CASE UNCHANGED vars
    BY <2>1, <2>5 DEF vars, own, aux, Shape, WorldShape, OwnShape, Bounded, Loaded,
                      Dispatching, Claiming
  <2> QED BY <2>2, <2>3, <2>4, <2>5, NextMeans
<1> QED BY <1>1, <1>2, PTL DEF Spec

(***************************************************************************)
(* The controllers and operators keep every file and every variable in its *)
(* shape: leases and claims carry a policy there has been, and a run that  *)
(* dispatches has a ticket to dispatch.                                    *)
(***************************************************************************)
THEOREM ControllersKeepTypes == Spec => []TypeOK
<1>1. Shape => TypeOK
  <2> SUFFICES ASSUME Shape PROVE TypeOK
    OBVIOUS
  <2>1. /\ WorldShape /\ OwnShape /\ policy \in Nat
        /\ \A t \in Ids : leases[t].policy <= policy /\ Len(pulls[t]) <= MaxPulls
        /\ \A p \in Run : claim[p].policy <= policy /\ Loaded(p)
    BY AutopilotAssumption DEF Shape, WorldShape, Bounded
  <2>2. ASSUME NEW l \in Lease, l.policy <= policy
        PROVE  l \in [policy : 0 .. policy, attempt : Nat]
    BY <2>1, <2>2 DEF Lease
  <2>3. leases \in [Ids -> [policy : 0 .. policy, attempt : Nat]]
    BY <2>1, <2>2 DEF WorldShape
  <2>4. ASSUME NEW S, NEW s \in Seq(S)
        PROVE  Known(s) \subseteq S
    BY LenProperties DEF Known
  <2>5. \A t \in Ids : Known(pulls[t]) \subseteq {"open", "pending", "success", "failure"}
    BY <2>1, <2>4 DEF WorldShape, PullState
  <2>6. ASSUME NEW p \in Run
        PROVE  /\ seen[p] \subseteq rollbacks /\ verified[p] \subseteq Ids
               /\ Known(queue[p]) \subseteq Ids
               /\ pc[p] \in {"dispatch", "claim", "invoke", "work"} => queue[p] # << >>
               /\ claim[p] \in [policy : 0 .. policy, attempt : Nat]
    <3>1. /\ seen[p] \subseteq rollbacks /\ verified[p] \subseteq Ids
          /\ queue[p] \in Seq(Ids) /\ claim[p] \in Lease
      BY <2>1 DEF OwnShape, Loaded
    <3>2. claim[p] \in [policy : 0 .. policy, attempt : Nat]
      BY <2>1, <2>2, <3>1
    <3>3. Known(queue[p]) \subseteq Ids
      BY <2>4, <3>1
    <3>4. pc[p] \in {"dispatch", "claim", "invoke", "work"} => queue[p] # << >>
      BY <2>1 DEF Loaded, Dispatching, Claiming
    <3> QED BY <3>1, <3>2, <3>3, <3>4
  <2> QED BY <2>1, <2>3, <2>5, <2>6 DEF TypeOK, WorldShape, OwnShape, RollbackFile
<1> QED BY <1>1, ShapeInvariant, PTL
-----------------------------------------------------------------------------
\* Workers start on proven dependencies.

\* Pull requests are never withdrawn.
Kept == \A t \in Ids : pulls[t] # << >> => pulls'[t] # << >>

LEMMA DeliverRecords ==
  ASSUME Shape, Recorded, NEW t \in Ids, UNCHANGED proven,
         UNCHANGED pulls \/ Deliver(t)
  PROVE  Recorded' /\ Kept
<1>1. CASE UNCHANGED pulls
  BY <1>1 DEF Recorded, Kept
<1>2. CASE ~ UNCHANGED pulls
  <2> DEFINE s == pulls[t]
             longer == <<"open">> \o s
  <2>1. /\ pulls' = [pulls EXCEPT ![t] = longer] /\ pulls \in [Ids -> Seq(PullState)]
        /\ s \in Seq(PullState)
    BY <1>2 DEF Deliver, Shape, WorldShape
  <2> HIDE DEF s
  <2>2. <<"open">> \in Seq(PullState) /\ Len(<<"open">>) = 1 /\ <<"open">>[1] = "open"
    BY DEF PullState
  <2>3. /\ longer \in Seq(PullState) /\ Len(longer) = 1 + Len(s)
        /\ \A i \in 1 .. 1 + Len(s) :
             longer[i] = IF i <= 1 THEN <<"open">>[i] ELSE s[i - 1]
    BY <2>1, <2>2, ConcatProperties
  <2>4. Len(s) \in Nat /\ DOMAIN s = 1 .. Len(s) /\ DOMAIN longer = 1 .. Len(longer)
    BY <2>1, <2>3, LenProperties
  <2> HIDE DEF longer
  <2>5. ASSUME NEW i \in DOMAIN longer, longer[i] = "success"
        PROVE  \E j \in DOMAIN s : s[j] = "success"
    <3> DEFINE n == Len(s)
    <3>1. n \in Nat /\ i \in 1 .. 1 + n
      BY <2>3, <2>4, <2>5
    <3> HIDE DEF n
    <3>2. i # 1
      <4>1. i = 1 => longer[i] = "open"
        BY <2>2, <2>3, <3>1 DEF n
      <4> QED BY <2>5, <4>1
    <3>3. i - 1 \in 1 .. n /\ ~ (i <= 1)
      BY <3>1, <3>2
    <3>4. longer[i] = s[i - 1]
      BY <2>3, <3>1, <3>3 DEF n
    <3> QED BY <2>4, <2>5, <3>3, <3>4 DEF n
  <2>6. longer # << >>
    <3>1. Len(longer) # 0
      BY <2>3, <2>4
    <3> QED BY <3>1
  <2>7. \A u \in Ids : pulls'[u] = IF u = t THEN longer ELSE pulls[u]
    BY <2>1
  <2> QED BY <2>5, <2>6, <2>7 DEF Recorded, Kept, s
<1> QED BY <1>1, <1>2

\* A step of a process proves nothing and withdraws nothing.
LEMMA StepRecords ==
  ASSUME Shape, Recorded, NEW p \in Run, Steps(p)
  PROVE  Recorded' /\ Kept /\ UNCHANGED proven
<1>1. UNCHANGED pulls \/ (pc[p] = "work" /\ Deliver(Head(queue[p])))
  BY DEF Steps, Continue, RunOnce, BeginRollback, CollectFacts, FactsUnavailable,
         LookUp, Plan, Resume, ReadLease, WriteLease, Invoke, NotWired, Worked,
         WorkFailed, WriteRollback, Crash
<1>2. UNCHANGED proven
  BY DEF Steps, Continue, RunOnce, BeginRollback, CollectFacts, FactsUnavailable,
         LookUp, Plan, Resume, ReadLease, WriteLease, Invoke, NotWired, Worked,
         WorkFailed, WriteRollback, Crash, aux
<1>3. CASE UNCHANGED pulls
  BY <1>2, <1>3 DEF Recorded, Kept
<1>4. CASE pc[p] = "work" /\ Deliver(Head(queue[p]))
  <2>1. Head(queue[p]) \in Ids
    BY <1>4, HeadType DEF Shape, Loaded, Dispatching, Claiming
  <2> QED BY <1>2, <1>4, <2>1, DeliverRecords
<1> QED BY <1>1, <1>3, <1>4

\* What is found verified has been proven, and what is waited for is verified.
LEMMA StepWaits ==
  ASSUME Shape, ProvenInv, NEW p \in Run, Steps(p)
  PROVE  Waited(p)'
<1>1. OwnShape /\ Loaded(p) /\ Recorded /\ Waited(p) /\ WorldShape
  BY DEF Shape, ProvenInv
<1>2. Kept /\ UNCHANGED proven
  BY <1>1, StepRecords
<1>3. ASSUME Left(p) \/ TakesNext(p)
      PROVE  Waited(p)'
  BY <1>1, <1>2, <1>3 DEF Left, TakesNext, Waited, Claiming
<1>4. CASE FactsUnavailable(p) \/ WriteRollback(p) \/ Crash(p)
  <2>1. Leave(p)
    BY <1>4 DEF FactsUnavailable, WriteRollback, Crash
  <2> QED BY <1>1, <1>3, <2>1, LeaveShape
<1>5. CASE Resume(p) \/ NotWired(p) \/ Worked(p) \/ WorkFailed(p)
  <2>1. NextTicket(p) /\ queue[p] # << >>
    BY <1>1, <1>5 DEF Resume, NotWired, Worked, WorkFailed, Loaded, Dispatching, Claiming
  <2> QED BY <1>1, <1>3, <2>1, NextTicketShape
<1>6. CASE RunOnce(p) \/ BeginRollback(p)
  <2>1. pc'[p] \in {"facts", "rollback"} /\ UNCHANGED verified
    BY <1>1, <1>6 DEF RunOnce, BeginRollback, Goto, OwnShape
  <2> QED BY <1>1, <1>2, <2>1 DEF Waited, Claiming
<1>7. CASE CollectFacts(p)
  <2> DEFINE M == {t \in Present(rollbacks) : IsMerged(t)}
             merged == InOrder(M)
  <2>1. pc'[p] = "plan" /\ queue'[p] = merged /\ UNCHANGED <<pulls, verified>>
    BY <1>1, <1>7 DEF CollectFacts, Goto, OwnShape
  <2>2. \A t \in M : pulls[t] # << >>
    BY DEF IsMerged
  <2> HIDE DEF M
  <2>3. merged \in Seq(M \cap Ids)
    BY InOrderType
  <2> HIDE DEF merged
  <2>4. Known(merged) \subseteq M
    BY <2>3, LenProperties DEF Known
  <2> QED BY <1>1, <1>2, <2>1, <2>2, <2>4 DEF Waited, Claiming
<1>8. CASE LookUp(p)
  <2> DEFINE t == Head(queue[p])
  <2>1. /\ queue[p] # << >> /\ pc[p] = "plan" /\ pc'[p] = "plan"
        /\ queue'[p] = Tail(queue[p])
        /\ \/ verified'[p] = verified[p]
           \/ Conclusion(t) = "success" /\ verified'[p] = verified[p] \cup {t}
        /\ UNCHANGED pulls
    BY <1>1, <1>8 DEF LookUp, OwnShape
  <2>2. t \in Ids /\ t \in Known(queue[p]) /\ Known(Tail(queue[p])) \subseteq Known(queue[p])
    BY <1>1, <2>1, HeadType
  <2> HIDE DEF t
  <2>3. Conclusion(t) = "success" => t \in proven
    <3>1. pulls[t] \in Seq(PullState) /\ pulls[t] # << >>
      BY <1>1, <2>1, <2>2 DEF WorldShape, Waited
    <3>2. Len(pulls[t]) \in DOMAIN pulls[t]
      BY <3>1, LenProperties, EmptySeq
    <3> QED BY <1>1, <2>2, <3>2 DEF Recorded, Conclusion
  <2> QED BY <1>1, <1>2, <2>1, <2>2, <2>3 DEF Waited, Claiming
<1>9. CASE Plan(p)
  <2>1. Leave(p) \/ (pc' = [pc EXCEPT ![p] = "dispatch"] /\ UNCHANGED verified)
    BY <1>9 DEF Plan
  <2>2. ASSUME ~ Leave(p)
        PROVE  pc'[p] = "dispatch" /\ UNCHANGED verified
    BY <1>1, <2>1, <2>2 DEF OwnShape
  <2>3. ASSUME ~ Leave(p)
        PROVE  Waited(p)'
    BY <1>1, <1>2, <2>2, <2>3 DEF Waited, Claiming
  <2> QED BY <1>1, <1>3, <2>3, LeaveShape
<1>10. CASE ReadLease(p)
  <2>1. /\ pc'[p] = "claim" /\ UNCHANGED <<verified, queue>>
        /\ DependenciesOf(Head(queue[p])) \subseteq verified[p]
    BY <1>1, <1>10 DEF ReadLease, Goto, OwnShape, Claimable
  <2>2. Head(queue[p])' = Head(queue[p])
    BY <2>1
  <2> QED BY <1>1, <1>2, <2>1, <2>2 DEF Waited, Claiming
<1>11. CASE WriteLease(p) \/ Invoke(p)
  <2>1. Claiming(p) /\ pc'[p] \in {"invoke", "work"} /\ UNCHANGED <<verified, queue>>
    BY <1>1, <1>11 DEF WriteLease, Invoke, Goto, OwnShape, Claiming, own
  <2>2. Head(queue[p])' = Head(queue[p])
    BY <2>1
  <2> QED BY <1>1, <1>2, <2>1, <2>2 DEF Waited, Claiming
<1> QED BY <1>4, <1>5, <1>6, <1>7, <1>8, <1>9, <1>10, <1>11 DEF Steps, Continue

LEMMA ProvenInvariant == Spec => []ProvenInv
<1>1. Init => ProvenInv
  BY DEF Init, ProvenInv, Recorded, Waited, Claiming
<1>2. Shape /\ ProvenInv /\ [Next]_vars => ProvenInv'
  <2> SUFFICES ASSUME Shape, ProvenInv, [Next]_vars PROVE ProvenInv'
    OBVIOUS
  <2>1. OwnShape /\ WorldShape /\ Recorded /\ \A p \in Run : Waited(p) /\ Loaded(p)
    BY DEF Shape, ProvenInv
  <2>2. ASSUME NEW p \in Run, Rests(p), Kept, proven \subseteq proven'
        PROVE  Waited(p)'
    <3>1. /\ Head(queue[p])' = Head(queue[p]) /\ Known(queue[p])' = Known(queue[p])
          /\ pc'[p] = pc[p] /\ verified'[p] = verified[p]
      BY <2>2 DEF Rests
    <3>2. Known(queue[p]) \subseteq Ids
      BY <2>1, LenProperties DEF OwnShape, Known
    <3> QED BY <2>1, <2>2, <3>1, <3>2 DEF Waited, Claiming, Kept
  <2>3. ASSUME NEW p \in Run, Steps(p)
        PROVE  ProvenInv'
    <3>1. Recorded' /\ Kept /\ UNCHANGED proven
      BY <2>1, <2>3, StepRecords
    <3>2. ASSUME NEW q \in Run, q # p
          PROVE  Waited(q)'
      BY <2>1, <2>2, <2>3, <3>1, <3>2, OthersRest
    <3> QED BY <2>3, <3>1, <3>2, StepWaits DEF ProvenInv
  <2>4. CASE World
    <3>1. /\ UNCHANGED <<pc, own>>
          /\ \E t \in Ids, from, to \in PullState :
               /\ SetPull(t, from, to)
               /\ \/ to # "success" /\ proven' = proven
                  \/ proven' = proven \cup {t}
      BY <2>4, WorldMoves
    <3>2. PICK t \in Ids, from \in PullState, to \in PullState :
            /\ SetPull(t, from, to)
            /\ \/ to # "success" /\ proven' = proven
               \/ proven' = proven \cup {t}
      BY <3>1
    <3>3. /\ pulls' \in [Ids -> Seq(PullState)]
          /\ \A u \in Ids : Len(pulls'[u]) = Len(pulls[u])
          /\ \A u \in Ids : \A i \in DOMAIN pulls'[u] :
               /\ i \in DOMAIN pulls[u]
               /\ pulls'[u][i] = pulls[u][i] \/ (u = t /\ pulls'[u][i] = to)
      BY <3>2, SetPullShape
    <3>4. Recorded'
      BY <2>1, <3>2, <3>3 DEF Recorded
    <3>5. Kept
      BY <2>1, <3>3, EmptySeq DEF Kept, WorldShape
    <3>6. \A p \in Run : Rests(p)
      BY <3>1 DEF Rests, own
    <3> QED BY <2>2, <3>2, <3>4, <3>5, <3>6 DEF ProvenInv
  <2>5. CASE ChangePolicy \/ UNCHANGED vars
    <3>1. UNCHANGED <<pulls, pc, own, proven>>
      BY <2>5 DEF ChangePolicy, vars, aux
    <3>2. Recorded' /\ Kept /\ \A p \in Run : Rests(p)
      BY <2>1, <3>1 DEF Recorded, Kept, Rests, own
    <3> QED BY <2>2, <3>1, <3>2 DEF ProvenInv
  <2> QED BY <2>3, <2>4, <2>5, NextMeans
<1> QED BY <1>1, <1>2, ShapeInvariant, PTL DEF Spec

(***************************************************************************)
(* With any number of controllers and operators, whatever is killed, fails *)
(* or is rerun, a worker starts only on a ticket each of whose             *)
(* dependencies had its merge commit checked with success                  *)
(* (compute_ready, cmd_dispatch).                                          *)
(***************************************************************************)
THEOREM WorkersWaitForProof == Spec => DependenciesAreProven
<1>1. Shape /\ ProvenInv =>
        \A p \in Controllers, t \in Ids :
          Starts(p, t) => DependenciesOf(t) \subseteq proven
  <2> SUFFICES ASSUME ProvenInv, NEW p \in Controllers, NEW t \in Ids, Starts(p, t)
               PROVE  DependenciesOf(t) \subseteq proven
    OBVIOUS
  <2>1. Waited(p) /\ Claiming(p) /\ Head(queue[p]) = t
    BY DEF ProvenInv, Run, Starts, Claiming
  <2> QED BY <2>1 DEF Waited
<1> QED BY <1>1, ShapeInvariant, ProvenInvariant, PTL DEF DependenciesAreProven
-----------------------------------------------------------------------------
\* Workers stay within the mandate.

\* Which programs a process can come to run.
LEMMA StepGoes ==
  ASSUME Shape, NEW p \in Run, Steps(p)
  PROVE  /\ pc'[p] = "rollback" => p \in Operators /\ seen'[p] = rollbacks'
         /\ \/ pc'[p] \in {"idle", "rollback"}
            \/ p \in Controllers
            \/ pc[p] \notin {"idle", "rollback"}
<1>1. OwnShape /\ Loaded(p)
  BY DEF Shape
<1>2. CASE FactsUnavailable(p) \/ WriteRollback(p) \/ Crash(p)
  BY <1>1, <1>2, LeaveShape DEF FactsUnavailable, WriteRollback, Crash, Left
<1>3. CASE Resume(p) \/ NotWired(p) \/ Worked(p) \/ WorkFailed(p)
  <2>1. NextTicket(p) /\ pc[p] \in {"dispatch", "invoke", "work"} /\ queue[p] # << >>
    BY <1>1, <1>3 DEF Resume, NotWired, Worked, WorkFailed, Loaded, Dispatching, Claiming
  <2>2. pc'[p] \in {"idle", "dispatch"}
    BY <1>1, <2>1, NextTicketShape DEF Left, TakesNext
  <2> QED BY <2>1, <2>2
<1>4. CASE (p \in Controllers /\ RunOnce(p)) \/ (p \in Operators /\ BeginRollback(p))
  BY <1>1, <1>4 DEF RunOnce, BeginRollback, Goto, OwnShape
<1>5. CASE CollectFacts(p) \/ ReadLease(p) \/ WriteLease(p) \/ Invoke(p)
  BY <1>1, <1>5 DEF CollectFacts, ReadLease, WriteLease, Invoke, Goto, OwnShape
<1>6. CASE LookUp(p)
  BY <1>1, <1>6 DEF LookUp, OwnShape
<1>7. CASE Plan(p)
  <2>1. pc[p] = "plan" /\ (Leave(p) \/ pc' = [pc EXCEPT ![p] = "dispatch"])
    BY <1>7 DEF Plan
  <2>2. pc'[p] \in {"idle", "dispatch"}
    BY <1>1, <2>1 DEF Leave, OwnShape
  <2> QED BY <2>1, <2>2
<1> QED BY <1>2, <1>3, <1>4, <1>5, <1>6, <1>7 DEF Steps, Continue

LEMMA StepKeepsRoles ==
  ASSUME Shape, Roles, NEW p \in Run, Steps(p)
  PROVE  Roles'
<1>1. ASSUME NEW q \in Run, q # p
      PROVE  pc'[q] = pc[q]
  BY <1>1, OthersRest DEF Rests, Shape
<1>2. Controllers \subseteq Run /\ Operators \subseteq Run
      /\ (p \in Operators => p \notin Controllers)
  BY AutopilotAssumption DEF Run
<1> QED BY <1>1, <1>2, StepGoes DEF Roles

\* A plan holds known tickets within the mandate, and is only used up.
LEMMA StepStaysPermitted ==
  ASSUME Shape, NEW p \in Run, Permitted(p), Steps(p)
  PROVE  Permitted(p)'
<1>1. OwnShape /\ Loaded(p)
  BY DEF Shape
<1>2. pc'[p] = "rollback" => seen'[p] = rollbacks'
  BY StepGoes
<1> DEFINE Within(F, s) == \A t \in Known(s) : t \in Present(F) /\ InMandate(F, t)
<1>3. Dispatching(p) => Within(seen[p], queue[p])
  BY DEF Permitted
<1>4. ASSUME \/ ~ Dispatching(p)'
             \/ Within(seen'[p], queue'[p])
      PROVE  Permitted(p)'
  BY <1>2, <1>4 DEF Permitted
<1>5. ASSUME Dispatching(p), seen'[p] = seen[p], Known(queue'[p]) \subseteq Known(queue[p])
      PROVE  Permitted(p)'
  <2> HIDE DEF Within
  <2>1. Within(seen[p], queue'[p])
    BY <1>3, <1>5 DEF Within
  <2> QED BY <1>4, <1>5, <2>1
<1>6. CASE FactsUnavailable(p) \/ WriteRollback(p) \/ Crash(p)
  BY <1>1, <1>4, <1>6, LeaveShape
     DEF FactsUnavailable, WriteRollback, Crash, Left, Dispatching, Claiming
<1>7. CASE Resume(p) \/ NotWired(p) \/ Worked(p) \/ WorkFailed(p)
  <2>1. NextTicket(p) /\ Dispatching(p) /\ queue[p] # << >>
    BY <1>1, <1>7 DEF Resume, NotWired, Worked, WorkFailed, Loaded, Dispatching, Claiming
  <2>2. CASE Left(p)
    BY <1>4, <2>2 DEF Left, Dispatching, Claiming
  <2>3. CASE TakesNext(p)
    <3>1. seen'[p] = seen[p] /\ Known(queue'[p]) \subseteq Known(queue[p])
      BY <1>1, <2>1, <2>3, HeadType DEF TakesNext
    <3> QED BY <1>5, <2>1, <3>1
  <2> QED BY <1>1, <2>1, <2>2, <2>3, NextTicketShape
<1>8. CASE RunOnce(p) \/ BeginRollback(p) \/ CollectFacts(p)
  <2>1. pc'[p] \in {"facts", "rollback", "plan"}
    BY <1>1, <1>8 DEF RunOnce, BeginRollback, CollectFacts, Goto, OwnShape
  <2> QED BY <1>4, <2>1 DEF Dispatching, Claiming
<1>9. CASE LookUp(p)
  BY <1>4, <1>9 DEF LookUp, Dispatching, Claiming
<1>10. CASE Plan(p)
  <2> DEFINE plan == Startable(seen[p], verified[p])
  <2>1. CASE Leave(p)
    BY <1>1, <1>4, <2>1, LeaveShape DEF Left, Dispatching, Claiming
  <2>2. CASE ~ Leave(p)
    <3>1. queue'[p] = plan /\ seen'[p] = seen[p]
      BY <1>1, <1>10, <2>2 DEF Plan, OwnShape
    <3>2. Within(seen[p], plan)
      BY StartableShape DEF Ready
    <3> HIDE DEF Within, plan
    <3> QED BY <1>4, <3>1, <3>2
  <2> QED BY <2>1, <2>2
<1>11. CASE ReadLease(p) \/ WriteLease(p) \/ Invoke(p)
  <2>1. Dispatching(p) /\ UNCHANGED <<seen, queue>>
    BY <1>11 DEF ReadLease, WriteLease, Invoke, Goto, Dispatching, Claiming, own
  <2> QED BY <1>5, <2>1
<1> QED BY <1>6, <1>7, <1>8, <1>9, <1>10, <1>11 DEF Steps, Continue

\* Rollback tickets are written by the one operator, under a new id.
LEMMA RollbacksMove ==
  ASSUME Shape, Roles, UniqueIds, NEW p \in Run, Steps(p), Permitted(p)
  PROVE  /\ UniqueIds'
         /\ rollbacks' # rollbacks => p \in Operators /\ pc[p] = "rollback"
<1>1. CASE WriteRollback(p)
  <2> DEFINE F == seen[p]
  <2>1. pc[p] = "rollback" /\ F = rollbacks /\ p \notin Controllers
    BY <1>1 DEF WriteRollback, Permitted, Roles
  <2>2. Known(RollbackIds) \ Present(F) # {}
    BY <2>1 DEF Shape, Loaded
  <2>3. FreeId(F) \notin Present(F)
    BY <2>2, FreeIdIsFree
  <2>4. PICK t \in Present(F) :
          rollbacks' = rollbacks \cup
            {[id |-> FreeId(F), of |-> t, origin |-> Origin(F, t)]}
    BY <1>1 DEF WriteRollback
  <2> DEFINE new == [id |-> FreeId(F), of |-> t, origin |-> Origin(F, t)]
  <2>5. new.id = FreeId(F) /\ \A f \in rollbacks : f.id # FreeId(F)
    BY <2>1, <2>3 DEF Present
  <2> HIDE DEF new
  <2>6. UniqueIds'
    BY <2>4, <2>5 DEF UniqueIds, new
  <2> QED BY <2>1, <2>6 DEF Run
<1>2. CASE ~ WriteRollback(p)
  <2>1. UNCHANGED rollbacks
    BY <1>2 DEF Steps, Continue, RunOnce, BeginRollback, CollectFacts, FactsUnavailable,
         LookUp, Plan, Resume, ReadLease, WriteLease, Invoke, NotWired, Worked,
         WorkFailed, Crash
  <2> QED BY <2>1 DEF UniqueIds
<1> QED BY <1>1, <1>2

LEMMA MandateInvariant ==
  ASSUME OneOperator
  PROVE  Spec => []MandateInv
<1>1. Init => MandateInv
  <2>1. Controllers \subseteq Run /\ Operators \subseteq Run
    BY DEF Run
  <2> QED BY <2>1 DEF Init, MandateInv, UniqueIds, Roles, Permitted, Dispatching, Claiming
<1>2. Shape /\ MandateInv /\ [Next]_vars => MandateInv'
  <2> SUFFICES ASSUME Shape, MandateInv, [Next]_vars PROVE MandateInv'
    OBVIOUS
  <2>1. UniqueIds /\ Roles /\ OwnShape /\ \A p \in Run : Permitted(p)
    BY DEF MandateInv, Shape
  <2>2. ASSUME NEW p \in Run, Rests(p), pc[p] = "rollback" => rollbacks' = rollbacks
        PROVE  Permitted(p)'
    <3>1. /\ pc'[p] = pc[p] /\ seen'[p] = seen[p] /\ queue'[p] = queue[p]
          /\ Permitted(p)
      BY <2>1, <2>2 DEF Rests
    <3>2. CASE Dispatching(p)
      <4>1. \A t \in Known(queue[p]) : t \in Present(seen[p]) /\ InMandate(seen[p], t)
        BY <3>1, <3>2 DEF Permitted
      <4>2. \A t \in Known(queue'[p]) : t \in Present(seen'[p]) /\ InMandate(seen'[p], t)
        BY <3>1, <4>1
      <4>3. pc'[p] # "rollback"
        BY <3>1, <3>2 DEF Dispatching, Claiming
      <4> QED BY <4>2, <4>3 DEF Permitted
    <3>3. CASE ~ Dispatching(p)
      <4>1. ~ Dispatching(p)'
        BY <3>1, <3>3 DEF Dispatching, Claiming
      <4>2. pc'[p] = "rollback" => seen'[p] = rollbacks'
        BY <2>2, <3>1 DEF Permitted
      <4> QED BY <4>1, <4>2 DEF Permitted
    <3> QED BY <3>2, <3>3
  <2>3. ASSUME NEW p \in Run, Steps(p)
        PROVE  MandateInv'
    <3>1. UniqueIds' /\ (rollbacks' # rollbacks => p \in Operators /\ pc[p] = "rollback")
      BY <2>1, <2>3, RollbacksMove
    <3>2. Roles' /\ Permitted(p)'
      BY <2>1, <2>3, StepKeepsRoles, StepStaysPermitted
    <3>3. ASSUME NEW q \in Run, q # p
          PROVE  Permitted(q)'
      <4>1. pc[q] = "rollback" => q \in Operators
        BY <2>1 DEF Roles, Run
      <4>2. pc[q] = "rollback" => rollbacks' = rollbacks
        BY <3>1, <3>3, <4>1 DEF OneOperator
      <4> QED BY <2>1, <2>2, <2>3, <3>3, <4>2, OthersRest
    <3> QED BY <3>1, <3>2, <3>3 DEF MandateInv
  <2>4. CASE World \/ ChangePolicy \/ UNCHANGED vars
    <3>1. UNCHANGED <<rollbacks, pc, own>>
      BY <2>4 DEF World, ChangePolicy, vars
    <3>2. UniqueIds' /\ Roles' /\ \A p \in Run : Rests(p)
      BY <2>1, <3>1 DEF UniqueIds, Roles, Rests, own
    <3> QED BY <2>2, <3>1, <3>2 DEF MandateInv
  <2> QED BY <2>3, <2>4, NextMeans
<1> QED BY <1>1, <1>2, ShapeInvariant, PTL DEF Spec

(***************************************************************************)
(* With one operator, and any number of controllers, a worker starts only  *)
(* on a ticket whose planned origin the policy lets the machine start; a   *)
(* rollback of a rollback has no other mandate (cmd_rollback, held).       *)
(***************************************************************************)
THEOREM WorkersHaveMandate ==
  ASSUME OneOperator
  PROVE  Spec => WorksInMandate
<1> DEFINE Allowed(o) == /\ Risk[o] \in AutoStart
                         /\ Risk[o] = "high" => Predelegated[o]
                         /\ Risk[o] = "critical" => CriticalDefault = "predelegated"
<1>1. Shape /\ MandateInv =>
        \A p \in Controllers, t \in Ids :
          Starts(p, t) => Allowed(Origin(rollbacks, t))
  <2> SUFFICES ASSUME Shape, MandateInv,
                      NEW p \in Controllers, NEW t \in Ids, Starts(p, t)
               PROVE  Allowed(Origin(rollbacks, t))
    OBVIOUS
  <2> DEFINE F == seen[p]
  <2>1. /\ UniqueIds /\ Permitted(p) /\ Loaded(p) /\ OwnShape /\ p \in Run
        /\ Dispatching(p) /\ Head(queue[p]) = t
    BY DEF MandateInv, Shape, Run, Starts, Dispatching, Claiming
  <2>2. t \in Known(queue[p]) /\ F \subseteq rollbacks
    BY <2>1, HeadType DEF Loaded
  <2>3. t \in Present(F) /\ InMandate(F, t)
    BY <2>1, <2>2 DEF Permitted
  <2> HIDE DEF F
  <2>4. Origin(F, t) = Origin(rollbacks, t)
    <3>1. CASE t \in Tickets
      BY <3>1 DEF Origin
    <3>2. CASE t \notin Tickets
      <4>1. PICK f \in F : f.id = t
        BY <2>3, <3>2 DEF Present
      <4>2. File(F, t) \in F /\ File(F, t).id = t
        BY <4>1 DEF File
      <4>3. File(rollbacks, t) \in rollbacks /\ File(rollbacks, t).id = t
        BY <2>2, <4>1 DEF File
      <4>4. File(F, t) = File(rollbacks, t)
        BY <2>1, <2>2, <4>2, <4>3 DEF UniqueIds
      <4> QED BY <3>2, <4>4 DEF Origin
    <3> QED BY <3>1, <3>2
  <2>5. Allowed(Origin(F, t))
    BY <2>3 DEF InMandate
  <2> HIDE DEF Allowed
  <2> QED BY <2>4, <2>5
<1>2. Spec => []Shape /\ []MandateInv
  BY ShapeInvariant, MandateInvariant
<1> QED BY <1>1, <1>2, PTL DEF WorksInMandate
-----------------------------------------------------------------------------
\* One controller: no second worker, and no claim beyond the wip.

LeasesRest == leases' = leases /\ workers' = workers

\* The leases and workers are written in two steps only.
LEMMA LeasesMove ==
  ASSUME NEW p \in Run, Steps(p)
  PROVE  LeasesRest \/ WriteLease(p) \/ Invoke(p)
BY DEF Steps, Continue, LeasesRest, RunOnce, BeginRollback, CollectFacts, FactsUnavailable,
       LookUp, Plan, Resume, ReadLease, NotWired, Worked, WorkFailed, WriteRollback,
       Crash, aux

LEMMA LeasesRestShape ==
  ASSUME LeasesRest, WorkersLeased
  PROVE  WorkersLeased' /\ Leased' = Leased
BY DEF LeasesRest, WorkersLeased, Leased

\* The wip after a step: less of the plan is left, or a claim more is made.
LEMMA StepStaysInWip ==
  ASSUME Shape, NEW p \in Run, Steps(p), WorkersLeased, Fresh(p),
         Cardinality(Leased) + Unclaimed(p) <= Cap, Cardinality(Leased) <= Cap
  PROVE  /\ WorkersLeased' /\ Fresh(p)'
         /\ Cardinality(Leased)' + Unclaimed(p)' <= Cap
         /\ Cardinality(Leased)' <= Cap
<1> DEFINE c == Cardinality(Leased)
           s == queue[p]
           t == Head(queue[p])
           v == claim[p].policy
<1>1. /\ OwnShape /\ WorldShape /\ Loaded(p) /\ c \in Nat /\ Cap \in Nat
      /\ s \in Seq(Ids) /\ Len(s) \in Nat
      /\ \A u \in Ids : leases[u].policy <= policy
  <2>1. Cap \in Nat /\ c \in Nat
    BY LeasedFinite, AutopilotAssumption
  <2>2. s \in Seq(Ids)
    BY DEF Shape, OwnShape
  <2>3. Len(s) \in Nat
    BY <2>2, LenProperties
  <2> QED BY <2>1, <2>2, <2>3 DEF Shape, Bounded
<1>2. s # << >> => /\ t \in Ids /\ Len(s) # 0
                   /\ Len(Tail(s)) = Len(s) - 1
  BY <1>1, HeadType
<1>3. Dispatching(p) => s # << >>
  BY <1>1 DEF Loaded
<1>4. ASSUME LeasesRest, Unclaimed(p)' \in Nat, c + Unclaimed(p)' <= Cap,
             pc'[p] \notin {"claim", "invoke"}
      PROVE  /\ WorkersLeased' /\ Fresh(p)'
             /\ Cardinality(Leased)' + Unclaimed(p)' <= Cap
             /\ Cardinality(Leased)' <= Cap
  <2>1. WorkersLeased' /\ Cardinality(Leased)' = c
    BY <1>4, LeasesRestShape
  <2>2. Fresh(p)'
    BY <1>4 DEF Fresh
  <2> HIDE DEF c
  <2> QED BY <1>1, <1>4, <2>1, <2>2
<1>5. ASSUME LeasesRest, pc'[p] \notin {"dispatch", "claim", "invoke", "work"}
      PROVE  /\ WorkersLeased' /\ Fresh(p)'
             /\ Cardinality(Leased)' + Unclaimed(p)' <= Cap
             /\ Cardinality(Leased)' <= Cap
  <2>1. Unclaimed(p)' = 0
    BY <1>5 DEF Unclaimed
  <2>2. c + Unclaimed(p)' <= Cap
    BY <1>1, <2>1
  <2> QED BY <1>4, <1>5, <2>1, <2>2
<1>6. CASE FactsUnavailable(p) \/ WriteRollback(p) \/ Crash(p)
  <2>1. pc'[p] = "idle" /\ LeasesRest
    BY <1>1, <1>6, LeaveShape
       DEF FactsUnavailable, WriteRollback, Crash, Left, LeasesRest, aux
  <2> QED BY <1>5, <2>1
<1>7. CASE Resume(p) \/ NotWired(p) \/ Worked(p) \/ WorkFailed(p)
  <2>1. /\ NextTicket(p) /\ pc[p] \in {"dispatch", "invoke", "work"} /\ s # << >>
        /\ LeasesRest
    BY <1>1, <1>7 DEF Resume, NotWired, Worked, WorkFailed, Loaded, Dispatching,
                      Claiming, LeasesRest, aux
  <2>2. CASE Left(p)
    BY <1>5, <2>1, <2>2 DEF Left
  <2>3. CASE TakesNext(p)
    <3> DEFINE n == Len(s)
    <3>1. pc'[p] = "dispatch" /\ queue'[p] = Tail(s)
      BY <2>3 DEF TakesNext
    <3>2. Unclaimed(p)' = n - 1 /\ n \in Nat /\ n # 0
      <4>1. Unclaimed(p)' = Len(queue'[p])
        BY <3>1 DEF Unclaimed
      <4> QED BY <1>1, <1>2, <2>1, <3>1, <4>1
    <3>3. Unclaimed(p) = n \/ Unclaimed(p) = n - 1
      BY <2>1 DEF Unclaimed
    <3> HIDE DEF n, c
    <3>4. Unclaimed(p)' \in Nat /\ c + Unclaimed(p)' <= Cap
      BY <1>1, <3>2, <3>3 DEF c
    <3> QED BY <1>4, <2>1, <3>1, <3>4 DEF c
  <2> QED BY <1>1, <2>1, <2>2, <2>3, NextTicketShape
<1>8. CASE RunOnce(p) \/ BeginRollback(p) \/ CollectFacts(p)
  <2>1. pc'[p] \in {"facts", "rollback", "plan"} /\ LeasesRest
    BY <1>1, <1>8 DEF RunOnce, BeginRollback, CollectFacts, Goto, OwnShape, LeasesRest, aux
  <2> QED BY <1>5, <2>1
<1>9. CASE LookUp(p)
  <2>1. pc'[p] = "plan" /\ LeasesRest
    BY <1>9 DEF LookUp, LeasesRest, aux
  <2> QED BY <1>5, <2>1
<1>10. CASE Plan(p)
  <2> DEFINE plan == Startable(seen[p], verified[p])
             n == Len(plan)
  <2>1. LeasesRest
    BY <1>10 DEF Plan, LeasesRest, aux
  <2>2. CASE Leave(p)
    BY <1>1, <1>5, <2>1, <2>2, LeaveShape DEF Left
  <2>3. CASE ~ Leave(p)
    <3>1. pc'[p] = "dispatch" /\ queue'[p] = plan
      BY <1>1, <1>10, <2>3 DEF Plan, OwnShape
    <3>2. n \in Nat /\ n <= Budget
      BY StartableShape, LenProperties
    <3>3. Budget \in Nat /\ c + Budget <= Cap
      BY BudgetFits
    <3>4. Unclaimed(p)' = n
      BY <3>1 DEF Unclaimed
    <3> HIDE DEF n, c
    <3>5. c + n <= Cap
      BY <1>1, <3>2, <3>3
    <3> QED BY <1>4, <2>1, <3>1, <3>2, <3>4, <3>5 DEF c
  <2> QED BY <2>2, <2>3
<1>11. CASE ReadLease(p)
  <2>1. /\ pc[p] = "dispatch" /\ pc'[p] = "claim" /\ queue'[p] = s /\ LeasesRest
        /\ claim'[p].policy = policy /\ leases[t].policy # policy
    BY <1>1, <1>11 DEF ReadLease, Goto, Claimable, OwnShape, LeasesRest, aux
  <2>2. s # << >> /\ t \in Ids
    BY <1>2, <1>3, <2>1 DEF Dispatching
  <2>3. leases[t].policy < policy
    <3>1. leases[t].policy \in Nat /\ policy \in Nat /\ leases[t].policy <= policy
      BY <1>1, <2>2, AutopilotAssumption DEF WorldShape, Lease
    <3> QED BY <2>1, <3>1
  <2>4. Fresh(p)'
    <3>1. Head(queue[p])' = t /\ leases'[t] = leases[t]
      BY <2>1 DEF LeasesRest
    <3> QED BY <2>1, <2>3, <3>1 DEF Fresh
  <2>5. Unclaimed(p)' = Unclaimed(p)
    BY <2>1 DEF Unclaimed
  <2> QED BY <2>1, <2>4, <2>5, LeasesRestShape
<1>12. CASE WriteLease(p)
  <2>1. /\ pc[p] = "claim" /\ pc'[p] = "invoke" /\ queue'[p] = s /\ claim'[p] = claim[p]
        /\ leases' = [leases EXCEPT ![t] = claim[p]] /\ workers' = workers
    BY <1>1, <1>12 DEF WriteLease, Goto, OwnShape, own, aux
  <2>2. s # << >> /\ t \in Ids /\ v # 0 /\ claim[p] \in Lease
    BY <1>1, <1>2, <1>3, <2>1 DEF Dispatching, Claiming, Loaded, OwnShape
  <2>3. leases'[t] = claim[p] /\ \A u \in Ids : u # t => leases'[u] = leases[u]
    BY <1>1, <2>1, <2>2 DEF WorldShape
  <2>4. v \in Nat /\ leases[t].policy \in Nat /\ leases[t].policy < v
    BY <1>1, <2>1, <2>2 DEF Fresh, WorldShape, Lease
  <2>5. \A w \in 1 .. MaxPolicy + 1 : w <= leases[t].policy => w < v /\ w <= v
    BY <2>4
  <2>6. WorkersLeased'
    <3>1. \A u \in Ids, w \in 1 .. MaxPolicy + 1 :
            workers[u][w] <= 1 /\ (workers[u][w] # 0 => w <= leases'[u].policy)
      BY <2>3, <2>5 DEF WorkersLeased
    <3> QED BY <2>1, <3>1 DEF WorkersLeased
  <2>7. workers[t][v] = 0
    <3>1. v \in 1 .. MaxPolicy + 1
      <4>1. v <= policy /\ policy \in 1 .. MaxPolicy + 1 /\ MaxPolicy \in Nat
        BY <1>1, AutopilotAssumption DEF Shape, Bounded, WorldShape
      <4> QED BY <2>2, <2>4, <4>1
    <3>2. ~ (v < v)
      BY <2>4
    <3> QED BY <2>2, <2>5, <3>1, <3>2 DEF WorkersLeased
  <2>8. Fresh(p)'
    <3>1. Head(queue[p])' = t
      BY <2>1
    <3> QED BY <2>1, <2>3, <2>7, <3>1 DEF Fresh
  <2>9. Cardinality(Leased)' <= c + 1
    <3>1. Leased' \subseteq Leased \cup {t}
      BY <2>3 DEF Leased
    <3>2. /\ IsFiniteSet(Leased \cup {t})
          /\ Cardinality(Leased \cup {t}) = IF t \in Leased THEN c ELSE c + 1
      BY LeasedFinite, FS_AddElement
    <3>3. Cardinality(Leased') <= Cardinality(Leased \cup {t})
      BY <3>1, <3>2, FS_Subset
    <3>4. Cardinality(Leased') \in Nat
      BY LeasedFinite
    <3> HIDE DEF c
    <3> QED BY <1>1, <3>2, <3>3, <3>4
  <2>10. Unclaimed(p) = Len(s) /\ Unclaimed(p)' = Len(s) - 1
    BY <2>1 DEF Unclaimed
  <2> DEFINE n == Len(s)
             d == Cardinality(Leased)'
  <2>11. n \in Nat /\ n # 0 /\ d \in Nat
    BY <1>1, <1>2, <2>2, LeasedFinite
  <2>12. d <= c + 1 /\ c + n <= Cap
    BY <2>9, <2>10
  <2> HIDE DEF n, d, c
  <2>13. d + (n - 1) <= Cap /\ d <= Cap
    BY <1>1, <2>11, <2>12
  <2> QED BY <2>6, <2>8, <2>10, <2>13 DEF n, d
<1>13. CASE Invoke(p)
  <2>1. /\ pc[p] = "invoke" /\ pc'[p] = "work" /\ queue'[p] = s
        /\ workers' = [workers EXCEPT ![t][v] = @ + 1] /\ leases' = leases
    BY <1>1, <1>13 DEF Invoke, Goto, OwnShape, own
  <2>2. t \in Ids /\ workers[t][v] = 0 /\ leases[t].policy = v /\ v \in Nat
    BY <1>1, <1>2, <1>3, <2>1 DEF Dispatching, Claiming, Fresh, OwnShape, Lease
  <2>3. v \in 1 .. MaxPolicy + 1
    <3>1. v <= policy /\ policy \in 1 .. MaxPolicy + 1 /\ MaxPolicy \in Nat /\ v # 0
      BY <1>1, <2>1, AutopilotAssumption
         DEF Shape, Bounded, WorldShape, Loaded, Claiming
    <3> QED BY <2>2, <3>1
  <2> HIDE DEF t, v
  <2>4. \A u \in Ids, w \in 1 .. MaxPolicy + 1 :
          workers'[u][w] = IF u = t /\ w = v THEN 1 ELSE workers[u][w]
    <3>1. workers[t] \in [1 .. MaxPolicy + 1 -> Nat]
      BY <1>1, <2>2 DEF WorldShape
    <3>2. workers'[t] = [workers[t] EXCEPT ![v] = @ + 1]
          /\ \A u \in Ids : u # t => workers'[u] = workers[u]
      BY <1>1, <2>1, <2>2 DEF WorldShape
    <3>3. workers[t][v] + 1 = 1
      BY <2>2
    <3> QED BY <2>3, <3>1, <3>2, <3>3
  <2>5. WorkersLeased'
    <3>1. v <= v /\ 1 <= 1
      BY <2>2
    <3>2. \A u \in Ids, w \in 1 .. MaxPolicy + 1 :
            workers'[u][w] <= 1 /\ (workers'[u][w] # 0 => w <= leases[u].policy)
      BY <2>2, <2>4, <3>1 DEF WorkersLeased
    <3> QED BY <2>1, <3>2 DEF WorkersLeased
  <2>6. Fresh(p)' /\ Unclaimed(p)' = Unclaimed(p) /\ Leased' = Leased
    BY <2>1 DEF Fresh, Unclaimed, Leased
  <2> QED BY <2>5, <2>6
<1> QED BY <1>6, <1>7, <1>8, <1>9, <1>10, <1>11, <1>12, <1>13 DEF Steps, Continue
LEMMA LeaseInvariant ==
  ASSUME OneController
  PROVE  Spec => []LeaseInv
<1>1. Init => LeaseInv
  <2> SUFFICES ASSUME Init PROVE LeaseInv
    OBVIOUS
  <2>1. Controllers \subseteq Run /\ Operators \subseteq Run
    BY DEF Run
  <2>2. Roles /\ WorkersLeased
    <3>1. 0 <= 1
      OBVIOUS
    <3> QED BY <2>1, <3>1 DEF Init, Roles, WorkersLeased
  <2>3. Cardinality(Leased) = 0 /\ Cap \in Nat
    <3>1. Leased = {}
      BY DEF Init, Leased
    <3> QED BY <3>1, FS_EmptySet, AutopilotAssumption
  <2>4. \A p \in Controllers : Unclaimed(p) = 0 /\ Fresh(p)
    BY <2>1 DEF Init, Unclaimed, Fresh
  <2> QED BY <2>2, <2>3, <2>4 DEF LeaseInv
<1>2. Shape /\ LeaseInv /\ [Next]_vars => LeaseInv'
  <2> SUFFICES ASSUME Shape, LeaseInv, [Next]_vars PROVE LeaseInv'
    OBVIOUS
  <2>1. /\ Roles /\ WorkersLeased /\ OwnShape /\ Cardinality(Leased) <= Cap
        /\ \A p \in Controllers : /\ p \in Run /\ Fresh(p)
                                  /\ Cardinality(Leased) + Unclaimed(p) <= Cap
    BY DEF LeaseInv, Shape, Run
  <2>2. ASSUME LeasesRest, Roles', \A p \in Controllers : Rests(p)
        PROVE  LeaseInv'
    <3>1. WorkersLeased' /\ Cardinality(Leased)' = Cardinality(Leased)
      BY <2>1, <2>2, LeasesRestShape
    <3>2. ASSUME NEW p \in Controllers
          PROVE  Fresh(p)' /\ Unclaimed(p)' = Unclaimed(p)
      <4>1. /\ pc'[p] = pc[p] /\ queue'[p] = queue[p] /\ claim'[p] = claim[p]
            /\ leases' = leases /\ workers' = workers /\ Fresh(p)
        BY <2>1, <2>2 DEF Rests, LeasesRest
      <4> QED BY <4>1 DEF Fresh, Unclaimed
    <3> QED BY <2>1, <2>2, <3>1, <3>2 DEF LeaseInv
  <2>3. ASSUME NEW p \in Run, Steps(p)
        PROVE  LeaseInv'
    <3>1. Roles'
      BY <2>1, <2>3, StepKeepsRoles
    <3>2. CASE p \in Controllers
      <4>1. \A q \in Controllers : q = p
        BY <3>2 DEF OneController
      <4>2. /\ WorkersLeased' /\ Fresh(p)'
            /\ Cardinality(Leased)' + Unclaimed(p)' <= Cap
            /\ Cardinality(Leased)' <= Cap
        BY <2>1, <2>3, <3>2, StepStaysInWip
      <4> QED BY <3>1, <4>1, <4>2 DEF LeaseInv
    <3>3. CASE p \notin Controllers
      <4>1. pc[p] \in {"idle", "rollback"}
        BY <2>1, <3>3 DEF Roles, Run
      <4>2. LeasesRest
        BY <2>3, <4>1, LeasesMove DEF WriteLease, Invoke, Goto
      <4>3. \A q \in Controllers : Rests(q)
        BY <2>1, <2>3, <3>3, OthersRest
      <4> QED BY <2>2, <3>1, <4>2, <4>3
    <3> QED BY <3>2, <3>3
  <2>4. CASE World \/ ChangePolicy \/ UNCHANGED vars
    <3>1. UNCHANGED <<leases, workers, pc, own>>
      BY <2>4 DEF World, ChangePolicy, vars, aux
    <3>2. LeasesRest /\ Roles' /\ \A p \in Controllers : Rests(p)
      BY <2>1, <3>1 DEF LeasesRest, Roles, Rests, own
    <3> QED BY <2>2, <3>2
  <2> QED BY <2>3, <2>4, NextMeans
<1> QED BY <1>1, <1>2, ShapeInvariant, PTL DEF Spec

(***************************************************************************)
(* However often the one controller is killed and started again, and       *)
(* however often the policy changes under it, no operation gets a second   *)
(* worker: the lease is written before the worker runs (cmd_dispatch).     *)
(***************************************************************************)
THEOREM OperationsAreWorkedOnce ==
  ASSUME OneController
  PROVE  Spec => []OneWorkerPerOperation
<1>1. LeaseInv => OneWorkerPerOperation
  BY DEF LeaseInv, WorkersLeased, OneWorkerPerOperation
<1>2. Spec => []LeaseInv
  BY LeaseInvariant
<1> QED BY <1>1, <1>2, PTL

(***************************************************************************)
(* The one controller counts the leases once for a plan and claims the     *)
(* plan one by one; still the claims never exceed the wip.                 *)
(***************************************************************************)
THEOREM ClaimsStayInWip ==
  ASSUME OneController
  PROVE  Spec => []WipBounded
<1>1. LeaseInv => WipBounded
  BY DEF LeaseInv, WipBounded
<1>2. Spec => []LeaseInv
  BY LeaseInvariant
<1> QED BY <1>1, <1>2, PTL

=============================================================================
