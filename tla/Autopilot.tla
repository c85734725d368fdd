------------------------------ MODULE Autopilot ------------------------------
(***************************************************************************)
(* The controller of a generated repository: run-once --online --dispatch  *)
(* and rollback of templates/kit/scripts/autopilot.py, with the facts that *)
(* online_status of governance.py derives from GitHub.                     *)
(*                                                                         *)
(* Controllers start run-once again and again.  It computes which tickets  *)
(* may start, claims each with a lease file and runs a worker for it.      *)
(* Pull requests, merges and the post-merge check are GitHub's and other   *)
(* programs'; operators write rollback tickets.                            *)
(***************************************************************************)
EXTENDS Policy, Sequences

CONSTANTS
  Controllers,   \* processes that execute run-once
  Operators,     \* processes that execute rollback
  Order,         \* Tickets in the order of their ids
  RollbackIds,   \* R1-001, R2-001, ...: bounds the rollback tickets
  Cap,           \* wip.max_active_tickets
  MaxPolicy,     \* bound on changes of the policy
  MaxPulls,      \* bound on the pull requests of a ticket
  MaxFaults      \* bound on crashes, failed calls and failed workers

Known(S) == {S[i] : i \in DOMAIN S}

Ids == Tickets \cup Known(RollbackIds)

Run == Controllers \cup Operators

ASSUME AutopilotAssumption ==
  /\ Order \in Seq(Tickets) /\ RollbackIds \in Seq(Known(RollbackIds))
  /\ Known(Order) = Tickets /\ Len(Order) = Cardinality(Tickets)
  /\ Known(RollbackIds) \cap Tickets = {}
  /\ Controllers \cap Operators = {}
  /\ Cap \in 1 .. 32 /\ MaxPulls \in Nat \ {0}
  /\ {MaxPolicy, MaxFaults} \subseteq Nat

VARIABLES
  rollbacks,  \* docs/tickets/R*.md: rollback tickets
  policy,     \* the digest of governance/policy.v1.json
  leases,     \* .autopilot/leases: a file for each claimed ticket
  pulls,      \* the pull requests of a ticket, the newest first
  pc,         \* where a process stands
  seen,       \* rollback tickets a process loaded
  verified,   \* tickets run-once takes for verified
  queue,      \* tickets run-once has still to look up, or to dispatch
  claim,      \* the lease cmd_dispatch is about to write
  faults,     \* faults so far
  proven,     \* auxiliary: tickets whose post-merge check ever succeeded
  workers     \* auxiliary: workers started, by ticket and policy

own == <<seen, verified, queue, claim>>
aux == <<proven, workers>>
vars == <<rollbacks, policy, leases, pulls, pc, own, faults, aux>>

NoLease == [policy |-> 0, attempt |-> 0]

Stages == {"idle", "facts", "plan", "dispatch", "claim", "invoke", "work", "rollback"}

-----------------------------------------------------------------------------
\* Tickets.  A rollback ticket owns what its target owns; its origin is the
\* planned ticket that leads to.

Present(F) == Tickets \cup {f.id : f \in F}

File(F, t) == CHOOSE f \in F : f.id = t

Origin(F, t) == IF t \in Tickets THEN t ELSE File(F, t).origin

DependenciesOf(t) == IF t \in Tickets THEN Dependencies[t] ELSE {}

Invalidated(F) == {f.of : f \in F}

\* Ids are unique, and of the active tickets no two own the same paths.
ContractValid(F) ==
  \A f, g \in F :
    f # g => /\ f.id # g.id
             /\ {f.id, g.id} \cap Invalidated(F) = {} => f.origin # g.origin

\* The tickets of S in the order of their ids.
InOrder(S) ==
  LET all == Order \o RollbackIds
      upTo[i \in 0 .. Len(all)] ==
        IF i = 0 THEN << >>
        ELSE IF all[i] \in S THEN Append(upTo[i - 1], all[i]) ELSE upTo[i - 1]
  IN  upTo[Len(all)]

InMandate(F, t) ==
  LET o == Origin(F, t) IN
  /\ Risk[o] \in AutoStart
  /\ Risk[o] = "critical" => CriticalDefault = "predelegated"
  /\ Risk[o] = "high" => Predelegated[o]

Ready(F, V) ==
  {t \in Present(F) \ (Invalidated(F) \cup V) : DependenciesOf(t) \subseteq V}

Leased == {t \in Ids : leases[t] # NoLease}

\* Defective variant: the leases are not counted.
BudgetWithoutLeases == Cap

Budget == LET free == Cap - Cardinality(Leased) IN IF free > 0 THEN free ELSE 0

\* Defective variant: what is held is started as well.
StartableAll(F, V) ==
  LET s == InOrder(Ready(F, V)) IN
  SubSeq(s, 1, IF Len(s) < Budget THEN Len(s) ELSE Budget)

\* startable[:budget]
Startable(F, V) ==
  LET s == InOrder({t \in Ready(F, V) : InMandate(F, t)}) IN
  SubSeq(s, 1, IF Len(s) < Budget THEN Len(s) ELSE Budget)

\* online_status reads the check of the oldest merged pull request, and of a
\* ticket with an open one it does not ask whether it was merged before.
IsOpen(t) == \E i \in DOMAIN pulls[t] : pulls[t][i] = "open"
Conclusion(t) == pulls[t][Len(pulls[t])]
IsMerged(t) == pulls[t] # << >> /\ ~IsOpen(t)

-----------------------------------------------------------------------------
Init ==
  /\ rollbacks = {}
  /\ policy = 1
  /\ leases = [t \in Ids |-> NoLease]
  /\ pulls = [t \in Ids |-> << >>]
  /\ pc = [p \in Run |-> "idle"]
  /\ seen = [p \in Run |-> {}]
  /\ verified = [p \in Run |-> {}]
  /\ queue = [p \in Run |-> << >>]
  /\ claim = [p \in Run |-> NoLease]
  /\ faults = 0
  /\ proven = {}
  /\ workers = [t \in Ids |-> [v \in 1 .. MaxPolicy + 1 |-> 0]]

Fault == faults < MaxFaults /\ faults' = faults + 1

Goto(p, from, to) == pc[p] = from /\ pc' = [pc EXCEPT ![p] = to]

\* The process ends; what it held in memory is gone.
Leave(p) ==
  /\ pc' = [pc EXCEPT ![p] = "idle"]
  /\ seen' = [seen EXCEPT ![p] = {}]
  /\ verified' = [verified EXCEPT ![p] = {}]
  /\ queue' = [queue EXCEPT ![p] = << >>]
  /\ claim' = [claim EXCEPT ![p] = NoLease]

\* Defective variant: the run does not end with its last ticket.
NextTicketAlways(p) ==
  /\ pc' = [pc EXCEPT ![p] = "dispatch"]
  /\ queue' = [queue EXCEPT ![p] = Tail(@)]
  /\ claim' = [claim EXCEPT ![p] = NoLease]
  /\ UNCHANGED <<seen, verified>>

\* The next ticket of the plan, or the end of the run.
NextTicket(p) ==
  IF Len(queue[p]) = 1 THEN Leave(p)
  ELSE /\ pc' = [pc EXCEPT ![p] = "dispatch"]
       /\ queue' = [queue EXCEPT ![p] = Tail(@)]
       /\ claim' = [claim EXCEPT ![p] = NoLease]
       /\ UNCHANGED <<seen, verified>>

-----------------------------------------------------------------------------
\* run-once

\* The policy and the tickets are loaded; a broken contract stops the run.
RunOnce(p) ==
  /\ Goto(p, "idle", "facts")
  /\ ContractValid(rollbacks)
  /\ seen' = [seen EXCEPT ![p] = rollbacks]
  /\ UNCHANGED <<rollbacks, policy, leases, pulls, verified, queue, claim, faults, aux>>

\* online_status validates again and lists the pull requests.
CollectFacts(p) ==
  /\ ContractValid(rollbacks)
  /\ Goto(p, "facts", "plan")
  /\ queue' = [queue EXCEPT ![p] =
       InOrder({t \in Present(rollbacks) : IsMerged(t)})]
  /\ UNCHANGED <<rollbacks, policy, leases, pulls, seen, verified, claim, faults, aux>>

\* Either failed: FACTS_UNAVAILABLE.
FactsUnavailable(p) ==
  /\ pc[p] = "facts"
  /\ \/ ~ContractValid(rollbacks) /\ UNCHANGED faults
     \/ Fault
  /\ Leave(p)
  /\ UNCHANGED <<rollbacks, policy, leases, pulls, aux>>

\* Defective variants: a check that is under way counts; no check is read.
LookUpMerged(p) ==
  /\ pc[p] = "plan" /\ queue[p] # << >>
  /\ queue' = [queue EXCEPT ![p] = Tail(@)]
  /\ verified' = [verified EXCEPT ![p] = @ \cup {Head(queue[p])}]
  /\ UNCHANGED <<rollbacks, policy, leases, pulls, pc, seen, claim, faults, aux>>
LookUpNothing(p) ==
  /\ pc[p] = "plan" /\ queue[p] # << >>
  /\ queue' = [queue EXCEPT ![p] = Tail(@)]
  /\ UNCHANGED <<rollbacks, policy, leases, pulls, pc, seen, verified, claim, faults, aux>>

\* The check runs of one merge commit; a call that fails leaves its ticket
\* unknown.
LookUp(p) ==
  /\ pc[p] = "plan" /\ queue[p] # << >>
  /\ queue' = [queue EXCEPT ![p] = Tail(@)]
  /\ LET t == Head(queue[p]) IN
     \/ /\ verified' = [verified EXCEPT ![p] =
             IF Conclusion(t) = "success" THEN @ \cup {t} ELSE @]
        /\ UNCHANGED faults
     \/ Fault /\ UNCHANGED verified
  /\ UNCHANGED <<rollbacks, policy, leases, pulls, pc, seen, claim, aux>>

\* The plan is made from the tickets loaded at the start, the leases of now.
Plan(p) ==
  /\ pc[p] = "plan" /\ queue[p] = << >>
  /\ LET plan == Startable(seen[p], verified[p]) IN
     IF plan = << >> THEN Leave(p)
     ELSE /\ pc' = [pc EXCEPT ![p] = "dispatch"]
          /\ queue' = [queue EXCEPT ![p] = plan]
          /\ UNCHANGED <<seen, verified, claim>>
  /\ UNCHANGED <<rollbacks, policy, leases, pulls, faults, aux>>

-----------------------------------------------------------------------------
\* cmd_dispatch

\* Defective variant: the operation of the lease is not compared.
ClaimableAgain(p) ==
  /\ ContractValid(rollbacks)
  /\ DependenciesOf(Head(queue[p])) \subseteq verified[p]

\* The contract holds, nothing is waited for, and the lease, if there is one,
\* is of another operation: an operation is a ticket and a policy.
Claimable(p) ==
  /\ ContractValid(rollbacks)
  /\ DependenciesOf(Head(queue[p])) \subseteq verified[p]
  /\ leases[Head(queue[p])].policy # policy

\* Refused, or resumed without a worker.
Resume(p) ==
  /\ pc[p] = "dispatch"
  /\ ~Claimable(p)
  /\ NextTicket(p)
  /\ UNCHANGED <<rollbacks, policy, leases, pulls, faults, aux>>

ReadLease(p) ==
  /\ Goto(p, "dispatch", "claim")
  /\ Claimable(p)
  /\ claim' = [claim EXCEPT ![p] =
       [policy |-> policy, attempt |-> leases[Head(queue[p])].attempt + 1]]
  /\ UNCHANGED <<rollbacks, policy, leases, pulls, seen, verified, queue, faults, aux>>

WriteLease(p) ==
  /\ Goto(p, "claim", "invoke")
  /\ leases' = [leases EXCEPT ![Head(queue[p])] = claim[p]]
  /\ UNCHANGED <<rollbacks, policy, pulls, own, faults, aux>>

Invoke(p) ==
  /\ Goto(p, "invoke", "work")
  /\ workers' = [workers EXCEPT ![Head(queue[p])][claim[p].policy] = @ + 1]
  /\ UNCHANGED <<rollbacks, policy, leases, pulls, own, faults, proven>>

\* No adapter, or no command for execute in it.
NotWired(p) ==
  /\ pc[p] = "invoke"
  /\ Fault
  /\ NextTicket(p)
  /\ UNCHANGED <<rollbacks, policy, leases, pulls, aux>>

\* A worker opens a pull request or pushes to the one it finds.
Deliver(t) ==
  IF IsOpen(t) \/ Len(pulls[t]) = MaxPulls THEN UNCHANGED pulls
  ELSE pulls' = [pulls EXCEPT ![t] = <<"open">> \o @]

Worked(p) ==
  /\ pc[p] = "work"
  /\ Deliver(Head(queue[p]))
  /\ NextTicket(p)
  /\ UNCHANGED <<rollbacks, policy, leases, faults, aux>>

\* A timeout, an exit code, an output without evidence: it is printed, and
\* the next ticket follows.  Work may have been delivered all the same.
WorkFailed(p) ==
  /\ pc[p] = "work"
  /\ Fault
  /\ UNCHANGED pulls \/ Deliver(Head(queue[p]))
  /\ NextTicket(p)
  /\ UNCHANGED <<rollbacks, policy, leases, aux>>

-----------------------------------------------------------------------------
\* rollback

\* The first id that no ticket has.
FreeId(F) ==
  RollbackIds[CHOOSE i \in DOMAIN RollbackIds :
                /\ RollbackIds[i] \notin Present(F)
                /\ \A j \in 1 .. i - 1 : RollbackIds[j] \in Present(F)]

BeginRollback(p) ==
  /\ Goto(p, "idle", "rollback")
  /\ Known(RollbackIds) \ Present(rollbacks) # {}
  /\ seen' = [seen EXCEPT ![p] = rollbacks]
  /\ UNCHANGED <<rollbacks, policy, leases, pulls, verified, queue, claim, faults, aux>>

\* The file is written; nothing asks whether the target has a rollback.
WriteRollback(p) ==
  /\ pc[p] = "rollback"
  /\ \E t \in Present(seen[p]) :
       rollbacks' = rollbacks \cup
         {[id |-> FreeId(seen[p]), of |-> t, origin |-> Origin(seen[p], t)]}
  /\ Leave(p)
  /\ UNCHANGED <<policy, leases, pulls, faults, aux>>

-----------------------------------------------------------------------------
\* The process is killed; the worker may still deliver.
Crash(p) ==
  /\ pc[p] # "idle"
  /\ Fault
  /\ UNCHANGED pulls \/ (pc[p] = "work" /\ Deliver(Head(queue[p])))
  /\ Leave(p)
  /\ UNCHANGED <<rollbacks, policy, leases, aux>>

\* The rest of the world: a merge, and the post-merge check of its commit.
SetPull(t, from, to) ==
  \E i \in DOMAIN pulls[t] :
    pulls[t][i] = from /\ pulls' = [pulls EXCEPT ![t][i] = to]

Merge(t) == SetPull(t, "open", "pending") /\ UNCHANGED <<faults, proven>>

PostMerge(t) ==
  /\ SetPull(t, "pending", "success")
  /\ proven' = proven \cup {t}
  /\ UNCHANGED faults

PostMergeFails(t) == SetPull(t, "pending", "failure") /\ Fault /\ UNCHANGED proven

Rerun(t) ==
  /\ \/ SetPull(t, "failure", "pending") /\ UNCHANGED faults
     \/ SetPull(t, "success", "pending") /\ Fault
  /\ UNCHANGED proven

World ==
  /\ \E t \in Ids : Merge(t) \/ PostMerge(t) \/ PostMergeFails(t) \/ Rerun(t)
  /\ UNCHANGED <<rollbacks, policy, leases, pc, own, workers>>

\* A governance change is merged.
ChangePolicy ==
  /\ policy <= MaxPolicy
  /\ policy' = policy + 1
  /\ UNCHANGED <<rollbacks, leases, pulls, pc, own, faults, aux>>

\* The next step of a run that is under way.
Continue(p) ==
  \/ CollectFacts(p) \/ FactsUnavailable(p) \/ LookUp(p) \/ Plan(p)
  \/ Resume(p) \/ ReadLease(p) \/ WriteLease(p) \/ Invoke(p) \/ NotWired(p)
  \/ Worked(p) \/ WorkFailed(p) \/ WriteRollback(p)

Next ==
  \/ \E p \in Controllers : RunOnce(p)
  \/ \E p \in Operators : BeginRollback(p)
  \/ \E p \in Run : Continue(p) \/ Crash(p)
  \/ World \/ ChangePolicy

Spec == Init /\ [][Next]_vars

\* A process that runs goes on; run-once is started again; what is opened is
\* merged and its check runs.  Nobody has to write rollbacks, rerun checks or
\* change the policy.
FairSpec ==
  /\ Spec
  /\ \A p \in Run : WF_vars(Continue(p))
  /\ \A p \in Controllers : WF_vars(RunOnce(p))
  /\ \A t \in Ids :
       WF_vars((Merge(t) \/ PostMerge(t)) /\
               UNCHANGED <<rollbacks, policy, leases, pc, own, workers>>)

-----------------------------------------------------------------------------
(***************************************************************************)
(* Every variable keeps the shape the code gives it: lease files carry one *)
(* policy and an attempt, run-once queues known tickets only.              *)
(***************************************************************************)
TypeOK ==
  /\ rollbacks \in SUBSET [id : Known(RollbackIds), of : Ids, origin : Tickets]
  /\ policy \in 1 .. MaxPolicy + 1
  /\ leases \in [Ids -> [policy : 0 .. policy, attempt : Nat]]
  /\ \A t \in Ids :
       /\ Len(pulls[t]) <= MaxPulls
       /\ Known(pulls[t]) \subseteq {"open", "pending", "success", "failure"}
  /\ pc \in [Run -> Stages]
  /\ \A p \in Run :
       /\ seen[p] \subseteq rollbacks
       /\ verified[p] \subseteq Ids
       /\ Known(queue[p]) \subseteq Ids
       /\ pc[p] \in {"dispatch", "claim", "invoke", "work"} => queue[p] # << >>
       /\ claim[p] \in [policy : 0 .. policy, attempt : Nat]
  /\ faults \in 0 .. MaxFaults
  /\ proven \subseteq Ids
  /\ workers \in [Ids -> [1 .. MaxPolicy + 1 -> Nat]]

Starts(p, t) == pc[p] = "invoke" /\ pc'[p] = "work" /\ Head(queue[p]) = t

(***************************************************************************)
(* A worker starts on a ticket only when each of its dependencies had its  *)
(* merge commit checked with success at some time, whatever is rerun,      *)
(* fails or crashes between (post-merge verified, compute_ready).          *)
(***************************************************************************)
DependenciesAreProven ==
  [][\A p \in Controllers, t \in Ids :
       Starts(p, t) => DependenciesOf(t) \subseteq proven]_vars

(***************************************************************************)
(* run-once never starts a worker on work that the policy holds back: a    *)
(* rollback ticket inherits the risk and the mandate of the planned ticket *)
(* it leads to, through rollbacks of rollbacks (cmd_rollback, held).       *)
(***************************************************************************)
WorksInMandate ==
  [][\A p \in Controllers, t \in Ids :
       Starts(p, t) =>
         LET o == Origin(rollbacks, t) IN
         /\ Risk[o] \in AutoStart
         /\ Risk[o] = "high" => Predelegated[o]
         /\ Risk[o] = "critical" => CriticalDefault = "predelegated"]_vars

(***************************************************************************)
(* With one controller, however often it is killed and started again, no   *)
(* operation gets a second worker: the lease is on disk before the worker  *)
(* runs, and the same operation is resumed ("duplicate 생성 금지").         *)
(***************************************************************************)
OneWorkerPerOperation ==
  \A t \in Ids, v \in 1 .. MaxPolicy + 1 : workers[t][v] <= 1

(***************************************************************************)
(* With one controller there are never more claimed tickets than           *)
(* wip.max_active_tickets, although the leases are counted once for a whole *)
(* plan and claimed one by one.                                            *)
(***************************************************************************)
WipBounded == Cardinality(Leased) <= Cap

\* Claimed, and nothing to show for it: the worker failed or was never started.
Abandoned(t) == leases[t] # NoLease /\ pulls[t] = << >>

\* The planned tickets that, with all they wait for, the machine may start.
Delegable ==
  UNION {S \in SUBSET Tickets :
           \A t \in S : InMandate({}, t) /\ Dependencies[t] \subseteq S}

\* Every claim the policy allows is taken, and a ticket is left without.
Exhausted == Cardinality(Leased) >= Cap /\ ~(Delegable \subseteq Leased)

\* What the controller cannot get over by itself.
Stuck ==
  \/ ~ContractValid(rollbacks)
  \/ Invalidated(rollbacks) \cap Tickets # {}
  \/ \E t \in Ids : Abandoned(t) \/ (IsMerged(t) /\ Conclusion(t) = "failure")
  \/ Exhausted

(***************************************************************************)
(* Finitely many kills, failed calls and failed workers, and policies that *)
(* change under the plan, leave every delegated ticket delivered, or one   *)
(* of the known ways to stop: a claim without work, a red post-merge       *)
(* check, a rollback, or as many claims as the policy allows.              *)
(***************************************************************************)
DeliveredUnlessStuck ==
  \A t \in Delegable : <>(t \in proven) \/ <>[]Stuck

(***************************************************************************)
(* When nothing fails, every delegated ticket is delivered: a lease        *)
(* coordinates and does not decide what is ready.                          *)
(***************************************************************************)
EveryTicketIsDelivered == \A t \in Delegable : <>(t \in proven)
=============================================================================
