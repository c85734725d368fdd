---------------------------- MODULE MergeBroker ----------------------------
(***************************************************************************)
(* merge-broker.py execute: a process collects facts call by call, takes   *)
(* the writer lock, evaluates the intent on those facts, merges, writes a  *)
(* receipt and lets the lock go.  Several agents may run it at a time.     *)
(***************************************************************************)
EXTENDS Forge

CONSTANTS
  Run,           \* processes that agents run the broker in
  Modes,         \* how agents start the broker: a subset of Mode
  MaxAge,        \* bound: versions an intent is old when it is submitted
  MaxMalformed,  \* bound: malformed or expired intents that are submitted
  Faults,        \* what can go wrong: a subset of FaultKind
  MaxFaults      \* bound: how often something goes wrong

FaultKind == {"crash", "error", "lost reply"}

\* --online: the broker reads the facts itself; --facts --online: a file that
\* a controller wrote, as run-canary.py does; --facts alone: the same, and no
\* merge call is made.
Mode == {"online", "file", "simulated"}

ASSUME BrokerAssumption ==
  /\ Modes \subseteq Mode
  /\ MaxAge \in Nat
  /\ MaxMalformed \in Nat
  /\ Faults \subseteq FaultKind
  /\ MaxFaults \in Nat
  /\ Nobody \notin Run

VARIABLES
  lock,      \* who created writer.lock, or Nobody when there is no such file
  receipts,  \* the receipt files
  pc,        \* run |-> where it stands
  intent,    \* run |-> the intent it was started with
  facts,     \* run |-> what it has read so far
  outcome,   \* run |-> the decision it has come to and will report
  spoilt,    \* malformed intents so far
  budget     \* faults still to come

brokerVars == <<lock, receipts, pc, intent, facts, outcome, spoilt, budget>>

vars == <<forgeVars, brokerVars>>

Step == {"idle", "read pull", "read tip", "read checks", "read rest", "lock",
         "decide", "gate", "auto", "plain", "put", "store", "unlock"}

\* Where a run holds the lock.
Critical == {"decide", "gate", "auto", "plain", "put", "store", "unlock"}

\* `form` says what evaluate makes of it by itself: "malformed" whatever it
\* refuses for its fields, "expired" by the clock, read once at the start.
Intent == [pull : Pull, head : 1..MaxHead, base : Nat, policy : 0..MaxPolicy,
           form : {"valid", "malformed", "expired"}, mode : Mode]

\* The intent of a process that does not run.
NoIntent == [pull |-> Nobody, head |-> 0, base |-> 0, policy |-> 0,
             form |-> "malformed", mode |-> "online"]

Outcome == {"none", "MERGED", "QUEUED", "ALREADY_MERGED", "DEFERRED", "REFUSED",
            "STALE", "UNKNOWN"}

\* Decisions that are final and leave a receipt.
Terminal == {"MERGED", "QUEUED", "ALREADY_MERGED"}

\* idempotency_key: neither the base nor the request is part of it.
Key(i) == [pull |-> i.pull, head |-> i.head, policy |-> i.policy]

\* `executed` is "simulated" where no merge call was made for the decision.
Receipt == [key : [pull : Pull, head : 1..MaxHead, policy : 0..MaxPolicy],
            decision : Terminal, executed : BOOLEAN]

Facts == [known : BOOLEAN, pull : PullRequest, tip : Nat, check : Conclusion,
          several : BOOLEAN, protected : {"yes", "no", "unknown"},
          checked : BOOLEAN, verified : SUBSET Tickets]

NoFacts == [known |-> FALSE, pull |-> [state |-> "absent", head |-> 0, base |-> 0,
            linked |-> FALSE], tip |-> 0, check |-> "none", several |-> FALSE,
            protected |-> "unknown", checked |-> FALSE, verified |-> {}]

Fault(kind) ==
  /\ kind \in Faults
  /\ budget > 0
  /\ budget' = budget - 1

Goto(p, step) == pc' = [pc EXCEPT ![p] = step]

\* The process reports and ends; what it knew is gone.
End(p) ==
  /\ pc' = [pc EXCEPT ![p] = "idle"]
  /\ outcome' = [outcome EXCEPT ![p] = "none"]
  /\ intent' = [intent EXCEPT ![p] = NoIntent]
  /\ facts' = [facts EXCEPT ![p] = NoFacts]

----------------------------------------------------------------------------
\* What was the latest version at some time.
Recent(latest, first) == {v \in first..latest : latest - v <= MaxAge}

\* The intent was written at some time: it names a head the pull request has
\* had, a tip and a policy there have been.
Submit(p) ==
  /\ pc[p] = "idle"
  /\ \E n \in Pull, form \in {"valid", "malformed", "expired"}, mode \in Modes :
       /\ pulls[n].state # "absent"
       /\ form # "valid" => spoilt < MaxMalformed
       /\ spoilt' = IF form = "valid" THEN spoilt ELSE spoilt + 1
       /\ \E head \in Recent(pulls[n].head, 1), base \in Recent(Tip, 0),
             version \in Recent(policy, 0) :
            intent' = [intent EXCEPT ![p] =
              [pull |-> n, head |-> head, base |-> base, policy |-> version,
               form |-> form, mode |-> mode]]
       /\ Goto(p, IF form = "malformed" THEN "lock" ELSE "read pull")
  /\ UNCHANGED <<forgeVars, lock, receipts, facts, outcome, budget>>

Learns(p, what) ==
  /\ facts' = [facts EXCEPT ![p] = what]
  /\ UNCHANGED <<forgeVars, lock, receipts, intent, outcome, spoilt>>

ReadPull(p) ==
  /\ pc[p] = "read pull"
  /\ Learns(p, [NoFacts EXCEPT !.pull = pulls[intent[p].pull]])
  /\ Goto(p, "read tip")
  /\ UNCHANGED budget

ReadTip(p) ==
  /\ pc[p] = "read tip"
  /\ Learns(p, [facts[p] EXCEPT !.tip = Tip])
  /\ Goto(p, "read checks")
  /\ UNCHANGED budget

\* Defective variant: the newest run of a check, whatever head it was for.
ReadChecksOfPull(p) ==
  /\ pc[p] = "read checks"
  /\ Learns(p, [facts[p] EXCEPT !.check = Check(intent[p].pull, "evidence")])
  /\ Goto(p, "read rest")
  /\ UNCHANGED budget

\* The check runs of the head that was read; a controller asks for those of the
\* expected head, and evaluate compares the two before it looks at checks.
ReadChecks(p) ==
  /\ pc[p] = "read checks"
  /\ Learns(p, [facts[p] EXCEPT !.check = checks[intent[p].pull][facts[p].pull.head]["evidence"]])
  /\ Goto(p, "read rest")
  /\ UNCHANGED budget

\* Other pull requests of the ticket (the broker itself asks), the rules, and the
\* verified tickets (only a controller knows them).  A failing call for the rules
\* leaves them unknown and everything else known.
ReadRest(p) ==
  /\ pc[p] = "read rest"
  /\ \E seen \in {IF rules THEN "yes" ELSE "no", "unknown"} :
     LET n == intent[p].pull
         online == intent[p].mode = "online" IN
       /\ IF seen = "unknown" THEN Fault("error") ELSE UNCHANGED budget
       /\ Learns(p, [facts[p] EXCEPT
         !.known = TRUE,
         !.several = online /\ \E m \in Pull \ {n} :
                       /\ TicketOf[m] = TicketOf[n]
                       /\ pulls[m].state \in {"open", "draft"}
                       /\ pulls[m].linked,
         !.protected = seen,
         !.checked = ~online,
         !.verified = IF online THEN {} ELSE verified])
  /\ Goto(p, "lock")

\* A call fails: no facts at all.
ReadFails(p) ==
  /\ pc[p] \in {"read pull", "read tip", "read checks", "read rest"}
  /\ Fault("error")
  /\ facts' = [facts EXCEPT ![p] = NoFacts]
  /\ Goto(p, "lock")
  /\ UNCHANGED <<forgeVars, lock, receipts, intent, outcome, spoilt>>

----------------------------------------------------------------------------
\* Defective variant: the lock file is opened, not created.
AcquireShared(p) ==
  /\ pc[p] = "lock"
  /\ lock' = p
  /\ Goto(p, "decide")
  /\ UNCHANGED <<forgeVars, receipts, intent, facts, outcome, spoilt, budget>>

\* acquire_writer_lock: O_CREAT | O_EXCL.
Acquire(p) ==
  /\ pc[p] = "lock"
  /\ lock = Nobody
  /\ lock' = p
  /\ Goto(p, "decide")
  /\ UNCHANGED <<forgeVars, receipts, intent, facts, outcome, spoilt, budget>>

\* SINGLE_WRITER_BUSY: the file is there.
Busy(p) ==
  /\ pc[p] = "lock"
  /\ lock # Nobody
  /\ End(p)
  /\ UNCHANGED <<forgeVars, lock, receipts, spoilt, budget>>

BaseCurrent(i, f) == f.pull.base = f.tip /\ i.base = f.tip

\* Defective variant: it is enough that somebody looked.
DependenciesLookedAt(t, f) == Dependencies[t] = {} \/ f.checked

DependenciesVerified(t, f) == Dependencies[t] \subseteq f.verified

\* evaluate: the first step of it that objects decides.  A controller's file never
\* offers a merge queue.
Decision(i, f) ==
  LET t == TicketOf[i.pull] IN
  IF i.form = "malformed" THEN "REFUSED" ELSE
  IF i.policy # policy \/ i.form = "expired" THEN "STALE" ELSE
  IF ~Delegated(t) THEN "REFUSED" ELSE
  IF ~f.known THEN "UNKNOWN" ELSE
  IF f.pull.state = "merged" THEN "ALREADY_MERGED" ELSE
  IF f.pull.state = "closed" THEN "REFUSED" ELSE
  IF f.pull.state = "draft" THEN "DEFERRED" ELSE
  IF ~f.pull.linked \/ f.several THEN "REFUSED" ELSE
  IF f.pull.head # i.head THEN "STALE" ELSE
  IF ~BaseCurrent(i, f) /\ ~(Queue /\ i.mode = "online") THEN "DEFERRED" ELSE
  IF ~DependenciesVerified(t, f)
    THEN (IF f.checked THEN "DEFERRED" ELSE "UNKNOWN") ELSE
  IF f.check = "failure" THEN "REFUSED" ELSE
  IF f.check = "none" THEN "DEFERRED" ELSE
  IF Native /\ f.protected = "unknown" THEN "UNKNOWN" ELSE
  IF Native /\ f.protected = "no" THEN "REFUSED" ELSE
  IF BaseCurrent(i, f) THEN "MERGED" ELSE "QUEUED"

\* Defective variant: receipts are written and never read.
ReplayIgnored(p) == FALSE

\* A receipt of the same key answers the intent before anything is evaluated.
Replays(p) == \E r \in receipts : r.key = Key(intent[p])

Replay(p) ==
  /\ pc[p] = "decide"
  /\ \E r \in receipts :
       /\ r.key = Key(intent[p])
       /\ outcome' = [outcome EXCEPT ![p] = r.decision]
  /\ facts' = [facts EXCEPT ![p] = NoFacts]
  /\ Goto(p, "unlock")
  /\ UNCHANGED <<forgeVars, lock, receipts, intent, spoilt, budget>>

\* Defective variant: every decision leaves a receipt.
RouteStoresAll(d, mode) ==
  IF d \in {"MERGED", "QUEUED"} /\ mode # "simulated"
  THEN (IF Native THEN "gate" ELSE "put") ELSE "store"

\* Where execute goes with a decision.
Route(d, mode) ==
  CASE d \in {"MERGED", "QUEUED"} /\ mode # "simulated" ->
         IF Native THEN "gate" ELSE "put"
    [] d \notin Terminal -> "unlock"
    [] OTHER -> "store"

Evaluate(p) ==
  LET d == Decision(intent[p], facts[p]) IN
    /\ pc[p] = "decide"
    /\ ~Replays(p)
    /\ outcome' = [outcome EXCEPT ![p] = d]
    /\ Goto(p, Route(d, intent[p].mode))
    /\ facts' = [facts EXCEPT ![p] = NoFacts]  \* no longer used
    /\ UNCHANGED <<forgeVars, lock, receipts, intent, spoilt, budget>>

----------------------------------------------------------------------------
\* Defective variant: a merge call whose reply is lost counts as a merge.
UnsureButStored(p) ==
  /\ outcome' = [outcome EXCEPT ![p] = "MERGED"]
  /\ Goto(p, "store")

\* A remote call that fails ends in UNKNOWN, whether or not it took effect.
Unsure(p) ==
  /\ outcome' = [outcome EXCEPT ![p] = "UNKNOWN"]
  /\ Goto(p, "unlock")

Settled(p, d, step) ==
  /\ outcome' = [outcome EXCEPT ![p] = d]
  /\ Goto(p, step)

Kept == <<lock, receipts, intent, facts, spoilt>>

\* execute_native_merge, first call: a merge-gate status on the exact head.
SetGate(p) ==
  LET i == intent[p] IN
    /\ pc[p] = "gate"
    /\ gate' = [gate EXCEPT ![i.pull] = @ \cup {i.head}]
    /\ \/ Goto(p, "auto") /\ UNCHANGED <<outcome, budget>>
       \/ Fault("lost reply") /\ Unsure(p)
    /\ UNCHANGED <<pulls, checks, auto, history, rules, policy, verified,
                   seenGreen, Kept>>

\* `gh pr merge --auto` is accepted for what has merged or cannot merge yet.
AcceptsAuto(n) ==
  \/ pulls[n].state = "merged"
  \/ IsOpen(n) /\ (n \in auto \/ ~Clean(n))

EnableAuto(p) ==
  LET n == intent[p].pull IN
    /\ pc[p] = "auto"
    /\ AcceptsAuto(n)
    /\ auto' = IF IsOpen(n) THEN auto \cup {n} ELSE auto
    /\ \/ Settled(p, "QUEUED", "store") /\ UNCHANGED budget
       \/ Fault("lost reply") /\ Goto(p, "plain") /\ UNCHANGED outcome
    /\ UNCHANGED <<pulls, checks, gate, history, rules, policy, verified,
                   seenGreen, Kept>>

\* It is refused, or the call fails: try a plain merge.
AutoRefused(p) ==
  /\ pc[p] = "auto"
  /\ \/ ~AcceptsAuto(intent[p].pull) /\ UNCHANGED budget
     \/ Fault("error")
  /\ Goto(p, "plain")
  /\ UNCHANGED <<forgeVars, Kept, outcome>>

\* `gh pr merge` names no head; what lands is the head of that moment.
PlainMerge(p) ==
  LET n == intent[p].pull IN
    /\ pc[p] = "plain"
    /\ IsOpen(n)
    /\ Clean(n)
    /\ Lands(n, "broker")
    /\ \/ Settled(p, "MERGED", "store") /\ UNCHANGED budget
       \/ Fault("lost reply") /\ Unsure(p)
    /\ UNCHANGED Kept

PlainFindsMerged(p) ==
  /\ pc[p] = "plain"
  /\ pulls[intent[p].pull].state = "merged"
  /\ Settled(p, "MERGED", "store")
  /\ UNCHANGED <<forgeVars, Kept, budget>>

PlainRefused(p) ==
  LET n == intent[p].pull IN
    /\ pc[p] = "plain"
    /\ pulls[n].state # "merged"
    /\ ~(IsOpen(n) /\ Clean(n))
    /\ Unsure(p)
    /\ UNCHANGED <<forgeVars, Kept, budget>>

\* Defective variant: the merge call without its sha parameter.
PutAnyHead(p) ==
  LET n == intent[p].pull IN
    /\ pc[p] = "put"
    /\ IsOpen(n)
    /\ Lands(n, "broker")
    /\ \/ Settled(p, "MERGED", "store") /\ UNCHANGED budget
       \/ Fault("lost reply") /\ Unsure(p)
    /\ UNCHANGED Kept

\* PUT /pulls/{n}/merge with sha = expected head: GitHub compares the head
\* and nothing else.
Put(p) ==
  LET n == intent[p].pull IN
    /\ pc[p] = "put"
    /\ IsOpen(n)
    /\ pulls[n].head = intent[p].head
    /\ Lands(n, "broker")
    /\ \/ Settled(p, "MERGED", "store") /\ UNCHANGED budget
       \/ Fault("lost reply") /\ Unsure(p)
    /\ UNCHANGED Kept

PutRefused(p) ==
  LET n == intent[p].pull IN
    /\ pc[p] = "put"
    /\ ~(IsOpen(n) /\ pulls[n].head = intent[p].head)
    /\ Unsure(p)
    /\ UNCHANGED <<forgeVars, Kept, budget>>

WriteFails(p) ==
  /\ pc[p] \in {"gate", "plain", "put"}
  /\ Fault("error")
  /\ Unsure(p)
  /\ UNCHANGED <<forgeVars, Kept>>

\* The receipt: a scratch file moved into place.
Store(p) ==
  /\ pc[p] = "store"
  /\ receipts' = {r \in receipts : r.key # Key(intent[p])}
                   \cup {[key |-> Key(intent[p]), decision |-> outcome[p],
                           executed |-> intent[p].mode # "simulated"]}
  /\ Goto(p, "unlock")
  /\ UNCHANGED <<forgeVars, lock, intent, facts, outcome, spoilt, budget>>

Unlock(p) ==
  /\ pc[p] = "unlock"
  /\ lock' = Nobody
  /\ End(p)
  /\ UNCHANGED <<forgeVars, receipts, spoilt, budget>>

\* Nothing removes the lock of a process that died.
Crash(p) ==
  /\ pc[p] # "idle"
  /\ Fault("crash")
  /\ End(p)
  /\ UNCHANGED <<forgeVars, lock, receipts, spoilt>>

Read(p) == ReadPull(p) \/ ReadTip(p) \/ ReadChecks(p) \/ ReadRest(p)

Merge(p) ==
  \/ SetGate(p) \/ EnableAuto(p) \/ AutoRefused(p)
  \/ PlainMerge(p) \/ PlainFindsMerged(p) \/ PlainRefused(p)
  \/ Put(p) \/ PutRefused(p)

Continue(p) ==
  \/ Read(p) \/ Acquire(p) \/ Busy(p) \/ Replay(p) \/ Evaluate(p)
  \/ Merge(p) \/ Store(p) \/ Unlock(p)

GoWrong(p) == ReadFails(p) \/ WriteFails(p) \/ Crash(p)

Next ==
  \/ \E p \in Run : Submit(p) \/ Continue(p) \/ GoWrong(p)
  \/ ForgeNext /\ UNCHANGED brokerVars

Init ==
  /\ ForgeInit
  /\ lock = Nobody
  /\ receipts = {}
  /\ pc = [p \in Run |-> "idle"]
  /\ intent = [p \in Run |-> NoIntent]
  /\ facts = [p \in Run |-> NoFacts]
  /\ outcome = [p \in Run |-> "none"]
  /\ spoilt = 0
  /\ budget = MaxFaults

Spec == Init /\ [][Next]_vars

\* An intent for the head, the tip and the policy of this moment.
SubmitCurrent(p, n) ==
  /\ Submit(p)
  /\ intent'[p].pull = n /\ intent'[p].form = "valid"
  /\ intent'[p].head = pulls[n].head
  /\ intent'[p].base = Tip /\ intent'[p].policy = policy

\* A process that runs goes on; agents ask again for every pull request; GitHub
\* merges what auto-merge was enabled for.
FairSpec ==
  /\ Spec
  /\ \A p \in Run : WF_vars(Continue(p))
  /\ \A n \in Pull : SF_vars(\E p \in Run : SubmitCurrent(p, n))
  /\ \A n \in Pull : WF_vars(AutoMergeFires(n) /\ UNCHANGED brokerVars)

----------------------------------------------------------------------------
\* Names, facts and receipts have the shape the code gives them.
TypeOK ==
  /\ ForgeTypeOK
  /\ lock \in Run \cup {Nobody}
  /\ receipts \subseteq Receipt
  /\ pc \in [Run -> Step]
  /\ intent \in [Run -> Intent \cup {NoIntent}]
  /\ \A p \in Run : pc[p] # "idle" => intent[p] \in Intent
  /\ facts \in [Run -> Facts]
  /\ outcome \in [Run -> Outcome]
  /\ \A p \in Run : pc[p] = "store" => outcome[p] \in Terminal
  /\ spoilt \in 0..MaxMalformed
  /\ budget \in 0..MaxFaults

\* What the people who own the policy have handed to the machine.
InMandate(t) ==
  Risk[t] \in AutoMerge /\ (Risk[t] = "high" => Predelegated[t])

\* The landings that go back to the broker.
Brokered == {k \in 1..Len(history) : history[k].via \in {"broker", "auto"}}

(***************************************************************************)
(* Whatever head the broker lands, itself or through auto-merge, is a head *)
(* whose required checks had succeeded, of a ticket that is delegated,     *)
(* although heads move and checks are rerun between the facts and the      *)
(* merge (sha guard of execute, merge-gate of execute_native_merge).  In a *)
(* native profile this rests on the rules, so it is asked while they hold. *)
(***************************************************************************)
LandsOnEvidence ==
  (Native => rules) =>
    \A k \in Brokered :
      /\ <<history[k].pull, history[k].head, "evidence">> \in seenGreen
      /\ InMandate(TicketOf[history[k].pull])

(***************************************************************************)
(* Whatever head the broker lands had passed every required check of the   *)
(* ruleset at some time, those it does not ask for itself included.        *)
(***************************************************************************)
LandsOnAllChecks ==
  (Native => rules) =>
    \A k \in Brokered, name \in CheckNames :
      <<history[k].pull, history[k].head, name>> \in seenGreen

(***************************************************************************)
(* A merge-gate status stands only on heads that had passed their checks   *)
(* and belong to delegated tickets, whatever happens to the pull request,  *)
(* its rules and the policy meanwhile.                                     *)
(***************************************************************************)
GateMeansEvidence ==
  \A n \in Pull : \A h \in gate[n] :
    <<n, h, "evidence">> \in seenGreen /\ InMandate(TicketOf[n])

(***************************************************************************)
(* The broker never lands a ticket before all the tickets it depends on    *)
(* have landed (step 8 of evaluate).                                       *)
(***************************************************************************)
DependenciesComeFirst ==
  \A k \in Brokered : \A t \in Dependencies[TicketOf[history[k].pull]] :
    \E j \in 1..(k - 1) :
      history[j].pull \in Pull /\ TicketOf[history[j].pull] = t

(***************************************************************************)
(* A receipt that says merged speaks of a pull request that is merged, and *)
(* in the private profile a MERGED receipt names the very head that landed;*)
(* one that says queued speaks of a pull request that is merged or will be *)
(* (only terminal decisions are stored, and only after the merge call; a   *)
(* simulated decision says in its receipt that it was not executed).       *)
(***************************************************************************)
ReceiptIsTrue ==
  \A r \in {s \in receipts : s.executed} :
    /\ r.decision \in {"MERGED", "ALREADY_MERGED"} =>
         pulls[r.key.pull].state = "merged"
    /\ r.decision = "QUEUED" =>
         pulls[r.key.pull].state = "merged" \/ r.key.pull \in auto
    /\ r.decision = "MERGED" /\ ~Native =>
         \E k \in 1..Len(history) :
           history[k] = [pull |-> r.key.pull, head |-> r.key.head, via |-> "broker"]

(***************************************************************************)
(* Two runs are never both between taking the lock and letting it go.      *)
(***************************************************************************)
SingleWriter ==
  \A p, q \in Run : pc[p] \in Critical /\ pc[q] \in Critical => p = q

(***************************************************************************)
(* A receipt is never taken back and never replaced by another decision of *)
(* the same key, whoever asks again and in however many processes (the     *)
(* replay branch of execute under the writer lock).                        *)
(***************************************************************************)
ReceiptsAreFinal == [][receipts \subseteq receipts']_vars

(***************************************************************************)
(* A merge call of the private profile lands on the tip that the intent    *)
(* was made for (strict up-to-date, one merge after the other).            *)
(***************************************************************************)
LandsOnCheckedBase ==
  [][\A p \in Run : pc[p] = "put" /\ history' # history => intent[p].base = Tip]_vars

\* Everything evaluate asks for holds of the repository itself.
Eligible(n) ==
  /\ IsOpen(n)
  /\ pulls[n].linked
  /\ pulls[n].base = Tip
  /\ \A name \in CheckNames : Check(n, name) = "success"
  /\ Delegated(TicketOf[n])
  /\ Dependencies[TicketOf[n]] \subseteq verified
  /\ \A m \in Pull \ {n} : TicketOf[m] # TicketOf[n]
  /\ Native => rules

(***************************************************************************)
(* A pull request that has all its evidence and keeps it is merged in the  *)
(* end, although calls fail, replies are lost and other intents get in the *)
(* way: neither a receipt nor the lock may stand in the way for ever.      *)
(***************************************************************************)
EligibleIsMerged ==
  \A n \in Pull : ~ <>[]Eligible(n)
=============================================================================
