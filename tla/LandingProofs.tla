---------------------------- MODULE LandingProofs ----------------------------
(***************************************************************************)
(* What the merge broker lands and what its receipts say of it, for any    *)
(* tickets, pull requests, brokers and faults: dependencies land first,    *)
(* native landings had passed every check of the rules, receipts are true. *)
(***************************************************************************)
EXTENDS MergeBrokerProofs

\* The history is only added to.
Extends ==
  /\ Len(history) <= Len(history')
  /\ \A j \in 1..Len(history) : history'[j] = history[j]

\* A landing, and what allowed it.
Landed(n, via) ==
  /\ IsOpen(n) /\ Lands(n, via)
  /\ via = "auto" => n \in auto /\ Clean(n)
  /\ via = "broker" => \E p \in Run : /\ pc[p] \in {"plain", "put"}
                                      /\ intent[p].pull = n
                                      /\ pc[p] = "plain" => Clean(n)

\* A direct push to the branch.
Pushed ==
  /\ history' = Append(history, [pull |-> Nobody, head |-> 0, via |-> "people"])
  /\ UNCHANGED <<pulls, auto, verified, rules>>

\* Nothing lands; what has merged stays so.
Quiet ==
  /\ UNCHANGED history
  /\ \A n \in Pull : pulls'[n].state = "merged" <=> pulls[n].state = "merged"
  /\ \A n \in auto' \ auto :
       \E p \in Run : pc[p] = "auto" /\ intent[p].pull = n
  /\ \A t \in verified' \ verified :
       \E n \in Pull : pulls[n].state = "merged" /\ TicketOf[n] = t
  /\ rules' => rules

----------------------------------------------------------------------------
\* Every step lands something or is quiet.
LEMMA ForgeLands ==
  ASSUME Shape, ForgeNext
  PROVE  \/ Quiet \/ Pushed
         \/ \E n \in Pull, via \in {"auto", "people"} : Landed(n, via)
<1>0. pulls \in [Pull -> PullRequest] /\ rules \in BOOLEAN
  BY DEF Shape, TypeOK, ForgeTypeOK
<1>1. ASSUME NEW n \in Pull, AutoMergeFires(n)
      PROVE  Landed(n, "auto")
  BY <1>1 DEF AutoMergeFires, Landed
<1>2. ASSUME NEW n \in Pull, OpenPull(n) \/ PushHead(n) \/ Relink(n)
      PROVE  Quiet
  BY <1>0, <1>2 DEF OpenPull, PushHead, Relink, Quiet, IsOpen, PullRequest
<1>3. ASSUME NEW n \in Pull, NEW name \in CheckNames, Report(n, name)
      PROVE  Quiet
  BY <1>3 DEF Report, Quiet
<1>4. ASSUME NEW n \in Pull, EditState(n)
      PROVE  Quiet
  <2>1. PICK kind \in OutsideKind, from \in {"open", "closed", "draft"},
             to \in {"open", "closed", "draft"} : ChangeState(n, kind, from, to)
    BY <1>4 DEF EditState, OutsideKind
  <2> QED BY <1>0, <2>1 DEF ChangeState, Quiet, PullRequest
<1>5. ASSUME NEW n \in Pull, PostMerge(n)
      PROVE  Quiet
  BY <1>5 DEF PostMerge, Quiet
<1>6. CASE PeopleLand
  BY <1>6 DEF PeopleLand, Landed, Pushed
<1>7. CASE Unprotect \/ ChangePolicy
  BY <1>7 DEF Unprotect, ChangePolicy, Quiet
<1> QED BY <1>1, <1>2, <1>3, <1>4, <1>5, <1>6, <1>7 DEF ForgeNext

LEMMA RunLands ==
  ASSUME Shape, NEW p \in Run, Submit(p) \/ Continue(p) \/ GoWrong(p)
  PROVE  Quiet \/ \E n \in Pull : Landed(n, "broker")
<1>1. CASE PlainMerge(p) \/ Put(p)
  <2>1. intent[p].pull \in Pull
    BY <1>1 DEF PlainMerge, Put, Shape, TypeOK, Intent
  <2> QED BY <1>1, <2>1 DEF PlainMerge, Put, Landed
<1>2. CASE SetGate(p) \/ EnableAuto(p)
  BY <1>2 DEF SetGate, EnableAuto, Quiet
<1>3. ASSUME ~ (PlainMerge(p) \/ Put(p) \/ SetGate(p) \/ EnableAuto(p))
      PROVE  Quiet
  <2>1. UNCHANGED forgeVars
    BY <1>3 DEF Submit, Continue, GoWrong, Read, ReadPull, ReadTip, ReadChecks, ReadRest,
                Learns, ReadFails, WriteFails, Crash, Acquire, Busy, Replay, Evaluate,
                Merge, AutoRefused, PlainFindsMerged, PlainRefused, PutRefused, Store,
                Unlock
  <2> QED BY <2>1 DEF forgeVars, Quiet
<1> QED BY <1>1, <1>2, <1>3

LEMMA EveryStepLands ==
  ASSUME Shape, [Next]_vars
  PROVE  \/ Quiet \/ Pushed
         \/ \E n \in Pull, via \in {"broker", "auto", "people"} : Landed(n, via)
<1>1. CASE UNCHANGED vars
  BY <1>1 DEF vars, forgeVars, Quiet
<1> QED BY <1>1, ForgeLands, RunLands DEF Next

\* What a landing leaves behind.
LEMMA LandingAdds ==
  ASSUME Shape, NEW n \in Pull, NEW via \in {"broker", "auto", "people"}, Landed(n, via)
  PROVE  /\ Extends /\ Len(history') = Len(history) + 1
         /\ history'[Len(history) + 1] = [pull |-> n, head |-> pulls[n].head, via |-> via]
         /\ auto' \subseteq auto /\ UNCHANGED <<verified, rules>>
         /\ \A m \in Pull : pulls'[m].state = "merged" <=>
                              pulls[m].state = "merged" \/ m = n
<1> DEFINE e == [pull |-> n, head |-> pulls[n].head, via |-> via]
<1>1. history \in Seq(Landing) /\ pulls \in [Pull -> PullRequest]
  BY DEF Shape, TypeOK, ForgeTypeOK
<1>2. e \in Landing
  BY PullShape DEF Landing, Shape, TypeOK
<1>3. history' = Append(history, e)
  BY DEF Landed, Lands
<1> HIDE DEF e
<1>4. Extends /\ Len(history') = Len(history) + 1 /\ history'[Len(history) + 1] = e
  BY <1>1, <1>2, <1>3 DEF Extends
<1> QED BY <1>1, <1>4 DEF Landed, Lands, PullRequest, e

LEMMA PushAdds ==
  ASSUME Shape, Pushed
  PROVE  /\ Extends /\ Len(history') = Len(history) + 1
         /\ history'[Len(history) + 1] = [pull |-> Nobody, head |-> 0, via |-> "people"]
<1> DEFINE e == [pull |-> Nobody, head |-> 0, via |-> "people"]
<1>1. history \in Seq(Landing) /\ e \in Landing
  <2>1. 0 \in 0..MaxHead
    BY ForgeAssumption
  <2> QED BY <2>1 DEF Shape, TypeOK, ForgeTypeOK, Landing
<1>2. history' = Append(history, e)
  BY DEF Pushed
<1> HIDE DEF e
<1>3. Extends /\ Len(history') = Len(history) + 1 /\ history'[Len(history) + 1] = e
  BY <1>1, <1>2 DEF Extends
<1> QED BY <1>3 DEF e

LEMMA HistoryExtends ==
  ASSUME Shape, [Next]_vars
  PROVE  Extends /\ \A n \in Pull : pulls[n].state = "merged" => pulls'[n].state = "merged"
<1>0. Len(history) \in Nat
  <2>1. history \in Seq(Landing)
    BY DEF Shape, TypeOK, ForgeTypeOK
  <2> QED BY <2>1
<1>1. CASE Quiet
  BY <1>0, <1>1 DEF Quiet, Extends
<1>2. CASE Pushed
  BY <1>2, PushAdds DEF Pushed
<1> QED BY <1>1, <1>2, LandingAdds, EveryStepLands

LEMMA NextGrows ==
  ASSUME Shape, [Next]_vars
  PROVE  Grows
<1>1. CASE UNCHANGED vars
  BY <1>1 DEF vars, forgeVars, Grows
<1> QED BY <1>1, RunShape, ForgeStep DEF Next, Frame, Shape, TypeOK

----------------------------------------------------------------------------
\* Native landings and the checks of the rules.
LEMMA ChecksStep ==
  ASSUME Native, Shape, EvidenceInv, LandsOnAllChecks, [Next]_vars
  PROVE  LandsOnAllChecks'
<1>0. /\ history \in Seq(Landing) /\ Len(history) \in Nat
      /\ ForgeTypeOK /\ ForgeTypeOK' /\ rules \in BOOLEAN /\ rules' \in BOOLEAN
  <2>1. Shape'
    BY NextShape
  <2>2. history \in Seq(Landing)
    BY DEF Shape, TypeOK, ForgeTypeOK
  <2>3. Len(history) \in Nat
    BY <2>2
  <2> QED BY <2>1, <2>2, <2>3 DEF Shape, TypeOK, ForgeTypeOK
<1>1. Extends /\ Grows
  BY HistoryExtends, NextGrows
<1> SUFFICES ASSUME rules', NEW k \in Brokered', NEW name \in CheckNames
             PROVE  <<history'[k].pull, history'[k].head, name>> \in seenGreen'
  BY DEF LandsOnAllChecks
<1>2. ASSUME rules, k \in 1..Len(history)
      PROVE  <<history'[k].pull, history'[k].head, name>> \in seenGreen'
  <2>1. history'[k] = history[k] /\ k \in Brokered
    BY <1>1, <1>2 DEF Extends, Brokered
  <2> QED BY <1>1, <1>2, <2>1 DEF LandsOnAllChecks, Grows
<1>3. ASSUME UNCHANGED history
      PROVE  k \in 1..Len(history)
  BY <1>3 DEF Brokered
<1>4. CASE Quiet
  BY <1>2, <1>3, <1>4 DEF Quiet
<1>5. ASSUME Len(history') = Len(history) + 1
      PROVE  k \in 1..Len(history) \/ k = Len(history) + 1
  <2> DEFINE m == Len(history)
  <2>1. m \in Nat /\ k \in 1..m + 1
    BY <1>0, <1>5 DEF Brokered
  <2> HIDE DEF m
  <2>2. k \in 1..m \/ k = m + 1
    BY <2>1
  <2> QED BY <2>2 DEF m
<1>6. CASE Pushed
  <2>1. k # Len(history) + 1
    BY <1>6, PushAdds DEF Brokered
  <2> QED BY <1>2, <1>5, <1>6, <2>1, PushAdds DEF Pushed
<1>7. ASSUME NEW n \in Pull, NEW via \in {"broker", "auto", "people"}, Landed(n, via)
      PROVE  <<history'[k].pull, history'[k].head, name>> \in seenGreen'
  <2>1. /\ Len(history') = Len(history) + 1 /\ rules
        /\ history'[Len(history) + 1] = [pull |-> n, head |-> pulls[n].head, via |-> via]
    BY <1>7, LandingAdds
  <2>2. ASSUME k = Len(history) + 1
        PROVE  <<history'[k].pull, history'[k].head, name>> \in seenGreen'
    <3>1. via \in {"broker", "auto"}
      BY <2>1, <2>2 DEF Brokered
    <3>2. Clean(n)
      BY <1>7, <3>1 DEF Landed, EvidenceInv, Sound
    <3>3. Check(n, name) = "success"
      BY <2>1, <3>2 DEF Clean
    <3>4. pulls[n].head \in 1..MaxHead
      BY <1>0, <1>7, PullShape DEF Landed, IsOpen
    <3>5. <<n, pulls[n].head, name>> \in seenGreen
      BY <3>3, <3>4 DEF Check, EvidenceInv
    <3> QED BY <1>1, <2>1, <2>2, <3>5 DEF Grows
  <2> QED BY <1>2, <1>5, <2>1, <2>2
<1> QED BY <1>4, <1>6, <1>7, EveryStepLands

(***************************************************************************)
(* In the public profiles, whatever the brokers land while the rules hold, *)
(* themselves or through auto-merge, had passed every check of the rules:  *)
(* also those no broker asks for (execute_native_merge).                   *)
(***************************************************************************)
THEOREM NativeLandingsPassed ==
  ASSUME Native
  PROVE  Spec => []LandsOnAllChecks
<1>1. Init => Shape /\ EvidenceInv /\ LandsOnAllChecks
  <2>1. ASSUME Init
        PROVE  LandsOnAllChecks
    <3>1. Len(history) = 0
      BY <2>1 DEF Init, ForgeInit
    <3>2. Brokered = {}
      BY <3>1 DEF Brokered
    <3> QED BY <3>2 DEF LandsOnAllChecks
  <2> QED BY <2>1, InitShape, EvidenceInit
<1>2. /\ Shape /\ EvidenceInv /\ LandsOnAllChecks
      /\ [Next]_vars
      => (Shape /\ EvidenceInv /\ LandsOnAllChecks)'
  BY NextShape, EvidenceStep, ChecksStep
<1> QED BY <1>1, <1>2, PTL DEF Spec

----------------------------------------------------------------------------
\* Dependencies land first.
LandedTickets ==
  {TicketOf[history[j].pull] : j \in {i \in 1..Len(history) : history[i].pull \in Pull}}

\* What the ticket of a pull request waits for.
Before(n) == Dependencies[TicketOf[n]]

Merging == {"gate", "auto", "plain", "put"}

\* What is merged or verified has landed, and who merges has seen it verified:
\* DependenciesComeFirst, made inductive.
DependencyInv ==
  /\ \A n \in Pull : pulls[n].state = "merged" => TicketOf[n] \in LandedTickets
  /\ verified \subseteq LandedTickets
  /\ \A p \in Run : /\ facts[p].verified \subseteq LandedTickets
                    /\ pc[p] \in Merging => Before(intent[p].pull) \subseteq LandedTickets
  /\ \A n \in auto : Before(n) \subseteq LandedTickets
  /\ DependenciesComeFirst

LEMMA LandedStays ==
  ASSUME Shape, [Next]_vars
  PROVE  LandedTickets \subseteq LandedTickets'
<1>1. history \in Seq(Landing) /\ history' \in Seq(Landing) /\ Extends
  BY NextShape, HistoryExtends DEF Shape, TypeOK, ForgeTypeOK
<1>2. ASSUME NEW j \in 1..Len(history)
      PROVE  j \in 1..Len(history') /\ history'[j] = history[j]
  BY <1>1, <1>2 DEF Extends
<1> QED BY <1>2 DEF LandedTickets

\* A process learns of verified tickets when it reads, and goes on to merge when
\* its decision on what it has read is to merge.
LEMMA RunLearns ==
  ASSUME Shape, NEW p \in Run, Submit(p) \/ Continue(p) \/ GoWrong(p)
  PROVE  /\ facts'[p].verified \subseteq facts[p].verified \cup verified
         /\ pc'[p] \in Merging =>
              /\ intent'[p] = intent[p]
              /\ \/ pc[p] \in Merging
                 \/ /\ pc[p] = "decide"
                    /\ Decision(intent[p], facts[p]) \in {"MERGED", "QUEUED"}
<1>1. /\ pc \in [Run -> Step] /\ facts \in [Run -> Facts] /\ facts[p] \in Facts
      /\ intent \in [Run -> Intent \cup {NoIntent}]
  BY DEF Shape, TypeOK
<1>2. NoFacts.verified = {}
  BY DEF NoFacts
<1>3. facts'[p].verified \subseteq facts[p].verified \cup verified
  <2>1. CASE ReadPull(p)
    BY <1>1, <1>2, <2>1 DEF ReadPull, Learns, NoFacts
  <2>2. CASE ReadTip(p) \/ ReadChecks(p)
    BY <1>1, <2>2 DEF ReadTip, ReadChecks, Learns, Facts
  <2>3. CASE ReadRest(p)
    <3> DEFINE found == IF intent[p].mode = "online" THEN {} ELSE verified
    <3>1. PICK several, protected, checked :
            Learns(p, [facts[p] EXCEPT !.known = TRUE, !.several = several,
                       !.protected = protected, !.checked = checked,
                       !.verified = found])
      BY <2>3 DEF ReadRest
    <3>2. facts'[p].verified = found
      BY <1>1, <3>1 DEF Learns, Facts
    <3> QED BY <3>2
  <2>4. CASE ReadFails(p) \/ Busy(p) \/ Unlock(p) \/ Crash(p) \/ Replay(p) \/ Evaluate(p)
    BY <1>1, <1>2, <2>4 DEF ReadFails, Busy, Unlock, Crash, End, Replay, Evaluate
  <2>5. CASE Submit(p) \/ Acquire(p) \/ Merge(p) \/ WriteFails(p) \/ Store(p)
    <3>1. UNCHANGED facts
      BY <2>5 DEF Submit, Acquire, Merge, WriteFails, Store, SetGate, EnableAuto,
           AutoRefused, PlainMerge, PlainFindsMerged, PlainRefused, Put, PutRefused, Kept
    <3> QED BY <3>1
  <2> QED BY <2>1, <2>2, <2>3, <2>4, <2>5 DEF Continue, GoWrong, Read
<1>4. ASSUME pc'[p] \in Merging
      PROVE  /\ intent'[p] = intent[p]
             /\ \/ pc[p] \in Merging
                \/ /\ pc[p] = "decide"
                   /\ Decision(intent[p], facts[p]) \in {"MERGED", "QUEUED"}
  <2>1. CASE Submit(p) \/ Read(p) \/ ReadFails(p) \/ Acquire(p) \/ Busy(p) \/ Unlock(p)
               \/ Crash(p) \/ Replay(p) \/ Store(p)
    <3>1. pc'[p] \in {"lock", "read pull", "read tip", "read checks", "read rest",
                      "decide", "unlock", "idle"}
      BY <1>1, <2>1 DEF Submit, Read, ReadPull, ReadTip, ReadChecks, ReadRest, ReadFails,
         Acquire, Busy, Unlock, Crash, Replay, Store, End, Goto
    <3> QED BY <1>4, <3>1 DEF Merging
  <2>2. CASE Merge(p) \/ WriteFails(p)
    BY <2>2 DEF Merge, WriteFails, SetGate, EnableAuto, AutoRefused, PlainMerge, Merging,
         PlainFindsMerged, PlainRefused, Put, PutRefused, Kept
  <2>3. CASE Evaluate(p)
    <3> DEFINE d == Decision(intent[p], facts[p])
    <3>1. pc'[p] = Route(d, intent[p].mode) /\ UNCHANGED intent /\ pc[p] = "decide"
      BY <1>1, <2>3 DEF Evaluate, Goto
    <3> HIDE DEF d
    <3>2. d \in {"MERGED", "QUEUED"}
      BY <1>4, <3>1 DEF Route, Merging
    <3> QED BY <3>1, <3>2 DEF d
  <2> QED BY <2>1, <2>2, <2>3 DEF Continue, GoWrong
<1> QED BY <1>3, <1>4

\* Nobody decides to merge before the dependencies are verified.
LEMMA DecisionIsOrdered ==
  ASSUME NEW i, NEW f, Decision(i, f) \in {"MERGED", "QUEUED"}
  PROVE  Before(i.pull) \subseteq f.verified
<1> DEFINE t == TicketOf[i.pull]
<1>1. DependenciesVerified(t, f)
  <2> HIDE DEF t
  <2> QED BY DEF Decision, t
<1> QED BY <1>1 DEF DependenciesVerified, Before

LEMMA DependencyStep ==
  ASSUME Shape, DependencyInv, [Next]_vars
  PROVE  DependencyInv'
<1>0. LandedTickets \subseteq LandedTickets'
  BY LandedStays
<1>1. /\ history \in Seq(Landing) /\ history' \in Seq(Landing) /\ Extends
      /\ \A n \in Pull : pulls[n].state = "merged" => pulls'[n].state = "merged"
  BY NextShape, HistoryExtends DEF Shape, TypeOK, ForgeTypeOK
<1>2. Len(history) \in Nat
  BY <1>1
<1>3. ASSUME NEW p \in Run
      PROVE  /\ facts'[p].verified \subseteq LandedTickets'
             /\ pc'[p] \in Merging => Before(intent'[p].pull) \subseteq LandedTickets'
  <2>1. /\ facts[p].verified \subseteq LandedTickets /\ verified \subseteq LandedTickets
        /\ pc[p] \in Merging => Before(intent[p].pull) \subseteq LandedTickets
    BY DEF DependencyInv
  <2>2. CASE Submit(p) \/ Continue(p) \/ GoWrong(p)
    <3>1. /\ facts'[p].verified \subseteq facts[p].verified \cup verified
          /\ pc'[p] \in Merging =>
               /\ intent'[p] = intent[p]
               /\ \/ pc[p] \in Merging
                  \/ Decision(intent[p], facts[p]) \in {"MERGED", "QUEUED"}
      BY <2>2, RunLearns
    <3>2. Decision(intent[p], facts[p]) \in {"MERGED", "QUEUED"} =>
            Before(intent[p].pull) \subseteq facts[p].verified
      BY DecisionIsOrdered
    <3>3. pc'[p] \in Merging => Before(intent[p].pull) \subseteq LandedTickets
      BY <2>1, <3>1, <3>2
    <3> QED BY <1>0, <2>1, <3>1, <3>3
  <2>3. CASE ~ (Submit(p) \/ Continue(p) \/ GoWrong(p))
    <3>1. pc'[p] = pc[p] /\ intent'[p] = intent[p] /\ facts'[p] = facts[p]
      <4>1. ASSUME NEW q \in Run, Submit(q) \/ Continue(q) \/ GoWrong(q)
            PROVE  pc'[p] = pc[p] /\ intent'[p] = intent[p] /\ facts'[p] = facts[p]
        BY <2>3, <4>1, RunShape DEF Turn
      <4> QED BY <4>1 DEF Next, brokerVars, vars
    <3> QED BY <1>0, <2>1, <3>1
  <2> QED BY <2>2, <2>3
<1>4. ASSUME NEW k \in Brokered', k \in 1..Len(history),
             NEW t \in Dependencies[TicketOf[history'[k].pull]]
      PROVE  \E j \in 1..(k - 1) : history'[j].pull \in Pull /\ TicketOf[history'[j].pull] = t
  <2>1. history'[k] = history[k] /\ k \in Brokered
    BY <1>1, <1>4 DEF Extends, Brokered
  <2>2. PICK j \in 1..(k - 1) : history[j].pull \in Pull /\ TicketOf[history[j].pull] = t
    BY <1>4, <2>1 DEF DependencyInv, DependenciesComeFirst
  <2>3. history'[j] = history[j]
    <3> DEFINE m == Len(history)
    <3>1. k \in 1..m /\ m \in Nat
      BY <1>2, <1>4
    <3> HIDE DEF m
    <3>2. j \in 1..m
      BY <3>1
    <3> QED BY <1>1, <3>2 DEF Extends, m
  <2> QED BY <2>2, <2>3
<1>5. CASE Quiet
  <2>1. DependenciesComeFirst'
    BY <1>4, <1>5 DEF Quiet, DependenciesComeFirst, Brokered
  <2>2. \A n \in Pull : pulls'[n].state = "merged" => TicketOf[n] \in LandedTickets'
    BY <1>0, <1>5 DEF Quiet, DependencyInv
  <2>3. verified' \subseteq LandedTickets'
    BY <1>0, <1>5 DEF Quiet, DependencyInv
  <2>4. \A n \in auto' : Before(n) \subseteq LandedTickets'
    BY <1>0, <1>5 DEF Quiet, DependencyInv, Merging
  <2> QED BY <1>3, <2>1, <2>2, <2>3, <2>4 DEF DependencyInv
<1>6. ASSUME Len(history') = Len(history) + 1, NEW k \in Brokered'
      PROVE  k \in 1..Len(history) \/ k = Len(history) + 1
  <2> DEFINE m == Len(history)
  <2>1. m \in Nat /\ k \in 1..m + 1
    BY <1>2, <1>6 DEF Brokered
  <2> HIDE DEF m
  <2>2. k \in 1..m \/ k = m + 1
    BY <2>1
  <2> QED BY <2>2 DEF m
<1>7. CASE Pushed
  <2>1. \A k \in Brokered' : k \in 1..Len(history)
    BY <1>6, <1>7, PushAdds DEF Brokered
  <2>2. DependenciesComeFirst'
    BY <1>4, <2>1 DEF DependenciesComeFirst
  <2> QED BY <1>0, <1>3, <1>7, <2>2 DEF Pushed, DependencyInv
<1>8. ASSUME NEW n \in Pull, NEW via \in {"broker", "auto", "people"}, Landed(n, via)
      PROVE  DependencyInv'
  <2>1. /\ Len(history') = Len(history) + 1 /\ auto' \subseteq auto /\ UNCHANGED verified
        /\ history'[Len(history) + 1] = [pull |-> n, head |-> pulls[n].head, via |-> via]
        /\ \A m \in Pull : pulls'[m].state = "merged" <=>
                             pulls[m].state = "merged" \/ m = n
    BY <1>8, LandingAdds
  <2>2. TicketOf[n] \in LandedTickets'
    <3>1. Len(history) + 1 \in 1..Len(history')
      <4> DEFINE m == Len(history)
      <4>1. m \in Nat /\ Len(history') = m + 1
        BY <1>2, <2>1
      <4> HIDE DEF m
      <4>2. m + 1 \in 1..m + 1
        BY <4>1
      <4> QED BY <4>1, <4>2 DEF m
    <3> QED BY <2>1, <3>1 DEF LandedTickets
  <2>3. via \in {"broker", "auto"} => Before(n) \subseteq LandedTickets
    BY <1>8 DEF Landed, DependencyInv, Merging
  <2>4. ASSUME NEW k \in Brokered', k = Len(history) + 1,
               NEW t \in Dependencies[TicketOf[history'[k].pull]]
        PROVE  \E j \in 1..(k - 1) :
                 history'[j].pull \in Pull /\ TicketOf[history'[j].pull] = t
    <3>1. history'[k].pull = n /\ via \in {"broker", "auto"}
      BY <2>1, <2>4 DEF Brokered
    <3>2. PICK j \in 1..Len(history) :
            history[j].pull \in Pull /\ TicketOf[history[j].pull] = t
      BY <2>3, <2>4, <3>1 DEF Before, LandedTickets
    <3>3. history'[j] = history[j]
      BY <1>1 DEF Extends
    <3>4. k - 1 = Len(history)
      BY <1>2, <2>4
    <3> QED BY <3>2, <3>3, <3>4
  <2>5. DependenciesComeFirst'
    BY <1>4, <1>6, <2>1, <2>4 DEF DependenciesComeFirst
  <2>6. \A m \in Pull : pulls'[m].state = "merged" => TicketOf[m] \in LandedTickets'
    BY <1>0, <2>1, <2>2 DEF DependencyInv
  <2>7. verified' \subseteq LandedTickets' /\ \A m \in auto' : Before(m) \subseteq LandedTickets'
    BY <1>0, <2>1 DEF DependencyInv
  <2> QED BY <1>3, <2>5, <2>6, <2>7 DEF DependencyInv
<1> QED BY <1>5, <1>7, <1>8, EveryStepLands

(***************************************************************************)
(* Whatever order people, controllers and brokers act in, and whatever is  *)
(* lost or fails, the broker lands no ticket before all the tickets it     *)
(* depends on have landed (step 8 of evaluate).                            *)
(***************************************************************************)
THEOREM DependenciesLandFirst == Spec => []DependenciesComeFirst
<1>1. Init => Shape /\ DependencyInv
  <2>1. ASSUME Init
        PROVE  DependencyInv
    <3>1. Len(history) = 0 /\ verified = {} /\ auto = {}
      BY <2>1 DEF Init, ForgeInit
    <3>2. Brokered = {}
      BY <3>1 DEF Brokered
    <3>3. /\ \A n \in Pull : pulls[n].state = "absent"
          /\ \A p \in Run : pc[p] = "idle" /\ facts[p].verified = {}
      BY <2>1 DEF Init, ForgeInit, NoFacts
    <3> QED BY <3>1, <3>2, <3>3 DEF DependencyInv, DependenciesComeFirst, Merging
  <2> QED BY <2>1, InitShape
<1>2. Shape /\ DependencyInv /\ [Next]_vars => (Shape /\ DependencyInv)'
  BY NextShape, DependencyStep
<1>3. DependencyInv => DependenciesComeFirst
  BY DEF DependencyInv
<1> QED BY <1>1, <1>2, <1>3, PTL DEF Spec

----------------------------------------------------------------------------
\* What receipts say.

\* What is queued is not taken out of the queue: GitHub does that to what is
\* closed or made a draft, and no receipt is taken back for it.
StaysQueued == Native => Outside \cap {"close", "draft"} = {}

\* What a decision says of its key.
Holds(key, d) ==
  /\ d \in {"MERGED", "ALREADY_MERGED"} => pulls[key.pull].state = "merged"
  /\ d = "QUEUED" => pulls[key.pull].state = "merged" \/ key.pull \in auto
  /\ d = "MERGED" /\ ~Native =>
       \E k \in 1..Len(history) :
         history[k] = [pull |-> key.pull, head |-> key.head, via |-> "broker"]

\* Who has read a merged pull request has read of one that is, and who comes to
\* store a decision holds a true one.
Knows(p) ==
  /\ facts[p].pull.state = "merged" =>
       pc[p] # "idle" /\ pulls[intent[p].pull].state = "merged"
  /\ pc[p] = "store" /\ intent[p].mode # "simulated" => Holds(Key(intent[p]), outcome[p])
  /\ pc[p] = "put" => ~Native
  /\ pc[p] \in {"gate", "auto", "plain"} => Native

\* ReceiptIsTrue, made inductive.
TruthInv ==
  /\ \A p \in Run : Knows(p)
  /\ \A r \in receipts : r.executed => Holds(r.key, r.decision)
  /\ ~Native => auto = {}

\* Keys are of pull requests there are.
Keys == [pull : Pull, head : 1..MaxHead, policy : 0..MaxPolicy]

LEMMA HoldsOn ==
  ASSUME StaysQueued, Shape, TruthInv, [Next]_vars, NEW key \in Keys, NEW d \in Outcome,
         Holds(key, d)
  PROVE  Holds(key, d)'
<1> DEFINE n == key.pull
<1>1. n \in Pull
  BY DEF Keys
<1>2. /\ Extends /\ (pulls[n].state = "merged" => pulls'[n].state = "merged")
      /\ history \in Seq(Landing) /\ history' \in Seq(Landing)
  BY <1>1, HistoryExtends, NextShape DEF Shape, TypeOK, ForgeTypeOK
<1>3. ASSUME NEW k \in 1..Len(history)
      PROVE  k \in 1..Len(history') /\ history'[k] = history[k]
  BY <1>2, <1>3 DEF Extends
<1>4. ASSUME d = "QUEUED"
      PROVE  pulls'[n].state = "merged" \/ n \in auto'
  <2>1. pulls[n].state = "merged" \/ (n \in auto /\ Native)
    BY <1>4 DEF Holds, TruthInv
  <2>2. ASSUME n \in auto, Native, n \notin auto'
        PROVE  pulls'[n].state = "merged"
    <3>1. ASSUME NEW m \in Pull, NEW via, Lands(m, via)
          PROVE  pulls'[n].state = "merged"
      <4>1. m = n
        BY <2>2, <3>1 DEF Lands
      <4>2. pulls \in [Pull -> PullRequest]
        BY DEF Shape, TypeOK, ForgeTypeOK
      <4> QED BY <1>1, <3>1, <4>1, <4>2 DEF Lands, PullRequest
    <3>2. CASE ForgeNext
      <4>1. ASSUME NEW m \in Pull, EditState(m)
            PROVE  FALSE
        BY <2>2, <4>1 DEF EditState, ChangeState, StaysQueued
      <4>2. PeopleLand => \E m \in Pull : Lands(m, "people")
        BY <2>2 DEF PeopleLand
      <4> QED BY <2>2, <3>1, <3>2, <4>1, <4>2 DEF ForgeNext, AutoMergeFires, OpenPull,
              PushHead, Report, Relink, PostMerge, Unprotect, ChangePolicy
    <3>3. ASSUME NEW p \in Run, Submit(p) \/ Continue(p) \/ GoWrong(p)
          PROVE  pulls'[n].state = "merged"
      <4>1. CASE PlainMerge(p) \/ Put(p)
        <5>1. intent[p].pull \in Pull
          BY <4>1 DEF PlainMerge, Put, Shape, TypeOK, Intent
        <5> QED BY <3>1, <4>1, <5>1 DEF PlainMerge, Put
      <4>2. CASE ~ (PlainMerge(p) \/ Put(p))
        BY <2>2, <3>3, <4>2 DEF Submit, Continue, GoWrong, Read, ReadPull, ReadTip,
           ReadChecks, ReadRest, Learns, ReadFails, WriteFails, Crash, Acquire, Busy,
           Replay, Evaluate, Merge, SetGate, EnableAuto, AutoRefused, PlainFindsMerged,
           PlainRefused, PutRefused, Store, Unlock, forgeVars
      <4> QED BY <4>1, <4>2
    <3>4. CASE UNCHANGED vars
      BY <2>2, <3>4 DEF vars, forgeVars
    <3> QED BY <3>2, <3>3, <3>4 DEF Next
  <2> QED BY <1>2, <2>1, <2>2
<1> QED BY <1>2, <1>3, <1>4 DEF Holds

\* What a process reads, decides and comes to store is true.
LEMMA RunKnows ==
  ASSUME StaysQueued, Shape, TruthInv, [Next]_vars,
         NEW p \in Run, Submit(p) \/ Continue(p) \/ GoWrong(p)
  PROVE  Knows(p)'
<1> DEFINE n == intent[p].pull
           head == intent[p].head
           d == outcome[p]
<1>1. /\ pc \in [Run -> Step] /\ facts \in [Run -> Facts] /\ outcome \in [Run -> Outcome]
      /\ intent \in [Run -> Intent \cup {NoIntent}] /\ facts[p] \in Facts
      /\ pulls \in [Pull -> PullRequest] /\ history \in Seq(Landing)
      /\ pc[p] # "idle" => n \in Pull /\ head \in 1..MaxHead
      /\ Knows(p) /\ NoFacts.pull.state = "absent"
      /\ pc[p] = "store" => outcome[p] \in Terminal
  BY DEF Shape, TypeOK, ForgeTypeOK, Intent, TruthInv, NoFacts
<1>2. n \in Pull => (pulls[n].state = "merged" => pulls'[n].state = "merged")
  BY HistoryExtends
<1>3. ASSUME pc'[p] \in Step \ {"store", "put", "gate", "auto", "plain"},
             \/ facts'[p].pull.state # "merged"
             \/ /\ facts'[p].pull = facts[p].pull /\ intent'[p] = intent[p]
                /\ pc[p] # "idle" /\ pc'[p] # "idle"
      PROVE  Knows(p)'
  BY <1>1, <1>2, <1>3 DEF Knows
<1>4. CASE Submit(p)
  <2>1. pc'[p] \in {"lock", "read pull"} /\ facts'[p].pull.state # "merged"
    BY <1>1, <1>4 DEF Submit, Goto, Knows
  <2> QED BY <1>3, <2>1 DEF Step
<1>5. CASE ReadPull(p)
  <2>1. /\ facts'[p].pull = pulls[n] /\ pc'[p] = "read tip" /\ intent'[p] = intent[p]
        /\ pulls' = pulls
    BY <1>1, <1>5 DEF ReadPull, Learns, Goto, NoFacts, forgeVars
  <2> QED BY <2>1 DEF Knows
<1>6. CASE ReadTip(p) \/ ReadChecks(p) \/ ReadRest(p) \/ Acquire(p)
  <2>1. /\ facts'[p].pull = facts[p].pull /\ intent'[p] = intent[p] /\ pc[p] # "idle"
        /\ pc'[p] \in {"read checks", "read rest", "lock", "decide"}
    <3>1. CASE ReadRest(p)
      <4>1. PICK several, protected, checked, found :
              Learns(p, [facts[p] EXCEPT !.known = TRUE, !.several = several,
                         !.protected = protected, !.checked = checked,
                         !.verified = found])
        BY <3>1 DEF ReadRest
      <4>2. pc'[p] = "lock" /\ pc[p] = "read rest"
        BY <1>1, <3>1 DEF ReadRest, Goto
      <4> QED BY <1>1, <4>1, <4>2 DEF Learns, Facts
    <3>2. CASE ReadTip(p) \/ ReadChecks(p) \/ Acquire(p)
      BY <1>1, <3>2 DEF ReadTip, ReadChecks, Acquire, Learns, Goto, Facts
    <3> QED BY <1>6, <3>1, <3>2
  <2> QED BY <1>3, <2>1 DEF Step
<1>7. CASE ReadFails(p) \/ Busy(p) \/ Unlock(p) \/ Crash(p) \/ Replay(p)
  <2>1. facts'[p].pull.state # "merged" /\ pc'[p] \in {"lock", "idle", "unlock"}
    BY <1>1, <1>7 DEF ReadFails, Busy, Unlock, Crash, Replay, End, Goto
  <2> QED BY <1>3, <2>1 DEF Step
<1>8. CASE Store(p)
  <2>1. /\ facts'[p] = facts[p] /\ intent'[p] = intent[p] /\ pc'[p] = "unlock"
        /\ pc[p] # "idle"
    BY <1>1, <1>8 DEF Store, Goto
  <2> QED BY <1>3, <2>1 DEF Step
<1>9. CASE Evaluate(p)
  <2> DEFINE e == Decision(intent[p], facts[p])
             step == Route(e, intent[p].mode)
  <2>1. /\ facts'[p] = NoFacts /\ intent'[p] = intent[p] /\ outcome'[p] = e
        /\ pc'[p] = step /\ pulls' = pulls /\ pc[p] = "decide"
    BY <1>1, <1>9 DEF Evaluate, Goto, forgeVars
  <2>2. e = "ALREADY_MERGED" => facts[p].pull.state = "merged"
    BY DEF Decision
  <2> HIDE DEF e
  <2>3. /\ step = "store" => e = "ALREADY_MERGED" \/ intent[p].mode = "simulated"
        /\ step = "put" => ~Native
        /\ step = "gate" => Native
        /\ step \notin {"auto", "plain"}
    BY DEF Route, Terminal
  <2> HIDE DEF step
  <2>4. ASSUME e = "ALREADY_MERGED"
        PROVE  pulls[n].state = "merged"
    BY <1>1, <2>2, <2>4 DEF Knows
  <2>5. /\ facts'[p].pull.state # "merged"
        /\ pc'[p] = "store" /\ intent'[p].mode # "simulated" =>
             outcome'[p] = "ALREADY_MERGED" /\ pulls'[intent'[p].pull].state = "merged"
        /\ pc'[p] = "put" => ~Native
        /\ pc'[p] \in {"gate", "auto", "plain"} => Native
    BY <1>1, <2>1, <2>3, <2>4
  <2> QED BY <2>5 DEF Knows, Holds, Key
<1>10. CASE Merge(p) \/ WriteFails(p)
  <2>1. /\ facts'[p] = facts[p] /\ intent'[p] = intent[p] /\ pc[p] # "idle"
        /\ pc'[p] \in {"auto", "plain", "store", "unlock"}
    BY <1>1, <1>10 DEF Merge, WriteFails, SetGate, EnableAuto, AutoRefused, PlainMerge,
       PlainFindsMerged, PlainRefused, Put, PutRefused, Kept, Settled, Unsure, Goto
  <2>2. facts'[p].pull.state = "merged" =>
          pc'[p] # "idle" /\ pulls'[intent'[p].pull].state = "merged"
    BY <1>1, <1>2, <2>1 DEF Knows
  <2>3. pc'[p] \in {"auto", "plain"} => Native
    BY <1>1, <1>10 DEF Merge, WriteFails, SetGate, EnableAuto, AutoRefused, PlainMerge,
       PlainFindsMerged, PlainRefused, Put, PutRefused, Settled, Unsure, Goto, Knows
  <2>4. ASSUME pc'[p] = "store"
        PROVE  Holds(Key(intent[p]), outcome[p])'
    <3>1. CASE EnableAuto(p)
      <4>1. outcome'[p] = "QUEUED"
        BY <1>1, <2>4, <3>1 DEF EnableAuto, Settled, Goto
      <4>2. pulls'[n].state = "merged" \/ n \in auto'
        BY <3>1 DEF EnableAuto, AcceptsAuto
      <4>3. pulls'[intent'[p].pull].state = "merged" \/ intent'[p].pull \in auto'
        BY <2>1, <4>2
      <4> QED BY <4>1, <4>3 DEF Holds, Key
    <3>2. CASE PlainMerge(p) \/ PlainFindsMerged(p)
      <4>1. outcome'[p] = "MERGED" /\ Native
        BY <1>1, <2>4, <3>2 DEF PlainMerge, PlainFindsMerged, Settled, Unsure, Goto, Knows
      <4>2. pulls'[n].state = "merged"
        BY <1>1, <2>1, <3>2
           DEF PlainMerge, PlainFindsMerged, Lands, PullRequest, forgeVars
      <4>3. pulls'[intent'[p].pull].state = "merged"
        BY <2>1, <4>2
      <4> QED BY <4>1, <4>3 DEF Holds, Key
    <3>3. CASE Put(p)
      <4> DEFINE k == Len(history) + 1
      <4>1. /\ outcome'[p] = "MERGED" /\ pulls[n].head = head
            /\ IsOpen(n) /\ Lands(n, "broker") /\ n \in Pull
        BY <1>1, <2>1, <2>4, <3>3 DEF Put, Settled, Unsure, Goto
      <4>2. Landed(n, "broker")
        BY <3>3, <4>1 DEF Landed, Put
      <4>3. /\ pulls'[n].state = "merged" /\ Len(history') = k
            /\ history'[k] = [pull |-> n, head |-> head, via |-> "broker"]
        BY <4>1, <4>2, LandingAdds
      <4>4. k \in 1..Len(history')
        <5> DEFINE m == Len(history)
        <5>1. m \in Nat /\ Len(history') = m + 1
          BY <1>1, <4>3
        <5> HIDE DEF m
        <5>2. m + 1 \in 1..m + 1
          BY <5>1
        <5> QED BY <5>1, <5>2 DEF m
      <4>5. /\ pulls'[intent'[p].pull].state = "merged"
            /\ history'[k] = [pull |-> intent'[p].pull, head |-> intent'[p].head,
                              via |-> "broker"]
        BY <2>1, <4>3
      <4> HIDE DEF k
      <4> QED BY <4>1, <4>4, <4>5 DEF Holds, Key
    <3>4. CASE SetGate(p) \/ AutoRefused(p) \/ PlainRefused(p) \/ PutRefused(p)
                 \/ WriteFails(p)
      <4>1. pc'[p] # "store"
        BY <1>1, <3>4 DEF SetGate, AutoRefused, PlainRefused, PutRefused, WriteFails,
                          Unsure, Goto
      <4> QED BY <2>4, <4>1
    <3> QED BY <1>10, <3>1, <3>2, <3>3, <3>4 DEF Merge
  <2> QED BY <2>1, <2>2, <2>3, <2>4 DEF Knows
<1> QED BY <1>4, <1>5, <1>6, <1>7, <1>8, <1>9, <1>10 DEF Continue, GoWrong, Read

LEMMA TruthStep ==
  ASSUME StaysQueued, Shape, TruthInv, [Next]_vars
  PROVE  TruthInv'
<1>0. /\ receipts \subseteq Receipt /\ outcome \in [Run -> Outcome]
      /\ \A p \in Run : pc[p] # "idle" => intent[p] \in Intent
  BY DEF Shape, TypeOK
<1>1. ASSUME NEW q \in Run, UNCHANGED <<pc[q], intent[q], facts[q], outcome[q]>>
      PROVE  Knows(q)'
  <2>1. /\ pc'[q] = pc[q] /\ intent'[q] = intent[q] /\ facts'[q] = facts[q]
        /\ outcome'[q] = outcome[q] /\ Knows(q)
    BY <1>1 DEF TruthInv
  <2>2. pc[q] # "idle" => intent[q].pull \in Pull /\ Key(intent[q]) \in Keys
    BY <1>0 DEF Intent, Key, Keys
  <2>3. facts'[q].pull.state = "merged" =>
          pc'[q] # "idle" /\ pulls'[intent'[q].pull].state = "merged"
    BY <2>1, <2>2, HistoryExtends DEF Knows
  <2>4. ASSUME pc[q] = "store", intent[q].mode # "simulated"
        PROVE  Holds(Key(intent[q]), outcome[q])'
    <3>1. PICK key \in Keys, d \in Outcome : key = Key(intent[q]) /\ d = outcome[q]
      BY <1>0, <2>2, <2>4
    <3>2. Holds(key, d)
      BY <2>1, <2>4, <3>1 DEF Knows
    <3>3. Holds(key, d)'
      BY <3>1, <3>2, HoldsOn
    <3>4. key = Key(intent'[q]) /\ d = outcome'[q]
      BY <2>1, <3>1
    <3> QED BY <3>3, <3>4 DEF Holds
  <2> QED BY <2>1, <2>3, <2>4 DEF Knows
<1>2. \A p \in Run : Knows(p)'
  <2>1. ASSUME NEW p \in Run, Submit(p) \/ Continue(p) \/ GoWrong(p), NEW q \in Run
        PROVE  Knows(q)'
    <3>1. q # p => Knows(q)'
      BY <1>1, <2>1, RunShape DEF Turn
    <3> QED BY <2>1, <3>1, RunKnows
  <2>2. CASE UNCHANGED brokerVars
    BY <1>1, <2>2 DEF brokerVars
  <2> QED BY <2>1, <2>2 DEF Next, vars
<1>3. ASSUME NEW r \in receipts', r.executed
      PROVE  Holds(r.key, r.decision)'
  <2>1. CASE r \in receipts
    <3>1. r.key \in Keys /\ r.decision \in Outcome
      BY <1>0, <2>1 DEF Receipt, Keys, Terminal, Outcome
    <3>2. Holds(r.key, r.decision)
      BY <1>3, <2>1 DEF TruthInv
    <3> QED BY <3>1, <3>2, HoldsOn
  <2>2. CASE r \notin receipts
    <3>1. PICK p \in Run : Store(p)
      BY <2>2, <1>3 DEF Next, brokerVars, vars, Submit, Continue, GoWrong, Read, ReadPull,
         ReadTip, ReadChecks, ReadRest, Learns, ReadFails, WriteFails, Crash, Acquire, Busy,
         Replay, Evaluate, Merge, SetGate, EnableAuto, AutoRefused, PlainMerge,
         PlainFindsMerged, PlainRefused, Put, PutRefused, Unlock, Kept
    <3>2. r = [key |-> Key(intent[p]), decision |-> outcome[p],
               executed |-> intent[p].mode # "simulated"]
      BY <2>2, <3>1 DEF Store
    <3>3. /\ pc[p] = "store" /\ intent[p].mode # "simulated"
          /\ r.key = Key(intent[p]) /\ r.decision = outcome[p]
      BY <1>3, <3>1, <3>2 DEF Store
    <3>4. Holds(r.key, r.decision)
      BY <3>3 DEF TruthInv, Knows
    <3>5. r.key \in Keys /\ r.decision \in Outcome
      BY <1>0, <3>3 DEF Key, Keys, Intent
    <3> QED BY <3>4, <3>5, HoldsOn
  <2> QED BY <2>1, <2>2
<1>4. ASSUME ~Native
      PROVE  auto' = {}
  <2>1. auto = {}
    BY <1>4 DEF TruthInv
  <2>2. ASSUME NEW n \in auto'
        PROVE  FALSE
    <3>1. CASE Quiet
      BY <1>4, <2>1, <2>2, <3>1 DEF Quiet, TruthInv, Knows
    <3>2. CASE Pushed
      BY <2>1, <2>2, <3>2 DEF Pushed
    <3> QED BY <2>1, <2>2, <3>1, <3>2, LandingAdds, EveryStepLands
  <2> QED BY <2>2
<1> QED BY <1>2, <1>3, <1>4 DEF TruthInv

(***************************************************************************)
(* A receipt of an executed intent is true when it is written and stays    *)
(* true, whatever replies are lost and brokers die between the merge call  *)
(* and the receipt; in a public profile as long as nobody closes what is   *)
(* queued or makes it a draft (execute).                                   *)
(***************************************************************************)
THEOREM ReceiptsTellTheTruth ==
  ASSUME StaysQueued
  PROVE  Spec => []ReceiptIsTrue
<1>1. Init => Shape /\ TruthInv
  BY InitShape DEF Init, ForgeInit, TruthInv, Knows, NoFacts
<1>2. Shape /\ TruthInv /\ [Next]_vars => (Shape /\ TruthInv)'
  BY NextShape, TruthStep
<1>3. TruthInv => ReceiptIsTrue
  BY DEF TruthInv, Holds, ReceiptIsTrue
<1> QED BY <1>1, <1>2, <1>3, PTL DEF Spec
=============================================================================
