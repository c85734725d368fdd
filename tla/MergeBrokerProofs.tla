------------------------- MODULE MergeBrokerProofs -------------------------
(***************************************************************************)
(* Theorems about MergeBroker for every value of its constants: any        *)
(* tickets, pull requests and policies, all three profiles, any number of  *)
(* brokers at a time, all faults, and everything others may do.            *)
(***************************************************************************)
EXTENDS MergeBroker, TLAPS

----------------------------------------------------------------------------
\* A pull request that exists goes on existing, and what succeeded has.
Grows ==
  /\ \A n \in Pull : pulls[n].state # "absent" => pulls'[n].state # "absent"
  /\ seenGreen \subseteq seenGreen'

\* Landing keeps the types of the repository.
LEMMA LandsType ==
  ASSUME ForgeTypeOK, NEW n \in Pull, NEW via \in {"broker", "auto", "people"},
         IsOpen(n), Lands(n, via)
  PROVE  ForgeTypeOK' /\ Grows
<1>1. [pull |-> n, head |-> pulls[n].head, via |-> via] \in Landing
  BY DEF ForgeTypeOK, Landing, PullRequest
<1>2. history' \in Seq(Landing)
  BY <1>1 DEF Lands, ForgeTypeOK
<1>3. pulls' \in [Pull -> PullRequest]
  BY DEF Lands, ForgeTypeOK, PullRequest
<1>4. \A m \in Pull : pulls'[m].state # "absent" => pulls'[m].head > 0
  BY DEF Lands, ForgeTypeOK, PullRequest, IsOpen
<1>5. \A m \in Pull : pulls[m].state # "absent" => pulls'[m].state # "absent"
  BY DEF Lands, ForgeTypeOK, PullRequest
<1>6. auto' \subseteq Pull
  BY DEF Lands, ForgeTypeOK
<1> QED BY <1>2, <1>3, <1>4, <1>5, <1>6 DEF Lands, ForgeTypeOK, Grows

\* So does everything that others do.
LEMMA ForgeStep ==
  ASSUME ForgeTypeOK, ForgeNext
  PROVE  ForgeTypeOK' /\ Grows
<1>0. Tip \in Nat /\ MaxHead \in Nat \ {0} /\ TicketOf \in [Pull -> Tickets]
  BY ForgeAssumption DEF ForgeTypeOK, Tip
<1>1. ASSUME NEW n \in Pull, AutoMergeFires(n)
      PROVE  ForgeTypeOK' /\ Grows
  BY <1>1, LandsType DEF AutoMergeFires
<1>2. ASSUME NEW n \in Pull, OpenPull(n)
      PROVE  ForgeTypeOK' /\ Grows
  <2>1. pulls' \in [Pull -> PullRequest]
    BY <1>0, <1>2 DEF OpenPull, ForgeTypeOK, PullRequest
  <2>2. \A m \in Pull : pulls'[m].state # "absent" => pulls'[m].head > 0
    BY <1>2 DEF OpenPull, ForgeTypeOK
  <2>3. \A m \in Pull : pulls[m].state # "absent" => pulls'[m].state # "absent"
    BY <1>2 DEF OpenPull, ForgeTypeOK
  <2> QED BY <1>2, <2>1, <2>2, <2>3 DEF OpenPull, ForgeTypeOK, Grows
<1>3. ASSUME NEW n \in Pull, PushHead(n)
      PROVE  ForgeTypeOK' /\ Grows
  <2> DEFINE pushed == [pulls[n] EXCEPT !.head = @ + 1, !.base = Tip]
  <2>0. pulls[n] \in PullRequest /\ pulls[n].head \in 0..MaxHead
    BY DEF ForgeTypeOK, PullRequest
  <2>4. pulls[n].head + 1 \in 0..MaxHead
    BY <1>0, <1>3, <2>0 DEF PushHead
  <2>5. pushed \in PullRequest
    BY <1>0, <2>0, <2>4 DEF PullRequest
  <2>6. pulls' = [pulls EXCEPT ![n] = pushed]
    BY <1>3 DEF PushHead, ForgeTypeOK
  <2>1. pulls' \in [Pull -> PullRequest]
    <3> HIDE DEF pushed
    <3> QED BY <2>5, <2>6 DEF ForgeTypeOK
  <2>2. \A m \in Pull : pulls'[m].state # "absent" => pulls'[m].head > 0
    BY <1>0, <1>3 DEF PushHead, ForgeTypeOK, PullRequest
  <2>3. \A m \in Pull : pulls[m].state # "absent" => pulls'[m].state # "absent"
    BY <1>3 DEF PushHead, ForgeTypeOK, PullRequest
  <2> QED BY <1>3, <2>1, <2>2, <2>3 DEF PushHead, ForgeTypeOK, Grows
<1>4. ASSUME NEW n \in Pull, NEW name \in CheckNames, Report(n, name)
      PROVE  ForgeTypeOK' /\ Grows
  <2>1. pulls[n].head \in 1..MaxHead
    BY <1>0, <1>4 DEF Report, ForgeTypeOK, PullRequest
  <2>2. checks' \in [Pull -> [1..MaxHead -> [CheckNames -> Conclusion]]]
    <3> DEFINE h == pulls[n].head
    <3>1. PICK c \in Conclusion : checks' = [checks EXCEPT ![n][h][name] = c]
      BY <1>4 DEF Report, Conclusion
    <3> DEFINE row == [checks[n][h] EXCEPT ![name] = c]
    <3>2. row \in [CheckNames -> Conclusion]
      BY <2>1 DEF ForgeTypeOK
    <3> DEFINE rows == [checks[n] EXCEPT ![h] = row]
    <3>3. rows \in [1..MaxHead -> [CheckNames -> Conclusion]]
      <4> HIDE DEF row
      <4> QED BY <2>1, <3>2 DEF ForgeTypeOK
    <3>4. checks' = [checks EXCEPT ![n] = rows]
      BY <3>1
    <3> HIDE DEF rows
    <3> QED BY <3>3, <3>4 DEF ForgeTypeOK
  <2>3. seenGreen' \subseteq Pull \X (1..MaxHead) \X CheckNames
    BY <2>1, <1>4 DEF Report, ForgeTypeOK
  <2> QED BY <1>4, <2>2, <2>3 DEF Report, ForgeTypeOK, Grows
<1>5. ASSUME NEW n \in Pull, EditState(n)
      PROVE  ForgeTypeOK' /\ Grows
  <2>1. PICK kind \in OutsideKind, from \in {"open", "closed", "draft"},
             to \in {"open", "closed", "draft"} : ChangeState(n, kind, from, to)
    BY <1>5 DEF EditState, OutsideKind
  <2>2. pulls' \in [Pull -> PullRequest]
    BY <2>1 DEF ChangeState, ForgeTypeOK, PullRequest
  <2>3. \A m \in Pull : pulls'[m].state # "absent" => pulls'[m].head > 0
    BY <2>1 DEF ChangeState, ForgeTypeOK, PullRequest
  <2>4. \A m \in Pull : pulls[m].state # "absent" => pulls'[m].state # "absent"
    BY <2>1 DEF ChangeState, ForgeTypeOK, PullRequest
  <2> QED BY <2>1, <2>2, <2>3, <2>4 DEF ChangeState, ForgeTypeOK, Grows
<1>6. ASSUME NEW n \in Pull, Relink(n)
      PROVE  ForgeTypeOK' /\ Grows
  <2>1. pulls' \in [Pull -> PullRequest]
    BY <1>6 DEF Relink, ForgeTypeOK, PullRequest
  <2>2. \A m \in Pull : /\ pulls'[m].state = pulls[m].state
                        /\ pulls'[m].head = pulls[m].head
    BY <1>6 DEF Relink, ForgeTypeOK, PullRequest
  <2> QED BY <1>6, <2>1, <2>2 DEF Relink, ForgeTypeOK, Grows
<1>7. ASSUME NEW n \in Pull, PostMerge(n)
      PROVE  ForgeTypeOK' /\ Grows
  BY <1>0, <1>7 DEF PostMerge, ForgeTypeOK, Grows
<1>8. CASE PeopleLand
  <2>1. ASSUME NEW n \in Pull, IsOpen(n), Lands(n, "people")
        PROVE  ForgeTypeOK' /\ Grows
    BY <2>1, LandsType
  <2>2. CASE /\ history' = Append(history, [pull |-> Nobody, head |-> 0,
                                            via |-> "people"])
             /\ UNCHANGED <<pulls, checks, gate, auto, rules, policy, verified,
                            seenGreen>>
    <3>1. [pull |-> Nobody, head |-> 0, via |-> "people"] \in Landing
      BY <1>0 DEF Landing
    <3> QED BY <2>2, <3>1 DEF ForgeTypeOK, Grows
  <2> QED BY <1>8, <2>1, <2>2 DEF PeopleLand
<1>9. CASE Unprotect
  BY <1>9 DEF Unprotect, ForgeTypeOK, Grows
<1>10. CASE ChangePolicy
  BY <1>10, ForgeAssumption DEF ChangePolicy, ForgeTypeOK, Grows
<1> QED BY <1>1, <1>2, <1>3, <1>4, <1>5, <1>6, <1>7, <1>8, <1>9, <1>10 DEF ForgeNext

----------------------------------------------------------------------------
\* Who runs asks about a pull request that exists, and who has read it knows
\* its head: what TypeOK needs to be inductive.
Shape ==
  /\ TypeOK
  /\ \A p \in Run :
       /\ pc[p] # "idle" => pulls[intent[p].pull].state # "absent"
       /\ pc[p] \in {"read tip", "read checks", "read rest"} =>
            facts[p].pull.head \in 1..MaxHead

\* A step of one process.
Turn(p) ==
  /\ pc' \in [Run -> Step]
  /\ intent' \in [Run -> Intent \cup {NoIntent}]
  /\ facts' \in [Run -> Facts]
  /\ outcome' \in [Run -> Outcome]
  /\ \A q \in Run \ {p} :
       /\ pc'[q] = pc[q] /\ intent'[q] = intent[q]
       /\ facts'[q] = facts[q] /\ outcome'[q] = outcome[q]
  /\ pc'[p] # "idle" => /\ intent'[p] \in Intent
                        /\ pulls'[intent'[p].pull].state # "absent"
  /\ pc'[p] = "store" => outcome'[p] \in Terminal
  /\ pc'[p] \in {"read tip", "read checks", "read rest"} =>
       facts'[p].pull.head \in 1..MaxHead

\* What one process does to itself and to the rest keeps the shape of all.
LEMMA TurnKeepsShape ==
  ASSUME Shape, NEW p \in Run, Turn(p), ForgeTypeOK', Grows,
         lock' \in Run \cup {Nobody}, receipts' \subseteq Receipt,
         spoilt' \in 0..MaxMalformed, budget' \in 0..MaxFaults
  PROVE  Shape'
<1>1. \A q \in Run \ {p} : pc[q] # "idle" => intent[q].pull \in Pull
  BY DEF Shape, TypeOK, Intent
<1>2. ASSUME NEW q \in Run
      PROVE  /\ pc'[q] # "idle" => intent'[q] \in Intent
             /\ pc'[q] = "store" => outcome'[q] \in Terminal
             /\ pc'[q] # "idle" => pulls'[intent'[q].pull].state # "absent"
             /\ pc'[q] \in {"read tip", "read checks", "read rest"} =>
                  facts'[q].pull.head \in 1..MaxHead
  BY <1>1 DEF Turn, Shape, TypeOK, Grows
<1> QED BY <1>2 DEF Turn, Shape, TypeOK

\* What a step does to everything else.
Frame ==
  /\ ForgeTypeOK' /\ Grows
  /\ lock' \in Run \cup {Nobody}
  /\ receipts' \subseteq Receipt
  /\ spoilt' \in 0..MaxMalformed
  /\ budget' \in 0..MaxFaults

\* Nothing is lost while the repository stands still.
LEMMA SameForge ==
  ASSUME ForgeTypeOK, UNCHANGED forgeVars
  PROVE  ForgeTypeOK' /\ Grows
BY DEF ForgeTypeOK, Grows, forgeVars

\* Faults use up their bound and no more.
LEMMA FaultBudget ==
  ASSUME budget \in 0..MaxFaults, NEW kind, Fault(kind)
  PROVE  budget' \in 0..MaxFaults
BY BrokerAssumption DEF Fault

\* The values the program starts from have the right shape.
LEMMA Blank ==
  /\ NoFacts \in Facts
  /\ NoFacts.check = "none" /\ ~NoFacts.known
BY ForgeAssumption DEF NoFacts, Facts, PullRequest, Conclusion

\* What ForgeTypeOK says of one pull request.
LEMMA PullShape ==
  ASSUME ForgeTypeOK, NEW n \in Pull
  PROVE  /\ pulls[n] \in PullRequest
         /\ pulls[n].head \in 0..MaxHead
         /\ pulls[n].state # "absent" => pulls[n].head \in 1..MaxHead
<1>1. pulls[n] \in PullRequest /\ pulls[n].head \in 0..MaxHead
  BY DEF ForgeTypeOK, PullRequest
<1>2. pulls[n].state # "absent" => pulls[n].head > 0
  BY DEF ForgeTypeOK
<1> QED BY <1>1, <1>2, ForgeAssumption

\* Tips are numbered.
LEMMA TipShape ==
  ASSUME ForgeTypeOK
  PROVE  Tip \in Nat
<1>1. history \in Seq(Landing)
  BY DEF ForgeTypeOK
<1> QED BY <1>1 DEF Tip

\* A submitted intent names what there has been.
LEMMA SubmitShape ==
  ASSUME Shape, NEW p \in Run, Submit(p)
  PROVE  Turn(p) /\ Frame
<1>1. PICK n \in Pull, form \in {"valid", "malformed", "expired"}, mode \in Modes :
        /\ pulls[n].state # "absent"
        /\ form # "valid" => spoilt < MaxMalformed
        /\ spoilt' = IF form = "valid" THEN spoilt ELSE spoilt + 1
        /\ \E head \in Recent(pulls[n].head, 1), base \in Recent(Tip, 0),
              version \in Recent(policy, 0) :
             intent' = [intent EXCEPT ![p] =
               [pull |-> n, head |-> head, base |-> base, policy |-> version,
                form |-> form, mode |-> mode]]
        /\ Goto(p, IF form = "malformed" THEN "lock" ELSE "read pull")
  BY DEF Submit
<1>2. PICK head \in Recent(pulls[n].head, 1), base \in Recent(Tip, 0),
           version \in Recent(policy, 0) :
        intent' = [intent EXCEPT ![p] =
          [pull |-> n, head |-> head, base |-> base, policy |-> version,
           form |-> form, mode |-> mode]]
  BY <1>1
<1>3. /\ head \in 1..MaxHead /\ base \in Nat /\ version \in 0..MaxPolicy
      /\ mode \in Mode
  <2>1. pulls[n].head \in 0..MaxHead /\ policy \in 0..MaxPolicy /\ Tip \in Nat
    BY PullShape, TipShape DEF Shape, TypeOK, ForgeTypeOK
  <2> QED BY <2>1, ForgeAssumption, BrokerAssumption DEF Recent
<1>4. [pull |-> n, head |-> head, base |-> base, policy |-> version,
       form |-> form, mode |-> mode] \in Intent
  BY <1>3 DEF Intent
<1>5. Turn(p)
  BY <1>1, <1>2, <1>4 DEF Submit, Turn, Shape, TypeOK, Goto, Step, forgeVars
<1>6. spoilt' \in 0..MaxMalformed
  <2>1. spoilt \in 0..MaxMalformed
    BY DEF Shape, TypeOK
  <2>2. \/ spoilt' = spoilt
        \/ spoilt < MaxMalformed /\ spoilt' = spoilt + 1
    BY <1>1
  <2> QED BY <2>1, <2>2, BrokerAssumption
<1>7. UNCHANGED <<forgeVars, lock, receipts, budget>>
  BY DEF Submit
<1>8. Frame
  BY <1>6, <1>7, SameForge DEF Frame, Shape, TypeOK
<1> QED BY <1>5, <1>8

\* Reading brings facts of the right shape, and a head once the pull is read.
LEMMA ReadShape ==
  ASSUME Shape, NEW p \in Run, Read(p)
  PROVE  Turn(p) /\ Frame
<1> DEFINE i == intent[p]
<1>1. /\ facts[p] \in Facts
      /\ pc[p] # "idle" => i \in Intent /\ pulls[i.pull].state # "absent"
      /\ pc[p] # "idle" => i.pull \in Pull
  BY DEF Shape, TypeOK, Intent
<1>2. UNCHANGED forgeVars
  BY DEF Read, ReadPull, ReadTip, ReadChecks, ReadRest, Learns
<1>3. ASSUME NEW what \in Facts, NEW step \in Step \ {"idle", "store"},
             Learns(p, what), Goto(p, step), pc[p] # "idle",
             step \in {"read tip", "read checks", "read rest"} =>
               what.pull.head \in 1..MaxHead
      PROVE  Turn(p)
  BY <1>1, <1>3 DEF Turn, Shape, TypeOK, Learns, Goto, forgeVars
<1>4. CASE ReadPull(p)
  <2>1. pulls[i.pull] \in PullRequest /\ pulls[i.pull].head \in 1..MaxHead
    BY <1>1, <1>4, PullShape DEF ReadPull, Shape, TypeOK
  <2>2. [NoFacts EXCEPT !.pull = pulls[i.pull]] \in Facts
    BY <2>1, Blank DEF Facts
  <2>3. [NoFacts EXCEPT !.pull = pulls[i.pull]].pull.head \in 1..MaxHead
    BY <2>1 DEF NoFacts
  <2> QED
    BY <1>2, <1>3, <1>4, <2>2, <2>3, SameForge
       DEF ReadPull, Learns, Step, Frame, Shape, TypeOK
<1>5. CASE ReadTip(p)
  <2>1. Tip \in Nat
    BY TipShape DEF Shape, TypeOK
  <2>2. [facts[p] EXCEPT !.tip = Tip] \in Facts
    BY <1>1, <2>1 DEF Facts
  <2>3. [facts[p] EXCEPT !.tip = Tip].pull.head \in 1..MaxHead
    BY <1>1, <1>5 DEF ReadTip, Shape, Facts
  <2> QED
    BY <1>2, <1>3, <1>5, <2>2, <2>3, SameForge
       DEF ReadTip, Learns, Step, Frame, Shape, TypeOK
<1>6. CASE ReadChecks(p)
  <2> DEFINE c == checks[i.pull][facts[p].pull.head]["evidence"]
  <2>1. facts[p].pull.head \in 1..MaxHead
    BY <1>6 DEF ReadChecks, Shape
  <2>2. c \in Conclusion
    <3>1. checks \in [Pull -> [1..MaxHead -> [CheckNames -> Conclusion]]]
      BY DEF Shape, TypeOK, ForgeTypeOK
    <3>2. i.pull \in Pull /\ "evidence" \in CheckNames
      BY <1>1, <1>6, ForgeAssumption DEF ReadChecks
    <3>3. checks[i.pull][facts[p].pull.head] \in [CheckNames -> Conclusion]
      BY <2>1, <3>1, <3>2
    <3>4. \A name \in CheckNames :
            checks[i.pull][facts[p].pull.head][name] \in Conclusion
      BY <3>3
    <3> QED BY <3>2, <3>4
  <2>3. [facts[p] EXCEPT !.check = c] \in Facts
    BY <1>1, <2>2 DEF Facts
  <2>4. [facts[p] EXCEPT !.check = c].pull.head \in 1..MaxHead
    BY <1>1, <2>1 DEF Facts
  <2> QED
    BY <1>2, <1>3, <1>6, <2>3, <2>4, SameForge
       DEF ReadChecks, Learns, Step, Frame, Shape, TypeOK
<1>7. CASE ReadRest(p)
  <2> DEFINE online == i.mode = "online"
             several == online /\ \E m \in Pull \ {i.pull} :
                          /\ TicketOf[m] = TicketOf[i.pull]
                          /\ pulls[m].state \in {"open", "draft"}
                          /\ pulls[m].linked
             known == IF online THEN {} ELSE verified
             What(seen) ==
               [facts[p] EXCEPT !.known = TRUE, !.several = several,
                  !.protected = seen, !.checked = ~online, !.verified = known]
  <2>1. PICK seen \in {"yes", "no", "unknown"} : Learns(p, What(seen))
    <3>1. PICK seen \in {IF rules THEN "yes" ELSE "no", "unknown"} :
            Learns(p, What(seen))
      BY <1>7, Zenon DEF ReadRest
    <3>2. seen \in {"yes", "no", "unknown"}
      OBVIOUS
    <3> QED BY <3>1, <3>2, Zenon
  <2>5. several \in BOOLEAN /\ online \in BOOLEAN /\ known \in SUBSET Tickets
    BY DEF Shape, TypeOK, ForgeTypeOK
  <2> DEFINE what == What(seen)
  <2>2. what \in Facts
    <3> HIDE DEF several, online, known
    <3> QED BY <1>1, <2>5 DEF Facts
  <2>3. Turn(p)
    <3> HIDE DEF what
    <3> QED BY <1>3, <1>7, <2>1, <2>2 DEF ReadRest, Step, what
  <2>4. budget' \in 0..MaxFaults
    BY <1>7, FaultBudget DEF ReadRest, Shape, TypeOK
  <2> QED BY <1>2, <1>7, <2>1, <2>3, <2>4, SameForge DEF Learns, Frame, Shape, TypeOK
<1> QED BY <1>4, <1>5, <1>6, <1>7 DEF Read

\* A process that goes on with the intent it has.
LEMMA GoesOn ==
  ASSUME Shape, NEW p \in Run, pc[p] # "idle", Grows,
         NEW step \in Step \ {"read tip", "read checks", "read rest"},
         NEW d \in Outcome, step = "store" => d \in Terminal,
         Goto(p, step), outcome' = [outcome EXCEPT ![p] = d], UNCHANGED intent,
         facts' = facts \/ facts' = [facts EXCEPT ![p] = NoFacts]
  PROVE  Turn(p)
<1>1. pulls'[intent'[p].pull].state # "absent" /\ intent'[p] \in Intent
  <2>1. intent[p] \in Intent /\ pulls[intent[p].pull].state # "absent"
    BY DEF Shape, TypeOK
  <2>2. intent[p].pull \in Pull
    BY <2>1 DEF Intent
  <2> QED BY <2>1, <2>2 DEF Grows
<1>2. facts' \in [Run -> Facts]
  BY Blank DEF Shape, TypeOK
<1>3. \A q \in Run \ {p} : facts'[q] = facts[q]
  BY DEF Shape, TypeOK
<1> QED BY <1>1, <1>2, <1>3 DEF Turn, Shape, TypeOK, Goto

\* A step that comes to no decision leaves the outcome a decision.
LEMMA Keeps ==
  ASSUME Shape, NEW p \in Run
  PROVE  outcome = [outcome EXCEPT ![p] = outcome[p]] /\ outcome[p] \in Outcome
BY DEF Shape, TypeOK

\* A process that ends.
LEMMA Ends ==
  ASSUME Shape, NEW p \in Run, End(p)
  PROVE  Turn(p)
<1>1. "none" \in Outcome /\ "idle" \in Step
  BY DEF Outcome, Step
<1> QED BY <1>1, Blank DEF End, Turn, Shape, TypeOK

\* Taking, missing and losing the lock.
LEMMA WaitShape ==
  ASSUME Shape, NEW p \in Run,
         ReadFails(p) \/ Acquire(p) \/ Busy(p) \/ Unlock(p) \/ Crash(p)
  PROVE  Turn(p) /\ Frame
<1>0. UNCHANGED forgeVars /\ ForgeTypeOK' /\ Grows
  BY SameForge DEF ReadFails, Acquire, Busy, Unlock, Crash, Shape, TypeOK
<1>1. budget' \in 0..MaxFaults
  BY FaultBudget DEF ReadFails, Acquire, Busy, Unlock, Crash, Shape, TypeOK
<1>2. /\ lock' \in Run \cup {Nobody}
      /\ receipts' \subseteq Receipt
      /\ spoilt' \in 0..MaxMalformed
  BY DEF ReadFails, Acquire, Busy, Unlock, Crash, Shape, TypeOK
<1>3. Frame
  BY <1>0, <1>1, <1>2 DEF Frame
<1>4. CASE ReadFails(p) \/ Acquire(p)
  <2>1. PICK step \in {"lock", "decide"} :
          /\ Goto(p, step) /\ UNCHANGED <<intent, outcome>> /\ pc[p] # "idle"
          /\ facts' = facts \/ facts' = [facts EXCEPT ![p] = NoFacts]
    BY <1>4 DEF ReadFails, Acquire
  <2>2. step \in Step \ {"read tip", "read checks", "read rest"} /\ step # "store"
    BY DEF Step
  <2> QED BY <1>0, <1>3, <2>1, <2>2, GoesOn, Keeps
<1>5. CASE Busy(p) \/ Unlock(p) \/ Crash(p)
  BY <1>3, <1>5, Ends DEF Busy, Unlock, Crash
<1> QED BY <1>4, <1>5

\* evaluate answers with a decision of the documented kinds, and a merge is
\* decided only on known facts of the expected head with green checks, for a
\* ticket that is delegated.
LEMMA DecisionKinds ==
  ASSUME NEW i, NEW f
  PROVE  /\ Decision(i, f) \in {"MERGED", "QUEUED", "ALREADY_MERGED", "DEFERRED",
                                "REFUSED", "STALE", "UNKNOWN"}
         /\ f.check \in Conclusion /\ Decision(i, f) \in {"MERGED", "QUEUED"} =>
              /\ Delegated(TicketOf[i.pull])
              /\ f.pull.head = i.head
              /\ f.check = "success"
<1> DEFINE t == TicketOf[i.pull]
<1> HIDE DEF t
<1> QED BY DEF Decision, Conclusion, t

\* A decision or a replay sends the run to a step of the program.
LEMMA DecideShape ==
  ASSUME Shape, NEW p \in Run, Replay(p) \/ Evaluate(p)
  PROVE  Turn(p) /\ Frame
<1>1. /\ UNCHANGED <<forgeVars, lock, receipts, intent, spoilt, budget>>
      /\ facts' = [facts EXCEPT ![p] = NoFacts]
      /\ pc[p] = "decide"
  BY DEF Replay, Evaluate
<1>2. Frame
  BY <1>1, SameForge DEF Frame, Shape, TypeOK
<1>3. PICK step \in {"gate", "put", "store", "unlock"}, d \in Outcome :
        /\ Goto(p, step)
        /\ outcome' = [outcome EXCEPT ![p] = d]
        /\ step = "store" => d \in Terminal
  <2>1. CASE Replay(p)
    <3>1. PICK r \in receipts : outcome' = [outcome EXCEPT ![p] = r.decision]
      BY <2>1 DEF Replay
    <3>2. r.decision \in Outcome
      BY DEF Shape, TypeOK, Receipt, Terminal, Outcome
    <3> QED BY <2>1, <3>1, <3>2 DEF Replay
  <2>2. CASE Evaluate(p)
    <3> DEFINE d == Decision(intent[p], facts[p])
               step == Route(d, intent[p].mode)
    <3>1. d \in Outcome
      BY DecisionKinds DEF Outcome
    <3> HIDE DEF d
    <3>2. /\ step \in {"gate", "put", "store", "unlock"}
          /\ step = "store" => d \in Terminal
      BY DEF Route
    <3>3. Goto(p, step) /\ outcome' = [outcome EXCEPT ![p] = d]
      BY <2>2 DEF Evaluate, d
    <3> HIDE DEF step
    <3> QED BY <3>1, <3>2, <3>3
  <2> QED BY <2>1, <2>2
<1>4. step \in Step \ {"read tip", "read checks", "read rest"}
  BY DEF Step
<1> QED BY <1>1, <1>2, <1>3, <1>4, GoesOn DEF Frame

\* How a merge call ends: settled, given up, or on to the plain merge.
LEMMA CallEnds ==
  ASSUME Shape, NEW p \in Run, pc[p] # "idle", Grows,
         UNCHANGED <<lock, receipts, intent, facts, spoilt>>,
         \/ Settled(p, "QUEUED", "store") \/ Settled(p, "MERGED", "store")
         \/ Unsure(p)
         \/ UNCHANGED outcome /\ (Goto(p, "auto") \/ Goto(p, "plain"))
  PROVE  Turn(p)
<1>1. /\ {"QUEUED", "MERGED"} \subseteq Terminal
      /\ {"QUEUED", "MERGED", "UNKNOWN"} \subseteq Outcome
      /\ {"store", "unlock", "auto", "plain"} \subseteq
           Step \ {"read tip", "read checks", "read rest"}
  BY DEF Terminal, Outcome, Step
<1>2. CASE Settled(p, "QUEUED", "store") \/ Settled(p, "MERGED", "store")
  BY <1>1, <1>2, GoesOn DEF Settled
<1>3. CASE Unsure(p)
  BY <1>1, <1>3, GoesOn DEF Unsure
<1>4. CASE UNCHANGED outcome /\ (Goto(p, "auto") \/ Goto(p, "plain"))
  BY <1>1, <1>4, GoesOn, Keeps
<1> QED BY <1>2, <1>3, <1>4

\* Merge calls end in a step of the program; what goes on to store is final.
LEMMA MergeShape ==
  ASSUME Shape, NEW p \in Run, Merge(p) \/ WriteFails(p)
  PROVE  Turn(p) /\ Frame
<1> DEFINE i == intent[p]
<1>1. /\ pc[p] # "idle"
      /\ UNCHANGED <<lock, receipts, intent, facts, spoilt>>
      /\ \/ Settled(p, "QUEUED", "store") \/ Settled(p, "MERGED", "store")
         \/ Unsure(p)
         \/ UNCHANGED outcome /\ (Goto(p, "auto") \/ Goto(p, "plain"))
  BY DEF Merge, WriteFails, Kept, SetGate, EnableAuto, AutoRefused, PlainMerge,
         PlainFindsMerged, PlainRefused, Put, PutRefused
<1>2. i.pull \in Pull /\ i.head \in 1..MaxHead
  BY <1>1 DEF Shape, TypeOK, Intent
<1>3. budget' \in 0..MaxFaults
  BY FaultBudget
     DEF Merge, WriteFails, SetGate, EnableAuto, AutoRefused, PlainMerge,
         PlainFindsMerged, PlainRefused, Put, PutRefused, Shape, TypeOK
<1>4. ForgeTypeOK' /\ Grows
  <2>1. CASE SetGate(p)
    <3>1. gate' \in [Pull -> SUBSET (1..MaxHead)]
      BY <1>2, <2>1 DEF SetGate, Shape, TypeOK, ForgeTypeOK
    <3> QED BY <2>1, <3>1 DEF SetGate, Shape, TypeOK, ForgeTypeOK, Grows
  <2>2. CASE EnableAuto(p)
    <3>1. auto' \subseteq Pull
      BY <1>2, <2>2 DEF EnableAuto, Shape, TypeOK, ForgeTypeOK
    <3> QED BY <2>2, <3>1 DEF EnableAuto, Shape, TypeOK, ForgeTypeOK, Grows
  <2>3. CASE PlainMerge(p) \/ Put(p)
    BY <1>2, <2>3, LandsType DEF PlainMerge, Put, Shape, TypeOK
  <2>4. CASE AutoRefused(p) \/ PlainFindsMerged(p) \/ PlainRefused(p)
             \/ PutRefused(p) \/ WriteFails(p)
    BY <2>4, SameForge DEF AutoRefused, PlainFindsMerged, PlainRefused, PutRefused,
                           WriteFails, Shape, TypeOK
  <2> QED BY <2>1, <2>2, <2>3, <2>4 DEF Merge
<1>5. Turn(p)
  BY <1>1, <1>4, CallEnds
<1> QED BY <1>1, <1>3, <1>4, <1>5 DEF Frame, Shape, TypeOK

\* What is stored is a receipt of the intent of the run.
LEMMA StoreShape ==
  ASSUME Shape, NEW p \in Run, Store(p)
  PROVE  Turn(p) /\ Frame
<1> DEFINE r == [key |-> Key(intent[p]), decision |-> outcome[p],
                 executed |-> intent[p].mode # "simulated"]
<1>1. UNCHANGED forgeVars /\ ForgeTypeOK' /\ Grows
  BY SameForge DEF Store, Shape, TypeOK
<1>2. r \in Receipt
  <2>1. intent[p] \in Intent /\ outcome[p] \in Terminal
    BY DEF Store, Shape, TypeOK
  <2> QED BY <2>1 DEF Receipt, Key, Intent
<1>3. receipts' \subseteq Receipt
  <2> HIDE DEF r
  <2>1. receipts' \subseteq receipts \cup {r}
    BY DEF Store, r
  <2> QED BY <1>2, <2>1 DEF Shape, TypeOK
<1>4. "unlock" \in Step \ {"read tip", "read checks", "read rest"}
  BY DEF Step
<1>5. Turn(p)
  BY <1>1, <1>4, GoesOn, Keeps DEF Store
<1> QED BY <1>1, <1>3, <1>5 DEF Store, Frame, Shape, TypeOK

\* All steps of a process.
LEMMA RunShape ==
  ASSUME Shape, NEW p \in Run, Submit(p) \/ Continue(p) \/ GoWrong(p)
  PROVE  Turn(p) /\ Frame
BY SubmitShape, ReadShape, WaitShape, DecideShape, MergeShape, StoreShape
   DEF Continue, GoWrong

\* The first state has the shape.
LEMMA InitShape == Init => Shape
<1> SUFFICES ASSUME Init PROVE Shape
  OBVIOUS
<1>1. ForgeTypeOK
  <2>1. /\ pulls \in [Pull -> PullRequest]
        /\ \A n \in Pull : pulls[n].state = "absent"
    BY ForgeAssumption DEF Init, ForgeInit, PullRequest
  <2>2. checks \in [Pull -> [1..MaxHead -> [CheckNames -> Conclusion]]]
    BY DEF Init, ForgeInit, Conclusion
  <2>3. history \in Seq(Landing) /\ rules \in BOOLEAN /\ policy \in 0..MaxPolicy
    BY ForgeAssumption DEF Init, ForgeInit, Native
  <2> QED BY <2>1, <2>2, <2>3 DEF Init, ForgeInit, ForgeTypeOK
<1> QED BY <1>1, Blank, BrokerAssumption DEF Init, Shape, TypeOK, Step, Outcome

\* Every step keeps it.
LEMMA NextShape == Shape /\ [Next]_vars => Shape'
<1> SUFFICES ASSUME Shape, [Next]_vars PROVE Shape'
  OBVIOUS
<1>1. ASSUME NEW p \in Run, Submit(p) \/ Continue(p) \/ GoWrong(p)
      PROVE  Shape'
  BY <1>1, RunShape, TurnKeepsShape DEF Frame
<1>2. CASE ForgeNext /\ UNCHANGED brokerVars
  <2>1. ForgeTypeOK' /\ Grows
    BY <1>2, ForgeStep DEF Shape, TypeOK
  <2>2. \A p \in Run : pc[p] # "idle" => intent[p].pull \in Pull
    BY DEF Shape, TypeOK, Intent
  <2> QED BY <1>2, <2>1, <2>2 DEF brokerVars, Shape, TypeOK, Grows
<1>3. CASE UNCHANGED vars
  BY <1>3, SameForge DEF vars, brokerVars, forgeVars, Shape, TypeOK, ForgeTypeOK
<1> QED BY <1>1, <1>2, <1>3 DEF Next

(***************************************************************************)
(* Every reachable state of the brokers and the repository they merge into *)
(* has the shape the code gives it.                                        *)
(***************************************************************************)
THEOREM TypeCorrect == Spec => []TypeOK
<1>1. Shape => TypeOK
  BY DEF Shape
<1> QED BY <1>1, InitShape, NextShape, PTL DEF Spec

----------------------------------------------------------------------------
\* Where a run has found no receipt of its intent.
Acting == {"gate", "auto", "plain", "put", "store"}

\* Who is between taking and releasing the lock is who created the file, and
\* what it has not found among the receipts nobody else can have put there:
\* what SingleWriter and ReceiptsAreFinal need to be inductive.
LockInv ==
  /\ \A p \in Run : pc[p] \in Critical => lock = p
  /\ \A p \in Run : pc[p] \in Acting => ~Replays(p)

\* One name in the lock file, one process inside.
LEMMA LockMeansOne == LockInv => SingleWriter
BY DEF LockInv, SingleWriter

\* Only Store changes the receipts, and it adds to them.
LEMMA ReceiptsGrow ==
  ASSUME Shape, LockInv, [Next]_vars
  PROVE  receipts \subseteq receipts'
<1>1. ASSUME NEW p \in Run, Store(p)
      PROVE  receipts \subseteq receipts'
  <2>1. \A r \in receipts : r.key # Key(intent[p])
    BY <1>1 DEF Store, LockInv, Acting, Replays
  <2> QED BY <1>1, <2>1 DEF Store
<1>2. ASSUME NEW p \in Run, Submit(p) \/ Continue(p) \/ GoWrong(p), ~Store(p)
      PROVE  UNCHANGED receipts
  BY <1>2 DEF Submit, Continue, GoWrong, Read, ReadPull, ReadTip, ReadChecks, ReadRest,
              Learns, ReadFails, WriteFails, Crash, Acquire, Busy, Replay, Evaluate,
              Merge, SetGate, EnableAuto, AutoRefused, PlainMerge, PlainFindsMerged,
              PlainRefused, Put, PutRefused, Unlock, Kept
<1> QED BY <1>1, <1>2 DEF Next, brokerVars, vars

\* Every step keeps who holds the lock and what it has not found.
LEMMA LockStep ==
  ASSUME Shape, LockInv, [Next]_vars
  PROVE  LockInv'
<1>0. Acting \subseteq Critical /\ Nobody \notin Run
  BY BrokerAssumption DEF Acting, Critical
<1>1. ASSUME NEW p \in Run, Turn(p), UNCHANGED <<lock, receipts>>,
             pc'[p] \in Critical => pc[p] \in Critical,
             pc'[p] \in Acting => ~Replays(p) /\ UNCHANGED intent
      PROVE  LockInv'
  BY <1>1 DEF LockInv, Turn, Replays
<1>2. ASSUME NEW p \in Run, Submit(p) \/ Read(p) \/ ReadFails(p) \/ Busy(p) \/ Crash(p)
      PROVE  LockInv'
  <2>1. pc'[p] \notin Critical /\ pc'[p] \notin Acting
    BY <1>2 DEF Submit, Read, ReadPull, ReadTip, ReadChecks, ReadRest, ReadFails, Busy,
                Crash, End, Goto, Shape, TypeOK, Critical, Acting
  <2>2. UNCHANGED <<lock, receipts>>
    BY <1>2 DEF Submit, Read, ReadPull, ReadTip, ReadChecks, ReadRest, Learns, ReadFails,
                Busy, Crash
  <2>3. Turn(p)
    BY <1>2, SubmitShape, ReadShape, WaitShape
  <2> QED BY <1>1, <2>1, <2>2, <2>3
<1>3. ASSUME NEW p \in Run, Acquire(p)
      PROVE  LockInv'
  <2>1. \A q \in Run : pc[q] \notin Critical
    BY <1>0, <1>3 DEF Acquire, LockInv
  <2>2. \A q \in Run : pc'[q] \in Critical => q = p
    BY <1>3, <2>1 DEF Acquire, Goto, Shape, TypeOK
  <2>3. pc'[p] \notin Acting /\ lock' = p
    BY <1>3 DEF Acquire, Goto, Shape, TypeOK, Acting
  <2> QED BY <1>0, <2>2, <2>3 DEF LockInv
<1>4. ASSUME NEW p \in Run, Unlock(p)
      PROVE  LockInv'
  <2>1. \A q \in Run : pc[q] \in Critical => q = p
    BY <1>4 DEF Unlock, LockInv, Critical
  <2>2. \A q \in Run : pc'[q] \notin Critical
    BY <1>4, <2>1 DEF Unlock, End, Shape, TypeOK, Critical
  <2> QED BY <1>0, <2>2 DEF LockInv
<1>5. ASSUME NEW p \in Run, Replay(p) \/ Evaluate(p)
      PROVE  LockInv'
  <2>1. /\ pc[p] \in Critical
        /\ UNCHANGED <<lock, receipts, intent>>
    BY <1>5 DEF Replay, Evaluate, Critical
  <2>2. pc'[p] \in Acting => ~Replays(p)
    BY <1>5 DEF Replay, Evaluate, Goto, Shape, TypeOK, Acting
  <2> QED BY <1>1, <1>5, <2>1, <2>2, DecideShape
<1>6. ASSUME NEW p \in Run, Merge(p) \/ WriteFails(p)
      PROVE  LockInv'
  <2>1. /\ pc[p] \in Acting
        /\ UNCHANGED <<lock, receipts, intent>>
    BY <1>6 DEF Merge, WriteFails, Kept, SetGate, EnableAuto, AutoRefused, PlainMerge,
                PlainFindsMerged, PlainRefused, Put, PutRefused, Acting
  <2>2. ~Replays(p)
    BY <2>1 DEF LockInv
  <2> QED BY <1>0, <1>1, <1>6, <2>1, <2>2, MergeShape
<1>7. ASSUME NEW p \in Run, Store(p)
      PROVE  LockInv'
  <2>1. \A q \in Run : pc[q] \in Critical => q = p
    BY <1>7 DEF Store, LockInv, Critical
  <2>2. pc'[p] = "unlock" /\ (\A q \in Run \ {p} : pc'[q] = pc[q])
    BY <1>7 DEF Store, Goto, Shape, TypeOK
  <2>3. \A q \in Run : pc'[q] \notin Acting
    BY <1>0, <2>1, <2>2 DEF Acting
  <2>4. UNCHANGED lock /\ lock = p
    BY <1>7 DEF Store, LockInv, Critical
  <2> QED BY <2>1, <2>2, <2>3, <2>4 DEF LockInv
<1>8. CASE UNCHANGED brokerVars
  BY <1>8 DEF brokerVars, LockInv, Replays
<1> QED
  BY <1>2, <1>3, <1>4, <1>5, <1>6, <1>7, <1>8
     DEF Next, Continue, GoWrong, vars

\* Nobody holds the lock at first.
LEMMA LockInit == Init => LockInv
BY DEF Init, LockInv, Critical, Acting

(***************************************************************************)
(* Of any number of brokers that are started on one receipts directory, at *)
(* most one is between taking the lock and letting it go, crashes included *)
(* (acquire_writer_lock).                                                  *)
(***************************************************************************)
THEOREM OneWriter == Spec => []SingleWriter
<1>1. Init => Shape /\ LockInv
  BY InitShape, LockInit
<1>2. (Shape /\ LockInv) /\ [Next]_vars => (Shape /\ LockInv)'
  BY NextShape, LockStep
<1> QED BY <1>1, <1>2, LockMeansOne, PTL DEF Spec

(***************************************************************************)
(* No receipt is ever replaced or lost, whoever asks again, with however   *)
(* many brokers, policies and heads (the replay branch of execute).        *)
(***************************************************************************)
THEOREM ReceiptsStay == Spec => ReceiptsAreFinal
<1>1. Init => Shape /\ LockInv
  BY InitShape, LockInit
<1>2. (Shape /\ LockInv) /\ [Next]_vars => (Shape /\ LockInv)'
  BY NextShape, LockStep
<1>3. (Shape /\ LockInv) /\ [Next]_vars => receipts \subseteq receipts'
  BY ReceiptsGrow
<1> QED BY <1>1, <1>2, <1>3, PTL DEF Spec, ReceiptsAreFinal

----------------------------------------------------------------------------
\* A head that passed what the broker asks for, of a ticket it may merge.
Earned(n, head) ==
  <<n, head, "evidence">> \in seenGreen /\ InMandate(TicketOf[n])

\* What a run knows and where it stands rest on evidence; each way of merging is
\* taken in the profiles it is for.
Sound(p) ==
  /\ facts[p].check = "success" =>
       /\ pc[p] # "idle"
       /\ <<intent[p].pull, facts[p].pull.head, "evidence">> \in seenGreen
  /\ pc[p] \in {"gate", "put"} => Earned(intent[p].pull, intent[p].head)
  /\ pc[p] = "put" => ~Native
  /\ pc[p] \in {"gate", "auto", "plain"} => Native

\* With it, what the repository has recorded does so too: LandsOnEvidence and
\* GateMeansEvidence, made inductive.
EvidenceInv ==
  /\ \A n \in Pull, head \in 1..MaxHead, name \in CheckNames :
       checks[n][head][name] = "success" => <<n, head, name>> \in seenGreen
  /\ \A p \in Run : Sound(p)
  /\ auto # {} => Native
  /\ GateMeansEvidence
  /\ LandsOnEvidence

\* A landing appends to the history and takes nothing away.
LEMMA LandingKeepsEvidence ==
  ASSUME ForgeTypeOK, ForgeTypeOK', LandsOnEvidence, NEW e \in Landing,
         history' = Append(history, e), Grows, rules' => rules,
         (Native => rules) /\ e.via \in {"broker", "auto"} => Earned(e.pull, e.head)
  PROVE  LandsOnEvidence'
<1> SUFFICES ASSUME Native => rules', NEW k \in Brokered'
             PROVE  /\ <<history'[k].pull, history'[k].head, "evidence">> \in seenGreen'
                    /\ InMandate(TicketOf[history'[k].pull])
  BY DEF LandsOnEvidence
<1>1. history \in Seq(Landing)
  BY DEF ForgeTypeOK
<1>2. k \in 1..Len(history) + 1 /\ history'[k].via \in {"broker", "auto"}
  BY <1>1 DEF Brokered
<1>3. CASE k \in 1..Len(history)
  <2>1. history'[k] = history[k]
    BY <1>1, <1>3
  <2>2. k \in Brokered
    BY <1>2, <1>3, <2>1 DEF Brokered
  <2> QED BY <2>1, <2>2 DEF LandsOnEvidence, Grows
<1>4. CASE k = Len(history) + 1
  <2>1. history'[k] = e
    BY <1>1, <1>4
  <2> QED BY <1>2, <2>1 DEF Earned, Grows
<1>5. Len(history) \in Nat
  BY <1>1
<1>6. k \in 1..Len(history) \/ k = Len(history) + 1
  BY <1>2, <1>5
<1> QED BY <1>3, <1>4, <1>6

\* Without a landing nothing has to be shown.
LEMMA NoLandingKeepsEvidence ==
  ASSUME LandsOnEvidence, UNCHANGED history, Grows, rules' => rules
  PROVE  LandsOnEvidence'
BY DEF LandsOnEvidence, Brokered, Grows

\* In a public profile GitHub merges nothing without a merge-gate on the head.
LEMMA CleanIsEarned ==
  ASSUME ForgeTypeOK, GateMeansEvidence, NEW n \in Pull, Clean(n), rules
  PROVE  Earned(n, pulls[n].head)
BY DEF Clean, GateMeansEvidence, Earned

\* A landing of a pull request by a broker or by auto-merge.
LEMMA LandsKeepsEvidence ==
  ASSUME ForgeTypeOK, EvidenceInv, NEW n \in Pull, NEW via \in {"broker", "auto"},
         IsOpen(n), Lands(n, via),
         (Native => rules) => Earned(n, pulls[n].head)
  PROVE  LandsOnEvidence'
<1>1. ForgeTypeOK' /\ Grows
  BY LandsType
<1> DEFINE e == [pull |-> n, head |-> pulls[n].head, via |-> via]
<1>2. e \in Landing
  BY PullShape DEF Landing
<1>3. history' = Append(history, e) /\ UNCHANGED rules
  BY DEF Lands
<1>4. e.pull = n /\ e.head = pulls[n].head
  OBVIOUS
<1> HIDE DEF e
<1> QED BY <1>1, <1>2, <1>3, <1>4, LandingKeepsEvidence DEF EvidenceInv

\* What others do keeps the evidence.
LEMMA ForgeKeepsEvidence ==
  ASSUME Shape, EvidenceInv, ForgeNext, UNCHANGED brokerVars
  PROVE  EvidenceInv'
<1>0. ForgeTypeOK /\ ForgeTypeOK' /\ Grows
  BY ForgeStep DEF Shape, TypeOK
<1>1. gate' = gate /\ rules' \in {rules, FALSE} /\ auto' \subseteq auto
  <2>1. ASSUME NEW n \in Pull, AutoMergeFires(n)
        PROVE  gate' = gate /\ rules' \in {rules, FALSE} /\ auto' \subseteq auto
    BY <2>1 DEF AutoMergeFires, Lands
  <2>2. ASSUME NEW n \in Pull, OpenPull(n)
        PROVE  gate' = gate /\ rules' \in {rules, FALSE} /\ auto' \subseteq auto
    BY <2>2 DEF OpenPull
  <2>3. ASSUME NEW n \in Pull, PushHead(n)
        PROVE  gate' = gate /\ rules' \in {rules, FALSE} /\ auto' \subseteq auto
    BY <2>3 DEF PushHead
  <2>4. ASSUME NEW n \in Pull, NEW name \in CheckNames, Report(n, name)
        PROVE  gate' = gate /\ rules' \in {rules, FALSE} /\ auto' \subseteq auto
    BY <2>4 DEF Report
  <2>5. ASSUME NEW n \in Pull, EditState(n)
        PROVE  gate' = gate /\ rules' \in {rules, FALSE} /\ auto' \subseteq auto
    BY <2>5 DEF EditState, ChangeState
  <2>6. ASSUME NEW n \in Pull, Relink(n)
        PROVE  gate' = gate /\ rules' \in {rules, FALSE} /\ auto' \subseteq auto
    BY <2>6 DEF Relink
  <2>7. ASSUME NEW n \in Pull, PostMerge(n)
        PROVE  gate' = gate /\ rules' \in {rules, FALSE} /\ auto' \subseteq auto
    BY <2>7 DEF PostMerge
  <2>8. CASE PeopleLand
    BY <2>8 DEF PeopleLand, Lands
  <2>9. CASE Unprotect
    BY <2>9 DEF Unprotect
  <2>10. CASE ChangePolicy
    BY <2>10 DEF ChangePolicy
  <2> QED BY <2>1, <2>2, <2>3, <2>4, <2>5, <2>6, <2>7, <2>8, <2>9, <2>10 DEF ForgeNext
<1>2. rules' => rules
  BY <1>0, <1>1 DEF ForgeTypeOK
<1>3. \A n \in Pull, head \in 1..MaxHead, name \in CheckNames :
        checks'[n][head][name] = "success" => <<n, head, name>> \in seenGreen'
  <2>1. ASSUME NEW n \in Pull, NEW name \in CheckNames, Report(n, name),
               NEW m \in Pull, NEW head \in 1..MaxHead, NEW other \in CheckNames,
               checks'[m][head][other] = "success"
        PROVE  <<m, head, other>> \in seenGreen'
    <3> DEFINE h == pulls[n].head
    <3>1. PICK c \in {"success", "failure"} :
            /\ checks' = [checks EXCEPT ![n][h][name] = c]
            /\ seenGreen' = seenGreen \cup
                 (IF c = "success" THEN {<<n, h, name>>} ELSE {})
      BY <2>1 DEF Report
    <3>2. h \in 1..MaxHead
      BY <1>0, <2>1, PullShape DEF Report
    <3>3. checks \in [Pull -> [1..MaxHead -> [CheckNames -> Conclusion]]]
      BY <1>0 DEF ForgeTypeOK
    <3> HIDE DEF h
    <3>4. CASE m = n /\ head = h /\ other = name
      <4>1. c = "success"
        BY <2>1, <3>1, <3>2, <3>3, <3>4
      <4> QED BY <3>1, <3>4, <4>1
    <3>5. CASE ~(m = n /\ head = h /\ other = name)
      <4>1. checks'[m][head][other] = checks[m][head][other]
        BY <3>1, <3>2, <3>3, <3>5
      <4> QED BY <2>1, <3>1, <4>1 DEF EvidenceInv
    <3> QED BY <3>4, <3>5
  <2>2. CASE UNCHANGED checks
    BY <1>0, <2>2 DEF EvidenceInv, Grows
  <2> QED BY <2>1, <2>2 DEF ForgeNext, AutoMergeFires, Lands, OpenPull, PushHead,
             EditState, ChangeState, Relink, PeopleLand, Unprotect, ChangePolicy, PostMerge
<1>4. LandsOnEvidence'
  <2>1. ASSUME NEW n \in Pull, AutoMergeFires(n)
        PROVE  LandsOnEvidence'
    <3>1. Native
      BY <2>1 DEF AutoMergeFires, EvidenceInv
    <3> QED BY <1>0, <2>1, <3>1, CleanIsEarned, LandsKeepsEvidence
            DEF AutoMergeFires, EvidenceInv
  <2>2. CASE PeopleLand
    <3>1. PICK e \in Landing : /\ history' = Append(history, e)
                               /\ e.via = "people" /\ UNCHANGED rules
      <4>1. ASSUME NEW n \in Pull, Lands(n, "people")
            PROVE  \E e \in Landing : /\ history' = Append(history, e)
                                      /\ e.via = "people" /\ UNCHANGED rules
        <5> DEFINE e == [pull |-> n, head |-> pulls[n].head, via |-> "people"]
        <5>1. e \in Landing
          BY <1>0, PullShape DEF Landing
        <5> QED BY <4>1, <5>1 DEF Lands
      <4>2. [pull |-> Nobody, head |-> 0, via |-> "people"] \in Landing
        BY ForgeAssumption DEF Landing
      <4> QED BY <2>2, <4>1, <4>2 DEF PeopleLand
    <3> QED BY <1>0, <3>1, LandingKeepsEvidence DEF EvidenceInv
  <2>3. CASE UNCHANGED history
    BY <1>0, <1>2, <2>3, NoLandingKeepsEvidence DEF EvidenceInv
  <2> QED BY <2>1, <2>2, <2>3 DEF ForgeNext, OpenPull, PushHead, Report, EditState,
             ChangeState, Relink, Unprotect, ChangePolicy, PostMerge
<1> QED BY <1>0, <1>1, <1>3, <1>4
        DEF EvidenceInv, Sound, GateMeansEvidence, Earned, Grows, brokerVars

\* A step of one process concerns that process and what it writes.
LEMMA TurnKeepsEvidence ==
  ASSUME EvidenceInv, NEW p \in Run, Turn(p), Grows, UNCHANGED checks, Sound(p)',
         auto' # {} => Native, GateMeansEvidence', LandsOnEvidence'
  PROVE  EvidenceInv'
<1>1. ASSUME NEW q \in Run \ {p}
      PROVE  Sound(q)'
  <2>1. /\ pc'[q] = pc[q] /\ intent'[q] = intent[q] /\ facts'[q] = facts[q]
        /\ Sound(q)
    BY DEF Turn, EvidenceInv
  <2> QED BY <2>1 DEF Sound, Earned, Grows
<1> QED BY <1>1 DEF EvidenceInv, Grows

\* One that leaves the repository alone concerns only the process.
LEMMA QuietKeepsEvidence ==
  ASSUME Shape, EvidenceInv, NEW p \in Run, Turn(p), UNCHANGED forgeVars, Sound(p)'
  PROVE  EvidenceInv'
<1>1. Grows
  BY SameForge DEF Shape, TypeOK
<1>2. /\ UNCHANGED checks
      /\ auto' # {} => Native
      /\ GateMeansEvidence'
      /\ LandsOnEvidence'
  BY DEF forgeVars, EvidenceInv, GateMeansEvidence, LandsOnEvidence, Brokered
<1> QED BY <1>1, <1>2, TurnKeepsEvidence

\* Reading a check brings what CI has reported on that head.
LEMMA ReadKeepsEvidence ==
  ASSUME Shape, EvidenceInv, NEW p \in Run, Submit(p) \/ Read(p) \/ ReadFails(p)
  PROVE  EvidenceInv'
<1>1. Turn(p) /\ Sound(p)
  BY SubmitShape, ReadShape, WaitShape DEF EvidenceInv
<1>2. UNCHANGED forgeVars
  BY DEF Submit, Read, ReadPull, ReadTip, ReadChecks, ReadRest, Learns, ReadFails
<1>3. UNCHANGED seenGreen
  BY <1>2 DEF forgeVars
<1>4. pc \in [Run -> Step] /\ facts \in [Run -> Facts] /\ intent \in [Run -> Intent \cup {NoIntent}]
  BY DEF Shape, TypeOK
<1>5. CASE Submit(p)
  <2>1. facts[p].check # "success" /\ UNCHANGED facts
    BY <1>1, <1>5 DEF Submit, Sound
  <2>2. pc'[p] \in {"lock", "read pull"}
    BY <1>4, <1>5 DEF Submit, Goto
  <2> QED BY <1>1, <1>2, <2>1, <2>2, QuietKeepsEvidence DEF Sound
<1>6. CASE ReadPull(p) \/ ReadFails(p)
  <2>1. facts'[p].check = "none" /\ pc'[p] \in {"read tip", "lock"}
    BY <1>4, <1>6, Blank DEF ReadPull, ReadFails, Learns, Goto, NoFacts
  <2> QED BY <1>1, <1>2, <2>1, QuietKeepsEvidence DEF Sound
<1>7. CASE ReadTip(p) \/ ReadRest(p)
  <2>1. /\ facts'[p].check = facts[p].check /\ facts'[p].pull = facts[p].pull
        /\ UNCHANGED intent
    <3>1. facts[p] \in Facts
      BY <1>4
    <3>2. CASE ReadTip(p)
      BY <1>4, <3>1, <3>2 DEF ReadTip, Learns, Facts
    <3>3. CASE ReadRest(p)
      <4>1. PICK several, protected, checked, found :
              Learns(p, [facts[p] EXCEPT !.known = TRUE, !.several = several,
                         !.protected = protected, !.checked = checked,
                         !.verified = found])
        BY <3>3 DEF ReadRest
      <4> QED BY <1>4, <3>1, <4>1 DEF Learns, Facts
    <3> QED BY <1>7, <3>2, <3>3
  <2>2. pc'[p] \in {"read checks", "lock"}
    BY <1>4, <1>7 DEF ReadTip, ReadRest, Goto
  <2>3. Sound(p)'
    BY <1>1, <1>3, <2>1, <2>2 DEF Sound
  <2> QED BY <1>1, <1>2, <2>3, QuietKeepsEvidence
<1>8. CASE ReadChecks(p)
  <2> DEFINE n == intent[p].pull
             h == facts[p].pull.head
  <2>1. n \in Pull /\ h \in 1..MaxHead /\ "evidence" \in CheckNames
    BY <1>8, ForgeAssumption DEF ReadChecks, Shape, TypeOK, Intent
  <2>2. /\ facts'[p].check = checks[n][h]["evidence"]
        /\ facts'[p].pull.head = h /\ intent'[p].pull = n
    BY <1>4, <1>8 DEF ReadChecks, Learns, Facts
  <2>3. pc'[p] = "read rest"
    BY <1>4, <1>8 DEF ReadChecks, Goto
  <2>4. checks[n][h]["evidence"] = "success" => <<n, h, "evidence">> \in seenGreen
    BY <2>1 DEF EvidenceInv
  <2>5. Sound(p)'
    BY <1>3, <2>2, <2>3, <2>4 DEF Sound
  <2> QED BY <1>1, <1>2, <2>5, QuietKeepsEvidence
<1> QED BY <1>5, <1>6, <1>7, <1>8 DEF Read

\* Who comes to merge has a head that passed and a ticket it may merge.
LEMMA DecisionIsEarned ==
  ASSUME Shape, EvidenceInv, NEW p \in Run, pc[p] = "decide",
         Decision(intent[p], facts[p]) \in {"MERGED", "QUEUED"}
  PROVE  Earned(intent[p].pull, intent[p].head)
<1>1. intent[p] \in Intent /\ facts[p] \in Facts
  BY DEF Shape, TypeOK
<1>2. facts[p].check \in Conclusion
  BY <1>1 DEF Facts
<1>3. /\ Delegated(TicketOf[intent[p].pull])
      /\ facts[p].pull.head = intent[p].head
      /\ facts[p].check \notin {"failure", "none"}
  BY DEF Decision
<1>4. facts[p].check = "success"
  BY <1>2, <1>3 DEF Conclusion
<1> QED BY <1>3, <1>4 DEF EvidenceInv, Sound, Earned, Delegated, InMandate

\* Under the lock and around it.
LEMMA DecideKeepsEvidence ==
  ASSUME Shape, EvidenceInv, NEW p \in Run,
         Acquire(p) \/ Busy(p) \/ Crash(p) \/ Replay(p) \/ Evaluate(p)
           \/ WriteFails(p) \/ Store(p) \/ Unlock(p)
  PROVE  EvidenceInv'
<1>1. Turn(p) /\ Sound(p)
  BY WaitShape, DecideShape, MergeShape, StoreShape DEF EvidenceInv
<1>2. UNCHANGED forgeVars
  BY DEF Acquire, Busy, Crash, Replay, Evaluate, WriteFails, Store, Unlock
<1>3. UNCHANGED seenGreen
  BY <1>2 DEF forgeVars
<1>4. pc \in [Run -> Step] /\ facts \in [Run -> Facts] /\ outcome \in [Run -> Outcome]
  BY DEF Shape, TypeOK
<1>5. CASE Acquire(p) \/ WriteFails(p) \/ Store(p)
  <2>1. UNCHANGED <<facts, intent>> /\ pc'[p] \in {"decide", "unlock"}
    BY <1>4, <1>5 DEF Acquire, WriteFails, Store, Kept, Unsure, Goto
  <2>2. Sound(p)'
    BY <1>1, <1>3, <2>1 DEF Sound
  <2> QED BY <1>1, <1>2, <2>2, QuietKeepsEvidence
<1>6. CASE Busy(p) \/ Crash(p) \/ Unlock(p) \/ Replay(p)
  <2>1. facts'[p].check = "none" /\ pc'[p] \in {"idle", "unlock"}
    BY <1>4, <1>6, Blank DEF Busy, Crash, Unlock, Replay, End, Goto
  <2> QED BY <1>1, <1>2, <2>1, QuietKeepsEvidence DEF Sound
<1>7. CASE Evaluate(p)
  <2> DEFINE d == Decision(intent[p], facts[p])
             step == Route(d, intent[p].mode)
  <2>1. facts'[p].check = "none" /\ UNCHANGED intent /\ pc[p] = "decide"
    BY <1>4, <1>7, Blank DEF Evaluate
  <2>2. pc'[p] = step
    BY <1>4, <1>7 DEF Evaluate, Goto
  <2>3. /\ step \in {"gate", "put"} => d \in {"MERGED", "QUEUED"}
        /\ step = "put" => ~Native
        /\ step = "gate" => Native
        /\ step \in {"gate", "put", "unlock", "store"}
    <3> HIDE DEF d
    <3> QED BY DEF Route
  <2>4. step \in {"gate", "put"} => Earned(intent[p].pull, intent[p].head)
    BY <2>1, <2>3, DecisionIsEarned
  <2> HIDE DEF step
  <2>5. Sound(p)'
    BY <1>3, <2>1, <2>2, <2>3, <2>4 DEF Sound, Earned
  <2> QED BY <1>1, <1>2, <2>5, QuietKeepsEvidence
<1> QED BY <1>5, <1>6, <1>7

\* The merge calls.
LEMMA MergeKeepsEvidence ==
  ASSUME Shape, EvidenceInv, NEW p \in Run, Merge(p)
  PROVE  EvidenceInv'
<1> DEFINE n == intent[p].pull
           head == intent[p].head
<1>1. Turn(p) /\ Grows /\ Sound(p)
  BY MergeShape DEF EvidenceInv, Frame
<1>2. UNCHANGED <<checks, intent, facts, seenGreen>>
  BY DEF Merge, SetGate, EnableAuto, AutoRefused, PlainMerge, PlainFindsMerged,
         PlainRefused, Put, PutRefused, Lands, Kept, forgeVars
<1>3. pc \in [Run -> Step] /\ outcome \in [Run -> Outcome] /\ ForgeTypeOK
  BY DEF Shape, TypeOK
<1>4. pc[p] # "idle"
  BY DEF Merge, SetGate, EnableAuto, AutoRefused, PlainMerge, PlainFindsMerged,
         PlainRefused, Put, PutRefused
<1>5. n \in Pull
  BY <1>4 DEF Shape, TypeOK, Intent
<1>6. /\ pc'[p] \in {"auto", "plain", "store", "unlock"}
      /\ pc'[p] \in {"auto", "plain"} => Native
  BY <1>1, <1>3 DEF Merge, SetGate, EnableAuto, AutoRefused, PlainMerge,
     PlainFindsMerged, PlainRefused, Put, PutRefused, Settled, Unsure, Goto, Sound
<1>7. Sound(p)'
  BY <1>1, <1>2, <1>4, <1>6 DEF Sound, Turn, Shape, TypeOK
<1> HIDE DEF n, head
<1>8. CASE UNCHANGED forgeVars
  BY <1>1, <1>7, <1>8, QuietKeepsEvidence
<1>9. CASE SetGate(p)
  <2>1. /\ gate' = [gate EXCEPT ![n] = @ \cup {head}]
        /\ UNCHANGED <<auto, history, rules>>
    BY <1>9 DEF SetGate, n, head
  <2>2. Earned(n, head)
    BY <1>1, <1>9 DEF SetGate, Sound, n, head
  <2>3. GateMeansEvidence /\ LandsOnEvidence /\ (auto # {} => Native)
    BY DEF EvidenceInv
  <2>4. GateMeansEvidence'
    BY <1>2, <1>3, <2>1, <2>2, <2>3 DEF GateMeansEvidence, Earned, ForgeTypeOK
  <2>5. LandsOnEvidence'
    BY <1>1, <2>1, <2>3, NoLandingKeepsEvidence
  <2> QED BY <1>1, <1>2, <1>7, <2>1, <2>3, <2>4, <2>5, TurnKeepsEvidence
<1>10. CASE EnableAuto(p)
  <2>1. UNCHANGED <<gate, history, rules>> /\ Native
    BY <1>1, <1>10 DEF EnableAuto, Sound
  <2>2. GateMeansEvidence /\ LandsOnEvidence
    BY DEF EvidenceInv
  <2>3. GateMeansEvidence'
    BY <1>2, <2>1, <2>2 DEF GateMeansEvidence
  <2>4. LandsOnEvidence'
    BY <1>1, <2>1, <2>2, NoLandingKeepsEvidence
  <2> QED BY <1>1, <1>2, <1>7, <2>1, <2>3, <2>4, TurnKeepsEvidence
<1>11. CASE PlainMerge(p) \/ Put(p)
  <2>1. IsOpen(n) /\ Lands(n, "broker")
    BY <1>11 DEF PlainMerge, Put, n
  <2>2. (Native => rules) => Earned(n, pulls[n].head)
    <3>1. CASE PlainMerge(p)
      <4>1. Native /\ Clean(n)
        BY <1>1, <3>1 DEF PlainMerge, Sound, n
      <4> QED BY <1>3, <1>5, <4>1, CleanIsEarned DEF EvidenceInv
    <3>2. CASE Put(p)
      <4>1. pulls[n].head = head /\ pc[p] = "put"
        BY <3>2 DEF Put, n, head
      <4> QED BY <1>1, <4>1 DEF Sound, n, head
    <3> QED BY <1>11, <3>1, <3>2
  <2>3. LandsOnEvidence'
    BY <1>3, <1>5, <2>1, <2>2, LandsKeepsEvidence
  <2>4. UNCHANGED gate /\ auto' \subseteq auto
    BY <2>1 DEF Lands
  <2>5. GateMeansEvidence /\ (auto # {} => Native)
    BY DEF EvidenceInv
  <2>6. GateMeansEvidence'
    BY <1>2, <2>4, <2>5 DEF GateMeansEvidence
  <2> QED BY <1>1, <1>2, <1>7, <2>3, <2>4, <2>5, <2>6, TurnKeepsEvidence
<1> QED BY <1>8, <1>9, <1>10, <1>11
        DEF Merge, AutoRefused, PlainFindsMerged, PlainRefused, PutRefused

\* Every step keeps the evidence.
LEMMA EvidenceStep ==
  ASSUME Shape, EvidenceInv, [Next]_vars
  PROVE  EvidenceInv'
<1>1. ASSUME NEW p \in Run, Submit(p) \/ Continue(p) \/ GoWrong(p)
      PROVE  EvidenceInv'
  BY <1>1, ReadKeepsEvidence, DecideKeepsEvidence, MergeKeepsEvidence
     DEF Continue, GoWrong
<1>2. CASE UNCHANGED vars
  BY <1>2 DEF vars, brokerVars, forgeVars, EvidenceInv, Sound, Earned,
              GateMeansEvidence, LandsOnEvidence, Brokered
<1> QED BY <1>1, <1>2, ForgeKeepsEvidence DEF Next

\* At first nothing has been claimed.
LEMMA EvidenceInit == Init => EvidenceInv
<1> SUFFICES ASSUME Init PROVE EvidenceInv
  OBVIOUS
<1>1. \A n \in Pull, head \in 1..MaxHead, name \in CheckNames :
        checks[n][head][name] = "none"
  BY DEF Init, ForgeInit
<1>2. \A p \in Run : pc[p] = "idle" /\ facts[p].check = "none"
  BY Blank DEF Init
<1>3. auto = {} /\ history = <<>> /\ \A n \in Pull : gate[n] = {}
  BY DEF Init, ForgeInit
<1>4. Brokered = {}
  <2>1. Len(history) = 0
    BY <1>3
  <2> QED BY <2>1 DEF Brokered
<1> QED BY <1>1, <1>2, <1>3, <1>4
        DEF EvidenceInv, Sound, GateMeansEvidence, LandsOnEvidence

(***************************************************************************)
(* Whatever the brokers land, themselves or through auto-merge, had its    *)
(* evidence and a mandate: for any number of brokers, pull requests, heads *)
(* and faults, and whatever others do meanwhile (execute).                 *)
(***************************************************************************)
THEOREM EvidenceIsKept == Spec => []LandsOnEvidence
<1>1. Init => Shape /\ EvidenceInv
  BY InitShape, EvidenceInit
<1>2. (Shape /\ EvidenceInv) /\ [Next]_vars => (Shape /\ EvidenceInv)'
  BY NextShape, EvidenceStep
<1>3. EvidenceInv => LandsOnEvidence
  BY DEF EvidenceInv
<1> QED BY <1>1, <1>2, <1>3, PTL DEF Spec

(***************************************************************************)
(* No broker sets a merge-gate status on a head that had not passed or on  *)
(* a ticket it has no mandate for, and none stands there                   *)
(* (execute_native_merge).                                                 *)
(***************************************************************************)
THEOREM GateIsEarned == Spec => []GateMeansEvidence
<1>1. Init => Shape /\ EvidenceInv
  BY InitShape, EvidenceInit
<1>2. (Shape /\ EvidenceInv) /\ [Next]_vars => (Shape /\ EvidenceInv)'
  BY NextShape, EvidenceStep
<1>3. EvidenceInv => GateMeansEvidence
  BY DEF EvidenceInv
<1> QED BY <1>1, <1>2, <1>3, PTL DEF Spec
=============================================================================
