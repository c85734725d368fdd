------------------------------- MODULE Forge -------------------------------
(***************************************************************************)
(* A generated repository on GitHub as the merge broker meets it: pull     *)
(* requests into the integration branch, their checks, the merge-gate      *)
(* status, native auto-merge and rules; and everybody else who acts on it. *)
(* Heads of a pull request are numbered in the order they were pushed, and *)
(* tips of the branch by the number of landings.                           *)
(***************************************************************************)
EXTENDS Policy, Sequences

CONSTANTS
  Pull,        \* pull requests
  TicketOf,    \* pull request |-> the ticket it was opened for
  CheckNames,  \* the required checks: those that are "evidence" to the broker
               \* (governance, project-ci, agent-review) and, where it is told
               \* apart, "security" (security-gate), which only the rules ask for
  Outside,     \* what others do: a subset of OutsideKind
  MaxHead,     \* bound: heads of one pull request
  MaxTip,      \* bound: landings made by others
  MaxPolicy    \* bound: changes of the policy file

OutsideKind == {"push", "recheck", "close", "draft", "relink", "people",
                "unprotect", "policy", "postmerge"}

VARIABLES
  pulls,      \* pull request |-> its state, head, base and body
  checks,     \* pull request |-> head |-> check |-> conclusion
  gate,       \* pull request |-> heads with a merge-gate status
  auto,       \* pull requests with native auto-merge enabled
  history,    \* landings on the branch, oldest first
  rules,      \* the ruleset of the branch is active
  policy,     \* version of the policy file, standing for its digest
  verified,   \* tickets whose post-merge check has succeeded
  seenGreen   \* auxiliary: <<pull request, head, check>> that ever succeeded

forgeVars ==
  <<pulls, checks, gate, auto, history, rules, policy, verified, seenGreen>>

Nobody == "nobody"

PullRequest ==
  [state : {"absent", "open", "draft", "closed", "merged"},
   head : 0..MaxHead, base : Nat, linked : BOOLEAN]

Conclusion == {"none", "success", "failure"}

\* A landing: a head of a pull request, or a direct push of Nobody's.
Landing == [pull : Pull \cup {Nobody}, head : 0..MaxHead,
            via : {"broker", "auto", "people"}]

ASSUME ForgeAssumption ==
  /\ TicketOf \in [Pull -> Tickets]
  /\ {"evidence"} \subseteq CheckNames /\ CheckNames \subseteq {"evidence", "security"}
  /\ Outside \subseteq OutsideKind
  /\ MaxHead \in Nat \ {0}
  /\ MaxTip \in Nat
  /\ MaxPolicy \in Nat
  /\ Nobody \notin Pull

Tip == Len(history)

IsOpen(n) == pulls[n].state = "open"

Check(n, name) == checks[n][pulls[n].head][name]

\* A merge commit of the head of n.
Lands(n, via) ==
  /\ history' = Append(history, [pull |-> n, head |-> pulls[n].head, via |-> via])
  /\ pulls' = [pulls EXCEPT ![n].state = "merged"]
  /\ auto' = auto \ {n}
  /\ UNCHANGED <<checks, gate, rules, policy, verified, seenGreen>>

\* Defective variant: the ruleset names the merge-gate and no other check.
CleanByGate(n) ==
  rules => /\ pulls[n].head \in gate[n]
           /\ Queue \/ pulls[n].base = Tip

\* Defective variant: the ruleset asks for an up-to-date branch and no checks.
CleanWithoutChecks(n) == rules => Queue \/ pulls[n].base = Tip

\* What the ruleset asks of a merge: required checks and the merge-gate on
\* the head, and a head that contains the tip (or a merge queue).
Clean(n) ==
  rules => /\ \A name \in CheckNames : Check(n, name) = "success"
           /\ pulls[n].head \in gate[n]
           /\ Queue \/ pulls[n].base = Tip

\* Native auto-merge merges as soon as the rules are satisfied.
AutoMergeFires(n) ==
  /\ n \in auto
  /\ IsOpen(n)
  /\ Clean(n)
  /\ Lands(n, "auto")

----------------------------------------------------------------------------
OpenPull(n) ==
  /\ pulls[n].state = "absent"
  /\ pulls' = [pulls EXCEPT ![n] = [state |-> "open", head |-> 1, base |-> Tip,
                                    linked |-> TRUE]]
  /\ UNCHANGED <<checks, gate, auto, history, rules, policy, verified, seenGreen>>

\* New commits, or the base merged into the branch: a new head either way.
PushHead(n) ==
  /\ "push" \in Outside
  /\ pulls[n].state \in {"open", "draft"}
  /\ pulls[n].head < MaxHead
  /\ pulls' = [pulls EXCEPT ![n].head = @ + 1, ![n].base = Tip]
  /\ UNCHANGED <<checks, gate, auto, history, rules, policy, verified, seenGreen>>

\* CI reports on the head of n; a rerun may come to another conclusion.
Report(n, name) ==
  /\ pulls[n].state \in {"open", "draft"}
  /\ Check(n, name) # "none" => "recheck" \in Outside
  /\ \E c \in {"success", "failure"} \ {Check(n, name)} :
       /\ checks' = [checks EXCEPT ![n][pulls[n].head][name] = c]
       /\ seenGreen' = seenGreen \cup
            (IF c = "success" THEN {<<n, pulls[n].head, name>>} ELSE {})
  /\ UNCHANGED <<pulls, gate, auto, history, rules, policy, verified>>

\* Closing a pull request takes it out of auto-merge.
ChangeState(n, kind, from, to) ==
  /\ kind \in Outside
  /\ pulls[n].state = from
  /\ pulls' = [pulls EXCEPT ![n].state = to]
  /\ auto' = auto \ {n}
  /\ UNCHANGED <<checks, gate, history, rules, policy, verified, seenGreen>>

EditState(n) ==
  \/ ChangeState(n, "close", "open", "closed")
  \/ ChangeState(n, "close", "closed", "open")
  \/ ChangeState(n, "draft", "open", "draft")
  \/ ChangeState(n, "draft", "draft", "open")

\* Somebody edits the ticket line or the operation marker in the body.
Relink(n) ==
  /\ "relink" \in Outside
  /\ IsOpen(n)
  /\ pulls' = [pulls EXCEPT ![n].linked = ~@]
  /\ UNCHANGED <<checks, gate, auto, history, rules, policy, verified, seenGreen>>

\* Somebody with write access merges or pushes by hand; rules forbid it.
PeopleLand ==
  /\ "people" \in Outside
  /\ ~(Native /\ rules)
  /\ Tip < MaxTip
  /\ \/ \E n \in Pull : IsOpen(n) /\ Lands(n, "people")
     \/ /\ history' = Append(history, [pull |-> Nobody, head |-> 0, via |-> "people"])
        /\ UNCHANGED <<pulls, checks, gate, auto, rules, policy, verified, seenGreen>>

Unprotect ==
  /\ "unprotect" \in Outside
  /\ rules
  /\ rules' = FALSE
  /\ UNCHANGED <<pulls, checks, gate, auto, history, policy, verified, seenGreen>>

ChangePolicy ==
  /\ "policy" \in Outside
  /\ policy < MaxPolicy
  /\ policy' = policy + 1
  /\ UNCHANGED <<pulls, checks, gate, auto, history, rules, verified, seenGreen>>

\* The post-merge check of a landed ticket succeeds, or a later run of it fails.
PostMerge(n) ==
  /\ "postmerge" \in Outside
  /\ pulls[n].state = "merged"
  /\ \/ verified' = verified \cup {TicketOf[n]}
     \/ verified' = verified \ {TicketOf[n]}
  /\ UNCHANGED <<pulls, checks, gate, auto, history, rules, policy, seenGreen>>

ForgeNext ==
  \/ \E n \in Pull : \/ AutoMergeFires(n) \/ OpenPull(n) \/ PushHead(n)
                     \/ (\E name \in CheckNames : Report(n, name)) \/ EditState(n) \/ Relink(n) \/ PostMerge(n)
  \/ PeopleLand \/ Unprotect \/ ChangePolicy

ForgeInit ==
  /\ pulls = [n \in Pull |-> [state |-> "absent", head |-> 0, base |-> 0,
                              linked |-> FALSE]]
  /\ checks = [n \in Pull |-> [h \in 1..MaxHead |-> [name \in CheckNames |-> "none"]]]
  /\ gate = [n \in Pull |-> {}]
  /\ auto = {}
  /\ history = <<>>
  /\ rules = Native
  /\ policy = 0
  /\ verified = {}
  /\ seenGreen = {}

ForgeTypeOK ==
  /\ pulls \in [Pull -> PullRequest]
  /\ \A n \in Pull : pulls[n].state # "absent" => pulls[n].head > 0
  /\ checks \in [Pull -> [1..MaxHead -> [CheckNames -> Conclusion]]]
  /\ gate \in [Pull -> SUBSET (1..MaxHead)]
  /\ auto \subseteq Pull
  /\ history \in Seq(Landing)
  /\ rules \in BOOLEAN
  /\ policy \in 0..MaxPolicy
  /\ verified \subseteq Tickets
  /\ seenGreen \subseteq Pull \X (1..MaxHead) \X CheckNames
=============================================================================
