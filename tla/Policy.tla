------------------------------- MODULE Policy -------------------------------
(***************************************************************************)
(* The governance policy of a generated repository, its tickets and its    *)
(* profile, as templates/kit/scripts/governance.py validates them and as   *)
(* the merge broker reads them: which tickets are delegated to the         *)
(* machine, and which profile enforces what.                               *)
(***************************************************************************)
EXTENDS Integers, FiniteSets

CONSTANTS
  Tickets,          \* ids of the tickets under docs/tickets
  Risk,             \* ticket |-> its risk
  Predelegated,     \* ticket |-> meta.predelegated
  Dependencies,     \* ticket |-> the tickets it depends on
  AutoStart,        \* autonomy.auto_start
  AutoMerge,        \* autonomy.auto_merge
  CriticalDefault,  \* autonomy.critical_default
  SecurityLanes,    \* both security commands, sast and dependency_audit, are set
  Profile           \* governance/github-profile.lock.json

Risks == {"low", "standard", "high", "critical"}

Profiles == {"FREE_PRIVATE_COMPENSATING", "FREE_PUBLIC_USER_NATIVE",
             "FREE_PUBLIC_ORG_NATIVE_QUEUE"}

\* GitHub enforces rules only where the plan of the account offers them.
Native == Profile # "FREE_PRIVATE_COMPENSATING"

Queue == Profile = "FREE_PUBLIC_ORG_NATIVE_QUEUE"

ValidPolicy ==
  /\ AutoStart \subseteq Risks
  /\ AutoMerge \subseteq AutoStart
  /\ CriticalDefault \in {"halt", "predelegated"}
  /\ "critical" \in AutoMerge => CriticalDefault = "predelegated"
  /\ SecurityLanes \in BOOLEAN

ValidTickets ==
  /\ Risk \in [Tickets -> Risks]
  /\ Predelegated \in [Tickets -> BOOLEAN]

\* Dependencies exist and form no cycle: every set of tickets has one that
\* waits for none of them.
ValidGraph ==
  /\ Dependencies \in [Tickets -> SUBSET Tickets]
  /\ \A S \in (SUBSET Tickets) \ {{}} : \E t \in S : Dependencies[t] \cap S = {}

\* What the validators of governance.py let through.
ASSUME PolicyAssumption ==
  ValidPolicy /\ ValidTickets /\ ValidGraph /\ Profile \in Profiles

\* Step 4 of evaluate: the machine may merge this ticket.
Delegated(t) ==
  /\ Risk[t] \in AutoMerge
  /\ Risk[t] = "high" => Predelegated[t]
  /\ Risk[t] = "critical" => CriticalDefault = "predelegated"
  /\ Risk[t] \in {"high", "critical"} /\ ~Native => SecurityLanes
=============================================================================
