--------------------------------- MODULE Kit ---------------------------------
(***************************************************************************)
(* What an operator and the CI of a generated repository run besides the   *)
(* broker and the autopilot: the set-up commands, the graph algorithms on  *)
(* tickets, and the checks of pull requests.  They meet in files that one  *)
(* writes long before the other reads, so a behaviour is about one part,   *)
(* chosen at its beginning, while the others rest.                         *)
(***************************************************************************)
EXTENDS Setup, TicketGraph, ChangeControl

VARIABLE part

kitVars == <<part, setupVars, graphVars, changeVars>>

TypeOK ==
  /\ part \in {"setup", "graph", "change"}
  /\ SetupTypeOK /\ TicketGraphTypeOK /\ ChangeControlTypeOK

SetupRests == CheckoutFrom("User", "public", {}) /\ ToolsAtRest
GraphRests == TicketGraphInit /\ dependencies = [n \in Nodes |-> {}]

Init ==
  /\ ChangeControlInit
  /\ \/ part = "setup" /\ SetupInit /\ GraphRests
     \/ part = "graph" /\ TicketGraphInit /\ SetupRests
     \/ part = "change" /\ SetupRests /\ GraphRests

Next ==
  \/ part = "setup" /\ SetupNext /\ UNCHANGED <<part, graphVars, changeVars>>
  \/ part = "graph" /\ TicketGraphNext /\ UNCHANGED <<part, setupVars, changeVars>>
  \/ part = "change" /\ ChangeControlNext /\ UNCHANGED <<part, setupVars, graphVars>>

Spec == Init /\ [][Next]_kitVars

FairSpec == Spec /\ (part = "setup" => SetupFairness)
=============================================================================
