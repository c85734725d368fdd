--------------------------- MODULE MCMergeBroker ---------------------------
(***************************************************************************)
(* Values for the constants of MergeBroker in the runs of TLC.             *)
(***************************************************************************)
EXTENDS MergeBroker, TLC

\* t2 needs t1; t3 is high and not predelegated.
MCRisk == [t \in Tickets |-> IF t = "t3" THEN "high" ELSE "standard"]
MCPredelegated == [t \in Tickets |-> FALSE]
MCPredelegatedAll == [t \in Tickets |-> TRUE]
MCDependencies == [t \in Tickets |-> IF t = "t2" THEN {"t1"} ELSE {}]
MCAutoStart == {"low", "standard", "high", "critical"}
MCAutoMerge == {"low", "standard", "high"}

MCTicketOf == [n \in Pull |-> IF n = "pr1" THEN "t1" ELSE
                              IF n = "pr2" THEN "t2" ELSE "t3"]

RunSymmetry == Permutations(Run)
=============================================================================
