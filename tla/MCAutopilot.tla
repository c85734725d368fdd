---------------------------- MODULE MCAutopilot ----------------------------
(***************************************************************************)
(* Values for the constants of Autopilot in the runs of TLC.               *)
(***************************************************************************)
EXTENDS Autopilot

\* t2 needs t1; t3 is high and not predelegated.
MCRisk == [t \in Tickets |-> IF t = "t3" THEN "high" ELSE "standard"]
MCPredelegated == [t \in Tickets |-> FALSE]
MCPredelegatedAll == [t \in Tickets |-> TRUE]
MCDependencies == [t \in Tickets |-> IF t = "t2" THEN {"t1"} ELSE {}]
MCAutoStart == {"low", "standard", "high"}
MCOrder == <<"t1", "t2", "t3">>
MCRollbackIds == <<"R1", "R2">>
MCNoRollbackIds == << >>
=============================================================================
