----------------------------- MODULE Bootstrap -----------------------------
(***************************************************************************)
(* What a bootstrap promises to whoever reads its ledger, with no runs, no *)
(* remote and no files: receipts come one at a time and are never taken    *)
(* back, every stage waits for the stages before it, the operations of a   *)
(* phase come in the order of the plan, and a result is issued only over a *)
(* full ledger.                                                            *)
(***************************************************************************)
EXTENDS Plan

VARIABLES
  receipts,  \* the operations that have a receipt
  issued     \* a result has been issued

BootstrapInit == receipts = {} /\ issued = FALSE

\* The operations of the phase that come before position i have receipts.
InPlanOrder(phase, i) ==
  \A j \in 1..(i - 1) : Staged(phase)[j] \in receipts

ReceiveBeforeFiles ==
  \E i \in 1..Len(Staged("before-files")) :
    /\ Staged("before-files")[i] \notin receipts
    /\ InPlanOrder("before-files", i)
    /\ receipts' = receipts \cup {Staged("before-files")[i]}

ReceiveGenesis ==
  \E r \in Repo :
    /\ StagedOps("before-files") \subseteq receipts
    /\ PublishId(r) \notin receipts
    /\ receipts' = receipts \cup {PublishId(r)}

ReceiveAfterFiles ==
  \E i \in 1..Len(Staged("after-files")) :
    /\ PublishIds \subseteq receipts
    /\ Staged("after-files")[i] \notin receipts
    /\ InPlanOrder("after-files", i)
    /\ receipts' = receipts \cup {Staged("after-files")[i]}

Receive ==
  /\ ReceiveBeforeFiles \/ ReceiveGenesis \/ ReceiveAfterFiles
  /\ issued' = issued

Issue ==
  /\ receipts = ReceiptId
  /\ issued' = TRUE
  /\ receipts' = receipts

BootstrapSpec ==
  BootstrapInit /\ [][Receive \/ Issue]_<<receipts, issued>>
=============================================================================
