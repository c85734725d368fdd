------------------------------- MODULE Ledger -------------------------------
(***************************************************************************)
(* The runs of the apply and publish commands, and the receipt ledger file *)
(* they share (ReceiptLedger in scripts/apply.py).  A run reads the file   *)
(* once, when it starts, and rewrites all of it from memory at every       *)
(* receipt: no lock is taken, so two runs can hold different rows.         *)
(***************************************************************************)
EXTENDS Plan

CONSTANTS
  Run,          \* process slots in which an operator runs commands
  MaxActive,    \* bound: commands running at the same time
  Faults,       \* what can go wrong: a subset of FaultKind
  MaxFaults     \* bound: how often something goes wrong

FaultKind == {"crash", "error", "lost reply", "no effect"}

VARIABLES
  disk,     \* the rows of the ledger file
  scratch,  \* the rows in `<ledger>.partial`, or None when there is no such file
  mem,      \* run |-> the rows it holds in memory (ReceiptLedger._rows)
  pc,       \* run |-> where it stands
  job,      \* run |-> the plan, the stage and the repository it was started for
  exit,     \* run |-> how its last command ended
  budget    \* faults still to come

ledgerVars == <<disk, scratch, mem, pc, job, exit, budget>>

\* A receipt: its operation, its plan (bootstrapOperationId and requestDigest),
\* and the fingerprint or the pushed head that was re-read.
Receipt == [id : ReceiptId, plan : Plans, mark : Nat \cup {None}]

Stage == PHASES \cup {"publish"}

Job == [plan : Plans, stage : Stage, repo : Repo \cup {None}]

ASSUME LedgerAssumption ==
  /\ IsFiniteSet(Run)
  /\ None \notin Job
  /\ MaxActive \in Nat
  /\ MaxFaults \in Nat
  /\ Faults \subseteq FaultKind

Step == {"idle", "next", "write", "reread", "record", "replace",
         "build", "push main", "push dev", "list"}

Exit == {"none", "completed", "crashed", "refused", "REMOTE_REFUSED",
         "RESOURCE_COLLISION", "RESUMED_RESOURCE_ABSENT",
         "RESUMED_RESOURCE_DRIFTED", "REREAD_MISMATCH", "PublishError",
         "GhError", "FileNotFoundError"}

Active(p) == pc[p] # "idle"

\* A slot is free and the operator's bound on concurrent commands allows it.
MayStart(p) ==
  /\ ~Active(p)
  /\ Cardinality({q \in Run : Active(q)}) < MaxActive

Held(rows, id) == \E row \in rows : row.id = id

\* The rows ReceiptLedger accepts when it reads them: of one plan, and one
\* for each operation; anything else is LEDGER_CORRUPT.
Loadable(rows) ==
  \A row1, row2 \in rows :
    row1.plan = row2.plan /\ (row1.id = row2.id => row1 = row2)

\* Defective variant: any ledger will do.
OwnedByAnyone(rows, plan) == TRUE

\* assert_owner: an empty ledger belongs to nobody yet.
OwnedBy(rows, plan) == \A row \in rows : row.plan = plan

Fault(kind) ==
  /\ kind \in Faults
  /\ budget > 0
  /\ budget' = budget - 1

\* The command ends; what it held in memory is gone.
End(p, how) ==
  /\ pc' = [pc EXCEPT ![p] = "idle"]
  /\ mem' = [mem EXCEPT ![p] = {}]
  /\ exit' = [exit EXCEPT ![p] = how]

Goto(p, step) ==
  /\ pc' = [pc EXCEPT ![p] = step]
  /\ UNCHANGED <<mem, exit>>

\* ReceiptLedger(path), after which the command goes to `step`.
Open(p, newJob, step) ==
  /\ mem' = [mem EXCEPT ![p] = disk]
  /\ job' = [job EXCEPT ![p] = newJob]
  /\ pc' = [pc EXCEPT ![p] = step]
  /\ exit' = [exit EXCEPT ![p] = "none"]

\* Defective variant: the ledger is rewritten with the newest receipt alone.
RememberOnly(p, receipt) == mem' = [mem EXCEPT ![p] = {receipt}]

\* The receipt enters memory, replacing the row of the same operation.
Remember(p, receipt) ==
  mem' = [mem EXCEPT ![p] = {row \in @ : row.id # receipt.id} \cup {receipt}]

\* record, first half: the whole ledger goes to the scratch file.
WriteScratch(p) ==
  /\ pc[p] = "record"
  /\ scratch' = mem[p]
  /\ Goto(p, "replace")
  /\ UNCHANGED <<disk, job, budget>>

\* record, second half: os.replace moves the scratch file over the ledger.
ReplaceLedger(p, step) ==
  /\ pc[p] = "replace"
  /\ scratch # None
  /\ disk' = scratch
  /\ scratch' = None
  /\ Goto(p, step)
  /\ UNCHANGED <<job, budget>>

\* Another run has moved the scratch file away in between.
ReplaceMissing(p) ==
  /\ pc[p] = "replace"
  /\ scratch = None
  /\ End(p, "FileNotFoundError")
  /\ UNCHANGED <<disk, scratch, job, budget>>

Crash(p) ==
  /\ Active(p)
  /\ Fault("crash")
  /\ End(p, "crashed")
  /\ UNCHANGED <<disk, scratch, job>>

LedgerInit ==
  /\ disk = {}
  /\ scratch = None
  /\ mem = [p \in Run |-> {}]
  /\ pc = [p \in Run |-> "idle"]
  /\ job = [p \in Run |-> None]
  /\ exit = [p \in Run |-> "none"]
  /\ budget = MaxFaults

LedgerTypeOK ==
  /\ disk \subseteq Receipt
  /\ scratch = None \/ scratch \subseteq Receipt
  /\ mem \in [Run -> SUBSET Receipt]
  /\ pc \in [Run -> Step]
  /\ job \in [Run -> Job \cup {None}]
  /\ \A p \in Run : Active(p) => job[p] \in Job
  /\ exit \in [Run -> Exit]
  /\ budget \in 0..MaxFaults
=============================================================================
