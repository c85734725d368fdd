----------------------------- MODULE Installer -----------------------------
(***************************************************************************)
(* scripts/install-governance.py, and the resolver that writes the same    *)
(* profile lock, templates/kit/scripts/github-profile.py resolve.          *)
(*                                                                         *)
(* The installer computes every file first, then compares each with the    *)
(* checkout, then writes one after the other with plain write_text.        *)
(***************************************************************************)
EXTENDS Checkout

VARIABLES
  wanted,   \* the outputs of the installer, while it runs
  writes,   \* files it has still to write
  update,   \* it was started with --update
  created,  \* files it found absent
  resolved  \* the lock the resolver is about to write

installVars == <<wanted, writes, update, created>>

\* The order of the paths: governance/actions-lock.v1.json, factory-lock.json,
\* github-profile.lock.json, policy.v1.json, then scripts/.
InFileOrder(S) ==
  LET ifIn(f) == IF f \in S THEN <<f>> ELSE << >>
  IN  ifIn("actions") \o ifIn("factory") \o ifIn("lock") \o ifIn("policy") \o ifIn("kit")

InstallerTypeOK ==
  /\ wanted \in Content
  /\ writes \in Seq(Files) /\ Len(writes) <= Cardinality(Files)
  /\ update \in BOOLEAN
  /\ created \subseteq Files
  /\ resolved \in Locks \cup {"none"}

InstallerInit ==
  /\ wanted = NothingInstalled
  /\ writes = << >> /\ update = FALSE /\ created = {}
  /\ resolved = "none"

-----------------------------------------------------------------------------
\* The profile lock and the actions lock that are there stay, whatever is in
\* them; the factory lock is a digest of all, of these two as well.
Outputs ==
  [actions |-> IF file.actions = "absent" THEN "pinned" ELSE file.actions,
   factory |-> VisibilityOf(config), kit |-> "template",
   lock |-> IF file.lock = "absent" THEN config ELSE file.lock,
   policy |-> VisibilityOf(config)]

Absent == {f \in Files : file[f] = "absent"}
Differing == {f \in Files \ Absent : file[f] # Outputs[f]}

\* Defective variant: conflicts are reported and written over.
PlanWritesOverConflicts(u) ==
  /\ file.kit # "garbled"
  /\ wanted' = Outputs
  /\ writes' = InFileOrder(Absent) \o InFileOrder(Differing)
  /\ created' = Absent
  /\ update' = u

\* The plan: create and update, or nothing at all when there is a conflict.
\* What is there is decoded to be compared, with --update too.
MakePlan(u) ==
  /\ file.kit # "garbled"
  /\ Differing = {} \/ u
  /\ wanted' = Outputs
  /\ writes' = InFileOrder(Absent) \o InFileOrder(Differing)
  /\ created' = Absent
  /\ update' = u

StartInstall(u) ==
  /\ Begin("install")
  /\ MakePlan(u)
  /\ UNCHANGED <<facts, config, file, offered, edits, faults, resolved>>

WriteFile ==
  /\ "install" \in running /\ writes # << >>
  /\ file' = [file EXCEPT ![Head(writes)] = wanted[Head(writes)]]
  /\ writes' = Tail(writes)
  /\ UNCHANGED <<facts, config, offered, running, edits, faults,
                 wanted, update, created, resolved>>

InstallerGone ==
  /\ Finish("install")
  /\ wanted' = NothingInstalled /\ writes' = << >>
  /\ update' = FALSE /\ created' = {}

InstallEnds ==
  /\ "install" \in running /\ writes = << >>
  /\ InstallerGone
  /\ UNCHANGED <<facts, config, file, offered, edits, faults, resolved>>

\* The factory lock f holds is no longer about the profile lock beside it:
\* every lock that is written has a time of its own.
Unsealed(f) == [f EXCEPT !.factory = IF @ \in Visibilities THEN "other" ELSE @]

LockIsToCome == \E i \in DOMAIN writes : writes[i] = "lock"

\* The process ends before a write, or within it.
KillInstall ==
  /\ "install" \in running /\ writes # << >>
  /\ Fault
  /\ \E cut \in {"torn", file[Head(writes)]}
                \cup (IF Head(writes) = "kit" THEN {"garbled"} ELSE {}) :
       LET left == [file EXCEPT ![Head(writes)] = cut]
       IN  file' = IF LockIsToCome THEN Unsealed(left) ELSE left
  /\ InstallerGone
  /\ UNCHANGED <<facts, config, offered, edits, resolved>>

-----------------------------------------------------------------------------
\* github-profile.py resolve --write-lock: the facts, then the file.

StartResolve ==
  /\ Begin("resolve")
  /\ resolved' = CurrentLock
  /\ UNCHANGED <<facts, config, file, offered, edits, faults, installVars>>

\* x is in the profile lock now, which the installer overwrites if it has it
\* still to write.
LockBecomes(x) ==
  LET left(f) == IF LockIsToCome THEN f ELSE Unsealed(f) IN
  /\ file' = left([file EXCEPT !.lock = x])
  /\ wanted' = left(wanted)
  /\ UNCHANGED <<writes, update, created>>

\* Defective variant: like the installer, it keeps a lock that is there.
WriteLockIfAbsent ==
  /\ "resolve" \in running
  /\ IF file.lock = "absent" THEN LockBecomes(resolved) ELSE UNCHANGED <<file, installVars>>
  /\ resolved' = "none"
  /\ Finish("resolve")
  /\ UNCHANGED <<facts, config, offered, edits, faults>>

WriteLock ==
  /\ "resolve" \in running
  /\ LockBecomes(resolved)
  /\ resolved' = "none"
  /\ Finish("resolve")
  /\ UNCHANGED <<facts, config, offered, edits, faults>>

KillResolve ==
  /\ "resolve" \in running
  /\ Fault
  /\ LockBecomes("torn") \/ UNCHANGED <<file, installVars>>
  /\ resolved' = "none"
  /\ Finish("resolve")
  /\ UNCHANGED <<facts, config, offered, edits>>

InstallerNext ==
  \/ \E u \in BOOLEAN : StartInstall(u)
  \/ WriteFile \/ InstallEnds \/ KillInstall
  \/ StartResolve \/ WriteLock \/ KillResolve
=============================================================================
