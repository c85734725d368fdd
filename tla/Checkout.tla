------------------------------ MODULE Checkout ------------------------------
(***************************************************************************)
(* What the commands that set a generated repository up work on: the files *)
(* of the checkout, the facts GitHub has about the repository, and which   *)
(* command is running.  People change all of it between and beside them.   *)
(*                                                                         *)
(* A file is its content: "absent", "torn" (the write was cut off), or     *)
(* what it was made for.  "lock" is governance/github-profile.lock.json,   *)
(* "actions" and "factory" are the locks beside it, "policy" is            *)
(* policy.v1.json, "kit" a workflow or a script: the only one with texts   *)
(* that are not ASCII, so a cut within a character leaves it "garbled".    *)
(* A factory lock that is about another profile lock is "other".           *)
(***************************************************************************)
EXTENDS Naturals, Sequences, FiniteSets

CONSTANTS
  Tickets,     \* docs/tickets
  Offers,      \* pairs: a type of account, the commands an operator may start
  Together,    \* commands that may run side by side
  MaxEdits,    \* bound on what people change
  MaxFaults    \* bound on crashes and failed calls

Commands == {"install", "resolve", "canary", "gate", "sync", "second sync"}
OwnerTypes == {"User", "Organization"}

ASSUME CheckoutAssumption ==
  /\ IsFiniteSet(Tickets) /\ Tickets # {}
  /\ Offers \subseteq OwnerTypes \X SUBSET Commands
  /\ Together \subseteq Commands
  /\ {MaxEdits, MaxFaults} \subseteq Nat

VARIABLES
  ownerType,   \* of the account, on GitHub
  visibility,  \* of the repository, on GitHub
  guarded,     \* branches with effective rules, on GitHub
  config,      \* the profile lock repo-factory.json asks for
  file,        \* the checkout
  offered,     \* the commands of this instance
  running,     \* the commands that run
  edits,       \* changes by people so far
  faults       \* faults so far

facts == <<ownerType, visibility, guarded>>
checkoutVars == <<facts, config, file, offered, running, edits, faults>>

Visibilities == {"public", "private"}
Branches == {"dev", "main"}
Private == "FREE_PRIVATE_COMPENSATING"
Profiles == {"FREE_PUBLIC_USER_NATIVE", "FREE_PUBLIC_ORG_NATIVE_QUEUE", Private}

\* A profile lock holds a type of account, a visibility and a profile: private
\* comes first, then the type (build_lock).  In public the profile says it all.
PrivateLocks == {"private lock of a User", "private lock of an Organization"}
Locks == {"FREE_PUBLIC_USER_NATIVE", "FREE_PUBLIC_ORG_NATIVE_QUEUE"} \cup PrivateLocks

LockFor(owner, v) ==
  IF v = "private"
  THEN IF owner = "User" THEN "private lock of a User" ELSE "private lock of an Organization"
  ELSE IF owner = "User" THEN "FREE_PUBLIC_USER_NATIVE" ELSE "FREE_PUBLIC_ORG_NATIVE_QUEUE"

CurrentLock == LockFor(ownerType, visibility)

VisibilityOf(lock) == IF lock \in PrivateLocks THEN "private" ELSE "public"
ProfileOf(lock) == IF lock \in PrivateLocks THEN Private ELSE lock

Files == {"actions", "factory", "kit", "lock", "policy"}
Content == [actions : {"absent", "torn", "pinned"},
            factory : {"absent", "torn", "other"} \cup Visibilities,
            kit : {"absent", "torn", "garbled", "template", "own"},
            lock : {"absent", "torn"} \cup Locks,
            policy : {"absent", "torn"} \cup Visibilities]

\* governance.py validate.  A kit file that was cut off may still pass, and
\* the digest in the factory lock is not looked at.
ContractMayHold ==
  /\ file.actions = "pinned" /\ file.factory \notin {"absent", "torn"}
  /\ file.lock \in Locks /\ file.policy = VisibilityOf(file.lock)
  /\ file.kit # "absent"

ContractHolds == ContractMayHold /\ file.kit \notin {"torn", "garbled"}

CheckoutTypeOK ==
  /\ ownerType \in OwnerTypes /\ visibility \in Visibilities
  /\ guarded \subseteq Branches
  /\ config \in Locks
  /\ file \in Content
  /\ offered \subseteq Commands /\ running \subseteq offered
  /\ edits \in 0 .. MaxEdits /\ faults \in 0 .. MaxFaults

Installed(lock) ==
  [actions |-> "pinned", factory |-> VisibilityOf(lock), kit |-> "template",
   lock |-> lock, policy |-> VisibilityOf(lock)]
NothingInstalled == [f \in Files |-> "absent"]

\* The installer is run on an empty checkout; the other commands are looked
\* at in one where it has been.
CheckoutFrom(owner, v, commands) ==
  /\ ownerType = owner /\ visibility = v
  /\ config = CurrentLock
  /\ offered = commands
  /\ file = IF "install" \in commands THEN NothingInstalled ELSE Installed(config)
  /\ guarded = {}
  /\ running = {}
  /\ edits = 0 /\ faults = 0

CheckoutInit ==
  \E offer \in Offers, v \in Visibilities : CheckoutFrom(offer[1], v, offer[2])

-----------------------------------------------------------------------------
\* Commands.

Begin(c) ==
  /\ c \in offered \ running
  /\ running = {} \/ running \cup {c} \subseteq Together
  /\ running' = running \cup {c}

Finish(c) == running' = running \ {c}

Fault == faults < MaxFaults /\ faults' = faults + 1

-----------------------------------------------------------------------------
\* People and the other programs.

Edit == edits < MaxEdits /\ edits' = edits + 1

ChangeVisibility ==
  /\ Edit
  /\ visibility' \in Visibilities \ {visibility}
  /\ UNCHANGED <<ownerType, guarded, config, file, offered, running, faults>>

Unprotect(b) ==
  /\ Edit
  /\ b \in guarded
  /\ guarded' = guarded \ {b}
  /\ UNCHANGED <<ownerType, visibility, config, file, offered, running, faults>>

\* The owner may leave github.owner_type out: then it is User.
Reconfigure ==
  /\ Edit
  /\ config' \in {LockFor(o, v) : o \in {"User", ownerType}, v \in Visibilities}
                 \ {config}
  /\ UNCHANGED <<facts, file, offered, running, faults>>

EditKit ==
  /\ Edit
  /\ file.kit # "own"
  /\ file' = [file EXCEPT !.kit = "own"]
  /\ UNCHANGED <<facts, config, offered, running, faults>>

\* apply.py or run-canary.py sets the ruleset of a branch.
Protect(b) ==
  /\ b \notin guarded
  /\ guarded' = guarded \cup {b}
  /\ UNCHANGED <<ownerType, visibility, config, file, offered, running, edits, faults>>

People ==
  \/ ChangeVisibility
  \/ Reconfigure
  \/ EditKit
  \/ \E b \in Branches : Unprotect(b) \/ Protect(b)
=============================================================================
