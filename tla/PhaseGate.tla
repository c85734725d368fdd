----------------------------- MODULE PhaseGate -----------------------------
(***************************************************************************)
(* scripts/phase-gate.py 4: the checks of the checkout, of GitHub and of   *)
(* the profile lock, and the level of assurance that may be claimed.       *)
(*                                                                         *)
(* Each remote call is a step.  The profile lock is read three times: for  *)
(* the choice of remote checks, by github-profile.py verify, and for the   *)
(* level.                                                                  *)
(***************************************************************************)
EXTENDS IssueSync, Canary

CONSTANT DogfoodEvidence  \* the dogfood.json files to look at

ASSUME PhaseGateAssumption ==
  DogfoodEvidence \subseteq {"none", "short", "drift", "good"}

VARIABLES
  gate  \* the run of the gate, and what it reports at its end

Native == Profiles \ {Private}

\* The profile that the evidence file of a mode is about: run-canary.py has
\* no mode for organizations.
EvidenceProfile(m) == IF m = "public" THEN "FREE_PUBLIC_USER_NATIVE" ELSE Private

ProfileLevel(profile) ==
  CASE profile = Private                         -> "FREE_PRIVATE_COMPENSATING_VERIFIED"
    [] profile = "FREE_PUBLIC_ORG_NATIVE_QUEUE"  -> "FREE_PUBLIC_ORG_QUEUE_VERIFIED"
    [] OTHER                                     -> "FREE_PUBLIC_NATIVE_VERIFIED"

Levels ==
  {"DESIGN_ONLY", "LOCAL_VERIFIED", "MULTI_REPO_DOGFOOD_VERIFIED", "9_9_CANDIDATE"}
  \cup {ProfileLevel(p) : p \in Profiles}

Readable == {m \in Visibilities : evidence[m] \in {"partial", "complete"}}

\* The evidence that counts: of this profile, else the first that is there.
Chosen ==
  LET own == {m \in Readable : EvidenceProfile(m) = ProfileOf(file.lock)} IN
  IF own # {} THEN CHOOSE m \in own : TRUE
  ELSE IF "public" \in Readable THEN "public"
  ELSE "private"

\* A lock that cannot be read is no contradiction to the evidence.
EvidenceCounts ==
  /\ Readable # {} /\ evidence[Chosen] = "complete"
  /\ file.lock \in Locks => EvidenceProfile(Chosen) = ProfileOf(file.lock)

\* assurance_level, after everything has passed with --offline absent.
VerifiedLevel(dogfood) ==
  LET profile == EvidenceProfile(Chosen) IN
  IF ~EvidenceCounts THEN "LOCAL_VERIFIED"
  ELSE IF dogfood \in {"none", "short"} THEN ProfileLevel(profile)
  ELSE IF dogfood = "good" /\ profile \in Native THEN "9_9_CANDIDATE"
  ELSE "MULTI_REPO_DOGFOOD_VERIFIED"

GateIdle == [pc |-> "idle", online |-> FALSE, passed |-> FALSE, private |-> FALSE,
             verified |-> "none", seen |-> {}, level |-> "DESIGN_ONLY"]

PhaseGateTypeOK ==
  gate \in [pc : {"idle", "dev", "main", "issues", "verify", "level", "report"},
            online : BOOLEAN, passed : BOOLEAN, private : BOOLEAN,
            verified : Profiles \cup {"none"}, seen : SUBSET Branches, level : Levels]

PhaseGateInit == gate = GateIdle

-----------------------------------------------------------------------------
\* local_checks, kernel_checks, and the profile the remote checks are for.
StartGate(online) ==
  /\ Begin("gate")
  /\ \E passed \in {ContractHolds, ContractMayHold} :
       gate' = [GateIdle EXCEPT
                  !.pc = IF online THEN "dev" ELSE "level",
                  !.online = online, !.passed = passed,
                  !.private = (file.lock \in PrivateLocks)]
  /\ UNCHANGED <<facts, config, file, offered, edits, faults>>

Check(next, ok) == gate' = [gate EXCEPT !.pc = next, !.passed = @ /\ ok]

\* Only a public repository has effective rules; a private one is not asked.
Guarded(b) == visibility = "public" /\ b \in guarded

NextCheck(pc) ==
  CASE pc = "dev" -> "main" [] pc = "main" -> "issues"
    [] pc = "issues" -> "verify" [] pc = "verify" -> "level"

CheckBranch(b) ==
  /\ gate.pc = b
  /\ gate' = [gate EXCEPT !.pc = NextCheck(b),
                          !.passed = @ /\ (gate.private \/ Guarded(b)),
                          !.seen = IF ~gate.private /\ Guarded(b)
                                   THEN @ \cup {b} ELSE @]
  /\ UNCHANGED checkoutVars

\* An issue counts for a ticket when it mentions the ticket's file or only the
\* prefix of its id: if the tickets share one, an issue of any serves all.
CheckIssues ==
  /\ gate.pc = "issues"
  /\ \E ok \in {\A t \in Tickets : issues[t] # << >>,
                 \E t \in Tickets : issues[t] # << >>} : Check("verify", ok)
  /\ UNCHANGED checkoutVars

\* Defective variant: the lock is read and not compared with GitHub.
VerifyShape ==
  /\ gate.pc = "verify"
  /\ gate' = [gate EXCEPT !.pc = "level", !.passed = @ /\ file.lock \in Locks,
                          !.verified = IF file.lock = CurrentLock
                                       THEN ProfileOf(file.lock) ELSE "none"]
  /\ UNCHANGED checkoutVars

\* github-profile.py verify: account, visibility and profile of the lock against
\* the facts of this moment.
Verify ==
  /\ gate.pc = "verify"
  /\ gate' = [gate EXCEPT !.pc = "level", !.passed = @ /\ file.lock = CurrentLock,
                          !.verified = IF file.lock = CurrentLock
                                       THEN ProfileOf(file.lock) ELSE "none"]
  /\ UNCHANGED checkoutVars

\* A call that fails is a check that failed; the others are made all the same.
RemoteCallFails ==
  /\ gate.pc \in {"dev", "main", "issues", "verify"}
  /\ Fault
  /\ Check(NextCheck(gate.pc), FALSE)
  /\ UNCHANGED <<facts, config, file, offered, running, edits>>

Report ==
  /\ gate.pc = "level"
  /\ \E dogfood \in DogfoodEvidence :
       gate' = [gate EXCEPT !.pc = "report",
                            !.level = IF ~gate.passed THEN "DESIGN_ONLY"
                                      ELSE IF ~gate.online THEN "LOCAL_VERIFIED"
                                      ELSE VerifiedLevel(dogfood)]
  /\ UNCHANGED checkoutVars

GateEnds ==
  /\ gate.pc = "report"
  /\ gate' = GateIdle
  /\ Finish("gate")
  /\ UNCHANGED <<facts, config, file, offered, edits, faults>>

GateStep ==
  \/ \E b \in Branches : CheckBranch(b)
  \/ CheckIssues \/ Verify \/ RemoteCallFails \/ Report \/ GateEnds

GateNext == (\E online \in BOOLEAN : StartGate(online)) \/ GateStep
=============================================================================
