-------------------------------- MODULE Setup --------------------------------
(***************************************************************************)
(* The commands an operator runs by hand on a generated repository, one    *)
(* after the other and again after a failure: installer, profile resolver, *)
(* issue sync, canary and phase gate, beside people who change the files,  *)
(* the tickets, the issues and the settings on GitHub.                     *)
(***************************************************************************)
EXTENDS Installer, PhaseGate

setupVars == <<checkoutVars, installVars, resolved, issueVars, canaryVars, gate>>

SetupTypeOK ==
  /\ CheckoutTypeOK /\ InstallerTypeOK /\ IssueSyncTypeOK
  /\ CanaryTypeOK /\ PhaseGateTypeOK

ToolsAtRest == InstallerInit /\ IssueSyncInit /\ CanaryInit /\ PhaseGateInit

SetupInit == CheckoutInit /\ ToolsAtRest

SetupNext ==
  \/ People /\ UNCHANGED <<installVars, resolved, issueVars, canaryVars, gate>>
  \/ InstallerNext /\ UNCHANGED <<issueVars, canaryVars, gate>>
  \/ IssueSyncNext /\ UNCHANGED <<installVars, resolved, canaryVars, gate>>
  \/ CanaryNext /\ UNCHANGED <<installVars, resolved, issueVars, gate>>
  \/ GateNext /\ UNCHANGED <<installVars, resolved, issueVars, canaryVars>>

SetupSpec == SetupInit /\ [][SetupNext]_setupVars

\* A command that was started goes on, an operator starts every command again
\* and again, and apply.py sets the rules.
SetupFairness ==
  /\ WF_setupVars((WriteFile \/ InstallEnds \/ WriteLock)
                  /\ UNCHANGED <<issueVars, canaryVars, gate>>)
  /\ \A p \in Syncs :
       WF_setupVars(SyncStep(p) /\ UNCHANGED <<installVars, resolved, canaryVars, gate>>)
  /\ WF_setupVars(CanaryStep /\ UNCHANGED <<installVars, resolved, issueVars, gate>>)
  /\ WF_setupVars(GateStep /\ UNCHANGED <<installVars, resolved, issueVars, canaryVars>>)
  /\ \A b \in Branches :
       WF_setupVars(Protect(b)
                    /\ UNCHANGED <<installVars, resolved, issueVars, canaryVars, gate>>)
  /\ SF_setupVars(StartInstall(TRUE) /\ UNCHANGED <<issueVars, canaryVars, gate>>)
  /\ SF_setupVars(StartResolve /\ UNCHANGED <<issueVars, canaryVars, gate>>)
  /\ SF_setupVars(StartSync("sync")
                  /\ UNCHANGED <<installVars, resolved, canaryVars, gate>>)
  /\ SF_setupVars(StartGate(TRUE)
                  /\ UNCHANGED <<installVars, resolved, issueVars, canaryVars>>)

SetupFairSpec == SetupSpec /\ SetupFairness

-----------------------------------------------------------------------------
(***************************************************************************)
(* A ticket gets a second issue only when two syncs overlap, and then one  *)
(* of them still runs or has not ended with 0: reruns after kills, lost    *)
(* replies and failed calls never make duplicates, and an operator who     *)
(* looks at the exit codes hears of the ones that are made                 *)
(* (create-issues.py:160-168, 226-231).                                    *)
(***************************************************************************)
DuplicatesAreReported ==
  (\E t \in Tickets : Doubled(t)) =>
    /\ overlapped
    /\ told \/ Syncs \cap running # {}

(***************************************************************************)
(* The installer without --update never replaces what the owner wrote,     *)
(* except a file that was not there yet when the run made its plan.        *)
(***************************************************************************)
OwnersWorkIsKept ==
  [][file.kit = "own" /\ file'.kit # "own" => update \/ "kit" \in created]_setupVars

(***************************************************************************)
(* A level above LOCAL_VERIFIED is only reported when the run itself found *)
(* the profile lock true on GitHub, saw the rules of both branches if the  *)
(* profile is native, and a canary of that very profile once observed all  *)
(* its steps; the private profile never becomes a 9_9_CANDIDATE            *)
(* (phase-gate.py, assurance_level).                                       *)
(***************************************************************************)
LevelIsEarned ==
  gate.level \notin {"DESIGN_ONLY", "LOCAL_VERIFIED"} =>
    /\ gate.verified \in Profiles
    /\ \E m \in proven : EvidenceProfile(m) = gate.verified
    /\ gate.verified \in Native => gate.seen = Branches
    /\ gate.verified = Private =>
         gate.level \in {ProfileLevel(Private), "MULTI_REPO_DOGFOOD_VERIFIED"}
    /\ gate.level \in {ProfileLevel(p) : p \in Profiles} =>
         gate.level = ProfileLevel(gate.verified)

Passed == gate.pc = "report" /\ gate.passed /\ gate.online

\* The configuration says what GitHub says.
Agreed == config = CurrentLock

\* No command of the kit repairs these: the installer keeps an actions lock that
\* is there, and cannot decode the kit file.
NeedsAPerson == file.actions = "torn" \/ file.kit = "garbled"

(***************************************************************************)
(* Whatever was cut off, torn, undone or left in conflict: once the owner  *)
(* has settled on what GitHub says, the operator who goes on starting the  *)
(* commands, one sync at a time, comes to a gate that passes, again and    *)
(* again (install-governance.py:277-361, github-profile.py resolve,        *)
(* create-issues.py, phase-gate.py).  Two files that were cut off are      *)
(* beyond the commands and wait for a person: an actions lock and a kit    *)
(* file that ends within a character.                                      *)
(***************************************************************************)
SetupCompletes ==
  <>[]Agreed /\ {"install", "resolve", "sync", "gate"} \subseteq offered
    => []<>Passed \/ <>[]NeedsAPerson
=============================================================================
