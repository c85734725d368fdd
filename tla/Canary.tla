------------------------------- MODULE Canary -------------------------------
(***************************************************************************)
(* scripts/run-canary.py: a disposable repository is taken through the     *)
(* whole loop, each step is marked when it has been observed, and the      *)
(* evidence file is written whatever happened.                             *)
(***************************************************************************)
EXTENDS Checkout

VARIABLES
  mode,      \* --profile of the run
  left,      \* steps still to observe, in order
  marked,    \* steps observed
  stage,     \* where the run stands
  evidence,  \* the evidence file of each mode
  proven     \* auxiliary: modes of which one run observed every step

canaryVars == <<mode, left, marked, stage, evidence, proven>>

\* The steps the evidence lists.
PublicSteps ==
  {"repo_created", "actions_source_collected", "rulesets_active",
   "merge_settings_exact", "security_features_enabled", "issue_sync",
   "worker_stub_pr", "ci_failed_once", "repaired", "reviewer_pass",
   "direct_push_rejected", "stale_intent_rejected", "merge_without_gate_rejected",
   "native_auto_merged", "post_merge_pass", "verified",
   "second_ticket_auto_started", "duplicate_pr_zero", "revert_flow",
   "replay_idempotent", "oob_audit_clean", "teardown"}

PrivateSteps ==
  {"repo_created", "native_enforcement_absent_confirmed", "issue_sync",
   "worker_stub_pr", "ci_gate_green", "reviewer_pass", "stale_intent_rejected",
   "custom_exact_head_merge", "broker_marker_present", "post_merge_triggered",
   "verified", "second_ticket_auto_started", "duplicate_pr_zero",
   "out_of_band_write_detected", "post_merge_failure_detected",
   "rollback_invalidation", "replay_idempotent", "teardown"}

StepsOf(m) == IF m = "public" THEN PublicSteps ELSE PrivateSteps

\* The marks of the flows, in the order execute calls them.
TicketOne(m) ==
  <<"worker_stub_pr">>
  \o (IF m = "public" THEN <<"ci_failed_once", "repaired">> ELSE <<"ci_gate_green">>)
  \o <<"reviewer_pass", "stale_intent_rejected">>

SecondTicket == <<"second_ticket_auto_started", "duplicate_pr_zero">>

PublicFlow ==
  <<"repo_created", "actions_source_collected", "rulesets_active",
    "merge_settings_exact", "security_features_enabled", "issue_sync">>
  \o TicketOne("public")
  \o <<"direct_push_rejected", "merge_without_gate_rejected", "native_auto_merged",
       "post_merge_pass", "verified">>
  \o SecondTicket \o <<"revert_flow", "replay_idempotent", "oob_audit_clean">>

PrivateFlow ==
  <<"repo_created", "native_enforcement_absent_confirmed", "issue_sync">>
  \o TicketOne("private")
  \o <<"custom_exact_head_merge", "broker_marker_present", "post_merge_triggered",
       "verified">>
  \o SecondTicket
  \o <<"out_of_band_write_detected", "post_merge_failure_detected",
       "rollback_invalidation", "replay_idempotent">>

FlowOf(m) == IF m = "public" THEN PublicFlow ELSE PrivateFlow

\* Every step that is listed is taken, and no other.
ASSUME CanaryAssumption ==
  \A m \in Visibilities :
    {FlowOf(m)[i] : i \in DOMAIN FlowOf(m)} = StepsOf(m) \ {"teardown"}

CanaryTypeOK ==
  /\ mode \in Visibilities
  /\ left \in Seq(StepsOf(mode)) /\ marked \subseteq StepsOf(mode)
  /\ stage \in {"idle", "execute", "teardown", "evidence"}
  /\ evidence \in [Visibilities -> {"none", "torn", "partial", "complete"}]
  /\ proven \subseteq Visibilities

CanaryInit ==
  /\ mode = "public"
  /\ left = << >> /\ marked = {} /\ stage = "idle"
  /\ evidence = [m \in Visibilities |-> "none"]
  /\ proven = {}

-----------------------------------------------------------------------------
StartCanary(m) ==
  /\ Begin("canary")
  /\ mode' = m
  /\ left' = FlowOf(m) /\ marked' = {} /\ stage' = "execute"
  /\ UNCHANGED <<facts, config, file, offered, edits, faults, evidence, proven>>

\* A step is done and marked.
Observe ==
  /\ stage = "execute" /\ left # << >>
  /\ marked' = marked \cup {Head(left)}
  /\ left' = Tail(left)
  /\ UNCHANGED <<checkoutVars, mode, stage, evidence, proven>>

ExecuteEnds ==
  /\ stage = "execute" /\ left = << >>
  /\ stage' = "teardown"
  /\ UNCHANGED <<checkoutVars, mode, left, marked, evidence, proven>>

\* CanaryFailure: the rest is not run.
StepFails ==
  /\ stage = "execute" /\ left # << >>
  /\ Fault
  /\ left' = << >> /\ stage' = "teardown"
  /\ UNCHANGED <<facts, config, file, offered, running, edits,
                 mode, marked, evidence, proven>>

Teardown ==
  /\ stage = "teardown"
  /\ marked' = marked \cup {"teardown"}
  /\ stage' = "evidence"
  /\ proven' = IF marked' = StepsOf(mode) THEN proven \cup {mode} ELSE proven
  /\ UNCHANGED <<checkoutVars, mode, left, evidence>>

\* The repository is kept, or cannot be deleted.
TeardownSkipped ==
  /\ stage = "teardown"
  /\ stage' = "evidence"
  /\ UNCHANGED <<checkoutVars, mode, left, marked, evidence, proven>>

CanaryEnds ==
  /\ Finish("canary")
  /\ stage' = "idle" /\ left' = << >> /\ marked' = {}
  /\ mode' = "public"

WriteEvidence ==
  /\ stage = "evidence"
  /\ evidence' = [evidence EXCEPT ![mode] =
                    IF marked = StepsOf(mode) THEN "complete" ELSE "partial"]
  /\ CanaryEnds
  /\ UNCHANGED <<facts, config, file, offered, edits, faults, proven>>

\* The process ends at once: what an earlier run wrote stays, unless the file
\* had been opened.
KillCanary ==
  /\ "canary" \in running
  /\ Fault
  /\ \/ UNCHANGED evidence
     \/ stage = "evidence" /\ evidence' = [evidence EXCEPT ![mode] = "torn"]
  /\ CanaryEnds
  /\ UNCHANGED <<facts, config, file, offered, edits, proven>>

CanaryStep ==
  \/ Observe \/ ExecuteEnds \/ StepFails \/ Teardown \/ TeardownSkipped
  \/ WriteEvidence \/ KillCanary

CanaryNext ==
  \/ \E m \in Visibilities : StartCanary(m)
  \/ CanaryStep
=============================================================================
