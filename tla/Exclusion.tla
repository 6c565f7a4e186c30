------------------------------ MODULE Exclusion ------------------------------
(***************************************************************************)
(* Why the implementer and the reviewers never share the clone: which      *)
(* units may be active in every status of the item and at every label of   *)
(* the broker.  The conjuncts are inductive together.                      *)
(***************************************************************************)
EXTENDS Broker

NoReviewer == \A r \in ReviewRoles : ~Active(r)

\* The status alone decides who may run, also between a crash and the cycle
\* that recovers from it.
UnitsByStatus ==
  /\ item.status \in {"READY", "CHANGES_REQUESTED", "VERIFIED", "MERGE_READY", "MERGING", "DONE"}
       => NoUnitActive
  /\ item.status \in {"CLAIMED", "IN_PROGRESS", "RETRY_PENDING"} => NoReviewer
  /\ item.status \in {"IMPLEMENTED", "REVIEWING", "WAITING_PROVIDER"} => ~Active("implementer")

\* Handlers that started while no unit was active and have started none.
QuietLabels ==
  {"recover_select", "recover_provider", "recover_resume", "recover_review",
   "recover_reviewing", "recover_status", "dispatch_claim", "dispatch_clone", "dispatch_meta",
   "dispatch_pack", "dispatch_spawn", "unwind_files", "unwind_status", "reconcile_ready",
   "retry_tx", "retry_pack", "retry_unlink_job", "retry_unlink_result", "retry_count",
   "retry_status", "retry_guard", "retry_restore", "retry_uncount", "retry_unstatus",
   "retry_budget", "operator_status", "operator_reviewing", "consume_status",
   "advance_status", "int_inspect", "int_target", "int_resume", "int_merge", "int_base",
   "int_count", "int_status", "int_close", "merge_status", "merge_call", "merge_failed",
   "final_comment", "final_close", "final_status", "final_clone", "final_files"}

\* Handlers of an implementation, during which no reviewer is active.
ImplementerLabels ==
  {"dispatch_done", "recover_launch", "launch_settled", "launch_status", "launch_closed",
   "reconcile", "retry", "retry_spent", "retry_close"}

\* spawn_review up to its call of spawn-agent.
SpawnReviewLabels ==
  {"review_check", "review_stage", "review_pack", "review_unlink_result", "review_unlink_job",
   "review_meta"}

\* Handlers after the implementer has ended, during which it stays inactive.
ReviewerLabels ==
  SpawnReviewLabels \cup {"publish_push", "publish_pr", "publish_hold", "review_security",
    "review_wait", "review_status", "review_spent", "review_note", "consume", "quota_mark",
    "queue", "queue_status"}

SpawnLabels == {"spawn", "spawn_job", "spawn_unit"}

UnitsByLabel ==
  /\ pc \in QuietLabels => NoUnitActive
  /\ pc \in ImplementerLabels => NoReviewer
  /\ pc \in ReviewerLabels => ~Active("implementer")
  /\ pc \in SpawnLabels /\ act.role = "implementer" => NoReviewer
  /\ pc \in SpawnLabels /\ act.role # "implementer" => ~Active("implementer")
  /\ pc = "consume" /\ act.role = "security-reviewer" => ~Active("reviewer")

\* Meanwhile a person can only move the item to WAITING_HUMAN.
StatusByLabel ==
  /\ (pc \in SpawnLabels /\ act.role = "implementer") \/ pc = "retry_budget" =>
       item.status \in {"CLAIMED", "IN_PROGRESS", "WAITING_HUMAN"}
  /\ \/ pc \in SpawnLabels /\ act.role # "implementer"
     \/ pc \in SpawnReviewLabels \cup {"review_security", "consume"}
     => item.status \in {"IMPLEMENTED", "REVIEWING", "WAITING_HUMAN"}

\* For whom spawn-agent is called, and where its caller goes on.
CallsByLabel ==
  /\ pc \in SpawnLabels /\ act.role = "implementer" =>
       act.next \in {"idle", "dispatch_done", "retry_spent"}
  /\ \/ pc \in SpawnLabels /\ act.role # "implementer"
     \/ pc \in SpawnReviewLabels
     => /\ act.role \in RequiredRoles
        /\ act.next \in {"review_security", "review_status", "review_note"}
        /\ act.next = "review_security" => HighRisk
  /\ pc = "review_security" => HighRisk
  /\ pc = "consume" => act.role \in RequiredRoles
  /\ pc \in {"recover_launch", "launch_settled"} => act.next \in {"reconcile", "retry"}

\* Only required reviewers run, and a running implementer has a job record.
UnitsRecorded ==
  /\ \A r \in ReviewRoles \ RequiredRoles : ~Active(r)
  /\ Active("implementer") => disk.job["implementer"] # NoJob

\* The clone is used exclusively, and the reasons why.
UnitsByPhase ==
  ExclusiveClone /\ UnitsByStatus /\ UnitsByLabel /\ StatusByLabel /\ CallsByLabel /\ UnitsRecorded
=============================================================================
