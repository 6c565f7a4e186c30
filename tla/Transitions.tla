---------------------------- MODULE Transitions ----------------------------
(***************************************************************************)
(* The Harness Status of an issue, the action the coordinator offers it in *)
(* each status, and the status writes that action may make.                *)
(***************************************************************************)

Held == "WAITING_HUMAN"

Kinds == {"dispatch_implementer", "reconcile_implementation", "publish_pr", "consume_review",
          "retry_implementation", "advance_merge_gate", "merge_pr", "finalize_merge",
          "unlock_dependency", "recover_provider", "operator"}

\* lifecycle_action: the kind for a status; "none" for DONE.  An item that waits
\* for a human has only the operator's commands.
Kind(status) ==
  CASE status = "READY" -> "dispatch_implementer"
    [] status \in {"CLAIMED", "IN_PROGRESS"} -> "reconcile_implementation"
    [] status = "IMPLEMENTED" -> "publish_pr"
    [] status = "REVIEWING" -> "consume_review"
    [] status \in {"CHANGES_REQUESTED", "RETRY_PENDING"} -> "retry_implementation"
    [] status = "VERIFIED" -> "advance_merge_gate"
    [] status = "MERGE_READY" -> "merge_pr"
    [] status = "MERGING" -> "finalize_merge"
    [] status = "BLOCKED" -> "unlock_dependency"
    [] status = "WAITING_PROVIDER" -> "recover_provider"
    [] status = Held -> "operator"
    [] OTHER -> "none"

(***************************************************************************)
(* Where a handler takes an item, by the status it finds or has itself     *)
(* written before.                                                         *)
(***************************************************************************)
Moves(kind) ==
  CASE kind = "dispatch_implementer" ->
         {<<"READY", "CLAIMED">>, <<"CLAIMED", "IN_PROGRESS">>, <<"CLAIMED", "READY">>,
          <<"READY", "WAITING_PROVIDER">>}
    [] kind = "reconcile_implementation" ->
         {<<"CLAIMED", "READY">>}
         \cup ({"CLAIMED", "IN_PROGRESS"} \X {"IMPLEMENTED", "RETRY_PENDING", "WAITING_PROVIDER"})
    [] kind = "publish_pr" -> {"IMPLEMENTED"} \X {"REVIEWING", "WAITING_PROVIDER", Held}
    [] kind = "consume_review" ->
         {"REVIEWING"} \X {"VERIFIED", "CHANGES_REQUESTED", "WAITING_PROVIDER", Held}
    [] kind = "retry_implementation" ->
         ({"CHANGES_REQUESTED", "RETRY_PENDING"} \X {"IN_PROGRESS", Held})
         \cup ({"IN_PROGRESS"} \X {"CHANGES_REQUESTED", "RETRY_PENDING"})
    [] kind = "advance_merge_gate" -> {"VERIFIED"} \X {"MERGE_READY", "RETRY_PENDING", Held}
    [] kind = "merge_pr" -> {<<"MERGE_READY", "MERGING">>, <<"MERGING", "MERGE_READY">>}
    [] kind = "finalize_merge" -> {<<"MERGING", "DONE">>}
    [] kind = "unlock_dependency" -> {<<"BLOCKED", "READY">>}
    [] kind = "recover_provider" ->
         {"WAITING_PROVIDER"} \X {"READY", "RETRY_PENDING", "REVIEWING", "IMPLEMENTED"}
    [] kind = "operator" -> {Held} \X {"RETRY_PENDING", "REVIEWING"}
    [] OTHER -> {}

Targets(kind) == {move[2] : move \in Moves(kind)}

\* The handlers that start an implementer, and the status they start it in.
Starts(kind) ==
  CASE kind = "dispatch_implementer" -> "CLAIMED"
    [] kind = "retry_implementation" -> "IN_PROGRESS"
    [] OTHER -> "none"
=============================================================================
