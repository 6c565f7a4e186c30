--------------------------- MODULE Implementation ---------------------------
(***************************************************************************)
(* The implementer's half of the lifecycle: dispatch, reconciliation of a  *)
(* claimed or running implementation, retries, corrections and             *)
(* continuations after a quota, and the operator's resume-implementation.  *)
(***************************************************************************)
EXTENDS Cooldown

(***************************************************************************)
(* dispatch: READY -> CLAIMED -> IN_PROGRESS.                              *)
(***************************************************************************)
DispatchStart ==
  /\ pc = "idle" /\ item.status = "READY"
  /\ \/ /\ health[item.provider].blocked
        /\ Queue(Payload, "queue", "implementer", item.provider, "READY")
     \/ /\ ~health[item.provider].blocked /\ ~disk.clone.there
        /\ Accept("dispatch_claim")
  /\ UNCHANGED <<item, disk, unit, gh, health, env, ghost>>

DispatchClaim ==
  /\ pc = "dispatch_claim" /\ StatusFresh
  /\ gh.tip = act.base
  /\ SetStatus("CLAIMED")
  /\ Goto("dispatch_clone")
  /\ UNCHANGED <<disk, unit, gh, health, env, ghost>>

\* The second fresh_item: the item or the default branch has moved.
DispatchStale ==
  /\ pc = "dispatch_claim" /\ (gh.tip # act.base \/ ~StatusFresh)
  /\ Return
  /\ UNCHANGED <<item, disk, unit, gh, health, env, ghost>>

DispatchClone ==
  /\ pc = "dispatch_clone"
  /\ disk' = [disk EXCEPT !.clone = [NoClone EXCEPT !.there = TRUE, !.based = gh.tip]]
  /\ Goto(IF gh.tip = act.base THEN "dispatch_meta" ELSE "unwind_files")
  /\ UNCHANGED <<item, unit, gh, health, env, ghost>>

DispatchMeta ==
  /\ pc = "dispatch_meta"
  /\ disk' = [disk EXCEPT !.cmeta = [NoCloneMeta EXCEPT !.base = act.base]]
  /\ Goto("dispatch_pack")
  /\ UNCHANGED <<item, unit, gh, health, env, ghost>>

DispatchPack ==
  /\ pc = "dispatch_pack"
  /\ \/ /\ disk.pack["implementer"] = {}
        /\ disk' = [disk EXCEPT !.pack["implementer"] = {"task"}]
        /\ Goto("dispatch_spawn")
     \/ /\ disk.pack["implementer"] # {}
        /\ UNCHANGED disk /\ Goto("unwind_files")
  /\ UNCHANGED <<item, unit, gh, health, env, ghost>>

DispatchSpawn ==
  /\ pc = "dispatch_spawn"
  /\ \/ StatusFresh /\ SpawnAgent("implementer", act.provider, "dispatch_done")
     \/ ~StatusFresh /\ Goto("unwind_files")
  /\ UNCHANGED <<item, disk, unit, gh, health, env, ghost>>

DispatchDone ==
  /\ pc = "dispatch_done" /\ StatusFresh
  /\ SetStatus("IN_PROGRESS")
  /\ Return
  /\ UNCHANGED <<disk, unit, gh, health, env, ghost>>

\* Mutant: the except block also covers the calls after spawn-agent.
DispatchFailsLate ==
  /\ pc \in {"dispatch_clone", "dispatch_meta", "dispatch_pack", "dispatch_spawn",
             "dispatch_done"}
  /\ env.faults < MaxFaults
  /\ env' = [env EXCEPT !.faults = @ + 1]
  /\ Goto("unwind_files")
  /\ UNCHANGED <<item, disk, unit, gh, health, ghost>>

\* A call fails before spawn-agent was tried, and the except block runs.
DispatchFails ==
  /\ pc \in {"dispatch_clone", "dispatch_meta", "dispatch_pack", "dispatch_spawn"}
  /\ env.faults < MaxFaults
  /\ env' = [env EXCEPT !.faults = @ + 1]
  /\ Goto("unwind_files")
  /\ UNCHANGED <<item, disk, unit, gh, health, ghost>>

\* Mutant: the task pack survives the unwinding.
UnwindFilesNoPack ==
  /\ pc = "unwind_files"
  /\ disk' = [disk EXCEPT !.clone = NoClone, !.cmeta = NoCloneMeta]
  /\ Goto("unwind_status")
  /\ UNCHANGED <<item, unit, gh, health, env, ghost>>

\* A clone that was not created by this dispatch is not there: it was refused.
UnwindFiles ==
  /\ pc = "unwind_files"
  /\ disk' = [disk EXCEPT !.pack["implementer"] = {}, !.clone = NoClone, !.cmeta = NoCloneMeta]
  /\ Goto("unwind_status")
  /\ UNCHANGED <<item, unit, gh, health, env, ghost>>

UnwindStatus ==
  /\ pc = "unwind_status" /\ StatusFresh
  /\ SetStatus("READY")
  /\ Return
  /\ UNCHANGED <<disk, unit, gh, health, env, ghost>>

DispatchSteps ==
  \/ DispatchStart \/ DispatchClaim \/ DispatchStale \/ DispatchClone \/ DispatchMeta
  \/ DispatchPack \/ DispatchSpawn \/ DispatchDone \/ DispatchFails
  \/ UnwindFiles \/ UnwindStatus

(***************************************************************************)
(* recover_quota_launch, called first by the reconciliation and the retry; *)
(* it goes on at act.next when there is nothing left to recover.           *)
(***************************************************************************)
ImplementationStart(statuses, l) ==
  /\ pc = "idle" /\ item.status \in statuses
  /\ act' = [Payload EXCEPT !.next = l]
  /\ pc' = IF disk.tx.open THEN "recover_launch" ELSE l
  /\ UNCHANGED <<item, disk, unit, gh, health, env, ghost>>

\* The interrupted launch did write a new job: the continuation is spent.
Launched ==
  /\ disk.job["implementer"] \notin {disk.wait.job, NoJob}
  /\ disk.result["implementer"] # NoResult

LaunchSpent ==
  /\ pc = "recover_launch" /\ disk.tx.provider = act.provider
  /\ ~Active("implementer") /\ Launched
  /\ disk' = [disk EXCEPT !.wait.pending = FALSE]
  /\ Goto("launch_settled")
  /\ UNCHANGED <<item, unit, gh, health, env, ghost>>

LaunchSettled ==
  /\ pc = "launch_settled"
  /\ disk' = [disk EXCEPT !.tx = NoTx]
  /\ Goto(act.next)
  /\ UNCHANGED <<item, unit, gh, health, env, ghost>>

LaunchRestored ==
  /\ pc = "recover_launch" /\ disk.tx.provider = act.provider
  /\ ~Active("implementer") /\ ~Launched /\ StatusFresh
  /\ disk' = [disk EXCEPT !.pack["implementer"] = disk.tx.pack,
                          !.job["implementer"] = disk.tx.job,
                          !.result["implementer"] = disk.tx.result]
  /\ Goto("launch_status")
  /\ UNCHANGED <<item, unit, gh, health, env, ghost>>

LaunchStatus ==
  /\ pc = "launch_status"
  /\ SetStatus("RETRY_PENDING")
  /\ Goto("launch_closed")
  /\ UNCHANGED <<disk, unit, gh, health, env, ghost>>

LaunchClosed ==
  /\ pc = "launch_closed"
  /\ disk' = [disk EXCEPT !.tx = NoTx]
  /\ Return
  /\ UNCHANGED <<item, unit, gh, health, env, ghost>>

\* The worker of the interrupted launch is running, or the binding is broken.
LaunchKept ==
  /\ pc = "recover_launch"
  /\ \/ disk.tx.provider # act.provider
     \/ Active("implementer")
     \/ ~Launched /\ ~StatusFresh
  /\ Return
  /\ UNCHANGED <<item, disk, unit, gh, health, env, ghost>>

LaunchSteps ==
  \/ LaunchSpent \/ LaunchSettled \/ LaunchRestored \/ LaunchStatus \/ LaunchClosed \/ LaunchKept

(***************************************************************************)
(* reconcile_implementation.                                               *)
(***************************************************************************)
ReconcileStart == ImplementationStart({"CLAIMED", "IN_PROGRESS"}, "reconcile")

\* Mutant: only a CLAIMED item without a job is taken back.
ReconcileAbandonedClaimed ==
  /\ pc = "reconcile" /\ disk.job["implementer"] = NoJob /\ StatusFresh
  /\ act.status = "CLAIMED"
  /\ disk' = [disk EXCEPT !.clone = NoClone, !.pack["implementer"] = {}]
  /\ Goto("reconcile_ready")
  /\ UNCHANGED <<item, unit, gh, health, env, ghost>>

ReconcileAbandoned ==
  /\ pc = "reconcile" /\ disk.job["implementer"] = NoJob /\ StatusFresh
  /\ \/ /\ act.status = "CLAIMED"
        /\ disk' = [disk EXCEPT !.clone = NoClone, !.pack["implementer"] = {}]
        /\ Goto("reconcile_ready")
        /\ UNCHANGED item
     \/ /\ act.status # "CLAIMED"
        /\ SetStatus("RETRY_PENDING")
        /\ Return
        /\ UNCHANGED disk
  /\ UNCHANGED <<unit, gh, health, env, ghost>>

ReconcileReady ==
  /\ pc = "reconcile_ready"
  /\ SetStatus("READY")
  /\ Return
  /\ UNCHANGED <<disk, unit, gh, health, env, ghost>>

\* Mutant: nobody asks systemd whether the worker still runs.
WorkerEndedUnasked ==
  disk.job["implementer"] # NoJob /\ disk.job["implementer"].provider = act.provider

\* The job is the provider's and its unit has ended.
WorkerEnded ==
  /\ disk.job["implementer"] # NoJob /\ disk.job["implementer"].provider = act.provider
  /\ ~Active("implementer")
\* The digests of the result and of the job are still the snapshot's.
HandoffFresh ==
  /\ disk.result["implementer"] = act.result["implementer"]
  /\ disk.job["implementer"] = act.job

ReconcileQuota ==
  /\ pc = "reconcile" /\ WorkerEnded
  /\ disk.result["implementer"].kind = "quota" /\ HandoffFresh
  /\ Queue(act, "quota_mark", "implementer", act.provider, "RETRY_PENDING")
  /\ UNCHANGED <<item, disk, unit, gh, health, env, ghost>>

\* Mutant: an answer without a valid structured result is no failure.
ReconcileFailureProcess ==
  /\ pc = "reconcile" /\ WorkerEnded
  /\ disk.result["implementer"].kind \in {"none", "empty", "failed"}
  /\ StatusFresh
  /\ Explain("other", "RETRY_PENDING")
  /\ Return
  /\ UNCHANGED <<disk, unit, gh, health, env, ghost>>

ReconcileFailure ==
  /\ pc = "reconcile" /\ WorkerEnded
  /\ disk.result["implementer"].kind # "quota"
  /\ ~ParsesImplementation(disk.result["implementer"])
  /\ StatusFresh
  /\ Explain("other", "RETRY_PENDING")
  /\ Return
  /\ UNCHANGED <<disk, unit, gh, health, env, ghost>>

\* Mutant: the handoff is not validated against the clone.
ReconcileSuccessTrusting ==
  /\ pc = "reconcile" /\ WorkerEnded
  /\ ParsesImplementation(disk.result["implementer"]) /\ HandoffFresh /\ StatusFresh
  /\ Explain("other", "IMPLEMENTED")
  /\ Return
  /\ UNCHANGED <<disk, unit, gh, health, env, ghost>>

ReconcileSuccess ==
  /\ pc = "reconcile" /\ WorkerEnded
  /\ ParsesImplementation(disk.result["implementer"]) /\ HandoffFresh
  /\ Valid(disk.result["implementer"].commit) /\ StatusFresh
  /\ Explain("other", "IMPLEMENTED")
  /\ Return
  /\ UNCHANGED <<disk, unit, gh, health, env, ghost>>

\* A running unit is left alone; a broken binding, a changed digest, an
\* invalid clone or a status that moved raises.
ReconcileNothing ==
  /\ pc = "reconcile"
  /\ LET result == disk.result["implementer"] IN
     \/ disk.job["implementer"] = NoJob /\ ~StatusFresh
     \/ disk.job["implementer"] # NoJob /\ ~WorkerEnded
     \/ /\ WorkerEnded
        /\ \/ result.kind # "quota" /\ ~StatusFresh
           \/ (result.kind = "quota" \/ ParsesImplementation(result)) /\ ~HandoffFresh
           \/ ParsesImplementation(result) /\ ~Valid(result.commit)
  /\ Return
  /\ UNCHANGED <<item, disk, unit, gh, health, env, ghost>>

ReconcileSteps ==
  \/ ReconcileStart \/ ReconcileAbandoned \/ ReconcileReady \/ ReconcileQuota
  \/ ReconcileFailure \/ ReconcileSuccess \/ ReconcileNothing

(***************************************************************************)
(* retry_implementation: a worker retry or the continuation of one that a  *)
(* quota stopped (RETRY_PENDING), or a review correction.                  *)
(***************************************************************************)
RetryStart == ImplementationStart({"RETRY_PENDING", "CHANGES_REQUESTED"}, "retry")

Correction == act.status = "CHANGES_REQUESTED"

\* The wait record pays for this attempt; retry_implementation then demands
\* that nothing moved since it was parked.
QuotaRetry ==
  /\ disk.wait.pending /\ disk.wait.role = "implementer"
  /\ disk.wait.selected = act.provider /\ disk.wait.resume = "RETRY_PENDING"
  /\ disk.wait.result = act.result["implementer"]
QuotaIntact ==
  /\ disk.wait = act.wait
  /\ disk.pack["implementer"] = disk.wait.pack
  /\ disk.job["implementer"] = disk.wait.job
  /\ disk.clone.head = disk.wait.head

Attempts == IF Correction THEN disk.budget ELSE act.retry

CorrectionEvidence ==
  /\ \A r \in RequiredRoles :
       /\ ParsesReview(disk.result[r]) /\ disk.result[r] = act.result[r]
       /\ disk.meta[r] # NoMeta /\ disk.meta[r] = act.meta[r]
       /\ disk.meta[r].head = act.head
  /\ \E r \in RequiredRoles : disk.result[r].kind = "reject"

RetryAllowed ==
  /\ QuotaRetry => QuotaIntact
  /\ QuotaRetry \/ Attempts < MaxRetries
  /\ ~Active("implementer")
  /\ IF Correction THEN CorrectionEvidence
     ELSE disk.result["implementer"] = act.result["implementer"]

\* render_retry_pack: the reviews of a correction, the failure otherwise, and
\* the prior pack of a process that was interrupted.
NewPack ==
  {"task"} \cup (IF Correction THEN {"rejection"} ELSE {"failure"})
    \cup (IF act.quota \/ (~Correction /\ act.saved.result.kind \in {"quota", "failed"})
          THEN act.saved.pack ELSE {})

RetryLimit ==
  /\ pc = "retry" /\ ~QuotaRetry /\ Attempts >= MaxRetries /\ StatusFresh
  /\ Explain(IF Correction THEN "other" ELSE "limit", "WAITING_HUMAN")
  /\ Return
  /\ UNCHANGED <<disk, unit, gh, health, env, ghost>>

RetryPrepare ==
  /\ pc = "retry" /\ RetryAllowed
  /\ act' = [act EXCEPT !.quota = QuotaRetry,
                        !.saved = [open |-> TRUE, provider |-> act.provider,
                                   pack |-> disk.pack["implementer"],
                                   job |-> disk.job["implementer"],
                                   result |-> disk.result["implementer"]]]
  /\ pc' = IF QuotaRetry THEN "retry_tx" ELSE "retry_pack"
  /\ UNCHANGED <<item, disk, unit, gh, health, env, ghost>>

RetryRefused ==
  /\ pc = "retry" /\ ~RetryAllowed
  /\ QuotaRetry \/ Attempts < MaxRetries \/ ~StatusFresh
  /\ Return
  /\ UNCHANGED <<item, disk, unit, gh, health, env, ghost>>

RetryTx ==
  /\ pc = "retry_tx"
  /\ disk' = [disk EXCEPT !.tx = act.saved]
  /\ Goto("retry_pack")
  /\ UNCHANGED <<item, unit, gh, health, env, ghost>>

RetryPack ==
  /\ pc = "retry_pack"
  /\ disk' = [disk EXCEPT !.pack["implementer"] = NewPack]
  /\ Goto("retry_unlink_job")
  /\ UNCHANGED <<item, unit, gh, health, env, ghost>>

RetryUnlinkJob ==
  /\ pc = "retry_unlink_job"
  /\ disk' = [disk EXCEPT !.job["implementer"] = NoJob]
  /\ Goto("retry_unlink_result")
  /\ UNCHANGED <<item, unit, gh, health, env, ghost>>

RetryUnlinkResult ==
  /\ pc = "retry_unlink_result"
  /\ disk' = [disk EXCEPT !.result["implementer"] = NoResult]
  /\ Goto("retry_count")
  /\ UNCHANGED <<item, unit, gh, health, env, ghost>>

NextRetry == IF act.quota THEN act.retry ELSE act.retry + 1

RetryCount ==
  /\ pc = "retry_count" /\ StatusFresh
  /\ item' = [item EXCEPT !.retry = NextRetry]
  /\ Goto("retry_status")
  /\ UNCHANGED <<disk, unit, gh, health, env, ghost>>

RetryStatus ==
  /\ pc = "retry_status"
  /\ SetStatus("IN_PROGRESS")
  /\ Goto("retry_guard")
  /\ UNCHANGED <<disk, unit, gh, health, env, ghost>>

\* require_retry_project_state.
RetryStateFresh ==
  item.status = "IN_PROGRESS" /\ item.retry = NextRetry /\ item.provider = act.provider

RetryGuard ==
  /\ pc = "retry_guard" /\ RetryStateFresh
  /\ IF Correction THEN Goto("retry_budget")
     ELSE SpawnAgent("implementer", act.provider, IF act.quota THEN "retry_spent" ELSE "idle")
  /\ UNCHANGED <<item, disk, unit, gh, health, env, ghost>>

\* retry_launch_guard raises: the item moved, or the issue was edited.
RetryGuardFails ==
  /\ pc = "retry_guard"
  /\ \/ ~RetryStateFresh /\ UNCHANGED env
     \/ RetryStateFresh /\ env.faults < MaxFaults /\ env' = [env EXCEPT !.faults = @ + 1]
  /\ Goto("retry_restore")
  /\ UNCHANGED <<item, disk, unit, gh, health, ghost>>

RetryRestore ==
  /\ pc = "retry_restore"
  /\ disk' = [disk EXCEPT !.pack["implementer"] = act.saved.pack,
                          !.job["implementer"] = act.saved.job,
                          !.result["implementer"] = act.saved.result]
  /\ IF RetryStateFresh THEN Goto("retry_uncount") ELSE Return
  /\ UNCHANGED <<item, unit, gh, health, env, ghost>>

\* Mutant: a rollback takes back a count, also one that a continuation never made.
RetryUncountOne ==
  /\ pc = "retry_uncount"
  /\ item' = [item EXCEPT !.retry = @ - 1]
  /\ Goto("retry_unstatus")
  /\ UNCHANGED <<disk, unit, gh, health, env, ghost>>

RetryUncount ==
  /\ pc = "retry_uncount"
  /\ item' = [item EXCEPT !.retry = act.retry]
  /\ Goto("retry_unstatus")
  /\ UNCHANGED <<disk, unit, gh, health, env, ghost>>

RetryUnstatus ==
  /\ pc = "retry_unstatus"
  /\ SetStatus(act.status)
  /\ Return
  /\ UNCHANGED <<disk, unit, gh, health, env, ghost>>

\* Mutant: the correction is not counted before its worker is started.
RetryBudgetUncounted ==
  /\ pc = "retry_budget"
  /\ SpawnAgent("implementer", act.provider, "idle")
  /\ UNCHANGED <<item, disk, unit, gh, health, env, ghost>>

RetryBudget ==
  /\ pc = "retry_budget"
  /\ disk' = [disk EXCEPT !.budget = @ + 1]
  /\ SpawnAgent("implementer", act.provider, "idle")
  /\ UNCHANGED <<item, unit, gh, health, env, ghost>>

RetrySpent ==
  /\ pc = "retry_spent"
  /\ disk' = [disk EXCEPT !.wait.pending = FALSE]
  /\ Goto("retry_close")
  /\ UNCHANGED <<item, unit, gh, health, env, ghost>>

RetryClose ==
  /\ pc = "retry_close"
  /\ disk' = [disk EXCEPT !.tx = NoTx]
  /\ Return
  /\ UNCHANGED <<item, unit, gh, health, env, ghost>>

RetrySteps ==
  \/ RetryStart \/ RetryLimit \/ RetryPrepare \/ RetryRefused \/ RetryTx \/ RetryPack
  \/ RetryUnlinkJob \/ RetryUnlinkResult \/ RetryCount \/ RetryStatus \/ RetryGuard
  \/ RetryGuardFails \/ RetryRestore \/ RetryUncount \/ RetryUnstatus \/ RetryBudget
  \/ RetrySpent \/ RetryClose

(***************************************************************************)
(* resume_implementation, an operator command: one new attempt.            *)
(***************************************************************************)
\* Mutant: a new attempt is granted while a worker still runs.
ResumeStartBusy ==
  /\ pc = "idle" /\ item.status = "WAITING_HUMAN" /\ ~Active("implementer")
  /\ env.grants < MaxGrants
  /\ item' = [item EXCEPT !.note = "other", !.retry = MaxRetries - 1]
  /\ env' = [env EXCEPT !.grants = @ + 1]
  /\ Accept("operator_status")
  /\ UNCHANGED <<disk, unit, gh, health, ghost>>

\* The command's guards and the count of one more attempt; the status comes next.
ResumeStart ==
  /\ pc = "idle" /\ item.status = "WAITING_HUMAN" /\ NoUnitActive
  /\ env.grants < MaxGrants
  /\ item' = [item EXCEPT !.note = "other", !.retry = MaxRetries - 1]
  /\ env' = [env EXCEPT !.grants = @ + 1]
  /\ Accept("operator_status")
  /\ UNCHANGED <<disk, unit, gh, health, ghost>>

ResumeStatus ==
  /\ pc = "operator_status"
  /\ SetStatus("RETRY_PENDING")
  /\ Return
  /\ UNCHANGED <<disk, unit, gh, health, env, ghost>>

ImplementationSteps ==
  DispatchSteps \/ LaunchSteps \/ ReconcileSteps \/ RetrySteps \/ ResumeStart \/ ResumeStatus
=============================================================================
