--------------------------- MODULE HandoffProof ---------------------------
(***************************************************************************)
(* What the gates rest on, whatever the constants are.  Publication and    *)
(* review start from a validated handoff; a review that counts is what the *)
(* reviewer decided about the commit it names.                             *)
(***************************************************************************)
EXTENDS ExclusionProof

(***************************************************************************)
(* What publication and review start from is a validated handoff, whatever *)
(* the constants are.  It is validated when the item becomes IMPLEMENTED,  *)
(* and has to survive holds, cooldowns, replaced reviewers and operators   *)
(* until the review is consumed; the invariant says who may touch it, and  *)
(* in which statuses.                                                      *)
(***************************************************************************)

(***************************************************************************)
(* The invariant.                                                          *)
(***************************************************************************)
\* Statuses in which the handoff is with the reviewers, and the ones a parked
\* implementer goes back to.
Submitted == {"IMPLEMENTED", "REVIEWING"}
Handed == Submitted \cup {"WAITING_PROVIDER"}
Early == {"READY", "RETRY_PENDING"}

\* Handlers that write the clone, its base or the implementer's result, and
\* those of them that may go back to the status they started from.
Busy ==
  {"dispatch_clone", "dispatch_meta", "dispatch_pack", "dispatch_spawn", "unwind_files",
   "recover_launch", "launch_settled", "reconcile", "retry", "retry_tx", "retry_pack",
   "retry_unlink_job", "retry_unlink_result", "retry_count", "retry_status", "retry_guard",
   "retry_restore", "retry_uncount", "retry_unstatus", "retry_budget", "int_target",
   "int_resume", "int_merge", "int_base", "final_clone", "final_files"}
Retrying ==
  {"recover_launch", "launch_settled", "retry", "retry_tx", "retry_pack", "retry_unlink_job",
   "retry_unlink_result", "retry_count", "retry_status", "retry_guard", "retry_restore",
   "retry_uncount", "retry_unstatus"}

\* Handlers that return the item to the reviewers, resume a parked implementer,
\* park, and review.
Returning == {"recover_status", "recover_review", "recover_reviewing", "operator_reviewing"}
Resuming == {"recover_select", "recover_provider", "recover_resume"}
Parking == {"quota_mark", "queue", "queue_status"}
Reviewing == SpawnReviewLabels \cup {"review_security", "review_status", "consume"}

HandoffValid == ParsesImplementation(Impl) /\ Valid(Impl.commit)

ValidByStatus ==
  /\ item.status \in Submitted => HandoffValid
  /\ item.status = "WAITING_PROVIDER" =>
       IF disk.wait.role = "implementer" THEN disk.wait.resume \in Early ELSE HandoffValid

ByLabel ==
  /\ pc \in Returning => HandoffValid
  /\ pc \in Busy => item.status \notin Handed
  /\ pc \in Retrying => act.status \notin Handed
  /\ pc \in Reviewing \/ (pc \in SpawnLabels /\ act.role # "implementer") =>
       act.status \in Submitted
  /\ pc \in Parking =>
       /\ item.status # "WAITING_PROVIDER"
       /\ IF act.role = "implementer" THEN act.resume \in Early ELSE act.status \in Submitted
  /\ pc = "queue_status" => disk.wait.role = act.role /\ disk.wait.resume = act.resume
  /\ pc \in Resuming => disk.wait.resume \in Early
  /\ pc = "review_wait" => disk.wait.role # "implementer" /\ act.status \in Submitted

Handoff == ValidByStatus /\ ByLabel

\* Labels that ask for nothing.
Free == {"idle", "dispatch_claim", "dispatch_done", "unwind_status", "launch_status",
         "launch_closed", "reconcile_ready", "retry_spent", "retry_close", "publish_push",
         "publish_pr", "publish_hold", "review_spent", "review_note", "consume_status",
         "operator_status", "operator_report", "advance_status", "int_inspect", "int_count",
         "int_status", "int_close", "merge_status", "merge_call", "merge_failed",
         "final_comment", "final_close", "final_status"}

(***************************************************************************)
(* What keeps it.                                                          *)
(***************************************************************************)
\* The handoff and who is parked are left alone.
Untouched ==
  /\ disk'.result["implementer"] = disk.result["implementer"]
  /\ disk'.clone = disk.clone /\ disk'.cmeta.base = disk.cmeta.base
  /\ disk'.wait.role = disk.wait.role /\ disk'.wait.resume = disk.wait.resume

LEMMA HandoffKept == Untouched => (HandoffValid <=> HandoffValid')
  BY DEF Untouched, HandoffValid, ParsesImplementation, Valid, Impl

\* The status stays with the handoff, or is one that asks for none.
LEMMA StatusStep ==
  ASSUME Handoff,
         (item'.status = item.status /\ Untouched) \/ item'.status \notin Handed
  PROVE  ValidByStatus'
<1>1. CASE item'.status \notin Handed
  BY <1>1 DEF ValidByStatus, Handed, Submitted
<1>2. CASE item'.status = item.status /\ Untouched
  BY <1>2, HandoffKept DEF Handoff, ValidByStatus, Untouched
<1> QED
  BY <1>1, <1>2

LEMMA FreeLabels ==
  ASSUME pc' \in Free PROVE ByLabel'
  BY DEF ByLabel, Free, Returning, Busy, Retrying, Reviewing, SpawnReviewLabels, SpawnLabels,
         Parking, Resuming

\* A handler ends, or goes on where nothing is asked.
LEMMA FreeStep ==
  ASSUME Handoff, pc' \in Free,
         (item'.status = item.status /\ Untouched) \/ item'.status \notin Handed
  PROVE  Handoff'
  BY StatusStep, FreeLabels DEF Handoff

\* A handler that may write the handoff, while nobody reviews it.
LEMMA BusyStep ==
  ASSUME Handoff, pc' \in Busy, item'.status \notin Handed,
         pc' \in Retrying => act'.status \notin Handed
  PROVE  Handoff'
<1>1. ByLabel'
  BY DEF ByLabel, Returning, Busy, Reviewing, SpawnReviewLabels, SpawnLabels, Parking, Resuming
<1> QED
  BY <1>1, StatusStep DEF Handoff

\* spawn-agent runs for the implementer, while nobody reviews the handoff.
LEMMA CallStep ==
  ASSUME Handoff, pc' \in SpawnLabels, act'.role = "implementer", item'.status \notin Handed
  PROVE  Handoff'
<1>1. ByLabel'
  BY DEF ByLabel, Returning, Busy, Retrying, Reviewing, SpawnReviewLabels, SpawnLabels, Parking,
         Resuming
<1> QED
  BY <1>1, StatusStep DEF Handoff

\* A review goes on, with the handoff it started from.
LEMMA ReviewStep ==
  ASSUME Handoff, pc' \in Reviewing \cup SpawnLabels, act'.status \in Submitted,
         item'.status = item.status, Untouched
  PROVE  Handoff'
<1>1. ByLabel'
  BY DEF ByLabel, Returning, Busy, Retrying, Reviewing, SpawnReviewLabels, SpawnLabels, Parking,
         Resuming
<1> QED
  BY <1>1, StatusStep DEF Handoff

\* An attempt is about to be parked.
LEMMA ParkStep ==
  ASSUME Handoff, pc' \in {"quota_mark", "queue"}, item'.status = item.status, Untouched,
         item.status # "WAITING_PROVIDER",
         IF act'.role = "implementer" THEN act'.resume \in Early ELSE act'.status \in Submitted
  PROVE  Handoff'
<1>1. ByLabel'
  BY DEF ByLabel, Returning, Busy, Retrying, Reviewing, SpawnReviewLabels, SpawnLabels, Parking,
         Resuming
<1> QED
  BY <1>1, StatusStep DEF Handoff

(***************************************************************************)
(* The steps.                                                              *)
(***************************************************************************)
LEMMA CooldownHandoff == TypeOK /\ Handoff /\ CooldownSteps => Handoff'
<1> SUFFICES ASSUME TypeOK, Handoff, CooldownSteps PROVE Handoff'
  OBVIOUS
<1>0. /\ disk \in Disk /\ disk.wait \in Wait /\ item \in Item /\ act \in Act
      /\ ValidByStatus /\ ByLabel
  BY DEF TypeOK, Disk, Handoff
<1>1. CASE QuotaMark
  <2>1. /\ pc = "quota_mark" /\ pc' = "queue" /\ act' = act /\ item' = item /\ disk' = disk
    BY <1>1 DEF QuotaMark, Goto
  <2> QED
    BY <1>0, <2>1, ParkStep DEF ByLabel, Parking, Untouched
<1>2. CASE QueueWait
  <2>1. /\ pc = "queue" /\ pc' = "queue_status" /\ act' = act /\ item' = item
        /\ disk'.wait.role = act.role /\ disk'.wait.resume = act.resume
        /\ disk'.result = disk.result /\ disk'.clone = disk.clone /\ disk'.cmeta = disk.cmeta
    BY <1>0, <1>2 DEF QueueWait, Goto, Parked, NoWait, Disk
  <2>2. HandoffValid <=> HandoffValid'
    BY <2>1 DEF HandoffValid, ParsesImplementation, Valid, Impl
  <2>3. item.status # "WAITING_PROVIDER"
    BY <1>0, <2>1 DEF ByLabel, Parking
  <2>4. ValidByStatus'
    BY <1>0, <2>1, <2>2, <2>3 DEF ValidByStatus
  <2>5. ByLabel'
    BY <1>0, <2>1, <2>3
    DEF ByLabel, Returning, Busy, Retrying, Reviewing, SpawnReviewLabels, SpawnLabels, Parking,
        Resuming
  <2> QED
    BY <2>4, <2>5 DEF Handoff
<1>3. CASE QueueStatus
  <2>1. /\ pc = "queue_status" /\ item.status = act.status /\ item'.status = "WAITING_PROVIDER"
        /\ disk' = disk /\ pc' = "idle"
    BY <1>0, <1>3 DEF QueueStatus, StatusFresh, Expected, Explain, Return, Item
  <2>2. IF disk.wait.role = "implementer" THEN disk.wait.resume \in Early ELSE HandoffValid
    BY <1>0, <2>1 DEF ByLabel, Parking, ValidByStatus
  <2>3. HandoffValid <=> HandoffValid'
    BY <2>1, HandoffKept DEF Untouched
  <2>4. ValidByStatus'
    BY <2>1, <2>2, <2>3 DEF ValidByStatus, Submitted
  <2> QED
    BY <2>1, <2>4, FreeLabels DEF Handoff, Free
<1>4. CASE RecoverStart
  <2>1. /\ item.status = "WAITING_PROVIDER" /\ UNCHANGED <<item, disk>>
        /\ pc' \in {"recover_status", "recover_select", "recover_review"}
        /\ pc' = "recover_select" <=> disk.wait.role = "implementer"
    BY <1>4 DEF RecoverStart
  <2>2. Untouched
    BY <2>1 DEF Untouched
  <2>3. ValidByStatus'
    BY <2>1, <2>2, StatusStep
  <2>4. ByLabel'
    BY <1>0, <2>1, <2>2, HandoffKept
    DEF ByLabel, ValidByStatus, Returning, Busy, Retrying, Reviewing, SpawnReviewLabels,
        SpawnLabels, Parking, Resuming
  <2> QED
    BY <2>3, <2>4 DEF Handoff
<1>5. CASE RecoverSelect \/ RecoverField \/ RecoverReview
  <2>1. RecoverSelect => /\ item' = item /\ Untouched
                         /\ pc \in Resuming /\ pc' \in Resuming
    BY <1>0 DEF RecoverSelect, Goto, Untouched, Disk, Wait, Resuming
  <2>2. RecoverField => /\ item'.status = item.status /\ Untouched
                        /\ pc \in Resuming /\ pc' \in Resuming
    BY <1>0 DEF RecoverField, Goto, Untouched, Item, Resuming
  <2>3. RecoverReview => /\ item' = item /\ Untouched
                         /\ pc \in Returning /\ pc' = "recover_reviewing"
    <3> SUFFICES ASSUME RecoverReview
                 PROVE  /\ item' = item /\ Untouched
                        /\ pc \in Returning /\ pc' = "recover_reviewing"
      OBVIOUS
    <3>1. /\ pc = "recover_review" /\ pc' = "recover_reviewing" /\ item' = item
          /\ disk'.wait = [disk.wait EXCEPT !.recovery = disk.wait.job.id, !.impl = Impl]
          /\ disk'.result = disk.result /\ disk'.clone = disk.clone /\ disk'.cmeta = disk.cmeta
      BY <1>0 DEF RecoverReview, Goto, Disk, Impl
    <3>2. disk'.wait.role = disk.wait.role /\ disk'.wait.resume = disk.wait.resume
      BY <1>0, <3>1 DEF Wait
    <3> QED
      BY <3>1, <3>2 DEF Untouched, Returning
  <2>4. item'.status = item.status /\ Untouched
    BY <1>5, <2>1, <2>2, <2>3
  <2>5. ByLabel'
    BY <1>0, <1>5, <2>1, <2>2, <2>3, HandoffKept
    DEF ByLabel, Returning, Busy, Retrying, Reviewing, SpawnReviewLabels, SpawnLabels, Parking,
        Resuming, Untouched
  <2> QED
    BY <2>4, <2>5, StatusStep DEF Handoff
<1>6. CASE RecoverResume
  <2>1. item'.status \in Early /\ pc' = "idle"
    BY <1>0, <1>6 DEF RecoverResume, SetStatus, Return, Item, ByLabel, Resuming
  <2> QED
    BY <2>1, FreeStep DEF Early, Handed, Submitted, Free
<1>7. CASE RecoverReviewStatus
  <2>1. pc \in Returning /\ item'.status = "IMPLEMENTED" /\ disk' = disk /\ pc' = "idle"
    BY <1>0, <1>7 DEF RecoverReviewStatus, SetStatus, Explain, Return, Item, Returning
  <2>2. HandoffValid'
    BY <1>0, <2>1, HandoffKept DEF ByLabel, Untouched
  <2> QED
    BY <2>1, <2>2, FreeLabels DEF Handoff, ValidByStatus, Free
<1> QED
  BY <1>1, <1>2, <1>3, <1>4, <1>5, <1>6, <1>7 DEF CooldownSteps

\* spawn-agent truncates the result of the role it starts: the implementer's
\* only while nobody reviews it.
LEMMA SpawnHandoff == TypeOK /\ UnitsByPhase /\ Handoff /\ SpawnSteps => Handoff'
<1> SUFFICES ASSUME TypeOK, UnitsByPhase, Handoff, SpawnSteps PROVE Handoff'
  OBVIOUS
<1>0. /\ disk \in Disk /\ act \in Act /\ StatusByLabel /\ CallsByLabel /\ ByLabel
      /\ disk.result \in [Roles -> Result] /\ act.role \in Roles
  BY DEF TypeOK, Disk, Act, UnitsByPhase, Handoff
<1>1. CASE SpawnTruncate \/ SpawnJob
  <2>1. /\ pc \in SpawnLabels /\ pc' \in SpawnLabels /\ act' = act /\ item' = item
        /\ act.role # "implementer" => Untouched
    <3>1. /\ disk'.clone = disk.clone /\ disk'.cmeta = disk.cmeta /\ disk'.wait = disk.wait
          /\ act.role # "implementer" =>
               disk'.result["implementer"] = disk.result["implementer"]
      <4>1. CASE SpawnTruncate
        BY <1>0, <4>1 DEF SpawnTruncate, Disk, Roles
      <4>2. CASE SpawnJob
        BY <1>0, <4>2 DEF SpawnJob, Disk
      <4> QED
        BY <1>1, <4>1, <4>2
    <3>2. pc \in SpawnLabels /\ pc' \in SpawnLabels /\ act' = act /\ item' = item
      BY <1>1 DEF SpawnTruncate, SpawnJob, Goto, SpawnLabels
    <3> QED
      BY <3>1, <3>2 DEF Untouched
  <2>2. CASE act.role = "implementer"
    <3>1. item'.status \notin Handed
      BY <1>0, <2>1, <2>2 DEF StatusByLabel, Handed, Submitted
    <3> QED
      BY <2>1, <2>2, <3>1, CallStep
  <2>3. CASE act.role # "implementer"
    <3>1. act'.status \in Submitted
      BY <1>0, <2>1, <2>3 DEF ByLabel
    <3> QED
      BY <2>1, <2>3, <3>1, ReviewStep
  <2> QED
    BY <2>2, <2>3
<1>2. CASE SpawnRefused
  BY <1>2, FreeStep DEF SpawnRefused, Return, Free, Untouched
<1>3. CASE SpawnUnit
  <2>1. /\ pc \in SpawnLabels /\ pc' = act.next /\ UNCHANGED <<item, disk>>
        /\ act.next # "idle" => act' = act
    BY <1>3 DEF SpawnUnit, Resume, SpawnLabels
  <2>2. Untouched
    BY <2>1 DEF Untouched
  <2>3. CASE act.role = "implementer" \/ act.next = "review_note"
    <3>1. pc' \in Free
      BY <1>0, <2>1, <2>3 DEF CallsByLabel, Free
    <3> QED
      BY <2>1, <2>2, <3>1, FreeStep
  <2>4. CASE act.role # "implementer" /\ act.next # "review_note"
    <3>1. pc' \in Reviewing /\ act'.status \in Submitted
      BY <1>0, <2>1, <2>4 DEF CallsByLabel, ByLabel, Reviewing
    <3> QED
      BY <2>1, <2>2, <3>1, ReviewStep
  <2> QED
    BY <2>3, <2>4
<1> QED
  BY <1>1, <1>2, <1>3 DEF SpawnSteps

\* dispatch makes the clone while the item is CLAIMED.
LEMMA DispatchHandoff == TypeOK /\ Handoff /\ DispatchSteps => Handoff'
<1> SUFFICES ASSUME TypeOK, Handoff, DispatchSteps PROVE Handoff'
  OBVIOUS
<1>0. item \in Item /\ act \in Act /\ ByLabel
  BY DEF TypeOK, Handoff
<1>1. CASE DispatchStart
  <2>1. item' = item /\ disk' = disk /\ item.status = "READY"
    BY <1>1 DEF DispatchStart
  <2>2. Untouched
    BY <2>1 DEF Untouched
  <2>3. CASE pc' = "queue"
    <3>1. act'.role = "implementer" /\ act'.resume \in Early
      BY <1>1, <2>3 DEF DispatchStart, Queue, Accept, Payload, Early
    <3> QED
      BY <2>1, <2>2, <2>3, <3>1, ParkStep
  <2>4. CASE pc' = "dispatch_claim"
    BY <2>1, <2>2, <2>4, FreeStep DEF Free
  <2> QED
    BY <1>1, <2>3, <2>4 DEF DispatchStart, Queue, Accept
<1>2. CASE DispatchClaim
  <2>1. item'.status = "CLAIMED" /\ pc' = "dispatch_clone"
    BY <1>0, <1>2 DEF DispatchClaim, SetStatus, Goto, Item
  <2> QED
    BY <2>1, BusyStep DEF Busy, Retrying, Handed, Submitted
<1>3. CASE DispatchStale
  BY <1>3, FreeStep DEF DispatchStale, Return, Free, Untouched
<1>4. CASE \/ DispatchClone \/ DispatchMeta \/ DispatchPack \/ DispatchSpawn \/ DispatchFails
           \/ UnwindFiles
  <2>1. /\ item' = item /\ pc \in Busy \cup {"dispatch_done"}
        /\ \/ pc' \in {"dispatch_meta", "dispatch_pack", "dispatch_spawn", "unwind_files"}
           \/ pc' = "spawn" /\ act'.role = "implementer"
           \/ pc' = "unwind_status"
        /\ pc # "dispatch_done"
    BY <1>0, <1>4
    DEF DispatchClone, DispatchMeta, DispatchPack, DispatchSpawn, DispatchFails, UnwindFiles,
        SpawnAgent, Goto, Busy, Act
  <2>2. item'.status \notin Handed
    BY <1>0, <2>1 DEF ByLabel
  <2> QED
    BY <2>1, <2>2, BusyStep, CallStep, FreeStep DEF Busy, Retrying, Free, SpawnLabels
<1>5. CASE DispatchDone \/ UnwindStatus
  <2>1. item'.status \in {"IN_PROGRESS", "READY"} /\ pc' = "idle"
    BY <1>0, <1>5 DEF DispatchDone, UnwindStatus, SetStatus, Return, Item
  <2> QED
    BY <2>1, FreeStep DEF Free, Handed, Submitted
<1> QED
  BY <1>1, <1>2, <1>3, <1>4, <1>5 DEF DispatchSteps

\* An interrupted launch is settled or taken back, by an implementation.
LEMMA LaunchHandoff == TypeOK /\ UnitsByPhase /\ Handoff /\ LaunchSteps => Handoff'
<1> SUFFICES ASSUME TypeOK, UnitsByPhase, Handoff, LaunchSteps PROVE Handoff'
  OBVIOUS
<1>0. item \in Item /\ disk \in Disk /\ ByLabel /\ CallsByLabel
  BY DEF TypeOK, Handoff, UnitsByPhase
<1>1. CASE LaunchSpent \/ LaunchSettled
  <2>1. /\ pc \in Busy \cap Retrying /\ item' = item /\ act' = act
        /\ pc' \in {"launch_settled", "reconcile", "retry"}
    BY <1>0, <1>1 DEF LaunchSpent, LaunchSettled, Goto, Busy, Retrying, CallsByLabel
  <2>2. item'.status \notin Handed /\ act'.status \notin Handed
    BY <1>0, <2>1 DEF ByLabel
  <2> QED
    BY <2>1, <2>2, BusyStep DEF Busy
<1>2. CASE LaunchRestored
  <2>1. pc = "recover_launch" /\ item' = item /\ pc' = "launch_status"
    BY <1>2 DEF LaunchRestored, Goto
  <2>2. item'.status \notin Handed
    BY <1>0, <2>1 DEF ByLabel, Busy
  <2> QED
    BY <2>1, <2>2, FreeStep DEF Free
<1>3. CASE LaunchStatus
  <2>1. item'.status = "RETRY_PENDING" /\ pc' = "launch_closed"
    BY <1>0, <1>3 DEF LaunchStatus, SetStatus, Goto, Item
  <2> QED
    BY <2>1, FreeStep DEF Free, Handed, Submitted
<1>4. CASE LaunchClosed \/ LaunchKept
  <2>1. item' = item /\ pc' = "idle" /\ Untouched
    BY <1>0, <1>4 DEF LaunchClosed, LaunchKept, Return, Untouched, Disk
  <2> QED
    BY <2>1, FreeStep DEF Free
<1> QED
  BY <1>1, <1>2, <1>3, <1>4 DEF LaunchSteps

\* ImplementationStart begins an implementation in a status without reviewers.
LEMMA StartHandoff ==
  ASSUME Handoff, NEW statuses, NEW l \in {"reconcile", "retry"},
         statuses \cap Handed = {}, ImplementationStart(statuses, l)
  PROVE  Handoff'
<1>1. /\ item' = item /\ item.status \notin Handed /\ act'.status = item.status
      /\ pc' \in {"recover_launch", "reconcile", "retry"}
  BY DEF ImplementationStart, Payload
<1> QED
  BY <1>1, BusyStep DEF Busy

\* reconcile_implementation makes it the handoff after validating it.
LEMMA ReconcileHandoff == TypeOK /\ Handoff /\ ReconcileSteps => Handoff'
<1> SUFFICES ASSUME TypeOK, Handoff, ReconcileSteps PROVE Handoff'
  OBVIOUS
<1>0. item \in Item /\ act \in Act /\ ByLabel
  BY DEF TypeOK, Handoff
<1>1. CASE ReconcileStart
  BY <1>1, StartHandoff DEF ReconcileStart, Handed, Submitted
<1>2. CASE ReconcileAbandoned \/ ReconcileReady \/ ReconcileFailure
  <2>1. /\ pc' \in {"idle", "reconcile_ready"}
        /\ \/ item' = item /\ pc = "reconcile"
           \/ item'.status \in {"READY", "RETRY_PENDING"}
    BY <1>0, <1>2
    DEF ReconcileAbandoned, ReconcileReady, ReconcileFailure, SetStatus, Explain, Goto, Return, Item
  <2>2. item'.status \notin Handed
    BY <1>0, <2>1 DEF ByLabel, Busy, Handed, Submitted
  <2> QED
    BY <2>1, <2>2, FreeStep DEF Free
<1>3. CASE ReconcileQuota
  <2>1. /\ pc = "reconcile" /\ pc' = "quota_mark" /\ UNCHANGED <<item, disk>>
        /\ act'.role = "implementer" /\ act'.resume \in Early
    BY <1>0, <1>3 DEF ReconcileQuota, Queue, Act, Early
  <2>2. item.status # "WAITING_PROVIDER" /\ Untouched
    BY <1>0, <2>1 DEF ByLabel, Busy, Handed, Untouched
  <2> QED
    BY <2>1, <2>2, ParkStep
<1>4. CASE ReconcileSuccess
  <2>1. item'.status = "IMPLEMENTED" /\ pc' = "idle" /\ HandoffValid /\ Untouched
    BY <1>0, <1>4
    DEF ReconcileSuccess, Explain, Return, Item, HandoffValid, Impl, Untouched
  <2>2. ValidByStatus'
    BY <2>1, HandoffKept DEF ValidByStatus
  <2> QED
    BY <2>1, <2>2, FreeLabels DEF Handoff, Free
<1>5. CASE ReconcileNothing
  BY <1>5, FreeStep DEF ReconcileNothing, Return, Free, Untouched
<1> QED
  BY <1>1, <1>2, <1>3, <1>4, <1>5 DEF ReconcileSteps

\* retry_implementation replaces the handoff of an attempt that failed, and
\* goes back to the status it started from.
LEMMA RetryHandoff == TypeOK /\ Handoff /\ RetrySteps => Handoff'
<1> SUFFICES ASSUME TypeOK, Handoff, RetrySteps PROVE Handoff'
  OBVIOUS
<1>0. item \in Item /\ act \in Act /\ disk \in Disk /\ ByLabel
  BY DEF TypeOK, Handoff
<1>1. CASE RetryStart
  BY <1>1, StartHandoff DEF RetryStart, Handed, Submitted
<1>2. CASE RetryLimit
  <2>1. item'.status = "WAITING_HUMAN" /\ pc' = "idle"
    BY <1>0, <1>2 DEF RetryLimit, Explain, Return, Item
  <2> QED
    BY <2>1, FreeStep DEF Free, Handed, Submitted
<1>3. CASE RetryRefused
  BY <1>3, FreeStep DEF RetryRefused, Return, Free, Untouched
<1>4. CASE \/ RetryPrepare \/ RetryTx \/ RetryPack \/ RetryUnlinkJob \/ RetryUnlinkResult
           \/ RetryCount \/ RetryGuardFails \/ RetryUncount
  <2>1. item'.status = item.status /\ act'.status = act.status
    BY <1>0, <1>4
    DEF RetryPrepare, RetryTx, RetryPack, RetryUnlinkJob, RetryUnlinkResult, RetryCount,
        RetryGuardFails, RetryUncount, Goto, Item, Act
  <2>2. /\ pc \in {"retry", "retry_tx", "retry_pack", "retry_unlink_job", "retry_unlink_result",
                    "retry_count", "retry_guard", "retry_uncount"}
        /\ pc' \in {"retry_tx", "retry_pack", "retry_unlink_job", "retry_unlink_result",
                     "retry_count", "retry_status", "retry_restore", "retry_unstatus"}
    BY <1>4
    DEF RetryPrepare, RetryTx, RetryPack, RetryUnlinkJob, RetryUnlinkResult, RetryCount,
        RetryGuardFails, RetryUncount, Goto
  <2>3. item'.status \notin Handed /\ act'.status \notin Handed
    BY <1>0, <2>1, <2>2 DEF ByLabel, Busy, Retrying
  <2> QED
    BY <2>2, <2>3, BusyStep DEF Busy
<1>5. CASE RetryStatus
  <2>1. /\ pc = "retry_status" /\ pc' = "retry_guard" /\ act' = act
        /\ item'.status = "IN_PROGRESS"
    BY <1>0, <1>5 DEF RetryStatus, SetStatus, Goto, Item
  <2>2. item'.status \notin Handed /\ act'.status \notin Handed
    BY <1>0, <2>1 DEF ByLabel, Retrying, Handed, Submitted
  <2> QED
    BY <2>1, <2>2, BusyStep DEF Busy
<1>6. CASE RetryGuard \/ RetryBudget
  <2>1. /\ item' = item /\ pc \in Busy
        /\ pc' = "retry_budget" \/ (pc' = "spawn" /\ act'.role = "implementer")
    BY <1>0, <1>6 DEF RetryGuard, RetryBudget, SpawnAgent, Goto, Busy, Act
  <2>2. item'.status \notin Handed
    BY <1>0, <2>1 DEF ByLabel
  <2> QED
    BY <2>1, <2>2, BusyStep, CallStep DEF Busy, Retrying, SpawnLabels
<1>7. CASE RetryRestore
  <2>1. /\ item' = item /\ pc = "retry_restore"
        /\ pc' = "idle" \/ (pc' = "retry_uncount" /\ act' = act)
    BY <1>7 DEF RetryRestore, Goto, Return
  <2>2. item'.status \notin Handed /\ act.status \notin Handed
    BY <1>0, <2>1 DEF ByLabel, Busy, Retrying
  <2> QED
    BY <2>1, <2>2, BusyStep, FreeStep DEF Busy, Free
<1>8. CASE RetryUnstatus
  <2>1. item'.status = act.status /\ pc = "retry_unstatus" /\ pc' = "idle"
    BY <1>0, <1>8 DEF RetryUnstatus, SetStatus, Return, Item
  <2>2. item'.status \notin Handed
    BY <1>0, <2>1 DEF ByLabel, Retrying
  <2> QED
    BY <2>1, <2>2, FreeStep DEF Free
<1>9. CASE RetrySpent \/ RetryClose
  <2>1. item' = item /\ pc' \in Free
    BY <1>9 DEF RetrySpent, RetryClose, Goto, Return, Free
  <2>2. RetrySpent => Untouched
    BY <1>0 DEF RetrySpent, Untouched, Disk, Wait
  <2>3. RetryClose => Untouched
    BY <1>0 DEF RetryClose, Untouched, Disk
  <2> QED
    BY <1>9, <2>1, <2>2, <2>3, FreeStep
<1> QED
  BY <1>1, <1>2, <1>3, <1>4, <1>5, <1>6, <1>7, <1>8, <1>9 DEF RetrySteps

LEMMA ResumeHandoff == TypeOK /\ Handoff /\ (ResumeStart \/ ResumeStatus) => Handoff'
<1> SUFFICES ASSUME TypeOK, Handoff, ResumeStart \/ ResumeStatus PROVE Handoff'
  OBVIOUS
<1>1. /\ item'.status \in {item.status, "RETRY_PENDING"} /\ disk' = disk /\ pc' \in Free
  BY DEF TypeOK, Item, ResumeStart, ResumeStatus, SetStatus, Accept, Return, Free
<1>2. Untouched
  BY <1>1 DEF Untouched
<1> QED
  BY <1>1, <1>2, FreeStep DEF Handed, Submitted

LEMMA PublishHandoff == TypeOK /\ Handoff /\ PublishSteps => Handoff'
<1> SUFFICES ASSUME TypeOK, Handoff, PublishSteps PROVE Handoff'
  OBVIOUS
<1>1. /\ item'.status \in {item.status, "WAITING_HUMAN"} /\ disk' = disk
  BY DEF TypeOK, Item, PublishSteps, PublishStart, PublishHold, PublishPush, PublishPr, SetStatus
<1>2. pc' \in Free
  BY DEF PublishSteps, PublishStart, PublishHold, PublishPush, PublishPr, Accept, Goto, Return, Free
<1>3. Untouched
  BY <1>1 DEF Untouched
<1> QED
  BY <1>1, <1>2, <1>3, FreeStep DEF Handed, Submitted

\* spawn_review writes the files of a required role only.
LEMMA SpawnReviewHandoff == TypeOK /\ UnitsByPhase /\ Handoff /\ SpawnReviewSteps => Handoff'
<1> SUFFICES ASSUME TypeOK, UnitsByPhase, Handoff, SpawnReviewSteps PROVE Handoff'
  OBVIOUS
<1>0. /\ disk \in Disk /\ disk.result \in [Roles -> Result] /\ act \in Act
      /\ ByLabel /\ CallsByLabel
  BY DEF TypeOK, Disk, UnitsByPhase, Handoff
<1>1. pc \in SpawnReviewLabels /\ item' = item
  BY DEF SpawnReviewSteps, ReviewCheck, ReviewMeta, ReviewPack, ReviewUnlinkResult,
         ReviewUnlinkJob, SpawnReviewLabels
<1>2. /\ act.role \in RequiredRoles /\ act.status \in Submitted
      /\ act.next \in {"review_security", "review_status", "review_note"}
  BY <1>0, <1>1 DEF CallsByLabel, ByLabel, Reviewing
<1>3. act.role \in Roles \ {"implementer"}
  BY <1>2 DEF RequiredRoles, ReviewRoles, Roles
<1>4. Untouched
  <2>1. CASE ReviewCheck
    BY <2>1 DEF ReviewCheck, Untouched
  <2>2. CASE ReviewMeta
    BY <1>0, <2>2 DEF ReviewMeta, Untouched, Disk
  <2>3. CASE ReviewPack
    BY <1>0, <2>3 DEF ReviewPack, Untouched, Disk
  <2>4. CASE ReviewUnlinkResult
    BY <1>0, <1>3, <2>4 DEF ReviewUnlinkResult, Untouched, Disk, Roles
  <2>5. CASE ReviewUnlinkJob
    BY <1>0, <2>5 DEF ReviewUnlinkJob, Untouched, Disk
  <2> QED
    BY <2>1, <2>2, <2>3, <2>4, <2>5 DEF SpawnReviewSteps
<1>5. \/ pc' \in Free
      \/ pc' \in Reviewing \cup SpawnLabels /\ act'.status = act.status
  <2>1. CASE ReviewCheck
    BY <1>2, <2>1
    DEF ReviewCheck, Resume, Return, Goto, Free, Reviewing, SpawnReviewLabels
  <2>2. CASE ReviewMeta
    BY <1>0, <2>2
    DEF ReviewMeta, SpawnAgent, Goto, Act, Reviewing, SpawnReviewLabels, SpawnLabels
  <2>3. CASE ReviewPack \/ ReviewUnlinkResult \/ ReviewUnlinkJob
    BY <2>3
    DEF ReviewPack, ReviewUnlinkResult, ReviewUnlinkJob, Goto, Reviewing, SpawnReviewLabels
  <2> QED
    BY <2>1, <2>2, <2>3 DEF SpawnReviewSteps
<1> QED
  BY <1>1, <1>2, <1>4, <1>5, FreeStep, ReviewStep

\* CallReview begins a review of what was submitted.
LEMMA CallHandoff ==
  ASSUME Handoff, NEW a, a.status \in Submitted, NEW role, NEW provider, NEW tries,
         NEW recovery, NEW next, CallReview(a, role, provider, tries, recovery, next),
         DOMAIN a = DOMAIN NoAct, UNCHANGED <<item, disk>>
  PROVE  Handoff'
<1>1. pc' = "review_check" /\ act'.status = a.status
  BY DEF CallReview, NoAct
<1>2. Untouched
  BY DEF Untouched
<1> QED
  BY <1>1, <1>2, ReviewStep DEF Reviewing, SpawnReviewLabels

\* dispatch_review parks, holds back or starts reviews of what was submitted.
LEMMA DispatchReviewHandoff == TypeOK /\ Handoff /\ DispatchReviewSteps => Handoff'
<1> SUFFICES ASSUME TypeOK, Handoff, DispatchReviewSteps PROVE Handoff'
  OBVIOUS
<1>0. /\ item \in Item /\ act \in Act /\ disk \in Disk /\ ByLabel /\ ValidByStatus
      /\ DOMAIN Payload = DOMAIN NoAct /\ DOMAIN act = DOMAIN NoAct
      /\ Payload.status = item.status
  BY DEF TypeOK, Handoff, Act, Payload, NoAct
<1>1. CASE DispatchReview
  <2>1. item.status = "IMPLEMENTED" /\ UNCHANGED <<item, disk>>
    BY <1>1 DEF DispatchReview, ReviewReady
  <2>2. PICK provider, next :
          \/ Queue(Payload, "queue", "reviewer", item.provider, "IMPLEMENTED")
          \/ CallReview(Payload, "reviewer", provider, 0, 0, next)
    BY <1>1 DEF DispatchReview
  <2>3. CASE Queue(Payload, "queue", "reviewer", item.provider, "IMPLEMENTED")
    <3>1. pc' = "queue" /\ act'.role = "reviewer" /\ act'.status = "IMPLEMENTED"
      BY <1>0, <2>1, <2>3 DEF Queue, Payload
    <3> QED
      BY <2>1, <3>1, ParkStep DEF Untouched, Submitted
  <2>4. CASE CallReview(Payload, "reviewer", provider, 0, 0, next)
    BY <1>0, <2>1, <2>4, CallHandoff DEF Submitted
  <2> QED
    BY <2>2, <2>3, <2>4
<1>2. CASE DispatchSecurity
  <2>1. act.status \in Submitted /\ UNCHANGED <<item, disk>>
    BY <1>0, <1>2 DEF DispatchSecurity, ByLabel, Reviewing
  <2>2. PICK provider :
          Return \/ CallReview(act, "security-reviewer", provider, 0, 0, "review_status")
    BY <1>2 DEF DispatchSecurity
  <2>3. CASE Return
    BY <2>1, <2>3, FreeStep DEF Return, Free, Untouched
  <2>4. CASE CallReview(act, "security-reviewer", provider, 0, 0, "review_status")
    BY <1>0, <2>1, <2>4, CallHandoff
  <2> QED
    BY <2>2, <2>3, <2>4
<1>3. CASE DispatchRecovery
  <2>1. item.status = "IMPLEMENTED" /\ UNCHANGED <<item, disk>> /\ disk.wait.role \in RequiredRoles
    BY <1>3 DEF DispatchRecovery, ReviewReady
  <2>2. PICK role, provider, tries :
          \/ Accept("review_wait")
          \/ CallReview([Payload EXCEPT !.quota = TRUE], role, provider, tries,
                        disk.wait.recovery, "review_status")
    BY <1>3 DEF DispatchRecovery
  <2>3. CASE Accept("review_wait")
    <3>1. pc' = "review_wait" /\ act'.status \in Submitted
      BY <1>0, <2>1, <2>3 DEF Accept, Submitted
    <3>2. disk'.wait.role # "implementer"
      BY <2>1 DEF RequiredRoles, ReviewRoles
    <3>3. ValidByStatus'
      BY <2>1, StatusStep DEF Untouched
    <3>4. ByLabel'
      BY <3>1, <3>2
      DEF ByLabel, Returning, Busy, Retrying, Reviewing, SpawnReviewLabels, SpawnLabels, Parking,
          Resuming
    <3> QED
      BY <3>3, <3>4 DEF Handoff
  <2>4. CASE CallReview([Payload EXCEPT !.quota = TRUE], role, provider, tries,
                        disk.wait.recovery, "review_status")
    <3>1. /\ [Payload EXCEPT !.quota = TRUE].status \in Submitted
          /\ DOMAIN [Payload EXCEPT !.quota = TRUE] = DOMAIN NoAct
      BY <1>0, <2>1 DEF Payload, NoAct, Submitted
    <3> QED
      BY <2>1, <2>4, <3>1, CallHandoff
  <2> QED
    BY <2>2, <2>3, <2>4
<1>4. CASE ReviewWait
  <2>1. /\ pc = "review_wait" /\ item.status = act.status /\ item'.status = "WAITING_PROVIDER"
        /\ disk' = disk /\ pc' = "idle"
    BY <1>0, <1>4 DEF ReviewWait, StatusFresh, Expected, SetStatus, Return, Item
  <2>2. disk.wait.role # "implementer" /\ HandoffValid
    BY <1>0, <2>1 DEF ByLabel, ValidByStatus
  <2>3. ValidByStatus'
    BY <2>1, <2>2, HandoffKept DEF ValidByStatus, Submitted, Untouched
  <2> QED
    BY <2>1, <2>3, FreeLabels DEF Handoff, Free
<1>5. CASE ReviewStatus
  <2>1. /\ pc = "review_status" /\ item.status = act.status /\ item'.status = "REVIEWING"
        /\ disk' = disk /\ pc' \in Free
    BY <1>0, <1>5 DEF ReviewStatus, StatusFresh, Expected, SetStatus, Return, Goto, Item, Free
  <2>2. HandoffValid
    BY <1>0, <2>1 DEF ByLabel, Reviewing, ValidByStatus
  <2>3. ValidByStatus'
    BY <2>1, <2>2, HandoffKept DEF ValidByStatus, Untouched
  <2> QED
    BY <2>1, <2>3, FreeLabels DEF Handoff
<1>6. CASE ReviewSpent
  <2>1. item' = item /\ pc' = "idle" /\ Untouched
    BY <1>0, <1>6 DEF ReviewSpent, Return, Untouched, Disk, Wait
  <2> QED
    BY <2>1, FreeStep DEF Free
<1> QED
  BY <1>1, <1>2, <1>3, <1>4, <1>5, <1>6 DEF DispatchReviewSteps

\* consume_review decides, parks or repeats a review of what was submitted.
LEMMA ConsumeHandoff == TypeOK /\ UnitsByPhase /\ Handoff /\ ConsumeSteps => Handoff'
<1> SUFFICES ASSUME TypeOK, UnitsByPhase, Handoff, ConsumeSteps PROVE Handoff'
  OBVIOUS
<1>0. /\ item \in Item /\ act \in Act /\ ByLabel /\ StatusByLabel /\ CallsByLabel
      /\ DOMAIN act = DOMAIN NoAct /\ disk' = disk /\ Untouched
  BY DEF TypeOK, Handoff, UnitsByPhase, Act, NoAct, Untouched, ConsumeSteps, ConsumeStart,
         ConsumeVerdict, ConsumeStatus, RetryReview, ReviewNote, ConsumeNothing
<1>1. CASE ConsumeStart
  <2>1. pc' = "consume" /\ act'.status = "REVIEWING" /\ item' = item
    BY <1>1 DEF ConsumeStart, Payload
  <2> QED
    BY <1>0, <2>1, ReviewStep DEF Reviewing, Submitted
<1>2. CASE ConsumeVerdict
  <2>1. /\ pc = "consume" /\ item' = item
        /\ \/ pc' = "consume" /\ act'.status = act.status
           \/ pc' = "consume_status"
    BY <1>0, <1>2 DEF ConsumeVerdict, Goto, Act
  <2>2. act.status \in Submitted
    BY <1>0, <2>1 DEF ByLabel, Reviewing
  <2> QED
    BY <1>0, <2>1, <2>2, ReviewStep, FreeStep DEF Reviewing, Free
<1>3. CASE ConsumeStatus
  <2>1. item'.status \in {"CHANGES_REQUESTED", "VERIFIED"} /\ pc' = "idle"
    BY <1>0, <1>3 DEF ConsumeStatus, SetStatus, Return, Item
  <2> QED
    BY <2>1, FreeStep DEF Free, Handed, Submitted
<1>4. CASE RetryReview
  <2>1. /\ pc = "consume" /\ act.status \in Submitted /\ act.role # "implementer"
        /\ item.status # "WAITING_PROVIDER"
    BY <1>0, <1>4
    DEF RetryReview, ByLabel, Reviewing, StatusByLabel, CallsByLabel, RequiredRoles, ReviewRoles
  <2>2. PICK provider, tries :
          \/ Queue(act, "quota_mark", act.role, provider, "REVIEWING") /\ item' = item
          \/ Explain("process", "WAITING_HUMAN") /\ Return
          \/ CallReview(act, act.role, provider, tries, 0, "review_note") /\ item' = item
    BY <1>4 DEF RetryReview
  <2>3. CASE Queue(act, "quota_mark", act.role, provider, "REVIEWING") /\ item' = item
    <3>1. pc' = "quota_mark" /\ act'.role = act.role /\ act'.status = act.status
      BY <1>0, <2>3 DEF Queue, Act
    <3> QED
      BY <1>0, <2>1, <2>3, <3>1, ParkStep
  <2>4. CASE Explain("process", "WAITING_HUMAN") /\ Return
    <3>1. item'.status = "WAITING_HUMAN" /\ pc' = "idle"
      BY <1>0, <2>4 DEF Explain, Return, Item
    <3> QED
      BY <3>1, FreeStep DEF Free, Handed, Submitted
  <2>5. CASE CallReview(act, act.role, provider, tries, 0, "review_note") /\ item' = item
    BY <1>0, <2>1, <2>5, CallHandoff
  <2> QED
    BY <2>2, <2>3, <2>4, <2>5
<1>5. CASE ReviewNote \/ ConsumeNothing
  <2>1. item'.status = item.status /\ pc' = "idle"
    BY <1>0, <1>5 DEF ReviewNote, ConsumeNothing, Return, Item
  <2> QED
    BY <1>0, <2>1, FreeStep DEF Free
<1> QED
  BY <1>1, <1>2, <1>3, <1>4, <1>5 DEF ConsumeSteps

\* An operator returns the item to the reviewers with the handoff validated.
LEMMA OperatorHandoff == TypeOK /\ Handoff /\ OperatorSteps => Handoff'
<1> SUFFICES ASSUME TypeOK, Handoff, OperatorSteps PROVE Handoff'
  OBVIOUS
<1>0. item \in Item /\ disk \in Disk /\ ByLabel /\ "reviewer" \in RequiredRoles
  BY DEF TypeOK, Handoff, RequiredRoles, ReviewRoles
<1>1. ASSUME NEW r \in RequiredRoles, OperatorTarget(r), OperatorStart, Untouched
      PROVE  Handoff'
  <2>1. item'.status = item.status /\ pc' = "operator_reviewing" /\ HandoffValid
    BY <1>0, <1>1 DEF OperatorStart, OperatorTarget, Accept, Item, HandoffValid
  <2>2. ValidByStatus'
    BY <1>1, <2>1, StatusStep
  <2>3. ByLabel'
    BY <1>1, <2>1, HandoffKept
    DEF ByLabel, Busy, Retrying, Reviewing, SpawnReviewLabels, SpawnLabels, Parking, Resuming
  <2> QED
    BY <2>2, <2>3 DEF Handoff
<1>2. ASSUME NEW r \in RequiredRoles, ResumeReview(r) PROVE Handoff'
  <2>1. OperatorTarget(r) /\ OperatorStart /\ Untouched
    BY <1>0, <1>2 DEF ResumeReview, Untouched, Disk
  <2> QED
    BY <1>1, <2>1
<1>3. CASE ReconcileWaitingResult
  <2>1. OperatorTarget("reviewer") /\ OperatorStart /\ Untouched
    BY <1>0, <1>3 DEF ReconcileWaitingResult, Untouched
  <2> QED
    BY <1>0, <1>1, <2>1
<1>4. CASE OperatorReviewing
  <2>1. /\ pc = "operator_reviewing" /\ item'.status = "REVIEWING" /\ disk' = disk
        /\ pc' = "idle"
    BY <1>0, <1>4 DEF OperatorReviewing, SetStatus, Return, Item
  <2>2. HandoffValid
    BY <1>0, <2>1 DEF ByLabel, Returning
  <2>3. ValidByStatus'
    BY <2>1, <2>2, HandoffKept DEF ValidByStatus, Untouched
  <2> QED
    BY <2>1, <2>3, FreeLabels DEF Handoff, Free
<1>5. CASE RecordHost
  <2>1. item' = item /\ pc' \in Free
    BY <1>5 DEF RecordHost, Accept, Free
  <2>2. Untouched
    BY <1>0, <1>5 DEF RecordHost, Untouched, Disk, CloneMeta
  <2> QED
    BY <2>1, <2>2, FreeStep
<1>6. CASE RecordReport
  <2>1. item' = item /\ pc' \in Free /\ Untouched
    BY <1>0, <1>6 DEF RecordReport, Return, Free, Untouched, Disk
  <2> QED
    BY <2>1, FreeStep
<1> QED
  BY <1>2, <1>3, <1>4, <1>5, <1>6 DEF OperatorSteps

\* From VERIFIED on the handoff is with nobody: an integration may merge into
\* its clone, and finalize_merge removes it.
LEMMA MergeGateHandoff == TypeOK /\ Handoff /\ MergeGateSteps => Handoff'
<1> SUFFICES ASSUME TypeOK, Handoff, MergeGateSteps PROVE Handoff'
  OBVIOUS
<1>0. item \in Item /\ disk \in Disk /\ ByLabel
  BY DEF TypeOK, Handoff
<1>1. CASE AdvanceStart \/ AdvanceStatus
  <2>1. item'.status \in {item.status, "MERGE_READY"} /\ disk' = disk /\ pc' \in Free
    BY <1>0, <1>1 DEF AdvanceStart, AdvanceStatus, SetStatus, Accept, Return, Item, Free
  <2> QED
    BY <2>1, FreeStep DEF Untouched, Handed, Submitted
<1>2. CASE IntegrateSteps
  <2>1. CASE IntegrateStart
    <3>1. /\ item' = item /\ item.status = "VERIFIED"
          /\ pc' \in {"int_inspect", "int_resume", "int_target"}
      BY <2>1 DEF IntegrateStart, Accept
    <3> QED
      BY <3>1, BusyStep, FreeStep DEF Busy, Retrying, Free, Handed, Submitted
  <2>2. CASE IntegrateInspect \/ IntegrateStatus
    <3>1. item'.status \in {"WAITING_HUMAN", "RETRY_PENDING"} /\ pc' \in Free
      BY <1>0, <2>2
      DEF IntegrateInspect, IntegrateStatus, Explain, SetStatus, Return, Goto, Item, Free
    <3> QED
      BY <3>1, FreeStep DEF Handed, Submitted
  <2>3. CASE IntegrateTarget \/ IntegrateMerge \/ IntegrateBase
    <3>1. item' = item /\ pc \in Busy /\ pc' \in {"int_merge", "int_base", "int_count"}
      BY <2>3 DEF IntegrateTarget, IntegrateMerge, IntegrateBase, Goto, Busy
    <3>2. item'.status \notin Handed
      BY <1>0, <3>1 DEF ByLabel
    <3> QED
      BY <3>1, <3>2, BusyStep, FreeStep DEF Busy, Retrying, Free
  <2>4. CASE IntegrateCount
    <3>1. item'.status = item.status /\ disk' = disk /\ pc' \in Free
      BY <1>0, <2>4 DEF IntegrateCount, Goto, Item, Free
    <3> QED
      BY <3>1, FreeStep DEF Untouched
  <2>5. CASE IntegrateClose
    <3>1. item' = item /\ pc' \in Free
      BY <2>5 DEF IntegrateClose, Return, Free
    <3>2. Untouched
      BY <1>0, <2>5 DEF IntegrateClose, Untouched, Disk, CloneMeta
    <3> QED
      BY <3>1, <3>2, FreeStep
  <2> QED
    BY <1>2, <2>1, <2>2, <2>3, <2>4, <2>5 DEF IntegrateSteps
<1>3. CASE MergeSteps
  <2>1. /\ item'.status \in {item.status, "MERGING", "MERGE_READY"} /\ disk' = disk
        /\ pc' \in {"merge_status", "merge_call", "merge_failed", "idle"}
    BY <1>0, <1>3
    DEF MergeSteps, MergeStart, MergeStatus, MergeCall, MergeRefused, MergeReverts,
        MergeAmbiguous, SetStatus, Accept, Return, Goto, Item
  <2> QED
    BY <2>1, FreeStep DEF Free, Untouched, Handed, Submitted
<1>4. CASE FinalizeSteps
  <2>1. CASE FinalizeStart \/ FinalizeComment \/ FinalizeClose
    <3>1. UNCHANGED <<item, disk>> /\ pc' \in Free
      BY <2>1 DEF FinalizeStart, FinalizeComment, FinalizeClose, Accept, Goto, Free
    <3> QED
      BY <3>1, FreeStep DEF Untouched
  <2>2. CASE FinalizeStatus
    <3>1. item'.status = "DONE" /\ pc' = "final_clone"
      BY <1>0, <2>2 DEF FinalizeStatus, Explain, Goto, Item
    <3> QED
      BY <3>1, BusyStep DEF Busy, Retrying, Handed, Submitted
  <2>3. CASE FinalizeClone \/ FinalizeFiles
    <3>1. item' = item /\ pc \in Busy /\ pc' \in {"final_files", "idle"}
      BY <2>3 DEF FinalizeClone, FinalizeFiles, Goto, Return, Busy
    <3>2. item'.status \notin Handed
      BY <1>0, <3>1 DEF ByLabel
    <3> QED
      BY <3>1, <3>2, BusyStep, FreeStep DEF Busy, Retrying, Free
  <2> QED
    BY <1>4, <2>1, <2>2, <2>3 DEF FinalizeSteps
<1> QED
  BY <1>1, <1>2, <1>3, <1>4 DEF MergeGateSteps

(***************************************************************************)
(* The steps around the broker.                                            *)
(***************************************************************************)
\* The handoff is left alone, or nobody has it; a person may hold the item.
LEMMA AroundStep ==
  ASSUME Handoff, UNCHANGED <<pc, act>>, disk'.wait = disk.wait,
         item' = item \/ item'.status = "WAITING_HUMAN",
         Untouched \/ (item'.status \notin Handed /\ pc \notin Returning)
  PROVE  Handoff'
<1>1. ValidByStatus'
  BY StatusStep DEF Handed, Submitted
<1>2. ByLabel'
  BY HandoffKept DEF Handoff, ByLabel, Handed, Submitted
<1> QED
  BY <1>1, <1>2 DEF Handoff

\* While the implementer runs, nobody has the handoff.
LEMMA WorkerHandoff == TypeOK /\ UnitsByPhase /\ Handoff /\ WorkerSteps => Handoff'
<1> SUFFICES ASSUME TypeOK, UnitsByPhase, Handoff, WorkerSteps PROVE Handoff'
  OBVIOUS
<1>0. /\ disk \in Disk /\ disk.result \in [Roles -> Result]
      /\ UnitsByStatus /\ UnitsByLabel /\ "implementer" \in Roles
  BY RoleFacts DEF TypeOK, Disk, UnitsByPhase
<1>1. Active("implementer") => item.status \notin Handed /\ pc \notin Returning
  BY <1>0
  DEF UnitsByStatus, UnitsByLabel, QuietLabels, NoUnitActive, Handed, Submitted, Returning
<1>2. UNCHANGED <<item, pc, act>>
  BY DEF WorkerSteps, WorkerCommits, ImplementerSucceeds, ImplementerMisreports, ReviewerDecides,
         WorkerFails, WorkerQuota, UnitKilled
<1>3. ASSUME NEW r \in Roles, NEW k, NEW c, Active(r), UnitEnds(r, k, c) PROVE Handoff'
  <2>1. disk'.clone = disk.clone /\ disk'.cmeta = disk.cmeta /\ disk'.wait = disk.wait
    BY <1>0, <1>3 DEF UnitEnds, Disk
  <2>2. r # "implementer" => disk'.result["implementer"] = disk.result["implementer"]
    BY <1>0, <1>3 DEF UnitEnds, Disk
  <2> QED
    BY <1>1, <1>2, <1>3, <2>1, <2>2, AroundStep DEF Untouched
<1>4. CASE WorkerCommits \/ ImplementerMisreports
  <2>1. Active("implementer") /\ disk'.wait = disk.wait
    BY <1>0, <1>4 DEF WorkerCommits, ImplementerMisreports, Disk
  <2> QED
    BY <1>1, <1>2, <2>1, AroundStep
<1>5. CASE ImplementerSucceeds
  BY <1>0, <1>3, <1>5 DEF ImplementerSucceeds
<1>6. ASSUME NEW r \in ReviewRoles, NEW d \in {"approve", "reject"}, ReviewerDecides(r, d)
      PROVE  Handoff'
  BY <1>3, <1>6, RoleFacts DEF ReviewerDecides
<1>7. ASSUME NEW r \in Roles, NEW k \in {"failed", "bad"}, WorkerFails(r, k) PROVE Handoff'
  BY <1>3, <1>7 DEF WorkerFails
<1>8. ASSUME NEW r \in Roles, WorkerQuota(r) PROVE Handoff'
  BY <1>3, <1>8 DEF WorkerQuota
<1>9. ASSUME NEW r \in Roles, UnitKilled(r) PROVE Handoff'
  BY <1>2, <1>9, AroundStep DEF UnitKilled, Untouched
<1> QED
  BY <1>4, <1>5, <1>6, <1>7, <1>8, <1>9 DEF WorkerSteps

LEMMA EnvironmentHandoff ==
  TypeOK /\ Handoff /\ (CooldownEnvironment \/ ReviewEnvironment \/ GitHubSteps) => Handoff'
<1> SUFFICES ASSUME TypeOK, Handoff, CooldownEnvironment \/ ReviewEnvironment \/ GitHubSteps
             PROVE  Handoff'
  OBVIOUS
<1>0. item \in Item /\ disk \in Disk /\ disk.result \in [Roles -> Result]
  BY DEF TypeOK, Disk
<1>1. CASE ReviewEnvironment
  <2>1. PICK r \in ReviewRoles, d \in {"approve", "reject"} : ProtocolFix(r, d)
    BY <1>1 DEF ReviewEnvironment
  <2>2. /\ UNCHANGED <<item, pc, act>> /\ disk'.clone = disk.clone /\ disk'.cmeta = disk.cmeta
        /\ disk'.wait = disk.wait
    BY <1>0, <2>1 DEF ProtocolFix, Disk
  <2>3. r # "implementer" /\ r \in Roles
    BY <2>1 DEF ReviewRoles, Roles
  <2>4. disk'.result["implementer"] = disk.result["implementer"]
    BY <1>0, <2>1, <2>3 DEF ProtocolFix, Disk
  <2> QED
    BY <2>2, <2>4, AroundStep DEF Untouched
<1>2. CASE CooldownEnvironment \/ GitHubSteps
  <2>1. UNCHANGED <<disk, pc, act>> /\ (item' = item \/ item'.status = "WAITING_HUMAN")
    BY <1>0, <1>2
    DEF CooldownEnvironment, OtherIssueQuota, CooldownEnds, GitHubSteps, HumanPush, BaseAdvances,
        CiReports, HumanHold, SetStatus, Item
  <2> QED
    BY <2>1, AroundStep DEF Untouched
<1> QED
  BY <1>1, <1>2

\* A handler that is cut short leaves the handoff as it is.
LEMMA EndHandoff == Handoff /\ (BrokerStops \/ BrokerRaises) => Handoff'
  BY FreeStep DEF BrokerStops, BrokerRaises, Return, Free, Untouched

LEMMA InitHandoff == Init => Handoff
  BY DEF Init, Handoff, ValidByStatus, ByLabel, Submitted, Returning, Busy, Retrying, Reviewing,
         SpawnReviewLabels, SpawnLabels, Parking, Resuming

LEMMA HandoffStep == TypeOK /\ UnitsByPhase /\ Handoff /\ [Next]_vars => Handoff'
<1> SUFFICES ASSUME TypeOK, UnitsByPhase, Handoff, [Next]_vars PROVE Handoff'
  OBVIOUS
<1>1. CASE ImplementationSteps
  BY <1>1, DispatchHandoff, LaunchHandoff, ReconcileHandoff, RetryHandoff, ResumeHandoff
  DEF ImplementationSteps
<1>2. CASE ReviewSteps
  BY <1>2, PublishHandoff, SpawnReviewHandoff, DispatchReviewHandoff, ConsumeHandoff,
     OperatorHandoff
  DEF ReviewSteps
<1>3. CASE CooldownSteps \/ SpawnSteps \/ MergeGateSteps \/ BrokerStops \/ BrokerRaises
  BY <1>3, CooldownHandoff, SpawnHandoff, MergeGateHandoff, EndHandoff
<1>4. CASE WorkerSteps \/ CooldownEnvironment \/ ReviewEnvironment \/ GitHubSteps
  BY <1>4, WorkerHandoff, EnvironmentHandoff
<1>5. CASE UNCHANGED vars
  <2>1. UNCHANGED <<pc, act, item, disk>>
    BY <1>5 DEF vars
  <2> QED
    BY <2>1, AroundStep DEF Untouched
<1> QED
  BY <1>1, <1>2, <1>3, <1>4, <1>5 DEF Next

\* Publication and review start from a handoff that parses and is HEAD of a
\* clean clone on the bound base, through every hold, cooldown, replacement of
\* a reviewer, operator command and crash since it was validated.
THEOREM SubmittedIsValid == Spec => []ImplementedIsValid
<1>1. Spec => []Handoff
  BY InitHandoff, HandoffStep, TypeCorrect, PhasesHold, PTL DEF Spec
<1>2. Handoff => ImplementedIsValid
  BY DEF Handoff, ValidByStatus, Submitted, HandoffValid, ImplementedIsValid
<1> QED
  BY <1>1, <1>2, PTL

(***************************************************************************)
(* Which status a handler has found, and which one it finds the item in    *)
(* now: the one it found or has itself written, unless a person has held   *)
(* the item meanwhile.                                                     *)
(***************************************************************************)
Again == {"RETRY_PENDING", "CHANGES_REQUESTED"}
Running == {"CLAIMED", "IN_PROGRESS"}

\* The statuses the handler at label l was started for.
Found(l, role, next) ==
  CASE l \in {"dispatch_claim", "dispatch_clone", "dispatch_meta", "dispatch_pack",
              "dispatch_spawn", "dispatch_done", "unwind_files", "unwind_status"} -> {"READY"}
    [] l \in {"recover_select", "recover_provider", "recover_resume", "recover_review",
              "recover_reviewing", "recover_status"} -> {"WAITING_PROVIDER"}
    [] l = "reconcile" -> Running
    [] l = "reconcile_ready" -> {"CLAIMED"}
    [] l \in {"recover_launch", "launch_settled", "launch_status"} ->
         IF next = "retry" THEN Again ELSE Running
    [] l \in {"retry", "retry_tx", "retry_pack", "retry_unlink_job", "retry_unlink_result",
              "retry_count", "retry_status", "retry_guard", "retry_restore", "retry_uncount",
              "retry_unstatus", "retry_budget"} -> Again
    [] l \in {"spawn", "spawn_job", "spawn_unit"} /\ role = "implementer" ->
         IF next = "dispatch_done" THEN {"READY"} ELSE Again
    [] l \in {"quota_mark", "queue", "queue_status"} -> {"READY"} \cup Running \cup Submitted
    [] l = "publish_hold" -> {"IMPLEMENTED"}
    [] l \in {"consume", "consume_status"} -> {"REVIEWING"}
    [] l \in {"operator_status", "operator_reviewing"} -> {"WAITING_HUMAN"}
    [] l \in {"advance_status", "int_inspect", "int_target", "int_resume", "int_merge",
              "int_base", "int_count", "int_status"} -> {"VERIFIED"}
    [] l \in {"merge_status", "merge_call", "merge_failed"} -> {"MERGE_READY"}
    [] l \in {"final_comment", "final_close", "final_status"} -> {"MERGING"}
    [] OTHER -> Statuses

\* The status the handler at label l, started for s, finds or has written.
Now(l, s, role, next) ==
  CASE l \in {"dispatch_clone", "dispatch_meta", "dispatch_pack", "dispatch_spawn",
              "dispatch_done", "unwind_files", "unwind_status"} -> "CLAIMED"
    [] l \in {"retry_guard", "retry_restore", "retry_uncount", "retry_unstatus", "retry_budget",
              "retry_spent", "retry_close"} -> "IN_PROGRESS"
    [] l \in {"spawn", "spawn_job", "spawn_unit"} /\ role = "implementer" ->
         IF next = "dispatch_done" THEN "CLAIMED" ELSE "IN_PROGRESS"
    [] l \in {"launch_closed", "int_close"} -> "RETRY_PENDING"
    [] l = "review_spent" -> "REVIEWING"
    [] l \in {"merge_call", "merge_failed"} -> "MERGING"
    [] l \in {"final_clone", "final_files"} -> "DONE"
    [] OTHER -> s

OnTrack ==
  pc # "idle" =>
    /\ act.status \in Found(pc, act.role, act.next)
    /\ item.status \in {Now(pc, act.status, act.role, act.next), Held}

\* An item that waits for a retry has no implementer running, nor has one that
\* is about to be taken back to that.
Rested == item.status = "RETRY_PENDING" \/ pc = "launch_status" => ~Active("implementer")

Track == OnTrack /\ Rested

\* The step starts no implementer and writes RETRY_PENDING only without one.
Resting ==
  /\ unit'["implementer"] \in {unit["implementer"], NoJob}
  /\ item'.status \notin {item.status, Held} /\ item'.status = "RETRY_PENDING"
       => ~Active("implementer")
  /\ pc' = "launch_status" => pc' = pc \/ ~Active("implementer")

LEMMA RestedStep == Rested /\ Resting => Rested'
  BY DEF Rested, Resting, Active, Held

LEMMA EndTrack ==
  ASSUME Track, pc' = "idle", Resting
  PROVE  Track'
  BY RestedStep DEF Track, OnTrack

\* A handler begins, in the status it finds.
LEMMA BeginTrack ==
  ASSUME Track, Resting, item'.status = item.status, act'.status = item.status,
         item.status \in Found(pc', act'.role, act'.next),
         Now(pc', item.status, act'.role, act'.next) = item.status
  PROVE  Track'
  BY RestedStep DEF Track, OnTrack

\* A handler goes on from a label to another one of the same kind.
LEMMA GoTrack ==
  ASSUME Track, Resting, pc # "idle", act'.status = act.status, item'.status = item.status,
         Found(pc, act.role, act.next) \subseteq Found(pc', act'.role, act'.next),
         Now(pc', act.status, act'.role, act'.next) = Now(pc, act.status, act.role, act.next)
  PROVE  Track'
  BY RestedStep DEF Track, OnTrack

\* A handler has written the status its next label stands for.
LEMMA WriteTrack ==
  ASSUME Track, Resting, pc # "idle", act'.status = act.status,
         Found(pc, act.role, act.next) \subseteq Found(pc', act'.role, act'.next),
         item'.status = Now(pc', act.status, act'.role, act'.next)
  PROVE  Track'
  BY RestedStep DEF Track, OnTrack

\* Around the broker a person may hold the item, and units end.
LEMMA AroundTrack ==
  ASSUME Track, UNCHANGED <<pc, act>>, item'.status \in {item.status, Held},
         unit'["implementer"] \in {unit["implementer"], NoJob}
  PROVE  Track'
<1>1. Resting
  BY DEF Resting
<1> QED
  BY <1>1, RestedStep DEF Track, OnTrack

LEMMA CooldownTrack == TypeOK /\ Track /\ UnitsByPhase /\ CooldownSteps => Track'
<1> SUFFICES ASSUME TypeOK, Track, UnitsByPhase, CooldownSteps PROVE Track'
  OBVIOUS
<1>0. /\ item \in Item /\ act \in Act /\ unit' = unit
      /\ pc \in QuietLabels => ~Active("implementer")
  BY RoleFacts
  DEF TypeOK, UnitsByPhase, UnitsByLabel, NoUnitActive, CooldownSteps, QuotaMark, QueueWait,
      QueueStatus, RecoverStart, RecoverSelect, RecoverField, RecoverResume, RecoverReview,
      RecoverReviewStatus
<1>1. CASE \/ QuotaMark \/ QueueWait \/ RecoverSelect \/ RecoverField \/ RecoverReview
  <2>1. /\ act' = act /\ item'.status = item.status
        /\ \/ pc \in {"quota_mark", "queue"} /\ pc' \in {"queue", "queue_status"}
           \/ /\ pc \in {"recover_select", "recover_provider", "recover_review"}
              /\ pc' \in {"recover_provider", "recover_resume", "recover_reviewing"}
    BY <1>0, <1>1
    DEF QuotaMark, QueueWait, RecoverSelect, RecoverField, RecoverReview, Goto, Item
  <2>2. Resting
    BY <1>0, <2>1 DEF Resting
  <2>3. /\ Found(pc, act.role, act.next) = Found(pc', act.role, act.next)
        /\ Now(pc', act.status, act.role, act.next) = Now(pc, act.status, act.role, act.next)
    BY <2>1 DEF Found, Now
  <2> QED
    BY <2>1, <2>2, <2>3, GoTrack
<1>2. CASE RecoverStart
  <2>1. /\ item.status = "WAITING_PROVIDER" /\ item' = item /\ act'.status = item.status
        /\ pc' \in {"recover_status", "recover_select", "recover_review"}
    BY <1>2 DEF RecoverStart, Payload
  <2>2. Resting
    BY <1>0, <2>1 DEF Resting
  <2> QED
    BY <2>1, <2>2, BeginTrack DEF Found, Now
<1>3. CASE QueueStatus \/ RecoverResume \/ RecoverReviewStatus
  <2>1. /\ pc' = "idle"
        /\ \/ item'.status \in {"WAITING_PROVIDER", "IMPLEMENTED"}
           \/ pc \in QuietLabels
    BY <1>0, <1>3
    DEF QueueStatus, RecoverResume, RecoverReviewStatus, Explain, SetStatus, Return, Item,
        QuietLabels
  <2> QED
    BY <1>0, <2>1, EndTrack DEF Resting
<1> QED
  BY <1>1, <1>2, <1>3 DEF CooldownSteps

\* spawn-agent starts an implementer only in a status it has a handler for.
LEMMA SpawnTrack == TypeOK /\ Track /\ UnitsByPhase /\ SpawnSteps => Track'
<1> SUFFICES ASSUME TypeOK, Track, UnitsByPhase, SpawnSteps PROVE Track'
  OBVIOUS
<1>0. /\ item \in Item /\ act \in Act /\ StatusByLabel /\ CallsByLabel /\ item' = item
      /\ unit \in [Roles -> Job] /\ act.role \in Roles /\ disk.job[act.role] \in Job
  BY DEF TypeOK, UnitsByPhase, SpawnSteps, SpawnTruncate, SpawnRefused, SpawnJob, SpawnUnit,
         Disk, Act
<1>1. CASE SpawnTruncate \/ SpawnJob
  <2>1. /\ act' = act /\ unit' = unit
        /\ pc \in {"spawn", "spawn_job"} /\ pc' \in {"spawn_job", "spawn_unit"}
    BY <1>1 DEF SpawnTruncate, SpawnJob, Goto
  <2>2. /\ Found(pc, act.role, act.next) = Found(pc', act.role, act.next)
        /\ Now(pc', act.status, act.role, act.next) = Now(pc, act.status, act.role, act.next)
    BY <2>1 DEF Found, Now
  <2> QED
    BY <1>0, <2>1, <2>2, GoTrack DEF Resting
<1>2. CASE SpawnRefused
  BY <1>0, <1>2, EndTrack DEF SpawnRefused, Return, Resting
<1>3. CASE SpawnUnit
  <2>1. /\ pc = "spawn_unit" /\ pc' = act.next /\ (act.next # "idle" => act' = act)
        /\ act.role # "implementer" => unit'["implementer"] = unit["implementer"]
    BY <1>0, <1>3, RoleFacts DEF SpawnUnit, Resume
  <2>2. OnTrack'
    <3>1. CASE act.role = "implementer"
      <4>1. act.next \in {"idle", "dispatch_done", "retry_spent"}
        BY <1>0, <2>1, <3>1 DEF CallsByLabel, SpawnLabels
      <4>2. act.next # "idle" =>
              /\ act.status \in Found(act.next, act.role, act.next)
              /\ Now(act.next, act.status, act.role, act.next)
                   = Now(pc, act.status, act.role, act.next)
        BY <1>0, <2>1, <3>1, <4>1 DEF Track, OnTrack, Found, Now, Act
      <4> QED
        BY <1>0, <2>1, <4>2 DEF Track, OnTrack
    <3>2. CASE act.role # "implementer"
      <4>1. act.next \in {"review_security", "review_status", "review_note"}
        BY <1>0, <2>1, <3>2 DEF CallsByLabel, SpawnLabels
      <4>2. /\ act.status \in Found(act.next, act.role, act.next)
            /\ Now(act.next, act.status, act.role, act.next) = act.status
            /\ Now(pc, act.status, act.role, act.next) = act.status
        BY <1>0, <2>1, <3>2, <4>1 DEF Found, Now, Act
      <4> QED
        BY <1>0, <2>1, <4>1, <4>2 DEF Track, OnTrack
    <3> QED
      BY <3>1, <3>2
  <2>3. Rested'
    <3>1. pc' # "launch_status"
      BY <1>0, <2>1 DEF CallsByLabel, SpawnLabels
    <3>2. CASE act.role = "implementer"
      BY <1>0, <2>1, <3>1, <3>2 DEF Rested, StatusByLabel, SpawnLabels
    <3>3. CASE act.role # "implementer"
      BY <1>0, <2>1, <3>1, <3>3 DEF Rested, Track, Active
    <3> QED
      BY <3>2, <3>3
  <2> QED
    BY <2>2, <2>3 DEF Track
<1> QED
  BY <1>1, <1>2, <1>3 DEF SpawnSteps

LEMMA DispatchTrack == TypeOK /\ Track /\ UnitsByPhase /\ DispatchSteps => Track'
<1> SUFFICES ASSUME TypeOK, Track, UnitsByPhase, DispatchSteps PROVE Track'
  OBVIOUS
<1>0. item \in Item /\ act \in Act /\ unit' = unit
  BY DEF TypeOK, DispatchSteps, DispatchStart, DispatchClaim, DispatchStale, DispatchClone,
         DispatchMeta, DispatchPack, DispatchSpawn, DispatchDone, DispatchFails, UnwindFiles,
         UnwindStatus
<1>1. CASE DispatchStart
  <2>1. /\ item.status = "READY" /\ item' = item /\ act'.status = item.status
        /\ pc' \in {"queue", "dispatch_claim"}
    <3>1. /\ item.status = "READY" /\ item' = item
          /\ \/ Queue(Payload, "queue", "implementer", item.provider, "READY")
             \/ Accept("dispatch_claim")
      BY <1>1 DEF DispatchStart
    <3>2. Queue(Payload, "queue", "implementer", item.provider, "READY")
            => pc' = "queue" /\ act'.status = item.status
      BY DEF Queue, Payload
    <3>3. Accept("dispatch_claim") => pc' = "dispatch_claim" /\ act'.status = item.status
      BY DEF Accept, Payload
    <3> QED
      BY <3>1, <3>2, <3>3
  <2> QED
    BY <1>0, <2>1, BeginTrack DEF Found, Now, Resting
<1>2. CASE DispatchClaim
  <2>1. /\ pc = "dispatch_claim" /\ pc' = "dispatch_clone" /\ act' = act
        /\ item'.status = "CLAIMED"
    BY <1>0, <1>2 DEF DispatchClaim, SetStatus, Goto, Item
  <2> QED
    BY <1>0, <2>1, WriteTrack DEF Found, Now, Resting
<1>3. CASE DispatchStale \/ DispatchDone \/ UnwindStatus
  <2>1. pc' = "idle" /\ item'.status \in {item.status, "IN_PROGRESS", "READY"}
    BY <1>0, <1>3 DEF DispatchStale, DispatchDone, UnwindStatus, SetStatus, Return, Item
  <2> QED
    BY <1>0, <2>1, EndTrack DEF Resting
<1>4. CASE DispatchClone \/ DispatchMeta \/ DispatchPack \/ DispatchFails \/ UnwindFiles
  <2>1. /\ pc \in {"dispatch_clone", "dispatch_meta", "dispatch_pack", "dispatch_spawn",
                    "unwind_files"}
        /\ pc' \in {"dispatch_meta", "dispatch_pack", "dispatch_spawn", "unwind_files",
                     "unwind_status"}
        /\ act' = act /\ item' = item
    BY <1>4 DEF DispatchClone, DispatchMeta, DispatchPack, DispatchFails, UnwindFiles, Goto
  <2> QED
    BY <1>0, <2>1, GoTrack DEF Found, Now, Resting
<1>5. CASE DispatchSpawn
  <2>1. /\ pc = "dispatch_spawn" /\ item' = item /\ act'.status = act.status
        /\ \/ pc' = "spawn" /\ act'.role = "implementer" /\ act'.next = "dispatch_done"
           \/ pc' = "unwind_files"
    BY <1>0, <1>5 DEF DispatchSpawn, SpawnAgent, Goto, Act
  <2> QED
    BY <1>0, <2>1, GoTrack DEF Found, Now, Resting
<1> QED
  BY <1>1, <1>2, <1>3, <1>4, <1>5 DEF DispatchSteps

LEMMA LaunchTrack == TypeOK /\ Track /\ UnitsByPhase /\ LaunchSteps => Track'
<1> SUFFICES ASSUME TypeOK, Track, UnitsByPhase, LaunchSteps PROVE Track'
  OBVIOUS
<1>0. item \in Item /\ act \in Act /\ unit' = unit /\ CallsByLabel
  BY DEF TypeOK, UnitsByPhase, LaunchSteps, LaunchSpent, LaunchSettled, LaunchRestored,
         LaunchStatus, LaunchClosed, LaunchKept
<1>1. CASE LaunchSpent \/ LaunchSettled \/ LaunchRestored
  <2>1. /\ pc \in {"recover_launch", "launch_settled"} /\ act' = act /\ item' = item
        /\ pc' \in {"launch_settled", "launch_status", act.next}
        /\ pc' = "launch_status" => ~Active("implementer")
    BY <1>0, <1>1 DEF LaunchSpent, LaunchSettled, LaunchRestored, Goto, CallsByLabel
  <2>2. act.next \in {"reconcile", "retry"}
    BY <1>0, <2>1 DEF CallsByLabel
  <2> QED
    BY <1>0, <2>1, <2>2, GoTrack DEF Found, Now, Resting
<1>2. CASE LaunchStatus
  <2>1. /\ pc = "launch_status" /\ pc' = "launch_closed" /\ act' = act
        /\ item'.status = "RETRY_PENDING" /\ ~Active("implementer")
    BY <1>0, <1>2 DEF LaunchStatus, SetStatus, Goto, Item, Track, Rested
  <2> QED
    BY <1>0, <2>1, WriteTrack DEF Found, Now, Resting, Again, Running, Statuses
<1>3. CASE LaunchClosed \/ LaunchKept
  BY <1>0, <1>3, EndTrack DEF LaunchClosed, LaunchKept, Return, Resting
<1> QED
  BY <1>1, <1>2, <1>3 DEF LaunchSteps

LEMMA StartTrack ==
  ASSUME Track, NEW statuses, NEW l \in {"reconcile", "retry"},
         statuses = IF l = "retry" THEN Again ELSE Running, ImplementationStart(statuses, l)
  PROVE  Track'
<1>1. /\ UNCHANGED <<item, unit>> /\ item.status \in statuses /\ act'.status = item.status
      /\ pc' \in {"recover_launch", l} /\ act'.next = l
  BY DEF ImplementationStart, Payload
<1> QED
  BY <1>1, BeginTrack DEF Found, Now, Resting

LEMMA ReconcileTrack == TypeOK /\ Track /\ UnitsByPhase /\ ReconcileSteps => Track'
<1> SUFFICES ASSUME TypeOK, Track, UnitsByPhase, ReconcileSteps PROVE Track'
  OBVIOUS
<1>0. item \in Item /\ act \in Act /\ unit' = unit /\ UnitsRecorded
  BY DEF TypeOK, UnitsByPhase, ReconcileSteps, ReconcileStart, ImplementationStart,
         ReconcileAbandoned, ReconcileReady, ReconcileQuota, ReconcileFailure, ReconcileSuccess,
         ReconcileNothing
<1>1. CASE ReconcileStart
  BY <1>1, StartTrack DEF ReconcileStart, Running
<1>2. CASE ReconcileAbandoned \/ ReconcileFailure
  <2>1. /\ pc = "reconcile" /\ ~Active("implementer") /\ item'.status \in Statuses
        /\ \/ pc' = "idle"
           \/ pc' = "reconcile_ready" /\ item' = item /\ act' = act /\ act.status = "CLAIMED"
    BY <1>0, <1>2
    DEF ReconcileAbandoned, ReconcileFailure, WorkerEnded, UnitsRecorded, SetStatus, Explain,
        Return, Goto, Item, Statuses
  <2>2. Resting
    BY <1>0, <2>1 DEF Resting
  <2>3. CASE pc' = "idle"
    BY <2>2, <2>3, EndTrack
  <2>4. CASE pc' = "reconcile_ready" /\ item' = item /\ act' = act /\ act.status = "CLAIMED"
    <3>1. item.status \in {act.status, Held}
      BY <2>1 DEF Track, OnTrack, Now
    <3> QED
      BY <2>2, <2>4, <3>1, RestedStep DEF Track, OnTrack, Found, Now
  <2> QED
    BY <2>1, <2>3, <2>4
<1>3. CASE ReconcileReady \/ ReconcileSuccess \/ ReconcileNothing
  <2>1. pc' = "idle" /\ item'.status \in {item.status, "READY", "IMPLEMENTED"}
    BY <1>0, <1>3
    DEF ReconcileReady, ReconcileSuccess, ReconcileNothing, SetStatus, Explain, Return, Item
  <2> QED
    BY <1>0, <2>1, EndTrack DEF Resting
<1>4. CASE ReconcileQuota
  <2>1. pc = "reconcile" /\ pc' = "quota_mark" /\ item' = item /\ act'.status = act.status
    BY <1>0, <1>4 DEF ReconcileQuota, Queue, Act
  <2> QED
    BY <1>0, <2>1, GoTrack DEF Found, Now, Resting
<1> QED
  BY <1>1, <1>2, <1>3, <1>4 DEF ReconcileSteps

LEMMA RetryTrack == TypeOK /\ Track /\ UnitsByPhase /\ RetrySteps => Track'
<1> SUFFICES ASSUME TypeOK, Track, UnitsByPhase, RetrySteps PROVE Track'
  OBVIOUS
<1>0. /\ item \in Item /\ act \in Act /\ unit' = unit
      /\ pc \in QuietLabels => ~Active("implementer")
  BY RoleFacts
  DEF TypeOK, UnitsByPhase, UnitsByLabel, NoUnitActive, RetrySteps, RetryStart,
      ImplementationStart, RetryLimit, RetryPrepare, RetryRefused, RetryTx, RetryPack,
      RetryUnlinkJob, RetryUnlinkResult, RetryCount, RetryStatus, RetryGuard, RetryGuardFails,
      RetryRestore, RetryUncount, RetryUnstatus, RetryBudget, RetrySpent, RetryClose
<1>1. CASE RetryStart
  BY <1>1, StartTrack DEF RetryStart, Again
<1>2. CASE \/ RetryPrepare \/ RetryTx \/ RetryPack \/ RetryUnlinkJob \/ RetryUnlinkResult
           \/ RetryCount
  <2>1. /\ item'.status = item.status /\ act'.status = act.status
        /\ pc \in {"retry", "retry_tx", "retry_pack", "retry_unlink_job", "retry_unlink_result",
                    "retry_count"}
        /\ pc' \in {"retry_tx", "retry_pack", "retry_unlink_job", "retry_unlink_result",
                     "retry_count", "retry_status"}
    BY <1>0, <1>2
    DEF RetryPrepare, RetryTx, RetryPack, RetryUnlinkJob, RetryUnlinkResult, RetryCount, Goto,
        Item, Act
  <2> QED
    BY <1>0, <2>1, GoTrack DEF Found, Now, Resting
<1>3. CASE RetryStatus
  <2>1. /\ pc = "retry_status" /\ pc' = "retry_guard" /\ act' = act
        /\ item'.status = "IN_PROGRESS"
    BY <1>0, <1>3 DEF RetryStatus, SetStatus, Goto, Item
  <2> QED
    BY <1>0, <2>1, WriteTrack DEF Found, Now, Resting
<1>4. CASE \/ RetryGuardFails \/ RetryUncount \/ RetrySpent
           \/ (RetryRestore /\ pc' # "idle")
  <2>1. /\ item'.status = item.status /\ act' = act
        /\ \/ /\ pc \in {"retry_guard", "retry_restore", "retry_uncount"}
              /\ pc' \in {"retry_restore", "retry_uncount", "retry_unstatus"}
           \/ pc = "retry_spent" /\ pc' = "retry_close"
    BY <1>0, <1>4
    DEF RetryGuardFails, RetryUncount, RetrySpent, RetryRestore, Goto, Return, Item
  <2> QED
    BY <1>0, <2>1, GoTrack DEF Found, Now, Resting
<1>5. CASE RetryGuard \/ RetryBudget
  <2>1. /\ item' = item /\ act'.status = act.status /\ pc \in {"retry_guard", "retry_budget"}
        /\ \/ pc' = "retry_budget"
           \/ /\ pc' = "spawn" /\ act'.role = "implementer"
              /\ act'.next \in {"retry_spent", "idle"}
    BY <1>0, <1>5 DEF RetryGuard, RetryBudget, SpawnAgent, Goto, Act
  <2> QED
    BY <1>0, <2>1, GoTrack DEF Found, Now, Resting
<1>6. CASE \/ RetryLimit \/ RetryRefused \/ RetryUnstatus \/ RetryClose
           \/ (RetryRestore /\ pc' = "idle")
  <2>1. /\ pc' = "idle"
        /\ item'.status \in {item.status, "WAITING_HUMAN"} \/ pc \in QuietLabels
    BY <1>0, <1>6
    DEF RetryLimit, RetryRefused, RetryUnstatus, RetryClose, RetryRestore, SetStatus, Explain,
        Return, Item, QuietLabels
  <2> QED
    BY <1>0, <2>1, EndTrack DEF Resting
<1> QED
  BY <1>1, <1>2, <1>3, <1>4, <1>5, <1>6 DEF RetrySteps

LEMMA ResumeTrack ==
  TypeOK /\ Track /\ UnitsByPhase /\ (ResumeStart \/ ResumeStatus) => Track'
<1> SUFFICES ASSUME TypeOK, Track, UnitsByPhase, ResumeStart \/ ResumeStatus PROVE Track'
  OBVIOUS
<1>0. item \in Item /\ act \in Act /\ unit' = unit
  BY DEF TypeOK, ResumeStart, ResumeStatus
<1>1. CASE ResumeStart
  <2>1. /\ item.status = "WAITING_HUMAN" /\ item'.status = item.status
        /\ act'.status = item.status /\ pc' = "operator_status"
    BY <1>0, <1>1 DEF ResumeStart, Accept, Payload, Item
  <2> QED
    BY <1>0, <2>1, BeginTrack DEF Found, Now, Resting
<1>2. CASE ResumeStatus
  <2>1. pc = "operator_status" /\ pc' = "idle" /\ ~Active("implementer")
    BY <1>2, RoleFacts
    DEF ResumeStatus, Return, UnitsByPhase, UnitsByLabel, QuietLabels, NoUnitActive
  <2> QED
    BY <1>0, <2>1, EndTrack DEF Resting
<1> QED
  BY <1>1, <1>2

LEMMA PublishTrack == TypeOK /\ Track /\ PublishSteps => Track'
<1> SUFFICES ASSUME TypeOK, Track, PublishSteps PROVE Track'
  OBVIOUS
<1>0. item \in Item /\ act \in Act /\ unit' = unit
  BY DEF TypeOK, PublishSteps, PublishStart, PublishHold, PublishPush, PublishPr
<1>1. CASE PublishStart
  <2>1. /\ item.status = "IMPLEMENTED" /\ item' = item /\ act'.status = item.status
        /\ pc' \in {"publish_pr", "publish_push", "publish_hold"}
    BY <1>1 DEF PublishStart, Accept, Payload
  <2> QED
    BY <1>0, <2>1, BeginTrack DEF Found, Now, Resting, Statuses
<1>2. CASE PublishHold \/ PublishPush \/ PublishPr
  <2>1. /\ item'.status \in {item.status, "WAITING_HUMAN"}
        /\ \/ pc' = "idle"
           \/ pc = "publish_push" /\ pc' = "publish_pr" /\ act' = act /\ item' = item
    BY <1>0, <1>2 DEF PublishHold, PublishPush, PublishPr, SetStatus, Goto, Return, Item
  <2>2. Resting
    BY <1>0, <2>1 DEF Resting
  <2>3. pc = "publish_push" /\ pc' = "publish_pr" =>
          /\ Found(pc, act.role, act.next) = Found(pc', act.role, act.next)
          /\ Now(pc', act.status, act.role, act.next) = Now(pc, act.status, act.role, act.next)
    BY DEF Found, Now
  <2> QED
    BY <2>1, <2>2, <2>3, EndTrack, GoTrack
<1> QED
  BY <1>1, <1>2 DEF PublishSteps

\* The labels of a review find the status they were started for.
LEMMA SpawnReviewTrack == TypeOK /\ Track /\ UnitsByPhase /\ SpawnReviewSteps => Track'
<1> SUFFICES ASSUME TypeOK, Track, UnitsByPhase, SpawnReviewSteps PROVE Track'
  OBVIOUS
<1>0. item \in Item /\ act \in Act /\ UNCHANGED <<item, unit>> /\ CallsByLabel
  BY DEF TypeOK, UnitsByPhase, SpawnReviewSteps, ReviewCheck, ReviewMeta, ReviewPack,
         ReviewUnlinkResult, ReviewUnlinkJob
<1>1. pc \in SpawnReviewLabels
  BY DEF SpawnReviewSteps, ReviewCheck, ReviewMeta, ReviewPack, ReviewUnlinkResult,
         ReviewUnlinkJob, SpawnReviewLabels
<1>2. /\ act.next \in {"review_security", "review_status", "review_note"}
      /\ act.role # "implementer"
  BY <1>0, <1>1, RoleFacts DEF CallsByLabel
<1>3. \/ pc' = "idle"
      \/ /\ act'.status = act.status
         /\ \/ pc' \in SpawnReviewLabels \cup {act.next}
            \/ pc' = "spawn" /\ act'.role = act.role
  <2>1. CASE ReviewCheck
    BY <2>1 DEF ReviewCheck, Resume, Return, Goto, SpawnReviewLabels
  <2>2. CASE ReviewMeta
    BY <1>0, <2>2 DEF ReviewMeta, SpawnAgent, Goto, Act, SpawnReviewLabels
  <2>3. CASE ReviewPack \/ ReviewUnlinkResult \/ ReviewUnlinkJob
    BY <2>3 DEF ReviewPack, ReviewUnlinkResult, ReviewUnlinkJob, Goto, SpawnReviewLabels
  <2> QED
    BY <2>1, <2>2, <2>3 DEF SpawnReviewSteps
<1>4. Resting
  BY <1>0, <1>2, <1>3 DEF Resting, SpawnReviewLabels
<1>5. CASE pc' # "idle"
  <2>1. Found(pc', act'.role, act'.next) = Statuses
    BY <1>2, <1>3, <1>5 DEF Found, SpawnReviewLabels
  <2>2. /\ Now(pc', act.status, act'.role, act'.next) = act.status
        /\ Now(pc, act.status, act.role, act.next) = act.status
    BY <1>1, <1>2, <1>3, <1>5 DEF Now, SpawnReviewLabels
  <2>3. Found(pc, act.role, act.next) = Statuses /\ pc # "idle"
    BY <1>1 DEF Found, SpawnReviewLabels
  <2> QED
    BY <1>0, <1>3, <1>4, <1>5, <2>1, <2>2, <2>3, GoTrack
<1> QED
  BY <1>4, <1>5, EndTrack

\* CallReview goes on with the status of the payload it is given.
LEMMA CallTrack ==
  ASSUME Track, NEW a, NEW role, NEW provider, NEW tries, NEW recovery, NEW next,
         CallReview(a, role, provider, tries, recovery, next),
         DOMAIN a = DOMAIN NoAct, UNCHANGED <<item, unit>>,
         a.status \in Statuses, item.status \in {a.status, Held}
  PROVE  Track'
<1>1. pc' = "review_check" /\ act'.status = a.status
  BY DEF CallReview, NoAct
<1>2. Resting
  BY <1>1 DEF Resting
<1> QED
  BY <1>1, <1>2, RestedStep DEF Track, OnTrack, Found, Now

LEMMA DispatchReviewTrack == TypeOK /\ Track /\ DispatchReviewSteps => Track'
<1> SUFFICES ASSUME TypeOK, Track, DispatchReviewSteps PROVE Track'
  OBVIOUS
<1>0. /\ item \in Item /\ act \in Act /\ unit' = unit
      /\ DOMAIN Payload = DOMAIN NoAct /\ DOMAIN act = DOMAIN NoAct
      /\ Payload.status = item.status /\ item.status \in Statuses /\ act.status \in Statuses
  BY DEF TypeOK, Item, Act, Payload, NoAct, DispatchReviewSteps, DispatchReview, DispatchSecurity,
         DispatchRecovery, ReviewWait, ReviewStatus, ReviewSpent
<1>1. CASE DispatchReview
  <2>1. item.status = "IMPLEMENTED" /\ UNCHANGED item
    BY <1>1 DEF DispatchReview, ReviewReady
  <2>2. PICK provider, next :
          \/ Queue(Payload, "queue", "reviewer", item.provider, "IMPLEMENTED")
          \/ CallReview(Payload, "reviewer", provider, 0, 0, next)
    BY <1>1 DEF DispatchReview
  <2>3. CASE Queue(Payload, "queue", "reviewer", item.provider, "IMPLEMENTED")
    <3>1. pc' = "queue" /\ act'.status = "IMPLEMENTED"
      BY <1>0, <2>1, <2>3 DEF Queue, Payload
    <3> QED
      BY <1>0, <2>1, <3>1, BeginTrack DEF Found, Now, Resting, Submitted
  <2>4. CASE CallReview(Payload, "reviewer", provider, 0, 0, next)
    BY <1>0, <2>1, <2>4, CallTrack
  <2> QED
    BY <2>2, <2>3, <2>4
<1>2. CASE DispatchSecurity
  <2>1. pc = "review_security" /\ UNCHANGED item
    BY <1>2 DEF DispatchSecurity
  <2>2. item.status \in {act.status, Held}
    BY <2>1 DEF Track, OnTrack, Now
  <2>3. PICK provider :
          Return \/ CallReview(act, "security-reviewer", provider, 0, 0, "review_status")
    BY <1>2 DEF DispatchSecurity
  <2>4. CASE Return
    BY <1>0, <2>1, <2>4, EndTrack DEF Return, Resting
  <2>5. CASE CallReview(act, "security-reviewer", provider, 0, 0, "review_status")
    BY <1>0, <2>1, <2>2, <2>5, CallTrack
  <2> QED
    BY <2>3, <2>4, <2>5
<1>3. CASE DispatchRecovery
  <2>1. item.status = "IMPLEMENTED" /\ UNCHANGED item
    BY <1>3 DEF DispatchRecovery, ReviewReady
  <2>2. PICK role, provider, tries :
          \/ Accept("review_wait")
          \/ CallReview([Payload EXCEPT !.quota = TRUE], role, provider, tries,
                        disk.wait.recovery, "review_status")
    BY <1>3 DEF DispatchRecovery
  <2>3. CASE Accept("review_wait")
    <3>1. pc' = "review_wait" /\ act'.status = item.status
      BY <1>0, <2>3 DEF Accept
    <3> QED
      BY <1>0, <2>1, <3>1, BeginTrack DEF Found, Now, Resting
  <2>4. CASE CallReview([Payload EXCEPT !.quota = TRUE], role, provider, tries,
                        disk.wait.recovery, "review_status")
    <3>1. /\ [Payload EXCEPT !.quota = TRUE].status = item.status
          /\ DOMAIN [Payload EXCEPT !.quota = TRUE] = DOMAIN NoAct
      BY <1>0 DEF Payload, NoAct
    <3> QED
      BY <1>0, <2>1, <2>4, <3>1, CallTrack
  <2> QED
    BY <2>2, <2>3, <2>4
<1>4. CASE ReviewWait \/ ReviewSpent
  <2>1. pc' = "idle" /\ item'.status \in {item.status, "WAITING_PROVIDER"}
    BY <1>0, <1>4 DEF ReviewWait, ReviewSpent, SetStatus, Return, Item
  <2> QED
    BY <1>0, <2>1, EndTrack DEF Resting
<1>5. CASE ReviewStatus
  <2>1. /\ pc = "review_status" /\ item'.status = "REVIEWING"
        /\ pc' = "idle" \/ (pc' = "review_spent" /\ act' = act)
    BY <1>0, <1>5 DEF ReviewStatus, SetStatus, Return, Goto, Item
  <2>2. Resting
    BY <1>0, <2>1 DEF Resting
  <2>3. pc' = "review_spent" =>
          /\ Found(pc, act.role, act.next) \subseteq Found(pc', act.role, act.next)
          /\ Now(pc', act.status, act.role, act.next) = "REVIEWING"
    BY <2>1 DEF Found, Now
  <2> QED
    BY <2>1, <2>2, <2>3, EndTrack, WriteTrack
<1> QED
  BY <1>1, <1>2, <1>3, <1>4, <1>5 DEF DispatchReviewSteps

LEMMA ConsumeTrack == TypeOK /\ Track /\ ConsumeSteps => Track'
<1> SUFFICES ASSUME TypeOK, Track, ConsumeSteps PROVE Track'
  OBVIOUS
<1>0. /\ item \in Item /\ act \in Act /\ unit' = unit
      /\ DOMAIN act = DOMAIN NoAct /\ act.status \in Statuses
  BY DEF TypeOK, Act, NoAct, ConsumeSteps, ConsumeStart, ConsumeVerdict, ConsumeStatus,
         RetryReview, ReviewNote, ConsumeNothing
<1>1. CASE ConsumeStart
  <2>1. /\ item.status = "REVIEWING" /\ item' = item /\ act'.status = item.status
        /\ pc' = "consume"
    BY <1>1 DEF ConsumeStart, Payload
  <2> QED
    BY <1>0, <2>1, BeginTrack DEF Found, Now, Resting
<1>2. CASE ConsumeVerdict
  <2>1. /\ pc = "consume" /\ item' = item /\ act'.status = act.status
        /\ pc' \in {"consume", "consume_status"}
    BY <1>0, <1>2 DEF ConsumeVerdict, Goto, Act
  <2> QED
    BY <1>0, <2>1, GoTrack DEF Found, Now, Resting
<1>3. CASE ConsumeStatus \/ ReviewNote \/ ConsumeNothing
  <2>1. /\ pc' = "idle"
        /\ item'.status \in {item.status, "CHANGES_REQUESTED", "VERIFIED"}
    BY <1>0, <1>3 DEF ConsumeStatus, ReviewNote, ConsumeNothing, SetStatus, Return, Item
  <2> QED
    BY <1>0, <2>1, EndTrack DEF Resting
<1>4. CASE RetryReview
  <2>1. pc = "consume" /\ item.status \in {act.status, Held}
    BY <1>4 DEF RetryReview, Track, OnTrack, Now
  <2>2. PICK provider, tries :
          \/ Queue(act, "quota_mark", act.role, provider, "REVIEWING") /\ item' = item
          \/ Explain("process", "WAITING_HUMAN") /\ Return
          \/ CallReview(act, act.role, provider, tries, 0, "review_note") /\ item' = item
    BY <1>4 DEF RetryReview
  <2>3. CASE Queue(act, "quota_mark", act.role, provider, "REVIEWING") /\ item' = item
    <3>1. pc' = "quota_mark" /\ act'.status = act.status /\ act.status = "REVIEWING"
      BY <1>0, <2>1, <2>3 DEF Queue, Act, Track, OnTrack, Found
    <3>2. Resting
      BY <1>0, <2>3, <3>1 DEF Resting
    <3> QED
      BY <2>1, <2>3, <3>1, <3>2, RestedStep DEF Track, OnTrack, Found, Now, Submitted
  <2>4. CASE Explain("process", "WAITING_HUMAN") /\ Return
    <3>1. item'.status = "WAITING_HUMAN" /\ pc' = "idle"
      BY <1>0, <2>4 DEF Explain, Return, Item
    <3> QED
      BY <1>0, <3>1, EndTrack DEF Resting
  <2>5. CASE CallReview(act, act.role, provider, tries, 0, "review_note") /\ item' = item
    BY <1>0, <2>1, <2>5, CallTrack
  <2> QED
    BY <2>2, <2>3, <2>4, <2>5
<1> QED
  BY <1>1, <1>2, <1>3, <1>4 DEF ConsumeSteps

LEMMA OperatorTrack == TypeOK /\ Track /\ OperatorSteps => Track'
<1> SUFFICES ASSUME TypeOK, Track, OperatorSteps PROVE Track'
  OBVIOUS
<1>0. item \in Item /\ item.status \in Statuses /\ unit' = unit
  BY DEF TypeOK, Item, OperatorSteps, ResumeReview, ReconcileWaitingResult, OperatorReviewing,
         RecordHost, RecordReport
<1>1. CASE OperatorStart
  <2>1. /\ item.status = "WAITING_HUMAN" /\ item'.status = item.status
        /\ act'.status = item.status /\ pc' = "operator_reviewing"
    BY <1>0, <1>1 DEF OperatorStart, Accept, Payload, Item
  <2> QED
    BY <1>0, <2>1, BeginTrack DEF Found, Now, Resting
<1>2. CASE RecordHost
  <2>1. item' = item /\ act'.status = item.status /\ pc' = "operator_report"
    BY <1>2 DEF RecordHost, Accept, Payload
  <2> QED
    BY <1>0, <2>1, BeginTrack DEF Found, Now, Resting
<1>3. CASE OperatorReviewing \/ RecordReport
  <2>1. pc' = "idle" /\ item'.status \in {item.status, "REVIEWING"}
    BY <1>0, <1>3 DEF OperatorReviewing, RecordReport, SetStatus, Return, Item
  <2> QED
    BY <1>0, <2>1, EndTrack DEF Resting
<1> QED
  BY <1>1, <1>2, <1>3 DEF OperatorSteps, ResumeReview, ReconcileWaitingResult

LEMMA IntegrateTrack == TypeOK /\ Track /\ UnitsByPhase /\ IntegrateSteps => Track'
<1> SUFFICES ASSUME TypeOK, Track, UnitsByPhase, IntegrateSteps PROVE Track'
  OBVIOUS
<1>0. item \in Item /\ act \in Act /\ unit' = unit
  BY DEF TypeOK, IntegrateSteps, IntegrateStart, IntegrateInspect, IntegrateTarget,
         IntegrateMerge, IntegrateBase, IntegrateCount, IntegrateStatus, IntegrateClose
<1>1. CASE IntegrateStart
  <2>1. /\ item.status = "VERIFIED" /\ item' = item /\ act'.status = item.status
        /\ pc' \in {"int_inspect", "int_resume", "int_target"}
    BY <1>1 DEF IntegrateStart, Accept, Payload
  <2> QED
    BY <1>0, <2>1, BeginTrack DEF Found, Now, Resting
<1>2. CASE IntegrateTarget \/ IntegrateMerge \/ IntegrateBase \/ IntegrateCount
  <2>1. /\ item'.status = item.status /\ act' = act
        /\ pc \in {"int_target", "int_merge", "int_resume", "int_base", "int_count"}
        /\ pc' \in {"int_merge", "int_base", "int_count", "int_status"}
    BY <1>0, <1>2 DEF IntegrateTarget, IntegrateMerge, IntegrateBase, IntegrateCount, Goto, Item
  <2> QED
    BY <1>0, <2>1, GoTrack DEF Found, Now, Resting
<1>3. CASE IntegrateInspect \/ IntegrateClose
  <2>1. pc' = "idle" /\ item'.status \in {item.status, "WAITING_HUMAN"}
    BY <1>0, <1>3 DEF IntegrateInspect, IntegrateClose, Explain, Return, Item
  <2> QED
    BY <1>0, <2>1, EndTrack DEF Resting
<1>4. CASE IntegrateStatus
  <2>1. /\ pc = "int_status" /\ pc' = "int_close" /\ act' = act
        /\ item'.status = "RETRY_PENDING"
    BY <1>0, <1>4 DEF IntegrateStatus, SetStatus, Goto, Item
  <2>2. ~Active("implementer")
    BY <2>1, RoleFacts DEF UnitsByPhase, UnitsByLabel, QuietLabels, NoUnitActive
  <2> QED
    BY <1>0, <2>1, <2>2, WriteTrack DEF Found, Now, Resting, Statuses
<1> QED
  BY <1>1, <1>2, <1>3, <1>4 DEF IntegrateSteps

LEMMA MergeGateTrack == TypeOK /\ Track /\ UnitsByPhase /\ MergeGateSteps => Track'
<1> SUFFICES ASSUME TypeOK, Track, UnitsByPhase, MergeGateSteps PROVE Track'
  OBVIOUS
<1>0. item \in Item /\ act \in Act
  BY DEF TypeOK
<1>1. CASE AdvanceStart \/ MergeStart \/ FinalizeStart
  <2>1. /\ UNCHANGED <<item, unit>> /\ act'.status = item.status
        /\ \/ item.status = "VERIFIED" /\ pc' = "advance_status"
           \/ item.status = "MERGE_READY" /\ pc' = "merge_status"
           \/ item.status = "MERGING" /\ pc' = "final_comment"
    BY <1>1 DEF AdvanceStart, MergeStart, FinalizeStart, Accept, Payload
  <2> QED
    BY <1>0, <2>1, BeginTrack DEF Found, Now, Resting
<1>2. CASE \/ AdvanceStatus \/ MergeCall \/ MergeReverts \/ MergeAmbiguous \/ FinalizeFiles
  <2>1. /\ pc' = "idle" /\ item'.status \in {item.status, "MERGE_READY"} /\ unit' = unit
    BY <1>0, <1>2
    DEF AdvanceStatus, MergeCall, MergeReverts, MergeAmbiguous, FinalizeFiles, SetStatus, Return,
        Item
  <2> QED
    BY <1>0, <2>1, EndTrack DEF Resting
<1>3. CASE IntegrateSteps
  BY <1>3, IntegrateTrack
<1>4. CASE MergeStatus \/ FinalizeStatus
  <2>1. /\ act' = act /\ unit' = unit
        /\ \/ pc = "merge_status" /\ pc' = "merge_call" /\ item'.status = "MERGING"
           \/ pc = "final_status" /\ pc' = "final_clone" /\ item'.status = "DONE"
    BY <1>0, <1>4 DEF MergeStatus, FinalizeStatus, SetStatus, Explain, Goto, Item
  <2> QED
    BY <1>0, <2>1, WriteTrack DEF Found, Now, Resting, Statuses
<1>5. CASE MergeRefused \/ FinalizeComment \/ FinalizeClose \/ FinalizeClone
  <2>1. /\ UNCHANGED <<act, item, unit>>
        /\ \/ pc = "merge_call" /\ pc' = "merge_failed"
           \/ pc \in {"final_comment", "final_close"} /\ pc' \in {"final_close", "final_status"}
           \/ pc = "final_clone" /\ pc' = "final_files"
    BY <1>0, <1>5 DEF MergeRefused, FinalizeComment, FinalizeClose, FinalizeClone, Goto
  <2> QED
    BY <1>0, <2>1, GoTrack DEF Found, Now, Resting
<1> QED
  BY <1>1, <1>2, <1>3, <1>4, <1>5 DEF MergeGateSteps, MergeSteps, FinalizeSteps

\* The environment ends units and holds items, and leaves the broker alone.
LEMMA EnvironmentMoves ==
  ASSUME TypeOK,
         WorkerSteps \/ CooldownEnvironment \/ ReviewEnvironment \/ GitHubSteps \/ UNCHANGED vars
  PROVE  /\ UNCHANGED <<pc, act>>
         /\ item' = item \/ item'.status = Held
         /\ \A r \in Roles : unit'[r] \in {unit[r], NoJob}
<1>0. unit \in [Roles -> Job] /\ item \in Item
  BY DEF TypeOK
<1>1. UNCHANGED <<pc, act>> /\ (item' = item \/ item'.status = Held)
  BY <1>0
  DEF WorkerSteps, WorkerCommits, ImplementerSucceeds, ImplementerMisreports, ReviewerDecides,
      WorkerFails, WorkerQuota, UnitKilled, CooldownEnvironment, OtherIssueQuota, CooldownEnds,
      ReviewEnvironment, ProtocolFix, GitHubSteps, HumanPush, BaseAdvances, CiReports, HumanHold,
      SetStatus, Item, Held, vars
<1>2. \A r \in Roles : unit'[r] \in {unit[r], NoJob}
  <2>1. CASE CooldownEnvironment \/ ReviewEnvironment \/ GitHubSteps \/ UNCHANGED vars
    BY <2>1
    DEF CooldownEnvironment, OtherIssueQuota, CooldownEnds, ReviewEnvironment, ProtocolFix,
        GitHubSteps, HumanPush, BaseAdvances, CiReports, HumanHold, vars
  <2>2. CASE WorkerSteps
    BY <1>0, <2>2
    DEF WorkerSteps, WorkerCommits, ImplementerSucceeds, ImplementerMisreports, ReviewerDecides,
        WorkerFails, WorkerQuota, UnitKilled, UnitEnds
  <2> QED
    BY <2>1, <2>2
<1> QED
  BY <1>1, <1>2

LEMMA InitTrack == Init => Track
  BY DEF Init, Track, OnTrack, Rested, Active

LEMMA TrackStep == TypeOK /\ UnitsByPhase /\ Track /\ [Next]_vars => Track'
<1> SUFFICES ASSUME TypeOK, UnitsByPhase, Track, [Next]_vars PROVE Track'
  OBVIOUS
<1>1. CASE ImplementationSteps
  BY <1>1, DispatchTrack, LaunchTrack, ReconcileTrack, RetryTrack, ResumeTrack
  DEF ImplementationSteps
<1>2. CASE ReviewSteps
  BY <1>2, PublishTrack, SpawnReviewTrack, DispatchReviewTrack, ConsumeTrack, OperatorTrack
  DEF ReviewSteps
<1>3. CASE CooldownSteps \/ SpawnSteps \/ MergeGateSteps
  BY <1>3, CooldownTrack, SpawnTrack, MergeGateTrack
<1>4. CASE BrokerStops \/ BrokerRaises
  BY <1>4, EndTrack DEF BrokerStops, BrokerRaises, Return, Resting
<1>5. CASE \/ WorkerSteps \/ CooldownEnvironment \/ ReviewEnvironment \/ GitHubSteps
           \/ UNCHANGED vars
  BY <1>5, EnvironmentMoves, AroundTrack, RoleFacts
<1> QED
  BY <1>1, <1>2, <1>3, <1>4, <1>5 DEF Next

LEMMA TrackHolds == Spec => []Track
  BY InitTrack, TrackStep, TypeCorrect, PhasesHold, PTL DEF Spec

(***************************************************************************)
(* The review evidence.                                                    *)
(***************************************************************************)
\* The verdict the role's files stand for.
VerdictOf(r) ==
  [role |-> r, provider |-> disk.job[r].provider, head |-> disk.meta[r].head,
   decision |-> disk.result[r].kind]

\* A review that parses is what the reviewer decided about the metadata's head,
\* and a reviewer at work reads the commit its metadata names.
Recorded ==
  \A r \in ReviewRoles :
    ParsesReview(disk.result[r]) /\ disk.job[r] # NoJob => VerdictOf(r) \in ghost.reviews
Reading == \A r \in ReviewRoles : Active(r) => disk.meta[r].head = disk.clone.head

\* spawn_review, with the spawn-agent it calls.
Calling == pc \in SpawnReviewLabels \/ (pc \in SpawnLabels /\ act.role # "implementer")

\* It is about the commit in the clone; a recovery's metadata names it already;
\* and once the old result is gone, none that parses is there until the unit ends.
CallIsAboutHead ==
  /\ Calling \/ pc = "review_security" => act.head = disk.clone.head
  /\ pc \in SpawnReviewLabels => act.newmeta.head = disk.clone.head
  /\ pc = "review_stage" \/ (pc = "review_check" /\ act.newmeta.recovery # 0) =>
       disk.meta[act.role].head = act.newmeta.head
  /\ pc \in SpawnLabels /\ act.role # "implementer" =>
       disk.meta[act.role].head = disk.clone.head
  /\ Calling /\ pc # "review_check" => ~Active(act.role)
  /\ Calling /\ pc \in {"review_unlink_job", "review_meta", "spawn", "spawn_job"} =>
       ~ParsesReview(disk.result[act.role])

Evidence == EvidenceGenuine /\ Recorded /\ Reading /\ CallIsAboutHead

\* The review files, the units that read the clone and the published evidence
\* are left alone.
ReviewsKept ==
  /\ gh'.comments = gh.comments /\ ghost'.reviews = ghost.reviews
  /\ \A r \in ReviewRoles :
       /\ disk'.result[r] = disk.result[r] /\ disk'.job[r] = disk.job[r]
       /\ disk'.meta[r].head = disk.meta[r].head
       /\ unit'[r] \in {unit[r], NoJob}
       /\ Active(r) => disk'.clone.head = disk.clone.head

LEMMA KeptEvidence == Evidence /\ ReviewsKept => EvidenceGenuine' /\ Recorded' /\ Reading'
  BY DEF Evidence, ReviewsKept, EvidenceGenuine, Recorded, Reading, VerdictOf, Active

\* A step of another handler than a review's.
LEMMA ElsewhereEvidence ==
  ASSUME Evidence, ReviewsKept, ~Calling', pc' # "review_security"
  PROVE  Evidence'
  BY KeptEvidence DEF Evidence, CallIsAboutHead, Calling, SpawnReviewLabels, SpawnLabels

LEMMA CooldownEvidence == TypeOK /\ Evidence /\ CooldownSteps => Evidence'
<1> SUFFICES ASSUME TypeOK, Evidence, CooldownSteps PROVE Evidence'
  OBVIOUS
<1>0. disk \in Disk
  BY DEF TypeOK
<1>1. ReviewsKept
  <2>1. /\ disk'.result = disk.result /\ disk'.job = disk.job /\ disk'.meta = disk.meta
        /\ disk'.clone = disk.clone /\ UNCHANGED <<unit, gh, ghost>>
    BY <1>0
    DEF CooldownSteps, QuotaMark, QueueWait, QueueStatus, RecoverStart, RecoverSelect,
        RecoverField, RecoverResume, RecoverReview, RecoverReviewStatus, Disk
  <2> QED
    BY <2>1 DEF ReviewsKept
<1>2. ~Calling' /\ pc' # "review_security"
  BY DEF CooldownSteps, QuotaMark, QueueWait, QueueStatus, RecoverStart, RecoverSelect,
         RecoverField, RecoverResume, RecoverReview, RecoverReviewStatus, Goto, Return, Calling,
         SpawnReviewLabels, SpawnLabels
<1> QED
  BY <1>1, <1>2, ElsewhereEvidence

\* spawn-agent replaces the result and the job record together with the unit,
\* which then reads the commit the metadata names.
LEMMA SpawnEvidence == TypeOK /\ UnitsByPhase /\ Evidence /\ SpawnSteps => Evidence'
<1> SUFFICES ASSUME TypeOK, UnitsByPhase, Evidence, SpawnSteps PROVE Evidence'
  OBVIOUS
<1>0. /\ disk \in Disk /\ disk.result \in [Roles -> Result] /\ disk.job \in [Roles -> Job]
      /\ unit \in [Roles -> Job] /\ act.role \in Roles /\ CallsByLabel
      /\ ghost \in Ghost /\ pc \in SpawnLabels
  BY DEF TypeOK, Disk, Act, UnitsByPhase, SpawnSteps, SpawnTruncate, SpawnRefused, SpawnJob,
         SpawnUnit, SpawnLabels
<1>1. CASE SpawnTruncate \/ SpawnJob
  <2>1. /\ UNCHANGED <<act, unit, gh, ghost>> /\ pc' \in {"spawn_job", "spawn_unit"}
        /\ disk'.clone = disk.clone /\ disk'.meta = disk.meta
        /\ \A r \in Roles : r # act.role => /\ disk'.result[r] = disk.result[r]
                                            /\ disk'.job[r] = disk.job[r]
    <3>1. CASE SpawnTruncate
      BY <1>0, <3>1 DEF SpawnTruncate, Goto, Disk
    <3>2. CASE SpawnJob
      BY <1>0, <3>2 DEF SpawnJob, Goto, Disk
    <3> QED
      BY <1>1, <3>1, <3>2
  <2>2. CASE act.role = "implementer"
    <3>1. ReviewsKept
      BY <2>1, <2>2, RoleFacts DEF ReviewsKept
    <3> QED
      BY <2>1, <2>2, <3>1, ElsewhereEvidence DEF Calling, SpawnReviewLabels
  <2>3. CASE act.role # "implementer"
    <3>1. ~ParsesReview(disk'.result[act.role])
      <4>1. CASE SpawnTruncate
        BY <1>0, <4>1 DEF SpawnTruncate, Disk, ParsesReview, Simple
      <4>2. CASE SpawnJob
        BY <1>0, <2>3, <4>2 DEF SpawnJob, Disk, Evidence, CallIsAboutHead, Calling, SpawnLabels
      <4> QED
        BY <1>1, <4>1, <4>2
    <3>2. EvidenceGenuine' /\ Recorded' /\ Reading'
      BY <2>1, <3>1, RoleFacts
      DEF Evidence, EvidenceGenuine, Recorded, Reading, VerdictOf, Active
    <3>3. /\ ~Active(act.role) /\ act.head = disk.clone.head
          /\ disk.meta[act.role].head = disk.clone.head
      BY <1>0, <2>3 DEF Evidence, CallIsAboutHead, Calling, SpawnLabels
    <3>4. CallIsAboutHead'
      BY <2>1, <2>3, <3>1, <3>3
      DEF CallIsAboutHead, Calling, SpawnLabels, SpawnReviewLabels, Active
    <3> QED
      BY <3>2, <3>4 DEF Evidence
  <2> QED
    BY <2>2, <2>3
<1>2. CASE SpawnRefused
  <2>1. UNCHANGED <<disk, unit, gh, ghost>> /\ pc' = "idle"
    BY <1>2 DEF SpawnRefused, Return
  <2> QED
    BY <2>1, ElsewhereEvidence DEF ReviewsKept, Calling, SpawnReviewLabels, SpawnLabels
<1>3. CASE SpawnUnit
  <2>1. /\ UNCHANGED <<disk, gh>> /\ ghost'.reviews = ghost.reviews /\ pc' = act.next
        /\ act.next # "idle" => act' = act
        /\ \A r \in Roles : r # act.role => unit'[r] = unit[r]
    BY <1>0, <1>3 DEF SpawnUnit, Resume, Ghost
  <2>2. pc' \in {"idle", "dispatch_done", "retry_spent", "review_security", "review_status",
                 "review_note"}
    BY <1>0, <2>1 DEF CallsByLabel
  <2>3. CASE act.role = "implementer"
    <3>1. pc' # "review_security"
      BY <1>0, <2>1, <2>3 DEF CallsByLabel
    <3>2. ReviewsKept
      BY <2>1, <2>3, RoleFacts DEF ReviewsKept
    <3> QED
      BY <2>2, <3>1, <3>2, ElsewhereEvidence DEF Calling, SpawnReviewLabels, SpawnLabels
  <2>4. CASE act.role # "implementer"
    <3>1. disk.meta[act.role].head = disk.clone.head /\ act.head = disk.clone.head
      BY <1>0, <2>4 DEF Evidence, CallIsAboutHead, Calling
    <3>2. EvidenceGenuine' /\ Recorded' /\ Reading'
      BY <2>1, <3>1, RoleFacts
      DEF Evidence, EvidenceGenuine, Recorded, Reading, VerdictOf, Active
    <3>3. CallIsAboutHead'
      BY <2>1, <2>2, <3>1 DEF CallIsAboutHead, Calling, SpawnLabels, SpawnReviewLabels
    <3> QED
      BY <3>2, <3>3 DEF Evidence
  <2> QED
    BY <2>3, <2>4
<1> QED
  BY <1>1, <1>2, <1>3 DEF SpawnSteps

\* The implementer's handlers write its own files, and the clone while nobody
\* reads it.
LEMMA ImplementationEvidence ==
  TypeOK /\ UnitsByPhase /\ Evidence /\ ImplementationSteps => Evidence'
<1> SUFFICES ASSUME TypeOK, UnitsByPhase, Evidence, ImplementationSteps PROVE Evidence'
  OBVIOUS
<1>0. /\ disk \in Disk /\ disk.result \in [Roles -> Result] /\ disk.job \in [Roles -> Job]
      /\ UnitsByLabel /\ CallsByLabel /\ act \in Act /\ UNCHANGED <<unit, gh, ghost>>
  BY DEF TypeOK, Disk, UnitsByPhase, ImplementationSteps, DispatchSteps, DispatchStart,
         DispatchClaim, DispatchStale, DispatchClone, DispatchMeta, DispatchPack, DispatchSpawn,
         DispatchDone, DispatchFails, UnwindFiles, UnwindStatus, LaunchSteps, LaunchSpent,
         LaunchSettled, LaunchRestored, LaunchStatus, LaunchClosed, LaunchKept, ReconcileSteps,
         ReconcileStart, ImplementationStart, ReconcileAbandoned, ReconcileReady, ReconcileQuota,
         ReconcileFailure, ReconcileSuccess, ReconcileNothing, RetrySteps, RetryStart, RetryLimit,
         RetryPrepare, RetryRefused, RetryTx, RetryPack, RetryUnlinkJob, RetryUnlinkResult,
         RetryCount, RetryStatus, RetryGuard, RetryGuardFails, RetryRestore, RetryUncount,
         RetryUnstatus, RetryBudget, RetrySpent, RetryClose, ResumeStart, ResumeStatus
<1>1. /\ disk'.meta = disk.meta
      /\ \A r \in ReviewRoles : disk'.result[r] = disk.result[r] /\ disk'.job[r] = disk.job[r]
  <2>1. CASE DispatchSteps
    BY <1>0, <2>1
    DEF DispatchSteps, DispatchStart, DispatchClaim, DispatchStale, DispatchClone, DispatchMeta,
        DispatchPack, DispatchSpawn, DispatchDone, DispatchFails, UnwindFiles, UnwindStatus, Disk
  <2>2. CASE LaunchSteps
    <3>1. CASE LaunchRestored
      BY <1>0, <3>1, RoleFacts DEF LaunchRestored, Disk
    <3>2. CASE LaunchSpent
      BY <1>0, <3>2 DEF LaunchSpent, Disk
    <3>3. CASE LaunchSettled \/ LaunchStatus \/ LaunchClosed \/ LaunchKept
      BY <1>0, <3>3 DEF LaunchSettled, LaunchStatus, LaunchClosed, LaunchKept, Disk
    <3> QED
      BY <2>2, <3>1, <3>2, <3>3 DEF LaunchSteps
  <2>3. CASE ReconcileSteps \/ ResumeStart \/ ResumeStatus
    BY <1>0, <2>3
    DEF ReconcileSteps, ReconcileStart, ImplementationStart, ReconcileAbandoned, ReconcileReady,
        ReconcileQuota, ReconcileFailure, ReconcileSuccess, ReconcileNothing, ResumeStart,
        ResumeStatus, Disk
  <2>4. CASE RetrySteps
    <3>1. CASE RetryTx \/ RetryPack \/ RetryBudget \/ RetryClose
      BY <1>0, <3>1 DEF RetryTx, RetryPack, RetryBudget, RetryClose, Disk
    <3>2. CASE RetryUnlinkJob
      BY <1>0, <3>2, RoleFacts DEF RetryUnlinkJob, Disk
    <3>3. CASE RetryUnlinkResult
      BY <1>0, <3>3, RoleFacts DEF RetryUnlinkResult, Disk
    <3>4. CASE RetryRestore
      BY <1>0, <3>4, RoleFacts DEF RetryRestore, Disk
    <3>5. CASE RetrySpent
      BY <1>0, <3>5 DEF RetrySpent, Disk
    <3>6. CASE \/ RetryStart \/ RetryLimit \/ RetryPrepare \/ RetryRefused \/ RetryCount
               \/ RetryStatus \/ RetryGuard \/ RetryGuardFails \/ RetryUncount
               \/ RetryUnstatus
      BY <3>6
      DEF RetryStart, ImplementationStart, RetryLimit, RetryPrepare, RetryRefused, RetryCount,
          RetryStatus, RetryGuard, RetryGuardFails, RetryUncount, RetryUnstatus
    <3> QED
      BY <2>4, <3>1, <3>2, <3>3, <3>4, <3>5, <3>6 DEF RetrySteps
  <2> QED
    BY <2>1, <2>2, <2>3, <2>4 DEF ImplementationSteps
<1>2. disk'.clone = disk.clone \/ NoReviewer
  <2>1. CASE DispatchSteps
    BY <1>0, <2>1, RoleFacts
    DEF DispatchSteps, DispatchStart, DispatchClaim, DispatchStale, DispatchClone, DispatchMeta,
        DispatchPack, DispatchSpawn, DispatchDone, DispatchFails, UnwindFiles, UnwindStatus, Disk,
        UnitsByLabel, QuietLabels, NoUnitActive, NoReviewer
  <2>2. CASE LaunchSteps \/ ReconcileSteps \/ ResumeStart \/ ResumeStatus
    BY <1>0, <2>2
    DEF LaunchSteps, LaunchSpent, LaunchSettled, LaunchRestored, LaunchStatus, LaunchClosed,
        LaunchKept, ReconcileSteps, ReconcileStart, ImplementationStart, ReconcileAbandoned,
        ReconcileReady, ReconcileQuota, ReconcileFailure, ReconcileSuccess, ReconcileNothing,
        ResumeStart, ResumeStatus, Disk, UnitsByLabel, ImplementerLabels
  <2>3. CASE RetrySteps
    BY <1>0, <2>3
    DEF RetrySteps, RetryStart, ImplementationStart, RetryLimit, RetryPrepare, RetryRefused,
        RetryTx, RetryPack, RetryUnlinkJob, RetryUnlinkResult, RetryCount, RetryStatus,
        RetryGuard, RetryGuardFails, RetryRestore, RetryUncount, RetryUnstatus, RetryBudget,
        RetrySpent, RetryClose, Disk
  <2> QED
    BY <2>1, <2>2, <2>3 DEF ImplementationSteps
<1>3. ReviewsKept
  BY <1>0, <1>1, <1>2 DEF ReviewsKept, NoReviewer
<1>4. ~Calling' /\ pc' # "review_security"
  <2>1. CASE DispatchSteps
    BY <1>0, <2>1
    DEF DispatchSteps, DispatchStart, DispatchClaim, DispatchStale, DispatchClone, DispatchMeta,
        DispatchPack, DispatchSpawn, DispatchDone, DispatchFails, UnwindFiles, UnwindStatus,
        Queue, Accept, Goto, Return, SpawnAgent, Act, Calling, SpawnReviewLabels, SpawnLabels
  <2>2. CASE LaunchSteps \/ ReconcileSteps \/ ResumeStart \/ ResumeStatus
    BY <1>0, <2>2
    DEF LaunchSteps, LaunchSpent, LaunchSettled, LaunchRestored, LaunchStatus, LaunchClosed,
        LaunchKept, ReconcileSteps, ReconcileStart, ImplementationStart, ReconcileAbandoned,
        ReconcileReady, ReconcileQuota, ReconcileFailure, ReconcileSuccess, ReconcileNothing,
        ResumeStart, ResumeStatus, Queue, Accept, Goto, Return, CallsByLabel, Calling,
        SpawnReviewLabels, SpawnLabels
  <2>3. CASE RetryGuard \/ RetryBudget
    BY <1>0, <2>3
    DEF RetryGuard, RetryBudget, SpawnAgent, Goto, Act, Calling, SpawnReviewLabels, SpawnLabels
  <2>4. CASE \/ RetryStart \/ RetryLimit \/ RetryPrepare \/ RetryRefused \/ RetryTx \/ RetryPack
             \/ RetryUnlinkJob \/ RetryUnlinkResult \/ RetryCount \/ RetryStatus
             \/ RetryGuardFails \/ RetryRestore \/ RetryUncount \/ RetryUnstatus
             \/ RetrySpent \/ RetryClose
    BY <2>4
    DEF RetryStart, ImplementationStart, RetryLimit, RetryPrepare, RetryRefused, RetryTx,
        RetryPack, RetryUnlinkJob, RetryUnlinkResult, RetryCount, RetryStatus, RetryGuardFails,
        RetryRestore, RetryUncount, RetryUnstatus, RetrySpent, RetryClose, Goto, Return, Calling,
        SpawnReviewLabels, SpawnLabels
  <2> QED
    BY <2>1, <2>2, <2>3, <2>4 DEF ImplementationSteps, RetrySteps
<1> QED
  BY <1>3, <1>4, ElsewhereEvidence

LEMMA PublishEvidence == TypeOK /\ Evidence /\ PublishSteps => Evidence'
<1> SUFFICES ASSUME TypeOK, Evidence, PublishSteps PROVE Evidence'
  OBVIOUS
<1>1. UNCHANGED <<disk, unit, ghost>> /\ gh'.comments = gh.comments
  BY DEF TypeOK, GitHub, PublishSteps, PublishStart, PublishHold, PublishPush, PublishPr
<1>2. ~Calling' /\ pc' # "review_security"
  BY DEF PublishSteps, PublishStart, PublishHold, PublishPush, PublishPr, Accept, Goto, Return,
         Calling, SpawnReviewLabels, SpawnLabels
<1> QED
  BY <1>1, <1>2, ElsewhereEvidence DEF ReviewsKept

\* spawn_review removes the old result before the new metadata names the head.
LEMMA SpawnReviewEvidence ==
  TypeOK /\ UnitsByPhase /\ Known /\ Evidence /\ SpawnReviewSteps => Evidence'
<1> SUFFICES ASSUME TypeOK, UnitsByPhase, Known, Evidence, SpawnReviewSteps PROVE Evidence'
  OBVIOUS
<1>0. /\ disk \in Disk /\ disk.result \in [Roles -> Result] /\ disk.job \in [Roles -> Job]
      /\ disk.meta \in [ReviewRoles -> Meta] /\ act \in Act /\ CallsByLabel
      /\ UNCHANGED <<unit, gh, ghost>>
  BY DEF TypeOK, Disk, UnitsByPhase, SpawnReviewSteps, ReviewCheck, ReviewMeta, ReviewPack,
         ReviewUnlinkResult, ReviewUnlinkJob
<1>1. pc \in SpawnReviewLabels
  BY DEF SpawnReviewSteps, ReviewCheck, ReviewMeta, ReviewPack, ReviewUnlinkResult,
         ReviewUnlinkJob, SpawnReviewLabels
<1>2. /\ act.next \in {"review_security", "review_status", "review_note"}
      /\ act.role \in ReviewRoles /\ act.role \in Roles /\ act.role # "implementer"
      /\ act.head = disk.clone.head /\ act.newmeta.head = disk.clone.head
  BY <1>0, <1>1, RoleFacts DEF CallsByLabel, Evidence, CallIsAboutHead, Calling
<1>3. CASE ReviewCheck
  <2>1. UNCHANGED disk /\ pc = "review_check"
    BY <1>3 DEF ReviewCheck
  <2>2. EvidenceGenuine' /\ Recorded' /\ Reading'
    BY <1>0, <2>1, KeptEvidence DEF ReviewsKept
  <2>3. CASE pc' \in {act.next, "idle"}
    <3>1. act' = act \/ pc' # "review_security"
      BY <1>3, <2>3, <1>2 DEF ReviewCheck, Resume, Return, Goto
    <3> QED
      BY <1>2, <2>1, <2>2, <2>3, <3>1
      DEF Evidence, CallIsAboutHead, Calling, SpawnReviewLabels, SpawnLabels
  <2>4. CASE pc' \notin {act.next, "idle"}
    <3>1. /\ act' = act /\ ~Active(act.role)'
          /\ pc' = IF act.newmeta.recovery # 0 THEN "review_stage" ELSE "review_pack"
      BY <1>0, <1>3, <2>4 DEF ReviewCheck, Resume, Return, Goto, Active
    <3> QED
      BY <1>2, <2>1, <2>2, <3>1
      DEF Evidence, CallIsAboutHead, Calling, SpawnReviewLabels, SpawnLabels
  <2> QED
    BY <2>3, <2>4
<1>4. CASE ReviewMeta
  <2>1. /\ disk'.result = disk.result /\ disk'.job = disk.job /\ disk'.clone = disk.clone
        /\ disk'.meta[act.role] = act.newmeta
        /\ \A r \in ReviewRoles : r # act.role => disk'.meta[r] = disk.meta[r]
    BY <1>0, <1>2, <1>4 DEF ReviewMeta, Disk
  <2>2. pc \in {"review_stage", "review_meta"} /\ ~Active(act.role)
    BY <1>1, <1>4 DEF ReviewMeta, Evidence, CallIsAboutHead, Calling
  <2>3. CASE pc = "review_stage"
    <3>1. pc' = "review_pack" /\ act' = act
      BY <1>4, <2>3 DEF ReviewMeta, Goto
    <3>2. disk'.meta[act.role].head = disk.meta[act.role].head
      BY <2>1, <2>3 DEF Evidence, CallIsAboutHead
    <3>3. ReviewsKept
      BY <1>0, <2>1, <3>2 DEF ReviewsKept
    <3> QED
      BY <1>0, <1>2, <2>1, <2>2, <3>1, <3>3, KeptEvidence
      DEF Evidence, CallIsAboutHead, Calling, SpawnReviewLabels, SpawnLabels, Active
  <2>4. CASE pc = "review_meta"
    <3>1. pc' = "spawn" /\ act'.role = act.role /\ act'.head = act.head
      BY <1>0, <1>4, <2>4 DEF ReviewMeta, SpawnAgent, Act
    <3>2. ~ParsesReview(disk.result[act.role])
      BY <1>1, <2>4 DEF Evidence, CallIsAboutHead, Calling
    <3>3. EvidenceGenuine' /\ Recorded' /\ Reading'
      BY <1>0, <2>1, <2>2, <3>2
      DEF Evidence, EvidenceGenuine, Recorded, Reading, VerdictOf, Active
    <3> QED
      BY <1>0, <1>2, <2>1, <2>2, <3>1, <3>2, <3>3
      DEF Evidence, CallIsAboutHead, Calling, SpawnReviewLabels, SpawnLabels, Active
  <2> QED
    BY <2>2, <2>3, <2>4
<1>5. CASE ReviewPack
  <2>1. /\ disk'.result = disk.result /\ disk'.job = disk.job /\ disk'.clone = disk.clone
        /\ disk'.meta = disk.meta /\ pc = "review_pack" /\ pc' = "review_unlink_result"
        /\ act' = act
    BY <1>0, <1>5 DEF ReviewPack, Goto, Disk
  <2>2. ~Active(act.role)
    BY <1>1, <2>1 DEF Evidence, CallIsAboutHead, Calling
  <2> QED
    BY <1>0, <1>2, <2>1, <2>2, KeptEvidence
    DEF ReviewsKept, Evidence, CallIsAboutHead, Calling, SpawnReviewLabels, SpawnLabels, Active
<1>6. CASE ReviewUnlinkResult \/ ReviewUnlinkJob
  <2>1. /\ disk'.clone = disk.clone /\ disk'.meta = disk.meta /\ act' = act
        /\ pc \in {"review_unlink_result", "review_unlink_job"}
        /\ pc' \in {"review_unlink_job", "review_meta"}
        /\ \A r \in Roles : r # act.role => /\ disk'.result[r] = disk.result[r]
                                            /\ disk'.job[r] = disk.job[r]
    <3>1. CASE ReviewUnlinkResult
      BY <1>0, <3>1 DEF ReviewUnlinkResult, Goto, Disk
    <3>2. CASE ReviewUnlinkJob
      BY <1>0, <3>2 DEF ReviewUnlinkJob, Goto, Disk
    <3> QED
      BY <1>6, <3>1, <3>2
  <2>2. ~ParsesReview(disk'.result[act.role])
    <3>1. CASE ReviewUnlinkResult
      BY <1>0, <1>2, <3>1 DEF ReviewUnlinkResult, Disk, ParsesReview, NoResult, Simple
    <3>2. CASE ReviewUnlinkJob
      BY <1>0, <1>1, <3>2 DEF ReviewUnlinkJob, Disk, Evidence, CallIsAboutHead, Calling
    <3> QED
      BY <1>6, <3>1, <3>2
  <2>3. ~Active(act.role)
    BY <1>1, <2>1 DEF Evidence, CallIsAboutHead, Calling
  <2>4. EvidenceGenuine' /\ Recorded' /\ Reading'
    BY <1>0, <2>1, <2>2, RoleFacts
    DEF Evidence, EvidenceGenuine, Recorded, Reading, VerdictOf, Active
  <2> QED
    BY <1>0, <1>2, <2>1, <2>2, <2>3, <2>4
    DEF Evidence, CallIsAboutHead, Calling, SpawnReviewLabels, SpawnLabels, Active
<1> QED
  BY <1>3, <1>4, <1>5, <1>6 DEF SpawnReviewSteps

\* CallReview is about the head of the payload it is given.
LEMMA CallEvidence ==
  ASSUME TypeOK, Evidence, NEW a \in Act, NEW role \in Roles, NEW provider, NEW tries,
         NEW recovery, NEW next, CallReview(a, role, provider, tries, recovery, next),
         UNCHANGED <<disk, unit, gh, ghost>>, a.head = disk.clone.head,
         recovery # 0 => disk.meta[role].head = a.head
  PROVE  Evidence'
<1>1. /\ pc' = "review_check" /\ act'.role = role /\ act'.head = a.head
      /\ act'.newmeta.head = a.head /\ act'.newmeta.recovery = recovery
  BY DEF CallReview, Act
<1>2. EvidenceGenuine' /\ Recorded' /\ Reading'
  BY KeptEvidence DEF ReviewsKept
<1>3. CallIsAboutHead'
  BY <1>1 DEF CallIsAboutHead, Calling, SpawnReviewLabels, SpawnLabels
<1> QED
  BY <1>2, <1>3 DEF Evidence

\* What is published and valid is at the head of the pull request and the clone.
LEMMA PublishedHead ==
  ASSUME Published, Valid(Impl.commit)
  PROVE  gh.head = disk.clone.head /\ gh.head = Impl.commit
  BY DEF Published, Valid

LEMMA DispatchReviewEvidence == TypeOK /\ Evidence /\ DispatchReviewSteps => Evidence'
<1> SUFFICES ASSUME TypeOK, Evidence, DispatchReviewSteps PROVE Evidence'
  OBVIOUS
<1>0. /\ disk \in Disk /\ act \in Act /\ Payload \in Act /\ Payload.head = gh.head
      /\ UNCHANGED <<unit, gh, ghost>>
  BY PayloadType
  DEF TypeOK, Payload, DispatchReviewSteps, DispatchReview, DispatchSecurity, DispatchRecovery,
      ReviewWait, ReviewStatus, ReviewSpent
<1>1. CASE DispatchReview
  <2>1. UNCHANGED disk /\ gh.head = disk.clone.head
    BY <1>1, PublishedHead DEF DispatchReview, ReviewReady
  <2>2. PICK provider, next :
          \/ Queue(Payload, "queue", "reviewer", item.provider, "IMPLEMENTED")
          \/ CallReview(Payload, "reviewer", provider, 0, 0, next)
    BY <1>1 DEF DispatchReview
  <2>3. CASE Queue(Payload, "queue", "reviewer", item.provider, "IMPLEMENTED")
    <3>1. pc' = "queue" /\ ReviewsKept
      BY <1>0, <2>1, <2>3 DEF Queue, ReviewsKept
    <3> QED
      BY <3>1, ElsewhereEvidence DEF Calling, SpawnReviewLabels, SpawnLabels
  <2>4. CASE CallReview(Payload, "reviewer", provider, 0, 0, next)
    BY <1>0, <2>1, <2>4, CallEvidence, RoleFacts DEF ReviewRoles
  <2> QED
    BY <2>2, <2>3, <2>4
<1>2. CASE DispatchSecurity
  <2>1. UNCHANGED disk /\ act.head = disk.clone.head
    BY <1>2 DEF DispatchSecurity, Evidence, CallIsAboutHead
  <2>2. PICK provider :
          Return \/ CallReview(act, "security-reviewer", provider, 0, 0, "review_status")
    BY <1>2 DEF DispatchSecurity
  <2>3. CASE Return
    <3>1. pc' = "idle" /\ ReviewsKept
      BY <1>0, <2>1, <2>3 DEF Return, ReviewsKept
    <3> QED
      BY <3>1, ElsewhereEvidence DEF Calling, SpawnReviewLabels, SpawnLabels
  <2>4. CASE CallReview(act, "security-reviewer", provider, 0, 0, "review_status")
    BY <1>0, <2>1, <2>4, CallEvidence, RoleFacts DEF ReviewRoles
  <2> QED
    BY <2>2, <2>3, <2>4
<1>3. CASE DispatchRecovery
  <2>1. /\ UNCHANGED disk /\ gh.head = disk.clone.head /\ disk.wait.role \in RequiredRoles
        /\ disk.meta[disk.wait.role].head = gh.head
    BY <1>3, PublishedHead DEF DispatchRecovery, ReviewReady
  <2>2. PICK provider, tries :
          \/ Accept("review_wait")
          \/ CallReview([Payload EXCEPT !.quota = TRUE], disk.wait.role, provider, tries,
                        disk.wait.recovery, "review_status")
    BY <1>3 DEF DispatchRecovery
  <2>3. CASE Accept("review_wait")
    <3>1. pc' = "review_wait" /\ ReviewsKept
      BY <1>0, <2>1, <2>3 DEF Accept, ReviewsKept
    <3> QED
      BY <3>1, ElsewhereEvidence DEF Calling, SpawnReviewLabels, SpawnLabels
  <2>4. CASE CallReview([Payload EXCEPT !.quota = TRUE], disk.wait.role, provider, tries,
                        disk.wait.recovery, "review_status")
    <3>1. /\ [Payload EXCEPT !.quota = TRUE] \in Act
          /\ [Payload EXCEPT !.quota = TRUE].head = gh.head
      BY <1>0 DEF Act
    <3> QED
      BY <1>0, <2>1, <2>4, <3>1, CallEvidence, RoleFacts
  <2> QED
    BY <2>2, <2>3, <2>4
<1>4. CASE ReviewWait \/ ReviewStatus \/ ReviewSpent
  <2>1. /\ disk'.result = disk.result /\ disk'.job = disk.job /\ disk'.meta = disk.meta
        /\ disk'.clone = disk.clone
    BY <1>0, <1>4 DEF ReviewWait, ReviewStatus, ReviewSpent, Disk
  <2>2. pc' \in {"idle", "review_spent"}
    BY <1>4 DEF ReviewWait, ReviewStatus, ReviewSpent, Goto, Return
  <2> QED
    BY <1>0, <2>1, <2>2, ElsewhereEvidence DEF ReviewsKept, Calling, SpawnReviewLabels, SpawnLabels
<1> QED
  BY <1>1, <1>2, <1>3, <1>4 DEF DispatchReviewSteps

\* consume_review publishes the verdict the files stand for.
LEMMA ConsumeEvidence == TypeOK /\ UnitsByPhase /\ Evidence /\ ConsumeSteps => Evidence'
<1> SUFFICES ASSUME TypeOK, UnitsByPhase, Evidence, ConsumeSteps PROVE Evidence'
  OBVIOUS
<1>0. act \in Act /\ gh \in GitHub /\ UNCHANGED <<disk, unit, ghost>> /\ CallsByLabel
  BY DEF TypeOK, UnitsByPhase, ConsumeSteps, ConsumeStart, ConsumeVerdict, ConsumeStatus,
         RetryReview, ReviewNote, ConsumeNothing
<1>1. CASE ConsumeStart \/ ConsumeStatus \/ ReviewNote \/ ConsumeNothing
  <2>1. pc' \in {"consume", "idle"} /\ gh' = gh
    BY <1>1 DEF ConsumeStart, ConsumeStatus, ReviewNote, ConsumeNothing, Return
  <2> QED
    BY <1>0, <2>1, ElsewhereEvidence DEF ReviewsKept, Calling, SpawnReviewLabels, SpawnLabels
<1>2. CASE ConsumeVerdict
  <2>1. /\ pc = "consume" /\ pc' \in {"consume", "consume_status"}
        /\ ReviewBound(act.role) /\ ReviewReported(act.role)
        /\ ParsesReview(disk.result[act.role])
        /\ gh'.comments = gh.comments \cup
             {[role |-> act.role, provider |-> disk.meta[act.role].provider,
               head |-> act.head, decision |-> disk.result[act.role].kind]}
    BY <1>0, <1>2 DEF ConsumeVerdict, Goto, GitHub
  <2>2. act.role \in ReviewRoles
    BY <1>0, <2>1, RoleFacts DEF CallsByLabel
  <2>3. VerdictOf(act.role) = [role |-> act.role, provider |-> disk.meta[act.role].provider,
                               head |-> act.head, decision |-> disk.result[act.role].kind]
    BY <2>1 DEF VerdictOf, ReviewBound, ReviewReported
  <2>4. VerdictOf(act.role) \in ghost.reviews
    BY <2>1, <2>2 DEF Evidence, Recorded, ReviewReported
  <2>5. EvidenceGenuine'
    BY <1>0, <2>1, <2>3, <2>4 DEF Evidence, EvidenceGenuine
  <2>6. Recorded' /\ Reading'
    BY <1>0 DEF Evidence, Recorded, Reading, VerdictOf, Active
  <2> QED
    BY <2>1, <2>5, <2>6
    DEF Evidence, CallIsAboutHead, Calling, SpawnReviewLabels, SpawnLabels
<1>3. CASE RetryReview
  <2>1. /\ pc = "consume" /\ gh' = gh /\ ReviewBound(act.role)
    BY <1>3 DEF RetryReview, ReviewFailed
  <2>2. act.role \in Roles /\ act.head = disk.clone.head /\ ReviewsKept
    BY <1>0, <2>1, RoleFacts DEF CallsByLabel, ReviewBound, Valid, ReviewsKept
  <2>3. PICK provider, tries :
          \/ Queue(act, "quota_mark", act.role, provider, "REVIEWING")
          \/ Return
          \/ CallReview(act, act.role, provider, tries, 0, "review_note")
    BY <1>3 DEF RetryReview
  <2>4. CASE Queue(act, "quota_mark", act.role, provider, "REVIEWING") \/ Return
    <3>1. pc' \in {"quota_mark", "idle"}
      BY <2>4 DEF Queue, Return
    <3> QED
      BY <2>2, <3>1, ElsewhereEvidence DEF Calling, SpawnReviewLabels, SpawnLabels
  <2>5. CASE CallReview(act, act.role, provider, tries, 0, "review_note")
    BY <1>0, <2>1, <2>2, <2>5, CallEvidence
  <2> QED
    BY <2>3, <2>4, <2>5
<1> QED
  BY <1>1, <1>2, <1>3 DEF ConsumeSteps

LEMMA OperatorEvidence == TypeOK /\ Evidence /\ OperatorSteps => Evidence'
<1> SUFFICES ASSUME TypeOK, Evidence, OperatorSteps PROVE Evidence'
  OBVIOUS
<1>0. /\ disk \in Disk /\ disk.meta \in [ReviewRoles -> Meta] /\ UNCHANGED <<unit, gh, ghost>>
  BY DEF TypeOK, Disk, OperatorSteps, ResumeReview, ReconcileWaitingResult, OperatorReviewing,
         RecordHost, RecordReport
<1>1. /\ disk'.result = disk.result /\ disk'.job = disk.job /\ disk'.clone = disk.clone
      /\ \A r \in ReviewRoles : disk'.meta[r].head = disk.meta[r].head
  <2>1. ASSUME NEW r \in RequiredRoles, ResumeReview(r)
        PROVE  /\ disk'.result = disk.result /\ disk'.job = disk.job /\ disk'.clone = disk.clone
               /\ \A s \in ReviewRoles : disk'.meta[s].head = disk.meta[s].head
    <3>1. /\ disk'.result = disk.result /\ disk'.job = disk.job /\ disk'.clone = disk.clone
          /\ disk'.meta = [disk.meta EXCEPT ![r].tries = MaxRetries - 1]
      BY <1>0, <2>1 DEF ResumeReview, Disk
    <3>2. \A s \in ReviewRoles : disk'.meta[s].head = disk.meta[s].head
      BY <1>0, <3>1, RoleFacts DEF Meta
    <3> QED
      BY <3>1, <3>2
  <2>2. CASE ReconcileWaitingResult \/ OperatorReviewing
    BY <2>2 DEF ReconcileWaitingResult, OperatorReviewing
  <2>3. CASE RecordHost \/ RecordReport
    BY <1>0, <2>3 DEF RecordHost, RecordReport, Disk
  <2> QED
    BY <2>1, <2>2, <2>3 DEF OperatorSteps
<1>2. pc' \in {"operator_reviewing", "idle", "operator_report"}
  BY DEF OperatorSteps, ResumeReview, ReconcileWaitingResult, OperatorStart, OperatorReviewing,
         RecordHost, RecordReport, Accept, Return
<1> QED
  BY <1>0, <1>1, <1>2, ElsewhereEvidence
  DEF ReviewsKept, Calling, SpawnReviewLabels, SpawnLabels

\* finalize_merge removes the files when nobody runs.
LEMMA MergeGateEvidence == TypeOK /\ UnitsByPhase /\ Evidence /\ MergeGateSteps => Evidence'
<1> SUFFICES ASSUME TypeOK, UnitsByPhase, Evidence, MergeGateSteps PROVE Evidence'
  OBVIOUS
<1>0. /\ disk \in Disk /\ gh \in GitHub /\ ghost \in Ghost /\ UnitsByLabel
  BY DEF TypeOK, UnitsByPhase
<1>1. /\ gh'.comments = gh.comments /\ ghost'.reviews = ghost.reviews /\ unit' = unit
      /\ ~Calling' /\ pc' # "review_security"
  <2>1. CASE IntegrateSteps
    BY <2>1
    DEF IntegrateSteps, IntegrateStart, IntegrateInspect, IntegrateTarget, IntegrateMerge,
        IntegrateBase, IntegrateCount, IntegrateStatus, IntegrateClose, Accept, Goto, Return,
        Calling, SpawnReviewLabels, SpawnLabels
  <2>2. CASE MergeCall
    <3>1. gh'.comments = gh.comments
      BY <1>0, <2>2 DEF MergeCall, GitHub
    <3>2. ghost'.reviews = ghost.reviews /\ unit' = unit /\ pc' = "idle"
      BY <1>0, <2>2 DEF MergeCall, Return, Ghost
    <3> QED
      BY <3>1, <3>2 DEF Calling, SpawnReviewLabels, SpawnLabels
  <2>3. CASE FinalizeSteps
    BY <1>0, <2>3
    DEF FinalizeSteps, FinalizeStart, FinalizeComment, FinalizeClose, FinalizeStatus,
        FinalizeClone, FinalizeFiles, Accept, Goto, Return, Calling, SpawnReviewLabels,
        SpawnLabels, GitHub
  <2>4. CASE \/ AdvanceStart \/ AdvanceStatus \/ MergeStart \/ MergeStatus \/ MergeRefused
             \/ MergeReverts \/ MergeAmbiguous
    BY <2>4
    DEF AdvanceStart, AdvanceStatus, MergeStart, MergeStatus, MergeRefused, MergeReverts,
        MergeAmbiguous, Accept, Goto, Return, Calling, SpawnReviewLabels, SpawnLabels
  <2> QED
    BY <2>1, <2>2, <2>3, <2>4 DEF MergeGateSteps, MergeSteps
<1>2. CASE FinalizeFiles
  <2>1. /\ NoUnitActive
        /\ \A r \in ReviewRoles : ~ParsesReview(disk'.result[r])
    BY <1>0, <1>2, RoleFacts
    DEF FinalizeFiles, UnitsByLabel, QuietLabels, Disk, ParsesReview, NoResult, Simple
  <2>2. Recorded' /\ Reading' /\ EvidenceGenuine'
    BY <1>1, <2>1, RoleFacts
    DEF Evidence, Recorded, Reading, EvidenceGenuine, Active, NoUnitActive
  <2> QED
    BY <1>1, <2>2 DEF Evidence, CallIsAboutHead, Calling, SpawnReviewLabels, SpawnLabels
<1>3. CASE ~FinalizeFiles
  <2>1. /\ disk'.result = disk.result /\ disk'.job = disk.job /\ disk'.meta = disk.meta
        /\ disk'.clone.head = disk.clone.head \/ NoUnitActive
    <3>1. CASE IntegrateSteps
      BY <1>0, <3>1
      DEF IntegrateSteps, IntegrateStart, IntegrateInspect, IntegrateTarget, IntegrateMerge,
          IntegrateBase, IntegrateCount, IntegrateStatus, IntegrateClose, Disk, Clone
    <3>2. CASE AdvanceStart \/ AdvanceStatus \/ MergeSteps \/ FinalizeSteps
      BY <1>0, <1>3, <3>2
      DEF AdvanceStart, AdvanceStatus, MergeSteps, MergeStart, MergeStatus, MergeCall,
          MergeRefused, MergeReverts, MergeAmbiguous, FinalizeSteps, FinalizeStart,
          FinalizeComment, FinalizeClose, FinalizeStatus, FinalizeClone, Disk,
          UnitsByLabel, QuietLabels
    <3> QED
      BY <3>1, <3>2 DEF MergeGateSteps
  <2> QED
    BY <1>1, <2>1, ElsewhereEvidence, RoleFacts DEF ReviewsKept, NoUnitActive
<1> QED
  BY <1>2, <1>3

(***************************************************************************)
(* The steps around the broker.                                            *)
(***************************************************************************)
\* Files and clone are left alone, or the clone of a running implementer is not.
LEMMA AroundEvidence ==
  ASSUME Evidence, UnitsByPhase, ReviewsKept, UNCHANGED <<pc, act>>, act \in Act,
         disk'.clone.head = disk.clone.head \/ Active("implementer"),
         \A r \in Roles : unit'[r] \in {unit[r], NoJob}
  PROVE  Evidence'
<1>1. EvidenceGenuine' /\ Recorded' /\ Reading'
  BY KeptEvidence
<1>2. Calling \/ pc = "review_security" => ~Active("implementer")
  BY DEF UnitsByPhase, UnitsByLabel, Calling, ReviewerLabels
<1>3. Calling => act.role \in ReviewRoles
  BY RoleFacts DEF UnitsByPhase, CallsByLabel, Calling
<1>4. CallIsAboutHead'
  BY <1>2, <1>3, RoleFacts
  DEF Evidence, CallIsAboutHead, Calling, ReviewsKept, Active, SpawnReviewLabels, SpawnLabels
<1> QED
  BY <1>1, <1>4 DEF Evidence

\* The reviewer decides about the clone's head, which its metadata names.
LEMMA ReviewerEvidence ==
  ASSUME TypeOK, UnitsByPhase, Known, Evidence, NEW r \in ReviewRoles, Active(r),
         NEW d \in {"approve", "reject"}, ReviewerDecides(r, d)
  PROVE  Evidence'
<1>0. /\ disk \in Disk /\ disk.result \in [Roles -> Result] /\ unit \in [Roles -> Job]
      /\ r \in Roles /\ act \in Act /\ ghost \in Ghost
  BY RoleFacts DEF TypeOK, Disk
<1>1. /\ disk'.job = disk.job /\ disk'.meta = disk.meta /\ disk'.clone = disk.clone
      /\ disk'.result[r].kind = d
      /\ \A s \in Roles : s # r => disk'.result[s] = disk.result[s] /\ unit'[s] = unit[s]
      /\ unit'[r] = NoJob /\ UNCHANGED <<pc, act, gh>>
      /\ ghost'.reviews = ghost.reviews \cup
           {[role |-> r, provider |-> unit[r].provider, head |-> disk.clone.head, decision |-> d]}
  BY <1>0 DEF ReviewerDecides, UnitEnds, Disk, Ghost
<1>2. disk.job[r] = unit[r] /\ disk.meta[r].head = disk.clone.head
  BY <1>0 DEF Known, UnitsKnown, Evidence, Reading
<1>3. VerdictOf(r)' \in ghost'.reviews
  BY <1>1, <1>2 DEF VerdictOf
<1>4. EvidenceGenuine' /\ Recorded' /\ Reading'
  BY <1>1, <1>3, RoleFacts
  DEF Evidence, EvidenceGenuine, Recorded, Reading, VerdictOf, Active
<1>5. CallIsAboutHead'
  <2>1. Calling /\ pc # "review_check" => act.role # r
    BY DEF Evidence, CallIsAboutHead
  <2>2. Calling => act.role \in ReviewRoles
    BY RoleFacts DEF UnitsByPhase, CallsByLabel, Calling
  <2> QED
    BY <1>0, <1>1, <2>1, <2>2, RoleFacts
    DEF Evidence, CallIsAboutHead, Calling, Active, SpawnReviewLabels, SpawnLabels
<1> QED
  BY <1>4, <1>5 DEF Evidence

LEMMA WorkerEvidence == TypeOK /\ UnitsByPhase /\ Known /\ Evidence /\ WorkerSteps => Evidence'
<1> SUFFICES ASSUME TypeOK, UnitsByPhase, Known, Evidence, WorkerSteps PROVE Evidence'
  OBVIOUS
<1>0. /\ disk \in Disk /\ disk.result \in [Roles -> Result] /\ unit \in [Roles -> Job]
      /\ act \in Act /\ ghost \in Ghost /\ UNCHANGED <<pc, act>>
      /\ \A r \in Roles : unit'[r] \in {unit[r], NoJob}
  BY EnvironmentMoves DEF TypeOK, Disk
<1>1. ASSUME NEW r \in Roles, NEW k, NEW c, UnitEnds(r, k, c), k \notin {"approve", "reject"},
             UNCHANGED <<gh, ghost>>, Active(r)
      PROVE  Evidence'
  <2>1. /\ disk'.job = disk.job /\ disk'.meta = disk.meta /\ disk'.clone = disk.clone
        /\ disk'.result[r].kind = k
        /\ \A s \in Roles : s # r => disk'.result[s] = disk.result[s]
    BY <1>0, <1>1 DEF UnitEnds, Disk
  <2>2. EvidenceGenuine' /\ Recorded' /\ Reading'
    BY <1>0, <1>1, <2>1, RoleFacts
    DEF Evidence, EvidenceGenuine, Recorded, Reading, VerdictOf, Active, ParsesReview
  <2>3. Calling /\ pc # "review_check" => act.role # r
    BY <1>1 DEF Evidence, CallIsAboutHead
  <2>4. Calling => act.role \in ReviewRoles
    BY RoleFacts DEF UnitsByPhase, CallsByLabel, Calling
  <2>5. CallIsAboutHead'
    BY <1>0, <2>1, <2>3, <2>4, RoleFacts
    DEF Evidence, CallIsAboutHead, Calling, Active, SpawnReviewLabels, SpawnLabels
  <2> QED
    BY <2>2, <2>5 DEF Evidence
<1>2. CASE WorkerCommits
  <2>1. /\ disk'.result = disk.result /\ disk'.job = disk.job /\ disk'.meta = disk.meta
        /\ Active("implementer") /\ gh' = gh /\ ghost'.reviews = ghost.reviews
    BY <1>0, <1>2 DEF WorkerCommits, Disk, Ghost
  <2>2. NoReviewer
    BY <2>1 DEF UnitsByPhase, ExclusiveClone, NoReviewer
  <2>3. ReviewsKept
    BY <1>0, <2>1, <2>2, RoleFacts DEF ReviewsKept, NoReviewer
  <2> QED
    BY <1>0, <2>1, <2>3, AroundEvidence
<1>3. CASE ImplementerMisreports
  <2>1. /\ disk'.job = disk.job /\ disk'.meta = disk.meta /\ disk'.clone.head = disk.clone.head
        /\ \A r \in ReviewRoles : disk'.result[r] = disk.result[r]
        /\ UNCHANGED <<gh, ghost>>
    BY <1>0, <1>3, RoleFacts DEF ImplementerMisreports, Disk, Clone
  <2>2. ReviewsKept
    BY <1>0, <2>1, RoleFacts DEF ReviewsKept
  <2> QED
    BY <1>0, <2>1, <2>2, AroundEvidence
<1>4. CASE ImplementerSucceeds
  BY <1>1, <1>4, RoleFacts DEF ImplementerSucceeds
<1>5. ASSUME NEW r \in ReviewRoles, NEW d \in {"approve", "reject"}, ReviewerDecides(r, d)
      PROVE  Evidence'
  BY <1>5, ReviewerEvidence DEF ReviewerDecides
<1>6. ASSUME NEW r \in Roles, NEW k \in {"failed", "bad"}, WorkerFails(r, k) PROVE Evidence'
  BY <1>1, <1>6 DEF WorkerFails
<1>7. ASSUME NEW r \in Roles, WorkerQuota(r) PROVE Evidence'
  BY <1>1, <1>7 DEF WorkerQuota
<1>8. ASSUME NEW r \in Roles, UnitKilled(r) PROVE Evidence'
  <2>1. UNCHANGED <<disk, gh, ghost>>
    BY <1>8 DEF UnitKilled
  <2> QED
    BY <1>0, <2>1, AroundEvidence, RoleFacts DEF ReviewsKept
<1> QED
  BY <1>2, <1>3, <1>4, <1>5, <1>6, <1>7, <1>8 DEF WorkerSteps

\* A later release reads the decision that was made.
LEMMA FixEvidence == TypeOK /\ UnitsByPhase /\ Evidence /\ ReviewEnvironment => Evidence'
<1> SUFFICES ASSUME TypeOK, UnitsByPhase, Evidence, ReviewEnvironment PROVE Evidence'
  OBVIOUS
<1>0. disk \in Disk /\ disk.result \in [Roles -> Result] /\ ghost \in Ghost
  BY DEF TypeOK, Disk
<1>1. PICK r \in ReviewRoles, d \in {"approve", "reject"} : ProtocolFix(r, d)
  BY DEF ReviewEnvironment
<1>2. /\ pc = "idle" /\ UNCHANGED <<unit, gh, pc>>
      /\ disk'.result = [disk.result EXCEPT ![r].kind = d]
      /\ disk'.job = disk.job /\ disk'.meta = disk.meta /\ disk'.clone = disk.clone
      /\ ghost'.reviews = ghost.reviews \cup
           {[role |-> r, provider |-> disk.job[r].provider, head |-> disk.meta[r].head,
             decision |-> d]}
  BY <1>0, <1>1 DEF ProtocolFix, Disk, Ghost
<1>3. disk'.result[r].kind = d /\ \A s \in Roles : s # r => disk'.result[s] = disk.result[s]
  BY <1>0, <1>2, RoleFacts DEF Result
<1>4. VerdictOf(r)' \in ghost'.reviews
  BY <1>2, <1>3 DEF VerdictOf
<1>5. EvidenceGenuine' /\ Recorded' /\ Reading'
  BY <1>2, <1>3, <1>4, RoleFacts
  DEF Evidence, EvidenceGenuine, Recorded, Reading, VerdictOf, Active
<1> QED
  BY <1>2, <1>5 DEF Evidence, CallIsAboutHead, Calling, SpawnReviewLabels, SpawnLabels

LEMMA InitEvidence == Init => Evidence
  BY RoleFacts
  DEF Init, Evidence, EvidenceGenuine, Recorded, Reading, CallIsAboutHead, Calling, Active,
      ParsesReview, NoResult, Simple, SpawnReviewLabels, SpawnLabels

LEMMA EvidenceStep == TypeOK /\ UnitsByPhase /\ Known /\ Evidence /\ [Next]_vars => Evidence'
<1> SUFFICES ASSUME TypeOK, UnitsByPhase, Known, Evidence, [Next]_vars PROVE Evidence'
  OBVIOUS
<1>1. CASE ReviewSteps
  BY <1>1, PublishEvidence, SpawnReviewEvidence, DispatchReviewEvidence, ConsumeEvidence,
     OperatorEvidence
  DEF ReviewSteps
<1>2. CASE CooldownSteps \/ SpawnSteps \/ ImplementationSteps \/ MergeGateSteps
  BY <1>2, CooldownEvidence, SpawnEvidence, ImplementationEvidence, MergeGateEvidence
<1>3. CASE BrokerStops \/ BrokerRaises
  <2>1. UNCHANGED <<disk, unit, gh, ghost>> /\ pc' = "idle"
    BY <1>3 DEF BrokerStops, BrokerRaises, Return
  <2> QED
    BY <2>1, ElsewhereEvidence DEF ReviewsKept, Calling, SpawnReviewLabels, SpawnLabels
<1>4. CASE WorkerSteps \/ ReviewEnvironment
  BY <1>4, WorkerEvidence, FixEvidence
<1>5. CASE CooldownEnvironment \/ GitHubSteps \/ UNCHANGED vars
  <2>1. UNCHANGED <<disk, unit, ghost, pc, act>> /\ gh'.comments = gh.comments /\ act \in Act
    BY <1>5
    DEF TypeOK, GitHub, CooldownEnvironment, OtherIssueQuota, CooldownEnds, GitHubSteps,
        HumanPush, BaseAdvances, CiReports, HumanHold, vars
  <2> QED
    BY <2>1, AroundEvidence, RoleFacts DEF ReviewsKept
<1> QED
  BY <1>1, <1>2, <1>3, <1>4, <1>5 DEF Next

LEMMA EvidenceHolds == Spec => []Evidence
  BY InitEvidence, EvidenceStep, InitKnown, KnownStep, TypeCorrect, PhasesHold, PTL DEF Spec

\* The signed review evidence on the pull request is what a reviewer decided
\* about that very commit, whatever was pushed, retried, replaced or replayed.
THEOREM EvidenceIsGenuine == Spec => []EvidenceGenuine
  BY EvidenceHolds, PTL DEF Evidence
=============================================================================
