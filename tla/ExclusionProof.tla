-------------------------- MODULE ExclusionProof --------------------------
(***************************************************************************)
(* Who runs when, whatever the constants are.  The implementer never runs  *)
(* together with a reviewer: UnitsByPhase is inductive relative to TypeOK. *)
(* And an active unit has its clone and its own job record.                *)
(***************************************************************************)
EXTENDS Exclusion, TypesProof

\* How the sets of roles relate.
LEMMA RoleFacts ==
  /\ "implementer" \in Roles /\ ReviewRoles \subseteq Roles /\ "implementer" \notin ReviewRoles
  /\ RequiredRoles \subseteq ReviewRoles /\ "reviewer" \in RequiredRoles
  /\ \A r \in Roles : r # "implementer" => r \in ReviewRoles
  /\ HighRisk => "security-reviewer" \in RequiredRoles
  BY DEF Roles, ReviewRoles, RequiredRoles

\* A step of a handler that holds no unit and starts none may go anywhere that
\* asks for nothing but quiet.
LEMMA QuietStep ==
  ASSUME NoUnitActive, unit' = unit,
         pc' \in (QuietLabels \ {"retry_budget"}) \cup {"idle", "operator_report"}
  PROVE  UnitsByPhase'
<1>1. NoUnitActive' /\ NoReviewer' /\ \A r \in Roles : ~Active(r)'
  BY RoleFacts DEF NoUnitActive, NoReviewer, Active
<1>2. ExclusiveClone' /\ UnitsByStatus' /\ UnitsRecorded'
  BY <1>1, RoleFacts DEF ExclusiveClone, UnitsByStatus, UnitsRecorded
<1>3. UnitsByLabel'
  BY <1>1, RoleFacts DEF UnitsByLabel
<1>4. StatusByLabel' /\ CallsByLabel'
  BY DEF StatusByLabel, CallsByLabel, QuietLabels, SpawnLabels, SpawnReviewLabels
<1> QED
  BY <1>2, <1>3, <1>4 DEF UnitsByPhase

\* Nothing about the units changes with an unchanged item.
LEMMA StatusKept == UnitsByPhase /\ UNCHANGED <<item, unit>> => UnitsByStatus'
  BY DEF UnitsByPhase, UnitsByStatus, NoUnitActive, NoReviewer, Active

\* The handler ends in a status that fits the units.
LEMMA IdleStep ==
  ASSUME UnitsByPhase, unit' = unit, UnitsByStatus', pc' \in {"idle", "operator_report"},
         Active("implementer") => disk'.job["implementer"] # NoJob
  PROVE  UnitsByPhase'
<1>1. ExclusiveClone' /\ UnitsRecorded'
  BY DEF UnitsByPhase, ExclusiveClone, UnitsRecorded, Active
<1>2. UnitsByLabel' /\ StatusByLabel' /\ CallsByLabel'
  BY DEF UnitsByLabel, StatusByLabel, CallsByLabel, QuietLabels, ImplementerLabels,
     ReviewerLabels, SpawnReviewLabels, SpawnLabels
<1> QED
  BY <1>1, <1>2 DEF UnitsByPhase

\* Ending the handler without a write to the item or a job record is safe in
\* every phase: this is why a crash is.
LEMMA EndingStep ==
  ASSUME UnitsByPhase, UNCHANGED <<item, unit>>, pc' \in {"idle", "operator_report"},
         disk'.job["implementer"] = disk.job["implementer"]
  PROVE  UnitsByPhase'
  BY StatusKept, IdleStep DEF UnitsByPhase, UnitsRecorded

\* While no reviewer runs, the implementer's handlers may go on.
LEMMA ImplementerStep ==
  ASSUME UnitsByPhase, NoReviewer, unit' = unit, UnitsByStatus', pc' \in ImplementerLabels,
         Active("implementer") => disk'.job["implementer"] # NoJob,
         pc' \in {"recover_launch", "launch_settled"} => act'.next \in {"reconcile", "retry"}
  PROVE  UnitsByPhase'
<1>1. ExclusiveClone' /\ UnitsRecorded' /\ NoReviewer'
  BY DEF UnitsByPhase, ExclusiveClone, UnitsRecorded, Active, NoReviewer
<1>2. UnitsByLabel' /\ StatusByLabel' /\ CallsByLabel'
  BY <1>1 DEF UnitsByLabel, StatusByLabel, CallsByLabel, QuietLabels, ImplementerLabels,
     ReviewerLabels, SpawnReviewLabels, SpawnLabels
<1> QED
  BY <1>1, <1>2 DEF UnitsByPhase

\* After the implementer has ended, a handler may park the item or finish the
\* publication or the review.
LEMMA ReviewerStep ==
  ASSUME UnitsByPhase, ~Active("implementer"), unit' = unit, UnitsByStatus',
         pc' \in ReviewerLabels \ (SpawnReviewLabels \cup {"review_security", "consume"})
  PROVE  UnitsByPhase'
<1>1. ExclusiveClone' /\ UnitsRecorded' /\ ~Active("implementer")'
  BY DEF UnitsByPhase, ExclusiveClone, UnitsRecorded, Active
<1>2. UnitsByLabel' /\ StatusByLabel' /\ CallsByLabel'
  BY <1>1 DEF UnitsByLabel, StatusByLabel, CallsByLabel, QuietLabels, ImplementerLabels,
     ReviewerLabels, SpawnReviewLabels, SpawnLabels
<1> QED
  BY <1>1, <1>2 DEF UnitsByPhase

\* spawn-agent is called for the implementer while nobody runs.
LEMMA SpawnImplementerStep ==
  ASSUME UnitsByPhase, NoUnitActive, act \in Act, NEW p,
         NEW next \in {"idle", "dispatch_done", "retry_spent"},
         item.status \in {"CLAIMED", "IN_PROGRESS", "WAITING_HUMAN"},
         SpawnAgent("implementer", p, next), UNCHANGED <<item, unit>>
  PROVE  UnitsByPhase'
<1>1. pc' = "spawn" /\ act'.role = "implementer" /\ act'.next = next
  BY DEF SpawnAgent, Act
<1>2. NoUnitActive' /\ NoReviewer' /\ ~Active("implementer")'
  BY RoleFacts DEF NoUnitActive, NoReviewer, Active
<1>3. ExclusiveClone' /\ UnitsRecorded' /\ UnitsByStatus'
  BY <1>2, RoleFacts, StatusKept DEF ExclusiveClone, UnitsRecorded, NoReviewer, NoUnitActive
<1>4. UnitsByLabel'
  BY <1>1, <1>2 DEF UnitsByLabel, QuietLabels, ImplementerLabels, ReviewerLabels,
     SpawnReviewLabels
<1>5. StatusByLabel' /\ CallsByLabel'
  BY <1>1 DEF StatusByLabel, CallsByLabel, SpawnReviewLabels
<1> QED
  BY <1>3, <1>4, <1>5 DEF UnitsByPhase

\* spawn_review is called for a required role while no implementer runs.
LEMMA CallReviewStep ==
  ASSUME UnitsByPhase, ~Active("implementer"), NEW a \in Act, NEW r \in RequiredRoles,
         NEW p, NEW tries, NEW recovery,
         NEW next \in {"review_security", "review_status", "review_note"},
         next = "review_security" => HighRisk,
         item.status \in {"IMPLEMENTED", "REVIEWING", "WAITING_HUMAN"},
         CallReview(a, r, p, tries, recovery, next), UNCHANGED <<item, disk, unit>>
  PROVE  UnitsByPhase'
<1>1. pc' = "review_check" /\ act'.role = r /\ act'.next = next
  BY DEF CallReview, Act
<1>2. ExclusiveClone' /\ UnitsRecorded' /\ UnitsByStatus'
  BY DEF UnitsByPhase, ExclusiveClone, UnitsRecorded, UnitsByStatus, NoUnitActive, NoReviewer,
         Active
<1>3. UnitsByLabel'
  BY <1>1 DEF UnitsByLabel, QuietLabels, ImplementerLabels, SpawnLabels, Active
<1>4. StatusByLabel' /\ CallsByLabel'
  BY <1>1 DEF StatusByLabel, CallsByLabel, SpawnLabels, SpawnReviewLabels
<1> QED
  BY <1>2, <1>3, <1>4 DEF UnitsByPhase

\* What the workers, the people and GitHub do: units may end, and a person may
\* move the item to WAITING_HUMAN.
LEMMA EnvironmentStep ==
  ASSUME UnitsByPhase, \A r \in Roles : Active(r)' => Active(r),
         item'.status \in {item.status, "WAITING_HUMAN"},
         disk'.job = disk.job, pc' = pc, act' = act
  PROVE  UnitsByPhase'
<1>1. /\ NoUnitActive => NoUnitActive'
      /\ NoReviewer => NoReviewer'
      /\ ~Active("implementer") => ~Active("implementer")'
      /\ ~Active("reviewer") => ~Active("reviewer")'
  BY RoleFacts DEF NoUnitActive, NoReviewer, ReviewRoles
<1>2. ExclusiveClone' /\ UnitsRecorded'
  BY RoleFacts DEF UnitsByPhase, ExclusiveClone, UnitsRecorded
<1>3. UnitsByStatus'
  <2>1. CASE item'.status = item.status
    BY <1>1, <2>1 DEF UnitsByPhase, UnitsByStatus
  <2>2. CASE item'.status = "WAITING_HUMAN"
    BY <2>2 DEF UnitsByStatus
  <2> QED
    BY <2>1, <2>2
<1>4. UnitsByLabel'
  BY <1>1 DEF UnitsByPhase, UnitsByLabel
<1>5. StatusByLabel' /\ CallsByLabel'
  BY DEF UnitsByPhase, StatusByLabel, CallsByLabel
<1> QED
  BY <1>2, <1>3, <1>4, <1>5 DEF UnitsByPhase

\* An item is parked after its worker has ended, and recovered when none is active.
LEMMA CooldownPhase == TypeOK /\ UnitsByPhase /\ CooldownSteps => UnitsByPhase'
<1> SUFFICES ASSUME TypeOK, UnitsByPhase, CooldownSteps PROVE UnitsByPhase'
  OBVIOUS
<1>1. /\ pc \in QuietLabels => NoUnitActive
      /\ pc \in {"quota_mark", "queue", "queue_status"} => ~Active("implementer")
  BY DEF UnitsByPhase, UnitsByLabel, ReviewerLabels
<1>2. CASE QuotaMark \/ QueueWait
  BY <1>1, <1>2, StatusKept, ReviewerStep
  DEF QuotaMark, QueueWait, Goto, ReviewerLabels, SpawnReviewLabels
<1>3. CASE QueueStatus
  <2>1. /\ item'.status = "WAITING_PROVIDER" /\ ~Active("implementer") /\ pc' = "idle"
        /\ unit' = unit
    BY <1>1, <1>3 DEF QueueStatus, Explain, Return, TypeOK, Item
  <2>2. UnitsByStatus'
    BY <2>1 DEF UnitsByStatus, Active
  <2> QED
    BY <2>1, <2>2, IdleStep
<1>4. CASE RecoverStart
  BY <1>4, QuietStep DEF RecoverStart, QuietLabels
<1>5. CASE RecoverSelect \/ RecoverField \/ RecoverResume \/ RecoverReview \/ RecoverReviewStatus
  BY <1>1, <1>5, QuietStep
  DEF RecoverSelect, RecoverField, RecoverResume, RecoverReview, RecoverReviewStatus, Goto,
      Return, QuietLabels
<1> QED
  BY <1>2, <1>3, <1>4, <1>5 DEF CooldownSteps

\* spawn-agent's writes before the unit is started.
LEMMA SpawnMoves ==
  ASSUME UnitsByPhase, pc \in SpawnLabels, pc' \in SpawnLabels, act' = act,
         UNCHANGED <<item, unit>>,
         disk'.job["implementer"] = disk.job["implementer"] \/ ~Active("implementer")
  PROVE  UnitsByPhase'
<1>1. ExclusiveClone' /\ UnitsRecorded' /\ UnitsByStatus'
  BY StatusKept DEF UnitsByPhase, ExclusiveClone, UnitsRecorded, Active
<1>2. UnitsByLabel'
  BY DEF UnitsByPhase, UnitsByLabel, QuietLabels, ImplementerLabels, ReviewerLabels,
     SpawnReviewLabels, SpawnLabels, NoReviewer, Active
<1>3. StatusByLabel' /\ CallsByLabel'
  BY DEF UnitsByPhase, StatusByLabel, CallsByLabel, SpawnLabels, SpawnReviewLabels
<1> QED
  BY <1>1, <1>2, <1>3 DEF UnitsByPhase

\* spawn-agent starts the unit it was called for.
LEMMA SpawnPhase == TypeOK /\ UnitsByPhase /\ SpawnSteps => UnitsByPhase'
<1> SUFFICES ASSUME TypeOK, UnitsByPhase, SpawnSteps PROVE UnitsByPhase'
  OBVIOUS
<1>0. act \in Act /\ disk \in Disk /\ disk.job \in [Roles -> Job] /\ unit \in [Roles -> Job]
  BY DEF TypeOK, Disk
<1>1. CASE SpawnTruncate
  <2>1. /\ pc = "spawn" /\ pc' = "spawn_job" /\ act' = act /\ UNCHANGED <<item, unit>>
        /\ disk'.job = disk.job
    BY <1>0, <1>1 DEF SpawnTruncate, Goto, Disk
  <2> QED
    BY <2>1, SpawnMoves DEF SpawnLabels
<1>2. CASE SpawnRefused
  BY <1>2, EndingStep DEF SpawnRefused, Return
<1>3. CASE SpawnJob
  <2>1. /\ pc = "spawn_job" /\ pc' = "spawn_unit" /\ act' = act /\ UNCHANGED <<item, unit>>
        /\ ~Active(act.role)
    BY <1>3 DEF SpawnJob, Goto
  <2>2. disk'.job["implementer"] = disk.job["implementer"] \/ ~Active("implementer")
    BY <1>0, <1>3, <2>1 DEF SpawnJob, Disk
  <2> QED
    BY <2>1, <2>2, SpawnMoves DEF SpawnLabels
<1>4. CASE SpawnUnit
  <2>1. /\ pc = "spawn_unit" /\ pc' = act.next /\ UNCHANGED <<item, disk>>
        /\ act' = IF act.next = "idle" THEN NoAct ELSE act
    BY <1>4 DEF SpawnUnit, Resume
  <2>2. \A r \in Roles : Active(r)' => Active(r) \/ r = act.role
    BY <1>0, <1>4 DEF SpawnUnit, Active
  <2>3. CASE act.role = "implementer"
    <3>1. /\ NoReviewer' /\ item.status \in {"CLAIMED", "IN_PROGRESS", "WAITING_HUMAN"}
          /\ act.next \in {"idle", "dispatch_done", "retry_spent"}
      BY <2>1, <2>2, <2>3, RoleFacts
      DEF UnitsByPhase, UnitsByLabel, StatusByLabel, CallsByLabel, SpawnLabels, NoReviewer
    <3>2. Active("implementer")' => disk'.job["implementer"] # NoJob
      BY <1>0, <1>4, <2>3 DEF SpawnUnit, Active, Roles
    <3>3. ExclusiveClone' /\ UnitsRecorded' /\ UnitsByStatus'
      BY <2>1, <3>1, <3>2 DEF ExclusiveClone, UnitsRecorded, UnitsByStatus, NoReviewer
    <3>4. UnitsByLabel' /\ StatusByLabel' /\ CallsByLabel'
      BY <2>1, <3>1 DEF UnitsByLabel, StatusByLabel, CallsByLabel, QuietLabels,
         ImplementerLabels, ReviewerLabels, SpawnReviewLabels, SpawnLabels
    <3> QED
      BY <3>3, <3>4 DEF UnitsByPhase
  <2>4. CASE act.role # "implementer"
    <3>1. /\ ~Active("implementer")' /\ act.role \in RequiredRoles
          /\ item.status \in {"IMPLEMENTED", "REVIEWING", "WAITING_HUMAN"}
          /\ act.next \in {"review_security", "review_status", "review_note"}
          /\ act.next = "review_security" => HighRisk
      BY <2>1, <2>2, <2>4, RoleFacts
      DEF UnitsByPhase, UnitsByLabel, StatusByLabel, CallsByLabel, SpawnLabels
    <3>2. \A r \in ReviewRoles \ RequiredRoles : ~Active(r)'
      BY <2>2, <3>1, RoleFacts DEF UnitsByPhase, UnitsRecorded
    <3>3. ExclusiveClone' /\ UnitsRecorded' /\ UnitsByStatus'
      BY <2>1, <3>1, <3>2 DEF ExclusiveClone, UnitsRecorded, UnitsByStatus
    <3>4. UnitsByLabel' /\ StatusByLabel' /\ CallsByLabel'
      BY <2>1, <3>1 DEF UnitsByLabel, StatusByLabel, CallsByLabel, QuietLabels,
         ImplementerLabels, ReviewerLabels, SpawnReviewLabels, SpawnLabels
    <3> QED
      BY <3>3, <3>4 DEF UnitsByPhase
  <2> QED
    BY <2>3, <2>4
<1> QED
  BY <1>1, <1>2, <1>3, <1>4 DEF SpawnSteps

\* dispatch starts from READY, which no unit survives.
LEMMA DispatchPhase == TypeOK /\ UnitsByPhase /\ DispatchSteps => UnitsByPhase'
<1> SUFFICES ASSUME TypeOK, UnitsByPhase, DispatchSteps PROVE UnitsByPhase'
  OBVIOUS
<1>0. /\ pc \in QuietLabels => NoUnitActive
      /\ item.status = "READY" => NoUnitActive
      /\ pc = "dispatch_done" => NoReviewer
  BY DEF UnitsByPhase, UnitsByLabel, UnitsByStatus, ImplementerLabels
<1>1. CASE \/ DispatchClaim \/ DispatchStale \/ DispatchClone \/ DispatchMeta \/ DispatchPack
           \/ DispatchFails \/ UnwindFiles \/ UnwindStatus
  BY <1>0, <1>1, QuietStep
  DEF DispatchClaim, DispatchStale, DispatchClone, DispatchMeta, DispatchPack, DispatchFails,
      UnwindFiles, UnwindStatus, Goto, Return, SetStatus, QuietLabels
<1>2. CASE DispatchStart
  <2>1. NoUnitActive /\ UNCHANGED <<item, unit>> /\ pc' \in {"queue", "dispatch_claim"}
    BY <1>0, <1>2 DEF DispatchStart, Queue, Accept
  <2>2. CASE pc' = "queue"
    BY <2>1, <2>2, RoleFacts, StatusKept, ReviewerStep
    DEF NoUnitActive, ReviewerLabels, SpawnReviewLabels
  <2>3. CASE pc' = "dispatch_claim"
    BY <2>1, <2>3, QuietStep DEF QuietLabels
  <2> QED
    BY <2>1, <2>2, <2>3
<1>3. CASE DispatchSpawn
  <2>1. NoUnitActive /\ act \in Act /\ UNCHANGED <<item, unit>>
    BY <1>0, <1>3 DEF DispatchSpawn, QuietLabels, TypeOK
  <2>2. CASE StatusFresh
    <3>1. item.status = "CLAIMED"
      BY <1>3, <2>2 DEF DispatchSpawn, StatusFresh, Expected
    <3>2. SpawnAgent("implementer", act.provider, "dispatch_done")
      BY <1>3, <2>2 DEF DispatchSpawn
    <3> QED
      BY <2>1, <3>1, <3>2, SpawnImplementerStep
  <2>3. CASE ~StatusFresh
    BY <1>3, <2>1, <2>3, QuietStep DEF DispatchSpawn, Goto, QuietLabels
  <2> QED
    BY <2>2, <2>3
<1>4. CASE DispatchDone
  <2>1. /\ item'.status = "IN_PROGRESS" /\ NoReviewer /\ pc' = "idle"
        /\ UNCHANGED <<disk, unit>>
    BY <1>0, <1>4 DEF DispatchDone, SetStatus, Return, TypeOK, Item
  <2>2. UnitsByStatus'
    BY <2>1 DEF UnitsByStatus, NoReviewer, Active
  <2> QED
    BY <2>1, <2>2, IdleStep DEF UnitsByPhase, UnitsRecorded
<1> QED
  BY <1>1, <1>2, <1>3, <1>4 DEF DispatchSteps

\* recover_quota_launch restores the files only of an attempt that is not running.
LEMMA LaunchPhase == TypeOK /\ UnitsByPhase /\ LaunchSteps => UnitsByPhase'
<1> SUFFICES ASSUME TypeOK, UnitsByPhase, LaunchSteps PROVE UnitsByPhase'
  OBVIOUS
<1>0. /\ pc \in {"recover_launch", "launch_settled"} =>
           act.next \in {"reconcile", "retry"} /\ NoReviewer
      /\ pc \in {"launch_status", "launch_closed"} => NoReviewer
      /\ Active("implementer") => disk.job["implementer"] # NoJob
      /\ disk \in Disk
  BY DEF UnitsByPhase, UnitsByLabel, CallsByLabel, ImplementerLabels, UnitsRecorded, TypeOK
<1>1. CASE LaunchSpent \/ LaunchSettled
  <2>1. /\ pc \in {"recover_launch", "launch_settled"} /\ UNCHANGED <<item, unit, act>>
        /\ pc' \in {"launch_settled", "reconcile", "retry"}
    BY <1>0, <1>1 DEF LaunchSpent, LaunchSettled, Goto
  <2>2. disk'.job = disk.job
    BY <1>0, <1>1 DEF LaunchSpent, LaunchSettled, Disk
  <2> QED
    BY <1>0, <2>1, <2>2, StatusKept, ImplementerStep DEF ImplementerLabels
<1>2. CASE LaunchRestored
  BY <1>0, <1>2, StatusKept, ImplementerStep DEF LaunchRestored, Goto, ImplementerLabels
<1>3. CASE LaunchStatus
  <2>1. /\ item'.status = "RETRY_PENDING" /\ NoReviewer /\ pc' = "launch_closed"
        /\ UNCHANGED <<disk, unit>>
    BY <1>0, <1>3 DEF LaunchStatus, SetStatus, Goto, TypeOK, Item
  <2>2. UnitsByStatus'
    BY <2>1 DEF UnitsByStatus, NoReviewer, Active
  <2> QED
    BY <1>0, <2>1, <2>2, ImplementerStep DEF ImplementerLabels
<1>4. CASE LaunchClosed \/ LaunchKept
  BY <1>0, <1>4, EndingStep DEF LaunchClosed, LaunchKept, Return, Disk
<1> QED
  BY <1>1, <1>2, <1>3, <1>4 DEF LaunchSteps

\* An implementation handler starts in a status in which no reviewer runs.
LEMMA ImplementationStartPhase ==
  ASSUME TypeOK, UnitsByPhase, NEW l \in {"reconcile", "retry"},
         ImplementationStart({"CLAIMED", "IN_PROGRESS"}, l)
         \/ ImplementationStart({"RETRY_PENDING", "CHANGES_REQUESTED"}, l)
  PROVE  UnitsByPhase'
<1>1. /\ item.status \in {"CLAIMED", "IN_PROGRESS", "RETRY_PENDING", "CHANGES_REQUESTED"}
      /\ UNCHANGED <<item, disk, unit>> /\ pc' \in {"recover_launch", l}
      /\ act' = [Payload EXCEPT !.next = l]
  BY DEF ImplementationStart
<1>2. act'.next = l
  BY <1>1, PayloadType DEF Act
<1>3. NoReviewer
  BY <1>1, RoleFacts DEF UnitsByPhase, UnitsByStatus, NoUnitActive, NoReviewer
<1> QED
  BY <1>1, <1>2, <1>3, StatusKept, ImplementerStep DEF ImplementerLabels, UnitsByPhase,
     UnitsRecorded

\* reconcile_implementation leaves a running implementer alone.
LEMMA ReconcilePhase == TypeOK /\ UnitsByPhase /\ ReconcileSteps => UnitsByPhase'
<1> SUFFICES ASSUME TypeOK, UnitsByPhase, ReconcileSteps PROVE UnitsByPhase'
  OBVIOUS
<1>0. /\ pc \in QuietLabels => NoUnitActive
      /\ pc = "reconcile" => NoReviewer
      /\ Active("implementer") => disk.job["implementer"] # NoJob
      /\ disk \in Disk /\ item \in Item
  BY DEF UnitsByPhase, UnitsByLabel, ImplementerLabels, UnitsRecorded, TypeOK
<1>1. CASE ReconcileStart
  BY <1>1, ImplementationStartPhase DEF ReconcileStart
<1>2. CASE ReconcileReady
  BY <1>0, <1>2, QuietStep DEF ReconcileReady, Return, QuietLabels
<1>3. CASE ReconcileAbandoned
  <2>1. ~Active("implementer") /\ NoReviewer /\ unit' = unit
    BY <1>0, <1>3 DEF ReconcileAbandoned
  <2>2. NoUnitActive
    BY <2>1, RoleFacts DEF NoUnitActive, NoReviewer
  <2>3. pc' \in {"reconcile_ready", "idle"}
    BY <1>3 DEF ReconcileAbandoned, Goto, Return
  <2> QED
    BY <2>1, <2>2, <2>3, QuietStep DEF QuietLabels
<1>4. CASE ReconcileQuota
  BY <1>4, StatusKept, ReviewerStep
  DEF ReconcileQuota, WorkerEnded, Queue, ReviewerLabels, SpawnReviewLabels
<1>5. CASE ReconcileFailure \/ ReconcileSuccess
  <2>1. ~Active("implementer") /\ NoReviewer /\ unit' = unit /\ pc' = "idle"
    BY <1>0, <1>5 DEF ReconcileFailure, ReconcileSuccess, WorkerEnded, Return
  <2>2. NoUnitActive
    BY <2>1, RoleFacts DEF NoUnitActive, NoReviewer
  <2> QED
    BY <2>1, <2>2, QuietStep
<1>6. CASE ReconcileNothing
  BY <1>6, EndingStep DEF ReconcileNothing, Return
<1> QED
  BY <1>1, <1>2, <1>3, <1>4, <1>5, <1>6 DEF ReconcileSteps

\* retry_implementation refuses while the implementer runs, so nobody runs from then on.
LEMMA RetryPhase == TypeOK /\ UnitsByPhase /\ RetrySteps => UnitsByPhase'
<1> SUFFICES ASSUME TypeOK, UnitsByPhase, RetrySteps PROVE UnitsByPhase'
  OBVIOUS
<1>0. /\ pc \in QuietLabels => NoUnitActive
      /\ pc \in {"retry", "retry_spent", "retry_close"} => NoReviewer
      /\ Active("implementer") => disk.job["implementer"] # NoJob
      /\ disk \in Disk /\ item \in Item /\ act \in Act
  BY DEF UnitsByPhase, UnitsByLabel, ImplementerLabels, UnitsRecorded, TypeOK
<1>1. CASE \/ RetryTx \/ RetryPack \/ RetryUnlinkJob \/ RetryUnlinkResult \/ RetryCount
           \/ RetryStatus \/ RetryGuardFails \/ RetryRestore \/ RetryUncount \/ RetryUnstatus
  BY <1>0, <1>1, QuietStep
  DEF RetryTx, RetryPack, RetryUnlinkJob, RetryUnlinkResult, RetryCount, RetryStatus,
      RetryGuardFails, RetryRestore, RetryUncount, RetryUnstatus, Goto, Return, SetStatus,
      QuietLabels
<1>2. CASE RetryStart
  BY <1>2, ImplementationStartPhase DEF RetryStart
<1>3. CASE RetryLimit
  <2>1. item'.status = "WAITING_HUMAN" /\ pc' = "idle" /\ UNCHANGED <<disk, unit>>
    BY <1>0, <1>3 DEF RetryLimit, Explain, Return, Item
  <2>2. UnitsByStatus'
    BY <2>1 DEF UnitsByStatus
  <2> QED
    BY <1>0, <2>1, <2>2, IdleStep
<1>4. CASE RetryPrepare
  <2>1. ~Active("implementer") /\ NoReviewer /\ unit' = unit /\ pc' \in {"retry_tx", "retry_pack"}
    BY <1>0, <1>4 DEF RetryPrepare, RetryAllowed
  <2>2. NoUnitActive
    BY <2>1, RoleFacts DEF NoUnitActive, NoReviewer
  <2> QED
    BY <2>1, <2>2, QuietStep DEF QuietLabels
<1>5. CASE RetryRefused
  BY <1>5, EndingStep DEF RetryRefused, Return
<1>6. CASE RetryGuard
  <2>1. NoUnitActive /\ item.status = "IN_PROGRESS" /\ UNCHANGED <<item, unit>>
    BY <1>0, <1>6 DEF RetryGuard, RetryStateFresh, QuietLabels
  <2>2. CASE Correction
    <3>1. pc' = "retry_budget"
      BY <1>6, <2>2 DEF RetryGuard, Goto
    <3>2. NoUnitActive' /\ NoReviewer' /\ ~Active("implementer")'
      BY <2>1, RoleFacts DEF NoUnitActive, NoReviewer, Active
    <3>3. ExclusiveClone' /\ UnitsRecorded' /\ UnitsByStatus'
      BY <2>1, <3>2, RoleFacts, StatusKept DEF ExclusiveClone, UnitsRecorded, NoReviewer
    <3>4. UnitsByLabel' /\ StatusByLabel' /\ CallsByLabel'
      BY <2>1, <3>1, <3>2 DEF UnitsByLabel, StatusByLabel, CallsByLabel, ImplementerLabels,
         ReviewerLabels, SpawnReviewLabels, SpawnLabels
    <3> QED
      BY <3>3, <3>4 DEF UnitsByPhase
  <2>3. CASE ~Correction
    <3>1. PICK next \in {"retry_spent", "idle"} : SpawnAgent("implementer", act.provider, next)
      BY <1>6, <2>3 DEF RetryGuard
    <3> QED
      BY <1>0, <2>1, <3>1, SpawnImplementerStep
  <2> QED
    BY <2>2, <2>3
<1>7. CASE RetryBudget
  <2>1. /\ NoUnitActive /\ UNCHANGED <<item, unit>>
        /\ SpawnAgent("implementer", act.provider, "idle")
    BY <1>0, <1>7 DEF RetryBudget, QuietLabels
  <2>2. item.status \in {"CLAIMED", "IN_PROGRESS", "WAITING_HUMAN"}
    BY <1>7 DEF RetryBudget, UnitsByPhase, StatusByLabel
  <2> QED
    BY <1>0, <2>1, <2>2, SpawnImplementerStep
<1>8. CASE RetrySpent
  <2>1. NoReviewer /\ UNCHANGED <<item, unit>> /\ pc' = "retry_close" /\ disk'.job = disk.job
    BY <1>0, <1>8 DEF RetrySpent, Goto, Disk
  <2> QED
    BY <1>0, <2>1, StatusKept, ImplementerStep DEF ImplementerLabels
<1>9. CASE RetryClose
  BY <1>0, <1>9, EndingStep DEF RetryClose, Return, Disk
<1> QED
  BY <1>1, <1>2, <1>3, <1>4, <1>5, <1>6, <1>7, <1>8, <1>9 DEF RetrySteps

\* publish_pr, while reviewers of an interrupted dispatch may still run.
LEMMA PublishPhase == TypeOK /\ UnitsByPhase /\ PublishSteps => UnitsByPhase'
<1> SUFFICES ASSUME TypeOK, UnitsByPhase, PublishSteps PROVE UnitsByPhase'
  OBVIOUS
<1>0. /\ item.status = "IMPLEMENTED" \/ pc \in {"publish_push", "publish_pr", "publish_hold"} =>
           ~Active("implementer")
      /\ Active("implementer") => disk.job["implementer"] # NoJob
      /\ item \in Item
  BY DEF UnitsByPhase, UnitsByStatus, UnitsByLabel, ReviewerLabels, UnitsRecorded, TypeOK
<1>1. CASE PublishStart
  BY <1>0, <1>1, StatusKept, ReviewerStep
  DEF PublishStart, Accept, ReviewerLabels, SpawnReviewLabels
<1>2. CASE PublishHold
  <2>1. item'.status = "WAITING_HUMAN" /\ pc' = "idle" /\ UNCHANGED <<disk, unit>>
    BY <1>0, <1>2 DEF PublishHold, SetStatus, Return, Item
  <2>2. UnitsByStatus'
    BY <2>1 DEF UnitsByStatus
  <2> QED
    BY <1>0, <2>1, <2>2, IdleStep
<1>3. CASE PublishPush
  <2>1. ~Active("implementer") /\ UNCHANGED <<item, disk, unit>> /\ pc' \in {"publish_pr", "idle"}
    BY <1>0, <1>3 DEF PublishPush, Goto, Return
  <2>2. CASE pc' = "publish_pr"
    BY <2>1, <2>2, StatusKept, ReviewerStep DEF ReviewerLabels, SpawnReviewLabels
  <2>3. CASE pc' = "idle"
    BY <2>1, <2>3, EndingStep
  <2> QED
    BY <2>1, <2>2, <2>3
<1>4. CASE PublishPr
  BY <1>4, EndingStep DEF PublishPr, Return
<1> QED
  BY <1>1, <1>2, <1>3, <1>4 DEF PublishSteps

\* spawn_review starts a required reviewer.
LEMMA SpawnReviewPhase == TypeOK /\ UnitsByPhase /\ SpawnReviewSteps => UnitsByPhase'
<1> SUFFICES ASSUME TypeOK, UnitsByPhase, SpawnReviewSteps PROVE UnitsByPhase'
  OBVIOUS
<1>0. act \in Act /\ disk \in Disk
  BY DEF TypeOK
<1>1. pc \in SpawnReviewLabels =>
        /\ ~Active("implementer") /\ act.role \in RequiredRoles /\ act.role # "implementer"
        /\ item.status \in {"IMPLEMENTED", "REVIEWING", "WAITING_HUMAN"}
        /\ act.next \in {"review_security", "review_status", "review_note"}
        /\ act.next = "review_security" => HighRisk
  BY RoleFacts
  DEF UnitsByPhase, UnitsByLabel, StatusByLabel, CallsByLabel, ReviewerLabels
<1>2. ASSUME pc \in SpawnReviewLabels, UNCHANGED <<item, unit>>, act'.role = act.role,
             act'.next = act.next, pc' \in SpawnReviewLabels \cup {"spawn"}
      PROVE  UnitsByPhase'
  <2>1. ExclusiveClone' /\ UnitsRecorded' /\ UnitsByStatus'
    BY <1>1, <1>2, StatusKept DEF UnitsByPhase, ExclusiveClone, UnitsRecorded, Active
  <2>2. UnitsByLabel'
    BY <1>1, <1>2 DEF UnitsByLabel, QuietLabels, ImplementerLabels, SpawnReviewLabels, Active
  <2>3. StatusByLabel' /\ CallsByLabel'
    BY <1>1, <1>2 DEF StatusByLabel, CallsByLabel, SpawnReviewLabels
  <2> QED
    BY <2>1, <2>2, <2>3 DEF UnitsByPhase
<1>3. CASE ReviewCheck
  <2>1. /\ pc \in SpawnReviewLabels /\ UNCHANGED <<item, disk, unit>>
        /\ \/ pc' = act.next /\ act.next # "idle" /\ act' = act
           \/ pc' = "idle"
           \/ pc' \in SpawnReviewLabels /\ act' = act
    BY <1>1, <1>3 DEF ReviewCheck, Resume, Return, Goto, SpawnReviewLabels
  <2>2. CASE pc' = act.next /\ act.next # "idle" /\ act' = act
    <3>1. ExclusiveClone' /\ UnitsRecorded' /\ UnitsByStatus'
      BY <1>1, <2>1, StatusKept DEF UnitsByPhase, ExclusiveClone, UnitsRecorded, Active
    <3>2. UnitsByLabel'
      BY <1>1, <2>1, <2>2
      DEF UnitsByLabel, QuietLabels, ImplementerLabels, SpawnLabels, Active
    <3>3. StatusByLabel' /\ CallsByLabel'
      BY <1>1, <2>1, <2>2 DEF StatusByLabel, CallsByLabel, SpawnLabels, SpawnReviewLabels
    <3> QED
      BY <3>1, <3>2, <3>3 DEF UnitsByPhase
  <2>3. CASE pc' = "idle"
    BY <2>1, <2>3, EndingStep
  <2>4. CASE pc' \in SpawnReviewLabels /\ act' = act
    BY <1>2, <2>1, <2>4
  <2> QED
    BY <2>1, <2>2, <2>3, <2>4
<1>4. CASE ReviewMeta
  <2>1. /\ pc \in SpawnReviewLabels /\ UNCHANGED <<item, unit>> /\ act'.role = act.role
        /\ act'.next = act.next /\ pc' \in {"review_pack", "spawn"}
    BY <1>0, <1>4 DEF ReviewMeta, SpawnAgent, Goto, SpawnReviewLabels, Act
  <2> QED
    BY <1>2, <2>1 DEF SpawnReviewLabels
<1>5. CASE ReviewPack \/ ReviewUnlinkResult \/ ReviewUnlinkJob
  <2>1. /\ pc \in SpawnReviewLabels /\ UNCHANGED <<item, unit, act>>
        /\ pc' \in SpawnReviewLabels
    BY <1>5 DEF ReviewPack, ReviewUnlinkResult, ReviewUnlinkJob, Goto, SpawnReviewLabels
  <2> QED
    BY <1>2, <2>1
<1> QED
  BY <1>3, <1>4, <1>5 DEF SpawnReviewSteps

\* dispatch_review and the replacement of a failed reviewer.
LEMMA DispatchReviewPhase == TypeOK /\ UnitsByPhase /\ DispatchReviewSteps => UnitsByPhase'
<1> SUFFICES ASSUME TypeOK, UnitsByPhase, DispatchReviewSteps PROVE UnitsByPhase'
  OBVIOUS
<1>0. /\ item \in Item /\ disk \in Disk /\ unit \in [Roles -> Job] /\ act \in Act
      /\ pc \in QuietLabels => NoUnitActive
  BY DEF TypeOK, UnitsByPhase, UnitsByLabel
<1>1. /\ Payload \in Act /\ [Payload EXCEPT !.quota = TRUE] \in Act
      /\ item.status = "IMPLEMENTED" => ~Active("implementer")
      /\ pc = "review_security" =>
           /\ ~Active("implementer") /\ HighRisk
           /\ item.status \in {"IMPLEMENTED", "REVIEWING", "WAITING_HUMAN"}
  <2>1. Payload \in Act
    BY PayloadType
  <2>2. [Payload EXCEPT !.quota = TRUE] \in Act
    BY <2>1 DEF Act
  <2>3. item.status = "IMPLEMENTED" => ~Active("implementer")
    BY DEF UnitsByPhase, UnitsByStatus
  <2>4. pc = "review_security" =>
          /\ ~Active("implementer") /\ HighRisk
          /\ item.status \in {"IMPLEMENTED", "REVIEWING", "WAITING_HUMAN"}
    BY DEF UnitsByPhase, UnitsByLabel, ReviewerLabels, StatusByLabel, CallsByLabel
  <2> QED
    BY <2>1, <2>2, <2>3, <2>4
<1>2. CASE DispatchReview
  <2>1. item.status = "IMPLEMENTED" /\ UNCHANGED <<item, disk, unit>>
    BY <1>2 DEF DispatchReview, ReviewReady
  <2>2. CASE Candidate("reviewer", item.provider) = 0
    <3>1. pc' = "queue"
      BY <1>2, <2>2 DEF DispatchReview, Queue
    <3> QED
      BY <1>1, <2>1, <3>1, StatusKept, ReviewerStep DEF ReviewerLabels, SpawnReviewLabels
  <2>3. CASE Candidate("reviewer", item.provider) # 0
    <3>1. PICK next \in {"review_security", "review_status"} :
            /\ CallReview(Payload, "reviewer", Candidate("reviewer", item.provider), 0, 0, next)
            /\ next = "review_security" => HighRisk
      BY <1>2, <2>3 DEF DispatchReview
    <3> QED
      BY <1>1, <2>1, <3>1, RoleFacts, CallReviewStep
  <2> QED
    BY <2>2, <2>3
<1>3. CASE DispatchSecurity
  <2>1. pc = "review_security" /\ UNCHANGED <<item, disk, unit>>
    BY <1>3 DEF DispatchSecurity
  <2>2. CASE Candidate("security-reviewer", act.provider) = 0
    <3>1. pc' = "idle"
      BY <1>3, <2>2 DEF DispatchSecurity, Return
    <3> QED
      BY <2>1, <3>1, EndingStep
  <2>3. CASE Candidate("security-reviewer", act.provider) # 0
    <3>1. CallReview(act, "security-reviewer", Candidate("security-reviewer", act.provider), 0, 0,
                     "review_status")
      BY <1>3, <2>3 DEF DispatchSecurity
    <3> QED
      BY <1>0, <1>1, <2>1, <3>1, RoleFacts, CallReviewStep
  <2> QED
    BY <2>2, <2>3
<1>4. CASE DispatchRecovery
  <2>1. item.status = "IMPLEMENTED" /\ UNCHANGED <<item, disk, unit>>
    BY <1>4 DEF DispatchRecovery, ReviewReady
  <2>2. disk.wait.role \in RequiredRoles
    BY <1>4 DEF DispatchRecovery
  <2>3. \/ pc' = "review_wait"
        \/ \E p, tries, recovery :
             CallReview([Payload EXCEPT !.quota = TRUE], disk.wait.role, p, tries, recovery,
                        "review_status")
    BY <1>4 DEF DispatchRecovery, Accept
  <2>4. CASE pc' = "review_wait"
    BY <1>1, <2>1, <2>4, StatusKept, ReviewerStep DEF ReviewerLabels, SpawnReviewLabels
  <2>5. ASSUME NEW p, NEW tries, NEW recovery,
               CallReview([Payload EXCEPT !.quota = TRUE], disk.wait.role, p, tries, recovery,
                          "review_status")
        PROVE  UnitsByPhase'
    BY <1>1, <2>1, <2>2, <2>5, CallReviewStep
  <2> QED
    BY <2>3, <2>4, <2>5
<1>5. CASE ReviewWait
  <2>1. /\ item'.status = "WAITING_PROVIDER" /\ ~Active("implementer") /\ pc' = "idle"
        /\ unit' = unit
    BY <1>0, <1>5
    DEF ReviewWait, SetStatus, Return, Item, UnitsByPhase, UnitsByLabel, ReviewerLabels
  <2>2. UnitsByStatus'
    BY <2>1 DEF UnitsByStatus, Active
  <2> QED
    BY <2>1, <2>2, IdleStep
<1>6. CASE ReviewStatus
  <2>1. /\ item'.status = "REVIEWING" /\ ~Active("implementer")
        /\ pc' \in {"review_spent", "idle"} /\ UNCHANGED <<disk, unit>>
    BY <1>0, <1>6
    DEF ReviewStatus, SetStatus, Goto, Return, Item, UnitsByPhase, UnitsByLabel, ReviewerLabels
  <2>2. UnitsByStatus'
    BY <2>1 DEF UnitsByStatus, Active
  <2>3. CASE pc' = "review_spent"
    BY <2>1, <2>2, <2>3, ReviewerStep DEF ReviewerLabels, SpawnReviewLabels
  <2>4. CASE pc' = "idle"
    BY <2>1, <2>2, <2>4, IdleStep
  <2> QED
    BY <2>1, <2>3, <2>4
<1>7. CASE ReviewSpent
  BY <1>0, <1>7, EndingStep DEF ReviewSpent, Return, Disk
<1> QED
  BY <1>2, <1>3, <1>4, <1>5, <1>6, <1>7 DEF DispatchReviewSteps

\* consume_review leaves for another status only after every required reviewer has ended.
LEMMA ConsumePhase == TypeOK /\ UnitsByPhase /\ ConsumeSteps => UnitsByPhase'
<1> SUFFICES ASSUME TypeOK, UnitsByPhase, ConsumeSteps PROVE UnitsByPhase'
  OBVIOUS
<1>0. /\ item \in Item /\ disk \in Disk /\ unit \in [Roles -> Job] /\ act \in Act
      /\ pc \in QuietLabels => NoUnitActive
  BY DEF TypeOK, UnitsByPhase, UnitsByLabel
<1>1. pc = "consume" =>
        /\ ~Active("implementer") /\ act.role \in RequiredRoles
        /\ act.role = "security-reviewer" => ~Active("reviewer")
        /\ item.status \in {"IMPLEMENTED", "REVIEWING", "WAITING_HUMAN"}
  BY DEF UnitsByPhase, UnitsByLabel, ReviewerLabels, StatusByLabel, CallsByLabel
<1>2. CASE ConsumeStatus
  BY <1>0, <1>2, QuietStep DEF ConsumeStatus, Return, QuietLabels
<1>3. CASE ConsumeVerdict
  <2>1. pc = "consume" /\ ~Active(act.role) /\ UNCHANGED <<item, disk, unit>>
    BY <1>3 DEF ConsumeVerdict
  <2>2. CASE HighRisk /\ act.role = "reviewer"
    <3>1. pc' = "consume" /\ act' = [act EXCEPT !.role = "security-reviewer"]
      BY <1>3, <2>2 DEF ConsumeVerdict
    <3>2. act'.role = "security-reviewer"
      BY <1>0, <3>1 DEF Act
    <3>3. ExclusiveClone' /\ UnitsRecorded' /\ UnitsByStatus'
      BY <2>1 DEF UnitsByPhase, ExclusiveClone, UnitsRecorded, UnitsByStatus, NoUnitActive,
         NoReviewer, Active
    <3>4. UnitsByLabel'
      BY <1>1, <2>1, <2>2, <3>1
      DEF UnitsByLabel, QuietLabels, ImplementerLabels, SpawnLabels, Active
    <3>5. StatusByLabel' /\ CallsByLabel'
      BY <1>1, <2>1, <2>2, <3>1, <3>2, RoleFacts
      DEF StatusByLabel, CallsByLabel, SpawnLabels, SpawnReviewLabels
    <3> QED
      BY <3>3, <3>4, <3>5 DEF UnitsByPhase
  <2>3. CASE ~(HighRisk /\ act.role = "reviewer")
    <3>1. pc' = "consume_status"
      BY <1>3, <2>3 DEF ConsumeVerdict, Goto
    <3>2. NoUnitActive
      BY <1>1, <2>1, <2>3
      DEF NoUnitActive, UnitsByPhase, UnitsRecorded, Roles, ReviewRoles, RequiredRoles
    <3> QED
      BY <2>1, <3>1, <3>2, QuietStep DEF QuietLabels
  <2> QED
    BY <2>2, <2>3
<1>4. CASE RetryReview
  <2>1. pc = "consume" /\ UNCHANGED <<disk, unit>>
    BY <1>4 DEF RetryReview
  <2>2. \/ pc' = "quota_mark" /\ UNCHANGED item
        \/ Explain("process", "WAITING_HUMAN") /\ Return
        \/ /\ \E p, tries : CallReview(act, act.role, p, tries, 0, "review_note")
           /\ UNCHANGED item
    BY <1>4 DEF RetryReview, Queue
  <2>3. CASE pc' = "quota_mark" /\ UNCHANGED item
    BY <1>1, <2>1, <2>3, StatusKept, ReviewerStep DEF ReviewerLabels, SpawnReviewLabels
  <2>4. CASE Explain("process", "WAITING_HUMAN") /\ Return
    <3>1. item'.status = "WAITING_HUMAN" /\ pc' = "idle"
      BY <1>0, <2>4 DEF Explain, Return, Item
    <3>2. UnitsByStatus'
      BY <3>1 DEF UnitsByStatus
    <3> QED
      BY <1>1, <2>1, <3>1, <3>2, IdleStep
  <2>5. ASSUME NEW p, NEW tries, CallReview(act, act.role, p, tries, 0, "review_note"),
               UNCHANGED item
        PROVE  UnitsByPhase'
    BY <1>0, <1>1, <2>1, <2>5, CallReviewStep
  <2> QED
    BY <2>2, <2>3, <2>4, <2>5
<1>5. CASE ConsumeStart
  <2>1. /\ item.status = "REVIEWING" /\ pc' = "consume" /\ UNCHANGED <<item, disk, unit>>
        /\ act' = [Payload EXCEPT !.role = "reviewer"]
    BY <1>5 DEF ConsumeStart
  <2>2. act'.role = "reviewer"
    BY <2>1, PayloadType DEF Act
  <2>3. ~Active("implementer")
    BY <2>1 DEF UnitsByPhase, UnitsByStatus
  <2>4. ExclusiveClone' /\ UnitsRecorded' /\ UnitsByStatus'
    BY <2>1, <2>3, StatusKept DEF UnitsByPhase, ExclusiveClone, UnitsRecorded, Active
  <2>5. UnitsByLabel'
    BY <2>1, <2>2, <2>3 DEF UnitsByLabel, QuietLabels, ImplementerLabels, SpawnLabels, Active
  <2>6. StatusByLabel' /\ CallsByLabel'
    BY <2>1, <2>2, RoleFacts DEF StatusByLabel, CallsByLabel, SpawnLabels, SpawnReviewLabels
  <2> QED
    BY <2>4, <2>5, <2>6 DEF UnitsByPhase
<1>6. CASE ReviewNote
  <2>1. item'.status = item.status /\ UNCHANGED <<disk, unit>> /\ pc' = "idle"
    BY <1>0, <1>6 DEF ReviewNote, Return, Item
  <2>2. UnitsByStatus'
    BY <2>1 DEF UnitsByPhase, UnitsByStatus, NoUnitActive, NoReviewer, Active
  <2> QED
    BY <2>1, <2>2, IdleStep DEF UnitsByPhase, UnitsRecorded
<1>7. CASE ConsumeNothing
  BY <1>7, EndingStep DEF ConsumeNothing, Return
<1> QED
  BY <1>2, <1>3, <1>4, <1>5, <1>6, <1>7 DEF ConsumeSteps

\* The operator commands refuse while any unit is active.
LEMMA OperatorPhase ==
  TypeOK /\ UnitsByPhase /\ (ResumeStart \/ ResumeStatus \/ OperatorSteps) => UnitsByPhase'
<1> SUFFICES ASSUME TypeOK, UnitsByPhase, ResumeStart \/ ResumeStatus \/ OperatorSteps
             PROVE  UnitsByPhase'
  OBVIOUS
<1>0. /\ item \in Item /\ disk \in Disk
      /\ pc \in QuietLabels => NoUnitActive
  BY DEF TypeOK, UnitsByPhase, UnitsByLabel
<1>1. CASE ResumeStart \/ ResumeStatus
  BY <1>0, <1>1, QuietStep DEF ResumeStart, ResumeStatus, Accept, Return, QuietLabels
<1>2. ASSUME NEW r \in RequiredRoles, ResumeReview(r) PROVE UnitsByPhase'
  BY <1>2, QuietStep DEF ResumeReview, OperatorStart, Accept, QuietLabels
<1>3. CASE ReconcileWaitingResult \/ OperatorReviewing \/ RecordHost
  BY <1>0, <1>3, QuietStep DEF ReconcileWaitingResult, OperatorStart, OperatorReviewing,
     RecordHost, Accept, Return, QuietLabels
<1>4. CASE RecordReport
  BY <1>0, <1>4, EndingStep DEF RecordReport, Return, Disk
<1> QED
  BY <1>1, <1>2, <1>3, <1>4 DEF OperatorSteps

\* From VERIFIED on no unit is active.
LEMMA MergeGatePhase == TypeOK /\ UnitsByPhase /\ MergeGateSteps => UnitsByPhase'
<1> SUFFICES ASSUME TypeOK, UnitsByPhase, MergeGateSteps PROVE UnitsByPhase'
  OBVIOUS
<1>0. /\ pc \in QuietLabels => NoUnitActive
      /\ item.status \in {"VERIFIED", "MERGE_READY", "MERGING"} => NoUnitActive
  BY DEF UnitsByPhase, UnitsByLabel, UnitsByStatus
<1>1. CASE AdvanceStart \/ AdvanceStatus
  BY <1>0, <1>1, QuietStep DEF AdvanceStart, AdvanceStatus, Accept, Return, QuietLabels
<1>2. CASE IntegrateSteps
  BY <1>0, <1>2, QuietStep DEF IntegrateSteps, IntegrateStart, IntegrateInspect, IntegrateTarget,
     IntegrateMerge, IntegrateBase, IntegrateCount, IntegrateStatus, IntegrateClose, Accept, Goto,
     Return, QuietLabels
<1>3. CASE MergeSteps
  BY <1>0, <1>3, QuietStep DEF MergeSteps, MergeStart, MergeStatus, MergeCall, MergeRefused,
     MergeReverts, MergeAmbiguous, Accept, Goto, Return, QuietLabels
<1>4. CASE FinalizeSteps
  BY <1>0, <1>4, QuietStep DEF FinalizeSteps, FinalizeStart, FinalizeComment, FinalizeClose,
     FinalizeStatus, FinalizeClone, FinalizeFiles, Accept, Goto, Return, QuietLabels
<1> QED
  BY <1>1, <1>2, <1>3, <1>4 DEF MergeGateSteps

\* A unit that ends, whatever it leaves behind.
LEMMA WorkerPhase == TypeOK /\ UnitsByPhase /\ WorkerSteps => UnitsByPhase'
<1> SUFFICES ASSUME TypeOK, UnitsByPhase, WorkerSteps PROVE UnitsByPhase'
  OBVIOUS
<1>0. item \in Item /\ disk \in Disk /\ unit \in [Roles -> Job]
  BY DEF TypeOK
<1>1. /\ \A r \in Roles : Active(r)' => Active(r)
      /\ item' = item /\ disk'.job = disk.job /\ pc' = pc /\ act' = act
  BY <1>0, RoleFacts
  DEF WorkerSteps, WorkerCommits, ImplementerSucceeds, ImplementerMisreports, ReviewerDecides,
      WorkerFails, WorkerQuota, UnitKilled, UnitEnds, Active, Disk
<1> QED
  BY <1>1, EnvironmentStep

\* Cooldowns, GitHub and people, who start no worker.
LEMMA EnvironmentPhase ==
  TypeOK /\ UnitsByPhase /\ (CooldownEnvironment \/ ReviewEnvironment \/ GitHubSteps)
    => UnitsByPhase'
<1> SUFFICES ASSUME TypeOK, UnitsByPhase,
                    CooldownEnvironment \/ ReviewEnvironment \/ GitHubSteps
             PROVE  UnitsByPhase'
  OBVIOUS
<1>0. item \in Item /\ disk \in Disk
  BY DEF TypeOK
<1>1. unit' = unit /\ disk'.job = disk.job /\ pc' = pc /\ act' = act
  BY <1>0 DEF CooldownEnvironment, OtherIssueQuota, CooldownEnds, ReviewEnvironment, ProtocolFix,
     GitHubSteps, HumanPush, BaseAdvances, CiReports, HumanHold, Disk
<1>2. item'.status \in {item.status, "WAITING_HUMAN"}
  BY <1>0 DEF CooldownEnvironment, OtherIssueQuota, CooldownEnds, ReviewEnvironment, ProtocolFix,
     GitHubSteps, HumanPush, BaseAdvances, CiReports, HumanHold, SetStatus, Item
<1>3. \A r \in Roles : Active(r)' => Active(r)
  BY <1>1 DEF Active
<1> QED
  BY <1>1, <1>2, <1>3, EnvironmentStep

\* A crash or a raise ends the handler.
LEMMA EndPhase == TypeOK /\ UnitsByPhase /\ (BrokerStops \/ BrokerRaises) => UnitsByPhase'
  BY EndingStep DEF BrokerStops, BrokerRaises, Return

\* Nobody runs at first.
LEMMA InitPhase == Init => UnitsByPhase
  BY RoleFacts
  DEF Init, UnitsByPhase, UnitsByStatus, UnitsByLabel, StatusByLabel, CallsByLabel, UnitsRecorded,
      ExclusiveClone, NoUnitActive, NoReviewer, Active, QuietLabels, ImplementerLabels,
      SpawnReviewLabels, ReviewerLabels, SpawnLabels

\* Every step of the specification keeps the phases apart.
LEMMA PhaseStep == TypeOK /\ UnitsByPhase /\ [Next]_vars => UnitsByPhase'
<1> SUFFICES ASSUME TypeOK, UnitsByPhase, [Next]_vars PROVE UnitsByPhase'
  OBVIOUS
<1>1. CASE CooldownSteps \/ SpawnSteps
  BY <1>1, CooldownPhase, SpawnPhase
<1>2. CASE ImplementationSteps
  BY <1>2, DispatchPhase, LaunchPhase, ReconcilePhase, RetryPhase, OperatorPhase
  DEF ImplementationSteps
<1>3. CASE ReviewSteps
  BY <1>3, PublishPhase, SpawnReviewPhase, DispatchReviewPhase, ConsumePhase, OperatorPhase
  DEF ReviewSteps
<1>4. CASE MergeGateSteps
  BY <1>4, MergeGatePhase
<1>5. CASE BrokerStops \/ BrokerRaises
  BY <1>5, EndPhase
<1>6. CASE WorkerSteps \/ CooldownEnvironment \/ ReviewEnvironment \/ GitHubSteps
  BY <1>6, WorkerPhase, EnvironmentPhase
<1>7. CASE UNCHANGED vars
  <2>1. /\ item' = item /\ unit' = unit /\ disk' = disk /\ pc' = pc /\ act' = act
    BY <1>7 DEF vars
  <2>2. \A r \in Roles : Active(r)' => Active(r)
    BY <2>1 DEF Active
  <2> QED
    BY <2>1, <2>2, EnvironmentStep
<1> QED
  BY <1>1, <1>2, <1>3, <1>4, <1>5, <1>6, <1>7 DEF Next

\* Whatever the limits, the number of providers and the sequence of crashes,
\* retries, fallbacks and operator commands, the statuses, the handlers and
\* the units stay in step with each other.
THEOREM PhasesHold == Spec => []UnitsByPhase
<1>1. Spec => []TypeOK
  BY TypeCorrect
<1> QED
  BY <1>1, InitPhase, PhaseStep, PTL DEF Spec

\* The implementer, who writes the clone, never runs together with a reviewer,
\* who reads it.
THEOREM CloneIsExclusive == Spec => []ExclusiveClone
<1>1. UnitsByPhase => ExclusiveClone
  BY DEF UnitsByPhase
<1> QED
  BY <1>1, PhasesHold, PTL

(***************************************************************************)
(* An active unit has its clone and its own job record, whatever the       *)
(* constants are.  It rests on UnitsByPhase: clones and job records are    *)
(* removed only where no unit can be active.                               *)
(***************************************************************************)

\* spawn_review has found the role's unit inactive.
Replacing == {"review_stage", "review_pack", "review_unlink_result", "review_unlink_job"}
\* spawn-agent has found the clone.
Starting == {"spawn_job", "spawn_unit"}

Known ==
  /\ UnitsKnown
  /\ pc \in Starting => disk.clone.there
  /\ pc \in Replacing => ~Active(act.role)

(***************************************************************************)
(* What keeps it.                                                          *)
(***************************************************************************)
\* Without units there is nothing to know.
LEMMA NobodyKnown ==
  ASSUME NoUnitActive, unit' = unit, pc' \notin Starting \cup Replacing
  PROVE  Known'
  BY DEF Known, UnitsKnown, NoUnitActive, Active

\* Clone and job records are left alone.
LEMMA FilesKept ==
  ASSUME Known, unit' = unit, disk'.job = disk.job, disk'.clone.there = disk.clone.there,
         pc' \notin Starting \cup Replacing
  PROVE  Known'
  BY DEF Known, UnitsKnown, Active

\* So they are by a step that changes no file.
LEMMA DiskKept ==
  ASSUME Known, UNCHANGED <<disk, unit>>, pc' \notin Starting \cup Replacing
  PROVE  Known'
  BY FilesKept

\* Units end, and the implementer commits.
LEMMA UnitsEnd ==
  ASSUME Known, disk'.job = disk.job, disk'.clone.there = disk.clone.there, UNCHANGED <<pc, act>>,
         \A r \in Roles : unit'[r] \in {unit[r], NoJob}, act \in Act
  PROVE  Known'
<1>1. \A r \in Roles : Active(r)' => Active(r) /\ unit'[r] = unit[r]
  BY DEF Active
<1>2. act.role \in Roles
  BY DEF Act
<1> QED
  BY <1>1, <1>2 DEF Known, UnitsKnown

\* A handler goes on where its caller said, which is behind any start.
LEMMA CallersElsewhere == \A l \in Callers : l \notin Starting \cup Replacing
  BY DEF Callers, Starting, Replacing

(***************************************************************************)
(* The steps.                                                              *)
(***************************************************************************)
LEMMA CooldownKnown == TypeOK /\ Known /\ CooldownSteps => Known'
<1> SUFFICES ASSUME TypeOK, Known, CooldownSteps PROVE Known'
  OBVIOUS
<1>0. disk \in Disk
  BY DEF TypeOK
<1>1. CASE QueueWait \/ RecoverSelect \/ RecoverReview
  BY <1>0, <1>1, FilesKept
  DEF QueueWait, RecoverSelect, RecoverReview, Goto, Starting, Replacing, Disk
<1>2. CASE \/ QuotaMark \/ QueueStatus \/ RecoverField \/ RecoverResume \/ RecoverReviewStatus
  BY <1>2, DiskKept
  DEF QuotaMark, QueueStatus, RecoverField, RecoverResume, RecoverReviewStatus, Goto, Return,
      Starting, Replacing
<1>3. CASE RecoverStart
  BY <1>3, DiskKept DEF RecoverStart, Starting, Replacing
<1> QED
  BY <1>1, <1>2, <1>3 DEF CooldownSteps

\* spawn-agent demands the clone, refuses an active unit, and writes the job
\* record before it starts the unit of that job.
LEMMA SpawnKnown == TypeOK /\ Known /\ SpawnSteps => Known'
<1> SUFFICES ASSUME TypeOK, Known, SpawnSteps PROVE Known'
  OBVIOUS
<1>0. /\ disk \in Disk /\ act \in Act /\ disk.job \in [Roles -> Job] /\ unit \in [Roles -> Job]
      /\ act.role \in Roles /\ act.next \in Callers
  BY DEF TypeOK, Disk, Act
<1>1. CASE SpawnTruncate
  <2>1. /\ unit' = unit /\ disk'.job = disk.job /\ disk'.clone = disk.clone
        /\ disk.clone.there /\ pc' = "spawn_job"
    BY <1>0, <1>1 DEF SpawnTruncate, Goto, Disk
  <2> QED
    BY <2>1 DEF Known, UnitsKnown, Active, Starting, Replacing
<1>2. CASE SpawnRefused
  BY <1>2, DiskKept DEF SpawnRefused, Return, Starting, Replacing
<1>3. CASE SpawnJob
  <2>1. /\ unit' = unit /\ disk'.clone = disk.clone /\ ~Active(act.role)
        /\ \A r \in Roles \ {act.role} : disk'.job[r] = disk.job[r]
        /\ pc = "spawn_job" /\ pc' = "spawn_unit"
    BY <1>0, <1>3 DEF SpawnJob, Goto, Disk
  <2> QED
    BY <2>1 DEF Known, UnitsKnown, Active, Starting, Replacing
<1>4. CASE SpawnUnit
  <2>1. /\ disk' = disk /\ pc' = act.next /\ disk.clone.there
        /\ unit'[act.role] = disk.job[act.role]
        /\ \A r \in Roles \ {act.role} : unit'[r] = unit[r]
    BY <1>0, <1>4 DEF SpawnUnit, Resume, Known, Starting
  <2>2. pc' \notin Starting \cup Replacing
    BY <1>0, <2>1, CallersElsewhere
  <2> QED
    BY <2>1, <2>2 DEF Known, UnitsKnown, Active
<1> QED
  BY <1>1, <1>2, <1>3, <1>4 DEF SpawnSteps

\* dispatch makes the clone, and takes it away again, before it starts anybody.
LEMMA DispatchKnown == TypeOK /\ UnitsByPhase /\ Known /\ DispatchSteps => Known'
<1> SUFFICES ASSUME TypeOK, UnitsByPhase, Known, DispatchSteps PROVE Known'
  OBVIOUS
<1>0. disk \in Disk /\ (pc \in QuietLabels => NoUnitActive)
  BY DEF TypeOK, UnitsByPhase, UnitsByLabel
<1>1. CASE DispatchStart
  BY <1>1, DiskKept DEF DispatchStart, Queue, Accept, Starting, Replacing
<1>2. CASE \/ DispatchClaim \/ DispatchStale \/ DispatchSpawn \/ DispatchDone \/ DispatchFails
           \/ UnwindStatus
  BY <1>2, DiskKept
  DEF DispatchClaim, DispatchStale, DispatchSpawn, DispatchDone, DispatchFails, UnwindStatus,
      SpawnAgent, Goto, Return, Starting, Replacing
<1>3. CASE DispatchMeta \/ DispatchPack
  BY <1>0, <1>3, FilesKept DEF DispatchMeta, DispatchPack, Goto, Starting, Replacing, Disk
<1>4. CASE DispatchClone \/ UnwindFiles
  BY <1>0, <1>4, NobodyKnown
  DEF DispatchClone, UnwindFiles, Goto, Starting, Replacing, QuietLabels
<1> QED
  BY <1>1, <1>2, <1>3, <1>4 DEF DispatchSteps

\* The job record of an attempt is restored when nobody runs.
LEMMA LaunchKnown == TypeOK /\ UnitsByPhase /\ Known /\ LaunchSteps => Known'
<1> SUFFICES ASSUME TypeOK, UnitsByPhase, Known, LaunchSteps PROVE Known'
  OBVIOUS
<1>0. /\ disk \in Disk /\ act.next \in Callers
      /\ pc = "recover_launch" => NoReviewer
  BY DEF TypeOK, Act, UnitsByPhase, UnitsByLabel, ImplementerLabels
<1>1. CASE LaunchSpent \/ LaunchSettled \/ LaunchClosed
  <2>1. unit' = unit /\ disk'.job = disk.job /\ disk'.clone.there = disk.clone.there
    BY <1>0, <1>1 DEF LaunchSpent, LaunchSettled, LaunchClosed, Disk
  <2>2. pc' \in {"launch_settled", "idle", act.next}
    BY <1>1 DEF LaunchSpent, LaunchSettled, LaunchClosed, Goto, Return
  <2>3. pc' \notin Starting \cup Replacing
    BY <1>0, <2>2, CallersElsewhere DEF Starting, Replacing
  <2> QED
    BY <2>1, <2>3, FilesKept
<1>2. CASE LaunchRestored
  <2>1. NoUnitActive
    BY <1>0, <1>2, RoleFacts DEF LaunchRestored, NoReviewer, NoUnitActive
  <2> QED
    BY <1>2, <2>1, NobodyKnown DEF LaunchRestored, Goto, Starting, Replacing
<1>3. CASE LaunchStatus \/ LaunchKept
  BY <1>3, DiskKept DEF LaunchStatus, LaunchKept, Goto, Return, Starting, Replacing
<1> QED
  BY <1>1, <1>2, <1>3 DEF LaunchSteps

\* reconcile_implementation removes a clone only without a job record.
LEMMA ReconcileKnown == TypeOK /\ UnitsByPhase /\ Known /\ ReconcileSteps => Known'
<1> SUFFICES ASSUME TypeOK, UnitsByPhase, Known, ReconcileSteps PROVE Known'
  OBVIOUS
<1>0. /\ disk \in Disk
      /\ pc = "reconcile" => NoReviewer
      /\ Active("implementer") => disk.job["implementer"] # NoJob
  BY DEF TypeOK, UnitsByPhase, UnitsByLabel, UnitsRecorded, ImplementerLabels
<1>1. CASE ReconcileStart
  BY <1>1, DiskKept DEF ReconcileStart, ImplementationStart, Starting, Replacing
<1>2. CASE ReconcileAbandoned
  <2>1. NoUnitActive
    BY <1>0, <1>2, RoleFacts DEF ReconcileAbandoned, NoReviewer, NoUnitActive
  <2> QED
    BY <1>2, <2>1, NobodyKnown DEF ReconcileAbandoned, Goto, Return, Starting, Replacing
<1>3. CASE ReconcileReady \/ ReconcileFailure \/ ReconcileSuccess \/ ReconcileNothing
  BY <1>3, DiskKept
  DEF ReconcileReady, ReconcileFailure, ReconcileSuccess, ReconcileNothing, Return, Starting,
      Replacing
<1>4. CASE ReconcileQuota
  BY <1>4, DiskKept DEF ReconcileQuota, Queue, Starting, Replacing
<1> QED
  BY <1>1, <1>2, <1>3, <1>4 DEF ReconcileSteps

\* retry_implementation replaces the job record after it found nobody running.
LEMMA RetryKnown == TypeOK /\ UnitsByPhase /\ Known /\ RetrySteps => Known'
<1> SUFFICES ASSUME TypeOK, UnitsByPhase, Known, RetrySteps PROVE Known'
  OBVIOUS
<1>0. disk \in Disk /\ (pc \in QuietLabels => NoUnitActive)
  BY DEF TypeOK, UnitsByPhase, UnitsByLabel
<1>1. CASE RetryStart \/ RetryPrepare
  BY <1>1, DiskKept DEF RetryStart, RetryPrepare, ImplementationStart, Starting, Replacing
<1>2. CASE \/ RetryLimit \/ RetryRefused \/ RetryCount \/ RetryStatus \/ RetryGuardFails
           \/ RetryUncount \/ RetryUnstatus
  BY <1>2, DiskKept
  DEF RetryLimit, RetryRefused, RetryCount, RetryStatus, RetryGuardFails, RetryUncount,
      RetryUnstatus, Goto, Return, Starting, Replacing
<1>3. CASE RetryGuard
  BY <1>3, DiskKept DEF RetryGuard, SpawnAgent, Goto, Starting, Replacing
<1>4. CASE \/ RetryTx \/ RetryPack \/ RetryUnlinkResult \/ RetryBudget \/ RetrySpent
           \/ RetryClose
  <2>1. unit' = unit /\ disk'.job = disk.job /\ disk'.clone.there = disk.clone.there
    BY <1>0, <1>4
    DEF RetryTx, RetryPack, RetryUnlinkResult, RetryBudget, RetrySpent, RetryClose, Disk
  <2>2. pc' \notin Starting \cup Replacing
    BY <1>4
    DEF RetryTx, RetryPack, RetryUnlinkResult, RetryBudget, RetrySpent, RetryClose, SpawnAgent,
        Goto, Return, Starting, Replacing
  <2> QED
    BY <2>1, <2>2, FilesKept
<1>5. CASE RetryUnlinkJob \/ RetryRestore
  BY <1>0, <1>5, NobodyKnown
  DEF RetryUnlinkJob, RetryRestore, Goto, Return, Starting, Replacing, QuietLabels
<1> QED
  BY <1>1, <1>2, <1>3, <1>4, <1>5 DEF RetrySteps

LEMMA ResumeKnown == Known /\ (ResumeStart \/ ResumeStatus) => Known'
  BY DiskKept DEF ResumeStart, ResumeStatus, Accept, Return, Starting, Replacing

LEMMA PublishKnown == Known /\ PublishSteps => Known'
<1> SUFFICES ASSUME Known, PublishSteps PROVE Known'
  OBVIOUS
<1>1. UNCHANGED <<disk, unit>>
  BY DEF PublishSteps, PublishStart, PublishHold, PublishPush, PublishPr
<1>2. pc' \in {"publish_pr", "publish_push", "publish_hold", "idle"}
  BY DEF PublishSteps, PublishStart, PublishHold, PublishPush, PublishPr, Accept, Goto, Return
<1> QED
  BY <1>1, <1>2, DiskKept DEF Starting, Replacing

\* spawn_review removes the role's job record only when the role is inactive.
LEMMA SpawnReviewKnown == TypeOK /\ Known /\ SpawnReviewSteps => Known'
<1> SUFFICES ASSUME TypeOK, Known, SpawnReviewSteps PROVE Known'
  OBVIOUS
<1>0. /\ disk \in Disk /\ disk.job \in [Roles -> Job] /\ act \in Act /\ act.next \in Callers
      /\ act.role \in Roles
  BY DEF TypeOK, Disk, Act
<1>1. CASE ReviewCheck
  <2>1. UNCHANGED <<disk, unit>> /\ pc' \in {act.next, "idle", "review_stage", "review_pack"}
    BY <1>1 DEF ReviewCheck, Resume, Return, Goto
  <2>2. pc' \in Replacing => pc' \notin Starting /\ ~Active(act.role)' /\ act' = act
    BY <1>0, <1>1, <2>1, CallersElsewhere
    DEF ReviewCheck, Resume, Return, Goto, Active, Replacing, Starting
  <2>3. CASE pc' \in Replacing
    BY <2>1, <2>2, <2>3 DEF Known, UnitsKnown, Active
  <2>4. CASE pc' \notin Replacing
    <3>1. pc' \notin Starting \cup Replacing
      BY <1>0, <2>1, <2>4, CallersElsewhere DEF Starting
    <3> QED
      BY <2>1, <3>1, DiskKept
  <2> QED
    BY <2>3, <2>4
<1>2. CASE ReviewMeta
  <2>1. unit' = unit /\ disk'.job = disk.job /\ disk'.clone = disk.clone
    BY <1>0, <1>2 DEF ReviewMeta, Disk
  <2>2. CASE pc = "review_stage"
    <3>1. pc' = "review_pack" /\ act' = act /\ ~Active(act.role)
      BY <1>2, <2>2 DEF ReviewMeta, Goto, Known, Replacing
    <3> QED
      BY <2>1, <3>1 DEF Known, UnitsKnown, Active, Starting
  <2>3. CASE pc # "review_stage"
    <3>1. pc' \notin Starting \cup Replacing
      BY <1>2, <2>3 DEF ReviewMeta, SpawnAgent, Starting, Replacing
    <3> QED
      BY <2>1, <3>1, FilesKept
  <2> QED
    BY <2>2, <2>3
<1>3. CASE ReviewPack \/ ReviewUnlinkResult
  <2>1. unit' = unit /\ disk'.job = disk.job /\ disk'.clone = disk.clone
    BY <1>0, <1>3 DEF ReviewPack, ReviewUnlinkResult, Disk
  <2>2. pc \in Replacing /\ pc' \in Replacing /\ pc' \notin Starting /\ act' = act
    BY <1>3 DEF ReviewPack, ReviewUnlinkResult, Goto, Replacing, Starting
  <2> QED
    BY <2>1, <2>2 DEF Known, UnitsKnown, Active
<1>4. CASE ReviewUnlinkJob
  <2>1. /\ unit' = unit /\ disk'.clone = disk.clone /\ ~Active(act.role)
        /\ \A r \in Roles \ {act.role} : disk'.job[r] = disk.job[r]
    BY <1>0, <1>4 DEF ReviewUnlinkJob, Disk, Known, Replacing
  <2>2. pc' \notin Starting \cup Replacing
    BY <1>4 DEF ReviewUnlinkJob, Goto, Starting, Replacing
  <2> QED
    BY <2>1, <2>2 DEF Known, UnitsKnown, Active
<1> QED
  BY <1>1, <1>2, <1>3, <1>4 DEF SpawnReviewSteps

LEMMA DispatchReviewKnown == TypeOK /\ Known /\ DispatchReviewSteps => Known'
<1> SUFFICES ASSUME TypeOK, Known, DispatchReviewSteps PROVE Known'
  OBVIOUS
<1>0. disk \in Disk
  BY DEF TypeOK
<1>1. CASE DispatchReview \/ DispatchSecurity \/ DispatchRecovery
  <2>1. UNCHANGED <<disk, unit>>
    BY <1>1 DEF DispatchReview, DispatchSecurity, DispatchRecovery
  <2>2. pc' \in {"queue", "review_check", "idle", "review_wait"}
    BY <1>1
    DEF DispatchReview, DispatchSecurity, DispatchRecovery, Queue, CallReview, Return, Accept
  <2> QED
    BY <2>1, <2>2, DiskKept DEF Starting, Replacing
<1>2. CASE ReviewWait \/ ReviewStatus
  BY <1>2, DiskKept DEF ReviewWait, ReviewStatus, Goto, Return, Starting, Replacing
<1>3. CASE ReviewSpent
  BY <1>0, <1>3, FilesKept DEF ReviewSpent, Return, Starting, Replacing, Disk
<1> QED
  BY <1>1, <1>2, <1>3 DEF DispatchReviewSteps

LEMMA ConsumeKnown == Known /\ ConsumeSteps => Known'
<1> SUFFICES ASSUME Known, ConsumeSteps PROVE Known'
  OBVIOUS
<1>1. UNCHANGED <<disk, unit>>
  BY DEF ConsumeSteps, ConsumeStart, ConsumeVerdict, ConsumeStatus, RetryReview, ReviewNote,
     ConsumeNothing
<1>2. pc' \in {"consume", "consume_status", "idle", "quota_mark", "review_check"}
  BY DEF ConsumeSteps, ConsumeStart, ConsumeVerdict, ConsumeStatus, RetryReview, ReviewNote,
     ConsumeNothing, Goto, Return, Queue, CallReview
<1> QED
  BY <1>1, <1>2, DiskKept DEF Starting, Replacing

LEMMA OperatorKnown == TypeOK /\ Known /\ OperatorSteps => Known'
<1> SUFFICES ASSUME TypeOK, Known, OperatorSteps PROVE Known'
  OBVIOUS
<1>0. disk \in Disk
  BY DEF TypeOK
<1>1. ASSUME NEW r \in RequiredRoles, ResumeReview(r) PROVE Known'
  BY <1>0, <1>1, FilesKept DEF ResumeReview, OperatorStart, Accept, Starting, Replacing, Disk
<1>2. CASE ReconcileWaitingResult \/ OperatorReviewing
  BY <1>2, DiskKept
  DEF ReconcileWaitingResult, OperatorStart, OperatorReviewing, Accept, Return, Starting,
      Replacing
<1>3. CASE RecordHost \/ RecordReport
  BY <1>0, <1>3, FilesKept DEF RecordHost, RecordReport, Accept, Return, Starting, Replacing, Disk
<1> QED
  BY <1>1, <1>2, <1>3 DEF OperatorSteps

\* From VERIFIED on no unit is active; finalize_merge removes everything.
LEMMA MergeGateKnown == TypeOK /\ UnitsByPhase /\ Known /\ MergeGateSteps => Known'
<1> SUFFICES ASSUME TypeOK, UnitsByPhase, Known, MergeGateSteps PROVE Known'
  OBVIOUS
<1>0. disk \in Disk /\ disk.clone \in Clone /\ (pc \in QuietLabels => NoUnitActive)
  BY DEF TypeOK, Disk, UnitsByPhase, UnitsByLabel
<1>1. CASE AdvanceStart \/ AdvanceStatus
  BY <1>1, DiskKept DEF AdvanceStart, AdvanceStatus, Accept, Return, Starting, Replacing
<1>2. CASE IntegrateSteps
  <2>1. CASE IntegrateStart \/ IntegrateInspect \/ IntegrateCount \/ IntegrateStatus
    BY <2>1, DiskKept
    DEF IntegrateStart, IntegrateInspect, IntegrateCount, IntegrateStatus, Accept, Return, Goto,
        Starting, Replacing
  <2>2. CASE IntegrateTarget \/ IntegrateMerge \/ IntegrateBase \/ IntegrateClose
    <3>1. unit' = unit /\ disk'.job = disk.job /\ disk'.clone.there = disk.clone.there
      BY <1>0, <2>2
      DEF IntegrateTarget, IntegrateMerge, IntegrateBase, IntegrateClose, Disk, Clone
    <3>2. pc' \notin Starting \cup Replacing
      BY <2>2 DEF IntegrateTarget, IntegrateMerge, IntegrateBase, IntegrateClose, Goto, Return,
                  Starting, Replacing
    <3> QED
      BY <3>1, <3>2, FilesKept
  <2> QED
    BY <1>2, <2>1, <2>2 DEF IntegrateSteps
<1>3. CASE MergeSteps
  <2>1. UNCHANGED <<disk, unit>>
    BY <1>3 DEF MergeSteps, MergeStart, MergeStatus, MergeCall, MergeRefused, MergeReverts,
                MergeAmbiguous
  <2>2. pc' \notin Starting \cup Replacing
    BY <1>3 DEF MergeSteps, MergeStart, MergeStatus, MergeCall, MergeRefused, MergeReverts,
                MergeAmbiguous, Accept, Return, Goto, Starting, Replacing
  <2> QED
    BY <2>1, <2>2, DiskKept
<1>4. CASE FinalizeSteps
  <2>1. CASE FinalizeStart \/ FinalizeComment \/ FinalizeClose \/ FinalizeStatus
    BY <2>1, DiskKept
    DEF FinalizeStart, FinalizeComment, FinalizeClose, FinalizeStatus, Accept, Goto, Starting,
        Replacing
  <2>2. CASE FinalizeClone \/ FinalizeFiles
    BY <1>0, <2>2, NobodyKnown
    DEF FinalizeClone, FinalizeFiles, Goto, Return, Starting, Replacing, QuietLabels
  <2> QED
    BY <1>4, <2>1, <2>2 DEF FinalizeSteps
<1> QED
  BY <1>1, <1>2, <1>3, <1>4 DEF MergeGateSteps

\* Workers write results, commit and end.
LEMMA WorkerKnown == TypeOK /\ Known /\ WorkerSteps => Known'
<1> SUFFICES ASSUME TypeOK, Known, WorkerSteps PROVE Known'
  OBVIOUS
<1>0. /\ disk \in Disk /\ disk.clone \in Clone /\ act \in Act /\ unit \in [Roles -> Job]
      /\ ReviewRoles \subseteq Roles /\ "implementer" \in Roles
  BY RoleFacts DEF TypeOK, Disk
<1>1. ASSUME NEW r \in Roles, NEW k, NEW c, UnitEnds(r, k, c), UNCHANGED <<pc, act>>
      PROVE  Known'
  <2>1. disk'.job = disk.job /\ disk'.clone = disk.clone
    BY <1>0, <1>1 DEF UnitEnds, Disk
  <2>2. \A q \in Roles : unit'[q] \in {unit[q], NoJob}
    BY <1>0, <1>1 DEF UnitEnds
  <2> QED
    BY <1>0, <1>1, <2>1, <2>2, UnitsEnd
<1>2. CASE WorkerCommits
  <2>1. disk'.job = disk.job /\ disk'.clone.there = disk.clone.there /\ UNCHANGED <<pc, act, unit>>
    BY <1>0, <1>2 DEF WorkerCommits, Disk
  <2> QED
    BY <1>0, <2>1, UnitsEnd
<1>3. CASE ImplementerMisreports
  <2>1. disk'.job = disk.job /\ disk'.clone.there = disk.clone.there /\ UNCHANGED <<pc, act>>
    BY <1>0, <1>3 DEF ImplementerMisreports, Disk, Clone
  <2>2. \A q \in Roles : unit'[q] \in {unit[q], NoJob}
    BY <1>0, <1>3 DEF ImplementerMisreports
  <2> QED
    BY <1>0, <2>1, <2>2, UnitsEnd
<1>4. CASE ImplementerSucceeds
  BY <1>0, <1>1, <1>4 DEF ImplementerSucceeds
<1>5. ASSUME NEW r \in ReviewRoles, NEW d \in {"approve", "reject"}, ReviewerDecides(r, d)
      PROVE  Known'
  BY <1>0, <1>1, <1>5 DEF ReviewerDecides
<1>6. ASSUME NEW r \in Roles, NEW k \in {"failed", "bad"}, WorkerFails(r, k) PROVE Known'
  BY <1>1, <1>6 DEF WorkerFails
<1>7. ASSUME NEW r \in Roles, WorkerQuota(r) PROVE Known'
  BY <1>1, <1>7 DEF WorkerQuota
<1>8. ASSUME NEW r \in Roles, UnitKilled(r) PROVE Known'
  <2>1. UNCHANGED <<disk, pc, act>> /\ \A q \in Roles : unit'[q] \in {unit[q], NoJob}
    BY <1>0, <1>8 DEF UnitKilled
  <2> QED
    BY <1>0, <2>1, UnitsEnd
<1> QED
  BY <1>2, <1>3, <1>4, <1>5, <1>6, <1>7, <1>8 DEF WorkerSteps

LEMMA EnvironmentKnown ==
  TypeOK /\ Known /\ (CooldownEnvironment \/ ReviewEnvironment \/ GitHubSteps) => Known'
<1> SUFFICES ASSUME TypeOK, Known, CooldownEnvironment \/ ReviewEnvironment \/ GitHubSteps
             PROVE  Known'
  OBVIOUS
<1>0. disk \in Disk /\ act \in Act
  BY DEF TypeOK
<1>1. CASE ReviewEnvironment
  <2>1. PICK r \in ReviewRoles, d \in {"approve", "reject"} : ProtocolFix(r, d)
    BY <1>1 DEF ReviewEnvironment
  <2>2. disk'.job = disk.job /\ disk'.clone = disk.clone /\ UNCHANGED <<unit, pc, act>>
    BY <1>0, <2>1 DEF ProtocolFix, Disk
  <2> QED
    BY <1>0, <2>2, UnitsEnd
<1>2. CASE CooldownEnvironment \/ GitHubSteps
  <2>1. UNCHANGED <<disk, unit, pc, act>>
    BY <1>2 DEF CooldownEnvironment, OtherIssueQuota, CooldownEnds, GitHubSteps, HumanPush,
                BaseAdvances, CiReports, HumanHold
  <2> QED
    BY <1>0, <2>1, UnitsEnd
<1> QED
  BY <1>1, <1>2

\* A handler that is cut short leaves its files as they are.
LEMMA EndKnown == Known /\ (BrokerStops \/ BrokerRaises) => Known'
  BY DiskKept DEF BrokerStops, BrokerRaises, Return, Starting, Replacing

LEMMA InitKnown == Init => Known
  BY DEF Init, Known, UnitsKnown, Active, Starting, Replacing

LEMMA KnownStep == TypeOK /\ UnitsByPhase /\ Known /\ [Next]_vars => Known'
<1> SUFFICES ASSUME TypeOK, UnitsByPhase, Known, [Next]_vars PROVE Known'
  OBVIOUS
<1>1. CASE ImplementationSteps
  BY <1>1, DispatchKnown, LaunchKnown, ReconcileKnown, RetryKnown, ResumeKnown
  DEF ImplementationSteps
<1>2. CASE ReviewSteps
  BY <1>2, PublishKnown, SpawnReviewKnown, DispatchReviewKnown, ConsumeKnown, OperatorKnown
  DEF ReviewSteps
<1>3. CASE CooldownSteps \/ SpawnSteps \/ MergeGateSteps \/ BrokerStops \/ BrokerRaises
  BY <1>3, CooldownKnown, SpawnKnown, MergeGateKnown, EndKnown
<1>4. CASE WorkerSteps \/ CooldownEnvironment \/ ReviewEnvironment \/ GitHubSteps
  BY <1>4, WorkerKnown, EnvironmentKnown
<1>5. CASE UNCHANGED vars
  BY <1>5 DEF vars, Known, UnitsKnown, Active
<1> QED
  BY <1>1, <1>2, <1>3, <1>4, <1>5 DEF Next

\* An active unit has its clone and its own job record, at every point between
\* the four writes of a launch and after every crash, so that reconciliation
\* finds the worker it belongs to.
THEOREM UnitsAreKnown == Spec => []UnitsKnown
<1>1. Spec => []Known
  BY InitKnown, KnownStep, TypeCorrect, PhasesHold, PTL DEF Spec
<1>2. Known => UnitsKnown
  BY DEF Known
<1> QED
  BY <1>1, <1>2, PTL
=============================================================================
