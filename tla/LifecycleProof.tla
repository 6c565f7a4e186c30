-------------------------- MODULE LifecycleProof --------------------------
(***************************************************************************)
(* The broker keeps the abstract lifecycle and its merge gates, whatever   *)
(* the constants are.  First what a step does to the files, the item and   *)
(* the labels; then the invariants of continuations, blank items, reviews  *)
(* and parked items, and the theorems that follow from them.               *)
(***************************************************************************)
EXTENDS HandoffProof

(***************************************************************************)
(* Who writes what: for each field the later proofs look at, the actions   *)
(* that may change it.                                                     *)
(***************************************************************************)
ImplementerWorks == WorkerSteps /\ Active("implementer")

ResultWriters ==
  \/ SpawnTruncate /\ act.role = "implementer"
  \/ LaunchRestored \/ RetryUnlinkResult \/ RetryRestore \/ FinalizeFiles \/ ImplementerWorks
JobWriters ==
  \/ SpawnJob /\ act.role = "implementer"
  \/ LaunchRestored \/ RetryUnlinkJob \/ RetryRestore \/ FinalizeFiles
PackWriters ==
  \/ DispatchPack \/ UnwindFiles \/ ReconcileAbandoned \/ LaunchRestored \/ RetryPack
  \/ RetryRestore \/ FinalizeFiles
CloneWriters ==
  \/ DispatchClone \/ UnwindFiles \/ ReconcileAbandoned \/ IntegrateMerge \/ FinalizeClone
  \/ ImplementerWorks
BindingWriters ==
  \/ DispatchMeta \/ UnwindFiles \/ IntegrateTarget \/ IntegrateBase \/ IntegrateClose
  \/ RecordHost \/ FinalizeFiles

DiskFrames ==
  /\ disk'.tx = disk.tx \/ LaunchSettled \/ LaunchClosed \/ RetryTx \/ RetryClose
  /\ \/ /\ disk'.wait.role = disk.wait.role /\ disk'.wait.resume = disk.wait.resume
        /\ disk'.wait.result = disk.wait.result /\ disk'.wait.job = disk.wait.job
        /\ disk'.wait.pack = disk.wait.pack /\ disk'.wait.head = disk.wait.head
     \/ QueueWait
  /\ disk'.wait.recovery = disk.wait.recovery \/ QueueWait \/ RecoverReview
  /\ disk'.meta = disk.meta \/ ReviewMeta \/ FinalizeFiles \/ pc = "idle"
  /\ \/ \A r \in ReviewRoles : /\ disk'.meta[r].impl = disk.meta[r].impl
                               /\ disk'.meta[r].head = disk.meta[r].head
                               /\ disk'.meta[r].provider = disk.meta[r].provider
     \/ ReviewMeta \/ FinalizeFiles
  /\ disk'.result["implementer"] = disk.result["implementer"] \/ ResultWriters
  /\ disk'.job["implementer"] = disk.job["implementer"] \/ JobWriters
  /\ disk'.pack["implementer"] = disk.pack["implementer"] \/ PackWriters
  /\ disk'.clone = disk.clone \/ CloneWriters
  /\ disk'.cmeta = disk.cmeta \/ BindingWriters
  /\ disk'.report = disk.report \/ RecordReport

LEMMA SameDisk == disk' = disk => DiskFrames
  BY DEF DiskFrames

LEMMA DiskTypes ==
  ASSUME TypeOK
  PROVE  /\ disk \in Disk /\ disk.clone \in Clone /\ disk.cmeta \in CloneMeta
         /\ disk.pack \in [Roles -> Pack] /\ disk.job \in [Roles -> Job]
         /\ disk.result \in [Roles -> Result] /\ disk.meta \in [ReviewRoles -> Meta]
         /\ disk.wait \in Wait /\ disk.tx \in Tx
  BY DEF TypeOK, Disk

LEMMA CooldownFrames == TypeOK /\ CooldownSteps => DiskFrames
<1> SUFFICES ASSUME TypeOK, CooldownSteps PROVE DiskFrames
  OBVIOUS
<1>1. CASE QueueWait
  BY <1>1, DiskTypes DEF QueueWait, DiskFrames, Disk
<1>2. CASE RecoverSelect
  BY <1>2, DiskTypes DEF RecoverSelect, DiskFrames, Disk, Wait
<1>3. CASE RecoverReview
  <2>1. /\ disk' = [disk EXCEPT !.wait = disk'.wait]
        /\ disk'.wait = [disk.wait EXCEPT !.recovery = disk.wait.job.id,
                                          !.impl = disk.result["implementer"]]
    BY <1>3, DiskTypes DEF RecoverReview, Disk
  <2> QED
    BY <1>3, <2>1, DiskTypes DEF DiskFrames, Disk, Wait
<1>4. CASE \/ QuotaMark \/ QueueStatus \/ RecoverStart \/ RecoverField \/ RecoverResume
           \/ RecoverReviewStatus
  BY <1>4, SameDisk
  DEF QuotaMark, QueueStatus, RecoverStart, RecoverField, RecoverResume, RecoverReviewStatus
<1> QED
  BY <1>1, <1>2, <1>3, <1>4 DEF CooldownSteps

LEMMA SpawnFrames == TypeOK /\ SpawnSteps => DiskFrames
<1> SUFFICES ASSUME TypeOK, SpawnSteps PROVE DiskFrames
  OBVIOUS
<1>0. act.role \in Roles
  BY DEF TypeOK, Act
<1>1. CASE SpawnTruncate
  BY <1>0, <1>1, DiskTypes DEF SpawnTruncate, DiskFrames, ResultWriters, Disk, Roles
<1>2. CASE SpawnJob
  BY <1>0, <1>2, DiskTypes DEF SpawnJob, DiskFrames, JobWriters, Disk, Roles
<1>3. CASE SpawnRefused \/ SpawnUnit
  BY <1>3, SameDisk DEF SpawnRefused, SpawnUnit
<1> QED
  BY <1>1, <1>2, <1>3 DEF SpawnSteps

LEMMA DispatchFrames == TypeOK /\ DispatchSteps => DiskFrames
<1> SUFFICES ASSUME TypeOK, DispatchSteps PROVE DiskFrames
  OBVIOUS
<1>1. CASE DispatchClone
  BY <1>1, DiskTypes DEF DispatchClone, DiskFrames, CloneWriters, Disk
<1>2. CASE DispatchMeta
  BY <1>2, DiskTypes DEF DispatchMeta, DiskFrames, BindingWriters, Disk
<1>3. CASE DispatchPack
  BY <1>3, DiskTypes DEF DispatchPack, DiskFrames, PackWriters, Disk
<1>4. CASE UnwindFiles
  BY <1>4, DiskTypes
  DEF UnwindFiles, DiskFrames, PackWriters, CloneWriters, BindingWriters, Disk
<1>5. CASE \/ DispatchStart \/ DispatchClaim \/ DispatchStale \/ DispatchSpawn \/ DispatchDone
           \/ DispatchFails \/ UnwindStatus
  BY <1>5, SameDisk
  DEF DispatchStart, DispatchClaim, DispatchStale, DispatchSpawn, DispatchDone, DispatchFails,
      UnwindStatus
<1> QED
  BY <1>1, <1>2, <1>3, <1>4, <1>5 DEF DispatchSteps

LEMMA LaunchFrames == TypeOK /\ LaunchSteps => DiskFrames
<1> SUFFICES ASSUME TypeOK, LaunchSteps PROVE DiskFrames
  OBVIOUS
<1>1. CASE LaunchSpent
  BY <1>1, DiskTypes DEF LaunchSpent, DiskFrames, Disk, Wait
<1>2. CASE LaunchSettled \/ LaunchClosed
  BY <1>2, DiskTypes DEF LaunchSettled, LaunchClosed, DiskFrames, Disk
<1>3. CASE LaunchRestored
  BY <1>3, DiskTypes DEF LaunchRestored, DiskFrames, ResultWriters, JobWriters, PackWriters, Disk
<1>4. CASE LaunchStatus \/ LaunchKept
  BY <1>4, SameDisk DEF LaunchStatus, LaunchKept
<1> QED
  BY <1>1, <1>2, <1>3, <1>4 DEF LaunchSteps

LEMMA ReconcileFrames == TypeOK /\ ReconcileSteps => DiskFrames
<1> SUFFICES ASSUME TypeOK, ReconcileSteps PROVE DiskFrames
  OBVIOUS
<1>1. CASE ReconcileAbandoned
  BY <1>1, DiskTypes DEF ReconcileAbandoned, DiskFrames, PackWriters, CloneWriters, Disk
<1>2. CASE \/ ReconcileStart \/ ReconcileReady \/ ReconcileQuota \/ ReconcileFailure
           \/ ReconcileSuccess \/ ReconcileNothing
  BY <1>2, SameDisk
  DEF ReconcileStart, ImplementationStart, ReconcileReady, ReconcileQuota, ReconcileFailure,
      ReconcileSuccess, ReconcileNothing
<1> QED
  BY <1>1, <1>2 DEF ReconcileSteps

LEMMA RetryFrames == TypeOK /\ RetrySteps => DiskFrames
<1> SUFFICES ASSUME TypeOK, RetrySteps PROVE DiskFrames
  OBVIOUS
<1>1. CASE RetryTx \/ RetryClose \/ RetryBudget
  BY <1>1, DiskTypes DEF RetryTx, RetryClose, RetryBudget, DiskFrames, Disk
<1>2. CASE RetryPack
  BY <1>2, DiskTypes DEF RetryPack, DiskFrames, PackWriters, Disk
<1>3. CASE RetryUnlinkJob
  BY <1>3, DiskTypes DEF RetryUnlinkJob, DiskFrames, JobWriters, Disk
<1>4. CASE RetryUnlinkResult
  BY <1>4, DiskTypes DEF RetryUnlinkResult, DiskFrames, ResultWriters, Disk
<1>5. CASE RetryRestore
  BY <1>5, DiskTypes DEF RetryRestore, DiskFrames, ResultWriters, JobWriters, PackWriters, Disk
<1>6. CASE RetrySpent
  BY <1>6, DiskTypes DEF RetrySpent, DiskFrames, Disk, Wait
<1>7. CASE \/ RetryStart \/ RetryLimit \/ RetryPrepare \/ RetryRefused \/ RetryCount
           \/ RetryStatus \/ RetryGuard \/ RetryGuardFails \/ RetryUncount \/ RetryUnstatus
  BY <1>7, SameDisk
  DEF RetryStart, ImplementationStart, RetryLimit, RetryPrepare, RetryRefused, RetryCount,
      RetryStatus, RetryGuard, RetryGuardFails, RetryUncount, RetryUnstatus
<1> QED
  BY <1>1, <1>2, <1>3, <1>4, <1>5, <1>6, <1>7 DEF RetrySteps

LEMMA ReviewFrames == TypeOK /\ UnitsByPhase /\ ReviewSteps => DiskFrames
<1> SUFFICES ASSUME TypeOK, UnitsByPhase, ReviewSteps PROVE DiskFrames
  OBVIOUS
<1>1. CASE PublishSteps \/ ConsumeSteps
  BY <1>1, SameDisk
  DEF PublishSteps, PublishStart, PublishHold, PublishPush, PublishPr, ConsumeSteps, ConsumeStart,
      ConsumeVerdict, ConsumeStatus, RetryReview, ReviewNote, ConsumeNothing
<1>2. CASE SpawnReviewSteps
  <2>0. act.role \in Roles /\ act.role # "implementer"
    BY <1>2, RoleFacts
    DEF UnitsByPhase, CallsByLabel, SpawnReviewSteps, ReviewCheck, ReviewMeta, ReviewPack,
        ReviewUnlinkResult, ReviewUnlinkJob, SpawnReviewLabels
  <2>1. CASE ReviewCheck
    BY <2>1, SameDisk DEF ReviewCheck
  <2>2. CASE ReviewMeta
    BY <2>2, DiskTypes DEF ReviewMeta, DiskFrames, Disk
  <2>3. CASE ReviewPack
    BY <2>0, <2>3, DiskTypes DEF ReviewPack, DiskFrames, Disk
  <2>4. CASE ReviewUnlinkResult
    BY <2>0, <2>4, DiskTypes, RoleFacts DEF ReviewUnlinkResult, DiskFrames, Disk
  <2>5. CASE ReviewUnlinkJob
    BY <2>0, <2>5, DiskTypes, RoleFacts DEF ReviewUnlinkJob, DiskFrames, Disk
  <2> QED
    BY <1>2, <2>1, <2>2, <2>3, <2>4, <2>5 DEF SpawnReviewSteps
<1>3. CASE DispatchReviewSteps
  <2>1. CASE ReviewSpent
    BY <2>1, DiskTypes DEF ReviewSpent, DiskFrames, Disk, Wait
  <2>2. CASE ~ReviewSpent
    BY <1>3, <2>2, SameDisk
    DEF DispatchReviewSteps, DispatchReview, DispatchSecurity, DispatchRecovery, ReviewWait,
        ReviewStatus
  <2> QED
    BY <2>1, <2>2
<1>4. CASE OperatorSteps
  <2>1. ASSUME NEW r \in RequiredRoles, ResumeReview(r) PROVE DiskFrames
    <3>1. disk' = [disk EXCEPT !.meta = [disk.meta EXCEPT ![r].tries = MaxRetries - 1]]
      BY <2>1, DiskTypes DEF ResumeReview, Disk
    <3>2. \A s \in ReviewRoles : /\ disk'.meta[s].impl = disk.meta[s].impl
                                 /\ disk'.meta[s].head = disk.meta[s].head
                                 /\ disk'.meta[s].provider = disk.meta[s].provider
      BY <3>1, DiskTypes, RoleFacts DEF Disk, Meta
    <3>3. pc = "idle"
      BY <2>1 DEF ResumeReview, OperatorStart
    <3> QED
      BY <3>1, <3>2, <3>3, DiskTypes DEF DiskFrames, Disk
  <2>2. CASE RecordHost
    BY <2>2, DiskTypes DEF RecordHost, DiskFrames, BindingWriters, Disk
  <2>3. CASE RecordReport
    BY <2>3, DiskTypes DEF RecordReport, DiskFrames, Disk
  <2>4. CASE ReconcileWaitingResult \/ OperatorReviewing
    BY <2>4, SameDisk DEF ReconcileWaitingResult, OperatorReviewing
  <2> QED
    BY <1>4, <2>1, <2>2, <2>3, <2>4 DEF OperatorSteps
<1> QED
  BY <1>1, <1>2, <1>3, <1>4 DEF ReviewSteps

LEMMA MergeGateFrames == TypeOK /\ MergeGateSteps => DiskFrames
<1> SUFFICES ASSUME TypeOK, MergeGateSteps PROVE DiskFrames
  OBVIOUS
<1>1. CASE IntegrateTarget \/ IntegrateBase \/ IntegrateClose
  BY <1>1, DiskTypes
  DEF IntegrateTarget, IntegrateBase, IntegrateClose, DiskFrames, BindingWriters, Disk
<1>2. CASE IntegrateMerge
  BY <1>2, DiskTypes DEF IntegrateMerge, DiskFrames, CloneWriters, Disk
<1>3. CASE FinalizeClone
  BY <1>3, DiskTypes DEF FinalizeClone, DiskFrames, CloneWriters, Disk
<1>4. CASE FinalizeFiles
  BY <1>4, DiskTypes
  DEF FinalizeFiles, DiskFrames, ResultWriters, JobWriters, PackWriters, BindingWriters, Disk
<1>5. CASE \/ IntegrateStart \/ IntegrateInspect \/ IntegrateCount \/ IntegrateStatus
           \/ AdvanceStart \/ AdvanceStatus \/ MergeSteps
           \/ FinalizeStart \/ FinalizeComment \/ FinalizeClose \/ FinalizeStatus
  BY <1>5, SameDisk
  DEF IntegrateStart, IntegrateInspect, IntegrateCount, IntegrateStatus, AdvanceStart,
      AdvanceStatus, MergeSteps, MergeStart, MergeStatus, MergeCall, MergeRefused, MergeReverts,
      MergeAmbiguous, FinalizeStart, FinalizeComment, FinalizeClose, FinalizeStatus
<1> QED
  BY <1>1, <1>2, <1>3, <1>4, <1>5 DEF MergeGateSteps, IntegrateSteps, FinalizeSteps

LEMMA WorkerFrames == TypeOK /\ WorkerSteps => DiskFrames
<1> SUFFICES ASSUME TypeOK, WorkerSteps PROVE DiskFrames
  OBVIOUS
<1>1. CASE WorkerCommits \/ ImplementerSucceeds \/ ImplementerMisreports
  BY <1>1, DiskTypes
  DEF WorkerCommits, ImplementerSucceeds, ImplementerMisreports, UnitEnds, DiskFrames,
      ResultWriters, CloneWriters, ImplementerWorks, Disk
<1>2. ASSUME NEW r \in Roles, NEW k, UnitEnds(r, k, 0), Active(r) PROVE DiskFrames
  BY <1>2, DiskTypes, RoleFacts DEF UnitEnds, DiskFrames, ResultWriters, ImplementerWorks, Disk
<1>3. ASSUME NEW r \in Roles, UnitKilled(r) PROVE DiskFrames
  BY <1>3, SameDisk DEF UnitKilled
<1> QED
  BY <1>1, <1>2, <1>3, RoleFacts DEF WorkerSteps, ReviewerDecides, WorkerFails, WorkerQuota

LEMMA FramesHold == TypeOK /\ UnitsByPhase /\ [Next]_vars => DiskFrames
<1> SUFFICES ASSUME TypeOK, UnitsByPhase, [Next]_vars PROVE DiskFrames
  OBVIOUS
<1>1. CASE CooldownSteps \/ SpawnSteps \/ MergeGateSteps \/ ReviewSteps \/ WorkerSteps
  BY <1>1, CooldownFrames, SpawnFrames, MergeGateFrames, ReviewFrames, WorkerFrames
<1>2. CASE ImplementationSteps
  <2>1. CASE ResumeStart \/ ResumeStatus
    BY <2>1, SameDisk DEF ResumeStart, ResumeStatus
  <2> QED
    BY <1>2, <2>1, DispatchFrames, LaunchFrames, ReconcileFrames, RetryFrames
    DEF ImplementationSteps
<1>3. CASE ReviewEnvironment
  <2>1. PICK r \in ReviewRoles, d \in {"approve", "reject"} : ProtocolFix(r, d)
    BY <1>3 DEF ReviewEnvironment
  <2> QED
    BY <2>1, DiskTypes, RoleFacts DEF ProtocolFix, DiskFrames, Disk
<1>4. CASE \/ BrokerStops \/ BrokerRaises \/ CooldownEnvironment \/ GitHubSteps
           \/ UNCHANGED vars
  BY <1>4, SameDisk
  DEF BrokerStops, BrokerRaises, CooldownEnvironment, OtherIssueQuota, CooldownEnds, GitHubSteps,
      HumanPush, BaseAdvances, CiReports, HumanHold, vars
<1> QED
  BY <1>1, <1>2, <1>3, <1>4 DEF Next

(***************************************************************************)
(* The payload: loaded when a handler begins, carried until it ends.       *)
(***************************************************************************)
Ends == pc' = "idle" /\ act' = NoAct

Begins ==
  /\ pc = "idle" /\ pc' # "idle"
  /\ act'.status = item.status /\ act'.provider = item.provider /\ act'.result = disk.result
  /\ act'.meta = disk.meta /\ act'.head = gh.head /\ act'.saved = NoTx
  /\ act'.newmeta = NoMeta \/ pc' = "review_check"
  /\ item.status = "IMPLEMENTED" \/ ~act'.quota

GoesOn ==
  /\ pc # "idle" /\ pc' # "idle"
  /\ act'.status = act.status /\ act'.provider = act.provider /\ act'.result = act.result
  /\ act'.meta = act.meta /\ act'.head = act.head
  /\ act'.newmeta = act.newmeta \/ pc' = "review_check"
  /\ (act'.saved = act.saved /\ act'.quota = act.quota) \/ RetryPrepare

Handles == Ends \/ Begins \/ GoesOn

\* The review metadata about to be written is about the payload.
MetaBound ==
  /\ act'.role \in ReviewRoles
  /\ act'.newmeta.impl = act'.result["implementer"] /\ act'.newmeta.head = act'.head
  /\ act'.newmeta.provider = act'.agent

LEMMA PayloadMoves ==
  ASSUME TypeOK, pc' # "idle"
  PROVE  /\ \A l : Goto(l) /\ pc # "idle" => GoesOn
         /\ \A l : Resume(l) /\ pc # "idle" => GoesOn
         /\ \A l : Accept(l) /\ pc = "idle" => Begins
         /\ \A r, p, l : SpawnAgent(r, p, l) /\ pc # "idle" => GoesOn
         /\ \A l, r, p, s : Queue(act, l, r, p, s) /\ pc # "idle" => GoesOn
         /\ \A l, r, p, s : Queue(Payload, l, r, p, s) /\ pc = "idle" => Begins
<1>0. act \in Act /\ Payload \in Act
  BY PayloadType DEF TypeOK
<1>1. ASSUME NEW l, Goto(l) \/ Resume(l), pc # "idle" PROVE GoesOn
  BY <1>1 DEF Goto, Resume, GoesOn
<1>2. ASSUME NEW l, Accept(l), pc = "idle" PROVE Begins
  BY <1>2 DEF Accept, Begins, Payload
<1>3. ASSUME NEW r, NEW p, NEW l, SpawnAgent(r, p, l), pc # "idle" PROVE GoesOn
  BY <1>0, <1>3 DEF SpawnAgent, GoesOn, Act
<1>4. ASSUME NEW l, NEW r, NEW p, NEW s, Queue(act, l, r, p, s), pc # "idle" PROVE GoesOn
  BY <1>0, <1>4 DEF Queue, GoesOn, Act
<1>5. ASSUME NEW l, NEW r, NEW p, NEW s, Queue(Payload, l, r, p, s), pc = "idle" PROVE Begins
  BY <1>5 DEF Queue, Begins, Payload
<1> QED
  BY <1>1, <1>2, <1>3, <1>4, <1>5

LEMMA CallMoves ==
  ASSUME TypeOK, NEW role \in ReviewRoles, NEW provider, NEW tries, NEW recovery, NEW next
  PROVE  /\ CallReview(act, role, provider, tries, recovery, next) /\ pc # "idle"
              => GoesOn /\ pc' = "review_check" /\ MetaBound /\ act'.agent = provider
         /\ CallReview(Payload, role, provider, tries, recovery, next) /\ pc = "idle"
              => Begins /\ pc' = "review_check" /\ MetaBound /\ act'.agent = provider
         /\ /\ CallReview([Payload EXCEPT !.quota = TRUE], role, provider, tries, recovery, next)
            /\ pc = "idle" /\ item.status = "IMPLEMENTED"
            => Begins /\ pc' = "review_check" /\ MetaBound /\ act'.agent = provider
<1>0. act \in Act
  BY DEF TypeOK
<1>1. CallReview(act, role, provider, tries, recovery, next) /\ pc # "idle"
        => GoesOn /\ pc' = "review_check" /\ MetaBound /\ act'.agent = provider
  BY <1>0 DEF CallReview, GoesOn, MetaBound, Act
<1>2. CallReview(Payload, role, provider, tries, recovery, next) /\ pc = "idle"
        => Begins /\ pc' = "review_check" /\ MetaBound /\ act'.agent = provider
  BY DEF CallReview, Begins, MetaBound, Payload
<1>3. /\ CallReview([Payload EXCEPT !.quota = TRUE], role, provider, tries, recovery, next)
      /\ pc = "idle" /\ item.status = "IMPLEMENTED"
      => Begins /\ pc' = "review_check" /\ MetaBound /\ act'.agent = provider
  <2> DEFINE loaded == [Payload EXCEPT !.quota = TRUE]
  <2>1. /\ loaded.status = item.status /\ loaded.provider = item.provider
        /\ loaded.result = disk.result /\ loaded.meta = disk.meta /\ loaded.head = gh.head
        /\ loaded.saved = NoTx /\ DOMAIN loaded = DOMAIN NoAct
    BY DEF Payload, NoAct
  <2> HIDE DEF loaded
  <2>2. /\ CallReview(loaded, role, provider, tries, recovery, next)
        /\ pc = "idle" /\ item.status = "IMPLEMENTED"
        => Begins /\ pc' = "review_check" /\ MetaBound /\ act'.agent = provider
    BY <2>1 DEF CallReview, Begins, MetaBound, NoAct
  <2> QED
    BY <2>2 DEF loaded
<1> QED
  BY <1>1, <1>2, <1>3

LEMMA ReturnEnds == Return => Ends
  BY DEF Return, Ends

LEMMA CooldownHandles == TypeOK /\ CooldownSteps => Handles
<1> SUFFICES ASSUME TypeOK, CooldownSteps PROVE Handles
  OBVIOUS
<1>1. CASE RecoverStart
  BY <1>1 DEF RecoverStart, Payload, Handles, Begins
<1>2. CASE QuotaMark \/ QueueWait \/ RecoverSelect \/ RecoverField \/ RecoverReview
  <2>1. pc' # "idle"
    BY <1>2 DEF QuotaMark, QueueWait, RecoverSelect, RecoverField, RecoverReview, Goto
  <2> QED
    BY <1>2, <2>1, PayloadMoves
    DEF QuotaMark, QueueWait, RecoverSelect, RecoverField, RecoverReview, Handles
<1>3. CASE QueueStatus \/ RecoverResume \/ RecoverReviewStatus
  BY <1>3, ReturnEnds DEF QueueStatus, RecoverResume, RecoverReviewStatus, Handles
<1> QED
  BY <1>1, <1>2, <1>3 DEF CooldownSteps

LEMMA SpawnHandles == TypeOK /\ SpawnSteps => Handles
<1> SUFFICES ASSUME TypeOK, SpawnSteps PROVE Handles
  OBVIOUS
<1>1. CASE SpawnTruncate \/ SpawnJob
  <2>1. pc' # "idle"
    BY <1>1 DEF SpawnTruncate, SpawnJob, Goto
  <2> QED
    BY <1>1, <2>1, PayloadMoves DEF SpawnTruncate, SpawnJob, Handles
<1>2. CASE SpawnRefused
  BY <1>2, ReturnEnds DEF SpawnRefused, Handles
<1>3. CASE SpawnUnit
  BY <1>3, PayloadMoves DEF SpawnUnit, Resume, Handles, Ends
<1> QED
  BY <1>1, <1>2, <1>3 DEF SpawnSteps

LEMMA DispatchHandles == TypeOK /\ DispatchSteps => Handles
<1> SUFFICES ASSUME TypeOK, DispatchSteps PROVE Handles
  OBVIOUS
<1>1. CASE DispatchStart
  <2>1. CASE Queue(Payload, "queue", "implementer", item.provider, "READY")
    <3>1. pc = "idle" /\ pc' # "idle"
      BY <1>1, <2>1 DEF DispatchStart, Queue
    <3> QED
      BY <2>1, <3>1, PayloadMoves DEF Handles
  <2>2. CASE Accept("dispatch_claim")
    <3>1. pc = "idle" /\ pc' # "idle"
      BY <1>1, <2>2 DEF DispatchStart, Accept
    <3> QED
      BY <2>2, <3>1, PayloadMoves DEF Handles
  <2> QED
    BY <1>1, <2>1, <2>2 DEF DispatchStart
<1>2. CASE \/ DispatchClaim \/ DispatchClone \/ DispatchMeta \/ DispatchPack \/ DispatchSpawn
           \/ DispatchFails \/ UnwindFiles
  <2>1. pc # "idle" /\ pc' # "idle"
    BY <1>2
    DEF DispatchClaim, DispatchClone, DispatchMeta, DispatchPack, DispatchSpawn, DispatchFails,
        UnwindFiles, Goto, SpawnAgent
  <2> QED
    BY <1>2, <2>1, PayloadMoves
    DEF DispatchClaim, DispatchClone, DispatchMeta, DispatchPack, DispatchSpawn, DispatchFails,
        UnwindFiles, Handles
<1>3. CASE DispatchStale \/ DispatchDone \/ UnwindStatus
  BY <1>3, ReturnEnds DEF DispatchStale, DispatchDone, UnwindStatus, Handles
<1> QED
  BY <1>1, <1>2, <1>3 DEF DispatchSteps

LEMMA StartHandles ==
  ASSUME NEW statuses, NEW l \in {"reconcile", "retry"}, ImplementationStart(statuses, l)
  PROVE  Begins
  BY DEF ImplementationStart, Payload, Begins

LEMMA LaunchHandles == TypeOK /\ UnitsByPhase /\ LaunchSteps => Handles
<1> SUFFICES ASSUME TypeOK, UnitsByPhase, LaunchSteps PROVE Handles
  OBVIOUS
<1>1. CASE LaunchSpent \/ LaunchSettled \/ LaunchRestored \/ LaunchStatus
  <2>1. pc # "idle" /\ pc' # "idle"
    BY <1>1
    DEF LaunchSpent, LaunchSettled, LaunchRestored, LaunchStatus, Goto, UnitsByPhase, CallsByLabel
  <2> QED
    BY <1>1, <2>1, PayloadMoves
    DEF LaunchSpent, LaunchSettled, LaunchRestored, LaunchStatus, Handles
<1>2. CASE LaunchClosed \/ LaunchKept
  BY <1>2, ReturnEnds DEF LaunchClosed, LaunchKept, Handles
<1> QED
  BY <1>1, <1>2 DEF LaunchSteps

LEMMA ReconcileHandles == TypeOK /\ ReconcileSteps => Handles
<1> SUFFICES ASSUME TypeOK, ReconcileSteps PROVE Handles
  OBVIOUS
<1>1. CASE ReconcileStart
  BY <1>1, StartHandles DEF ReconcileStart, Handles
<1>2. CASE ReconcileAbandoned
  BY <1>2, PayloadMoves, ReturnEnds DEF ReconcileAbandoned, Goto, Handles
<1>3. CASE ReconcileQuota
  BY <1>3, PayloadMoves DEF ReconcileQuota, Queue, Handles
<1>4. CASE ReconcileReady \/ ReconcileFailure \/ ReconcileSuccess \/ ReconcileNothing
  BY <1>4, ReturnEnds
  DEF ReconcileReady, ReconcileFailure, ReconcileSuccess, ReconcileNothing, Handles
<1> QED
  BY <1>1, <1>2, <1>3, <1>4 DEF ReconcileSteps

LEMMA RetryHandles == TypeOK /\ RetrySteps => Handles
<1> SUFFICES ASSUME TypeOK, RetrySteps PROVE Handles
  OBVIOUS
<1>1. CASE RetryStart
  BY <1>1, StartHandles DEF RetryStart, Handles
<1>2. CASE RetryPrepare
  <2>1. act \in Act
    BY DEF TypeOK
  <2>2. /\ act'.status = act.status /\ act'.provider = act.provider /\ act'.result = act.result
        /\ act'.meta = act.meta /\ act'.head = act.head /\ act'.newmeta = act.newmeta
        /\ pc = "retry" /\ pc' # "idle"
    BY <1>2, <2>1 DEF RetryPrepare, Act
  <2> QED
    BY <1>2, <2>2 DEF Handles, GoesOn
<1>3. CASE \/ RetryTx \/ RetryPack \/ RetryUnlinkJob \/ RetryUnlinkResult \/ RetryCount
           \/ RetryStatus \/ RetryGuard \/ RetryGuardFails \/ RetryUncount \/ RetryBudget
           \/ RetrySpent
  <2>1. pc # "idle" /\ pc' # "idle"
    BY <1>3
    DEF RetryTx, RetryPack, RetryUnlinkJob, RetryUnlinkResult, RetryCount, RetryStatus,
        RetryGuard, RetryGuardFails, RetryUncount, RetryBudget, RetrySpent, Goto, SpawnAgent
  <2> QED
    BY <1>3, <2>1, PayloadMoves
    DEF RetryTx, RetryPack, RetryUnlinkJob, RetryUnlinkResult, RetryCount, RetryStatus,
        RetryGuard, RetryGuardFails, RetryUncount, RetryBudget, RetrySpent, Handles
<1>4. CASE RetryRestore
  BY <1>4, PayloadMoves, ReturnEnds DEF RetryRestore, Goto, Handles
<1>5. CASE RetryLimit \/ RetryRefused \/ RetryUnstatus \/ RetryClose
  BY <1>5, ReturnEnds DEF RetryLimit, RetryRefused, RetryUnstatus, RetryClose, Handles
<1> QED
  BY <1>1, <1>2, <1>3, <1>4, <1>5 DEF RetrySteps

LEMMA SpawnReviewHandles == TypeOK /\ SpawnReviewSteps => Handles
<1> SUFFICES ASSUME TypeOK, SpawnReviewSteps PROVE Handles
  OBVIOUS
<1>1. CASE ReviewCheck
  BY <1>1, PayloadMoves, ReturnEnds DEF ReviewCheck, Resume, Goto, Handles, Ends
<1>2. CASE ReviewMeta \/ ReviewPack \/ ReviewUnlinkResult \/ ReviewUnlinkJob
  <2>1. pc # "idle" /\ pc' # "idle"
    BY <1>2 DEF ReviewMeta, ReviewPack, ReviewUnlinkResult, ReviewUnlinkJob, Goto, SpawnAgent
  <2> QED
    BY <1>2, <2>1, PayloadMoves
    DEF ReviewMeta, ReviewPack, ReviewUnlinkResult, ReviewUnlinkJob, Handles
<1> QED
  BY <1>1, <1>2 DEF SpawnReviewSteps

\* dispatch_review and retry_review, by the way they go on.
LEMMA DispatchReviewHandles == TypeOK /\ DispatchReviewSteps => Handles
<1> SUFFICES ASSUME TypeOK, DispatchReviewSteps PROVE Handles
  OBVIOUS
<1>1. CASE DispatchReview
  <2>1. pc = "idle"
    BY <1>1 DEF DispatchReview, ReviewReady
  <2>2. PICK provider, next :
          \/ Queue(Payload, "queue", "reviewer", item.provider, "IMPLEMENTED")
          \/ CallReview(Payload, "reviewer", provider, 0, 0, next)
    BY <1>1 DEF DispatchReview
  <2>3. CASE Queue(Payload, "queue", "reviewer", item.provider, "IMPLEMENTED")
    <3>1. pc' # "idle"
      BY <2>3 DEF Queue
    <3> QED
      BY <2>1, <2>3, <3>1, PayloadMoves DEF Handles
  <2>4. CASE CallReview(Payload, "reviewer", provider, 0, 0, next)
    BY <2>1, <2>4, CallMoves, RoleFacts DEF Handles
  <2> QED
    BY <2>2, <2>3, <2>4
<1>2. CASE DispatchSecurity
  <2>1. pc # "idle" /\ "security-reviewer" \in ReviewRoles
    BY <1>2 DEF DispatchSecurity, ReviewRoles
  <2>2. PICK provider :
          Return \/ CallReview(act, "security-reviewer", provider, 0, 0, "review_status")
    BY <1>2 DEF DispatchSecurity
  <2> QED
    BY <2>1, <2>2, CallMoves, ReturnEnds DEF Handles
<1>3. CASE DispatchRecovery
  <2>1. pc = "idle" /\ item.status = "IMPLEMENTED" /\ disk.wait.role \in ReviewRoles
    BY <1>3, RoleFacts DEF DispatchRecovery, ReviewReady
  <2>2. PICK provider, tries :
          \/ Accept("review_wait")
          \/ CallReview([Payload EXCEPT !.quota = TRUE], disk.wait.role, provider, tries,
                        disk.wait.recovery, "review_status")
    BY <1>3 DEF DispatchRecovery
  <2>3. CASE Accept("review_wait")
    <3>1. pc' # "idle"
      BY <2>3 DEF Accept
    <3> QED
      BY <2>1, <2>3, <3>1, PayloadMoves DEF Handles
  <2> QED
    BY <2>1, <2>2, <2>3, CallMoves DEF Handles
<1>4. CASE ReviewWait \/ ReviewSpent
  BY <1>4, ReturnEnds DEF ReviewWait, ReviewSpent, Handles
<1>5. CASE ReviewStatus
  BY <1>5, PayloadMoves, ReturnEnds DEF ReviewStatus, Goto, Handles
<1> QED
  BY <1>1, <1>2, <1>3, <1>4, <1>5 DEF DispatchReviewSteps

LEMMA ConsumeHandles == TypeOK /\ UnitsByPhase /\ ConsumeSteps => Handles
<1> SUFFICES ASSUME TypeOK, UnitsByPhase, ConsumeSteps PROVE Handles
  OBVIOUS
<1>1. CASE ConsumeStart
  BY <1>1 DEF ConsumeStart, Payload, Handles, Begins
<1>2. CASE ConsumeVerdict
  <2>1. act \in Act /\ pc # "idle" /\ pc' # "idle"
    BY <1>2 DEF TypeOK, ConsumeVerdict, Goto
  <2>2. act' = act \/ act' = [act EXCEPT !.role = "security-reviewer"]
    BY <1>2 DEF ConsumeVerdict, Goto
  <2> QED
    BY <2>1, <2>2 DEF Handles, GoesOn, Act
<1>3. CASE RetryReview
  <2>1. pc # "idle" /\ act.role \in ReviewRoles
    BY <1>3, RoleFacts DEF RetryReview, UnitsByPhase, CallsByLabel
  <2>2. PICK provider, tries :
          \/ Queue(act, "quota_mark", act.role, provider, "REVIEWING")
          \/ Return
          \/ CallReview(act, act.role, provider, tries, 0, "review_note")
    BY <1>3 DEF RetryReview
  <2>3. CASE Queue(act, "quota_mark", act.role, provider, "REVIEWING")
    <3>1. pc' # "idle"
      BY <2>3 DEF Queue
    <3> QED
      BY <2>1, <2>3, <3>1, PayloadMoves DEF Handles
  <2> QED
    BY <2>1, <2>2, <2>3, CallMoves, ReturnEnds DEF Handles
<1>4. CASE ConsumeStatus \/ ReviewNote \/ ConsumeNothing
  BY <1>4, ReturnEnds DEF ConsumeStatus, ReviewNote, ConsumeNothing, Handles
<1> QED
  BY <1>1, <1>2, <1>3, <1>4 DEF ConsumeSteps

LEMMA OtherHandles ==
  TypeOK /\ (ResumeStart \/ ResumeStatus \/ PublishSteps \/ OperatorSteps \/ MergeGateSteps
             \/ BrokerStops \/ BrokerRaises)
    => Handles
<1> SUFFICES ASSUME TypeOK,
                    \/ ResumeStart \/ ResumeStatus \/ PublishSteps \/ OperatorSteps
                    \/ MergeGateSteps \/ BrokerStops \/ BrokerRaises
             PROVE  Handles
  OBVIOUS
<1>1. CASE ResumeStart \/ OperatorStart \/ RecordHost \/ PublishStart
  <2>1. PICK l : Accept(l) /\ pc = "idle" /\ pc' # "idle"
    BY <1>1 DEF ResumeStart, OperatorStart, RecordHost, PublishStart, Accept
  <2> QED
    BY <2>1, PayloadMoves DEF Handles
<1>2. CASE AdvanceStart \/ IntegrateStart \/ MergeStart \/ FinalizeStart
  <2>1. PICK l : Accept(l) /\ pc = "idle" /\ pc' # "idle"
    BY <1>2 DEF AdvanceStart, IntegrateStart, MergeStart, FinalizeStart, Accept
  <2> QED
    BY <2>1, PayloadMoves DEF Handles
<1>3. CASE \/ IntegrateTarget \/ IntegrateMerge \/ IntegrateBase \/ IntegrateCount
           \/ IntegrateStatus \/ MergeStatus \/ MergeRefused \/ FinalizeComment \/ FinalizeClose
           \/ FinalizeStatus \/ FinalizeClone
  <2>1. PICK l : Goto(l) /\ pc # "idle" /\ pc' # "idle"
    BY <1>3
    DEF IntegrateTarget, IntegrateMerge, IntegrateBase, IntegrateCount, IntegrateStatus,
        MergeStatus, MergeRefused, FinalizeComment, FinalizeClose, FinalizeStatus, FinalizeClone,
        Goto
  <2> QED
    BY <2>1, PayloadMoves DEF Handles
<1>4. CASE PublishPush
  BY <1>4, PayloadMoves, ReturnEnds DEF PublishPush, Goto, Handles
<1>5. CASE \/ ResumeStatus \/ PublishHold \/ PublishPr \/ OperatorReviewing \/ RecordReport
           \/ AdvanceStatus \/ IntegrateInspect \/ IntegrateClose \/ MergeCall \/ MergeReverts
           \/ MergeAmbiguous \/ FinalizeFiles \/ BrokerStops \/ BrokerRaises
  BY <1>5, ReturnEnds
  DEF ResumeStatus, PublishHold, PublishPr, OperatorReviewing, RecordReport, AdvanceStatus,
      IntegrateInspect, IntegrateClose, MergeCall, MergeReverts, MergeAmbiguous, FinalizeFiles,
      BrokerStops, BrokerRaises, Handles
<1> QED
  BY <1>1, <1>2, <1>3, <1>4, <1>5
  DEF PublishSteps, OperatorSteps, ResumeReview, ReconcileWaitingResult, MergeGateSteps,
      IntegrateSteps, MergeSteps, FinalizeSteps

LEMMA HandlesOrWaits ==
  TypeOK /\ UnitsByPhase /\ [Next]_vars => Handles \/ UNCHANGED <<pc, act>>
<1> SUFFICES ASSUME TypeOK, UnitsByPhase, [Next]_vars PROVE Handles \/ UNCHANGED <<pc, act>>
  OBVIOUS
<1>1. CASE \/ WorkerSteps \/ CooldownEnvironment \/ ReviewEnvironment \/ GitHubSteps
           \/ UNCHANGED vars
  BY <1>1, EnvironmentMoves
<1> QED
  BY <1>1, CooldownHandles, SpawnHandles, DispatchHandles, LaunchHandles, ReconcileHandles,
     RetryHandles, SpawnReviewHandles, DispatchReviewHandles, ConsumeHandles, OtherHandles
  DEF Next, ImplementationSteps, ReviewSteps

(***************************************************************************)
(* The labels: which steps lead to the ones the later proofs look at.      *)
(***************************************************************************)
\* dispatch until the worker is running, and a retry once it is prepared.
DispatchLabels ==
  {"dispatch_claim", "dispatch_clone", "dispatch_meta", "dispatch_pack", "dispatch_spawn",
   "unwind_files", "unwind_status"}
RetryLabels ==
  {"retry_tx", "retry_pack", "retry_unlink_job", "retry_unlink_result", "retry_count",
   "retry_status", "retry_guard", "retry_restore", "retry_uncount", "retry_unstatus",
   "retry_budget"}

Came ==
  /\ pc' = "spawn" => DispatchSpawn \/ RetryGuard \/ RetryBudget \/ ReviewMeta
  /\ pc' = "spawn_job" => SpawnTruncate
  /\ pc' = "spawn_unit" => SpawnJob
  /\ pc' = "recover_launch" => ReconcileStart \/ RetryStart
  /\ pc' = "reconcile" => ReconcileStart \/ LaunchSettled
  /\ pc' = "retry" => RetryStart \/ LaunchSettled
  /\ pc' = "launch_status" => LaunchRestored
  /\ pc' = "reconcile_ready" => ReconcileAbandoned
  /\ pc' = "quota_mark" => ReconcileQuota \/ RetryReview
  /\ pc' = "queue" => QuotaMark \/ DispatchStart \/ DispatchReview
  /\ pc' = "queue_status" => QueueWait
  /\ pc' = "retry_tx" => RetryPrepare
  /\ pc' \in RetryLabels => RetryPrepare \/ (pc \in RetryLabels /\ act' = act)
  /\ pc' = "dispatch_claim" => DispatchStart
  /\ pc' \in DispatchLabels \ {"dispatch_claim"} => pc \in DispatchLabels
  /\ pc' = "unwind_status" => UnwindFiles
  /\ pc' = "recover_select" => RecoverStart
  /\ pc' = "recover_provider" => RecoverSelect
  /\ pc' = "recover_resume" => RecoverField
  /\ pc' = "operator_reviewing" => \E r \in RequiredRoles : OperatorTarget(r)
  /\ pc' = "review_check" =>
       MetaBound /\ (DispatchReview \/ DispatchSecurity \/ DispatchRecovery \/ RetryReview)
  /\ pc' \in SpawnReviewLabels \ {"review_check"} => pc \in SpawnReviewLabels /\ act' = act
  /\ pc' = "review_stage" => ReviewCheck
  /\ pc' = "review_pack" => ReviewCheck \/ ReviewMeta
  /\ pc' = "review_unlink_result" => ReviewPack
  /\ pc' = "review_unlink_job" => ReviewUnlinkResult
  /\ pc' = "review_security" => ReviewCheck \/ SpawnUnit
  /\ pc' = "review_wait" => DispatchRecovery
  /\ pc' = "consume" => ConsumeStart \/ ConsumeVerdict
  /\ pc' = "consume_status" => ConsumeVerdict
  /\ pc' = "int_target" => IntegrateStart
  /\ pc' = "merge_status" => MergeStart
  /\ pc' = "merge_call" => MergeStatus

\* Labels that are of no interest here.
Aside ==
  {"idle", "dispatch_done", "retry_spent", "retry_close", "launch_settled",
   "launch_closed", "recover_review", "recover_reviewing", "recover_status", "publish_push",
   "publish_pr", "publish_hold", "review_status", "review_spent",
   "review_note", "operator_status", "operator_report", "advance_status",
   "int_inspect", "int_resume", "int_merge", "int_base", "int_count", "int_status",
   "int_close", "merge_failed", "final_comment", "final_close", "final_status", "final_clone",
   "final_files"}

LEMMA AsideCame == pc' \in Aside => Came
  BY DEF Came, Aside, RetryLabels, DispatchLabels, SpawnReviewLabels

LEMMA CooldownCame == CooldownSteps => Came
<1>1. /\ QuotaMark => pc' = "queue"
      /\ QueueWait => pc' = "queue_status"
      /\ QueueStatus => pc' = "idle"
      /\ RecoverStart => pc' \in {"recover_select", "recover_review", "recover_status"}
      /\ RecoverSelect => pc' = "recover_provider"
      /\ RecoverField => pc' = "recover_resume"
      /\ RecoverResume => pc' = "idle"
      /\ RecoverReview => pc' = "recover_reviewing"
      /\ RecoverReviewStatus => pc' = "idle"
  BY DEF QuotaMark, QueueWait, QueueStatus, RecoverStart, RecoverSelect, RecoverField,
         RecoverResume, RecoverReview, RecoverReviewStatus, Goto, Return
<1> QED
  BY <1>1 DEF CooldownSteps, Came, RetryLabels, DispatchLabels, SpawnReviewLabels

LEMMA SpawnCame == UnitsByPhase /\ SpawnSteps => Came
<1>1. /\ SpawnTruncate => pc' = "spawn_job"
      /\ SpawnJob => pc' = "spawn_unit"
      /\ SpawnRefused => pc' = "idle"
      /\ SpawnUnit => pc = "spawn_unit" /\ pc' = act.next
  BY DEF SpawnTruncate, SpawnJob, SpawnRefused, SpawnUnit, Goto, Return, Resume
<1>2. UnitsByPhase /\ SpawnUnit => pc' \in Aside \cup {"review_security"}
  BY <1>1 DEF UnitsByPhase, CallsByLabel, SpawnLabels, Aside
<1> QED
  BY <1>1, <1>2, AsideCame
  DEF SpawnSteps, Came, RetryLabels, DispatchLabels, SpawnReviewLabels

LEMMA DispatchCame == DispatchSteps => Came
<1>1. /\ DispatchStart => pc' \in {"queue", "dispatch_claim"}
      /\ DispatchClaim => pc = "dispatch_claim" /\ pc' = "dispatch_clone"
      /\ DispatchClone => pc = "dispatch_clone" /\ pc' \in {"dispatch_meta", "unwind_files"}
      /\ DispatchMeta => pc = "dispatch_meta" /\ pc' = "dispatch_pack"
      /\ DispatchPack => pc = "dispatch_pack" /\ pc' \in {"dispatch_spawn", "unwind_files"}
      /\ DispatchSpawn => pc = "dispatch_spawn" /\ pc' \in {"spawn", "unwind_files"}
      /\ DispatchFails => /\ pc \in {"dispatch_clone", "dispatch_meta", "dispatch_pack",
                                     "dispatch_spawn"}
                          /\ pc' = "unwind_files"
      /\ UnwindFiles => pc = "unwind_files" /\ pc' = "unwind_status"
      /\ DispatchStale \/ DispatchDone \/ UnwindStatus => pc' = "idle"
  BY DEF DispatchStart, DispatchClaim, DispatchClone, DispatchMeta, DispatchPack, DispatchSpawn,
         DispatchFails, UnwindFiles, DispatchStale, DispatchDone, UnwindStatus, Goto, Return,
         Queue, Accept, SpawnAgent
<1> QED
  BY <1>1 DEF DispatchSteps, Came, RetryLabels, DispatchLabels, SpawnReviewLabels

LEMMA LaunchCame == UnitsByPhase /\ (LaunchSteps \/ ReconcileSteps) => Came
<1>1. /\ LaunchSpent => pc' = "launch_settled"
      /\ LaunchSettled => pc = "launch_settled" /\ pc' = act.next
      /\ LaunchRestored => pc' = "launch_status"
      /\ LaunchStatus => pc' = "launch_closed"
      /\ LaunchClosed \/ LaunchKept => pc' = "idle"
  BY DEF LaunchSpent, LaunchSettled, LaunchRestored, LaunchStatus, LaunchClosed, LaunchKept,
         Goto, Return
<1>2. UnitsByPhase /\ LaunchSettled => pc' \in {"reconcile", "retry"}
  BY <1>1 DEF UnitsByPhase, CallsByLabel
<1>3. /\ ReconcileStart => pc' \in {"recover_launch", "reconcile"}
      /\ ReconcileAbandoned => pc' \in {"reconcile_ready", "idle"}
      /\ ReconcileQuota => pc' = "quota_mark"
      /\ ReconcileReady \/ ReconcileFailure \/ ReconcileSuccess \/ ReconcileNothing => pc' = "idle"
  BY DEF ReconcileStart, ImplementationStart, ReconcileAbandoned, ReconcileQuota, ReconcileReady,
         ReconcileFailure, ReconcileSuccess, ReconcileNothing, Goto, Return, Queue
<1> QED
  BY <1>1, <1>2, <1>3
  DEF LaunchSteps, ReconcileSteps, Came, RetryLabels, DispatchLabels, SpawnReviewLabels

LEMMA RetryCame == RetrySteps => Came
<1>1. /\ RetryStart => pc' \in {"recover_launch", "retry"}
      /\ RetryPrepare => pc' \in {"retry_tx", "retry_pack"}
      /\ RetryLimit \/ RetryRefused \/ RetryUnstatus \/ RetryClose => pc' = "idle"
      /\ RetryGuard => /\ pc = "retry_guard"
                       /\ pc' = "spawn" \/ (pc' = "retry_budget" /\ act' = act)
      /\ RetryBudget => pc' = "spawn"
      /\ RetryRestore => /\ pc = "retry_restore"
                         /\ pc' = "idle" \/ (pc' = "retry_uncount" /\ act' = act)
      /\ RetrySpent => pc' = "retry_close"
  BY DEF RetryStart, ImplementationStart, RetryPrepare, RetryLimit, RetryRefused, RetryUnstatus,
         RetryClose, RetryGuard, RetryBudget, RetryRestore, RetrySpent, Goto, Return, SpawnAgent
<1>2. /\ \/ RetryTx \/ RetryPack \/ RetryUnlinkJob \/ RetryUnlinkResult \/ RetryCount
         \/ RetryStatus \/ RetryGuardFails \/ RetryUncount
      => pc \in RetryLabels /\ pc' \in RetryLabels \ {"retry_tx"} /\ act' = act
  BY DEF RetryTx, RetryPack, RetryUnlinkJob, RetryUnlinkResult, RetryCount, RetryStatus,
         RetryGuardFails, RetryUncount, Goto, RetryLabels
<1> QED
  BY <1>1, <1>2 DEF RetrySteps, Came, RetryLabels, DispatchLabels, SpawnReviewLabels

LEMMA SpawnReviewCame == UnitsByPhase /\ SpawnReviewSteps => Came
<1>1. /\ ReviewMeta => \/ pc' = "spawn"
                       \/ pc = "review_stage" /\ pc' = "review_pack" /\ act' = act
      /\ ReviewPack => pc = "review_pack" /\ pc' = "review_unlink_result" /\ act' = act
      /\ ReviewUnlinkResult =>
           pc = "review_unlink_result" /\ pc' = "review_unlink_job" /\ act' = act
      /\ ReviewUnlinkJob => pc = "review_unlink_job" /\ pc' = "review_meta" /\ act' = act
      /\ ReviewCheck => /\ pc = "review_check"
                        /\ \/ pc' = act.next \/ pc' = "idle"
                           \/ pc' \in {"review_stage", "review_pack"} /\ act' = act
  BY DEF ReviewMeta, ReviewPack, ReviewUnlinkResult, ReviewUnlinkJob, ReviewCheck, Goto, Return,
         Resume, SpawnAgent
<1>2. UnitsByPhase /\ pc = "review_check" => act.next \in Aside \cup {"review_security"}
  BY DEF UnitsByPhase, CallsByLabel, SpawnReviewLabels, Aside
<1>3. "idle" \in Aside
  BY DEF Aside
<1> QED
  BY <1>1, <1>2, <1>3, AsideCame
  DEF SpawnReviewSteps, Came, RetryLabels, DispatchLabels, SpawnReviewLabels

LEMMA DispatchReviewCame == TypeOK /\ DispatchReviewSteps => Came
<1> SUFFICES ASSUME TypeOK, DispatchReviewSteps PROVE Came
  OBVIOUS
<1>0. \/ pc' \in Aside
      \/ pc' = "queue" /\ DispatchReview
      \/ pc' = "review_wait" /\ DispatchRecovery
      \/ /\ pc' = "review_check" /\ MetaBound
         /\ DispatchReview \/ DispatchSecurity \/ DispatchRecovery
  <2>1. CASE DispatchReview
    <3>1. PICK provider, next :
            \/ Queue(Payload, "queue", "reviewer", item.provider, "IMPLEMENTED")
            \/ CallReview(Payload, "reviewer", provider, 0, 0, next)
      BY <2>1 DEF DispatchReview
    <3>2. pc = "idle" /\ "reviewer" \in ReviewRoles
      BY <2>1 DEF DispatchReview, ReviewReady, ReviewRoles
    <3>3. CASE Queue(Payload, "queue", "reviewer", item.provider, "IMPLEMENTED")
      <4>1. pc' = "queue"
        BY <3>3 DEF Queue
      <4> QED
        BY <2>1, <4>1
    <3> QED
      BY <2>1, <3>1, <3>2, <3>3, CallMoves
  <2>2. CASE DispatchSecurity
    <3>1. PICK provider :
            Return \/ CallReview(act, "security-reviewer", provider, 0, 0, "review_status")
      BY <2>2 DEF DispatchSecurity
    <3>2. pc # "idle" /\ "security-reviewer" \in ReviewRoles
      BY <2>2 DEF DispatchSecurity, ReviewRoles
    <3>3. Return => pc' \in Aside
      BY DEF Return, Aside
    <3> QED
      BY <2>2, <3>1, <3>2, <3>3, CallMoves
  <2>3. CASE DispatchRecovery
    <3>1. pc = "idle" /\ item.status = "IMPLEMENTED" /\ disk.wait.role \in ReviewRoles
      BY <2>3, RoleFacts DEF DispatchRecovery, ReviewReady
    <3>2. PICK provider, tries :
            \/ Accept("review_wait")
            \/ CallReview([Payload EXCEPT !.quota = TRUE], disk.wait.role, provider, tries,
                          disk.wait.recovery, "review_status")
      BY <2>3 DEF DispatchRecovery
    <3>3. Accept("review_wait") => pc' = "review_wait"
      BY DEF Accept
    <3> QED
      BY <2>3, <3>1, <3>2, <3>3, CallMoves
  <2>4. CASE ReviewWait \/ ReviewStatus \/ ReviewSpent
    BY <2>4 DEF ReviewWait, ReviewStatus, ReviewSpent, Goto, Return, Aside
  <2> QED
    BY <2>1, <2>2, <2>3, <2>4 DEF DispatchReviewSteps
<1> QED
  BY <1>0, AsideCame DEF Came, RetryLabels, DispatchLabels, SpawnReviewLabels

LEMMA ConsumeCame == TypeOK /\ UnitsByPhase /\ ConsumeSteps => Came
<1> SUFFICES ASSUME TypeOK, UnitsByPhase, ConsumeSteps PROVE Came
  OBVIOUS
<1>1. CASE RetryReview
  <2>1. pc # "idle" /\ act.role \in ReviewRoles
    BY <1>1, RoleFacts DEF RetryReview, UnitsByPhase, CallsByLabel
  <2>2. PICK provider, tries :
          \/ Queue(act, "quota_mark", act.role, provider, "REVIEWING")
          \/ Return
          \/ CallReview(act, act.role, provider, tries, 0, "review_note")
    BY <1>1 DEF RetryReview
  <2>3. pc' \in {"quota_mark", "idle"} \/ (pc' = "review_check" /\ MetaBound)
    BY <2>1, <2>2, CallMoves DEF Queue, Return
  <2> QED
    BY <1>1, <2>3 DEF Came, RetryLabels, DispatchLabels, SpawnReviewLabels
<1>2. CASE ~RetryReview
  <2>1. /\ ConsumeStart => pc' = "consume"
        /\ ConsumeVerdict => pc' \in {"consume", "consume_status"}
        /\ ConsumeStatus \/ ReviewNote \/ ConsumeNothing => pc' = "idle"
    BY DEF ConsumeStart, ConsumeVerdict, ConsumeStatus, ReviewNote, ConsumeNothing, Goto, Return
  <2> QED
    BY <1>2, <2>1 DEF ConsumeSteps, Came, RetryLabels, DispatchLabels, SpawnReviewLabels
<1> QED
  BY <1>1, <1>2

LEMMA OtherCame ==
  \/ ResumeStart \/ ResumeStatus \/ PublishSteps \/ OperatorSteps \/ BrokerStops \/ BrokerRaises
  => Came
<1>1. /\ ResumeStart => pc' = "operator_status"
      /\ PublishStart => pc' \in {"publish_pr", "publish_push", "publish_hold"}
      /\ PublishPush => pc' \in {"publish_pr", "idle"}
      /\ RecordHost => pc' = "operator_report"
      /\ ResumeStatus \/ PublishHold \/ PublishPr \/ OperatorReviewing \/ RecordReport
         \/ BrokerStops \/ BrokerRaises => pc' = "idle"
  BY DEF ResumeStart, PublishStart, PublishPush, RecordHost, ResumeStatus, PublishHold,
         PublishPr, OperatorReviewing, RecordReport, BrokerStops, BrokerRaises, Goto, Return,
         Accept
<1>2. ASSUME NEW r \in RequiredRoles, ResumeReview(r) PROVE Came
  <2>1. pc' = "operator_reviewing" /\ OperatorTarget(r)
    BY <1>2 DEF ResumeReview, OperatorStart, Accept
  <2> QED
    BY <2>1 DEF Came, RetryLabels, DispatchLabels, SpawnReviewLabels
<1>3. ASSUME ReconcileWaitingResult PROVE Came
  <2>1. pc' = "operator_reviewing" /\ OperatorTarget("reviewer")
    BY <1>3, RoleFacts DEF ReconcileWaitingResult, OperatorStart, Accept
  <2> QED
    BY <2>1, RoleFacts DEF Came, RetryLabels, DispatchLabels, SpawnReviewLabels
<1>4. {"operator_status", "publish_pr", "publish_push", "publish_hold", "idle",
       "operator_report"} \subseteq Aside
  BY DEF Aside
<1> QED
  BY <1>1, <1>2, <1>3, <1>4, AsideCame DEF PublishSteps, OperatorSteps

LEMMA MergeGateCame == MergeGateSteps => Came
<1>1. /\ IntegrateStart => pc' \in {"int_inspect", "int_resume", "int_target"}
      /\ MergeStart => pc' = "merge_status"
      /\ MergeStatus => pc' = "merge_call"
  BY DEF IntegrateStart, MergeStart, MergeStatus, Accept, Goto
<1>2. \/ AdvanceStart \/ AdvanceStatus \/ IntegrateInspect \/ IntegrateTarget \/ IntegrateMerge
      \/ IntegrateBase \/ IntegrateCount \/ IntegrateStatus \/ IntegrateClose
      \/ MergeCall \/ MergeRefused \/ MergeReverts \/ MergeAmbiguous \/ FinalizeSteps
      => pc' \in Aside
  BY DEF AdvanceStart, AdvanceStatus, IntegrateInspect, IntegrateTarget, IntegrateMerge,
         IntegrateBase, IntegrateCount, IntegrateStatus, IntegrateClose, MergeCall, MergeRefused,
         MergeReverts, MergeAmbiguous, FinalizeSteps, FinalizeStart, FinalizeComment,
         FinalizeClose, FinalizeStatus, FinalizeClone, FinalizeFiles, Accept, Goto, Return, Aside
<1> QED
  BY <1>1, <1>2, AsideCame
  DEF MergeGateSteps, IntegrateSteps, MergeSteps, Came, RetryLabels, DispatchLabels,
      SpawnReviewLabels

LEMMA CameOrWaits == TypeOK /\ UnitsByPhase /\ [Next]_vars => Came \/ UNCHANGED <<pc, act>>
<1> SUFFICES ASSUME TypeOK, UnitsByPhase, [Next]_vars PROVE Came \/ UNCHANGED <<pc, act>>
  OBVIOUS
<1>1. CASE \/ WorkerSteps \/ CooldownEnvironment \/ ReviewEnvironment \/ GitHubSteps
           \/ UNCHANGED vars
  BY <1>1, EnvironmentMoves
<1> QED
  BY <1>1, CooldownCame, SpawnCame, DispatchCame, LaunchCame, RetryCame, SpawnReviewCame,
     DispatchReviewCame, ConsumeCame, OtherCame, MergeGateCame
  DEF Next, ImplementationSteps, ReviewSteps

(***************************************************************************)
(* The item, the launches, the implementer's unit and GitHub: who writes   *)
(* them, and which status each handler writes.                             *)
(***************************************************************************)
StatusWriters ==
  \/ QueueStatus \/ RecoverResume \/ RecoverReviewStatus
  \/ DispatchClaim \/ DispatchDone \/ UnwindStatus
  \/ LaunchStatus \/ ReconcileAbandoned \/ ReconcileReady \/ ReconcileFailure \/ ReconcileSuccess
  \/ RetryLimit \/ RetryStatus \/ RetryUnstatus \/ ResumeStatus
  \/ PublishHold \/ ReviewWait \/ ReviewStatus \/ ConsumeStatus \/ RetryReview
  \/ OperatorReviewing \/ AdvanceStatus \/ IntegrateInspect \/ IntegrateStatus
  \/ MergeStatus \/ MergeReverts \/ FinalizeStatus

ItemFrames ==
  /\ item'.status = item.status \/ HumanHold \/ StatusWriters
  /\ item'.provider = item.provider \/ RecoverField
  /\ env'.launches = env.launches \/ SpawnJob
  /\ \/ unit'["implementer"] = unit["implementer"]
     \/ unit'["implementer"] = NoJob /\ WorkerSteps
     \/ SpawnUnit /\ act.role = "implementer"
  /\ ghost.reviews \subseteq ghost'.reviews
  /\ gh'.pr = gh.pr \/ (gh.pr = "none" /\ gh'.pr = "open") \/ MergeCall

LEMMA SameRest ==
  /\ item'.status = item.status \/ StatusWriters
  /\ item'.provider = item.provider
  /\ env'.launches = env.launches /\ unit' = unit /\ ghost'.reviews = ghost.reviews
  /\ gh'.pr = gh.pr
  => ItemFrames
  BY DEF ItemFrames

LEMMA ImplementationRest == TypeOK /\ (CooldownSteps \/ ImplementationSteps) => ItemFrames
<1> SUFFICES ASSUME TypeOK, CooldownSteps \/ ImplementationSteps PROVE ItemFrames
  OBVIOUS
<1>0. item \in Item /\ env \in Env
  BY DEF TypeOK
<1>1. CASE CooldownSteps
  <2>1. CASE RecoverField
    BY <1>0, <2>1 DEF RecoverField, ItemFrames, Item
  <2>2. CASE QueueStatus \/ RecoverResume \/ RecoverReviewStatus
    <3>1. /\ UNCHANGED <<env, unit, ghost, gh>>
          /\ item'.provider = item.provider
      BY <1>0, <2>2
      DEF QueueStatus, RecoverResume, RecoverReviewStatus, SetStatus, Explain, Item
    <3> QED
      BY <2>2, <3>1, SameRest DEF StatusWriters
  <2>3. CASE QuotaMark \/ QueueWait \/ RecoverStart \/ RecoverSelect \/ RecoverReview
    <3>1. UNCHANGED <<item, env, unit, ghost, gh>>
      BY <2>3 DEF QuotaMark, QueueWait, RecoverStart, RecoverSelect, RecoverReview
    <3> QED
      BY <3>1, SameRest
  <2> QED
    BY <1>1, <2>1, <2>2, <2>3 DEF CooldownSteps
<1>2. CASE ImplementationSteps
  <2>1. UNCHANGED <<unit, ghost, gh>> /\ env'.launches = env.launches
    BY <1>0, <1>2
    DEF ImplementationSteps, DispatchSteps, LaunchSteps, ReconcileSteps, RetrySteps,
        DispatchStart, DispatchClaim, DispatchStale, DispatchClone, DispatchMeta, DispatchPack,
        DispatchSpawn, DispatchDone, DispatchFails, UnwindFiles, UnwindStatus,
        LaunchSpent, LaunchSettled, LaunchRestored, LaunchStatus, LaunchClosed, LaunchKept,
        ImplementationStart, ReconcileStart, ReconcileAbandoned, ReconcileReady, ReconcileQuota,
        ReconcileFailure, ReconcileSuccess, ReconcileNothing, RetryStart, RetryLimit,
        RetryPrepare, RetryRefused, RetryTx, RetryPack, RetryUnlinkJob, RetryUnlinkResult,
        RetryCount, RetryStatus, RetryGuard, RetryGuardFails, RetryRestore, RetryUncount,
        RetryUnstatus, RetryBudget, RetrySpent, RetryClose, ResumeStart, ResumeStatus, Env
  <2>2. item'.provider = item.provider
    BY <1>0, <1>2
    DEF ImplementationSteps, DispatchSteps, LaunchSteps, ReconcileSteps, RetrySteps,
        DispatchStart, DispatchClaim, DispatchStale, DispatchClone, DispatchMeta, DispatchPack,
        DispatchSpawn, DispatchDone, DispatchFails, UnwindFiles, UnwindStatus,
        LaunchSpent, LaunchSettled, LaunchRestored, LaunchStatus, LaunchClosed, LaunchKept,
        ImplementationStart, ReconcileStart, ReconcileAbandoned, ReconcileReady, ReconcileQuota,
        ReconcileFailure, ReconcileSuccess, ReconcileNothing, RetryStart, RetryLimit,
        RetryPrepare, RetryRefused, RetryTx, RetryPack, RetryUnlinkJob, RetryUnlinkResult,
        RetryCount, RetryStatus, RetryGuard, RetryGuardFails, RetryRestore, RetryUncount,
        RetryUnstatus, RetryBudget, RetrySpent, RetryClose, ResumeStart, ResumeStatus,
        SetStatus, Explain, Item
  <2>3. CASE \/ DispatchClaim \/ DispatchDone \/ UnwindStatus \/ LaunchStatus
             \/ ReconcileAbandoned \/ ReconcileReady \/ ReconcileFailure \/ ReconcileSuccess
             \/ RetryLimit \/ RetryStatus \/ RetryUnstatus \/ ResumeStatus
    BY <2>1, <2>2, <2>3, SameRest DEF StatusWriters
  <2>4. CASE RetryCount \/ RetryUncount \/ ResumeStart
    BY <1>0, <2>1, <2>2, <2>4, SameRest DEF RetryCount, RetryUncount, ResumeStart, Item
  <2>5. CASE ~(\/ DispatchClaim \/ DispatchDone \/ UnwindStatus \/ LaunchStatus
               \/ ReconcileAbandoned \/ ReconcileReady \/ ReconcileFailure \/ ReconcileSuccess
               \/ RetryLimit \/ RetryStatus \/ RetryUnstatus \/ ResumeStatus
               \/ RetryCount \/ RetryUncount \/ ResumeStart)
    <3>1. item' = item
      <4>1. CASE DispatchSteps
        BY <2>5, <4>1
        DEF DispatchSteps, DispatchStart, DispatchStale, DispatchClone, DispatchMeta,
            DispatchPack, DispatchSpawn, DispatchFails, UnwindFiles
      <4>2. CASE LaunchSteps \/ ReconcileSteps
        BY <2>5, <4>2
        DEF LaunchSteps, ReconcileSteps, LaunchSpent, LaunchSettled, LaunchRestored,
            LaunchClosed, LaunchKept, ImplementationStart, ReconcileStart, ReconcileQuota,
            ReconcileNothing
      <4>3. CASE RetrySteps
        BY <2>5, <4>3
        DEF RetrySteps, ImplementationStart, RetryStart, RetryPrepare, RetryRefused, RetryTx,
            RetryPack, RetryUnlinkJob, RetryUnlinkResult, RetryGuard, RetryGuardFails,
            RetryRestore, RetryBudget, RetrySpent, RetryClose
      <4> QED
        BY <1>2, <2>5, <4>1, <4>2, <4>3 DEF ImplementationSteps
    <3> QED
      BY <2>1, <3>1, SameRest
  <2> QED
    BY <2>3, <2>4, <2>5
<1> QED
  BY <1>1, <1>2

LEMMA ReviewRest == TypeOK /\ ReviewSteps => ItemFrames
<1> SUFFICES ASSUME TypeOK, ReviewSteps PROVE ItemFrames
  OBVIOUS
<1>0. item \in Item /\ env \in Env /\ gh \in GitHub
  BY DEF TypeOK
<1>1. CASE PublishSteps
  <2>1. CASE PublishPr
    BY <1>0, <2>1 DEF PublishPr, ItemFrames, GitHub
  <2>2. CASE PublishHold
    <3>1. UNCHANGED <<env, unit, ghost, gh>> /\ item'.provider = item.provider
      BY <1>0, <2>2 DEF PublishHold, SetStatus, Item
    <3> QED
      BY <2>2, <3>1, SameRest DEF StatusWriters
  <2>3. CASE PublishStart \/ PublishPush
    BY <1>0, <2>3, SameRest DEF PublishStart, PublishPush, GitHub
  <2> QED
    BY <1>1, <2>1, <2>2, <2>3 DEF PublishSteps
<1>2. CASE SpawnReviewSteps
  BY <1>2, SameRest
  DEF SpawnReviewSteps, ReviewCheck, ReviewMeta, ReviewPack, ReviewUnlinkResult, ReviewUnlinkJob
<1>3. CASE DispatchReviewSteps
  <2>1. CASE ReviewWait \/ ReviewStatus
    <3>1. UNCHANGED <<env, unit, ghost, gh>> /\ item'.provider = item.provider
      BY <1>0, <2>1 DEF ReviewWait, ReviewStatus, SetStatus, Item
    <3> QED
      BY <2>1, <3>1, SameRest DEF StatusWriters
  <2>2. CASE DispatchReview \/ DispatchSecurity \/ DispatchRecovery \/ ReviewSpent
    BY <2>2, SameRest DEF DispatchReview, DispatchSecurity, DispatchRecovery, ReviewSpent
  <2> QED
    BY <1>3, <2>1, <2>2 DEF DispatchReviewSteps
<1>4. CASE ConsumeSteps
  <2>1. CASE ConsumeStatus \/ RetryReview
    <3>1. UNCHANGED <<env, unit, ghost, gh>> /\ item'.provider = item.provider
      BY <1>0, <2>1 DEF ConsumeStatus, RetryReview, SetStatus, Explain, Item
    <3> QED
      BY <2>1, <3>1, SameRest DEF StatusWriters
  <2>2. CASE ConsumeStart \/ ConsumeVerdict \/ ReviewNote \/ ConsumeNothing
    BY <1>0, <2>2, SameRest
    DEF ConsumeStart, ConsumeVerdict, ReviewNote, ConsumeNothing, Item, GitHub
  <2> QED
    BY <1>4, <2>1, <2>2 DEF ConsumeSteps
<1>5. CASE OperatorSteps
  <2>1. CASE OperatorReviewing
    <3>1. UNCHANGED <<env, unit, ghost, gh>> /\ item'.provider = item.provider
      BY <1>0, <2>1 DEF OperatorReviewing, SetStatus, Item
    <3> QED
      BY <2>1, <3>1, SameRest DEF StatusWriters
  <2>2. CASE OperatorStart /\ UNCHANGED <<unit, ghost, gh>>
    BY <1>0, <2>2, SameRest DEF OperatorStart, Item, Env
  <2>3. CASE RecordHost \/ RecordReport
    BY <2>3, SameRest DEF RecordHost, RecordReport
  <2> QED
    BY <1>5, <2>1, <2>2, <2>3 DEF OperatorSteps, ResumeReview, ReconcileWaitingResult
<1> QED
  BY <1>1, <1>2, <1>3, <1>4, <1>5 DEF ReviewSteps

LEMMA MergeGateRest == TypeOK /\ MergeGateSteps => ItemFrames
<1> SUFFICES ASSUME TypeOK, MergeGateSteps PROVE ItemFrames
  OBVIOUS
<1>0. item \in Item /\ gh \in GitHub /\ ghost \in Ghost
  BY DEF TypeOK
<1>1. CASE MergeCall
  BY <1>0, <1>1 DEF MergeCall, ItemFrames, Ghost
<1>2. CASE \/ AdvanceStatus \/ IntegrateInspect \/ IntegrateStatus \/ MergeStatus \/ MergeReverts
           \/ FinalizeStatus
  <2>1. UNCHANGED <<env, unit, ghost, gh>> /\ item'.provider = item.provider
    BY <1>0, <1>2
    DEF AdvanceStatus, IntegrateInspect, IntegrateStatus, MergeStatus, MergeReverts,
        FinalizeStatus, SetStatus, Explain, Item
  <2> QED
    BY <1>2, <2>1, SameRest DEF StatusWriters
<1>3. CASE \/ AdvanceStart \/ IntegrateStart \/ IntegrateTarget \/ IntegrateMerge \/ IntegrateBase
           \/ IntegrateCount \/ IntegrateClose \/ MergeStart \/ MergeRefused \/ MergeAmbiguous
           \/ FinalizeStart \/ FinalizeComment \/ FinalizeClose \/ FinalizeClone \/ FinalizeFiles
  <2>1. /\ item'.status = item.status /\ item'.provider = item.provider
        /\ UNCHANGED <<unit, ghost>> /\ gh'.pr = gh.pr /\ env'.launches = env.launches
    BY <1>0, <1>3
    DEF TypeOK, AdvanceStart, IntegrateStart, IntegrateTarget, IntegrateMerge, IntegrateBase,
        IntegrateCount, IntegrateClose, MergeStart, MergeRefused, MergeAmbiguous, FinalizeStart,
        FinalizeComment, FinalizeClose, FinalizeClone, FinalizeFiles, Item, Env, GitHub
  <2> QED
    BY <2>1, SameRest
<1> QED
  BY <1>1, <1>2, <1>3 DEF MergeGateSteps, IntegrateSteps, MergeSteps, FinalizeSteps

LEMMA AroundRest ==
  TypeOK /\ (\/ SpawnSteps \/ BrokerStops \/ BrokerRaises \/ WorkerSteps \/ CooldownEnvironment
             \/ ReviewEnvironment \/ GitHubSteps \/ UNCHANGED vars)
    => ItemFrames
<1> SUFFICES ASSUME TypeOK,
                    \/ SpawnSteps \/ BrokerStops \/ BrokerRaises \/ WorkerSteps
                    \/ CooldownEnvironment \/ ReviewEnvironment \/ GitHubSteps \/ UNCHANGED vars
             PROVE  ItemFrames
  OBVIOUS
<1>0. /\ item \in Item /\ env \in Env /\ gh \in GitHub /\ ghost \in Ghost
      /\ unit \in [Roles -> Job] /\ act.role \in Roles
  BY DEF TypeOK, Act
<1>1. CASE SpawnSteps
  <2>1. CASE SpawnUnit
    BY <1>0, <2>1, RoleFacts DEF SpawnUnit, ItemFrames, Ghost
  <2>2. CASE SpawnJob
    BY <1>0, <2>2 DEF SpawnJob, ItemFrames
  <2>3. CASE SpawnTruncate \/ SpawnRefused
    BY <2>3, SameRest DEF SpawnTruncate, SpawnRefused
  <2> QED
    BY <1>1, <2>1, <2>2, <2>3 DEF SpawnSteps
<1>2. CASE WorkerSteps
  <2>1. /\ item' = item /\ gh' = gh /\ env'.launches = env.launches
        /\ ghost.reviews \subseteq ghost'.reviews
    BY <1>0, <1>2
    DEF WorkerSteps, WorkerCommits, ImplementerSucceeds, ImplementerMisreports, ReviewerDecides,
        WorkerFails, WorkerQuota, UnitKilled, Env, Ghost
  <2>2. unit'["implementer"] \in {unit["implementer"], NoJob}
    BY <1>0, <1>2, RoleFacts
    DEF WorkerSteps, WorkerCommits, ImplementerSucceeds, ImplementerMisreports, ReviewerDecides,
        WorkerFails, WorkerQuota, UnitKilled, UnitEnds
  <2> QED
    BY <1>2, <2>1, <2>2 DEF ItemFrames
<1>3. CASE HumanHold
  BY <1>0, <1>3 DEF HumanHold, SetStatus, ItemFrames, Item, Env
<1>4. CASE HumanPush \/ CiReports
  BY <1>0, <1>4, SameRest DEF HumanPush, CiReports, Env, GitHub
<1>5. CASE BaseAdvances
  <2>1. gh'.pr = gh.pr
    BY <1>0, <1>5 DEF BaseAdvances, GitHub
  <2> QED
    BY <1>5, <2>1, SameRest DEF BaseAdvances
<1>6. CASE ReviewEnvironment
  BY <1>0, <1>6 DEF ReviewEnvironment, ProtocolFix, ItemFrames, Env, Ghost
<1>7. CASE BrokerStops \/ BrokerRaises \/ CooldownEnvironment \/ UNCHANGED vars
  <2>1. UNCHANGED <<item, unit, gh, ghost>> /\ env'.launches = env.launches
    BY <1>0, <1>7
    DEF BrokerStops, BrokerRaises, CooldownEnvironment, OtherIssueQuota, CooldownEnds, Env, vars
  <2> QED
    BY <2>1, SameRest
<1> QED
  BY <1>1, <1>2, <1>3, <1>4, <1>5, <1>6, <1>7 DEF GitHubSteps

LEMMA ItemFramesHold == TypeOK /\ [Next]_vars => ItemFrames
  BY ImplementationRest, ReviewRest, MergeGateRest, AroundRest DEF Next

\* The statuses the handler at a label writes.
Written(l) ==
  CASE l \in {"queue_status", "review_wait"} -> {"WAITING_PROVIDER"}
    [] l = "recover_resume" -> {disk.wait.resume}
    [] l \in {"recover_status", "recover_reviewing"} -> {"IMPLEMENTED"}
    [] l = "dispatch_claim" -> {"CLAIMED"}
    [] l \in {"dispatch_done", "retry_status"} -> {"IN_PROGRESS"}
    [] l \in {"unwind_status", "reconcile_ready"} -> {"READY"}
    [] l \in {"launch_status", "operator_status", "int_status"} -> {"RETRY_PENDING"}
    [] l = "reconcile" -> {"RETRY_PENDING", "IMPLEMENTED"}
    [] l \in {"retry", "publish_hold", "consume", "int_inspect"} -> {Held}
    [] l = "retry_unstatus" -> {act.status}
    [] l \in {"review_status", "operator_reviewing"} -> {"REVIEWING"}
    [] l = "consume_status" -> {"VERIFIED", "CHANGES_REQUESTED"}
    [] l \in {"advance_status", "merge_failed"} -> {"MERGE_READY"}
    [] l = "merge_status" -> {"MERGING"}
    [] l = "final_status" -> {"DONE"}
    [] OTHER -> {}

\* Labels at which a handler writes without requiring its own status first.
Unchecked ==
  {"recover_resume", "recover_reviewing", "launch_status", "reconcile_ready", "retry_status",
   "retry_unstatus", "operator_status", "operator_reviewing", "int_inspect", "int_status"}

LEMMA WritersWrite ==
  ASSUME TypeOK, StatusWriters
  PROVE  /\ item'.status = item.status \/ item'.status \in Written(pc)
         /\ pc # "idle" /\ UNCHANGED <<unit, gh, env, ghost>>
         /\ pc \in Unchecked \/ StatusFresh
<1>0. item \in Item
  BY DEF TypeOK
<1>1. CASE QueueStatus \/ RecoverResume \/ RecoverReviewStatus
  BY <1>0, <1>1
  DEF QueueStatus, RecoverResume, RecoverReviewStatus, SetStatus, Explain, Item, Written,
      Unchecked
<1>2. CASE \/ DispatchClaim \/ DispatchDone \/ UnwindStatus \/ LaunchStatus
           \/ ReconcileAbandoned \/ ReconcileReady \/ ReconcileFailure \/ ReconcileSuccess
  BY <1>0, <1>2
  DEF DispatchClaim, DispatchDone, UnwindStatus, LaunchStatus, ReconcileAbandoned,
      ReconcileReady, ReconcileFailure, ReconcileSuccess, SetStatus, Explain, Item, Written,
      Unchecked
<1>3. CASE RetryLimit \/ RetryStatus \/ RetryUnstatus \/ ResumeStatus
  BY <1>0, <1>3
  DEF RetryLimit, RetryStatus, RetryUnstatus, ResumeStatus, SetStatus, Explain, Item, Written,
      Held, Unchecked, StillFresh, StatusFresh, Expected
<1>4. CASE \/ PublishHold \/ ReviewWait \/ ReviewStatus \/ ConsumeStatus \/ RetryReview
           \/ OperatorReviewing
  BY <1>0, <1>4
  DEF PublishHold, ReviewWait, ReviewStatus, ConsumeStatus, RetryReview, OperatorReviewing,
      SetStatus, Explain, Item, Written, Held, Unchecked, StillFresh,
      StatusFresh, Expected
<1>5. CASE \/ AdvanceStatus \/ IntegrateInspect \/ IntegrateStatus \/ MergeStatus \/ MergeReverts
           \/ FinalizeStatus
  BY <1>0, <1>5
  DEF AdvanceStatus, IntegrateInspect, IntegrateStatus, MergeStatus, MergeReverts,
      FinalizeStatus, SetStatus, Explain, Item, Written, Held, Unchecked, StillFresh,
      StatusFresh, Expected
<1> QED
  BY <1>1, <1>2, <1>3, <1>4, <1>5 DEF StatusWriters

(***************************************************************************)
(* What one step does to the files, the item and the labels.               *)
(***************************************************************************)
Framed == DiskFrames /\ ItemFrames
Guided == UNCHANGED <<pc, act>> \/ (Handles /\ Came)

LEMMA StepMoves == TypeOK /\ UnitsByPhase /\ [Next]_vars => Framed /\ Guided
<1> SUFFICES ASSUME TypeOK, UnitsByPhase, [Next]_vars PROVE Framed /\ Guided
  OBVIOUS
<1>1. Framed
  BY FramesHold, ItemFramesHold DEF Framed
<1>2. Guided
  BY HandlesOrWaits, CameOrWaits DEF Guided
<1> QED
  BY <1>1, <1>2

\* What a worker leaves.
Left(result) ==
  IF ParsesImplementation(result)
  THEN result.run = unit["implementer"].id /\ result.deferred = HostCheck
  ELSE result.run = 0

LEMMA ResultMoves ==
  ASSUME TypeOK, Framed
  PROVE  \/ Impl' \in {Impl, NoResult, Simple("empty")}
         \/ LaunchRestored /\ Impl' = disk.tx.result
         \/ RetryRestore /\ Impl' = act.saved.result
         \/ ImplementerWorks /\ Left(Impl')
<1>0. disk \in Disk /\ disk.result \in [Roles -> Result]
  BY DiskTypes
<1>1. CASE ResultWriters
  <2>1. CASE SpawnTruncate /\ act.role = "implementer"
    BY <1>0, <2>1, RoleFacts DEF SpawnTruncate, Impl, Disk
  <2>2. CASE LaunchRestored
    BY <1>0, <2>2, RoleFacts DEF LaunchRestored, Impl, Disk
  <2>3. CASE RetryUnlinkResult \/ FinalizeFiles
    <3>1. CASE RetryUnlinkResult
      BY <1>0, <3>1, RoleFacts DEF RetryUnlinkResult, Impl, Disk
    <3>2. CASE FinalizeFiles
      <4>1. disk'.result = [r \in Roles |-> NoResult]
        BY <1>0, <3>2 DEF FinalizeFiles, Disk
      <4> QED
        BY <4>1, RoleFacts DEF Impl
    <3> QED
      BY <2>3, <3>1, <3>2
  <2>4. CASE RetryRestore
    BY <1>0, <2>4, RoleFacts DEF RetryRestore, Impl, Disk
  <2>5. CASE ImplementerWorks
    <3>1. CASE WorkerCommits \/ \E r \in Roles : UnitKilled(r)
      BY <1>0, <3>1 DEF WorkerCommits, UnitKilled, Impl, Disk
    <3>2. CASE ImplementerSucceeds
      <4>1. /\ Impl' = [kind |-> "ok", commit |-> disk.clone.head,
                         deferred |-> "ok" = "ok" /\ HostCheck,
                         run |-> IF "ok" = "ok" THEN unit["implementer"].id ELSE 0]
        BY <1>0, <3>2, RoleFacts DEF ImplementerSucceeds, UnitEnds, Impl, Disk
      <4>2. Impl'.kind = "ok" /\ Impl'.run = unit["implementer"].id
        BY <4>1
      <4>3. Impl'.deferred = HostCheck
        BY <4>1, LifecycleAssumption
      <4> QED
        BY <2>5, <4>2, <4>3 DEF Left, ParsesImplementation
    <3>3. CASE ImplementerMisreports
      BY <1>0, <2>5, <3>3, RoleFacts
      DEF ImplementerMisreports, Impl, Disk, Left, ParsesImplementation
    <3>4. ASSUME NEW r \in Roles, NEW k, UnitEnds(r, k, 0), k # "ok"
          PROVE  Impl' = Impl \/ Left(Impl')
      <4>1. CASE r = "implementer"
        BY <1>0, <3>4, <4>1 DEF UnitEnds, Impl, Disk, Left, ParsesImplementation
      <4>2. CASE r # "implementer"
        BY <1>0, <3>4, <4>2, RoleFacts DEF UnitEnds, Impl, Disk
      <4> QED
        BY <4>1, <4>2
    <3> QED
      BY <2>5, <3>1, <3>2, <3>3, <3>4, RoleFacts
      DEF ImplementerWorks, WorkerSteps, ReviewerDecides, WorkerFails, WorkerQuota
  <2> QED
    BY <1>1, <2>1, <2>2, <2>3, <2>4, <2>5 DEF ResultWriters
<1>2. CASE ~ResultWriters
  BY <1>2 DEF Framed, DiskFrames, Impl
<1> QED
  BY <1>1, <1>2

LEMMA MetaMoves ==
  ASSUME TypeOK, Framed, NEW r \in ReviewRoles
  PROVE  \/ /\ disk'.meta[r].impl = disk.meta[r].impl /\ disk'.meta[r].head = disk.meta[r].head
            /\ disk'.meta[r].provider = disk.meta[r].provider
         \/ ReviewMeta /\ disk'.meta[r] = act.newmeta
         \/ FinalizeFiles /\ disk'.meta[r] = NoMeta
<1>1. CASE ReviewMeta
  BY <1>1, DiskTypes DEF ReviewMeta, Disk
<1>2. CASE FinalizeFiles
  BY <1>2, DiskTypes DEF FinalizeFiles, Disk
<1> QED
  BY <1>1, <1>2 DEF Framed, DiskFrames

LEMMA PayloadKept ==
  ASSUME TypeOK, Guided
  PROVE  /\ act'.result["implementer"] \in {act.result["implementer"], Impl, NoResult}
         /\ act'.saved.result \in {act.saved.result, Impl, NoResult}
         /\ act'.newmeta \in {act.newmeta, NoMeta}
              \/ (act'.newmeta.impl = act'.result["implementer"]
                  /\ pc' = "review_check" /\ ~UNCHANGED <<pc, act>>)
<1>0. act \in Act /\ disk \in Disk
  BY DEF TypeOK
<1>1. CASE UNCHANGED <<pc, act>>
  BY <1>1
<1>2. CASE Ends
  BY <1>2, RoleFacts DEF Ends, NoAct, NoTx
<1>3. CASE Begins /\ Came /\ ~UNCHANGED <<pc, act>>
  BY <1>3 DEF Begins, Came, MetaBound, NoTx, Impl
<1>4. CASE GoesOn /\ Came /\ ~UNCHANGED <<pc, act>>
  <2>1. act'.saved = act.saved \/ act'.saved.result = Impl
    <3>1. ASSUME RetryPrepare PROVE act'.saved.result = Impl
      <4>1. act'.saved = [open |-> TRUE, provider |-> act.provider,
                          pack |-> disk.pack["implementer"], job |-> disk.job["implementer"],
                          result |-> disk.result["implementer"]]
        BY <1>0, <3>1 DEF RetryPrepare, Act
      <4> QED
        BY <4>1 DEF Impl
    <3> QED
      BY <1>4, <3>1 DEF GoesOn
  <2> QED
    BY <1>4, <2>1 DEF GoesOn, Came, MetaBound
<1> QED
  BY <1>1, <1>2, <1>3, <1>4 DEF Guided, Handles

(***************************************************************************)
(* Runs are new: no review is about the result of a later run.             *)
(***************************************************************************)
Later(n) == \A r \in ReviewRoles : disk.meta[r].impl.run < n

RunsGiven ==
  /\ Impl.run <= env.launches /\ act.result["implementer"].run <= env.launches
  /\ act.saved.result.run <= env.launches /\ disk.tx.result.run <= env.launches
  /\ act.newmeta.impl.run <= env.launches
  /\ \A r \in ReviewRoles : disk.meta[r].impl.run <= env.launches

Fresh ==
  /\ RunsGiven
  /\ Active("implementer") =>
       Later(unit["implementer"].id) /\ unit["implementer"].id <= env.launches
  /\ pc = "spawn_unit" /\ act.role = "implementer" =>
       /\ disk.job["implementer"].id = env.launches /\ env.launches > 0
       /\ Later(env.launches)

LEMMA RunTypes ==
  ASSUME TypeOK
  PROVE  /\ env.launches \in Nat /\ Impl.run \in Nat /\ act.result["implementer"].run \in Nat
         /\ act.saved.result.run \in Nat /\ disk.tx.result.run \in Nat
         /\ act.newmeta.impl.run \in Nat /\ unit["implementer"].id \in Nat
         /\ \A r \in ReviewRoles : disk.meta[r].impl.run \in Nat
  BY RoleFacts, DiskTypes DEF TypeOK, Env, Act, Tx, Meta, Result, Job, Impl

LEMMA InitFresh == Init => Fresh
<1> SUFFICES ASSUME Init PROVE Fresh
  OBVIOUS
<1>1. /\ env.launches = 0 /\ Impl = NoResult /\ act = NoAct /\ disk.tx = NoTx /\ pc = "idle"
      /\ \A r \in ReviewRoles : disk.meta[r] = NoMeta
      /\ unit["implementer"] = NoJob
  BY RoleFacts DEF Init, Impl
<1> QED
  BY <1>1, RoleFacts
  DEF Fresh, RunsGiven, Active, NoResult, Simple, NoAct, NoTx, NoMeta

LEMMA FreshStep ==
  ASSUME TypeOK, TypeOK', UnitsByPhase, UnitsByPhase', Fresh, [Next]_vars
  PROVE  Fresh'
<1>1. Framed /\ Guided
  BY StepMoves
<1>2. /\ env.launches \in Nat /\ env'.launches \in Nat
      /\ env.launches <= env'.launches
      /\ SpawnJob => env'.launches = env.launches + 1
      /\ ~SpawnJob => env'.launches = env.launches
  BY <1>1, RunTypes DEF Framed, ItemFrames, SpawnJob, TypeOK, Env
<1>3. NoResult.run = 0 /\ NoMeta.impl.run = 0 /\ Simple("empty").run = 0
  BY DEF NoResult, NoMeta, Simple
<1>4. Impl'.run <= env'.launches
  <2>1. ImplementerWorks /\ Left(Impl') => Impl'.run <= env'.launches
    BY <1>2, RunTypes DEF ImplementerWorks, Left, Fresh
  <2> QED
    BY <1>1, <1>2, <1>3, <2>1, ResultMoves, RunTypes DEF Fresh, RunsGiven
<1>5. /\ act'.result["implementer"].run <= env'.launches
      /\ act'.saved.result.run <= env'.launches
  BY <1>1, <1>2, <1>3, PayloadKept, RunTypes DEF Fresh, RunsGiven
<1>6. act'.newmeta.impl.run <= env'.launches
  BY <1>1, <1>2, <1>3, <1>5, PayloadKept, RunTypes DEF Fresh, RunsGiven
<1>7. disk'.tx.result.run <= env'.launches
  <2>1. disk'.tx = disk.tx \/ disk'.tx = NoTx \/ disk'.tx = act.saved
    BY <1>1, DiskTypes
    DEF Framed, DiskFrames, LaunchSettled, LaunchClosed, RetryTx, RetryClose, Disk
  <2>2. NoTx.result.run = 0
    BY DEF NoTx, NoResult, Simple
  <2> QED
    BY <1>2, <2>1, <2>2, RunTypes DEF Fresh, RunsGiven
<1>8. \A r \in ReviewRoles : disk'.meta[r].impl.run <= env'.launches
  BY <1>1, <1>2, <1>3, MetaMoves, RunTypes DEF Fresh, RunsGiven
<1>9. Active("implementer")' =>
        Later(unit["implementer"].id)' /\ unit'["implementer"].id <= env'.launches
  <2> SUFFICES ASSUME Active("implementer")'
               PROVE  Later(unit["implementer"].id)' /\ unit'["implementer"].id <= env'.launches
    OBVIOUS
  <2>1. CASE SpawnUnit /\ act.role = "implementer"
    <3>1. /\ unit'["implementer"] = disk.job["implementer"] /\ disk' = disk /\ env' = env
          /\ pc = "spawn_unit"
      BY <2>1, RoleFacts DEF SpawnUnit, TypeOK
    <3> QED
      BY <2>1, <3>1, RunTypes DEF Fresh, Later
  <2>2. CASE ~(SpawnUnit /\ act.role = "implementer")
    <3>1. unit'["implementer"] = unit["implementer"] /\ Active("implementer")
      BY <1>1, <2>2 DEF Framed, ItemFrames, Active
    <3>2. ~ReviewMeta
      BY <3>1 DEF ReviewMeta, UnitsByPhase, UnitsByLabel, ReviewerLabels, SpawnReviewLabels
    <3>3. ~FinalizeFiles
      BY <3>1, RoleFacts
      DEF FinalizeFiles, UnitsByPhase, UnitsByLabel, QuietLabels, NoUnitActive
    <3>4. \A r \in ReviewRoles : disk'.meta[r].impl = disk.meta[r].impl
      BY <1>1, <3>2, <3>3, MetaMoves
    <3> QED
      BY <1>2, <3>1, <3>4, RunTypes DEF Fresh, Later
  <2> QED
    BY <2>1, <2>2
<1>10. pc' = "spawn_unit" /\ act'.role = "implementer" =>
         /\ disk'.job["implementer"].id = env'.launches /\ env'.launches > 0
         /\ Later(env.launches)'
  <2> SUFFICES ASSUME pc' = "spawn_unit", act'.role = "implementer"
               PROVE  /\ disk'.job["implementer"].id = env'.launches /\ env'.launches > 0
                      /\ Later(env.launches)'
    OBVIOUS
  <2>1. CASE UNCHANGED <<pc, act>>
    <3>1. \A r \in ReviewRoles : disk'.meta[r].impl = disk.meta[r].impl
      BY <1>1, <2>1, MetaMoves DEF ReviewMeta, FinalizeFiles
    <3>2. disk'.job["implementer"] = disk.job["implementer"] /\ ~SpawnJob
      BY <1>1, <2>1
      DEF Framed, DiskFrames, JobWriters, SpawnJob, LaunchRestored, RetryUnlinkJob,
          RetryRestore, FinalizeFiles
    <3> QED
      BY <1>2, <2>1, <3>1, <3>2 DEF Fresh, Later
  <2>2. CASE SpawnJob
    <3>1. /\ disk'.job["implementer"].id = env.launches + 1 /\ disk'.meta = disk.meta
      BY <2>2, DiskTypes, RoleFacts DEF SpawnJob, Goto, Disk
    <3> QED
      BY <1>2, <2>2, <3>1, RunTypes DEF Fresh, RunsGiven, Later
  <2> QED
    BY <1>1, <2>1, <2>2 DEF Guided, Came
<1> QED
  BY <1>4, <1>5, <1>6, <1>7, <1>8, <1>9, <1>10 DEF Fresh, RunsGiven

(***************************************************************************)
(* A quota continuation: the files it is restored from are those of the    *)
(* worker that a quota stopped, and a correction is never one.             *)
(***************************************************************************)
Exhausted(result) == result.kind = "quota"

\* The statuses an item can have while a continuation is being launched.
Taken == {"IN_PROGRESS", "RETRY_PENDING", Held}
Closed == {"reconcile", "reconcile_ready", "retry", "operator_reviewing"} \cup Parking

OpenTx ==
  disk.tx.open =>
    /\ Exhausted(disk.tx.result) /\ item.status \in Taken
    /\ pc # "idle" => act.status \in Taken
    /\ pc \notin Closed
    /\ pc \in RetryLabels => act.quota
    /\ ParsesImplementation(Impl) => \A r \in ReviewRoles : disk.meta[r].impl # Impl
Recovered == pc \in {"recover_launch", "launch_status"} => disk.tx.open

QuotaWaits ==
  /\ disk.wait.role = "implementer" /\ disk.wait.resume = "RETRY_PENDING" =>
       Exhausted(disk.wait.result)
  /\ pc \in {"quota_mark", "queue"} /\ act.role = "implementer" /\ act.resume = "RETRY_PENDING"
       => Exhausted(Impl)
  /\ pc \in RetryLabels /\ act.quota => Exhausted(act.saved.result)
  /\ pc = "retry_tx" => act.quota /\ Exhausted(Impl)

Corrected ==
  /\ item.status = "CHANGES_REQUESTED" => ~Exhausted(Impl)
  /\ pc # "idle" /\ act.status = "CHANGES_REQUESTED" =>
       /\ ~Active("implementer") /\ ~Exhausted(Impl)
       /\ ~Exhausted(act.result["implementer"]) /\ ~Exhausted(act.saved.result) /\ ~act.quota
       /\ pc \in SpawnLabels => act.next = "idle"

Continuation == OpenTx /\ Recovered /\ QuotaWaits /\ Corrected

LEMMA InitContinuation == Init => Continuation
<1> SUFFICES ASSUME Init PROVE Continuation
  OBVIOUS
<1>1. disk.tx = NoTx /\ disk.wait = NoWait /\ pc = "idle" /\ item.status = "READY"
  BY DEF Init
<1> QED
  BY <1>1
  DEF Continuation, OpenTx, Recovered, QuotaWaits, Corrected, NoTx, NoWait, RetryLabels

\* What the labels say about the item, in words the proofs below use.
LEMMA Stands ==
  ASSUME Track, pc # "idle"
  PROVE  /\ act.status \in Found(pc, act.role, act.next)
         /\ item.status \in {Now(pc, act.status, act.role, act.next), Held}
  BY DEF Track, OnTrack

LEMMA RecoveredStep ==
  ASSUME TypeOK, UnitsByPhase, Continuation, Framed, Guided PROVE Recovered'
<1> SUFFICES ASSUME pc' \in {"recover_launch", "launch_status"} PROVE disk'.tx.open
  BY DEF Recovered
<1>1. CASE UNCHANGED <<pc, act>>
  <2>1. disk'.tx = disk.tx
    BY <1>1 DEF Framed, DiskFrames, LaunchSettled, LaunchClosed, RetryTx, RetryClose
  <2> QED
    BY <1>1, <2>1 DEF Continuation, Recovered
<1>2. CASE ReconcileStart \/ RetryStart
  BY <1>2 DEF ReconcileStart, RetryStart, ImplementationStart
<1>3. CASE LaunchRestored
  BY <1>3, DiskTypes DEF LaunchRestored, Continuation, Recovered, Disk
<1> QED
  BY <1>1, <1>2, <1>3 DEF Guided, Came

LEMMA QuotaWaitsStep ==
  ASSUME TypeOK, UnitsByPhase, Track, Handoff, Continuation, Framed, Guided PROVE QuotaWaits'
<1>0. act \in Act /\ disk \in Disk
  BY DEF TypeOK
<1>1. /\ disk'.wait.role = "implementer" /\ disk'.wait.resume = "RETRY_PENDING" =>
        Exhausted(disk'.wait.result)
  <2>1. CASE QueueWait
    <3>1. /\ disk'.wait.role = act.role /\ disk'.wait.resume = act.resume /\ pc = "queue"
          /\ disk'.wait.result = disk.result[act.role]
      BY <1>0, <2>1 DEF QueueWait, Parked, NoWait, Disk
    <3> QED
      BY <3>1 DEF Continuation, QuotaWaits, Impl
  <2>2. CASE ~QueueWait
    BY <2>2 DEF Framed, DiskFrames, Continuation, QuotaWaits
  <2> QED
    BY <2>1, <2>2
<1>2. pc' \in {"quota_mark", "queue"} /\ act'.role = "implementer"
        /\ act'.resume = "RETRY_PENDING" => Exhausted(Impl')
  <2> SUFFICES ASSUME pc' \in {"quota_mark", "queue"}, act'.role = "implementer",
                      act'.resume = "RETRY_PENDING"
               PROVE  Exhausted(Impl')
    OBVIOUS
  <2>1. CASE UNCHANGED <<pc, act>>
    <3>1. ~ImplementerWorks
      BY <2>1 DEF ImplementerWorks, UnitsByPhase, UnitsByLabel, ReviewerLabels
    <3>2. Impl' = Impl
      BY <2>1, <3>1
      DEF Framed, DiskFrames, ResultWriters, SpawnTruncate, LaunchRestored, RetryUnlinkResult,
          RetryRestore, FinalizeFiles, Impl
    <3> QED
      BY <2>1, <3>2 DEF Continuation, QuotaWaits
  <2>2. CASE ReconcileQuota
    BY <2>2 DEF ReconcileQuota, Exhausted, Impl
  <2>3. CASE QuotaMark
    BY <2>3 DEF QuotaMark, Goto, Continuation, QuotaWaits, Impl
  <2>4. CASE DispatchStart
    BY <2>4, PayloadType DEF DispatchStart, Queue, Accept, Act
  <2>5. CASE DispatchReview
    BY <2>5, PayloadType DEF DispatchReview, Queue, CallReview, Act
  <2>6. CASE RetryReview
    <3>1. act.role # "implementer"
      BY <2>6, RoleFacts DEF RetryReview, UnitsByPhase, CallsByLabel
    <3> QED
      BY <1>0, <2>6, <3>1 DEF RetryReview, Queue, CallReview, Return, Act
  <2> QED
    BY <2>1, <2>2, <2>3, <2>4, <2>5, <2>6 DEF Guided, Came
<1>3. CASE RetryPrepare
  <2>1. /\ act'.saved.result = Impl /\ act'.quota = QuotaRetry
        /\ pc' = IF QuotaRetry THEN "retry_tx" ELSE "retry_pack"
        /\ pc = "retry" /\ RetryAllowed /\ disk' = disk
    BY <1>0, <1>3 DEF RetryPrepare, Act, Impl
  <2>2. QuotaRetry => Exhausted(act.result["implementer"])
    BY DEF QuotaRetry, Continuation, QuotaWaits
  <2>3. QuotaRetry => ~Correction
    BY <2>1, <2>2 DEF Correction, Continuation, Corrected
  <2>4. QuotaRetry => Exhausted(Impl)
    BY <2>1, <2>2, <2>3 DEF RetryAllowed, Impl
  <2> QED
    BY <1>1, <1>2, <2>1, <2>4 DEF QuotaWaits, RetryLabels, Impl
<1>4. CASE ~RetryPrepare
  <2>1. pc' \in RetryLabels => UNCHANGED act /\ pc \in RetryLabels
    BY <1>4 DEF Guided, Came
  <2>2. pc' = "retry_tx" => UNCHANGED <<pc, act>>
    BY <1>4 DEF Guided, Came
  <2>3. pc' = "retry_tx" => act.quota /\ Exhausted(Impl')
    <3> SUFFICES ASSUME pc' = "retry_tx" PROVE act.quota /\ Exhausted(Impl')
      OBVIOUS
    <3>1. ~ImplementerWorks
      BY <2>2, RoleFacts
      DEF ImplementerWorks, UnitsByPhase, UnitsByLabel, QuietLabels, NoUnitActive
    <3>2. Impl' = Impl
      BY <2>2, <3>1
      DEF Framed, DiskFrames, ResultWriters, SpawnTruncate, LaunchRestored, RetryUnlinkResult,
          RetryRestore, FinalizeFiles, Impl
    <3> QED
      BY <2>2, <3>2 DEF Continuation, QuotaWaits
  <2> QED
    BY <1>1, <1>2, <2>1, <2>2, <2>3 DEF QuotaWaits, Continuation
<1> QED
  BY <1>3, <1>4

LEMMA CorrectedStep ==
  ASSUME TypeOK, UnitsByPhase, Track, Handoff, Continuation, Framed, Guided
  PROVE  Corrected'
<1>0. act \in Act /\ disk \in Disk /\ item \in Item
  BY DEF TypeOK
<1>1. ~Exhausted(NoResult) /\ ~Exhausted(Simple("empty"))
  BY DEF Exhausted, NoResult, Simple
\* A handler for which the item is to be corrected does not see a quota.
<1>2. ASSUME pc # "idle", act.status = "CHANGES_REQUESTED" PROVE ~Exhausted(Impl')
  <2>1. ~LaunchRestored
    <3>1. pc = "recover_launch" => disk.tx.open /\ act.status \in Taken
      BY <1>2 DEF Continuation, Recovered, OpenTx
    <3> QED
      BY <1>2, <3>1 DEF LaunchRestored, Taken, Held
  <2>2. ~ImplementerWorks
    BY <1>2 DEF ImplementerWorks, Continuation, Corrected
  <2>3. Impl' \in {Impl, NoResult, Simple("empty")} \/ Impl' = act.saved.result
    BY <2>1, <2>2, ResultMoves
  <2> QED
    BY <1>1, <1>2, <2>3 DEF Continuation, Corrected
<1>3. item'.status = "CHANGES_REQUESTED" => ~Exhausted(Impl')
  <2> SUFFICES ASSUME item'.status = "CHANGES_REQUESTED" PROVE ~Exhausted(Impl')
    OBVIOUS
  <2>1. CASE item.status = "CHANGES_REQUESTED"
    <3>1. ~LaunchRestored
      <4>1. pc = "recover_launch" => item.status \in Taken
        BY DEF Continuation, Recovered, OpenTx
      <4> QED
        BY <2>1, <4>1 DEF LaunchRestored, Taken, Held
    <3>2. ~RetryRestore
      BY <2>1, Stands DEF RetryRestore, Now, Held
    <3>3. ~ImplementerWorks
      BY <2>1, RoleFacts DEF ImplementerWorks, UnitsByPhase, UnitsByStatus, NoUnitActive
    <3> QED
      BY <1>1, <2>1, <3>1, <3>2, <3>3, ResultMoves DEF Continuation, Corrected
  <2>2. CASE item.status # "CHANGES_REQUESTED"
    <3>1. StatusWriters
      BY <1>0, <2>2 DEF Framed, ItemFrames, HumanHold, SetStatus, Item
    <3>2. "CHANGES_REQUESTED" \in Written(pc) /\ pc # "idle"
      BY <2>2, <3>1, WritersWrite
    <3>3. CASE act.status = "CHANGES_REQUESTED"
      BY <1>2, <3>2, <3>3
    <3>4. CASE act.status # "CHANGES_REQUESTED"
      <4>1. \/ pc = "consume_status"
            \/ pc = "recover_resume" /\ disk.wait.resume = "CHANGES_REQUESTED"
        BY <3>2, <3>4 DEF Written, Held
      <4>2. pc = "consume_status"
        BY <4>1 DEF Handoff, ByLabel, Resuming, Early
      <4>3. ConsumeStatus
        BY <3>1, <4>2
        DEF StatusWriters, QueueStatus, RecoverResume, RecoverReviewStatus,
            DispatchClaim, DispatchDone, UnwindStatus, LaunchStatus, ReconcileAbandoned,
            ReconcileReady, ReconcileFailure, ReconcileSuccess, RetryLimit, RetryStatus,
            RetryUnstatus, ResumeStatus, PublishHold, ReviewWait, ReviewStatus, RetryReview,
            OperatorReviewing, AdvanceStatus, IntegrateInspect, IntegrateStatus,
            MergeStatus, MergeReverts, FinalizeStatus
      <4>4. item.status = "REVIEWING" /\ disk' = disk
        BY <4>2, <4>3, Stands DEF ConsumeStatus, StatusFresh, Expected, Found
      <4> QED
        BY <4>4
        DEF Handoff, ValidByStatus, Submitted, HandoffValid, ParsesImplementation, Exhausted, Impl
    <3> QED
      BY <3>3, <3>4
  <2> QED
    BY <2>1, <2>2
<1>4. ASSUME pc' # "idle", act'.status = "CHANGES_REQUESTED"
      PROVE  /\ ~Active("implementer")' /\ ~Exhausted(Impl')
             /\ ~Exhausted(act'.result["implementer"]) /\ ~Exhausted(act'.saved.result)
             /\ ~act'.quota
             /\ pc' \in SpawnLabels => act'.next = "idle"
  <2>1. CASE pc # "idle" /\ act.status = "CHANGES_REQUESTED"
    <3>1. ~Exhausted(Impl')
      BY <1>2, <2>1
    <3>2. ~Active("implementer")'
      <4>1. ~(SpawnUnit /\ act.role = "implementer")
        BY <1>4, <2>1
        DEF SpawnUnit, Resume, Continuation, Corrected, SpawnLabels
      <4> QED
        BY <2>1, <4>1 DEF Framed, ItemFrames, Active, Continuation, Corrected
    <3>3. ~Exhausted(act'.result["implementer"]) /\ ~Exhausted(act'.saved.result)
      BY <1>1, <2>1, PayloadKept DEF Continuation, Corrected
    <3>4. ~act'.quota
      <4>1. CASE RetryPrepare
        <5>1. act'.quota = QuotaRetry
          BY <1>0, <4>1 DEF RetryPrepare, Act
        <5>2. QuotaRetry => Exhausted(act.result["implementer"])
          BY DEF QuotaRetry, Continuation, QuotaWaits
        <5> QED
          BY <2>1, <5>1, <5>2 DEF Continuation, Corrected
      <4>2. CASE ~RetryPrepare
        BY <1>4, <2>1, <4>2
        DEF Guided, Handles, Ends, Begins, GoesOn, Continuation, Corrected
      <4> QED
        BY <4>1, <4>2
    <3>5. pc' \in SpawnLabels => act'.next = "idle"
      <4> SUFFICES ASSUME pc' \in SpawnLabels PROVE act'.next = "idle"
        OBVIOUS
      <4>1. CASE UNCHANGED <<pc, act>>
        BY <2>1, <4>1 DEF Continuation, Corrected
      <4>2. CASE SpawnTruncate \/ SpawnJob
        BY <2>1, <4>2 DEF SpawnTruncate, SpawnJob, Goto, Continuation, Corrected, SpawnLabels
      <4>3. CASE DispatchSpawn
        BY <2>1, <4>3, Stands DEF DispatchSpawn, Found
      <4>4. CASE ReviewMeta
        BY <2>1, <4>4
        DEF ReviewMeta, Handoff, ByLabel, Reviewing, SpawnReviewLabels, Submitted
      <4>5. CASE RetryGuard
        BY <2>1, <4>5 DEF RetryGuard, Correction, Goto, SpawnLabels
      <4>6. CASE RetryBudget
        BY <1>0, <4>6 DEF RetryBudget, SpawnAgent, Act
      <4> QED
        BY <4>1, <4>2, <4>3, <4>4, <4>5, <4>6 DEF Guided, Came, SpawnLabels
    <3> QED
      BY <3>1, <3>2, <3>3, <3>4, <3>5
  <2>2. CASE ~(pc # "idle" /\ act.status = "CHANGES_REQUESTED")
    <3>1. Begins /\ Came /\ ~UNCHANGED <<pc, act>>
      BY <1>4, <2>2 DEF Guided, Handles, Ends, GoesOn
    <3>2. item.status = "CHANGES_REQUESTED" /\ act'.result["implementer"] = Impl
          /\ act'.saved = NoTx /\ ~act'.quota
      BY <1>4, <3>1 DEF Begins, Impl
    <3>3. pc' \notin SpawnLabels
      BY <3>1
      DEF Begins, Came, SpawnTruncate, SpawnJob, DispatchSpawn, RetryGuard, RetryBudget,
          ReviewMeta, SpawnLabels
    <3>4. ~Active("implementer")'
      <4>1. ~Active("implementer")
        BY <3>2, RoleFacts DEF UnitsByPhase, UnitsByStatus, NoUnitActive
      <4> QED
        BY <3>1, <4>1 DEF Framed, ItemFrames, Active, SpawnUnit, Begins
    <3>5. Impl' = Impl
      <4>1. ~Active("implementer") /\ pc = "idle"
        BY <3>1, <3>2, RoleFacts DEF UnitsByPhase, UnitsByStatus, NoUnitActive, Begins
      <4> QED
        BY <4>1
        DEF Framed, DiskFrames, ResultWriters, SpawnTruncate, LaunchRestored, RetryUnlinkResult,
            RetryRestore, FinalizeFiles, ImplementerWorks, Impl
    <3> QED
      BY <1>1, <3>2, <3>3, <3>4, <3>5 DEF Continuation, Corrected, NoTx
  <2> QED
    BY <2>1, <2>2
<1> QED
  BY <1>3, <1>4 DEF Corrected

LEMMA OpenTxStep ==
  ASSUME TypeOK, UnitsByPhase, Known, Track, Handoff, Fresh, Continuation, Framed, Guided
  PROVE  OpenTx'
<1> SUFFICES ASSUME disk'.tx.open PROVE OpenTx'
  BY DEF OpenTx
<1>0. act \in Act /\ disk \in Disk /\ item \in Item /\ ~NoTx.open
  BY DEF TypeOK, NoTx
<1>1. RetryTx \/ disk'.tx = disk.tx
  BY <1>0 DEF Framed, DiskFrames, LaunchSettled, LaunchClosed, RetryClose, Disk
\* The transaction is opened with the files of the worker that a quota stopped.
<1>2. CASE RetryTx
  <2>1. /\ pc = "retry_tx" /\ pc' = "retry_pack" /\ act' = act /\ item' = item
        /\ disk'.tx = act.saved /\ Impl' = Impl
    BY <1>0, <1>2 DEF RetryTx, Goto, Disk, Impl
  <2>2. act.quota /\ Exhausted(Impl) /\ Exhausted(act.saved.result)
    BY <2>1 DEF Continuation, QuotaWaits, RetryLabels
  <2>3. act.status = "RETRY_PENDING" /\ item.status \in Taken
    BY <2>1, <2>2, Stands DEF Continuation, Corrected, Found, Now, Again, Taken
  <2> QED
    BY <2>1, <2>2, <2>3
    DEF OpenTx, Closed, Parking, RetryLabels, ParsesImplementation, Exhausted, Taken
<1>3. CASE disk'.tx = disk.tx /\ ~RetryTx
  <2>0. /\ disk.tx.open /\ Exhausted(disk.tx.result) /\ item.status \in Taken
        /\ pc # "idle" => act.status \in Taken
        /\ pc \notin Closed
        /\ pc \in RetryLabels => act.quota
        /\ ParsesImplementation(Impl) => \A r \in ReviewRoles : disk.meta[r].impl # Impl
    BY <1>3 DEF Continuation, OpenTx
  <2>1. item'.status \in Taken
    <3>1. CASE item'.status = item.status \/ HumanHold
      BY <1>0, <2>0, <3>1 DEF HumanHold, SetStatus, Item, Taken, Held
    <3>2. CASE StatusWriters
      <4>1. CASE item'.status = item.status
        BY <2>0, <4>1
      <4>2. CASE item'.status # item.status
        <5>1. /\ item'.status \in Written(pc) /\ pc # "idle" /\ act.status \in Taken
              /\ act.status \in Found(pc, act.role, act.next)
          BY <2>0, <3>2, <4>2, WritersWrite, Stands
        <5>2. pc \notin {"review_wait", "review_status"}
          BY <5>1 DEF Handoff, ByLabel, Reviewing, Submitted, Taken, Held
        <5> QED
          BY <2>0, <5>1, <5>2
          DEF Written, Found, Taken, Held, Closed, Parking, Again, Running
      <4> QED
        BY <4>1, <4>2
    <3> QED
      BY <3>1, <3>2 DEF Framed, ItemFrames
  <2>2. pc' # "idle" => act'.status \in Taken
    BY <2>0 DEF Guided, Handles, Ends, Begins, GoesOn
  <2>3. pc' \notin Closed
    <3> SUFFICES ASSUME pc' \in Closed, ~UNCHANGED <<pc, act>> PROVE FALSE
      BY <2>0
    <3>1. ~LaunchSettled
      BY <1>0, <1>3, <2>0 DEF LaunchSettled, Disk
    <3>2. ~(ReconcileStart /\ pc' = "reconcile") /\ ~(RetryStart /\ pc' = "retry")
      BY <2>0 DEF ReconcileStart, RetryStart, ImplementationStart
    <3>3. ~(pc \in {"reconcile", "queue", "quota_mark"})
      BY <2>0 DEF Closed, Parking
    <3>4. ~RetryReview
      BY <2>0, Stands DEF RetryReview, Found, Taken, Held
    <3>5. ~DispatchStart /\ ~DispatchReview
      BY <2>0 DEF DispatchStart, DispatchReview, ReviewReady, Taken, Held
    <3>6. pc' # "operator_reviewing"
      BY <2>0, RoleFacts DEF Guided, Came, OperatorTarget, Impl
    <3> QED
      BY <3>1, <3>2, <3>3, <3>4, <3>5, <3>6
      DEF Guided, Came, Closed, Parking, ReconcileAbandoned, ReconcileQuota, QuotaMark, QueueWait
  <2>4. pc' \in RetryLabels => act'.quota
    <3>1. ~RetryPrepare
      BY <2>0 DEF RetryPrepare, Closed
    <3> QED
      BY <2>0, <3>1 DEF Guided, Came
  <2>5. ParsesImplementation(Impl') => \A r \in ReviewRoles : disk'.meta[r].impl # Impl'
    <3> SUFFICES ASSUME ParsesImplementation(Impl'), NEW r \in ReviewRoles
                 PROVE  disk'.meta[r].impl # Impl'
      OBVIOUS
    <3>1. ~ReviewMeta
      BY <2>0
      DEF ReviewMeta, Handoff, ByLabel, Reviewing, SpawnReviewLabels, Submitted, Taken, Held
    <3>2. /\ ~ParsesImplementation(NoResult) /\ ~ParsesImplementation(Simple("empty"))
          /\ ~ParsesImplementation(NoMeta.impl)
      BY DEF ParsesImplementation, NoResult, Simple, NoMeta
    <3>3. CASE Impl' = Impl
      BY <2>0, <3>1, <3>2, <3>3, MetaMoves
    <3>4. CASE LaunchRestored /\ Impl' = disk.tx.result
      BY <2>0, <3>4 DEF ParsesImplementation, Exhausted
    <3>5. CASE RetryRestore /\ Impl' = act.saved.result
      <4>1. act.quota /\ pc \in RetryLabels
        BY <2>0, <3>5 DEF RetryRestore, RetryLabels
      <4> QED
        BY <3>5, <4>1 DEF Continuation, QuotaWaits, ParsesImplementation, Exhausted
    <3>6. CASE ImplementerWorks /\ Left(Impl')
      <4>1. Impl'.run = unit["implementer"].id /\ disk.meta[r].impl.run < Impl'.run
        BY <3>6 DEF Left, ImplementerWorks, Fresh, Later
      <4>2. disk.meta[r].impl.run \in Nat /\ unit["implementer"].id \in Nat
        BY RunTypes
      <4>3. disk'.meta[r].impl \in {disk.meta[r].impl, NoMeta.impl}
        BY <3>1, MetaMoves
      <4> QED
        BY <3>2, <4>1, <4>2, <4>3
    <3> QED
      BY <3>2, <3>3, <3>4, <3>5, <3>6, ResultMoves
  <2> QED
    BY <1>3, <2>0, <2>1, <2>2, <2>3, <2>4, <2>5 DEF OpenTx
<1> QED
  BY <1>1, <1>2, <1>3

(***************************************************************************)
(* Together.                                                               *)
(***************************************************************************)
\* What is invariant so far.
Grounds ==
  TypeOK /\ UnitsByPhase /\ Known /\ Evidence /\ Track /\ Handoff /\ Fresh /\ Continuation

LEMMA InitGrounds == Init => Grounds
  BY InitType, InitPhase, InitKnown, InitEvidence, InitTrack, InitHandoff, InitFresh,
     InitContinuation
  DEF Grounds

LEMMA GroundsStep ==
  ASSUME Grounds, TypeOK', [Next]_vars
  PROVE  Grounds' /\ Framed /\ Guided
<1>1. Framed /\ Guided
  BY StepMoves DEF Grounds
<1>2. UnitsByPhase' /\ Known' /\ Evidence' /\ Track' /\ Handoff'
  BY PhaseStep, KnownStep, EvidenceStep, TrackStep, HandoffStep DEF Grounds
<1>3. Fresh'
  BY <1>2, FreshStep DEF Grounds
<1>4. Continuation'
  BY <1>1, OpenTxStep, RecoveredStep, QuotaWaitsStep, CorrectedStep DEF Grounds, Continuation
<1> QED
  BY <1>1, <1>2, <1>3, <1>4 DEF Grounds

LEMMA GroundsHold == Spec => []Grounds
<1>1. Grounds /\ TypeOK' /\ [Next]_vars => Grounds'
  BY GroundsStep
<1> QED
  BY <1>1, InitGrounds, TypeCorrect, PTL DEF Spec

(***************************************************************************)
(* The broker keeps the abstract lifecycle.  First: every status write is  *)
(* one the handler under way has, and none is made around a worker.        *)
(***************************************************************************)
LEMMA MovesReachTargets ==
  ASSUME NEW kind, NEW from, NEW to, <<from, to>> \in Moves(kind)
  PROVE  to \in Targets(kind)
<1>1. <<from, to>>[2] = to
  OBVIOUS
<1> QED
  BY <1>1 DEF Targets

\* A handler at a label that writes, for an item in the status it found or has
\* written.
Moving(l, s, to) ==
  \/ l = "queue_status" /\ s \in {"READY"} \cup Running \cup Submitted
       /\ to = "WAITING_PROVIDER"
  \/ l = "review_wait" /\ s \in Submitted /\ to = "WAITING_PROVIDER"
  \/ l \in {"recover_resume", "recover_status", "recover_reviewing"} /\ s = "WAITING_PROVIDER"
       /\ to \in {"IMPLEMENTED"} \cup Early
  \/ l = "dispatch_claim" /\ s = "READY" /\ to = "CLAIMED"
  \/ l = "reconcile" /\ s \in Running /\ to \in {"RETRY_PENDING", "IMPLEMENTED"}
  \/ l = "reconcile_ready" /\ s = "CLAIMED" /\ to = "READY"
  \/ l = "launch_status" /\ s \in Running \cup {"RETRY_PENDING"} /\ to = "RETRY_PENDING"
  \/ l = "retry" /\ s \in Again /\ to = Held
  \/ l = "retry_status" /\ s \in Again /\ to = "IN_PROGRESS"
  \/ l = "publish_hold" /\ s = "IMPLEMENTED" /\ to = Held
  \/ l = "review_status" /\ s = "IMPLEMENTED" /\ to = "REVIEWING"
  \/ l = "consume" /\ s = "REVIEWING" /\ to = Held
  \/ l = "consume_status" /\ s = "REVIEWING" /\ to \in {"VERIFIED", "CHANGES_REQUESTED"}
  \/ l = "operator_status" /\ s = Held /\ to = "RETRY_PENDING"
  \/ l = "operator_reviewing" /\ s = Held /\ to = "REVIEWING"
  \/ l = "advance_status" /\ s = "VERIFIED" /\ to = "MERGE_READY"
  \/ l = "int_inspect" /\ s = "VERIFIED" /\ to = Held
  \/ l = "int_status" /\ s = "VERIFIED" /\ to = "RETRY_PENDING"
  \/ l = "merge_status" /\ s = "MERGE_READY" /\ to = "MERGING"
  \/ l = "final_status" /\ s = "MERGING" /\ to = "DONE"

\* The labels at which the handler has already written another status.
MovingOn(l, s, now, to) ==
  \/ l = "dispatch_done" /\ s = "READY" /\ now = "CLAIMED" /\ to = "IN_PROGRESS"
  \/ l = "unwind_status" /\ s = "READY" /\ now = "CLAIMED" /\ to = "READY"
  \/ l = "retry_unstatus" /\ s \in Again /\ now = "IN_PROGRESS" /\ to = s
  \/ l = "merge_failed" /\ s = "MERGE_READY" /\ now = "MERGING" /\ to = "MERGE_READY"

LEMMA MovingMoves ==
  ASSUME NEW l, NEW s, NEW to, Moving(l, s, to)
  PROVE  /\ to \in Targets(Kind(s))
         /\ <<s, to>> \in Moves(Kind(s)) \/ s = to
<1>1. CASE l = "launch_status" /\ s = "RETRY_PENDING" /\ to = "RETRY_PENDING"
  <2>1. <<"IN_PROGRESS", to>> \in Moves(Kind(s))
    BY <1>1 DEF Moves, Kind, Held
  <2> QED
    BY <1>1, <2>1, MovesReachTargets
<1>2. CASE ~(l = "launch_status" /\ s = "RETRY_PENDING" /\ to = "RETRY_PENDING")
  <2>1. <<s, to>> \in Moves(Kind(s))
    BY <1>2 DEF Moving, Moves, Kind, Held, Running, Submitted, Early, Again
  <2> QED
    BY <2>1, MovesReachTargets
<1> QED
  BY <1>1, <1>2

LEMMA MovingOnMoves ==
  ASSUME NEW l, NEW s, NEW now, NEW to, MovingOn(l, s, now, to)
  PROVE  <<now, to>> \in Moves(Kind(s)) /\ to \in Targets(Kind(s))
<1>1. <<now, to>> \in Moves(Kind(s))
  BY DEF MovingOn, Moves, Kind, Held, Again
<1> QED
  BY <1>1, MovesReachTargets

LEMMA WritersMove ==
  ASSUME Grounds, StatusWriters, item'.status # item.status
  PROVE  /\ pc # "idle" /\ UNCHANGED <<unit, gh>>
         /\ \/ /\ Moving(pc, act.status, item'.status)
               /\ item.status \in {act.status, Held}
            \/ \E now \in Statuses :
                 /\ MovingOn(pc, act.status, now, item'.status)
                 /\ item.status \in {now, Held}
<1>1. /\ item'.status \in Written(pc) /\ pc # "idle" /\ (pc \in Unchecked \/ StatusFresh)
      /\ act.status \in Found(pc, act.role, act.next)
      /\ item.status \in {Now(pc, act.status, act.role, act.next), Held}
      /\ UNCHANGED <<unit, gh>>
  BY WritersWrite, Stands DEF Grounds
<1>2. CASE pc \in {"dispatch_done", "unwind_status", "retry_unstatus", "merge_failed"}
  <2> DEFINE now == Now(pc, act.status, act.role, act.next)
  <2>1. MovingOn(pc, act.status, now, item'.status) /\ now \in Statuses
    BY <1>1, <1>2 DEF MovingOn, Written, Found, Now, Again, Statuses
  <2> QED
    BY <1>1, <2>1
<1>3. CASE pc \notin {"dispatch_done", "unwind_status", "retry_unstatus", "merge_failed"}
  <2>1. Written(pc) # {} => Now(pc, act.status, act.role, act.next) = act.status
    BY <1>3 DEF Written, Now
  <2>2. pc = "launch_status" => act.status \in Running \cup {"RETRY_PENDING"}
    BY <1>1
    DEF Grounds, Continuation, Recovered, OpenTx, Taken, Found, Again, Running, Held
  <2>3. pc = "review_wait" => act.status \in Submitted
    BY DEF Grounds, Handoff, ByLabel
  <2>4. pc = "review_status" => act.status = "IMPLEMENTED"
    BY <1>1
    DEF Grounds, Handoff, ByLabel, Reviewing, Submitted, Written, Unchecked, StatusFresh, Expected
  <2>5. pc = "recover_resume" => disk.wait.resume \in Early
    BY DEF Grounds, Handoff, ByLabel, Resuming
  <2>6. ASSUME NEW l, NEW s, NEW to, l = pc, s = act.status, to = item'.status
        PROVE  Moving(l, s, to)
    <3>1. to \in Written(l) /\ s \in Found(l, act.role, act.next)
      BY <1>1, <2>6
    <3>2. CASE l \in {"queue_status", "review_wait", "recover_resume", "recover_status",
                      "recover_reviewing", "launch_status", "review_status"}
      BY <2>2, <2>3, <2>4, <2>5, <2>6, <3>1, <3>2 DEF Moving, Written, Found
    <3>3. CASE l \notin {"queue_status", "review_wait", "recover_resume", "recover_status",
                         "recover_reviewing", "launch_status", "review_status"}
      BY <1>3, <2>6, <3>1, <3>3 DEF Moving, Written, Found, Held
    <3> QED
      BY <3>2, <3>3
  <2> QED
    BY <1>1, <2>1, <2>6
<1> QED
  BY <1>2, <1>3

\* No status is written around a running implementer, but the one of a
\* dispatch that has just started it.
LEMMA WritersFindNoWorker ==
  ASSUME Grounds, StatusWriters, item'.status # item.status, Active("implementer")
  PROVE  item'.status = "IN_PROGRESS"
<1>1. pc \notin QuietLabels \cup ReviewerLabels
  BY RoleFacts DEF Grounds, UnitsByPhase, UnitsByLabel, NoUnitActive
<1>2. pc # "launch_status"
  BY DEF Grounds, Track, Rested
<1>3. pc # "reconcile"
  <2> SUFFICES ASSUME pc = "reconcile" PROVE FALSE
    OBVIOUS
  <2>1. ReconcileAbandoned \/ ReconcileFailure \/ ReconcileSuccess
    BY DEF StatusWriters, QueueStatus, RecoverResume, RecoverReviewStatus, DispatchClaim,
           DispatchDone, UnwindStatus, LaunchStatus, ReconcileReady, RetryLimit, RetryStatus,
           RetryUnstatus, ResumeStatus, PublishHold, ReviewWait, ReviewStatus, ConsumeStatus,
           RetryReview, OperatorReviewing, AdvanceStatus, IntegrateInspect, IntegrateStatus,
           MergeStatus, MergeReverts, FinalizeStatus
  <2>2. disk.job["implementer"] # NoJob
    BY DEF Grounds, UnitsByPhase, UnitsRecorded
  <2> QED
    BY <2>1, <2>2 DEF ReconcileAbandoned, ReconcileFailure, ReconcileSuccess, WorkerEnded
<1>4. pc # "retry"
  <2> SUFFICES ASSUME pc = "retry" PROVE FALSE
    OBVIOUS
  <2>1. item.status \in Again
    BY WritersWrite, Stands DEF Grounds, Unchecked, StatusFresh, Expected, Found
  <2> QED
    BY <2>1, RoleFacts
    DEF Grounds, Again, Track, Rested, UnitsByPhase, UnitsByStatus, NoUnitActive
<1>5. item'.status \in Written(pc)
  BY WritersWrite DEF Grounds
<1> QED
  BY <1>1, <1>2, <1>3, <1>4, <1>5
  DEF Written, QuietLabels, ReviewerLabels, SpawnReviewLabels

LEMMA SameTables ==
  /\ \A s : Abstract!Kind(s) = Kind(s)
  /\ \A kind : Abstract!Moves(kind) = Moves(kind)
  /\ \A kind : Abstract!Targets(kind) = Targets(kind)
  /\ \A kind : Abstract!Starts(kind) = Starts(kind)
<1>1. \A s : Abstract!Kind(s) = Kind(s)
  BY DEF Abstract!Kind, Kind, Abstract!Held, Held
<1>2. \A kind : Abstract!Moves(kind) = Moves(kind)
  BY DEF Abstract!Moves, Moves, Abstract!Held, Held
<1>3. \A kind : Abstract!Targets(kind) = Targets(kind)
  BY <1>2 DEF Abstract!Targets, Targets
<1>4. \A kind : Abstract!Starts(kind) = Starts(kind)
  BY DEF Abstract!Starts, Starts
<1> QED
  BY <1>1, <1>2, <1>3, <1>4

\* The kind of the action under way.
Doing == IF pc = "idle" THEN "none" ELSE Kind(act.status)

LEMMA DoingMoves ==
  ASSUME Guided
  PROVE  /\ Doing' = Doing \/ Doing' = "none"
              \/ (pc = "idle" /\ pc' # "idle" /\ Doing' = Kind(item.status))
         /\ pc # "idle" => Doing' \in {Doing, "none"}
<1>1. CASE UNCHANGED <<pc, act>>
  BY <1>1 DEF Doing
<1>2. CASE Handles
  BY <1>2 DEF Handles, Ends, Begins, GoesOn, Doing
<1> QED
  BY <1>1, <1>2 DEF Guided

\* The variables of the abstract lifecycle stand still.
Still ==
  /\ item'.status = item.status /\ Doing' = Doing
  /\ Active("implementer")' = Active("implementer")
  /\ (gh'.pr = "merged") = (gh.pr = "merged")

LEMMA HoldsHold ==
  ASSUME TypeOK, HumanHold
  PROVE  Abstract!Hold
BY DEF HumanHold, SetStatus, TypeOK, Item, Abstract!Hold, Abstract!Held, Active

LEMMA WriteWrites ==
  ASSUME Grounds, Guided, StatusWriters, item'.status # item.status
  PROVE  Abstract!Write
<1>1. pc # "idle" /\ UNCHANGED <<unit, gh>> /\ Doing = Kind(act.status)
  BY WritersMove DEF Doing
<1>2. Doing' \in {Doing, "none"}
  BY <1>1, DoingMoves
<1>3. Active("implementer") => item'.status = "IN_PROGRESS"
  BY WritersFindNoWorker
<1>4. /\ item'.status \in Targets(Doing)
      /\ <<item.status, item'.status>> \in Moves(Doing) \/ item.status = Held
  <2>1. CASE Moving(pc, act.status, item'.status) /\ item.status \in {act.status, Held}
    BY <1>1, <2>1, MovingMoves
  <2>2. ASSUME NEW now \in Statuses, MovingOn(pc, act.status, now, item'.status),
               item.status \in {now, Held}
        PROVE  /\ item'.status \in Targets(Doing)
               /\ <<item.status, item'.status>> \in Moves(Doing) \/ item.status = Held
    BY <1>1, <2>2, MovingOnMoves
  <2> QED
    BY <2>1, <2>2, WritersMove
<1>5. Active("implementer")' = Active("implementer")
  BY <1>1 DEF Active
<1> QED
  BY <1>1, <1>2, <1>3, <1>4, <1>5, SameTables
  DEF Abstract!Write, Abstract!Held, Held, Doing

LEMMA MergeMerges ==
  ASSUME Grounds, MergeCall
  PROVE  Abstract!Merge
<1>1. /\ pc = "merge_call" /\ pc' = "idle" /\ gh'.pr = "merged" /\ UNCHANGED <<item, unit>>
  BY DEF MergeCall, Return, Grounds, TypeOK, GitHub
<1>2. Doing = "merge_pr" /\ Doing' = "none" /\ item.status \in {"MERGING", Held}
  <2>1. act.status = "MERGE_READY" /\ item.status \in {"MERGING", Held}
    BY <1>1, Stands DEF Grounds, Found, Now
  <2> QED
    BY <1>1, <2>1 DEF Doing, Kind, Held
<1>3. ~Active("implementer")
  BY <1>1, RoleFacts DEF Grounds, UnitsByPhase, UnitsByLabel, QuietLabels, NoUnitActive
<1> QED
  BY <1>1, <1>2, <1>3, SameTables DEF Abstract!Merge, Abstract!Held, Held, Doing, Active

LEMMA StartStarts ==
  ASSUME Grounds, Guided, SpawnUnit, act.role = "implementer"
  PROVE  Abstract!Start
<1>1. /\ pc = "spawn_unit" /\ UNCHANGED <<item, gh>>
      /\ unit'["implementer"] = disk.job["implementer"]
  BY RoleFacts DEF SpawnUnit, Grounds, TypeOK
<1>2. Active("implementer")'
  BY <1>1 DEF Grounds, Fresh, Active, NoJob
<1>3. Doing = Kind(act.status) /\ Doing' \in {Doing, "none"}
  BY <1>1, DoingMoves DEF Doing
<1>4. item.status \in {Starts(Doing), Held} /\ Starts(Doing) # "none"
  <2>1. CASE act.next = "dispatch_done"
    <3>1. act.status = "READY" /\ item.status \in {"CLAIMED", Held}
      BY <1>1, <2>1, Stands DEF Grounds, Found, Now
    <3> QED
      BY <1>3, <3>1 DEF Kind, Starts, Held
  <2>2. CASE act.next # "dispatch_done"
    <3>1. act.status \in Again /\ item.status \in {"IN_PROGRESS", Held}
      BY <1>1, <2>2, Stands DEF Grounds, Found, Now
    <3>2. Kind(act.status) = "retry_implementation"
      BY <3>1 DEF Kind, Again, Held
    <3> QED
      BY <1>3, <3>1, <3>2 DEF Starts
  <2> QED
    BY <2>1, <2>2
<1> QED
  BY <1>1, <1>2, <1>3, <1>4, SameTables DEF Abstract!Start, Abstract!Held, Held, Doing

LEMMA StopStops ==
  ASSUME TypeOK, Framed, WorkerSteps, item'.status = item.status,
         unit'["implementer"] = NoJob
  PROVE  Abstract!Stop
<1>1. UNCHANGED <<pc, act>>
  BY EnvironmentMoves
<1>2. (gh'.pr = "merged") = (gh.pr = "merged")
  BY <1>1 DEF Framed, ItemFrames, MergeCall, Return
<1> QED
  BY <1>1, <1>2, SameTables DEF Abstract!Stop, Active

\* A step that writes no status and starts, ends and merges nothing.
LEMMA RestKeeps ==
  ASSUME Guided, item'.status = item.status,
         Active("implementer")' = Active("implementer"),
         (gh'.pr = "merged") = (gh.pr = "merged")
  PROVE  Abstract!Begin \/ Abstract!End \/ Still
<1>1. CASE Doing' = "none"
  BY <1>1, SameTables DEF Abstract!End, Doing
<1>2. CASE Doing' = Doing
  BY <1>2 DEF Still
<1>3. CASE pc = "idle" /\ Doing' = Kind(item.status)
  <2>1. CASE Kind(item.status) = "none"
    BY <1>3, <2>1 DEF Still, Doing
  <2>2. CASE Kind(item.status) # "none"
    BY <1>3, <2>2, SameTables DEF Abstract!Begin, Doing
  <2> QED
    BY <2>1, <2>2
<1> QED
  BY <1>1, <1>2, <1>3, DoingMoves

LEMMA LifecycleStep ==
  ASSUME Grounds, Framed, Guided
  PROVE  Abstract!Next \/ Still
<1>1. CASE item'.status # item.status
  <2>1. HumanHold \/ StatusWriters
    BY <1>1 DEF Framed, ItemFrames
  <2> QED
    BY <1>1, <2>1, HoldsHold, WriteWrites DEF Abstract!Next, Grounds
<1>2. CASE item'.status = item.status /\ MergeCall
  BY <1>2, MergeMerges DEF Abstract!Next
<1>3. CASE item'.status = item.status /\ ~MergeCall
  <2>1. (gh'.pr = "merged") = (gh.pr = "merged")
    BY <1>3 DEF Framed, ItemFrames
  <2>2. CASE unit'["implementer"] = unit["implementer"]
    BY <1>3, <2>1, <2>2, RestKeeps DEF Abstract!Next, Active
  <2>3. CASE unit'["implementer"] = NoJob /\ WorkerSteps
    BY <1>3, <2>3, StopStops DEF Abstract!Next, Grounds
  <2>4. CASE SpawnUnit /\ act.role = "implementer"
    BY <2>4, StartStarts DEF Abstract!Next
  <2> QED
    BY <2>2, <2>3, <2>4 DEF Framed, ItemFrames
<1> QED
  BY <1>1, <1>2, <1>3

\* The broker with its files, crash points, retries, people, workers and GitHub
\* implements the abstract lifecycle of an issue: every status write is one of
\* the handler under way, an implementer is started only by the handler that may
\* and no other status is written around it, and the handler that announced the
\* merge is the one that merges, last.
THEOREM LifecycleIsKept == Spec => KeepsLifecycle
<1>1. Init => Abstract!Init
  BY DEF Init, Abstract!Init, Active, NoJob, Roles, ReviewRoles
<1>2. Grounds /\ TypeOK' /\ [Next]_vars
        => [Abstract!Next]_<<item.status, IF pc = "idle" THEN "none" ELSE Kind(act.status),
                             Active("implementer"), gh.pr = "merged">>
  <2> SUFFICES ASSUME Grounds, TypeOK', [Next]_vars
               PROVE  Abstract!Next \/ Still
    BY DEF Still, Doing
  <2> QED
    BY GroundsStep, LifecycleStep
<1> QED
  BY <1>1, <1>2, GroundsHold, TypeCorrect, PTL
  DEF Spec, KeepsLifecycle, Abstract!Spec, Abstract!vars

(***************************************************************************)
(* The merge gates.  First: an implementation that was handed over stays   *)
(* the one the item is about; one that is to be dispatched or resumed has  *)
(* none.                                                                   *)
(***************************************************************************)
LEMMA HandoffMoves ==
  ASSUME Grounds, Framed, ParsesImplementation(Impl')
  PROVE  \/ Impl' = Impl
         \/ RetryRestore /\ pc = "retry_restore" /\ Impl' = act.saved.result
         \/ ImplementerWorks /\ Active("implementer") /\ UNCHANGED <<pc, act>>
              /\ Impl'.run = unit["implementer"].id /\ Impl'.deferred = HostCheck
<1>1. Impl' \notin {NoResult, Simple("empty")}
  BY DEF ParsesImplementation, NoResult, Simple
<1>2. CASE LaunchRestored /\ Impl' = disk.tx.result
  BY <1>2
  DEF LaunchRestored, Grounds, Continuation, Recovered, OpenTx, Exhausted, ParsesImplementation
<1>3. CASE RetryRestore /\ Impl' = act.saved.result
  BY <1>3 DEF RetryRestore
<1>4. CASE ImplementerWorks /\ Left(Impl')
  BY <1>4, EnvironmentMoves DEF ImplementerWorks, Left, Grounds
<1> QED
  BY <1>1, <1>2, <1>3, <1>4, ResultMoves DEF Grounds

Unready ==
  /\ item.status = "READY" => ~ParsesImplementation(Impl)
  /\ item.status = "CLAIMED" /\ disk.job["implementer"] = NoJob => ~ParsesImplementation(Impl)
  /\ pc \in DispatchLabels \cup Resuming \cup {"reconcile_ready"} => ~ParsesImplementation(Impl)
  /\ disk.wait.role = "implementer" => ~ParsesImplementation(disk.wait.result)
  /\ pc \in {"quota_mark", "queue"} /\ act.role = "implementer" => ~ParsesImplementation(Impl)

LEMMA InitUnready == Init => Unready
<1> SUFFICES ASSUME Init PROVE Unready
  OBVIOUS
<1>1. disk.result["implementer"] = NoResult /\ disk.wait = NoWait /\ pc = "idle"
  BY RoleFacts DEF Init
<1>2. ~ParsesImplementation(Impl)
  BY <1>1 DEF Impl, ParsesImplementation, NoResult, Simple
<1>3. NoWait.role # "implementer"
  BY DEF NoWait
<1> QED
  BY <1>1, <1>2, <1>3 DEF Unready

LEMMA UnreadyStep ==
  ASSUME Grounds, Unready, Framed, Guided, TypeOK'
  PROVE  Unready'
<1>0. disk \in Disk /\ act \in Act /\ env.launches \in Nat
  BY DEF Grounds, TypeOK, Env
<1>1. ASSUME ParsesImplementation(Impl')
      PROVE  /\ item'.status # "READY"
             /\ item'.status = "CLAIMED" => disk'.job["implementer"] # NoJob
  <2>1. CASE item'.status = item.status
    <3>1. CASE RetryRestore /\ pc = "retry_restore"
      <4>1. item.status \in {"IN_PROGRESS", Held}
        BY <3>1, Stands DEF Grounds, Now
      <4> QED
        BY <2>1, <4>1 DEF Held
    <3>2. CASE Impl' = Impl
      <4>1. item'.status # "READY"
        BY <1>1, <2>1, <3>2 DEF Unready
      <4>2. ASSUME item'.status = "CLAIMED", disk'.job["implementer"] = NoJob PROVE FALSE
        <5>1. disk.job["implementer"] # NoJob /\ JobWriters
          BY <1>1, <2>1, <3>2, <4>2 DEF Unready, Framed, DiskFrames
        <5>2. CASE SpawnJob /\ act.role = "implementer"
          <6>1. disk'.job["implementer"].id = env.launches + 1
            BY <5>2, DiskTypes, RoleFacts DEF SpawnJob, Disk, Grounds
          <6> QED
            BY <1>0, <4>2, <6>1 DEF NoJob
        <5>3. CASE LaunchRestored
          BY <2>1, <4>2, <5>3
          DEF LaunchRestored, Grounds, Continuation, Recovered, OpenTx, Taken, Held
        <5>4. CASE RetryUnlinkJob \/ RetryRestore \/ FinalizeFiles
          <6>1. pc \in {"retry_unlink_job", "retry_restore", "final_files"}
            BY <5>4 DEF RetryUnlinkJob, RetryRestore, FinalizeFiles
          <6>2. item.status \in Again \cup {"IN_PROGRESS", "DONE", Held}
            BY <6>1, Stands DEF Grounds, Now, Found
          <6> QED
            BY <2>1, <4>2, <6>2 DEF Again, Held
        <5> QED
          BY <5>1, <5>2, <5>3, <5>4 DEF JobWriters
      <4> QED
        BY <4>1, <4>2
    <3>3. CASE ImplementerWorks /\ Active("implementer") /\ UNCHANGED <<pc, act>>
      <4>1. disk'.job["implementer"] = disk.job["implementer"]
        BY <3>3
        DEF Framed, DiskFrames, JobWriters, SpawnJob, LaunchRestored, RetryUnlinkJob,
            RetryRestore, FinalizeFiles, Goto, Return
      <4> QED
        BY <2>1, <3>3, <4>1, RoleFacts
        DEF Grounds, UnitsByPhase, UnitsByStatus, UnitsRecorded, NoUnitActive
    <3> QED
      BY <1>1, <3>1, <3>2, <3>3, HandoffMoves
  <2>2. CASE item'.status # item.status /\ item'.status # Held
    <3>1. /\ StatusWriters /\ pc # "idle" /\ item'.status \in Written(pc)
          /\ act.status \in Found(pc, act.role, act.next) /\ ~ImplementerWorks
      <4>1. ~HumanHold /\ ~ImplementerWorks
        BY <2>2, EnvironmentMoves DEF HumanHold, SetStatus, Grounds, TypeOK, Item, Held,
                                      ImplementerWorks
      <4>2. StatusWriters
        BY <2>2, <4>1 DEF Framed, ItemFrames
      <4> QED
        BY <2>2, <4>1, <4>2, WritersWrite, Stands DEF Grounds
    <3>2. item'.status \in {"READY", "CLAIMED"} =>
            pc \in DispatchLabels \cup Resuming \cup {"reconcile_ready"}
      <4>1. pc = "recover_resume" \/ pc # "recover_resume"
        OBVIOUS
      <4> QED
        BY <3>1 DEF Written, Found, Again, DispatchLabels, Resuming, Held
    <3>3. Impl' = Impl \/ pc = "retry_restore"
      BY <1>1, <3>1, HandoffMoves
    <3> QED
      BY <1>1, <3>2, <3>3 DEF Unready, DispatchLabels, Resuming
  <2> QED
    BY <2>1, <2>2 DEF Held
<1>2. ASSUME pc' \in DispatchLabels \cup Resuming \cup {"reconcile_ready"}
      PROVE  ~ParsesImplementation(Impl')
  <2> SUFFICES ASSUME ParsesImplementation(Impl') PROVE FALSE
    OBVIOUS
  <2>1. pc \notin DispatchLabels \cup Resuming \cup {"reconcile_ready"}
    <3> SUFFICES ASSUME pc \in DispatchLabels \cup Resuming \cup {"reconcile_ready"}
                 PROVE  FALSE
      OBVIOUS
    <3>1. ~Active("implementer") /\ pc # "retry_restore"
      BY RoleFacts
      DEF Grounds, UnitsByPhase, UnitsByLabel, QuietLabels, NoUnitActive, DispatchLabels,
          Resuming
    <3> QED
      BY <3>1, HandoffMoves DEF Unready
  <2>2. CASE DispatchStart \/ RecoverStart \/ ReconcileAbandoned
    <3>1. Impl' = Impl
      BY <2>2, <1>0 DEF DispatchStart, RecoverStart, ReconcileAbandoned, Impl, Disk
    <3>2. ~DispatchStart
      BY <3>1 DEF DispatchStart, Unready
    <3>3. ~ReconcileAbandoned
      <4> SUFFICES ASSUME ReconcileAbandoned PROVE FALSE
        OBVIOUS
      <4>1. pc = "reconcile" /\ act.status = "CLAIMED"
        BY <1>2 DEF ReconcileAbandoned, Return, DispatchLabels, Resuming
      <4>2. item.status = "CLAIMED" /\ disk.job["implementer"] = NoJob
        BY <4>1 DEF ReconcileAbandoned, StatusFresh, Expected
      <4> QED
        BY <3>1, <4>2 DEF Unready
    <3>4. ~RecoverStart
      <4> SUFFICES ASSUME RecoverStart PROVE FALSE
        OBVIOUS
      <4>1. disk.wait.role = "implementer" /\ ParkedIntact
        BY <1>2 DEF RecoverStart, DispatchLabels, Resuming
      <4> QED
        BY <3>1, <4>1 DEF ParkedIntact, Unready, Impl
    <3> QED
      BY <2>2, <3>2, <3>3, <3>4
  <2>3. CASE UNCHANGED <<pc, act>>
    BY <1>2, <2>1, <2>3
  <2> QED
    BY <1>2, <2>1, <2>2, <2>3
    DEF Guided, Came, DispatchLabels, Resuming, RecoverSelect, RecoverField
<1>3. disk'.wait.role = "implementer" => ~ParsesImplementation(disk'.wait.result)
  <2>1. CASE QueueWait
    <3>1. /\ disk'.wait.role = act.role /\ pc = "queue"
          /\ disk'.wait.result = disk.result[act.role]
      BY <1>0, <2>1 DEF QueueWait, Parked, NoWait, Disk
    <3> QED
      BY <3>1 DEF Unready, Impl
  <2>2. CASE ~QueueWait
    BY <2>2 DEF Framed, DiskFrames, Unready
  <2> QED
    BY <2>1, <2>2
<1>4. ASSUME pc' \in {"quota_mark", "queue"}, act'.role = "implementer"
      PROVE  ~ParsesImplementation(Impl')
  <2>1. CASE UNCHANGED <<pc, act>>
    <3>1. ~Active("implementer") /\ pc # "retry_restore" /\ ~ParsesImplementation(Impl)
      BY <1>4, <2>1 DEF Grounds, UnitsByPhase, UnitsByLabel, ReviewerLabels, Unready
    <3> QED
      BY <3>1, HandoffMoves
  <2>2. CASE ReconcileQuota
    BY <2>2 DEF ReconcileQuota, ParsesImplementation, Impl
  <2>3. CASE RetryReview
    <3>1. pc = "consume" /\ act'.role = act.role
      BY <1>0, <1>4, <2>3
      DEF RetryReview, Queue, CallReview, Return, Act
    <3> QED
      BY <1>4, <3>1, RoleFacts DEF Grounds, UnitsByPhase, CallsByLabel
  <2>4. CASE QuotaMark
    BY <1>4, <2>4 DEF QuotaMark, Goto, Unready, Impl
  <2>5. CASE DispatchStart
    BY <2>5 DEF DispatchStart, Unready, Impl
  <2>6. CASE DispatchReview
    <3>1. act'.role = "reviewer"
      BY <1>4, <2>6, PayloadType DEF DispatchReview, Queue, CallReview, Payload
    <3> QED
      BY <1>4, <3>1
  <2> QED
    BY <1>4, <2>1, <2>2, <2>3, <2>4, <2>5, <2>6 DEF Guided, Came
<1> QED
  BY <1>1, <1>2, <1>3, <1>4 DEF Unready

(***************************************************************************)
(* Independence: whoever reviews the item's implementation is not the      *)
(* item's provider, although recover_provider changes that field.          *)
(***************************************************************************)
Independent ==
  /\ ParsesImplementation(Impl) =>
       \A r \in ReviewRoles : disk.meta[r].impl = Impl => disk.meta[r].provider # item.provider
  /\ pc \in RetryLabels /\ ParsesImplementation(act.saved.result) =>
       \A r \in ReviewRoles :
         disk.meta[r].impl = act.saved.result => disk.meta[r].provider # item.provider
  /\ pc \in SpawnReviewLabels => act.newmeta.provider # act.provider
  /\ pc # "idle" /\ pc # "recover_resume" => act.provider = item.provider

LEMMA InitIndependent == Init => Independent
<1> SUFFICES ASSUME Init PROVE Independent
  OBVIOUS
<1>1. disk.result["implementer"] = NoResult /\ pc = "idle"
  BY RoleFacts DEF Init
<1>2. ~ParsesImplementation(Impl)
  BY <1>1 DEF Impl, ParsesImplementation, NoResult, Simple
<1> QED
  BY <1>1, <1>2 DEF Independent, RetryLabels, SpawnReviewLabels

LEMMA ResumeReturns ==
  ASSUME TypeOK, [Next]_vars, pc = "recover_resume"
  PROVE  pc' \in {"idle", "recover_resume"}
<1>1. CASE CooldownSteps \/ SpawnSteps \/ ImplementationSteps
  <2>1. ~SpawnSteps
    BY DEF SpawnSteps, SpawnTruncate, SpawnRefused, SpawnJob, SpawnUnit
  <2>2. ~ImplementationSteps
    BY DEF ImplementationSteps, DispatchSteps, LaunchSteps, ReconcileSteps, RetrySteps,
        DispatchStart, DispatchClaim, DispatchStale, DispatchClone, DispatchMeta, DispatchPack,
        DispatchSpawn, DispatchDone, DispatchFails, UnwindFiles, UnwindStatus,
        LaunchSpent, LaunchSettled, LaunchRestored, LaunchStatus, LaunchClosed, LaunchKept,
        ImplementationStart, ReconcileStart, ReconcileAbandoned, ReconcileReady, ReconcileQuota,
        ReconcileFailure, ReconcileSuccess, ReconcileNothing, RetryStart, RetryLimit,
        RetryPrepare, RetryRefused, RetryTx, RetryPack, RetryUnlinkJob, RetryUnlinkResult,
        RetryCount, RetryStatus, RetryGuard, RetryGuardFails, RetryRestore, RetryUncount,
        RetryUnstatus, RetryBudget, RetrySpent, RetryClose, ResumeStart, ResumeStatus
  <2>3. CooldownSteps => RecoverResume
    BY DEF CooldownSteps, QuotaMark, QueueWait, QueueStatus, RecoverStart, RecoverSelect,
           RecoverField, RecoverReview, RecoverReviewStatus
  <2> QED
    BY <1>1, <2>1, <2>2, <2>3 DEF RecoverResume, Return
<1>2. CASE ReviewSteps \/ MergeGateSteps
  <2>1. ~ReviewSteps
    BY DEF ReviewSteps, PublishSteps, SpawnReviewSteps, DispatchReviewSteps, ConsumeSteps,
           OperatorSteps, PublishStart, PublishHold, PublishPush, PublishPr,
           ReviewCheck, ReviewMeta, ReviewPack, ReviewUnlinkResult, ReviewUnlinkJob,
           DispatchReview, DispatchSecurity, DispatchRecovery, ReviewReady, ReviewWait,
           ReviewStatus, ReviewSpent, ConsumeStart, ConsumeVerdict, ConsumeStatus, RetryReview,
           ReviewNote, ConsumeNothing, ResumeReview, ReconcileWaitingResult, OperatorStart,
           OperatorReviewing, RecordHost, RecordReport
  <2>2. ~MergeGateSteps
    BY DEF MergeGateSteps, AdvanceStart, AdvanceStatus, IntegrateSteps, IntegrateStart,
           IntegrateInspect, IntegrateTarget, IntegrateMerge, IntegrateBase, IntegrateCount,
           IntegrateStatus, IntegrateClose, MergeSteps, MergeStart, MergeStatus, MergeCall,
           MergeRefused, MergeReverts, MergeAmbiguous, FinalizeSteps, FinalizeStart,
           FinalizeComment, FinalizeClose, FinalizeStatus, FinalizeClone, FinalizeFiles
  <2> QED
    BY <1>2, <2>1, <2>2
<1>3. CASE BrokerStops \/ BrokerRaises
  BY <1>3 DEF BrokerStops, BrokerRaises, Return
<1>4. CASE \/ WorkerSteps \/ CooldownEnvironment \/ ReviewEnvironment \/ GitHubSteps
           \/ UNCHANGED vars
  BY <1>4, EnvironmentMoves
<1> QED
  BY <1>1, <1>2, <1>3, <1>4 DEF Next

LEMMA HolderStep ==
  ASSUME TypeOK, [Next]_vars, Framed, Guided, Independent, pc' # "idle", pc' # "recover_resume"
  PROVE  act'.provider = item'.provider
<1>1. pc # "recover_resume"
  BY ResumeReturns
<1>2. item'.provider = item.provider
  BY DEF RecoverField, Goto, Framed, ItemFrames
<1>3. CASE UNCHANGED <<pc, act>>
  BY <1>1, <1>2, <1>3 DEF Independent
<1>4. CASE Handles
  BY <1>1, <1>2, <1>4 DEF Handles, Ends, Begins, GoesOn, Independent
<1> QED
  BY <1>3, <1>4 DEF Guided

LEMMA CandidateOther ==
  ASSUME NEW r, NEW i, r # "implementer", Candidate(r, i) # 0
  PROVE  Candidate(r, i) # i
  BY CandidateType DEF Eligible

\* A review is called for a provider that is not the item's.
LEMMA CallerOther ==
  ASSUME Grounds, Independent, Guided, pc' = "review_check", ~UNCHANGED <<pc, act>>
  PROVE  act'.newmeta.provider # act'.provider
<1>0. act \in Act /\ MetaBound
  BY DEF Grounds, TypeOK, Guided, Came
<1>1. SUFFICES act'.agent # act'.provider
  BY <1>0 DEF MetaBound
<1>2. CASE DispatchReview
  <2>1. PICK next :
          \/ Queue(Payload, "queue", "reviewer", item.provider, "IMPLEMENTED")
          \/ /\ Candidate("reviewer", item.provider) # 0
             /\ CallReview(Payload, "reviewer", Candidate("reviewer", item.provider), 0, 0, next)
    BY <1>2 DEF DispatchReview
  <2>2. pc = "idle" /\ "reviewer" \in ReviewRoles
    BY <1>2 DEF DispatchReview, ReviewReady, ReviewRoles
  <2>3. Begins /\ act'.agent = Candidate("reviewer", item.provider)
          /\ Candidate("reviewer", item.provider) # 0
    BY <2>1, <2>2, CallMoves DEF Queue, Grounds
  <2> QED
    BY <2>3, CandidateOther DEF Begins
<1>3. CASE DispatchSecurity
  <2>1. /\ Candidate("security-reviewer", act.provider) # 0
        /\ CallReview(act, "security-reviewer", Candidate("security-reviewer", act.provider),
                      0, 0, "review_status")
    BY <1>3 DEF DispatchSecurity, Return
  <2>2. pc # "idle" /\ "security-reviewer" \in ReviewRoles
    BY <1>3 DEF DispatchSecurity, ReviewRoles
  <2>3. GoesOn /\ act'.agent = Candidate("security-reviewer", act.provider)
    BY <2>1, <2>2, CallMoves DEF Grounds
  <2> QED
    BY <2>1, <2>3, CandidateOther DEF GoesOn
<1>4. CASE DispatchRecovery
  <2>1. pc = "idle" /\ item.status = "IMPLEMENTED" /\ disk.wait.role \in ReviewRoles
    BY <1>4, RoleFacts DEF DispatchRecovery, ReviewReady
  <2>2. PICK provider, tries :
          \/ Accept("review_wait")
          \/ /\ provider # item.provider
             /\ CallReview([Payload EXCEPT !.quota = TRUE], disk.wait.role, provider, tries,
                           disk.wait.recovery, "review_status")
    BY <1>4 DEF DispatchRecovery
  <2>3. Begins /\ act'.agent = provider /\ provider # item.provider
    BY <2>1, <2>2, CallMoves DEF Accept, Grounds
  <2> QED
    BY <2>3 DEF Begins
<1>5. CASE RetryReview
  <2>1. /\ pc = "consume" /\ act.role \in ReviewRoles /\ ParsesImplementation(Impl)
        /\ disk.meta[act.role].impl = Impl
    BY <1>5, RoleFacts
    DEF RetryReview, ReviewFailed, ReviewBound, Grounds, UnitsByPhase, CallsByLabel
  <2>2. PICK provider, tries :
          \/ Queue(act, "quota_mark", act.role, provider, "REVIEWING")
          \/ Return
          \/ /\ provider = disk.meta[act.role].provider
             /\ CallReview(act, act.role, provider, tries, 0, "review_note")
    BY <1>5 DEF RetryReview
  <2>3. GoesOn /\ act'.agent = disk.meta[act.role].provider
    BY <2>1, <2>2, CallMoves DEF Queue, Return, Grounds
  <2>4. act.provider = item.provider /\ disk.meta[act.role].provider # item.provider
    BY <2>1 DEF Independent
  <2> QED
    BY <2>3, <2>4 DEF GoesOn
<1> QED
  BY <1>2, <1>3, <1>4, <1>5 DEF Guided, Came

LEMMA IndependentStep ==
  ASSUME Grounds, Unready, Independent, Framed, Guided, [Next]_vars
  PROVE  Independent'
<1>0. disk \in Disk /\ act \in Act
  BY DEF Grounds, TypeOK
<1>1. ASSUME ParsesImplementation(Impl'), NEW r \in ReviewRoles, disk'.meta[r].impl = Impl'
      PROVE  disk'.meta[r].provider # item'.provider
  <2>1. CASE ReviewMeta /\ disk'.meta[r] = act.newmeta
    <3>1. pc \in SpawnReviewLabels /\ item' = item
      BY <2>1 DEF ReviewMeta, SpawnReviewLabels
    <3>2. act.provider = item.provider /\ act.newmeta.provider # act.provider
      BY <3>1 DEF Independent, SpawnReviewLabels
    <3> QED
      BY <2>1, <3>1, <3>2
  <2>2. CASE FinalizeFiles /\ disk'.meta[r] = NoMeta
    BY <1>1, <2>2 DEF NoMeta, NoResult, Simple, ParsesImplementation
  <2>3. CASE /\ disk'.meta[r].impl = disk.meta[r].impl
             /\ disk'.meta[r].provider = disk.meta[r].provider
    <3>1. CASE Impl' = Impl
      <4>1. ~RecoverField
        BY <1>1, <3>1 DEF RecoverField, Unready, Resuming
      <4> QED
        BY <1>1, <2>3, <3>1, <4>1 DEF Framed, ItemFrames, Independent
    <3>2. CASE RetryRestore /\ pc = "retry_restore" /\ Impl' = act.saved.result
      <4>1. item' = item
        BY <3>2 DEF RetryRestore
      <4> QED
        BY <1>1, <2>3, <3>2, <4>1 DEF Independent, RetryLabels
    <3>3. CASE ImplementerWorks /\ Active("implementer") /\ Impl'.run = unit["implementer"].id
      <4>1. disk.meta[r].impl.run < unit["implementer"].id
        BY <3>3 DEF Grounds, Fresh, Later
      <4>2. disk.meta[r].impl.run \in Nat /\ unit["implementer"].id \in Nat
        BY RunTypes DEF Grounds
      <4> QED
        BY <1>1, <2>3, <3>3, <4>1, <4>2
    <3> QED
      BY <1>1, <3>1, <3>2, <3>3, HandoffMoves
  <2> QED
    BY <2>1, <2>2, <2>3, MetaMoves DEF Grounds
<1>2. ASSUME pc' \in RetryLabels, ParsesImplementation(act'.saved.result),
             NEW r \in ReviewRoles, disk'.meta[r].impl = act'.saved.result
      PROVE  disk'.meta[r].provider # item'.provider
  <2>1. CASE RetryPrepare
    <3>1. act'.saved.result = Impl /\ disk' = disk /\ item' = item
      BY <1>0, <2>1 DEF RetryPrepare, Impl, Act
    <3> QED
      BY <1>2, <3>1 DEF Independent
  <2>2. CASE pc \in RetryLabels /\ act' = act
    <3>1. ~ReviewMeta /\ ~FinalizeFiles /\ ~RecoverField
      BY <2>2 DEF ReviewMeta, FinalizeFiles, RecoverField, RetryLabels
    <3>2. /\ disk'.meta[r].impl = disk.meta[r].impl
          /\ disk'.meta[r].provider = disk.meta[r].provider
      BY <3>1, MetaMoves DEF Grounds
    <3> QED
      BY <1>2, <2>2, <3>1, <3>2 DEF Framed, ItemFrames, Independent
  <2> QED
    BY <1>2, <2>1, <2>2 DEF Guided, Came
<1>3. ASSUME pc' \in SpawnReviewLabels
      PROVE  act'.newmeta.provider # act'.provider
  <2>1. CASE pc' = "review_check" /\ ~UNCHANGED <<pc, act>>
    BY <2>1, CallerOther
  <2>2. CASE pc \in SpawnReviewLabels /\ act' = act
    BY <2>2 DEF Independent
  <2> QED
    BY <1>3, <2>1, <2>2 DEF Guided, Came
<1>4. pc' # "idle" /\ pc' # "recover_resume" => act'.provider = item'.provider
  BY HolderStep DEF Grounds
<1> QED
  BY <1>1, <1>2, <1>3, <1>4 DEF Independent

(***************************************************************************)
(* Approval: from the verdicts a handler reads to the merge it makes.      *)
(***************************************************************************)
ApprovedBy(r, head) ==
  \E v \in ghost.reviews :
    v.role = r /\ v.head = head /\ v.decision = "approve" /\ v.provider # item.provider

\* Statuses and handlers of an item all of whose reviews were decided.
Settled == {"VERIFIED", "MERGE_READY", "MERGING"}
Merging == {"merge_status", "merge_call"}
Deciding == {"consume", "consume_status"}

Decided(r) == act.result[r].kind = "reject" \/ ApprovedBy(r, Impl.commit)

Approved ==
  /\ item.status \in Settled => \A r \in RequiredRoles : ApprovedBy(r, Impl.commit)
  /\ pc \in Merging => \A r \in RequiredRoles : ApprovedBy(r, Impl.commit)
  /\ pc \in Merging => ParsesImplementation(Impl) /\ Impl.commit = act.head
  /\ pc = "consume_status" => \A r \in RequiredRoles : Decided(r)
  /\ pc = "consume" /\ act.role = "security-reviewer" => Decided("reviewer")

LEMMA InitApproved == Init => Approved
<1> SUFFICES ASSUME Init PROVE Approved
  OBVIOUS
<1>1. item.status = "READY" /\ pc = "idle"
  BY DEF Init
<1> QED
  BY <1>1 DEF Approved, Settled, Merging

\* In those statuses and handlers nobody touches the implementation, nor does
\* recover_provider change the item's provider in the same step.
LEMMA SettledStands ==
  ASSUME Grounds, Framed, item.status \in Settled \/ pc \in Merging \cup Deciding
  PROVE  Impl' = Impl /\ item'.provider = item.provider
<1>1. ~ImplementerWorks
  <2>1. ~Active("implementer")
    BY RoleFacts
    DEF Settled, Merging, Deciding, Grounds, UnitsByPhase, UnitsByStatus, UnitsByLabel,
        QuietLabels, ReviewerLabels, NoUnitActive
  <2> QED
    BY <2>1 DEF ImplementerWorks
<1>2. CASE pc \in Merging \cup Deciding
  BY <1>1, <1>2
  DEF Framed, DiskFrames, ItemFrames, ResultWriters, SpawnTruncate, LaunchRestored,
      RetryUnlinkResult, RetryRestore, FinalizeFiles, RecoverField, Merging, Deciding, Impl
<1>3. CASE item.status \in Settled /\ pc \notin Merging \cup Deciding
  <2>1. ASSUME pc \in SpawnLabels /\ act.role = "implementer"
        PROVE  FALSE
    BY <1>3, <2>1 DEF Grounds, UnitsByPhase, StatusByLabel, Settled
  <2>2. ~LaunchRestored
    BY <1>3
    DEF LaunchRestored, Grounds, Continuation, Recovered, OpenTx, Taken, Settled, Held
  <2>3. pc \notin {"retry_unlink_result", "retry_restore", "final_files", "recover_provider"}
    <3> SUFFICES ASSUME pc \in {"retry_unlink_result", "retry_restore", "final_files",
                                "recover_provider"}
                 PROVE  FALSE
      OBVIOUS
    <3>1. item.status \in Again \cup {"IN_PROGRESS", "DONE", "WAITING_PROVIDER", Held}
      BY Stands DEF Grounds, Now, Found
    <3> QED
      BY <1>3, <3>1 DEF Again, Settled, Held
  <2> QED
    BY <1>1, <2>1, <2>2, <2>3
    DEF Framed, DiskFrames, ItemFrames, ResultWriters, SpawnTruncate, RetryUnlinkResult,
        RetryRestore, FinalizeFiles, RecoverField, SpawnLabels, Impl
<1> QED
  BY <1>2, <1>3

LEMMA ApprovalKept ==
  ASSUME Framed, item'.provider = item.provider, NEW r, NEW head, ApprovedBy(r, head)
  PROVE  ApprovedBy(r, head)'
  BY DEF Framed, ItemFrames, ApprovedBy

\* A verdict that is read is an approval of the payload's commit or a rejection.
LEMMA VerdictDecides ==
  ASSUME Grounds, Independent, ConsumeVerdict
  PROVE  Decided(act.role) /\ act.role \in RequiredRoles
<1>1. /\ act.role \in ReviewRoles /\ act.role \in RequiredRoles
      /\ ParsesReview(disk.result[act.role]) /\ ReviewBound(act.role)
      /\ ReviewReported(act.role)
  BY RoleFacts DEF ConsumeVerdict, Grounds, UnitsByPhase, CallsByLabel
<1>2. CASE disk.result[act.role].kind = "reject"
  BY <1>1, <1>2 DEF ReviewReported, Decided
<1>3. CASE disk.result[act.role].kind = "approve"
  <2>1. VerdictOf(act.role) \in ghost.reviews
    BY <1>1 DEF Grounds, Evidence, Recorded, ReviewReported
  <2>2. /\ disk.meta[act.role].head = Impl.commit /\ disk.meta[act.role].impl = Impl
        /\ ParsesImplementation(Impl)
    BY <1>1 DEF ReviewBound
  <2>3. disk.job[act.role].provider # item.provider
    BY <1>1, <2>2 DEF ReviewReported, Independent
  <2>4. ApprovedBy(act.role, Impl.commit)
    BY <1>3, <2>1, <2>2, <2>3 DEF ApprovedBy, VerdictOf
  <2> QED
    BY <1>1, <2>4 DEF Decided
<1> QED
  BY <1>1, <1>2, <1>3 DEF ParsesReview

\* The statuses of a settled item are written for one that was, or was decided.
LEMMA SettledWrites ==
  ASSUME Grounds, StatusWriters, item'.status # item.status, item'.status \in Settled
  PROVE  item.status \in Settled \/ (ConsumeStatus /\ item'.status = "VERIFIED")
<1>1. /\ item'.status \in Written(pc) /\ (pc \in Unchecked \/ StatusFresh)
      /\ act.status \in Found(pc, act.role, act.next)
  BY WritersWrite, Stands DEF Grounds
<1>2. pc # "recover_resume"
  BY <1>1 DEF Grounds, Handoff, ByLabel, Resuming, Early, Written, Settled
<1>3. pc \in {"consume_status", "advance_status", "merge_failed", "merge_status"}
  BY <1>1, <1>2 DEF Written, Found, Again, Settled, Held
<1>4. CASE pc = "consume_status"
  <2>1. ConsumeStatus
    BY <1>4
    DEF StatusWriters, QueueStatus, RecoverResume, RecoverReviewStatus, DispatchClaim,
        DispatchDone, UnwindStatus, LaunchStatus, ReconcileAbandoned, ReconcileReady,
        ReconcileFailure, ReconcileSuccess, RetryLimit, RetryStatus, RetryUnstatus,
        ResumeStatus, PublishHold, ReviewWait, ReviewStatus, RetryReview, OperatorReviewing,
        AdvanceStatus, IntegrateInspect, IntegrateStatus, MergeStatus, MergeReverts,
        FinalizeStatus
  <2> QED
    BY <1>1, <1>4, <2>1 DEF Written, Settled
<1>5. CASE pc \in {"advance_status", "merge_failed", "merge_status"}
  BY <1>1, <1>5 DEF Unchecked, StatusFresh, Expected, Found, Settled
<1> QED
  BY <1>3, <1>4, <1>5

LEMMA ApprovedStep ==
  ASSUME Grounds, Unready, Independent, Approved, Framed, Guided
  PROVE  Approved'
<1>0. disk \in Disk /\ act \in Act /\ item \in Item
  BY DEF Grounds, TypeOK
<1>1. ASSUME item'.status \in Settled, NEW r \in RequiredRoles
      PROVE  ApprovedBy(r, Impl.commit)'
  <2>1. CASE item.status \in Settled
    BY <2>1, SettledStands, ApprovalKept DEF Approved
  <2>2. CASE item.status \notin Settled
    <3>1. StatusWriters
      BY <1>0, <1>1, <2>2 DEF Framed, ItemFrames, HumanHold, SetStatus, Item, Settled
    <3>2. ConsumeStatus /\ item'.status = "VERIFIED" /\ pc = "consume_status"
      BY <1>1, <2>2, <3>1, SettledWrites DEF ConsumeStatus
    <3>3. act.result[r].kind # "reject"
      BY <1>0, <3>2 DEF ConsumeStatus, SetStatus, Item
    <3>4. ApprovedBy(r, Impl.commit)
      BY <3>2, <3>3 DEF Approved, Decided
    <3> QED
      BY <3>2, <3>4, SettledStands, ApprovalKept DEF Deciding
  <2> QED
    BY <2>1, <2>2
<1>2. ASSUME pc' \in Merging
      PROVE  /\ \A r \in RequiredRoles : ApprovedBy(r, Impl.commit)'
             /\ ParsesImplementation(Impl') /\ Impl'.commit = act'.head
  <2>1. CASE pc \in Merging /\ act' = act
    BY <2>1, SettledStands, ApprovalKept DEF Approved
  <2>2. CASE MergeStart
    <3>1. /\ item.status \in Settled /\ ParsesImplementation(Impl) /\ Impl.commit = gh.head
          /\ act'.head = gh.head
      BY <2>2 DEF MergeStart, Gates, Accept, Payload, Settled
    <3> QED
      BY <3>1, SettledStands, ApprovalKept DEF Approved
  <2>3. MergeStatus => pc \in Merging /\ act' = act
    BY DEF MergeStatus, Goto, Merging
  <2> QED
    BY <1>2, <2>1, <2>2, <2>3 DEF Guided, Came, Merging
<1>3. ASSUME NEW r, Decided(r), act'.result = act.result, pc \in Deciding
      PROVE  Decided(r)'
  BY <1>3, SettledStands, ApprovalKept DEF Decided
<1>4. ASSUME ConsumeVerdict
      PROVE  /\ act'.result = act.result /\ pc \in Deciding /\ pc = "consume"
             /\ pc' = "consume" => act.role = "reviewer" /\ HighRisk
             /\ pc' = "consume_status" => ~(HighRisk /\ act.role = "reviewer")
  BY <1>0, <1>4 DEF ConsumeVerdict, Goto, Act, Deciding
<1>5. ASSUME pc' = "consume_status", NEW r \in RequiredRoles
      PROVE  Decided(r)'
  <2>1. CASE UNCHANGED <<pc, act>>
    BY <1>3, <1>5, <2>1 DEF Approved, Deciding
  <2>2. CASE ConsumeVerdict
    <3>1. Decided(act.role) /\ act.role \in RequiredRoles
      BY <2>2, VerdictDecides
    <3>2. r = act.role \/ (r = "reviewer" /\ act.role = "security-reviewer")
      BY <1>4, <1>5, <2>2, <3>1 DEF RequiredRoles, ReviewRoles
    <3>3. Decided(r)
      BY <1>4, <2>2, <3>1, <3>2 DEF Approved
    <3> QED
      BY <1>3, <1>4, <2>2, <3>3
  <2> QED
    BY <1>5, <2>1, <2>2 DEF Guided, Came
<1>6. ASSUME pc' = "consume", act'.role = "security-reviewer"
      PROVE  Decided("reviewer")'
  <2>1. CASE UNCHANGED <<pc, act>>
    BY <1>3, <1>6, <2>1 DEF Approved, Deciding
  <2>2. CASE ConsumeVerdict
    BY <1>3, <1>4, <1>6, <2>2, VerdictDecides
  <2>3. ~ConsumeStart
    BY <1>6, PayloadType DEF ConsumeStart, Payload
  <2> QED
    BY <1>6, <2>1, <2>2, <2>3 DEF Guided, Came
<1> QED
  BY <1>1, <1>2, <1>5, <1>6 DEF Approved

(***************************************************************************)
(* The host check: what was deferred is registered before the merge.       *)
(***************************************************************************)
HostChecked ==
  /\ ParsesImplementation(Impl) => Impl.deferred = HostCheck
  /\ pc \in RetryLabels /\ ParsesImplementation(act.saved.result) =>
       act.saved.result.deferred = HostCheck
  /\ pc \in Merging => (HostCheck => disk.report = act.head)

LEMMA InitHostChecked == Init => HostChecked
<1> SUFFICES ASSUME Init PROVE HostChecked
  OBVIOUS
<1>1. disk.result["implementer"] = NoResult /\ pc = "idle"
  BY RoleFacts DEF Init
<1>2. ~ParsesImplementation(Impl)
  BY <1>1 DEF Impl, ParsesImplementation, NoResult, Simple
<1> QED
  BY <1>1, <1>2 DEF HostChecked, RetryLabels, Merging

LEMMA HostCheckedStep ==
  ASSUME Grounds, HostChecked, Framed, Guided
  PROVE  HostChecked'
<1>0. disk \in Disk /\ act \in Act
  BY DEF Grounds, TypeOK
<1>1. ParsesImplementation(Impl') => Impl'.deferred = HostCheck
  BY HandoffMoves DEF HostChecked, RetryLabels
<1>2. ASSUME pc' \in RetryLabels, ParsesImplementation(act'.saved.result)
      PROVE  act'.saved.result.deferred = HostCheck
  <2>1. RetryPrepare => act'.saved.result = Impl
    BY <1>0 DEF RetryPrepare, Impl, Act
  <2> QED
    BY <1>2, <2>1 DEF Guided, Came, HostChecked
<1>3. ASSUME pc' \in Merging, HostCheck
      PROVE  disk'.report = act'.head
  <2>1. CASE MergeStart
    <3>1. disk' = disk /\ act'.head = gh.head /\ HostValidated(gh.head)
            /\ ParsesImplementation(Impl)
      BY <2>1 DEF MergeStart, Gates, Accept, Payload
    <3> QED
      BY <1>3, <3>1 DEF HostValidated, HostChecked
  <2>2. CASE pc \in Merging /\ act' = act
    <3>1. ~RecordReport
      BY <2>2 DEF RecordReport, Merging
    <3> QED
      BY <1>3, <2>2, <3>1 DEF Framed, DiskFrames, HostChecked
  <2>3. MergeStatus => pc \in Merging /\ act' = act
    BY DEF MergeStatus, Goto, Merging
  <2> QED
    BY <1>3, <2>1, <2>2, <2>3 DEF Guided, Came, Merging
<1> QED
  BY <1>1, <1>2, <1>3 DEF HostChecked

(***************************************************************************)
(* The merge.                                                              *)
(***************************************************************************)
Gated == Grounds /\ Unready /\ Independent /\ Approved /\ HostChecked

LEMMA GatedHolds == Spec => []Gated
<1>1. Init => Gated
  BY InitGrounds, InitUnready, InitIndependent, InitApproved, InitHostChecked DEF Gated
<1>2. Gated /\ TypeOK' /\ [Next]_vars => Gated'
  <2> SUFFICES ASSUME Gated, TypeOK', [Next]_vars PROVE Gated'
    OBVIOUS
  <2>1. Grounds' /\ Framed /\ Guided
    BY GroundsStep DEF Gated
  <2>2. Unready' /\ Independent' /\ Approved' /\ HostChecked'
    BY <2>1, UnreadyStep, IndependentStep, ApprovedStep, HostCheckedStep DEF Gated
  <2> QED
    BY <2>1, <2>2 DEF Gated
<1> QED
  BY <1>1, <1>2, TypeCorrect, PTL DEF Spec

\* When the pull request is merged it is the call at merge_call that merges it.
LEMMA MergeCalls ==
  ASSUME Gated, TypeOK', [Next]_vars, gh.pr = "open", gh'.pr = "merged"
  PROVE  /\ pc \in Merging /\ Impl.commit = gh.head /\ act.head = gh.head
         /\ \A r \in RequiredRoles : ApprovedBy(r, gh.head)
<1>1. MergeCall
  BY GroundsStep DEF Gated, Framed, ItemFrames
<1>2. pc \in Merging /\ gh.head = act.head
  BY <1>1 DEF MergeCall, Merging
<1> QED
  BY <1>2 DEF Gated, Approved

\* GitHub merges only a commit that every required role approved, by a provider
\* that is not the item's: whatever retries, corrections, quota continuations,
\* changes of provider and holds came before, in any number.
THEOREM MergeIsApproved == Spec => MergeIsReviewed
<1>1. Gated /\ TypeOK' /\ [Next]_vars =>
        [gh.pr = "open" /\ gh'.pr = "merged" =>
           \A r \in RequiredRoles : \E v \in ghost.reviews :
             /\ v.role = r /\ v.head = gh.head /\ v.decision = "approve"
             /\ v.provider # item.provider]_vars
  BY MergeCalls DEF ApprovedBy
<1> QED
  BY <1>1, GatedHolds, TypeCorrect, PTL DEF Spec, MergeIsReviewed

\* GitHub merges only the commit of the implementer's handoff, and where the
\* project has a host check, only with the report registered for that commit.
THEOREM MergeIsChecked == Spec => MergeIsValidated
<1>1. Gated /\ TypeOK' /\ [Next]_vars =>
        [gh.pr = "open" /\ gh'.pr = "merged" =>
           Impl.commit = gh.head /\ (HostCheck => disk.report = gh.head)]_vars
  BY MergeCalls DEF Gated, HostChecked
<1> QED
  BY <1>1, GatedHolds, TypeCorrect, PTL DEF Spec, MergeIsValidated

(***************************************************************************)
(* READY: nothing is left over, and no integration was ever prepared.      *)
(***************************************************************************)
Untargeted == disk.cmeta.target = 0
Clean == ~disk.clone.there /\ disk.pack["implementer"] = {} /\ disk.job["implementer"] = NoJob
Blank == Clean /\ Untargeted

\* Labels at which an item is about to be READY, or has just been.
Blanking == {"dispatch_claim", "unwind_status", "reconcile_ready"}

\* Labels at which no handler works on the implementer's files.
Calm == Blanking \cup Parking \cup Resuming \cup {"review_wait"}

Ready ==
  /\ item.status = "READY" => Blank
  /\ item.status = "WAITING_PROVIDER" /\ disk.wait.role = "implementer"
       /\ disk.wait.resume = "READY" => Blank
  /\ pc \in Blanking => Blank
  /\ pc \in DispatchLabels => disk.job["implementer"] = NoJob
  /\ pc \in Parking /\ act.role = "implementer" /\ act.resume = "READY" => Blank
  /\ pc \in Resuming /\ disk.wait.resume = "READY" => Blank
  /\ item.status = "CLAIMED" => Untargeted
  /\ pc # "idle" /\ act.status \in {"READY", "CLAIMED"} => Untargeted
  /\ disk.cmeta.parent = 0 => Untargeted
  /\ pc = "int_target" => Impl.commit # 0 /\ disk.cmeta.parent = 0

LEMMA InitReady == Init => Ready
<1> SUFFICES ASSUME Init PROVE Ready
  OBVIOUS
<1>1. /\ pc = "idle" /\ item.status = "READY" /\ disk.clone = NoClone
      /\ disk.cmeta = NoCloneMeta /\ disk.pack["implementer"] = {}
      /\ disk.job["implementer"] = NoJob
  BY RoleFacts DEF Init
<1>2. Blank
  BY <1>1 DEF Blank, Clean, Untargeted, NoClone, NoCloneMeta
<1> QED
  BY <1>1, <1>2 DEF Ready, Blank, DispatchLabels

\* No handler works on the files of an item that is READY or parked before its
\* first worker, nor at the labels around that.
LEMMA FilesRest ==
  ASSUME Grounds, Framed,
         item.status \in {"READY", "WAITING_PROVIDER"} \/ pc \in Calm
  PROVE  /\ disk'.clone = disk.clone /\ disk'.pack["implementer"] = disk.pack["implementer"]
         /\ disk'.job["implementer"] = disk.job["implementer"] /\ Impl' = Impl
<1> DEFINE Working ==
      {"dispatch_clone", "dispatch_pack", "unwind_files", "retry_pack", "retry_unlink_job",
       "retry_unlink_result", "retry_restore", "int_merge", "int_resume", "final_clone",
       "final_files"}
<1>1. pc \notin Working
  <2>1. CASE pc \in Calm
    BY <2>1 DEF Calm, Blanking, Parking, Resuming
  <2>2. CASE item.status \in {"READY", "WAITING_PROVIDER"}
    <3> SUFFICES ASSUME pc \in Working PROVE FALSE
      OBVIOUS
    <3>1. item.status \in {"CLAIMED", "IN_PROGRESS", "VERIFIED", "DONE", Held} \cup Again
      BY Stands DEF Grounds, Now, Found
    <3> QED
      BY <2>2, <3>1 DEF Again, Held
  <2> QED
    BY <2>1, <2>2
<1>2. ~ImplementerWorks
  <2>1. ~Active("implementer")
    BY RoleFacts
    DEF Calm, Blanking, Parking, Resuming, Grounds, UnitsByPhase, UnitsByStatus, UnitsByLabel,
        QuietLabels, ReviewerLabels, NoUnitActive
  <2> QED
    BY <2>1 DEF ImplementerWorks
<1>3. ~(pc \in {"spawn", "spawn_job"} /\ act.role = "implementer")
  BY DEF Calm, Blanking, Parking, Resuming, Grounds, UnitsByPhase, StatusByLabel, SpawnLabels
<1>4. ~LaunchRestored
  BY DEF LaunchRestored, Grounds, Continuation, Recovered, OpenTx, Taken, Held, Calm, Blanking,
         Parking, Resuming
<1>5. ~ReconcileAbandoned
  <2> SUFFICES ASSUME ReconcileAbandoned PROVE FALSE
    OBVIOUS
  <2>1. pc = "reconcile" /\ item.status = act.status
    BY DEF ReconcileAbandoned, StatusFresh, Expected
  <2>2. act.status \in Running
    BY <2>1, Stands DEF Grounds, Found
  <2> QED
    BY <2>1, <2>2 DEF Running, Calm, Blanking, Parking, Resuming
<1> QED
  BY <1>1, <1>2, <1>3, <1>4, <1>5
  DEF Framed, DiskFrames, Impl, ResultWriters, JobWriters, PackWriters, CloneWriters,
      SpawnTruncate, SpawnJob, RetryUnlinkResult, RetryUnlinkJob, RetryRestore, RetryPack,
      FinalizeFiles, DispatchPack, UnwindFiles, DispatchClone, IntegrateMerge, FinalizeClone

\* Only IntegrateTarget sets a target.
LEMMA TargetMoves ==
  ASSUME Grounds, Framed
  PROVE  /\ \/ disk'.cmeta.target \in {disk.cmeta.target, 0}
            \/ IntegrateTarget /\ pc = "int_target" /\ disk'.cmeta.parent = Impl.commit
         /\ \/ disk'.cmeta.parent = disk.cmeta.parent /\ disk'.cmeta.target = disk.cmeta.target
            \/ disk'.cmeta.target = 0 /\ pc \in {"dispatch_meta", "unwind_files", "final_files"}
                 /\ (pc = "dispatch_meta" \/ disk'.cmeta = NoCloneMeta)
            \/ IntegrateTarget /\ pc = "int_target" /\ disk'.cmeta.parent = Impl.commit
<1>0. disk \in Disk /\ disk.cmeta \in CloneMeta
  BY DiskTypes DEF Grounds
<1>1. CASE disk'.cmeta = disk.cmeta
  BY <1>1
<1>2. CASE DispatchMeta \/ UnwindFiles \/ FinalizeFiles
  <2>1. CASE DispatchMeta
    <3>1. disk'.cmeta = [NoCloneMeta EXCEPT !.base = act.base] /\ pc = "dispatch_meta"
      BY <1>0, <2>1 DEF DispatchMeta, Disk
    <3>2. disk'.cmeta.target = 0
      BY <3>1 DEF NoCloneMeta
    <3> QED
      BY <3>1, <3>2
  <2>2. CASE UnwindFiles \/ FinalizeFiles
    <3>1. disk'.cmeta = NoCloneMeta /\ pc \in {"unwind_files", "final_files"}
      BY <1>0, <2>2 DEF UnwindFiles, FinalizeFiles, Disk
    <3>2. disk'.cmeta.target = 0
      BY <3>1 DEF NoCloneMeta
    <3> QED
      BY <3>1, <3>2
  <2> QED
    BY <1>2, <2>1, <2>2
<1>3. CASE IntegrateTarget
  <2>1. disk'.cmeta.parent = Impl.commit
    BY <1>0, <1>3 DEF IntegrateTarget, Disk, CloneMeta
  <2> QED
    BY <1>3, <2>1 DEF IntegrateTarget
<1>4. CASE IntegrateBase \/ IntegrateClose \/ RecordHost
  <2>1. disk'.cmeta.parent = disk.cmeta.parent /\ disk'.cmeta.target = disk.cmeta.target
    BY <1>0, <1>4 DEF IntegrateBase, IntegrateClose, RecordHost, Disk, CloneMeta
  <2> QED
    BY <2>1
<1> QED
  BY <1>1, <1>2, <1>3, <1>4 DEF Framed, DiskFrames, BindingWriters

LEMMA BlankKept ==
  ASSUME Grounds, Framed, Blank,
         item.status \in {"READY", "WAITING_PROVIDER"} \/ pc \in Calm
  PROVE  Blank'
<1>1. Clean'
  BY FilesRest DEF Blank, Clean
<1>2. pc # "int_target"
  <2> SUFFICES ASSUME pc = "int_target" PROVE FALSE
    OBVIOUS
  <2>1. item.status \in {"VERIFIED", Held}
    BY Stands DEF Grounds, Found, Now
  <2> QED
    BY <2>1 DEF Held, Calm, Blanking, Parking, Resuming
<1>3. Untargeted'
  BY <1>2, TargetMoves DEF Blank, Untargeted
<1> QED
  BY <1>1, <1>3 DEF Blank

LEMMA ReadyStatus ==
  ASSUME Grounds, Ready, Framed
  PROVE  /\ item'.status = "READY" => Blank'
         /\ item'.status = "WAITING_PROVIDER" /\ disk'.wait.role = "implementer"
              /\ disk'.wait.resume = "READY" => Blank'
         /\ item'.status = "CLAIMED" => Untargeted'
<1>1. CASE item'.status = item.status
  <2>1. item'.status = "READY" => Blank'
    BY <1>1, BlankKept DEF Calm, Ready
  <2>2. item.status = "WAITING_PROVIDER" => ~QueueWait
    BY DEF QueueWait, Grounds, Handoff, ByLabel, Parking
  <2>3. item'.status = "WAITING_PROVIDER" /\ disk'.wait.role = "implementer"
              /\ disk'.wait.resume = "READY" => Blank'
    BY <1>1, <2>2, BlankKept DEF Calm, Ready, Framed, DiskFrames
  <2>4. item.status = "CLAIMED" => pc # "int_target"
    BY Stands DEF Grounds, Found, Now, Held
  <2>5. item'.status = "CLAIMED" => Untargeted'
    BY <1>1, <2>4, TargetMoves DEF Ready, Untargeted
  <2> QED
    BY <2>1, <2>3, <2>5
<1>2. CASE item'.status # item.status /\ StatusWriters
  <2>1. /\ item'.status \in Written(pc) /\ pc # "idle"
        /\ act.status \in Found(pc, act.role, act.next)
    BY <1>2, WritersWrite, Stands DEF Grounds
  <2>2. CASE item'.status = "READY"
    <3>1. pc \in Blanking \/ (pc = "recover_resume" /\ disk.wait.resume = "READY")
      BY <2>1, <2>2 DEF Written, Found, Again, Blanking, Held
    <3>2. Blank
      BY <3>1 DEF Ready, Resuming
    <3> QED
      BY <2>2, <3>1, <3>2, BlankKept DEF Calm, Resuming
  <2>3. CASE item'.status = "WAITING_PROVIDER"
    <3> SUFFICES ASSUME disk'.wait.role = "implementer", disk'.wait.resume = "READY"
                 PROVE  Blank'
      BY <2>3
    <3>1. pc \in {"queue_status", "review_wait"}
      <4>1. pc # "recover_resume"
        BY <2>1, <2>3 DEF Grounds, Handoff, ByLabel, Resuming, Early, Written
      <4> QED
        BY <2>1, <2>3, <4>1 DEF Written, Found, Again, Held
    <3>2. disk.wait.role = "implementer" /\ disk.wait.resume = "READY"
      BY <3>1 DEF QueueWait, Framed, DiskFrames
    <3>3. pc = "queue_status" /\ act.role = "implementer" /\ act.resume = "READY"
      BY <3>1, <3>2 DEF Grounds, Handoff, ByLabel
    <3>4. Blank
      BY <3>3 DEF Ready, Parking
    <3> QED
      BY <3>3, <3>4, BlankKept DEF Calm, Parking
  <2>4. CASE item'.status = "CLAIMED"
    <3>1. pc = "dispatch_claim"
      <4>1. pc # "recover_resume"
        BY <2>1, <2>4 DEF Grounds, Handoff, ByLabel, Resuming, Early, Written
      <4> QED
        BY <2>1, <2>4, <4>1 DEF Written, Found, Again, Held
    <3>2. Blank
      BY <3>1 DEF Ready, Blanking
    <3>3. Blank'
      BY <3>1, <3>2, BlankKept DEF Calm, Blanking
    <3> QED
      BY <2>4, <3>3 DEF Blank
  <2> QED
    BY <2>2, <2>3, <2>4
<1>3. CASE HumanHold
  BY <1>3 DEF HumanHold, SetStatus, Grounds, TypeOK, Item
<1> QED
  BY <1>1, <1>2, <1>3 DEF Framed, ItemFrames

LEMMA ReadyLabels ==
  ASSUME Grounds, Ready, Framed, Guided, ~UNCHANGED <<pc, act>>
  PROVE  /\ pc' \in Blanking => Blank'
         /\ pc' \in Parking /\ act'.role = "implementer" /\ act'.resume = "READY" => Blank'
         /\ pc' \in Resuming /\ disk'.wait.resume = "READY" => Blank'
<1>0. disk \in Disk /\ act \in Act
  BY DEF Grounds, TypeOK
<1>1. ASSUME pc' \in Blanking PROVE Blank'
  <2>1. CASE DispatchStart
    <3>1. item.status = "READY"
      BY <2>1 DEF DispatchStart
    <3> QED
      BY <3>1, BlankKept DEF Calm, Ready
  <2>2. CASE UnwindFiles
    <3>1. /\ disk'.clone = NoClone /\ disk'.pack["implementer"] = {}
          /\ disk'.cmeta = NoCloneMeta /\ disk'.job = disk.job /\ pc = "unwind_files"
      BY <1>0, <2>2, DiskTypes, RoleFacts DEF UnwindFiles, Disk, Grounds
    <3>2. disk.job["implementer"] = NoJob
      BY <3>1 DEF Ready, DispatchLabels
    <3> QED
      BY <3>1, <3>2 DEF Blank, Clean, Untargeted, NoClone, NoCloneMeta
  <2>3. CASE ReconcileAbandoned
    <3>1. pc = "reconcile" /\ item.status = "CLAIMED" /\ disk.job["implementer"] = NoJob
            /\ disk' = [disk EXCEPT !.clone = NoClone, !.pack["implementer"] = {}]
      BY <1>1, <2>3 DEF ReconcileAbandoned, Return, Blanking, StatusFresh, Expected
    <3>2. /\ disk'.clone = NoClone /\ disk'.pack["implementer"] = {}
          /\ disk'.cmeta = disk.cmeta /\ disk'.job = disk.job
      BY <1>0, <3>1, DiskTypes, RoleFacts DEF Disk, Grounds
    <3>3. Untargeted
      BY <3>1 DEF Ready
    <3> QED
      BY <3>1, <3>2, <3>3 DEF Blank, Clean, Untargeted, NoClone
  <2> QED
    BY <1>1, <2>1, <2>2, <2>3 DEF Guided, Came, Blanking
<1>2. ASSUME pc' \in Parking, act'.role = "implementer", act'.resume = "READY" PROVE Blank'
  <2>1. CASE ReconcileQuota
    BY <1>0, <1>2, <2>1 DEF ReconcileQuota, Queue, Act
  <2>2. CASE RetryReview
    <3>1. pc = "consume" /\ act'.role = act.role
      BY <1>0, <1>2, <2>2 DEF RetryReview, Queue, CallReview, Return, Act, Parking
    <3> QED
      BY <1>2, <3>1, RoleFacts DEF Grounds, UnitsByPhase, CallsByLabel
  <2>3. CASE QuotaMark \/ QueueWait
    <3>1. pc \in Parking /\ act' = act
      BY <2>3 DEF QuotaMark, QueueWait, Goto, Parking
    <3> QED
      BY <1>2, <3>1, BlankKept DEF Calm, Ready
  <2>4. CASE DispatchStart
    <3>1. item.status = "READY"
      BY <2>4 DEF DispatchStart
    <3> QED
      BY <3>1, BlankKept DEF Calm, Ready
  <2>5. CASE DispatchReview
    <3>1. act'.role = "reviewer"
      BY <1>2, <2>5, PayloadType
      DEF DispatchReview, Queue, CallReview, Payload, Parking
    <3> QED
      BY <1>2, <3>1
  <2> QED
    BY <1>2, <2>1, <2>2, <2>3, <2>4, <2>5 DEF Guided, Came, Parking
<1>3. ASSUME pc' \in Resuming, disk'.wait.resume = "READY" PROVE Blank'
  <2>1. CASE RecoverStart
    <3>1. pc' = "recover_select" /\ disk' = disk /\ item.status = "WAITING_PROVIDER"
            /\ disk.wait.role = "implementer"
      BY <1>3, <2>1 DEF RecoverStart, Resuming
    <3> QED
      BY <1>3, <3>1, BlankKept DEF Calm, Ready
  <2>2. CASE RecoverSelect \/ RecoverField
    <3>1. pc \in Resuming /\ ~QueueWait
      BY <2>2 DEF RecoverSelect, RecoverField, Resuming, QueueWait
    <3> QED
      BY <1>3, <3>1, BlankKept DEF Calm, Ready, Framed, DiskFrames
  <2> QED
    BY <1>3, <2>1, <2>2 DEF Guided, Came, Resuming
<1> QED
  BY <1>1, <1>2, <1>3

LEMMA ReadyStep ==
  ASSUME Grounds, Ready, Framed, Guided
  PROVE  Ready'
<1>0. disk \in Disk /\ act \in Act
  BY DEF Grounds, TypeOK
<1>1. /\ pc' \in Blanking => Blank'
      /\ pc' \in Parking /\ act'.role = "implementer" /\ act'.resume = "READY" => Blank'
      /\ pc' \in Resuming /\ disk'.wait.resume = "READY" => Blank'
  <2>1. CASE UNCHANGED <<pc, act>>
    BY <2>1, BlankKept
    DEF Calm, Ready, Framed, DiskFrames, QueueWait, Resuming
  <2> QED
    BY <2>1, ReadyLabels
<1>2. ASSUME pc' \in DispatchLabels PROVE disk'.job["implementer"] = NoJob
  <2>1. CASE pc' = "dispatch_claim"
    BY <1>1, <2>1 DEF Blanking, Blank, Clean
  <2>2. CASE pc \in DispatchLabels
    BY <2>2
    DEF Ready, Framed, DiskFrames, JobWriters, SpawnJob, LaunchRestored, RetryUnlinkJob,
        RetryRestore, FinalizeFiles, DispatchLabels
  <2> QED
    BY <1>2, <2>1, <2>2 DEF Guided, Came
<1>3. ASSUME pc' # "idle", act'.status \in {"READY", "CLAIMED"} PROVE Untargeted'
  <2>1. Untargeted /\ pc # "int_target"
    <3>1. CASE pc # "idle" /\ act.status = act'.status
      <4>1. pc = "int_target" => act.status = "VERIFIED"
        BY Stands DEF Grounds, Found
      <4> QED
        BY <1>3, <3>1, <4>1 DEF Ready
    <3>2. CASE Begins
      BY <1>3, <3>2 DEF Begins, Ready, Blank
    <3> QED
      BY <1>3, <3>1, <3>2 DEF Guided, Handles, Ends, GoesOn
  <2> QED
    BY <2>1, TargetMoves DEF Untargeted
<1>4. ASSUME pc' = "int_target" PROVE Impl'.commit # 0 /\ disk'.cmeta.parent = 0
  <2>1. CASE UNCHANGED <<pc, act>>
    <3>1. ~Active("implementer") /\ pc = "int_target"
      BY <1>4, <2>1, RoleFacts
      DEF Grounds, UnitsByPhase, UnitsByLabel, QuietLabels, NoUnitActive
    <3>2. Impl' = Impl
      BY <3>1
      DEF Framed, DiskFrames, ResultWriters, SpawnTruncate, LaunchRestored,
          RetryUnlinkResult, RetryRestore, FinalizeFiles, ImplementerWorks, Impl
    <3>3. disk'.cmeta.parent = disk.cmeta.parent
      BY <2>1, <3>1, TargetMoves DEF IntegrateTarget, Goto
    <3> QED
      BY <3>1, <3>2, <3>3 DEF Ready
  <2>2. CASE IntegrateStart
    BY <1>4, <2>2 DEF IntegrateStart, Accept, Valid, Impl
  <2> QED
    BY <1>4, <2>1, <2>2 DEF Guided, Came
<1>5. ASSUME disk'.cmeta.parent = 0 PROVE Untargeted'
  <2>1. ~(pc = "int_target" /\ disk'.cmeta.parent = Impl.commit)
    BY <1>5 DEF Ready
  <2> QED
    BY <1>5, <2>1, TargetMoves DEF Ready, Untargeted
<1> QED
  BY <1>1, <1>2, <1>3, <1>4, <1>5, ReadyStatus DEF Ready

LEMMA ReadyHolds == Spec => [](Grounds /\ Ready)
<1>1. Init => Grounds /\ Ready
  BY InitGrounds, InitReady
<1>2. Grounds /\ Ready /\ TypeOK' /\ [Next]_vars => (Grounds /\ Ready)'
  BY GroundsStep, ReadyStep
<1> QED
  BY <1>1, <1>2, TypeCorrect, PTL DEF Spec

\* READY leaves no clone, task pack or job behind, after an unwound dispatch, an
\* abandoned claim or a park before the first worker: the next dispatch, which
\* refuses all three, can begin.
THEOREM ReadyHasNoLeftovers == Spec => []ReadyIsClean
<1>1. Ready => ReadyIsClean
  BY DEF Ready, Blank, Clean, ReadyIsClean
<1> QED
  BY <1>1, ReadyHolds, PTL

LEMMA TargetIsKept ==
  ASSUME Grounds, Ready, Framed, disk.cmeta.target # 0, disk'.cmeta # NoCloneMeta
  PROVE  disk'.cmeta.target = disk.cmeta.target /\ disk'.cmeta.parent = disk.cmeta.parent
<1>1. pc # "int_target"
  BY DEF Ready, Untargeted
<1>2. pc # "dispatch_meta"
  <2> SUFFICES ASSUME pc = "dispatch_meta" PROVE FALSE
    OBVIOUS
  <2>1. act.status = "READY"
    BY Stands DEF Grounds, Found
  <2> QED
    BY <2>1 DEF Ready, Untargeted
<1> QED
  BY <1>1, <1>2, TargetMoves

\* However often the preparation of an upstream integration is interrupted,
\* replayed or followed by another conflict, the clone keeps its first target.
THEOREM IntegrationHappensOnce == Spec => IntegrationOnce
<1>1. Grounds /\ Ready /\ TypeOK' /\ [Next]_vars =>
        [disk.cmeta.target # 0 /\ disk'.cmeta # NoCloneMeta =>
           disk'.cmeta.target = disk.cmeta.target
           /\ disk'.cmeta.parent = disk.cmeta.parent]_vars
  BY GroundsStep, TargetIsKept
<1> QED
  BY <1>1, ReadyHolds, TypeCorrect, PTL DEF Spec, IntegrationOnce

(***************************************************************************)
(* A parked item.  First: who writes a reviewer's files.                   *)
(***************************************************************************)
ReviewerKept(r) ==
  /\ disk'.result[r] = disk.result[r] /\ disk'.job[r] = disk.job[r]
  /\ disk'.pack[r] = disk.pack[r] /\ unit'[r] = unit[r]

ReviewerWrites(r) ==
  \/ act.role = r /\ (SpawnSteps \/ ReviewPack \/ ReviewUnlinkResult \/ ReviewUnlinkJob)
  \/ FinalizeFiles
  \/ WorkerSteps /\ Active(r)
  \/ \E d \in {"approve", "reject"} : ProtocolFix(r, d)

LEMMA SameReviewer ==
  ASSUME UNCHANGED <<disk, unit>>, NEW r \in ReviewRoles
  PROVE  ReviewerKept(r)
  BY DEF ReviewerKept

LEMMA SpawnReviewer ==
  ASSUME TypeOK, SpawnSteps \/ SpawnReviewSteps, NEW r \in ReviewRoles
  PROVE  ReviewerKept(r) \/ ReviewerWrites(r)
<1>0. act.role \in Roles /\ disk \in Disk /\ unit \in [Roles -> Job]
  BY DEF TypeOK, Act
<1>1. CASE act.role = r
  <2>1. CASE ReviewCheck \/ ReviewMeta
    BY <1>0, <2>1, DiskTypes DEF ReviewCheck, ReviewMeta, ReviewerKept, Disk
  <2> QED
    BY <1>1, <2>1 DEF ReviewerWrites, SpawnReviewSteps
<1>2. CASE act.role # r
  <2>1. CASE SpawnTruncate
    BY <1>0, <1>2, <2>1, DiskTypes DEF SpawnTruncate, ReviewerKept, Disk
  <2>2. CASE SpawnJob
    BY <1>0, <1>2, <2>2, DiskTypes DEF SpawnJob, ReviewerKept, Disk
  <2>3. CASE SpawnUnit
    BY <1>0, <1>2, <2>3 DEF SpawnUnit, ReviewerKept
  <2>4. CASE SpawnRefused
    BY <2>4, SameReviewer DEF SpawnRefused
  <2>5. CASE ReviewCheck \/ ReviewMeta
    BY <1>0, <2>5 DEF ReviewCheck, ReviewMeta, ReviewerKept, Disk
  <2>6. CASE ReviewPack
    BY <1>0, <1>2, <2>6, DiskTypes DEF ReviewPack, ReviewerKept, Disk
  <2>7. CASE ReviewUnlinkResult
    BY <1>0, <1>2, <2>7, DiskTypes DEF ReviewUnlinkResult, ReviewerKept, Disk
  <2>8. CASE ReviewUnlinkJob
    BY <1>0, <1>2, <2>8, DiskTypes DEF ReviewUnlinkJob, ReviewerKept, Disk
  <2> QED
    BY <2>1, <2>2, <2>3, <2>4, <2>5, <2>6, <2>7, <2>8
    DEF SpawnSteps, SpawnReviewSteps
<1> QED
  BY <1>1, <1>2

LEMMA ImplementationReviewer ==
  ASSUME TypeOK, CooldownSteps \/ ImplementationSteps, NEW r \in ReviewRoles
  PROVE  ReviewerKept(r)
<1>0. r \in Roles /\ r # "implementer" /\ disk \in Disk
  BY RoleFacts, DiskTypes
<1>1. UNCHANGED unit
  BY DEF CooldownSteps, QuotaMark, QueueWait, QueueStatus, RecoverStart, RecoverSelect,
         RecoverField, RecoverResume, RecoverReview, RecoverReviewStatus, ImplementationSteps,
         DispatchSteps, DispatchStart, DispatchClaim, DispatchStale, DispatchClone, DispatchMeta,
         DispatchPack, DispatchSpawn, DispatchDone, DispatchFails, UnwindFiles, UnwindStatus,
         LaunchSteps, LaunchSpent, LaunchSettled, LaunchRestored, LaunchStatus, LaunchClosed,
         LaunchKept, ReconcileSteps, ReconcileStart, ImplementationStart, ReconcileAbandoned,
         ReconcileReady, ReconcileQuota, ReconcileFailure, ReconcileSuccess, ReconcileNothing,
         RetrySteps, RetryStart, RetryLimit, RetryPrepare, RetryRefused, RetryTx, RetryPack,
         RetryUnlinkJob, RetryUnlinkResult, RetryCount, RetryStatus, RetryGuard, RetryGuardFails,
         RetryRestore, RetryUncount, RetryUnstatus, RetryBudget, RetrySpent, RetryClose,
         ResumeStart, ResumeStatus
<1>2. CASE CooldownSteps
  BY <1>0, <1>1, <1>2
  DEF CooldownSteps, QuotaMark, QueueWait, QueueStatus, RecoverStart, RecoverSelect,
      RecoverField, RecoverResume, RecoverReview, RecoverReviewStatus, ReviewerKept, Disk
<1>3. CASE DispatchSteps
  <2>1. CASE DispatchPack
    BY <1>0, <1>1, <2>1, DiskTypes DEF DispatchPack, ReviewerKept, Disk
  <2>2. CASE DispatchClone \/ DispatchMeta
    BY <1>0, <1>1, <2>2 DEF DispatchClone, DispatchMeta, ReviewerKept, Disk
  <2>3. CASE \/ DispatchStart \/ DispatchClaim \/ DispatchStale \/ DispatchSpawn
             \/ DispatchDone \/ DispatchFails \/ UnwindStatus
    BY <2>3, SameReviewer
    DEF DispatchStart, DispatchClaim, DispatchStale, DispatchSpawn, DispatchDone, DispatchFails,
        UnwindStatus
  <2>4. CASE UnwindFiles
    BY <1>0, <1>1, <2>4, DiskTypes DEF UnwindFiles, ReviewerKept, Disk
  <2> QED
    BY <1>3, <2>1, <2>2, <2>3, <2>4 DEF DispatchSteps
<1>4. CASE LaunchSteps
  <2>1. CASE LaunchRestored
    BY <1>0, <1>1, <2>1, DiskTypes DEF LaunchRestored, ReviewerKept, Disk
  <2>2. CASE LaunchSpent \/ LaunchSettled \/ LaunchStatus \/ LaunchClosed \/ LaunchKept
    BY <1>0, <1>1, <2>2
    DEF LaunchSpent, LaunchSettled, LaunchStatus, LaunchClosed, LaunchKept, ReviewerKept, Disk
  <2> QED
    BY <1>4, <2>1, <2>2 DEF LaunchSteps
<1>5. CASE ReconcileSteps \/ ResumeStart \/ ResumeStatus
  <2>1. CASE ReconcileAbandoned
    <3>1. /\ disk'.result = disk.result /\ disk'.job = disk.job
          /\ disk'.pack \in {disk.pack, [disk.pack EXCEPT !["implementer"] = {}]}
      BY <1>0, <2>1, DiskTypes DEF ReconcileAbandoned, Disk
    <3> QED
      BY <1>0, <1>1, <3>1, DiskTypes DEF ReviewerKept
  <2>2. CASE ~ReconcileAbandoned
    BY <1>1, <1>5, <2>2, SameReviewer
    DEF ReconcileSteps, ReconcileStart, ImplementationStart, ReconcileReady, ReconcileQuota,
        ReconcileFailure, ReconcileSuccess, ReconcileNothing, ResumeStart, ResumeStatus
  <2> QED
    BY <2>1, <2>2
<1>6. CASE RetrySteps
  <2>1. CASE RetryRestore
    BY <1>0, <1>1, <2>1, DiskTypes DEF RetryRestore, ReviewerKept, Disk
  <2>2. CASE RetryTx \/ RetryPack \/ RetryUnlinkJob \/ RetryUnlinkResult
    BY <1>0, <1>1, <2>2, DiskTypes
    DEF RetryTx, RetryPack, RetryUnlinkJob, RetryUnlinkResult, ReviewerKept, Disk
  <2>3. CASE RetryBudget \/ RetrySpent \/ RetryClose
    BY <1>0, <1>1, <2>3 DEF RetryBudget, RetrySpent, RetryClose, ReviewerKept, Disk
  <2>4. CASE \/ RetryStart \/ RetryLimit \/ RetryPrepare \/ RetryRefused \/ RetryCount
             \/ RetryStatus \/ RetryGuard \/ RetryGuardFails \/ RetryUncount \/ RetryUnstatus
    BY <1>1, <2>4, SameReviewer
    DEF RetryStart, ImplementationStart, RetryLimit, RetryPrepare, RetryRefused, RetryCount,
        RetryStatus, RetryGuard, RetryGuardFails, RetryUncount, RetryUnstatus
  <2> QED
    BY <1>6, <2>1, <2>2, <2>3, <2>4 DEF RetrySteps
<1> QED
  BY <1>2, <1>3, <1>4, <1>5, <1>6 DEF ImplementationSteps

LEMMA OtherReviewer ==
  ASSUME TypeOK, NEW r \in ReviewRoles,
         \/ PublishSteps \/ DispatchReviewSteps \/ ConsumeSteps \/ OperatorSteps
         \/ MergeGateSteps
  PROVE  ReviewerKept(r) \/ ReviewerWrites(r)
<1>0. r \in Roles /\ disk \in Disk
  BY RoleFacts, DiskTypes
<1>1. CASE PublishSteps \/ ConsumeSteps
  BY <1>1, SameReviewer
  DEF PublishSteps, PublishStart, PublishHold, PublishPush, PublishPr, ConsumeSteps, ConsumeStart,
      ConsumeVerdict, ConsumeStatus, RetryReview, ReviewNote, ConsumeNothing
<1>2. CASE DispatchReviewSteps
  BY <1>0, <1>2
  DEF DispatchReviewSteps, DispatchReview, DispatchSecurity, DispatchRecovery, ReviewWait,
      ReviewStatus, ReviewSpent, ReviewerKept, Disk
<1>3. CASE OperatorSteps
  <2>1. ASSUME NEW s \in RequiredRoles, ResumeReview(s) PROVE ReviewerKept(r)
    BY <1>0, <2>1 DEF ResumeReview, ReviewerKept, Disk
  <2>2. CASE RecordHost \/ RecordReport \/ ReconcileWaitingResult \/ OperatorReviewing
    BY <1>0, <2>2
    DEF RecordHost, RecordReport, ReconcileWaitingResult, OperatorReviewing, ReviewerKept, Disk
  <2> QED
    BY <1>3, <2>1, <2>2 DEF OperatorSteps
<1>4. CASE MergeGateSteps
  <2>1. CASE FinalizeFiles
    BY <2>1 DEF ReviewerWrites
  <2>2. CASE IntegrateTarget \/ IntegrateBase \/ IntegrateClose \/ IntegrateMerge \/ FinalizeClone
    BY <1>0, <2>2
    DEF IntegrateTarget, IntegrateBase, IntegrateClose, IntegrateMerge, FinalizeClone,
        ReviewerKept, Disk
  <2>3. CASE \/ IntegrateStart \/ IntegrateInspect \/ IntegrateCount \/ IntegrateStatus
             \/ AdvanceStart \/ AdvanceStatus \/ MergeSteps
             \/ FinalizeStart \/ FinalizeComment \/ FinalizeClose \/ FinalizeStatus
    BY <2>3, SameReviewer
    DEF IntegrateStart, IntegrateInspect, IntegrateCount, IntegrateStatus, AdvanceStart,
        AdvanceStatus, MergeSteps, MergeStart, MergeStatus, MergeCall, MergeRefused, MergeReverts,
        MergeAmbiguous, FinalizeStart, FinalizeComment, FinalizeClose, FinalizeStatus
  <2> QED
    BY <1>4, <2>1, <2>2, <2>3 DEF MergeGateSteps, IntegrateSteps, FinalizeSteps
<1> QED
  BY <1>1, <1>2, <1>3, <1>4

LEMMA AroundReviewer ==
  ASSUME TypeOK, NEW r \in ReviewRoles,
         \/ WorkerSteps \/ ReviewEnvironment \/ BrokerStops \/ BrokerRaises
         \/ CooldownEnvironment \/ GitHubSteps \/ UNCHANGED vars
  PROVE  ReviewerKept(r) \/ ReviewerWrites(r)
<1>0. r \in Roles /\ r # "implementer" /\ disk \in Disk /\ unit \in [Roles -> Job]
  BY RoleFacts, DiskTypes DEF TypeOK
<1>1. CASE WorkerSteps
  <2> SUFFICES ASSUME ~Active(r) PROVE ReviewerKept(r)
    BY <1>1 DEF ReviewerWrites
  <2>1. CASE WorkerCommits
    BY <1>0, <2>1 DEF WorkerCommits, ReviewerKept, Disk
  <2>2. CASE ImplementerSucceeds
    BY <1>0, <2>2, DiskTypes DEF ImplementerSucceeds, UnitEnds, ReviewerKept, Disk
  <2>3. CASE ImplementerMisreports
    BY <1>0, <2>3, DiskTypes DEF ImplementerMisreports, ReviewerKept, Disk
  <2>4. ASSUME NEW s \in Roles, NEW k, UnitEnds(s, k, 0), Active(s) PROVE ReviewerKept(r)
    BY <1>0, <2>4, DiskTypes DEF UnitEnds, ReviewerKept, Disk
  <2>5. ASSUME NEW s \in Roles, UnitKilled(s) PROVE ReviewerKept(r)
    BY <1>0, <2>5 DEF UnitKilled, ReviewerKept
  <2> QED
    BY <1>1, <2>1, <2>2, <2>3, <2>4, <2>5, RoleFacts
    DEF WorkerSteps, ReviewerDecides, WorkerFails, WorkerQuota
<1>2. CASE ReviewEnvironment
  <2>1. PICK s \in ReviewRoles, d \in {"approve", "reject"} : ProtocolFix(s, d)
    BY <1>2 DEF ReviewEnvironment
  <2>2. CASE s = r
    BY <2>1, <2>2 DEF ReviewerWrites
  <2>3. CASE s # r
    BY <1>0, <2>1, <2>3, DiskTypes DEF ProtocolFix, ReviewerKept, Disk
  <2> QED
    BY <2>2, <2>3
<1>3. CASE \/ BrokerStops \/ BrokerRaises \/ CooldownEnvironment \/ GitHubSteps
           \/ UNCHANGED vars
  BY <1>3, SameReviewer
  DEF BrokerStops, BrokerRaises, CooldownEnvironment, OtherIssueQuota, CooldownEnds, GitHubSteps,
      HumanPush, BaseAdvances, CiReports, HumanHold, vars
<1> QED
  BY <1>1, <1>2, <1>3

LEMMA ReviewerFrames ==
  ASSUME TypeOK, [Next]_vars, NEW r \in ReviewRoles
  PROVE  ReviewerKept(r) \/ ReviewerWrites(r)
  BY SpawnReviewer, ImplementationReviewer, OtherReviewer, AroundReviewer DEF Next, ReviewSteps

\* Who changes what a reviewer reported, and into what.
LEMMA ReportMoves ==
  ASSUME TypeOK, NEW r \in ReviewRoles, ReviewerKept(r) \/ ReviewerWrites(r)
  PROVE  \/ disk'.result[r] = disk.result[r]
         \/ SpawnTruncate /\ act.role = r /\ disk'.result[r] = Simple("empty")
         \/ /\ (ReviewUnlinkResult /\ act.role = r) \/ FinalizeFiles
            /\ disk'.result[r] = NoResult
         \/ /\ WorkerSteps /\ Active(r) /\ unit'[r] = NoJob /\ UNCHANGED <<pc, act>>
            /\ disk'.result[r].kind # "none"
         \/ /\ pc = "idle" /\ disk.result[r].kind = "bad" /\ UNCHANGED <<pc, act, unit>>
            /\ ~Active(r) /\ ParsesReview(disk'.result[r])
<1>0. r \in Roles /\ disk \in Disk /\ unit \in [Roles -> Job]
  BY RoleFacts, DiskTypes DEF TypeOK
<1>1. CASE ReviewerKept(r)
  BY <1>1 DEF ReviewerKept
<1>2. CASE act.role = r /\ SpawnSteps
  <2>1. CASE SpawnTruncate
    BY <1>0, <1>2, <2>1, DiskTypes DEF SpawnTruncate, Disk
  <2>2. CASE SpawnRefused \/ SpawnJob \/ SpawnUnit
    BY <1>0, <2>2 DEF SpawnRefused, SpawnJob, SpawnUnit, Disk
  <2> QED
    BY <1>2, <2>1, <2>2 DEF SpawnSteps
<1>3. CASE act.role = r /\ (ReviewPack \/ ReviewUnlinkResult \/ ReviewUnlinkJob)
  <2>1. CASE ReviewUnlinkResult
    BY <1>0, <1>3, <2>1, DiskTypes DEF ReviewUnlinkResult, Disk
  <2>2. CASE ReviewPack \/ ReviewUnlinkJob
    BY <1>0, <2>2 DEF ReviewPack, ReviewUnlinkJob, Disk
  <2> QED
    BY <1>3, <2>1, <2>2
<1>4. CASE FinalizeFiles
  BY <1>0, <1>4 DEF FinalizeFiles, Disk
<1>5. CASE WorkerSteps /\ Active(r)
  <2>0. UNCHANGED <<pc, act>>
    BY <1>5, EnvironmentMoves
  <2>1. CASE WorkerCommits
    BY <1>0, <2>1 DEF WorkerCommits, Disk
  <2>2. CASE ImplementerSucceeds
    BY <1>0, <2>2, DiskTypes, RoleFacts DEF ImplementerSucceeds, UnitEnds, Disk
  <2>3. CASE ImplementerMisreports
    BY <1>0, <2>3, DiskTypes, RoleFacts DEF ImplementerMisreports, Disk
  <2>4. ASSUME NEW s \in Roles, NEW k, UnitEnds(s, k, 0), k # "none"
        PROVE  \/ disk'.result[r] = disk.result[r]
               \/ unit'[r] = NoJob /\ disk'.result[r].kind # "none"
    BY <1>0, <2>4, DiskTypes DEF UnitEnds, Disk
  <2>5. ASSUME NEW s \in Roles, UnitKilled(s) PROVE disk'.result[r] = disk.result[r]
    BY <2>5 DEF UnitKilled
  <2> QED
    BY <1>5, <2>0, <2>1, <2>2, <2>3, <2>4, <2>5, RoleFacts
    DEF WorkerSteps, ReviewerDecides, WorkerFails, WorkerQuota
<1>6. ASSUME NEW d \in {"approve", "reject"}, ProtocolFix(r, d)
      PROVE  /\ pc = "idle" /\ disk.result[r].kind = "bad" /\ UNCHANGED <<pc, act, unit>>
             /\ ~Active(r) /\ ParsesReview(disk'.result[r])
  <2>1. disk'.result[r].kind = d
    BY <1>0, <1>6, DiskTypes DEF ProtocolFix, Disk, Result
  <2> QED
    BY <1>6, <2>1 DEF ProtocolFix, ParsesReview
<1> QED
  BY <1>1, <1>2, <1>3, <1>4, <1>5, <1>6 DEF ReviewerWrites

LEMMA ReviewUnitMoves ==
  ASSUME TypeOK, NEW r \in ReviewRoles, ReviewerKept(r) \/ ReviewerWrites(r)
  PROVE  \/ unit'[r] \in {unit[r], NoJob}
         \/ SpawnUnit /\ act.role = r
<1>0. r \in Roles /\ unit \in [Roles -> Job]
  BY RoleFacts DEF TypeOK
<1>1. CASE ReviewerKept(r)
  BY <1>1 DEF ReviewerKept
<1>2. CASE act.role = r /\ (SpawnSteps \/ ReviewPack \/ ReviewUnlinkResult \/ ReviewUnlinkJob)
  BY <1>2
  DEF SpawnSteps, SpawnTruncate, SpawnRefused, SpawnJob, ReviewPack, ReviewUnlinkResult,
      ReviewUnlinkJob
<1>3. CASE FinalizeFiles \/ \E d \in {"approve", "reject"} : ProtocolFix(r, d)
  BY <1>3 DEF FinalizeFiles, ProtocolFix
<1>4. CASE WorkerSteps
  BY <1>0, <1>4, EnvironmentMoves
<1> QED
  BY <1>1, <1>2, <1>3, <1>4 DEF ReviewerWrites

(***************************************************************************)
(* What is recorded of a parked attempt, and that it stays so.             *)
(***************************************************************************)
\* A reviewer at work, or about to be started, has not reported anything.
Truncated ==
  /\ \A r \in ReviewRoles : Active(r) => disk.result[r] = Simple("empty")
  /\ pc \in {"spawn_job", "spawn_unit"} /\ act.role \in ReviewRoles =>
       disk.result[act.role] = Simple("empty")

\* The attempt is as it was recorded, and nobody works on it.
Standing ==
  /\ disk.wait.role \in Roles
  /\ disk.wait.resume # "IMPLEMENTED" => ParkedIntact /\ ~Active(disk.wait.role)

\* A reviewer is parked with its quota report, or before it was started.
Waits ==
  /\ disk.wait.role \in ReviewRoles =>
       \/ disk.wait.resume = "IMPLEMENTED"
       \/ disk.wait.resume = "REVIEWING" /\ Exhausted(disk.wait.result)
  /\ pc \in {"quota_mark", "queue"} /\ act.role \in ReviewRoles =>
       \/ act.resume = "IMPLEMENTED"
       \/ act.resume = "REVIEWING" /\ Exhausted(disk.result[act.role]) /\ ~Active(act.role)
  /\ item.status = "WAITING_PROVIDER" \/ pc \in {"queue_status", "review_wait"} => Standing

LEMMA InitWaits == Init => Truncated /\ Waits
<1> SUFFICES ASSUME Init PROVE Truncated /\ Waits
  OBVIOUS
<1>1. pc = "idle" /\ item.status = "READY" /\ disk.wait = NoWait /\ NoUnitActive
  BY DEF Init, NoUnitActive, Active
<1> QED
  BY <1>1, RoleFacts DEF Truncated, Waits, NoWait, NoUnitActive, ReviewRoles

LEMMA TruncatedStep ==
  ASSUME Grounds, Truncated, Guided,
         \A r \in ReviewRoles : ReviewerKept(r) \/ ReviewerWrites(r)
  PROVE  Truncated'
<1>0. TypeOK /\ disk \in Disk /\ act \in Act
  BY DEF Grounds, TypeOK
<1>1. ASSUME NEW r \in ReviewRoles, Active(r)' PROVE disk'.result[r] = Simple("empty")
  <2>1. CASE SpawnUnit /\ act.role = r
    BY <2>1 DEF SpawnUnit, Truncated
  <2>2. CASE unit'[r] \in {unit[r], NoJob}
    <3>1. Active(r)
      BY <1>1, <2>2 DEF Active
    <3>2. ~(ReviewUnlinkResult /\ act.role = r)
      BY <3>1
      DEF ReviewUnlinkResult, Grounds, Evidence, CallIsAboutHead, Calling, SpawnReviewLabels
    <3>3. ~FinalizeFiles
      BY <3>1, RoleFacts
      DEF FinalizeFiles, Grounds, UnitsByPhase, UnitsByLabel, QuietLabels, NoUnitActive
    <3> QED
      BY <1>0, <1>1, <3>1, <3>2, <3>3, ReportMoves DEF Active, Truncated
  <2> QED
    BY <1>0, <2>1, <2>2, ReviewUnitMoves
<1>2. ASSUME pc' \in {"spawn_job", "spawn_unit"}, act'.role \in ReviewRoles
      PROVE  disk'.result[act'.role] = Simple("empty")
  <2>1. CASE UNCHANGED <<pc, act>>
    <3>1. ~Active(act.role)
      BY <1>2, <2>1, RoleFacts
      DEF Grounds, Evidence, CallIsAboutHead, Calling, SpawnLabels
    <3>2. ~ReviewUnlinkResult /\ ~FinalizeFiles
      BY <1>2, <2>1 DEF ReviewUnlinkResult, FinalizeFiles
    <3> QED
      BY <1>0, <1>2, <2>1, <3>1, <3>2, ReportMoves DEF Truncated
  <2>2. CASE SpawnTruncate
    BY <1>0, <2>2, DiskTypes DEF SpawnTruncate, Goto, Disk, Act
  <2>3. CASE SpawnJob
    BY <1>0, <1>2, <2>3 DEF SpawnJob, Goto, Disk, Truncated
  <2> QED
    BY <1>2, <2>1, <2>2, <2>3 DEF Guided, Came
<1> QED
  BY <1>1, <1>2 DEF Truncated

\* Nobody writes the files of a reviewer that is parked, or about to be.
LEMMA ReviewerRests ==
  ASSUME Grounds, NEW r \in ReviewRoles, ~Active(r), ReviewerKept(r) \/ ReviewerWrites(r),
         item.status = "WAITING_PROVIDER" \/ pc \in Parking \cup {"review_wait"}
  PROVE  /\ ReviewerKept(r) \/ disk.result[r].kind = "bad"
         /\ pc \in Parking \cup {"review_wait"} => ReviewerKept(r)
         /\ disk'.job[r] = disk.job[r] /\ disk'.pack[r] = disk.pack[r] /\ unit'[r] = unit[r]
<1>1. CASE ReviewerKept(r)
  BY <1>1 DEF ReviewerKept
<1>2. ~(act.role = r /\ (SpawnSteps \/ ReviewPack \/ ReviewUnlinkResult \/ ReviewUnlinkJob))
  <2> SUFFICES ASSUME act.role = r,
                      SpawnSteps \/ ReviewPack \/ ReviewUnlinkResult \/ ReviewUnlinkJob
               PROVE  FALSE
    OBVIOUS
  <2>1. pc \in SpawnLabels \/ pc \in SpawnReviewLabels
    BY DEF SpawnSteps, SpawnTruncate, SpawnRefused, SpawnJob, SpawnUnit, ReviewPack,
           ReviewUnlinkResult, ReviewUnlinkJob, SpawnLabels, SpawnReviewLabels
  <2>2. item.status \in {"IMPLEMENTED", "REVIEWING", "WAITING_HUMAN"}
    BY <2>1, RoleFacts DEF Grounds, UnitsByPhase, StatusByLabel
  <2> QED
    BY <2>1, <2>2 DEF SpawnLabels, SpawnReviewLabels, Parking
<1>3. ~FinalizeFiles
  <2> SUFFICES ASSUME FinalizeFiles PROVE FALSE
    OBVIOUS
  <2>1. pc = "final_files" /\ item.status \in {"DONE", Held}
    BY Stands DEF FinalizeFiles, Grounds, Now
  <2> QED
    BY <2>1 DEF Held, Parking
<1>4. ASSUME NEW d \in {"approve", "reject"}, ProtocolFix(r, d)
      PROVE  /\ disk.result[r].kind = "bad" /\ pc = "idle" /\ unit' = unit
             /\ disk'.job = disk.job /\ disk'.pack = disk.pack
  BY <1>4, DiskTypes DEF ProtocolFix, Disk, Grounds
<1> QED
  BY <1>1, <1>2, <1>3, <1>4 DEF ReviewerWrites, Parking

LEMMA StandingKept ==
  ASSUME Grounds, Waits, Standing, Framed,
         \A r \in ReviewRoles : ReviewerKept(r) \/ ReviewerWrites(r),
         item.status = "WAITING_PROVIDER" \/ pc \in {"queue_status", "review_wait"}
  PROVE  Standing'
<1>0. TypeOK
  BY DEF Grounds
<1>1. /\ disk'.wait.role = disk.wait.role /\ disk'.wait.resume = disk.wait.resume
      /\ disk'.wait.result = disk.wait.result /\ disk'.wait.job = disk.wait.job
      /\ disk'.wait.pack = disk.wait.pack /\ disk'.wait.head = disk.wait.head
  <2>1. ~QueueWait
    BY DEF QueueWait, Grounds, Handoff, ByLabel, Parking
  <2> QED
    BY <2>1 DEF Framed, DiskFrames
<1>2. /\ disk'.clone = disk.clone /\ disk'.pack["implementer"] = disk.pack["implementer"]
      /\ disk'.job["implementer"] = disk.job["implementer"] /\ Impl' = Impl
  BY FilesRest DEF Calm, Parking
<1>3. CASE disk.wait.resume = "IMPLEMENTED"
  BY <1>1, <1>3 DEF Standing
<1>4. CASE disk.wait.resume # "IMPLEMENTED" /\ disk.wait.role = "implementer"
  <2>1. ~Active("implementer") /\ ~(pc = "spawn_unit" /\ act.role = "implementer")
    BY <1>4 DEF Standing, Grounds, UnitsByPhase, StatusByLabel, SpawnLabels
  <2>2. ~Active("implementer")'
    BY <2>1 DEF Framed, ItemFrames, SpawnUnit, Active
  <2> QED
    BY <1>1, <1>2, <1>4, <2>2 DEF Standing, ParkedIntact, Impl
<1>5. CASE disk.wait.resume # "IMPLEMENTED" /\ disk.wait.role # "implementer"
  <2> DEFINE r == disk.wait.role
  <2>1. r \in ReviewRoles /\ ~Active(r) /\ ParkedIntact
    BY <1>5, RoleFacts DEF Standing
  <2>2. Exhausted(disk.result[r])
    BY <1>5, <2>1 DEF Waits, ParkedIntact
  <2>3. ReviewerKept(r)
    BY <2>1, <2>2, ReviewerRests DEF Exhausted, Parking
  <2> QED
    BY <1>1, <1>2, <2>1, <2>3 DEF Standing, ParkedIntact, ReviewerKept, Active
<1> QED
  BY <1>3, <1>4, <1>5

\* The record is made of the attempt, while nobody works on it.
LEMMA QueueStands ==
  ASSUME Grounds, Waits, QueueWait
  PROVE  Standing'
<1>0. disk \in Disk /\ act \in Act
  BY DEF Grounds, TypeOK
<1>1. /\ disk'.wait.role = act.role /\ disk'.wait.resume = act.resume
      /\ disk'.wait.result = disk.result[act.role] /\ disk'.wait.job = disk.job[act.role]
      /\ disk'.wait.pack = disk.pack[act.role]
      /\ act.resume \in {"RETRY_PENDING", "REVIEWING"} => disk'.wait.head = disk.clone.head
      /\ disk'.result = disk.result /\ disk'.job = disk.job /\ disk'.pack = disk.pack
      /\ disk'.clone = disk.clone /\ unit' = unit /\ pc = "queue"
  BY <1>0 DEF QueueWait, Parked, NoWait, Disk
<1>2. act.role \in Roles
  BY <1>0 DEF Act
<1>3. act.resume # "IMPLEMENTED" => ~Active(act.role)
  BY <1>1, <1>2, RoleFacts DEF Waits, Grounds, UnitsByPhase, UnitsByLabel, ReviewerLabels
<1> QED
  BY <1>1, <1>2, <1>3 DEF Standing, ParkedIntact, Active

\* A reviewer that ran out of quota and was not replaced yet is parked again.
LEMMA RecoveryStands ==
  ASSUME Grounds, Truncated, Waits, DispatchRecovery, pc' = "review_wait"
  PROVE  Standing'
<1>0. UNCHANGED <<disk, unit>> /\ disk.wait.role \in ReviewRoles /\ ReviewReady /\ Recovering
  BY RoleFacts DEF DispatchRecovery
<1>1. disk.meta[disk.wait.role].recovery # disk.wait.recovery
  BY DEF DispatchRecovery, CallReview
<1>2. /\ disk.pack[disk.wait.role] = disk.wait.pack /\ disk.job[disk.wait.role] = disk.wait.job
      /\ disk.result[disk.wait.role] = disk.wait.result
      /\ disk.result[disk.wait.role].kind = "quota"
  BY <1>1 DEF DispatchRecovery
<1>3. disk.clone.head = disk.wait.head
  BY <1>0 DEF ReviewReady, Recovering, Valid
<1>4. ~Active(disk.wait.role)
  BY <1>0, <1>2 DEF Truncated, Simple
<1> QED
  BY <1>0, <1>2, <1>3, <1>4, RoleFacts DEF Standing, ParkedIntact, Active

LEMMA WaitsStep ==
  ASSUME Grounds, Truncated, Waits, Framed, Guided,
         \A r \in ReviewRoles : ReviewerKept(r) \/ ReviewerWrites(r)
  PROVE  Waits'
<1>0. TypeOK /\ disk \in Disk /\ act \in Act
  BY DEF Grounds, TypeOK
<1>1. disk'.wait.role \in ReviewRoles =>
        \/ disk'.wait.resume = "IMPLEMENTED"
        \/ disk'.wait.resume = "REVIEWING" /\ Exhausted(disk'.wait.result)
  <2>1. CASE QueueWait
    <3>1. /\ disk'.wait.role = act.role /\ disk'.wait.resume = act.resume /\ pc = "queue"
          /\ disk'.wait.result = disk.result[act.role]
      BY <1>0, <2>1 DEF QueueWait, Parked, NoWait, Disk
    <3> QED
      BY <3>1 DEF Waits
  <2>2. CASE ~QueueWait
    BY <2>2 DEF Framed, DiskFrames, Waits
  <2> QED
    BY <2>1, <2>2
<1>2. ASSUME pc' \in {"quota_mark", "queue"}, act'.role \in ReviewRoles
      PROVE  \/ act'.resume = "IMPLEMENTED"
             \/ /\ act'.resume = "REVIEWING" /\ Exhausted(disk'.result[act'.role])
                /\ unit'[act'.role] = NoJob
  <2>1. CASE UNCHANGED <<pc, act>>
    <3>1. CASE act.resume = "IMPLEMENTED"
      BY <2>1, <3>1
    <3>2. CASE act.resume # "IMPLEMENTED"
      <4>1. ReviewerKept(act.role)
        BY <1>2, <2>1, <3>2, ReviewerRests DEF Waits, Parking
      <4> QED
        BY <1>2, <2>1, <3>2, <4>1 DEF Waits, ReviewerKept, Active
    <3> QED
      BY <3>1, <3>2
  <2>2. CASE RetryReview
    <3>1. /\ act'.role = act.role /\ act'.resume = "REVIEWING" /\ ReviewFailed(act.role)
          /\ disk.result[act.role].kind = "quota" /\ UNCHANGED <<disk, unit>>
      BY <1>0, <1>2, <2>2 DEF RetryReview, Queue, CallReview, Return, Act
    <3> QED
      BY <3>1 DEF ReviewFailed, Exhausted, Active
  <2>3. CASE QuotaMark
    BY <1>2, <2>3 DEF QuotaMark, Goto, Waits, Active
  <2>4. CASE DispatchReview
    <3>1. Payload \in Act
      BY <1>0, PayloadType
    <3>2. pc' \in {"quota_mark", "queue"} =>
            act' = [Payload EXCEPT !.role = "reviewer", !.agent = item.provider,
                                   !.resume = "IMPLEMENTED"]
      BY <2>4 DEF DispatchReview, Queue, CallReview
    <3>3. ASSUME NEW a \in Act, NEW p
          PROVE  [a EXCEPT !.role = "reviewer", !.agent = p,
                           !.resume = "IMPLEMENTED"].resume = "IMPLEMENTED"
      BY DEF Act
    <3> QED
      BY <1>2, <3>1, <3>2, <3>3
  <2>5. CASE ReconcileQuota \/ DispatchStart
    <3>1. act'.role = "implementer"
      BY <1>0, <1>2, <2>5, PayloadType DEF ReconcileQuota, DispatchStart, Queue, Accept, Act
    <3> QED
      BY <1>2, <3>1, RoleFacts
  <2> QED
    BY <1>2, <2>1, <2>2, <2>3, <2>4, <2>5 DEF Guided, Came
<1>3. ASSUME item'.status = "WAITING_PROVIDER" \/ pc' \in {"queue_status", "review_wait"}
      PROVE  Standing'
  <2>1. CASE item.status = "WAITING_PROVIDER" \/ pc \in {"queue_status", "review_wait"}
    BY <2>1, StandingKept DEF Waits
  <2>2. CASE item.status # "WAITING_PROVIDER" /\ pc \notin {"queue_status", "review_wait"}
    <3>1. CASE pc' \in {"queue_status", "review_wait"}
      BY <2>2, <3>1, QueueStands, RecoveryStands DEF Guided, Came
    <3>2. CASE item'.status = "WAITING_PROVIDER"
      <4>1. StatusWriters /\ item'.status # item.status
        BY <2>2, <3>2 DEF Framed, ItemFrames, HumanHold, SetStatus, Grounds, TypeOK, Item
      <4>2. item'.status \in Written(pc) /\ act.status \in Found(pc, act.role, act.next)
        BY <1>0, <4>1, WritersWrite, Stands DEF Grounds
      <4>3. pc = "recover_resume" => disk.wait.resume \in Early
        BY DEF Grounds, Handoff, ByLabel, Resuming
      <4> QED
        BY <2>2, <3>2, <4>2, <4>3 DEF Written, Found, Early, Again, Held
    <3> QED
      BY <1>3, <3>1, <3>2
  <2> QED
    BY <2>1, <2>2
<1> QED
  BY <1>1, <1>2, <1>3 DEF Waits, Active

LEMMA WaitsHold == Spec => [](Truncated /\ Waits)
<1>1. ASSUME Grounds, TypeOK', Truncated, Waits, [Next]_vars PROVE Truncated' /\ Waits'
  <2>1. Framed /\ Guided /\ \A r \in ReviewRoles : ReviewerKept(r) \/ ReviewerWrites(r)
    BY <1>1, GroundsStep, ReviewerFrames DEF Grounds
  <2> QED
    BY <1>1, <2>1, TruncatedStep, WaitsStep
<1> QED
  BY <1>1, InitWaits, GroundsHold, TypeCorrect, PTL DEF Spec

\* Whatever the constants are, the files of an attempt that was parked with its
\* record are what the record says for as long as the item waits.
THEOREM ParkedStaysRecoverable == Spec => []ParkedIsRecoverable
<1>1. Waits => ParkedIsRecoverable
  BY RoleFacts DEF Waits, Standing, ParkedIsRecoverable, Roles, ReviewRoles
<1> QED
  BY <1>1, WaitsHold, PTL

(***************************************************************************)
(* Every worker run is paid for.  First: who changes a counter.            *)
(***************************************************************************)
Accounts ==
  /\ item'.retry = item.retry \/ RetryCount \/ RetryUncount \/ ResumeStart \/ IntegrateCount
  /\ disk'.budget = disk.budget \/ RetryBudget
  /\ ghost'.runs = ghost.runs \/ (SpawnUnit /\ act.role = "implementer")
  /\ env.grants <= env'.grants /\ env.quotas <= env'.quotas /\ gh.tip <= gh'.tip

LEMMA CounterTypes ==
  ASSUME TypeOK
  PROVE  /\ item \in Item /\ disk \in Disk /\ gh \in GitHub /\ env \in Env /\ ghost \in Ghost
         /\ item.retry \in Nat /\ disk.budget \in Nat /\ ghost.runs \in Nat
         /\ env.grants \in Nat /\ env.quotas \in Nat /\ gh.tip \in Nat /\ act.retry \in Nat
  BY DEF TypeOK, Item, Disk, Ghost, Env, GitHub, Act

LEMMA SameAccounts ==
  ASSUME TypeOK, item'.retry = item.retry, disk'.budget = disk.budget,
         ghost'.runs = ghost.runs, env'.grants = env.grants, env'.quotas = env.quotas,
         gh'.tip = gh.tip
  PROVE  Accounts
  BY CounterTypes DEF Accounts

LEMMA CooldownAccounts == TypeOK /\ (CooldownSteps \/ SpawnSteps) => Accounts
<1> SUFFICES ASSUME TypeOK, CooldownSteps \/ SpawnSteps PROVE Accounts
  OBVIOUS
<1>1. CASE CooldownSteps
  <2>1. UNCHANGED <<gh, env, ghost>> /\ item'.retry = item.retry /\ disk'.budget = disk.budget
    BY <1>1, CounterTypes
    DEF CooldownSteps, QuotaMark, QueueWait, QueueStatus, RecoverStart, RecoverSelect,
        RecoverField, RecoverResume, RecoverReview, RecoverReviewStatus, SetStatus, Explain,
        Item, Disk
  <2> QED
    BY <2>1, SameAccounts
<1>2. CASE SpawnTruncate \/ SpawnRefused \/ SpawnJob
  <2>1. /\ UNCHANGED <<item, gh, ghost>> /\ disk'.budget = disk.budget
        /\ env'.grants = env.grants /\ env'.quotas = env.quotas
    BY <1>2, CounterTypes DEF SpawnTruncate, SpawnRefused, SpawnJob, Disk, Env
  <2> QED
    BY <2>1, SameAccounts
<1>3. CASE SpawnUnit
  <2>1. UNCHANGED <<item, disk, gh, env>>
    BY <1>3 DEF SpawnUnit
  <2>2. act.role # "implementer" => ghost'.runs = ghost.runs
    BY <1>3, CounterTypes DEF SpawnUnit, Ghost
  <2> QED
    BY <1>3, <2>1, <2>2, CounterTypes DEF Accounts
<1> QED
  BY <1>1, <1>2, <1>3 DEF SpawnSteps

LEMMA ImplementationAccounts == TypeOK /\ ImplementationSteps => Accounts
<1> SUFFICES ASSUME TypeOK, ImplementationSteps PROVE Accounts
  OBVIOUS
<1>1. CASE RetryCount \/ RetryUncount
  BY <1>1, CounterTypes DEF RetryCount, RetryUncount, Accounts
<1>2. CASE ResumeStart
  BY <1>2, CounterTypes DEF ResumeStart, Accounts, Env
<1>3. CASE RetryBudget
  BY <1>3, CounterTypes DEF RetryBudget, Accounts
<1>4. CASE DispatchSteps
  <2>1. /\ UNCHANGED <<gh, ghost>> /\ item'.retry = item.retry /\ disk'.budget = disk.budget
        /\ env'.grants = env.grants /\ env'.quotas = env.quotas
    BY <1>4, CounterTypes
    DEF DispatchSteps, DispatchStart, DispatchClaim, DispatchStale, DispatchClone, DispatchMeta,
        DispatchPack, DispatchSpawn, DispatchDone, DispatchFails, UnwindFiles, UnwindStatus,
        SetStatus, Item, Disk, Env
  <2> QED
    BY <2>1, SameAccounts
<1>5. CASE LaunchSteps \/ ReconcileSteps \/ ResumeStatus
  <2>1. /\ UNCHANGED <<gh, env, ghost>> /\ item'.retry = item.retry
        /\ disk'.budget = disk.budget
    BY <1>5, CounterTypes
    DEF LaunchSteps, LaunchSpent, LaunchSettled, LaunchRestored, LaunchStatus, LaunchClosed,
        LaunchKept, ReconcileSteps, ReconcileStart, ImplementationStart, ReconcileAbandoned,
        ReconcileReady, ReconcileQuota, ReconcileFailure, ReconcileSuccess, ReconcileNothing,
        ResumeStatus, SetStatus, Explain, Item, Disk
  <2> QED
    BY <2>1, SameAccounts
<1>6. CASE RetrySteps /\ ~RetryCount /\ ~RetryUncount /\ ~RetryBudget
  <2>1. /\ UNCHANGED <<gh, ghost>> /\ item'.retry = item.retry /\ disk'.budget = disk.budget
        /\ env'.grants = env.grants /\ env'.quotas = env.quotas
    BY <1>6, CounterTypes
    DEF RetrySteps, RetryStart, ImplementationStart, RetryLimit, RetryPrepare, RetryRefused,
        RetryTx, RetryPack, RetryUnlinkJob, RetryUnlinkResult, RetryStatus, RetryGuard,
        RetryGuardFails, RetryRestore, RetryUnstatus, RetrySpent, RetryClose, SetStatus,
        Explain, Item, Disk, Env
  <2> QED
    BY <2>1, SameAccounts
<1> QED
  BY <1>1, <1>2, <1>3, <1>4, <1>5, <1>6 DEF ImplementationSteps

LEMMA ReviewAccounts == TypeOK /\ ReviewSteps => Accounts
<1> SUFFICES ASSUME TypeOK, ReviewSteps PROVE Accounts
  OBVIOUS
<1>1. CASE PublishSteps \/ ConsumeSteps
  <2>1. /\ UNCHANGED <<disk, env, ghost>> /\ item'.retry = item.retry /\ gh'.tip = gh.tip
    BY <1>1, CounterTypes
    DEF PublishSteps, PublishStart, PublishHold, PublishPush, PublishPr, ConsumeSteps,
        ConsumeStart, ConsumeVerdict, ConsumeStatus, RetryReview, ReviewNote, ConsumeNothing,
        SetStatus, Explain, Item, GitHub
  <2> QED
    BY <2>1, SameAccounts
<1>2. CASE SpawnReviewSteps \/ DispatchReviewSteps
  <2>1. UNCHANGED <<gh, env, ghost>> /\ item'.retry = item.retry /\ disk'.budget = disk.budget
    BY <1>2, CounterTypes
    DEF SpawnReviewSteps, ReviewCheck, ReviewMeta, ReviewPack, ReviewUnlinkResult,
        ReviewUnlinkJob, DispatchReviewSteps, DispatchReview, DispatchSecurity,
        DispatchRecovery, ReviewWait, ReviewStatus, ReviewSpent, SetStatus, Item, Disk
  <2> QED
    BY <2>1, SameAccounts
<1>3. CASE OperatorReviewing \/ RecordHost \/ RecordReport
  <2>1. UNCHANGED <<gh, env, ghost>> /\ item'.retry = item.retry /\ disk'.budget = disk.budget
    BY <1>3, CounterTypes
    DEF OperatorReviewing, RecordHost, RecordReport, SetStatus, Item, Disk
  <2> QED
    BY <2>1, SameAccounts
<1>4. ASSUME OperatorStart, disk'.budget = disk.budget, UNCHANGED <<gh, ghost>> PROVE Accounts
  BY <1>4, CounterTypes DEF OperatorStart, Accounts, Item, Env
<1>5. ASSUME NEW r \in RequiredRoles, ResumeReview(r) PROVE Accounts
  <2>1. disk'.budget = disk.budget
    BY <1>5, CounterTypes DEF ResumeReview, Disk
  <2> QED
    BY <1>4, <1>5, <2>1 DEF ResumeReview
<1>6. CASE ReconcileWaitingResult
  BY <1>4, <1>6 DEF ReconcileWaitingResult
<1> QED
  BY <1>1, <1>2, <1>3, <1>5, <1>6 DEF ReviewSteps, OperatorSteps

LEMMA MergeGateAccounts == TypeOK /\ MergeGateSteps => Accounts
<1> SUFFICES ASSUME TypeOK, MergeGateSteps PROVE Accounts
  OBVIOUS
<1>1. CASE IntegrateCount
  BY <1>1, CounterTypes DEF IntegrateCount, Accounts
<1>2. CASE MergeCall
  <2>1. PICK c \in BOOLEAN : gh' = [gh EXCEPT !.pr = "merged", !.closed = c]
    BY <1>2 DEF MergeCall
  <2>2. UNCHANGED <<item, disk, env>> /\ gh'.tip = gh.tip /\ ghost'.runs = ghost.runs
    BY <1>2, <2>1, CounterTypes DEF MergeCall, GitHub, Ghost
  <2> QED
    BY <2>2, SameAccounts
<1>3. CASE AdvanceStart \/ AdvanceStatus \/ (IntegrateSteps /\ ~IntegrateCount)
  <2>1. UNCHANGED <<gh, env, ghost>> /\ item'.retry = item.retry /\ disk'.budget = disk.budget
    BY <1>3, CounterTypes
    DEF AdvanceStart, AdvanceStatus, IntegrateSteps, IntegrateStart, IntegrateInspect,
        IntegrateTarget, IntegrateMerge, IntegrateBase, IntegrateStatus, IntegrateClose,
        SetStatus, Explain, Item, Disk
  <2> QED
    BY <2>1, SameAccounts
<1>4. CASE (MergeSteps /\ ~MergeCall) \/ FinalizeSteps
  <2>1. /\ ghost' = ghost /\ gh'.tip = gh.tip /\ item'.retry = item.retry
        /\ disk'.budget = disk.budget /\ env'.grants = env.grants /\ env'.quotas = env.quotas
    BY <1>4, CounterTypes
    DEF MergeSteps, MergeStart, MergeStatus, MergeRefused, MergeReverts, MergeAmbiguous,
        FinalizeSteps, FinalizeStart, FinalizeComment, FinalizeClose, FinalizeStatus,
        FinalizeClone, FinalizeFiles, SetStatus, Explain, Item, Disk, GitHub, Env
  <2> QED
    BY <2>1, SameAccounts
<1> QED
  BY <1>1, <1>2, <1>3, <1>4 DEF MergeGateSteps

LEMMA AroundAccounts ==
  TypeOK /\ (\/ BrokerStops \/ BrokerRaises \/ WorkerSteps \/ CooldownEnvironment
             \/ ReviewEnvironment \/ GitHubSteps \/ UNCHANGED vars)
    => Accounts
<1> SUFFICES ASSUME TypeOK,
                    \/ BrokerStops \/ BrokerRaises \/ WorkerSteps \/ CooldownEnvironment
                    \/ ReviewEnvironment \/ GitHubSteps \/ UNCHANGED vars
             PROVE  Accounts
  OBVIOUS
<1>1. CASE WorkerSteps
  <2>1. ASSUME NEW r \in Roles, WorkerQuota(r) PROVE Accounts
    BY <2>1, CounterTypes DEF WorkerQuota, UnitEnds, Accounts, Disk, Env
  <2>2. CASE \A r \in Roles : ~WorkerQuota(r)
    <3>1. /\ UNCHANGED <<item, gh>> /\ disk'.budget = disk.budget /\ ghost'.runs = ghost.runs
          /\ env'.grants = env.grants /\ env'.quotas = env.quotas
      BY <1>1, <2>2, CounterTypes
      DEF WorkerSteps, WorkerCommits, ImplementerSucceeds, ImplementerMisreports,
          ReviewerDecides, WorkerFails, UnitKilled, UnitEnds, Disk, Env, Ghost
    <3> QED
      BY <3>1, SameAccounts
  <2> QED
    BY <2>1, <2>2
<1>2. CASE BaseAdvances
  <2>1. PICK c \in BOOLEAN : gh' = [gh EXCEPT !.tip = @ + 1, !.conflict = c]
    BY <1>2, CounterTypes DEF BaseAdvances, GitHub
  <2>2. UNCHANGED <<item, disk, env, ghost>> /\ gh'.tip = gh.tip + 1
    BY <1>2, <2>1, CounterTypes DEF BaseAdvances, GitHub
  <2> QED
    BY <2>2, CounterTypes DEF Accounts
<1>3. CASE BrokerStops \/ BrokerRaises \/ CooldownEnvironment \/ UNCHANGED vars
  <2>1. /\ UNCHANGED <<item, disk, gh, ghost>>
        /\ env'.grants = env.grants /\ env'.quotas = env.quotas
    BY <1>3, CounterTypes
    DEF BrokerStops, BrokerRaises, CooldownEnvironment, OtherIssueQuota, CooldownEnds, vars, Env
  <2> QED
    BY <2>1, SameAccounts
<1>4. CASE ReviewEnvironment
  <2>1. /\ UNCHANGED <<item, gh>> /\ disk'.budget = disk.budget /\ ghost'.runs = ghost.runs
        /\ env'.grants = env.grants /\ env'.quotas = env.quotas
    BY <1>4, CounterTypes DEF ReviewEnvironment, ProtocolFix, Disk, Env, Ghost
  <2> QED
    BY <2>1, SameAccounts
<1>5. CASE HumanPush \/ CiReports \/ HumanHold
  <2>1. /\ UNCHANGED <<disk, ghost>> /\ item'.retry = item.retry /\ gh'.tip = gh.tip
        /\ env'.grants = env.grants /\ env'.quotas = env.quotas
    BY <1>5, CounterTypes DEF HumanPush, CiReports, HumanHold, SetStatus, Item, GitHub, Env
  <2> QED
    BY <2>1, SameAccounts
<1> QED
  BY <1>1, <1>2, <1>3, <1>4, <1>5 DEF GitHubSteps

LEMMA AccountsHold == TypeOK /\ [Next]_vars => Accounts
  BY CooldownAccounts, ImplementationAccounts, ReviewAccounts, MergeGateAccounts, AroundAccounts
  DEF Next

(***************************************************************************)
(* Where a handler comes from at the labels that matter here.              *)
(***************************************************************************)
\* A retry up to its count, and between its count and its spawn-agent.
Uncharged ==
  {"recover_launch", "launch_settled", "retry", "retry_tx", "retry_pack", "retry_unlink_job",
   "retry_unlink_result", "retry_count"}
Counted == {"retry_status", "retry_guard", "retry_restore", "retry_uncount"}
Finishing == {"final_clone", "final_files"}
Integrating == {"int_merge", "int_base", "int_count"}
Granted == {"operator_status", "operator_reviewing"}
Guarded == Uncharged \cup Counted \cup Finishing \cup Integrating
             \cup {"retry_budget", "int_target", "int_resume", "int_status"} \cup Granted

Routed ==
  /\ pc' \in Uncharged =>
       \/ pc = "idle" /\ act'.retry = item.retry
       \/ pc \in Uncharged /\ act'.retry = act.retry
  /\ pc' \in Counted =>
       act' = act /\ (pc \in Counted \/ RetryCount)
  /\ pc' = "retry_budget" => RetryGuard
  /\ pc' \in Finishing => FinalizeStatus \/ FinalizeClone
  /\ pc' = "int_target" => IntegrateStart
  /\ pc' = "int_resume" => IntegrateStart
  /\ pc' = "int_merge" => IntegrateTarget
  /\ pc' = "int_base" => IntegrateMerge
  /\ pc' = "int_count" => IntegrateBase
  /\ pc' = "int_status" => IntegrateCount
  /\ pc' \in Granted => env'.grants = env.grants + 1

LEMMA UnguardedRouted == pc' \notin Guarded => Routed
  BY DEF Guarded, Routed, Integrating

LEMMA CooldownRouted == UnitsByPhase /\ (CooldownSteps \/ SpawnSteps) => Routed
<1> SUFFICES ASSUME UnitsByPhase, CooldownSteps \/ SpawnSteps PROVE Routed
  OBVIOUS
<1>1. pc' \notin Guarded
  <2>1. CASE CooldownSteps
    BY <2>1
    DEF CooldownSteps, QuotaMark, QueueWait, QueueStatus, RecoverStart, RecoverSelect,
        RecoverField, RecoverResume, RecoverReview, RecoverReviewStatus, Goto, Return, Guarded,
        Uncharged, Counted, Finishing, Integrating, Granted
  <2>2. CASE SpawnSteps
    BY <2>2
    DEF SpawnSteps, SpawnTruncate, SpawnRefused, SpawnJob, SpawnUnit, Goto, Return, Resume,
        UnitsByPhase, CallsByLabel, SpawnLabels, Guarded, Uncharged, Counted, Finishing,
        Integrating, Granted
  <2> QED
    BY <2>1, <2>2
<1> QED
  BY <1>1, UnguardedRouted

LEMMA StartRouted ==
  ASSUME NEW statuses, NEW l \in {"reconcile", "retry"}, ImplementationStart(statuses, l)
  PROVE  Routed
<1>1. pc = "idle" /\ act'.retry = item.retry /\ pc' \in {"recover_launch", "reconcile", "retry"}
  BY DEF ImplementationStart, Payload
<1> QED
  BY <1>1 DEF Routed, Uncharged, Counted, Finishing, Granted

LEMMA ImplementationRouted == TypeOK /\ UnitsByPhase /\ ImplementationSteps => Routed
<1> SUFFICES ASSUME TypeOK, UnitsByPhase, ImplementationSteps PROVE Routed
  OBVIOUS
<1>1. CASE DispatchSteps \/ ResumeStatus
  <2>1. pc' \notin Guarded
    BY <1>1
    DEF DispatchSteps, DispatchStart, DispatchClaim, DispatchStale, DispatchClone, DispatchMeta,
        DispatchPack, DispatchSpawn, DispatchDone, DispatchFails, UnwindFiles, UnwindStatus,
        ResumeStatus, Goto, Return, Accept, Queue, SpawnAgent, Guarded, Uncharged, Counted,
        Finishing, Integrating, Granted
  <2> QED
    BY <2>1, UnguardedRouted
<1>2. CASE LaunchSteps
  <2>1. CASE LaunchSpent
    BY <2>1 DEF LaunchSpent, Goto, Routed, Uncharged, Counted, Finishing, Granted
  <2>2. CASE LaunchSettled
    BY <2>2
    DEF LaunchSettled, Goto, UnitsByPhase, CallsByLabel, Routed, Uncharged, Counted, Finishing,
        Granted
  <2>3. CASE LaunchRestored \/ LaunchStatus \/ LaunchClosed \/ LaunchKept
    <3>1. pc' \notin Guarded
      BY <2>3
      DEF LaunchRestored, LaunchStatus, LaunchClosed, LaunchKept, Goto, Return, Guarded,
          Uncharged, Counted, Finishing, Integrating, Granted
    <3> QED
      BY <3>1, UnguardedRouted
  <2> QED
    BY <1>2, <2>1, <2>2, <2>3 DEF LaunchSteps
<1>3. CASE ReconcileSteps
  <2>1. CASE ReconcileStart
    BY <2>1, StartRouted DEF ReconcileStart
  <2>2. CASE ~ReconcileStart
    <3>1. pc' \notin Guarded
      BY <1>3, <2>2
      DEF ReconcileSteps, ReconcileAbandoned, ReconcileReady, ReconcileQuota, ReconcileFailure,
          ReconcileSuccess, ReconcileNothing, Goto, Return, Queue, Guarded, Uncharged, Counted,
          Finishing, Integrating, Granted
    <3> QED
      BY <3>1, UnguardedRouted
  <2> QED
    BY <2>1, <2>2
<1>4. CASE RetrySteps
  <2>0. act \in Act
    BY DEF TypeOK
  <2>1. CASE RetryStart
    BY <2>1, StartRouted DEF RetryStart
  <2>2. CASE RetryPrepare
    <3>1. pc = "retry" /\ pc' \in {"retry_tx", "retry_pack"} /\ act'.retry = act.retry
      BY <2>0, <2>2 DEF RetryPrepare, Act
    <3> QED
      BY <3>1 DEF Routed, Uncharged, Counted, Finishing, Granted
  <2>3. CASE RetryTx \/ RetryPack \/ RetryUnlinkJob \/ RetryUnlinkResult
    BY <2>3
    DEF RetryTx, RetryPack, RetryUnlinkJob, RetryUnlinkResult, Goto, Routed, Uncharged, Counted,
        Finishing, Granted
  <2>4. CASE RetryCount \/ RetryStatus \/ RetryGuardFails
    BY <2>4
    DEF RetryCount, RetryStatus, RetryGuardFails, Goto, Routed, Uncharged, Counted, Finishing,
        Granted
  <2>5. CASE RetryGuard
    BY <2>5 DEF RetryGuard, Goto, SpawnAgent, Routed, Uncharged, Counted, Finishing, Granted
  <2>6. CASE RetryRestore
    BY <2>6 DEF RetryRestore, Goto, Return, Routed, Uncharged, Counted, Finishing, Granted
  <2>7. CASE \/ RetryLimit \/ RetryRefused \/ RetryUncount \/ RetryUnstatus \/ RetryBudget
             \/ RetrySpent \/ RetryClose
    <3>1. pc' \notin Guarded
      BY <2>7
      DEF RetryLimit, RetryRefused, RetryUncount, RetryUnstatus, RetryBudget, RetrySpent,
          RetryClose, Goto, Return, SpawnAgent, Guarded, Uncharged, Counted, Finishing,
          Integrating, Granted
    <3> QED
      BY <3>1, UnguardedRouted
  <2> QED
    BY <1>4, <2>1, <2>2, <2>3, <2>4, <2>5, <2>6, <2>7 DEF RetrySteps
<1>5. CASE ResumeStart
  <2>1. pc' = "operator_status" /\ env'.grants = env.grants + 1
    BY <1>5 DEF ResumeStart, Accept, TypeOK, Env
  <2> QED
    BY <2>1 DEF Routed, Uncharged, Counted, Finishing
<1> QED
  BY <1>1, <1>2, <1>3, <1>4, <1>5 DEF ImplementationSteps

LEMMA ReviewRouted == TypeOK /\ UnitsByPhase /\ ReviewSteps => Routed
<1> SUFFICES ASSUME TypeOK, UnitsByPhase, ReviewSteps PROVE Routed
  OBVIOUS
<1>1. ASSUME ~OperatorStart PROVE pc' \notin Guarded
  <2>1. CASE PublishSteps
    BY <2>1
    DEF PublishSteps, PublishStart, PublishHold, PublishPush, PublishPr, Goto, Return, Accept,
        Guarded, Uncharged, Counted, Finishing, Integrating, Granted
  <2>2. CASE SpawnReviewSteps
    BY <2>2
    DEF SpawnReviewSteps, ReviewCheck, ReviewMeta, ReviewPack, ReviewUnlinkResult,
        ReviewUnlinkJob, Goto, Return, Resume, SpawnAgent, UnitsByPhase, CallsByLabel,
        SpawnReviewLabels, Guarded, Uncharged, Counted, Finishing, Integrating, Granted
  <2>3. CASE DispatchReviewSteps
    BY <2>3
    DEF DispatchReviewSteps, DispatchReview, DispatchSecurity, DispatchRecovery, ReviewWait,
        ReviewStatus, ReviewSpent, CallReview, Queue, Goto, Return, Accept, Guarded, Uncharged,
        Counted, Finishing, Integrating, Granted
  <2>4. CASE ConsumeSteps
    BY <2>4
    DEF ConsumeSteps, ConsumeStart, ConsumeVerdict, ConsumeStatus, RetryReview, ReviewNote,
        ConsumeNothing, CallReview, Queue, Goto, Return, Guarded, Uncharged, Counted, Finishing,
        Integrating, Granted
  <2>5. CASE OperatorReviewing \/ RecordHost \/ RecordReport
    BY <2>5
    DEF OperatorReviewing, RecordHost, RecordReport, Return, Accept, Guarded, Uncharged, Counted,
        Finishing, Integrating, Granted
  <2> QED
    BY <1>1, <2>1, <2>2, <2>3, <2>4, <2>5
    DEF ReviewSteps, OperatorSteps, ResumeReview, ReconcileWaitingResult
<1>2. CASE OperatorStart
  <2>1. pc' = "operator_reviewing" /\ env'.grants = env.grants + 1
    BY <1>2 DEF OperatorStart, Accept, TypeOK, Env
  <2> QED
    BY <2>1 DEF Routed, Uncharged, Counted, Finishing
<1> QED
  BY <1>1, <1>2, UnguardedRouted

LEMMA MergeGateRouted == MergeGateSteps => Routed
<1> SUFFICES ASSUME MergeGateSteps PROVE Routed
  OBVIOUS
<1>1. CASE \/ IntegrateStart \/ IntegrateTarget \/ IntegrateMerge \/ IntegrateBase
           \/ IntegrateCount
  <2>1. /\ IntegrateStart => pc' \in {"int_inspect", "int_resume", "int_target"}
        /\ IntegrateTarget => pc' = "int_merge"
        /\ IntegrateMerge => pc' = "int_base"
        /\ IntegrateBase => pc' = "int_count"
        /\ IntegrateCount => pc' = "int_status"
    BY DEF IntegrateStart, IntegrateTarget, IntegrateMerge, IntegrateBase, IntegrateCount,
           Accept, Goto
  <2> QED
    BY <1>1, <2>1 DEF Routed, Uncharged, Counted, Finishing, Granted
<1>2. CASE FinalizeStatus \/ FinalizeClone
  <2>1. pc' \in Finishing
    BY <1>2 DEF FinalizeStatus, FinalizeClone, Goto, Finishing
  <2> QED
    BY <1>2, <2>1 DEF Routed, Uncharged, Counted, Finishing, Granted
<1>3. CASE \/ AdvanceStart \/ AdvanceStatus \/ IntegrateInspect \/ IntegrateStatus
           \/ IntegrateClose \/ MergeSteps \/ FinalizeStart
           \/ FinalizeComment \/ FinalizeClose \/ FinalizeFiles
  <2>1. pc' \notin Guarded
    BY <1>3
    DEF AdvanceStart, AdvanceStatus, IntegrateInspect, IntegrateStatus, IntegrateClose,
        MergeSteps, MergeStart, MergeStatus, MergeCall, MergeRefused, MergeReverts,
        MergeAmbiguous, FinalizeStart, FinalizeComment, FinalizeClose, FinalizeFiles, Goto,
        Return, Accept, Guarded, Uncharged, Counted, Finishing, Integrating, Granted
  <2> QED
    BY <2>1, UnguardedRouted
<1> QED
  BY <1>1, <1>2, <1>3 DEF MergeGateSteps, IntegrateSteps, FinalizeSteps

LEMMA RoutedOrWaits == TypeOK /\ UnitsByPhase /\ [Next]_vars => UNCHANGED <<pc, act>> \/ Routed
<1> SUFFICES ASSUME TypeOK, UnitsByPhase, [Next]_vars PROVE UNCHANGED <<pc, act>> \/ Routed
  OBVIOUS
<1>1. CASE \/ WorkerSteps \/ CooldownEnvironment \/ ReviewEnvironment \/ GitHubSteps
           \/ UNCHANGED vars
  BY <1>1, EnvironmentMoves
<1>2. CASE BrokerStops \/ BrokerRaises
  <2>1. pc' = "idle"
    BY <1>2 DEF BrokerStops, BrokerRaises, Return
  <2> QED
    BY <2>1 DEF Routed, Uncharged, Counted, Finishing, Granted
<1> QED
  BY <1>1, <1>2, CooldownRouted, ImplementationRouted, ReviewRouted, MergeGateRouted DEF Next

(***************************************************************************)
(* What the budget rests on: the counts a retry goes by, the numbers of    *)
(* the launches, the call of spawn-agent and the prepared integration.     *)
(***************************************************************************)
Launching == pc \in SpawnLabels /\ act.role = "implementer"

Counting ==
  /\ pc \in Uncharged => item.retry = act.retry
  /\ pc \in Counted \cup {"retry_budget"} => item.retry = NextRetry
  /\ pc \in RetryLabels /\ ~act.quota => Attempts < MaxRetries
  /\ pc = "retry_budget" => Correction

\* No worker runs while one is being launched, and its result is truncated.
Alone ==
  /\ Launching => ~Active("implementer")
  /\ Launching /\ pc # "spawn" => Impl = Simple("empty")

Numbered ==
  /\ \A r \in Roles : disk.job[r].id <= env.launches
  /\ disk.wait.job.id <= env.launches /\ disk.tx.job.id <= env.launches
  /\ act.saved.job.id <= env.launches
  /\ Launching /\ pc = "spawn_unit" => disk.wait.job.id < env.launches

Finished == pc \in Finishing => item.status = "DONE"

\* An integration has a target that is a base of its own, and starts at HEAD.
Dated ==
  /\ disk.clone.based <= gh.tip /\ disk.cmeta.target <= gh.tip
  /\ pc = "int_target" => gh.tip > 0
  /\ disk.cmeta.target = 0 => disk.cmeta.parent = 0

Prepared ==
  /\ pc \in {"int_resume"} \cup Integrating =>
       disk.cmeta.parent # 0 /\ disk.clone.head = disk.cmeta.parent
  /\ pc \in {"int_base", "int_count"} => disk.clone.merging
  /\ pc = "int_target" => disk.clone.head = Impl.commit
  /\ disk.cmeta.pending => disk.cmeta.parent # 0
  /\ disk.cmeta.parent # 0 /\ disk.clone.there => disk.cmeta.parent <= disk.clone.head

Ledger == Counting /\ Alone /\ Numbered /\ Finished /\ Dated /\ Prepared

\* A step that is counted and routed.
Tallied == Accounts /\ (UNCHANGED <<pc, act>> \/ Routed)

LEMMA InitLedger == Init => Ledger
<1> SUFFICES ASSUME Init PROVE Ledger
  OBVIOUS
<1>1. /\ pc = "idle" /\ disk.clone = NoClone /\ disk.cmeta = NoCloneMeta /\ gh.tip = 0
      /\ disk.wait = NoWait /\ disk.tx = NoTx /\ act = NoAct /\ env.launches = 0
      /\ \A r \in Roles : disk.job[r] = NoJob
  BY DEF Init
<1> QED
  BY <1>1
  DEF Ledger, Counting, Uncharged, Counted, RetryLabels, Alone, Launching, SpawnLabels, Numbered,
      Finished, Finishing, Dated, Prepared, Integrating, NoClone, NoCloneMeta, NoWait, NoTx,
      NoAct, NoJob

\* While the handler waits, only a worker touches the implementer's files.
LEMMA FilesWait ==
  ASSUME Framed, pc' = pc
  PROVE  /\ disk'.cmeta = disk.cmeta
         /\ disk'.job["implementer"] = disk.job["implementer"]
         /\ disk'.wait.job = disk.wait.job
         /\ ~ImplementerWorks => disk'.clone = disk.clone /\ Impl' = Impl
  BY DEF Framed, DiskFrames, BindingWriters, JobWriters, CloneWriters, ResultWriters, DispatchMeta,
         UnwindFiles, IntegrateTarget, IntegrateBase, IntegrateClose, RecordHost, FinalizeFiles,
         SpawnJob, SpawnTruncate, LaunchRestored, RetryUnlinkJob, RetryUnlinkResult,
         RetryRestore, QueueWait, DispatchClone, ReconcileAbandoned, IntegrateMerge,
         FinalizeClone, Goto, Return, Accept, Impl

LEMMA LaunchesMove ==
  ASSUME TypeOK, Framed
  PROVE  /\ env.launches \in Nat /\ env.launches <= env'.launches
         /\ SpawnJob => env'.launches = env.launches + 1
         /\ ~SpawnJob => env'.launches = env.launches
  BY RunTypes DEF Framed, ItemFrames, SpawnJob, TypeOK, Env

LEMMA CountingStep ==
  ASSUME Grounds, Ledger, Framed, Guided, Tallied
  PROVE  Counting'
<1>0. /\ item \in Item /\ act \in Act /\ disk \in Disk /\ act.retry \in Nat /\ item.retry \in Nat
      /\ disk.budget \in Nat
  BY CounterTypes DEF Grounds, TypeOK
<1>1. CASE UNCHANGED <<pc, act>>
  <2>1. /\ ~RetryCount /\ ~RetryUncount /\ ~ResumeStart /\ ~IntegrateCount /\ ~RetryBudget
    BY <1>1 DEF RetryCount, RetryUncount, ResumeStart, IntegrateCount, RetryBudget, Goto, Accept,
                SpawnAgent
  <2>2. item'.retry = item.retry /\ disk'.budget = disk.budget
    BY <2>1 DEF Tallied, Accounts
  <2> QED
    BY <1>1, <2>2 DEF Ledger, Counting, NextRetry, Attempts, Correction
<1>2. CASE Routed /\ ~UNCHANGED <<pc, act>>
  <2>1. pc' \in Uncharged => item'.retry = act'.retry
    <3> SUFFICES ASSUME pc' \in Uncharged PROVE item'.retry = act'.retry
      OBVIOUS
    <3>1. ~RetryCount /\ ~RetryUncount /\ ~ResumeStart /\ ~IntegrateCount
      BY DEF RetryCount, RetryUncount, ResumeStart, IntegrateCount, Goto, Accept, Uncharged
    <3>2. item'.retry = item.retry
      BY <3>1 DEF Tallied, Accounts
    <3> QED
      BY <1>2, <3>2 DEF Routed, Ledger, Counting
  <2>2. pc' \in Counted \cup {"retry_budget"} => item'.retry = NextRetry'
    <3> SUFFICES ASSUME pc' \in Counted \cup {"retry_budget"} PROVE item'.retry = NextRetry'
      OBVIOUS
    <3>1. CASE RetryCount
      BY <1>0, <3>1 DEF RetryCount, Goto, NextRetry, Item
    <3>2. CASE RetryGuard
      <4>1. item' = item /\ act' = act /\ pc = "retry_guard"
        BY <3>2 DEF RetryGuard, Goto, SpawnAgent, Counted
      <4> QED
        BY <4>1 DEF Ledger, Counting, Counted, NextRetry
    <3>3. CASE pc \in Counted /\ act' = act
      <4>1. ~RetryCount /\ ~RetryUncount /\ ~ResumeStart /\ ~IntegrateCount
        BY <3>3
        DEF RetryCount, RetryUncount, ResumeStart, IntegrateCount, Goto, Counted
      <4> QED
        BY <3>3, <4>1 DEF Tallied, Accounts, Ledger, Counting, NextRetry
    <3> QED
      BY <1>2, <3>1, <3>2, <3>3 DEF Routed
  <2>3. pc' \in RetryLabels /\ ~act'.quota => Attempts' < MaxRetries
    <3> SUFFICES ASSUME pc' \in RetryLabels, ~act'.quota PROVE Attempts' < MaxRetries
      OBVIOUS
    <3>1. CASE RetryPrepare
      <4>1. /\ act'.status = act.status /\ act'.retry = act.retry /\ disk' = disk
            /\ act'.quota = QuotaRetry /\ RetryAllowed
        BY <1>0, <3>1 DEF RetryPrepare, Act
      <4> QED
        BY <4>1 DEF RetryAllowed, Attempts, Correction
    <3>2. CASE pc \in RetryLabels /\ act' = act
      <4>1. disk'.budget = disk.budget
        BY <3>2 DEF RetryBudget, SpawnAgent, RetryLabels, Tallied, Accounts
      <4> QED
        BY <3>2, <4>1 DEF Ledger, Counting, Attempts, Correction
    <3> QED
      BY <1>2, <3>1, <3>2 DEF Guided, Came
  <2>4. pc' = "retry_budget" => Correction'
    BY <1>2 DEF Routed, RetryGuard, Goto, SpawnAgent, Correction
  <2> QED
    BY <2>1, <2>2, <2>3, <2>4 DEF Counting
<1> QED
  BY <1>1, <1>2 DEF Tallied

LEMMA AloneStep ==
  ASSUME Grounds, Ledger, Framed, Guided
  PROVE  Alone'
<1>0. act \in Act /\ disk \in Disk /\ unit \in [Roles -> Job]
  BY DEF Grounds, TypeOK
<1> SUFFICES ASSUME Launching'
             PROVE  ~Active("implementer")' /\ (pc' # "spawn" => Impl' = Simple("empty"))
  BY DEF Alone
<1>1. CASE UNCHANGED <<pc, act>>
  <2>1. Launching /\ ~Active("implementer")
    BY <1>1 DEF Launching, Ledger, Alone
  <2>2. ~SpawnUnit
    BY <1>1, <2>1
    DEF SpawnUnit, Resume, Launching, SpawnLabels, Grounds, UnitsByPhase, CallsByLabel
  <2>3. Impl' = Impl
    BY <1>1, <2>1, FilesWait DEF ImplementerWorks
  <2> QED
    BY <1>1, <2>1, <2>2, <2>3 DEF Framed, ItemFrames, Active, Ledger, Alone
<1>2. CASE DispatchSpawn \/ RetryGuard \/ RetryBudget
  <2>1. pc' \in SpawnLabels => pc' = "spawn"
    BY <1>2 DEF DispatchSpawn, RetryGuard, RetryBudget, Goto, SpawnAgent, SpawnLabels
  <2>2. ~Active("implementer") /\ unit' = unit
    BY <1>2, RoleFacts
    DEF DispatchSpawn, RetryGuard, RetryBudget, Grounds, UnitsByPhase, UnitsByLabel, QuietLabels,
        NoUnitActive
  <2> QED
    BY <2>1, <2>2 DEF Launching, Active
<1>3. CASE ReviewMeta
  <2>1. act'.role = act.role /\ act.role # "implementer"
    BY <1>0, <1>3, RoleFacts
    DEF ReviewMeta, Goto, SpawnAgent, Act, Grounds, UnitsByPhase, CallsByLabel, SpawnReviewLabels
  <2> QED
    BY <2>1 DEF Launching
<1>4. CASE SpawnTruncate \/ SpawnJob
  <2>1. Launching /\ unit' = unit
    BY <1>4 DEF SpawnTruncate, SpawnJob, Goto, Launching, SpawnLabels
  <2>2. SpawnTruncate => Impl' = Simple("empty")
    <3>1. act.role = "implementer" /\ disk.result \in [Roles -> Result]
      BY <1>0, <2>1 DEF Launching, Disk
    <3> QED
      BY <1>0, <3>1, RoleFacts DEF SpawnTruncate, Impl, Disk
  <2>3. SpawnJob => Impl' = Impl /\ pc # "spawn"
    BY <1>0 DEF SpawnJob, Impl, Disk
  <2> QED
    BY <1>4, <2>1, <2>2, <2>3 DEF Ledger, Alone, Active
<1> QED
  BY <1>1, <1>2, <1>3, <1>4 DEF Guided, Came, Launching, SpawnLabels

\* The implementer's job record is a new one or an earlier one.
LEMMA JobMoves ==
  ASSUME TypeOK, Framed
  PROVE  \/ disk'.job["implementer"] \in {disk.job["implementer"], NoJob}
         \/ LaunchRestored /\ disk'.job["implementer"] = disk.tx.job
         \/ RetryRestore /\ disk'.job["implementer"] = act.saved.job
         \/ SpawnJob /\ disk'.job["implementer"].id = env.launches + 1
<1>0. disk \in Disk /\ disk.job \in [Roles -> Job]
  BY DiskTypes
<1>1. CASE SpawnJob /\ act.role = "implementer"
  BY <1>0, <1>1, RoleFacts DEF SpawnJob, Disk
<1>2. CASE LaunchRestored
  BY <1>0, <1>2, RoleFacts DEF LaunchRestored, Disk
<1>3. CASE RetryRestore
  BY <1>0, <1>3, RoleFacts DEF RetryRestore, Disk
<1>4. CASE RetryUnlinkJob
  BY <1>0, <1>4, RoleFacts DEF RetryUnlinkJob, Disk
<1>5. CASE FinalizeFiles
  <2>1. disk'.job = [r \in Roles |-> NoJob]
    BY <1>0, <1>5 DEF FinalizeFiles, Disk
  <2> QED
    BY <2>1, RoleFacts
<1> QED
  BY <1>1, <1>2, <1>3, <1>4, <1>5 DEF Framed, DiskFrames, JobWriters

\* A reviewer's job record is a new one or none.
LEMMA ReviewJobMoves ==
  ASSUME TypeOK, NEW r \in ReviewRoles, ReviewerKept(r) \/ ReviewerWrites(r)
  PROVE  \/ disk'.job[r] = disk.job[r]
         \/ ((ReviewUnlinkJob /\ act.role = r) \/ FinalizeFiles) /\ disk'.job[r] = NoJob
         \/ SpawnJob /\ act.role = r /\ disk'.job[r].id = env.launches + 1
<1>0. disk \in Disk /\ disk.job \in [Roles -> Job] /\ r \in Roles
  BY DiskTypes, RoleFacts
<1>1. CASE act.role = r /\ SpawnJob
  BY <1>0, <1>1 DEF SpawnJob, Disk
<1>2. CASE act.role = r /\ (ReviewPack \/ ReviewUnlinkResult \/ ReviewUnlinkJob)
  BY <1>0, <1>2 DEF ReviewPack, ReviewUnlinkResult, ReviewUnlinkJob, Disk
<1>3. CASE SpawnTruncate \/ SpawnRefused \/ SpawnUnit
  BY <1>0, <1>3 DEF SpawnTruncate, SpawnRefused, SpawnUnit, Disk
<1>4. CASE FinalizeFiles
  <2>1. disk'.job = [q \in Roles |-> NoJob]
    BY <1>0, <1>4 DEF FinalizeFiles, Disk
  <2> QED
    BY <1>0, <1>4, <2>1
<1>5. CASE WorkerSteps
  BY <1>0, <1>5
  DEF WorkerSteps, WorkerCommits, ImplementerSucceeds, ImplementerMisreports, ReviewerDecides,
      WorkerFails, WorkerQuota, UnitKilled, UnitEnds, Disk
<1>6. ASSUME NEW d \in {"approve", "reject"}, ProtocolFix(r, d)
      PROVE  disk'.job[r] = disk.job[r]
  BY <1>0, <1>6 DEF ProtocolFix, Disk
<1> QED
  BY <1>1, <1>2, <1>3, <1>4, <1>5, <1>6 DEF ReviewerKept, ReviewerWrites, SpawnSteps

LEMMA NumberTypes ==
  ASSUME TypeOK
  PROVE  /\ env.launches \in Nat /\ disk.wait.job.id \in Nat /\ disk.tx.job.id \in Nat
         /\ act.saved.job.id \in Nat /\ \A r \in Roles : disk.job[r].id \in Nat
  BY DiskTypes DEF TypeOK, Env, Act, Wait, Tx, Job

LEMMA NumberedStep ==
  ASSUME Grounds, TypeOK', Ledger, Framed, Guided,
         \A r \in ReviewRoles : ReviewerKept(r) \/ ReviewerWrites(r)
  PROVE  Numbered'
<1>0. TypeOK /\ disk \in Disk /\ act \in Act /\ act.role \in Roles
  BY DEF Grounds, TypeOK, Act
<1>1. /\ env.launches \in Nat /\ env'.launches \in Nat /\ env.launches <= env'.launches
      /\ SpawnJob => env'.launches = env.launches + 1
  BY <1>0, LaunchesMove DEF TypeOK, Env
<1>2. NoJob.id = 0
  BY DEF NoJob
<1>3. \A r \in Roles : disk'.job[r].id <= env'.launches
  <2>1. disk'.job["implementer"].id <= env'.launches
    BY <1>0, <1>1, <1>2, JobMoves, NumberTypes, RoleFacts DEF Ledger, Numbered
  <2>2. ASSUME NEW r \in ReviewRoles PROVE disk'.job[r].id <= env'.launches
    <3>1. \/ disk'.job[r] \in {disk.job[r], NoJob}
          \/ SpawnJob /\ disk'.job[r].id = env.launches + 1
      BY <1>0, <2>2, ReviewJobMoves
    <3> QED
      BY <1>0, <1>1, <1>2, <3>1, NumberTypes, RoleFacts DEF Ledger, Numbered
  <2> QED
    BY <2>1, <2>2 DEF Roles
<1>4. disk'.wait.job.id <= env'.launches
  <2>1. disk'.wait.job = disk.wait.job \/ disk'.wait.job = disk.job[act.role]
    <3>1. CASE QueueWait
      BY <1>0, <3>1 DEF QueueWait, Parked, NoWait, Disk
    <3> QED
      BY <3>1 DEF Framed, DiskFrames
  <2> QED
    BY <1>0, <1>1, <2>1, NumberTypes DEF Ledger, Numbered
<1>5. disk'.tx.job.id <= env'.launches
  <2>1. disk'.tx = disk.tx \/ disk'.tx = NoTx \/ disk'.tx = act.saved
    BY <1>0 DEF Framed, DiskFrames, LaunchSettled, LaunchClosed, RetryTx, RetryClose, Disk
  <2>2. NoTx.job.id = 0
    BY <1>2 DEF NoTx
  <2> QED
    BY <1>0, <1>1, <2>1, <2>2, NumberTypes DEF Ledger, Numbered
<1>6. act'.saved.job.id <= env'.launches
  <2>1. NoTx.job.id = 0 /\ NoAct.saved = NoTx
    BY <1>2 DEF NoTx, NoAct
  <2>2. RetryPrepare => act'.saved.job = disk.job["implementer"]
    BY <1>0 DEF RetryPrepare, Act
  <2>3. act'.saved.job \in {act.saved.job, NoTx.job, disk.job["implementer"]}
    BY <2>1, <2>2 DEF Guided, Handles, Ends, Begins, GoesOn
  <2> QED
    BY <1>0, <1>1, <2>1, <2>3, NumberTypes, RoleFacts DEF Ledger, Numbered
<1>7. Launching' /\ pc' = "spawn_unit" => disk'.wait.job.id < env'.launches
  <2> SUFFICES ASSUME Launching', pc' = "spawn_unit" PROVE disk'.wait.job.id < env'.launches
    OBVIOUS
  <2>1. CASE UNCHANGED <<pc, act>>
    <3>1. Launching /\ pc = "spawn_unit" /\ disk'.wait.job = disk.wait.job
      BY <2>1, FilesWait DEF Launching
    <3> QED
      BY <1>0, <1>1, <3>1, NumberTypes DEF Ledger, Numbered
  <2>2. CASE SpawnJob
    <3>1. disk'.wait = disk.wait
      BY <1>0, <2>2 DEF SpawnJob, Disk
    <3> QED
      BY <1>0, <1>1, <2>2, <3>1, NumberTypes DEF Ledger, Numbered
  <2> QED
    BY <2>1, <2>2 DEF Guided, Came
<1> QED
  BY <1>3, <1>4, <1>5, <1>6, <1>7 DEF Numbered

LEMMA FinishedStep ==
  ASSUME Grounds, Ledger, Framed, Tallied
  PROVE  Finished'
<1> SUFFICES ASSUME pc' \in Finishing PROVE item'.status = "DONE"
  BY DEF Finished
<1>0. TypeOK /\ item \in Item
  BY DEF Grounds, TypeOK
<1>1. CASE UNCHANGED <<pc, act>>
  <2>1. item.status = "DONE" /\ pc \in Finishing
    BY <1>1 DEF Ledger, Finished
  <2>2. Written(pc) = {}
    BY <2>1 DEF Finishing, Written
  <2>3. ~StatusWriters \/ item'.status = item.status
    BY <1>0, <2>2, WritersWrite
  <2> QED
    BY <2>1, <2>3 DEF Framed, ItemFrames, HumanHold
<1>2. CASE FinalizeStatus
  BY <1>0, <1>2 DEF FinalizeStatus, Explain, Item
<1>3. CASE FinalizeClone
  BY <1>3 DEF FinalizeClone, Ledger, Finished, Finishing
<1> QED
  BY <1>1, <1>2, <1>3 DEF Tallied, Routed

\* The clone is deleted, made anew, merged into or moved on by its worker.
LEMMA CloneMoves ==
  ASSUME TypeOK, Framed
  PROVE  \/ /\ disk'.clone.there = disk.clone.there /\ disk'.clone.head = disk.clone.head
            /\ disk'.clone.based = disk.clone.based /\ disk'.clone.merging = disk.clone.merging
         \/ disk'.clone = NoClone /\ (UnwindFiles \/ ReconcileAbandoned \/ FinalizeClone)
         \/ /\ DispatchClone /\ disk'.clone.head = 0 /\ disk'.clone.based = gh.tip
            /\ ~disk'.clone.merging
         \/ /\ IntegrateMerge /\ disk'.clone.merging /\ disk'.clone.head = disk.clone.head
            /\ disk'.clone.based = disk.clone.based /\ disk'.clone.there = disk.clone.there
         \/ /\ ImplementerWorks /\ disk.clone.there /\ disk'.clone.head = disk.clone.head + 1
            /\ ~disk'.clone.merging
            /\ disk'.clone.based \in {disk.cmeta.target, disk.clone.based}
<1>0. disk \in Disk /\ disk.clone \in Clone
  BY DiskTypes
<1>1. CASE disk'.clone = disk.clone
  BY <1>1
<1>2. CASE DispatchClone
  BY <1>0, <1>2 DEF DispatchClone, NoClone, Disk
<1>3. CASE UnwindFiles \/ FinalizeClone
  BY <1>0, <1>3 DEF UnwindFiles, FinalizeClone, Disk
<1>4. CASE ReconcileAbandoned
  BY <1>0, <1>4 DEF ReconcileAbandoned, Disk
<1>5. CASE IntegrateMerge
  BY <1>0, <1>5 DEF IntegrateMerge, Disk, Clone
<1>6. CASE ImplementerWorks
  <2>1. CASE WorkerCommits
    BY <1>0, <1>6, <2>1 DEF WorkerCommits, Disk, Clone
  <2>2. CASE ImplementerMisreports
    BY <1>0, <2>2 DEF ImplementerMisreports, Disk, Clone
  <2>3. CASE ~WorkerCommits /\ ~ImplementerMisreports
    BY <1>0, <1>6, <2>3
    DEF ImplementerWorks, WorkerSteps, ImplementerSucceeds, ReviewerDecides, WorkerFails,
        WorkerQuota, UnitKilled, UnitEnds, Disk
  <2> QED
    BY <2>1, <2>2, <2>3
<1> QED
  BY <1>1, <1>2, <1>3, <1>4, <1>5, <1>6 DEF Framed, DiskFrames, CloneWriters

\* An integration is prepared once, finished, and forgotten with the clone.
LEMMA BindingMoves ==
  ASSUME TypeOK, Framed
  PROVE  \/ /\ disk'.cmeta.target = disk.cmeta.target /\ disk'.cmeta.parent = disk.cmeta.parent
            /\ disk'.cmeta.pending => disk.cmeta.pending
         \/ /\ DispatchMeta \/ UnwindFiles \/ FinalizeFiles
            /\ disk'.cmeta.target = 0 /\ disk'.cmeta.parent = 0 /\ ~disk'.cmeta.pending
         \/ /\ IntegrateTarget /\ disk'.cmeta.target = gh.tip
            /\ disk'.cmeta.parent = Impl.commit /\ disk'.clone = disk.clone
<1>0. disk \in Disk /\ disk.cmeta \in CloneMeta
  BY DiskTypes
<1>1. CASE disk'.cmeta = disk.cmeta
  BY <1>1
<1>2. CASE DispatchMeta
  BY <1>0, <1>2 DEF DispatchMeta, NoCloneMeta, Disk
<1>3. CASE UnwindFiles \/ FinalizeFiles
  <2>1. disk'.cmeta = NoCloneMeta
    BY <1>0, <1>3 DEF UnwindFiles, FinalizeFiles, Disk
  <2> QED
    BY <1>3, <2>1 DEF NoCloneMeta
<1>4. CASE IntegrateTarget
  BY <1>0, <1>4 DEF IntegrateTarget, Disk, CloneMeta
<1>5. CASE IntegrateBase \/ IntegrateClose \/ RecordHost
  BY <1>0, <1>5 DEF IntegrateBase, IntegrateClose, RecordHost, Disk, CloneMeta
<1> QED
  BY <1>1, <1>2, <1>3, <1>4, <1>5 DEF Framed, DiskFrames, BindingWriters

LEMMA TreeTypes ==
  ASSUME TypeOK
  PROVE  /\ gh.tip \in Nat /\ disk.clone.head \in Nat /\ disk.clone.based \in Nat
         /\ disk.cmeta.target \in Nat /\ disk.cmeta.parent \in Nat
         /\ disk.clone.there \in BOOLEAN /\ disk.clone.merging \in BOOLEAN
  BY DiskTypes DEF TypeOK, GitHub, Clone, CloneMeta

LEMMA DatedStep ==
  ASSUME Grounds, TypeOK', Ledger, Framed, Tallied
  PROVE  Dated'
<1>0. TypeOK /\ gh.tip \in Nat /\ gh'.tip \in Nat /\ gh.tip <= gh'.tip
  BY TreeTypes DEF Grounds, TypeOK, GitHub, Tallied, Accounts
<1>1. disk'.clone.based <= gh'.tip
  <2>1. disk'.clone.based \in {disk.clone.based, disk.cmeta.target, gh.tip, 0}
    BY <1>0, CloneMoves DEF NoClone
  <2> QED
    BY <1>0, <2>1, TreeTypes DEF Ledger, Dated
<1>2. disk'.cmeta.target <= gh'.tip
  BY <1>0, BindingMoves, TreeTypes DEF Ledger, Dated
<1>3. pc' = "int_target" => gh'.tip > 0
  <2>1. CASE UNCHANGED <<pc, act>>
    BY <1>0, <2>1 DEF Ledger, Dated
  <2>2. CASE IntegrateStart /\ pc' = "int_target"
    <3>1. gh.tip # disk.clone.based
      BY <2>2 DEF IntegrateStart, Accept
    <3> QED
      BY <1>0, <3>1, TreeTypes DEF Ledger, Dated
  <2> QED
    BY <2>1, <2>2 DEF Tallied, Routed
<1>4. disk'.cmeta.target = 0 => disk'.cmeta.parent = 0
  <2>1. IntegrateTarget => gh.tip # 0
    BY <1>0 DEF IntegrateTarget, Ledger, Dated
  <2> QED
    BY <1>0, <2>1, BindingMoves DEF Ledger, Dated
<1> QED
  BY <1>1, <1>2, <1>3, <1>4 DEF Dated

LEMMA PreparedStep ==
  ASSUME Grounds, Ready, TypeOK', Ledger, Framed, Tallied
  PROVE  Prepared'
<1>0. TypeOK /\ disk \in Disk /\ disk.cmeta \in CloneMeta /\ disk.clone \in Clone
  BY DiskTypes DEF Grounds
<1> DEFINE Labels3 == {"int_target", "int_resume"} \cup Integrating
<1>1. ASSUME UNCHANGED <<pc, act>>, pc \in Labels3
      PROVE  disk'.cmeta = disk.cmeta /\ disk'.clone = disk.clone /\ Impl' = Impl
  <2>1. ~ImplementerWorks
    BY <1>1, RoleFacts
    DEF ImplementerWorks, Grounds, UnitsByPhase, UnitsByLabel, QuietLabels, NoUnitActive,
        Integrating
  <2> QED
    BY <1>1, <2>1, FilesWait
<1>2. IntegrateStart => disk' = disk /\ Impl' = Impl
  BY DEF IntegrateStart, Impl
<1>3. pc' \in {"int_resume"} \cup Integrating =>
        disk'.cmeta.parent # 0 /\ disk'.clone.head = disk'.cmeta.parent
  <2> SUFFICES ASSUME pc' \in {"int_resume"} \cup Integrating
               PROVE  disk'.cmeta.parent # 0 /\ disk'.clone.head = disk'.cmeta.parent
    OBVIOUS
  <2>1. CASE UNCHANGED <<pc, act>>
    BY <1>1, <2>1 DEF Ledger, Prepared
  <2>2. CASE IntegrateStart
    <3>1. Pending(Impl.commit) /\ disk.clone.head = Impl.commit
      BY <2>2 DEF IntegrateStart, Accept, Integrating
    <3> QED
      BY <1>2, <2>2, <3>1 DEF Pending, Ledger, Prepared
  <2>3. CASE IntegrateTarget
    <3>1. /\ disk'.cmeta.parent = Impl.commit /\ disk'.clone = disk.clone
          /\ pc = "int_target"
      BY <1>0, <2>3 DEF IntegrateTarget, Disk, CloneMeta
    <3> QED
      BY <3>1 DEF Ready, Ledger, Prepared
  <2>4. CASE IntegrateMerge \/ IntegrateBase
    <3>1. /\ disk'.cmeta.parent = disk.cmeta.parent /\ disk'.clone.head = disk.clone.head
          /\ pc \in {"int_resume"} \cup Integrating
      BY <1>0, <2>4
      DEF IntegrateMerge, IntegrateBase, Disk, CloneMeta, Clone, Integrating
    <3> QED
      BY <3>1 DEF Ledger, Prepared
  <2> QED
    BY <2>1, <2>2, <2>3, <2>4 DEF Tallied, Routed, Integrating
<1>4. pc' \in {"int_base", "int_count"} => disk'.clone.merging
  <2>1. IntegrateMerge => disk'.clone.merging
    BY <1>0 DEF IntegrateMerge, Disk, Clone
  <2>2. IntegrateBase => pc = "int_base" /\ disk'.clone = disk.clone
    BY <1>0 DEF IntegrateBase, Disk
  <2> QED
    BY <1>1, <2>1, <2>2 DEF Tallied, Routed, Ledger, Prepared, Integrating
<1>5. pc' = "int_target" => disk'.clone.head = Impl'.commit
  <2>1. IntegrateStart /\ pc' = "int_target" => disk.clone.head = Impl.commit
    BY DEF IntegrateStart, Accept, Valid
  <2> QED
    BY <1>1, <1>2, <2>1 DEF Tallied, Routed, Ledger, Prepared
<1>6. disk'.cmeta.pending => disk'.cmeta.parent # 0
  <2>1. IntegrateTarget => Impl.commit # 0
    BY DEF IntegrateTarget, Ready
  <2> QED
    BY <1>0, <2>1, BindingMoves DEF Ledger, Prepared
<1>7. ASSUME disk'.cmeta.parent # 0, disk'.clone.there
      PROVE  disk'.cmeta.parent <= disk'.clone.head
  <2>1. CASE IntegrateTarget
    <3>1. disk'.cmeta.parent = Impl.commit /\ disk'.clone.head = Impl.commit
      BY <1>0, <2>1 DEF IntegrateTarget, Ledger, Prepared, Disk, CloneMeta
    <3> QED
      BY <3>1, TreeTypes DEF TypeOK, Disk, Clone
  <2>2. CASE ~IntegrateTarget
    <3>1. disk'.cmeta.parent = disk.cmeta.parent
      BY <1>0, <1>7, <2>2, BindingMoves
    <3>2. ~DispatchClone
      <4> SUFFICES ASSUME DispatchClone PROVE FALSE
        OBVIOUS
      <4>1. pc = "dispatch_clone" /\ act.status = "READY"
        BY Stands DEF DispatchClone, Grounds, Found
      <4> QED
        BY <1>7, <3>1, <4>1 DEF Ready, Untargeted, Ledger, Dated
    <3>3. ~NoClone.there /\ disk'.clone # NoClone
      BY <1>7 DEF NoClone
    <3>4. /\ disk.clone.there
          /\ disk'.clone.head \in {disk.clone.head, disk.clone.head + 1}
      BY <1>0, <1>7, <3>2, <3>3, CloneMoves
    <3>5. disk.cmeta.parent <= disk.clone.head
      BY <1>7, <3>1, <3>4 DEF Ledger, Prepared
    <3> QED
      BY <1>0, <3>1, <3>4, <3>5, TreeTypes
  <2> QED
    BY <2>1, <2>2
<1> QED
  BY <1>3, <1>4, <1>5, <1>6, <1>7 DEF Prepared

LEMMA LedgerStep ==
  ASSUME Grounds, Ready, TypeOK', Ledger, Framed, Guided, Tallied,
         \A r \in ReviewRoles : ReviewerKept(r) \/ ReviewerWrites(r)
  PROVE  Ledger'
  BY CountingStep, AloneStep, NumberedStep, FinishedStep, DatedStep, PreparedStep DEF Ledger

(***************************************************************************)
(* The budget: what has run, what is about to run and what may still be    *)
(* asked for never exceed the limit.                                       *)
(***************************************************************************)
One(b) == IF b THEN 1 ELSE 0
Spare(n) == IF n < MaxRetries THEN MaxRetries - n ELSE 0

\* A counted worker that spawn-agent is still starting.
InFlight == Launching /\ act.next = "idle"

\* The first worker has not been started, and still may be.
Undispatched ==
  \/ item.status = "READY"
  \/ item.status = "CLAIMED" /\ disk.job["implementer"] = NoJob
  \/ item.status = "WAITING_PROVIDER" /\ disk.wait.role = "implementer"
       /\ disk.wait.resume = "READY"
  \/ pc \in DispatchLabels \cup {"reconcile_ready"}
  \/ Launching /\ act.next = "dispatch_done"
  \/ pc \in Parking /\ act.role = "implementer" /\ act.resume = "READY"
  \/ pc \in Resuming /\ disk.wait.resume = "READY"

\* A worker that a quota stopped has not been continued yet.
Continuing ==
  \/ Exhausted(Impl)
  \/ disk.tx.open /\ ~Launched
  \/ pc \in RetryLabels /\ Exhausted(act.saved.result)
  \/ Launching /\ act.next = "retry_spent"

\* The count the next retry goes by, also while one is being made.
Charged == IF pc \in Counted THEN act.retry ELSE item.retry
RetriesLeft == Spare(Charged)
CorrectionsLeft == Spare(disk.budget)

\* An integration is prepared and has not been given its one attempt yet; once
\* it is merged, this matters only when no retry is left anyway.
Uncounted ==
  /\ disk.cmeta.parent # 0 /\ disk.clone.head = disk.cmeta.parent
  /\ disk.clone.merging =>
       RetriesLeft = 0 /\ (item.status = "VERIFIED" \/ pc \in Integrating)
Integrated == disk.cmeta.parent # 0 \/ item.status = "DONE"

Spent == ghost.runs + One(InFlight) + One(Undispatched) + One(Continuing)
Due == RetriesLeft + CorrectionsLeft + One(Uncounted)
Limit == 1 + 2 * MaxRetries + env.grants + env.quotas + One(Integrated)
Budget == Spent + Due <= Limit

\* The invariants the budget rests on, and what is known of a step.
Sound == Grounds /\ Ready /\ Ledger
Steps == Framed /\ Guided /\ Tallied

LEMMA SpareFacts ==
  /\ \A n \in Nat : Spare(n) \in Nat
  /\ \A m, n \in Nat : m <= n => Spare(n) <= Spare(m)
  /\ \A n \in Nat : n < MaxRetries => Spare(n + 1) = Spare(n) - 1 /\ Spare(n) > 0
  /\ Spare(MaxRetries - 1) = 1 /\ Spare(0) = MaxRetries
  BY LifecycleAssumption DEF Spare

LEMMA InitBudget == Init => Budget
<1> SUFFICES ASSUME Init PROVE Budget
  OBVIOUS
<1>1. /\ pc = "idle" /\ item.status = "READY" /\ item.retry = 0 /\ disk.budget = 0
      /\ disk.tx.open = FALSE /\ disk.cmeta.parent = 0 /\ ghost.runs = 0
      /\ env.grants = 0 /\ env.quotas = 0 /\ Impl = NoResult
  BY RoleFacts DEF Init, NoTx, NoCloneMeta, Impl
<1>2. ~InFlight /\ ~Continuing /\ ~Uncounted /\ ~Integrated
  BY <1>1
  DEF InFlight, Launching, SpawnLabels, Continuing, Exhausted, NoResult, Simple, RetryLabels,
      Uncounted, Integrated
<1>3. One(InFlight) = 0 /\ One(Continuing) = 0 /\ One(Uncounted) = 0 /\ One(Integrated) = 0
  BY <1>2 DEF One
<1>4. One(Undispatched) \in {0, 1}
  BY DEF One
<1>5. RetriesLeft = MaxRetries /\ CorrectionsLeft = MaxRetries
  BY <1>1, SpareFacts DEF RetriesLeft, CorrectionsLeft, Charged, Counted
<1> QED
  BY <1>1, <1>3, <1>4, <1>5, LifecycleAssumption DEF Budget, Spent, Due, Limit

LEMMA BudgetBounds ==
  ASSUME TypeOK, Budget
  PROVE  LaunchBound
<1>1. /\ ghost.runs \in Nat /\ env.grants \in Nat /\ env.quotas \in Nat
      /\ item.retry \in Nat /\ act.retry \in Nat /\ disk.budget \in Nat
  BY CounterTypes
<1>2. RetriesLeft \in Nat /\ CorrectionsLeft \in Nat
  BY <1>1, SpareFacts DEF RetriesLeft, CorrectionsLeft, Charged
<1>3. /\ One(InFlight) \in {0, 1} /\ One(Undispatched) \in {0, 1} /\ One(Continuing) \in {0, 1}
      /\ One(Uncounted) \in {0, 1}
      /\ One(Integrated) = IF disk.cmeta.parent # 0 \/ item.status = "DONE" THEN 1 ELSE 0
  BY DEF One, Integrated
<1> DEFINE extra == IF disk.cmeta.parent # 0 \/ item.status = "DONE" THEN 1 ELSE 0
<1>4. ghost.runs <= 1 + 2 * MaxRetries + env.grants + env.quotas + One(Integrated)
  <2>1. One(Integrated) \in {0, 1}
    BY <1>3
  <2> QED
    BY <1>1, <1>2, <1>3, <2>1, LifecycleAssumption DEF Budget, Spent, Due, Limit
<1> QED
  BY <1>3, <1>4 DEF LaunchBound

(***************************************************************************)
(* What a step does to each part.                                          *)
(***************************************************************************)
LEMMA InFlightMoves ==
  ASSUME Sound, Steps, InFlight'
  PROVE  InFlight \/ (RetryGuard /\ pc' = "spawn" /\ ~act.quota) \/ RetryBudget
<1>0. act \in Act /\ act'.role = "implementer" /\ act'.next = "idle" /\ pc' \in SpawnLabels
  BY DEF Sound, Grounds, TypeOK, InFlight, Launching
<1>1. CASE UNCHANGED <<pc, act>>
  BY <1>1 DEF InFlight, Launching
<1>2. CASE SpawnTruncate \/ SpawnJob
  BY <1>0, <1>2 DEF SpawnTruncate, SpawnJob, Goto, InFlight, Launching, SpawnLabels
<1>3. ~DispatchSpawn
  BY <1>0 DEF DispatchSpawn, SpawnAgent, Goto, SpawnLabels, Act
<1>4. CASE RetryGuard /\ pc' = "spawn"
  <2>1. act'.next = IF act.quota THEN "retry_spent" ELSE "idle"
    BY <1>0, <1>4 DEF RetryGuard, SpawnAgent, Goto, Act
  <2> QED
    BY <1>0, <1>4, <2>1
<1>5. ~ReviewMeta
  <2> SUFFICES ASSUME ReviewMeta PROVE FALSE
    OBVIOUS
  <2>1. act'.role = act.role /\ act.role # "implementer"
    BY <1>0, RoleFacts
    DEF ReviewMeta, SpawnAgent, Goto, Act, Sound, Grounds, UnitsByPhase, CallsByLabel,
        SpawnReviewLabels
  <2> QED
    BY <1>0, <2>1
<1> QED
  BY <1>0, <1>1, <1>2, <1>3, <1>4, <1>5 DEF Steps, Guided, Came, SpawnLabels

LEMMA SpawnUnitLands ==
  ASSUME Sound, SpawnUnit, act.role = "implementer"
  PROVE  /\ ~Launching' /\ Launching /\ pc' = act.next
         /\ pc' \in {"idle", "dispatch_done", "retry_spent"}
         /\ UNCHANGED <<item, disk, gh, env>> /\ ghost'.runs = ghost.runs + 1
<1>1. /\ pc = "spawn_unit" /\ pc' = act.next /\ UNCHANGED <<item, disk, gh, env>>
      /\ ghost'.runs = ghost.runs + 1
  BY CounterTypes DEF SpawnUnit, Resume, Sound, Grounds, Ghost
<1>2. pc' \in {"idle", "dispatch_done", "retry_spent"}
  BY <1>1 DEF Sound, Grounds, UnitsByPhase, CallsByLabel, SpawnLabels
<1> QED
  BY <1>1, <1>2 DEF Launching, SpawnLabels

\* A dispatch that is still to come was so before.
LEMMA UndispatchedStatus ==
  ASSUME Sound, Steps, TypeOK',
         \/ item'.status = "READY"
         \/ item'.status = "CLAIMED" /\ disk'.job["implementer"] = NoJob
         \/ item'.status = "WAITING_PROVIDER" /\ disk'.wait.role = "implementer"
              /\ disk'.wait.resume = "READY"
  PROVE  Undispatched
<1>0. TypeOK /\ item \in Item
  BY DEF Sound, Grounds, TypeOK
<1>1. CASE item'.status = item.status
  <2>1. item.status = "WAITING_PROVIDER" => ~QueueWait
    BY DEF QueueWait, Sound, Grounds, Handoff, ByLabel, Parking
  <2>2. item.status = "CLAIMED" /\ disk'.job["implementer"] = NoJob =>
          disk.job["implementer"] = NoJob
    <3> SUFFICES ASSUME item.status = "CLAIMED", disk'.job["implementer"] = NoJob,
                        disk.job["implementer"] # NoJob
                 PROVE  FALSE
      OBVIOUS
    <3>1. JobWriters
      BY DEF Steps, Framed, DiskFrames
    <3>2. CASE SpawnJob /\ act.role = "implementer"
      <4>1. disk'.job["implementer"].id = env.launches + 1 /\ env.launches \in Nat
        BY <1>0, <3>2, DiskTypes, RoleFacts DEF SpawnJob, Disk, TypeOK, Env
      <4> QED
        BY <4>1 DEF NoJob
    <3>3. CASE LaunchRestored
      BY <3>3 DEF LaunchRestored, Sound, Grounds, Continuation, Recovered, OpenTx, Taken, Held
    <3>4. CASE RetryUnlinkJob \/ RetryRestore \/ FinalizeFiles
      <4>1. pc \in {"retry_unlink_job", "retry_restore", "final_files"}
        BY <3>4 DEF RetryUnlinkJob, RetryRestore, FinalizeFiles
      <4>2. item.status \in Again \cup {"IN_PROGRESS", "DONE", Held}
        BY <4>1, Stands DEF Sound, Grounds, Now, Found
      <4> QED
        BY <4>2 DEF Again, Held
    <3> QED
      BY <3>1, <3>2, <3>3, <3>4 DEF JobWriters
  <2>3. ~QueueWait => disk'.wait.role = disk.wait.role /\ disk'.wait.resume = disk.wait.resume
    BY DEF Steps, Framed, DiskFrames
  <2> QED
    BY <1>1, <2>1, <2>2, <2>3 DEF Undispatched
<1>2. CASE item'.status # item.status /\ StatusWriters
  <2>1. /\ item'.status \in Written(pc) /\ pc # "idle"
        /\ act.status \in Found(pc, act.role, act.next)
    BY <1>0, <1>2, WritersWrite, Stands DEF Sound, Grounds
  <2>2. CASE item'.status = "READY"
    <3>1. pc \in Blanking \/ (pc = "recover_resume" /\ disk.wait.resume = "READY")
      BY <2>1, <2>2 DEF Written, Found, Again, Blanking, Held
    <3> QED
      BY <3>1 DEF Undispatched, Blanking, Resuming, DispatchLabels
  <2>3. CASE item'.status = "WAITING_PROVIDER"
    <3>0. disk'.wait.role = "implementer" /\ disk'.wait.resume = "READY"
      BY <2>3
    <3>1. pc \in {"queue_status", "review_wait"}
      <4>1. pc # "recover_resume"
        BY <2>1, <2>3 DEF Sound, Grounds, Handoff, ByLabel, Resuming, Early, Written
      <4> QED
        BY <2>1, <2>3, <4>1 DEF Written, Found, Again, Held
    <3>2. disk.wait.role = "implementer" /\ disk.wait.resume = "READY"
      BY <3>0, <3>1 DEF QueueWait, Steps, Framed, DiskFrames
    <3>3. pc = "queue_status" /\ act.role = "implementer" /\ act.resume = "READY"
      BY <3>1, <3>2 DEF Sound, Grounds, Handoff, ByLabel
    <3> QED
      BY <3>3 DEF Undispatched, Parking
  <2>4. CASE item'.status = "CLAIMED"
    <3>1. pc = "dispatch_claim"
      <4>1. pc # "recover_resume"
        BY <2>1, <2>4 DEF Sound, Grounds, Handoff, ByLabel, Resuming, Early, Written
      <4> QED
        BY <2>1, <2>4, <4>1 DEF Written, Found, Again, Held
    <3> QED
      BY <3>1 DEF Undispatched, DispatchLabels
  <2> QED
    BY <2>2, <2>3, <2>4
<1>3. ~HumanHold
  BY <1>0 DEF HumanHold, SetStatus, Item
<1> QED
  BY <1>1, <1>2, <1>3 DEF Steps, Framed, ItemFrames

LEMMA UndispatchedMoves ==
  ASSUME Sound, Steps, TypeOK', Undispatched'
  PROVE  Undispatched
<1>0. TypeOK /\ disk \in Disk /\ act \in Act
  BY DEF Sound, Grounds, TypeOK
<1>1. CASE \/ item'.status = "READY"
           \/ item'.status = "CLAIMED" /\ disk'.job["implementer"] = NoJob
           \/ item'.status = "WAITING_PROVIDER" /\ disk'.wait.role = "implementer"
                /\ disk'.wait.resume = "READY"
  BY <1>1, UndispatchedStatus
<1>2. CASE pc' \in DispatchLabels \cup {"reconcile_ready"}
  <2>1. CASE UNCHANGED <<pc, act>>
    BY <1>2, <2>1 DEF Undispatched
  <2>2. CASE DispatchStart
    BY <2>2 DEF DispatchStart, Undispatched
  <2>3. CASE ReconcileAbandoned /\ pc' = "reconcile_ready"
    BY <2>3 DEF ReconcileAbandoned, Return, StatusFresh, Expected, Undispatched
  <2>4. CASE pc \in DispatchLabels
    BY <2>4 DEF Undispatched
  <2> QED
    BY <1>2, <2>1, <2>2, <2>3, <2>4 DEF Steps, Guided, Came
<1>3. CASE Launching' /\ act'.next = "dispatch_done"
  <2>1. CASE UNCHANGED <<pc, act>>
    BY <1>3, <2>1 DEF Undispatched, Launching
  <2>2. CASE SpawnTruncate \/ SpawnJob
    BY <1>3, <2>2 DEF SpawnTruncate, SpawnJob, Goto, Undispatched, Launching, SpawnLabels
  <2>3. CASE DispatchSpawn
    BY <2>3 DEF DispatchSpawn, Undispatched, DispatchLabels
  <2>4. ~(RetryGuard /\ pc' = "spawn") /\ ~RetryBudget
    BY <1>0, <1>3 DEF RetryGuard, RetryBudget, SpawnAgent, Goto, Act
  <2>5. ~ReviewMeta
    <3> SUFFICES ASSUME ReviewMeta PROVE FALSE
      OBVIOUS
    <3>1. act'.role = act.role /\ act.role # "implementer"
      BY <1>0, <1>3, RoleFacts
      DEF ReviewMeta, SpawnAgent, Goto, Act, Sound, Grounds, UnitsByPhase, CallsByLabel,
          SpawnReviewLabels, Launching, SpawnLabels
    <3> QED
      BY <1>3, <3>1 DEF Launching
  <2> QED
    BY <1>3, <2>1, <2>2, <2>3, <2>4, <2>5 DEF Steps, Guided, Came, Launching, SpawnLabels
<1>4. CASE pc' \in Parking /\ act'.role = "implementer" /\ act'.resume = "READY"
  <2>1. CASE UNCHANGED <<pc, act>>
    BY <1>4, <2>1 DEF Undispatched
  <2>2. ~ReconcileQuota
    BY <1>0, <1>4 DEF ReconcileQuota, Queue, Act
  <2>3. ~RetryReview
    <3> SUFFICES ASSUME RetryReview PROVE FALSE
      OBVIOUS
    <3>1. pc = "consume" /\ act'.role = act.role
      BY <1>0, <1>4 DEF RetryReview, Queue, CallReview, Return, Act, Parking
    <3> QED
      BY <1>4, <3>1, RoleFacts DEF Sound, Grounds, UnitsByPhase, CallsByLabel
  <2>4. CASE QuotaMark \/ QueueWait
    <3>1. pc \in Parking /\ act' = act
      BY <2>4 DEF QuotaMark, QueueWait, Goto, Parking
    <3> QED
      BY <1>4, <3>1 DEF Undispatched
  <2>5. CASE DispatchStart
    BY <2>5 DEF DispatchStart, Undispatched
  <2>6. ~DispatchReview
    BY <1>0, <1>4, PayloadType DEF DispatchReview, Queue, CallReview, Payload, Parking
  <2> QED
    BY <1>4, <2>1, <2>2, <2>3, <2>4, <2>5, <2>6 DEF Steps, Guided, Came, Parking
<1>5. CASE pc' \in Resuming /\ disk'.wait.resume = "READY"
  <2>1. CASE UNCHANGED <<pc, act>>
    <3>1. ~QueueWait
      BY <1>5, <2>1 DEF QueueWait, Resuming
    <3> QED
      BY <1>5, <2>1, <3>1 DEF Undispatched, Steps, Framed, DiskFrames
  <2>2. CASE RecoverStart
    BY <1>5, <2>2 DEF RecoverStart, Undispatched, Resuming
  <2>3. CASE RecoverSelect \/ RecoverField
    <3>1. pc \in Resuming /\ ~QueueWait
      BY <2>3 DEF RecoverSelect, RecoverField, Resuming, QueueWait
    <3> QED
      BY <1>5, <3>1 DEF Undispatched, Steps, Framed, DiskFrames
  <2> QED
    BY <1>5, <2>1, <2>2, <2>3 DEF Steps, Guided, Came, Resuming
<1> QED
  BY <1>1, <1>2, <1>3, <1>4, <1>5 DEF Undispatched

\* What a worker leaves is a result, and one of a quota only after a quota.
LEMMA WorkerLeaves ==
  ASSUME TypeOK, WorkerSteps, Impl' # Impl
  PROVE  /\ Impl' # NoResult
         /\ Exhausted(Impl') => WorkerQuota("implementer")
<1>0. disk \in Disk /\ disk.result \in [Roles -> Result]
  BY DiskTypes
<1>1. ~WorkerCommits /\ (\A r \in Roles : ~UnitKilled(r))
  BY <1>0 DEF WorkerCommits, UnitKilled, Impl, Disk
<1>2. ASSUME NEW r, NEW k, NEW c, UnitEnds(r, k, c)
      PROVE  r = "implementer" /\ Impl'.kind = k
  <2>1. r = "implementer"
    BY <1>0, <1>2 DEF UnitEnds, Impl, Disk
  <2>2. Impl' = [kind |-> k, commit |-> c, deferred |-> k = "ok" /\ HostCheck,
                 run |-> IF k = "ok" THEN unit[r].id ELSE 0]
    BY <1>0, <1>2, <2>1, RoleFacts DEF UnitEnds, Impl, Disk
  <2> QED
    BY <2>1, <2>2
<1>3. CASE ImplementerSucceeds
  BY <1>2, <1>3 DEF ImplementerSucceeds, Exhausted, NoResult, Simple
<1>4. CASE ImplementerMisreports
  <2>1. Impl' = [kind |-> "ok", commit |-> disk.clone.head, deferred |-> HostCheck,
                 run |-> unit["implementer"].id]
    BY <1>0, <1>4, RoleFacts DEF ImplementerMisreports, Impl, Disk
  <2>2. Impl'.kind = "ok"
    BY <2>1
  <2> QED
    BY <2>2 DEF Exhausted, NoResult, Simple
<1>5. ASSUME NEW r \in ReviewRoles, NEW d, ReviewerDecides(r, d) PROVE FALSE
  BY <1>2, <1>5, RoleFacts DEF ReviewerDecides
<1>6. ASSUME NEW r, NEW k, WorkerFails(r, k)
      PROVE  Impl' # NoResult /\ ~Exhausted(Impl')
  <2>1. Impl'.kind = k /\ k \in {"failed", "bad"}
    BY <1>2, <1>6 DEF WorkerFails
  <2> QED
    BY <2>1 DEF Exhausted, NoResult, Simple
<1>7. ASSUME NEW r, WorkerQuota(r)
      PROVE  Impl' # NoResult /\ WorkerQuota("implementer")
  <2>1. r = "implementer" /\ Impl'.kind = "quota"
    BY <1>2, <1>7 DEF WorkerQuota
  <2> QED
    BY <1>7, <2>1 DEF NoResult, Simple
<1> QED
  BY <1>1, <1>3, <1>4, <1>5, <1>6, <1>7 DEF WorkerSteps

\* A continuation is owed since a quota, until it is launched.
LEMMA LaunchedStays ==
  ASSUME Sound, Steps, disk.tx.open, Launched, disk'.tx.open, ~Launched'
  PROVE  Continuing
<1>0. TypeOK /\ NoJob.id = 0
  BY DEF Sound, Grounds, NoJob
<1>1. item.status \in Taken /\ pc \notin Closed /\ (pc \in RetryLabels => act.quota)
  BY DEF Sound, Grounds, Continuation, OpenTx
<1>2. pc \in RetryLabels => Continuing
  BY <1>1 DEF Sound, Grounds, Continuation, QuotaWaits, Continuing
<1>3. ~QueueWait /\ ~FinalizeFiles /\ ~LaunchRestored
  BY <1>1
  DEF QueueWait, FinalizeFiles, LaunchRestored, Closed, Parking, Taken, Held, Sound, Ledger,
      Finished, Finishing
<1>4. disk'.wait.job = disk.wait.job
  BY <1>3 DEF Steps, Framed, DiskFrames
<1> SUFFICES ASSUME pc \notin RetryLabels PROVE FALSE
  BY <1>2
<1>5. ~RetryUnlinkJob /\ ~RetryRestore /\ ~RetryUnlinkResult
  BY DEF RetryUnlinkJob, RetryRestore, RetryUnlinkResult, RetryLabels
<1>6. disk'.job["implementer"] \notin {disk'.wait.job, NoJob}
  <2>1. CASE disk'.job["implementer"] = disk.job["implementer"]
    BY <1>4, <2>1 DEF Launched
  <2>2. CASE SpawnJob /\ act.role = "implementer"
    <3>1. disk'.job["implementer"].id = env.launches + 1
      BY <1>0, <2>2, DiskTypes, RoleFacts DEF SpawnJob, Disk
    <3>2. disk.wait.job.id <= env.launches
      BY DEF Sound, Ledger, Numbered
    <3> QED
      BY <1>0, <1>4, <3>1, <3>2, NumberTypes
  <2> QED
    BY <1>3, <1>5, <2>1, <2>2 DEF Steps, Framed, DiskFrames, JobWriters
<1>7. Impl' # NoResult
  <2>1. CASE Impl' = Impl
    BY <2>1 DEF Launched, Impl
  <2>2. CASE SpawnTruncate /\ act.role = "implementer"
    <3>1. Impl' = Simple("empty")
      BY <1>0, <2>2, DiskTypes, RoleFacts DEF SpawnTruncate, Impl, Disk
    <3> QED
      BY <3>1 DEF NoResult, Simple
  <2>3. CASE ImplementerWorks /\ Impl' # Impl
    BY <1>0, <2>3, WorkerLeaves DEF ImplementerWorks
  <2> QED
    BY <1>3, <1>5, <2>1, <2>2, <2>3 DEF Steps, Framed, DiskFrames, ResultWriters, Impl
<1> QED
  BY <1>6, <1>7 DEF Launched, Impl

LEMMA ContinuingMoves ==
  ASSUME Sound, Steps, TypeOK', Continuing'
  PROVE  Continuing \/ WorkerQuota("implementer")
<1>0. TypeOK /\ disk \in Disk /\ act \in Act
  BY DEF Sound, Grounds, TypeOK
<1>1. pc \in {"retry_tx"} => Continuing
  BY DEF Sound, Grounds, Continuation, QuotaWaits, Continuing
<1>2. CASE Exhausted(Impl')
  <2>1. Impl' = Impl => Continuing
    BY <1>2 DEF Continuing
  <2>2. Impl' \notin {NoResult, Simple("empty")}
    BY <1>2 DEF Exhausted, NoResult, Simple
  <2>3. LaunchRestored => Continuing
    BY DEF LaunchRestored, Sound, Grounds, Continuation, Recovered, Continuing
  <2>4. RetryRestore /\ Impl' = act.saved.result => Continuing
    BY <1>2 DEF RetryRestore, Continuing, RetryLabels
  <2>5. ImplementerWorks /\ Impl' # Impl => WorkerQuota("implementer")
    BY <1>0, <1>2, WorkerLeaves DEF ImplementerWorks
  <2> QED
    BY <1>0, <2>1, <2>2, <2>3, <2>4, <2>5, ResultMoves DEF Steps
<1>3. CASE disk'.tx.open /\ ~Launched'
  <2>1. CASE RetryTx
    BY <1>1, <2>1 DEF RetryTx
  <2>2. CASE disk'.tx = disk.tx
    <3>1. CASE Launched
      BY <1>3, <2>2, <3>1, LaunchedStays
    <3>2. CASE ~Launched
      BY <1>3, <2>2, <3>2 DEF Continuing
    <3> QED
      BY <3>1, <3>2
  <2>3. ~LaunchSettled /\ ~LaunchClosed /\ ~RetryClose
    BY <1>0, <1>3 DEF LaunchSettled, LaunchClosed, RetryClose, NoTx, Disk
  <2> QED
    BY <2>1, <2>2, <2>3 DEF Steps, Framed, DiskFrames
<1>4. CASE pc' \in RetryLabels /\ Exhausted(act'.saved.result)
  <2>1. CASE UNCHANGED <<pc, act>> \/ (pc \in RetryLabels /\ act' = act)
    BY <1>4, <2>1 DEF Continuing
  <2>2. CASE RetryPrepare
    <3>1. act'.saved.result = Impl
      BY <1>0, <2>2 DEF RetryPrepare, Act, Impl
    <3> QED
      BY <1>4, <3>1 DEF Continuing
  <2> QED
    BY <1>4, <2>1, <2>2 DEF Steps, Guided, Came
<1>5. CASE Launching' /\ act'.next = "retry_spent"
  <2>1. CASE UNCHANGED <<pc, act>>
    BY <1>5, <2>1 DEF Continuing, Launching
  <2>2. CASE SpawnTruncate \/ SpawnJob
    BY <1>5, <2>2 DEF SpawnTruncate, SpawnJob, Goto, Continuing, Launching, SpawnLabels
  <2>3. ~(DispatchSpawn /\ pc' = "spawn") /\ ~RetryBudget
    BY <1>0, <1>5 DEF DispatchSpawn, RetryBudget, SpawnAgent, Goto, Act
  <2>4. CASE RetryGuard /\ pc' = "spawn"
    <3>1. act.quota /\ pc = "retry_guard"
      BY <1>0, <1>5, <2>4 DEF RetryGuard, SpawnAgent, Goto, Act
    <3> QED
      BY <3>1 DEF Sound, Grounds, Continuation, QuotaWaits, Continuing, RetryLabels
  <2>5. ~ReviewMeta
    <3> SUFFICES ASSUME ReviewMeta PROVE FALSE
      OBVIOUS
    <3>1. act'.role = act.role /\ act.role # "implementer"
      BY <1>0, <1>5, RoleFacts
      DEF ReviewMeta, SpawnAgent, Goto, Act, Sound, Grounds, UnitsByPhase, CallsByLabel,
          SpawnReviewLabels, Launching, SpawnLabels
    <3> QED
      BY <1>5, <3>1 DEF Launching
  <2> QED
    BY <1>5, <2>1, <2>2, <2>3, <2>4, <2>5 DEF Steps, Guided, Came, Launching, SpawnLabels
<1> QED
  BY <1>2, <1>3, <1>4, <1>5 DEF Continuing

\* The worker that is started is the one that was to be started.
LEMMA SpawnUnitPays ==
  ASSUME Sound, SpawnUnit, act.role = "implementer"
  PROVE  /\ ~InFlight' /\ ~Continuing' /\ (act.next = "dispatch_done" => ~Undispatched')
         /\ act.next = "idle" => InFlight
         /\ act.next = "retry_spent" => Continuing
         /\ act.next = "dispatch_done" => Undispatched
         /\ act.next \in {"idle", "dispatch_done", "retry_spent"}
<1>1. /\ ~Launching' /\ Launching /\ pc' = act.next /\ UNCHANGED <<item, disk>>
      /\ pc' \in {"idle", "dispatch_done", "retry_spent"} /\ pc = "spawn_unit"
  BY SpawnUnitLands DEF SpawnUnit
<1>2. /\ disk.job["implementer"].id = env.launches /\ env.launches > 0
      /\ disk.wait.job.id < env.launches /\ Impl = Simple("empty")
  BY <1>1 DEF Sound, Grounds, Fresh, Ledger, Numbered, Alone
<1>3. disk.job["implementer"] \notin {disk.wait.job, NoJob}
  <2>1. env.launches \in Nat /\ disk.wait.job.id \in Nat /\ NoJob.id = 0
    BY NumberTypes DEF NoJob, Sound, Grounds
  <2> QED
    BY <1>2, <2>1
<1>4. Launched'
  BY <1>1, <1>2, <1>3 DEF Launched, Impl, NoResult, Simple
<1>5. ~Continuing'
  <2>1. Impl' = Impl /\ ~Exhausted(Impl)
    BY <1>1, <1>2 DEF Impl, Exhausted, Simple
  <2> QED
    BY <1>1, <1>4, <2>1 DEF Continuing, RetryLabels
<1>6. act.next = "dispatch_done" => ~Undispatched'
  <2> SUFFICES ASSUME act.next = "dispatch_done" PROVE ~Undispatched'
    OBVIOUS
  <2>1. item.status \in {"CLAIMED", Held}
    BY <1>1, Stands DEF Sound, Grounds, Now
  <2> QED
    BY <1>1, <1>3, <2>1 DEF Undispatched, DispatchLabels, Parking, Resuming, Held
<1> QED
  BY <1>1, <1>5, <1>6 DEF InFlight, Continuing, Undispatched

LEMMA SpendTypes ==
  ASSUME TypeOK
  PROVE  /\ item \in Item /\ disk \in Disk /\ act \in Act
         /\ item.retry \in Nat /\ act.retry \in Nat /\ Charged \in Nat /\ disk.budget \in Nat
         /\ RetriesLeft \in Nat /\ CorrectionsLeft \in Nat
         /\ ghost.runs \in Nat /\ env.grants \in Nat /\ env.quotas \in Nat
<1>1. /\ item \in Item /\ disk \in Disk /\ act \in Act
      /\ item.retry \in Nat /\ act.retry \in Nat /\ disk.budget \in Nat
      /\ ghost.runs \in Nat /\ env.grants \in Nat /\ env.quotas \in Nat
  BY CounterTypes DEF TypeOK
<1>2. Charged \in Nat
  BY <1>1 DEF Charged
<1> QED
  BY <1>1, <1>2, SpareFacts DEF RetriesLeft, CorrectionsLeft

\* The count only grows, but for a grant and an integration, which leave one
\* retry.
LEMMA RetriesMove ==
  ASSUME Sound, Steps, TypeOK'
  PROVE  /\ ~ResumeStart /\ ~IntegrateCount => Charged <= Charged' /\ RetriesLeft' <= RetriesLeft
         /\ ResumeStart \/ IntegrateCount => RetriesLeft' = 1
<1>0. /\ item \in Item /\ act \in Act /\ item.retry \in Nat /\ act.retry \in Nat
      /\ Charged \in Nat
  BY SpendTypes DEF Sound, Grounds
<1>3. Charged' \in Nat
  <2>1. item'.retry \in Nat /\ act'.retry \in Nat
    BY DEF TypeOK, Item, Act
  <2> QED
    BY <2>1 DEF Charged
<1>1. CASE ResumeStart \/ IntegrateCount
  <2>1. item'.retry = MaxRetries - 1 /\ pc' \notin Counted
    BY <1>0, <1>1 DEF ResumeStart, IntegrateCount, Accept, Goto, Item, Counted
  <2> QED
    BY <1>1, <2>1, SpareFacts DEF RetriesLeft, Charged
<1>2. CASE ~ResumeStart /\ ~IntegrateCount
  <2>1. item'.retry = item.retry \/ RetryCount \/ RetryUncount
    BY <1>2 DEF Steps, Tallied, Accounts
  <2>2. Charged <= Charged'
    <3>1. CASE RetryCount
      <4>1. pc = "retry_count" /\ pc' = "retry_status" /\ act' = act
        BY <3>1 DEF RetryCount, Goto
      <4>2. item.retry = act.retry
        BY <4>1 DEF Sound, Ledger, Counting, Uncharged
      <4> QED
        BY <1>0, <4>1, <4>2 DEF Charged, Counted
    <3>2. CASE RetryUncount
      <4>1. pc = "retry_uncount" /\ pc' = "retry_unstatus" /\ item'.retry = act.retry
        BY <1>0, <3>2 DEF RetryUncount, Goto, Item
      <4> QED
        BY <1>0, <4>1 DEF Charged, Counted
    <3>3. CASE item'.retry = item.retry /\ ~RetryCount /\ ~RetryUncount
      <4>1. pc \in Counted => act.retry <= item.retry
        <5>1. pc \in Counted => item.retry = NextRetry
          BY DEF Sound, Ledger, Counting
        <5> QED
          BY <1>0, <5>1 DEF NextRetry
      <4>2. pc' \in Counted => pc \in Counted /\ act' = act
        BY <3>3 DEF Steps, Tallied, Routed
      <4> QED
        BY <1>0, <3>3, <4>1, <4>2 DEF Charged
    <3> QED
      BY <2>1, <3>1, <3>2, <3>3
  <2> QED
    BY <1>0, <1>2, <1>3, <2>2, SpareFacts DEF RetriesLeft
<1> QED
  BY <1>1, <1>2

\* A retry that is launched has been counted, and was below the limit.
LEMMA RetryPays ==
  ASSUME Sound, TypeOK', RetryGuard, pc' = "spawn", ~act.quota
  PROVE  RetriesLeft' = RetriesLeft - 1
<1>0. act.retry \in Nat /\ act \in Act
  BY SpendTypes DEF Sound, Grounds
<1>1. pc = "retry_guard" /\ item' = item /\ ~Correction
  BY DEF RetryGuard, Goto
<1>2. item.retry = act.retry + 1 /\ act.retry < MaxRetries
  BY <1>1 DEF Sound, Ledger, Counting, Counted, RetryLabels, NextRetry, Attempts
<1>3. Charged = act.retry /\ Charged' = act.retry + 1
  BY <1>1, <1>2 DEF Charged, Counted
<1> QED
  BY <1>0, <1>2, <1>3, SpareFacts DEF RetriesLeft

LEMMA CorrectionsMove ==
  ASSUME Sound, Steps, TypeOK'
  PROVE  IF RetryBudget THEN CorrectionsLeft' = CorrectionsLeft - 1
         ELSE CorrectionsLeft' = CorrectionsLeft
<1>1. CASE RetryBudget
  <2>0. disk \in Disk /\ disk.budget \in Nat
    BY SpendTypes DEF Sound, Grounds
  <2>1. pc = "retry_budget" /\ disk'.budget = disk.budget + 1
    BY <1>1, <2>0 DEF RetryBudget, Disk
  <2>2. Correction
    BY <2>1 DEF Sound, Ledger, Counting
  <2>3. ~act.quota
    BY <2>1, <2>2 DEF Correction, Sound, Grounds, Continuation, Corrected
  <2>4. disk.budget < MaxRetries
    BY <2>1, <2>2, <2>3 DEF Sound, Ledger, Counting, RetryLabels, Attempts
  <2> QED
    BY <1>1, <2>0, <2>1, <2>4, SpareFacts DEF CorrectionsLeft
<1>2. CASE ~RetryBudget
  BY <1>2 DEF Steps, Tallied, Accounts, CorrectionsLeft
<1> QED
  BY <1>1, <1>2

\* An integration is owed its attempt from its preparation to its count.
LEMMA UncountedMoves ==
  ASSUME Sound, Steps, TypeOK', Uncounted', ~IntegrateTarget, ~Uncounted
  PROVE  RetriesLeft' = 0 /\ RetriesLeft # 0 /\ disk.clone.merging
           /\ (item'.status = "VERIFIED" \/ pc' \in Integrating)
<1>0. TypeOK /\ disk.clone.head \in Nat /\ disk.cmeta.parent \in Nat
  BY TreeTypes DEF Sound, Grounds
<1>1. disk'.cmeta.parent # 0 /\ disk'.clone.head = disk'.cmeta.parent
  BY DEF Uncounted
<1>2. disk'.cmeta.parent = disk.cmeta.parent
  BY <1>0, <1>1, BindingMoves DEF Steps
<1>3. /\ disk.clone.head = disk'.clone.head
      /\ disk.clone.merging => disk'.clone.merging
  <2>1. disk'.clone # NoClone /\ disk'.clone.head # 0
    <3>1. NoClone.head = 0
      BY DEF NoClone
    <3> QED
      BY <1>1, <3>1
  <2>2. disk.clone.there => disk'.clone.head # disk.clone.head + 1
    <3>1. disk.clone.there => disk.cmeta.parent <= disk.clone.head
      BY <1>1, <1>2 DEF Sound, Ledger, Prepared
    <3> QED
      BY <1>0, <1>1, <1>2, <3>1
  <2> QED
    BY <1>0, <2>1, <2>2, CloneMoves DEF Steps
<1>4. /\ disk.clone.merging
      /\ ~(RetriesLeft = 0 /\ (item.status = "VERIFIED" \/ pc \in Integrating))
  BY <1>1, <1>2, <1>3 DEF Uncounted
<1>5. RetriesLeft' = 0 /\ (item'.status = "VERIFIED" \/ pc' \in Integrating)
  BY <1>3, <1>4 DEF Uncounted
<1>6. item.status = "VERIFIED" \/ pc \in Integrating
  <2>1. CASE item'.status = "VERIFIED" /\ item.status # "VERIFIED"
    <3>1. StatusWriters
      <4>1. ~HumanHold
        BY <2>1 DEF HumanHold, SetStatus, Sound, Grounds, TypeOK, Item
      <4> QED
        BY <2>1, <4>1 DEF Steps, Framed, ItemFrames
    <3>2. /\ "VERIFIED" \in Written(pc) /\ pc # "idle" /\ (pc \in Unchecked \/ StatusFresh)
          /\ act.status \in Found(pc, act.role, act.next)
      BY <1>0, <2>1, <3>1, WritersWrite, Stands DEF Sound, Grounds
    <3>3. pc = "consume_status"
      <4>1. pc # "recover_resume"
        BY <3>2 DEF Sound, Grounds, Handoff, ByLabel, Resuming, Early, Written
      <4> QED
        BY <3>2, <4>1 DEF Written, Found, Again, Held
    <3>4. item.status = "REVIEWING"
      BY <3>2, <3>3 DEF Unchecked, StatusFresh, Expected, Found
    <3> QED
      BY <1>4, <3>4
      DEF Sound, Grounds, Handoff, ValidByStatus, Submitted, HandoffValid, Valid
  <2>2. CASE pc' \in Integrating
    <3>1. IntegrateMerge => pc \in Integrating \/ item.status = "VERIFIED"
      <4>1. CASE pc = "int_resume" /\ StatusFresh
        <5>1. act.status = "VERIFIED"
          BY <4>1, Stands DEF Sound, Grounds, Found
        <5> QED
          BY <4>1, <5>1 DEF StatusFresh, Expected
      <4> QED
        BY <4>1 DEF IntegrateMerge, Integrating
    <3>2. IntegrateBase => pc \in Integrating
      BY DEF IntegrateBase, Integrating
    <3> QED
      BY <2>2, <3>1, <3>2 DEF Steps, Tallied, Routed, Integrating
  <2> QED
    BY <1>5, <2>1, <2>2
<1> QED
  BY <1>4, <1>5, <1>6

LEMMA IntegratedStays ==
  ASSUME Sound, Steps, TypeOK', Integrated
  PROVE  Integrated'
<1>0. TypeOK
  BY DEF Sound, Grounds
<1>1. item.status = "DONE" => item'.status = "DONE"
  <2> SUFFICES ASSUME item.status = "DONE", item'.status # "DONE" PROVE FALSE
    OBVIOUS
  <2>1. StatusWriters
    BY DEF HumanHold, Steps, Framed, ItemFrames
  <2>2. /\ item'.status \in Written(pc) /\ pc # "idle"
        /\ act.status \in Found(pc, act.role, act.next)
        /\ Now(pc, act.status, act.role, act.next) = "DONE"
    BY <1>0, <2>1, WritersWrite, Stands DEF Sound, Grounds, Held
  <2>3. pc \notin {"review_wait", "review_status"}
    BY <2>2 DEF Sound, Grounds, Handoff, ByLabel, Reviewing, Submitted, Now
  <2> QED
    BY <2>2, <2>3 DEF Written, Found, Now, Again, Running, Submitted
<1>2. disk.cmeta.parent # 0 => disk'.cmeta.parent # 0 \/ item'.status = "DONE"
  <2> SUFFICES ASSUME disk.cmeta.parent # 0
               PROVE  disk'.cmeta.parent # 0 \/ item'.status = "DONE"
    OBVIOUS
  <2>1. ~DispatchMeta /\ ~UnwindFiles
    <3> SUFFICES ASSUME pc \in {"dispatch_meta", "unwind_files"} PROVE FALSE
      BY DEF DispatchMeta, UnwindFiles
    <3>1. act.status = "READY"
      BY Stands DEF Sound, Grounds, Found
    <3> QED
      BY <3>1 DEF Sound, Ready, Untargeted, Ledger, Dated
  <2>2. FinalizeFiles => item'.status = "DONE"
    BY DEF FinalizeFiles, Sound, Ledger, Finished, Finishing
  <2>3. IntegrateTarget => Impl.commit # 0
    BY DEF IntegrateTarget, Sound, Ready
  <2> QED
    BY <1>0, <2>1, <2>2, <2>3, BindingMoves DEF Steps
<1> QED
  BY <1>1, <1>2 DEF Integrated

(***************************************************************************)
(* Together: a step never spends more than it is given.                    *)
(***************************************************************************)
LEMMA OneTypes == \A b : One(b) \in {0, 1}
  BY DEF One

LEMMA UncountedAtGuard ==
  ASSUME Sound, Steps, TypeOK', RetryGuard, Uncounted'
  PROVE  Uncounted
<1> SUFFICES ASSUME ~Uncounted PROVE FALSE
  OBVIOUS
<1>1. /\ item' = item /\ item.status = "IN_PROGRESS" /\ pc' \notin Integrating
      /\ ~IntegrateTarget
  BY DEF RetryGuard, RetryStateFresh, Goto, SpawnAgent, Integrating, IntegrateTarget
<1> QED
  BY <1>1, UncountedMoves

\* The parts are small numbers, and most only move one way.
LEMMA PartsMove ==
  ASSUME Sound, Steps, TypeOK'
  PROVE  /\ RetriesLeft \in Nat /\ CorrectionsLeft \in Nat /\ ghost.runs \in Nat
         /\ env.grants \in Nat /\ env.quotas \in Nat /\ RetriesLeft' \in Nat
         /\ env'.grants \in Nat /\ env'.quotas \in Nat
         /\ env.grants <= env'.grants /\ env.quotas <= env'.quotas
         /\ One(InFlight') \in {0, 1} /\ One(Undispatched') \in {0, 1}
         /\ One(Continuing') \in {0, 1} /\ One(Uncounted') \in {0, 1}
         /\ One(Integrated') \in {0, 1} /\ One(InFlight) \in {0, 1}
         /\ One(Undispatched) \in {0, 1} /\ One(Continuing) \in {0, 1}
         /\ One(Uncounted) \in {0, 1} /\ One(Integrated) \in {0, 1}
         /\ One(Undispatched') <= One(Undispatched) /\ One(Integrated) <= One(Integrated')
<1>1. /\ RetriesLeft \in Nat /\ CorrectionsLeft \in Nat /\ ghost.runs \in Nat
      /\ env.grants \in Nat /\ env.quotas \in Nat /\ RetriesLeft' \in Nat
      /\ env'.grants \in Nat /\ env'.quotas \in Nat
      /\ env.grants <= env'.grants /\ env.quotas <= env'.quotas
  <2>1. RetriesLeft' \in Nat /\ env'.grants \in Nat /\ env'.quotas \in Nat
    BY SpareFacts DEF TypeOK, Item, Act, Env, RetriesLeft, Charged
  <2> QED
    BY <2>1, SpendTypes DEF Sound, Grounds, Steps, Tallied, Accounts
<1>2. One(Undispatched') <= One(Undispatched)
  BY UndispatchedMoves DEF One
<1>3. One(Integrated) <= One(Integrated')
  BY IntegratedStays DEF One
<1> QED
  BY <1>1, <1>2, <1>3, OneTypes

\* Everything but the launches, grants, quotas and integrations.
LEMMA BudgetKept ==
  ASSUME Sound, Steps, TypeOK', Budget, ghost'.runs = ghost.runs,
         ~ResumeStart, ~IntegrateTarget, ~IntegrateCount, ~RetryBudget,
         ~(RetryGuard /\ pc' = "spawn" /\ ~act.quota), ~WorkerQuota("implementer")
  PROVE  Budget'
<1>1. One(InFlight') <= One(InFlight)
  BY InFlightMoves DEF One
<1>2. One(Continuing') <= One(Continuing)
  BY ContinuingMoves DEF One
<1>3. RetriesLeft' + One(Uncounted') <= RetriesLeft + One(Uncounted)
  <2>1. RetriesLeft' <= RetriesLeft
    BY RetriesMove
  <2>2. CASE Uncounted' => Uncounted
    <3>1. One(Uncounted') <= One(Uncounted)
      BY <2>2 DEF One
    <3> QED
      BY <2>1, <3>1, PartsMove
  <2>3. CASE Uncounted' /\ ~Uncounted
    <3>1. RetriesLeft' = 0 /\ RetriesLeft # 0
      BY <2>3, UncountedMoves
    <3>2. One(Uncounted') = 1 /\ One(Uncounted) = 0
      BY <2>3 DEF One
    <3> QED
      BY <3>1, <3>2, PartsMove
  <2> QED
    BY <2>2, <2>3
<1>4. CorrectionsLeft' = CorrectionsLeft
  BY CorrectionsMove
<1> QED
  BY <1>1, <1>2, <1>3, <1>4, PartsMove, LifecycleAssumption DEF Budget, Spent, Due, Limit

\* A worker that starts was in flight, or the first one, or a continuation.
LEMMA BudgetAtLaunch ==
  ASSUME Sound, Steps, TypeOK', Budget, SpawnUnit, act.role = "implementer"
  PROVE  Budget'
<1>1. /\ ghost'.runs = ghost.runs + 1 /\ UNCHANGED <<item, disk, env>>
      /\ pc = "spawn_unit" /\ pc' \notin Counted
  BY SpawnUnitLands DEF SpawnUnit, Counted
<1>2. RetriesLeft' = RetriesLeft /\ CorrectionsLeft' = CorrectionsLeft
  BY <1>1 DEF RetriesLeft, Charged, Counted, CorrectionsLeft
<1>3. One(Uncounted') <= One(Uncounted)
  <2>1. ~IntegrateTarget
    BY <1>1 DEF IntegrateTarget
  <2> QED
    BY <1>2, <2>1, UncountedMoves DEF One
<1>4. /\ One(InFlight') = 0 /\ One(Continuing') = 0
      /\ \/ One(InFlight) = 1
         \/ One(Continuing) = 1
         \/ One(Undispatched) = 1 /\ One(Undispatched') = 0
  BY SpawnUnitPays DEF One
<1> QED
  BY <1>1, <1>2, <1>3, <1>4, PartsMove, LifecycleAssumption DEF Budget, Spent, Due, Limit

\* A worker gets in flight for a retry or a correction that is spent for it.
LEMMA BudgetAtRetry ==
  ASSUME Sound, Steps, TypeOK', Budget,
         \/ RetryGuard /\ pc' = "spawn" /\ ~act.quota
         \/ RetryBudget
  PROVE  Budget'
<1>1. /\ ~ResumeStart /\ ~IntegrateCount /\ ~IntegrateTarget /\ ~WorkerQuota("implementer")
      /\ ~SpawnUnit /\ item' = item
  BY DEF RetryGuard, RetryBudget, ResumeStart, IntegrateCount, IntegrateTarget, WorkerQuota,
         SpawnUnit, SpawnAgent, Goto
<1>2. ghost'.runs = ghost.runs
  BY <1>1 DEF Steps, Tallied, Accounts
<1>3. One(Continuing') <= One(Continuing)
  BY <1>1, ContinuingMoves DEF One
<1>4. CASE RetryBudget
  <2>1. RetriesLeft' = RetriesLeft
    BY <1>1, <1>4 DEF RetryBudget, SpawnAgent, RetriesLeft, Charged, Counted
  <2>2. One(Uncounted') <= One(Uncounted)
    BY <1>1, <2>1, UncountedMoves DEF One
  <2>3. CorrectionsLeft' = CorrectionsLeft - 1
    BY <1>4, CorrectionsMove
  <2> QED
    BY <1>2, <1>3, <2>1, <2>2, <2>3, PartsMove, LifecycleAssumption
    DEF Budget, Spent, Due, Limit
<1>5. CASE RetryGuard /\ pc' = "spawn" /\ ~act.quota
  <2>1. RetriesLeft' = RetriesLeft - 1
    BY <1>5, RetryPays
  <2>2. One(Uncounted') <= One(Uncounted)
    BY <1>5, UncountedAtGuard DEF One
  <2>3. CorrectionsLeft' = CorrectionsLeft
    <3>1. ~RetryBudget
      BY <1>5 DEF RetryGuard, RetryBudget
    <3> QED
      BY <3>1, CorrectionsMove
  <2> QED
    BY <1>2, <1>3, <2>1, <2>2, <2>3, PartsMove, LifecycleAssumption
    DEF Budget, Spent, Due, Limit
<1> QED
  BY <1>4, <1>5

\* A quota and a grant raise the limit by the one worker they ask for.
LEMMA BudgetAtGrant ==
  ASSUME Sound, Steps, TypeOK', Budget, WorkerQuota("implementer") \/ ResumeStart
  PROVE  Budget'
<1>1. /\ ~IntegrateCount /\ ~IntegrateTarget /\ ~RetryBudget /\ ~RetryGuard /\ ~SpawnUnit
  <2>1. env' # env
    BY SpendTypes DEF WorkerQuota, ResumeStart, Sound, Grounds, TypeOK, Env
  <2> QED
    BY <2>1 DEF IntegrateCount, IntegrateTarget, RetryBudget, RetryGuard, SpawnUnit
<1>2. ghost'.runs = ghost.runs /\ CorrectionsLeft' = CorrectionsLeft
  BY <1>1, CorrectionsMove DEF Steps, Tallied, Accounts
<1>3. One(InFlight') <= One(InFlight)
  BY <1>1, InFlightMoves DEF One
<1>4. CASE ResumeStart
  <2>1. env'.grants = env.grants + 1 /\ ~WorkerQuota("implementer")
    BY <1>4 DEF ResumeStart, WorkerQuota, Accept, Sound, Grounds, TypeOK, Env
  <2>2. RetriesLeft' = 1
    BY <1>4, RetriesMove
  <2>3. One(Uncounted') <= One(Uncounted)
    BY <1>1, <2>2, UncountedMoves DEF One
  <2>4. One(Continuing') <= One(Continuing)
    BY <2>1, ContinuingMoves DEF One
  <2> QED
    BY <1>2, <1>3, <2>1, <2>2, <2>3, <2>4, PartsMove, LifecycleAssumption
    DEF Budget, Spent, Due, Limit
<1>5. CASE WorkerQuota("implementer")
  <2>1. env'.quotas = env.quotas + 1 /\ UNCHANGED <<item, pc, act>>
    BY <1>5 DEF WorkerQuota, Sound, Grounds, TypeOK, Env
  <2>2. RetriesLeft' = RetriesLeft
    BY <2>1 DEF RetriesLeft, Charged
  <2>3. One(Uncounted') <= One(Uncounted)
    BY <1>1, <2>2, UncountedMoves DEF One
  <2> QED
    BY <1>2, <1>3, <2>1, <2>2, <2>3, PartsMove, LifecycleAssumption
    DEF Budget, Spent, Due, Limit
<1> QED
  BY <1>4, <1>5

\* The one integration raises the limit, and its attempt is counted once.
LEMMA BudgetAtIntegration ==
  ASSUME Sound, Steps, TypeOK', Budget, IntegrateTarget \/ IntegrateCount
  PROVE  Budget'
<1>1. /\ ~ResumeStart /\ ~RetryBudget /\ ~RetryGuard /\ ~SpawnUnit
      /\ ~WorkerQuota("implementer")
  BY DEF ResumeStart, IntegrateCount, IntegrateTarget, WorkerQuota, RetryGuard, RetryBudget,
         SpawnUnit, SpawnAgent, Goto, Accept
<1>2. ghost'.runs = ghost.runs /\ CorrectionsLeft' = CorrectionsLeft
  BY <1>1, CorrectionsMove DEF Steps, Tallied, Accounts
<1>3. One(InFlight') <= One(InFlight) /\ One(Continuing') <= One(Continuing)
  BY <1>1, InFlightMoves, ContinuingMoves DEF One
<1>4. CASE IntegrateTarget
  <2>1. ~Integrated
    <3>1. item.status = "VERIFIED"
      BY <1>4, Stands DEF IntegrateTarget, StatusFresh, Expected, Sound, Grounds, Found
    <3> QED
      BY <1>4, <3>1 DEF IntegrateTarget, Integrated, Sound, Ready
  <2>2. Integrated'
    <3>1. disk'.cmeta.parent = Impl.commit
      BY <1>4, SpendTypes, DiskTypes DEF IntegrateTarget, Sound, Grounds, Disk, CloneMeta
    <3> QED
      BY <1>4, <3>1 DEF IntegrateTarget, Integrated, Sound, Ready
  <2>3. One(Integrated) = 0 /\ One(Integrated') = 1
    BY <2>1, <2>2 DEF One
  <2>4. RetriesLeft' <= RetriesLeft
    <3>1. ~IntegrateCount
      BY <1>4 DEF IntegrateTarget, IntegrateCount
    <3> QED
      BY <1>1, <3>1, RetriesMove
  <2> QED
    BY <1>2, <1>3, <2>3, <2>4, PartsMove, LifecycleAssumption DEF Budget, Spent, Due, Limit
<1>5. CASE IntegrateCount
  <2>1. RetriesLeft' = 1
    BY <1>5, RetriesMove
  <2>2. /\ pc = "int_count" /\ disk' = disk /\ disk.clone.merging
        /\ disk.cmeta.parent # 0 /\ disk.clone.head = disk.cmeta.parent
    BY <1>5 DEF IntegrateCount, Sound, Ledger, Prepared, Integrating
  <2>3. ~Uncounted' /\ (RetriesLeft = 0 => Uncounted)
    BY <2>1, <2>2 DEF Uncounted, Integrating
  <2>4. One(Uncounted') = 0 /\ (RetriesLeft = 0 => One(Uncounted) = 1)
    BY <2>3 DEF One
  <2> QED
    BY <1>2, <1>3, <2>1, <2>4, PartsMove, LifecycleAssumption DEF Budget, Spent, Due, Limit
<1> QED
  BY <1>4, <1>5

LEMMA BudgetStep ==
  ASSUME Sound, Steps, TypeOK', Budget
  PROVE  Budget'
<1>1. CASE ghost'.runs # ghost.runs
  BY <1>1, BudgetAtLaunch DEF Steps, Tallied, Accounts
<1>2. CASE ghost'.runs = ghost.runs
  BY <1>2, BudgetKept, BudgetAtRetry, BudgetAtGrant, BudgetAtIntegration
<1> QED
  BY <1>1, <1>2

LEMMA InitSound == Init => Sound
  BY InitGrounds, InitReady, InitLedger DEF Sound

LEMMA SoundStep ==
  ASSUME Sound, TypeOK', [Next]_vars
  PROVE  Sound' /\ Steps
<1>1. Grounds /\ Ready /\ Ledger /\ TypeOK /\ UnitsByPhase
  BY DEF Sound, Grounds
<1>2. Grounds' /\ Framed /\ Guided
  BY <1>1, GroundsStep
<1>3. Tallied
  BY <1>1, AccountsHold, RoutedOrWaits DEF Tallied
<1>4. \A r \in ReviewRoles : ReviewerKept(r) \/ ReviewerWrites(r)
  BY <1>1, ReviewerFrames
<1>5. Ready'
  BY <1>1, <1>2, ReadyStep
<1>6. Ledger'
  BY <1>1, <1>2, <1>3, <1>4, LedgerStep
<1> QED
  BY <1>2, <1>3, <1>5, <1>6 DEF Sound, Steps

LEMMA BudgetHolds == Spec => [](TypeOK /\ Budget)
<1>1. Init => Sound /\ Budget
  BY InitSound, InitBudget
<1>2. Sound /\ Budget /\ TypeOK' /\ [Next]_vars => (Sound /\ Budget)'
  BY SoundStep, BudgetStep
<1> QED
  BY <1>1, <1>2, TypeCorrect, PTL DEF Spec

\* The implementer runs at most once for the dispatch, MaxRetries times for
\* retries and for corrections, and once for every grant of an operator, quota
\* and upstream integration, across crashes, rollbacks and relaunches.
THEOREM RunsArePaid == Spec => []LaunchBound
<1>1. TypeOK /\ Budget => LaunchBound
  BY BudgetBounds
<1> QED
  BY <1>1, BudgetHolds, PTL

(***************************************************************************)
(* Who works on a prepared merge finds it on the base the broker bound.    *)
(***************************************************************************)
\* A prepared merge whose base is not bound yet, and where the item then is.
Loose == disk.cmeta.base # disk.cmeta.target
Late == Settled \cup {"DONE", Held}

Bound ==
  /\ pc \in {"int_count", "int_status"} => ~Loose
  /\ pc \in Granted => env.grants > 0
  /\ pc = "final_files" => ~disk.clone.merging
  /\ disk.clone.merging => disk.cmeta.parent # 0 /\ disk.cmeta.parent = disk.clone.head
  /\ disk.clone.merging /\ Loose /\ env.grants = 0 =>
       item.status \in Late /\ (pc = "idle" \/ act.status \in Late)

LEMMA InitBound == Init => Bound
<1> SUFFICES ASSUME Init PROVE Bound
  OBVIOUS
<1>1. pc = "idle" /\ ~disk.clone.merging
  BY DEF Init, NoClone
<1> QED
  BY <1>1 DEF Bound, Granted

\* The base changes when it is bound, and with the clone.
LEMMA BaseMoves ==
  ASSUME TypeOK, Framed
  PROVE  \/ disk'.cmeta.base = disk.cmeta.base
         \/ DispatchMeta \/ UnwindFiles \/ FinalizeFiles
         \/ /\ IntegrateBase /\ disk'.cmeta.base = disk.cmeta.target
            /\ disk'.cmeta.target = disk.cmeta.target
<1>0. disk \in Disk /\ disk.cmeta \in CloneMeta
  BY DiskTypes
<1>1. CASE IntegrateBase
  BY <1>0, <1>1 DEF IntegrateBase, Disk, CloneMeta
<1>2. CASE IntegrateClose \/ RecordHost
  BY <1>0, <1>2 DEF IntegrateClose, RecordHost, Disk, CloneMeta
<1>3. CASE IntegrateTarget
  <2>1. disk'.cmeta = [disk.cmeta EXCEPT !.pending = TRUE, !.target = gh.tip,
                                         !.parent = Impl.commit]
    BY <1>0, <1>3 DEF IntegrateTarget, Disk
  <2> QED
    BY <1>0, <2>1 DEF CloneMeta
<1> QED
  BY <1>1, <1>2, <1>3 DEF Framed, DiskFrames, BindingWriters

\* A prepared merge stays as it was bound while there is one.
LEMMA MergeStays ==
  ASSUME Sound, Steps, TypeOK', Bound, disk.clone.merging, disk'.clone.merging
  PROVE  /\ disk'.cmeta.target = disk.cmeta.target /\ disk'.cmeta.parent = disk.cmeta.parent
         /\ disk'.clone.head = disk.clone.head
         /\ disk'.cmeta.base \in {disk.cmeta.base, disk.cmeta.target}
<1>0. TypeOK /\ disk.cmeta.parent # 0
  BY DEF Sound, Grounds, Bound
<1>1. disk'.clone # NoClone
  BY DEF NoClone
<1>2. ~DispatchMeta /\ ~UnwindFiles
  <2> SUFFICES ASSUME pc \in {"dispatch_meta", "unwind_files"} PROVE FALSE
    BY DEF DispatchMeta, UnwindFiles
  <2>1. act.status = "READY"
    BY Stands DEF Sound, Grounds, Found
  <2> QED
    BY <1>0, <2>1 DEF Sound, Ready, Untargeted, Ledger, Dated
<1>3. ~FinalizeFiles /\ ~IntegrateTarget
  BY <1>0 DEF FinalizeFiles, IntegrateTarget, Bound, Sound, Ready
<1>4. disk'.clone.head = disk.clone.head
  BY <1>0, <1>1, CloneMoves DEF Steps
<1> QED
  BY <1>0, <1>2, <1>3, <1>4, BindingMoves, BaseMoves DEF Steps

\* A merge is begun by the integration of an item that was VERIFIED.
LEMMA MergeBegins ==
  ASSUME Sound, Steps, TypeOK', ~disk.clone.merging, disk'.clone.merging
  PROVE  /\ IntegrateMerge /\ disk'.cmeta = disk.cmeta /\ item' = item /\ act' = act
         /\ disk.cmeta.parent # 0 /\ disk'.clone.head = disk.cmeta.parent
         /\ act.status = "VERIFIED" /\ item.status \in {"VERIFIED", Held}
<1>0. TypeOK /\ disk \in Disk
  BY DiskTypes DEF Sound, Grounds
<1>1. disk'.clone # NoClone
  BY DEF NoClone
<1>2. IntegrateMerge /\ disk'.clone.head = disk.clone.head
  BY <1>0, <1>1, CloneMoves DEF Steps
<1>3. disk'.cmeta = disk.cmeta /\ item' = item /\ act' = act /\ pc \in {"int_merge", "int_resume"}
  BY <1>0, <1>2 DEF IntegrateMerge, Goto, Disk
<1>4. act.status = "VERIFIED" /\ item.status \in {"VERIFIED", Held}
  BY <1>3, Stands DEF Sound, Grounds, Found, Now
<1> QED
  BY <1>2, <1>3, <1>4 DEF Sound, Ledger, Prepared, Integrating

\* Nothing but the integration and a grant takes a late item back to a worker.
LEMMA LateStays ==
  ASSUME Sound, Steps, TypeOK', pc \notin Granted \cup {"int_status"},
         item.status \in Late, pc = "idle" \/ act.status \in Late
  PROVE  item'.status \in Late /\ (pc' = "idle" \/ act'.status \in Late)
<1>0. TypeOK
  BY DEF Sound, Grounds
<1>1. item'.status \in Late
  <2>1. CASE item'.status = item.status
    BY <2>1
  <2>2. CASE HumanHold
    BY <1>0, <2>2 DEF HumanHold, SetStatus, TypeOK, Item, Late, Held
  <2>3. CASE StatusWriters /\ item'.status # item.status
    <3>1. /\ act.status \in Late
          /\ \/ Moving(pc, act.status, item'.status)
             \/ \E now \in Statuses : MovingOn(pc, act.status, now, item'.status)
      BY <2>3, WritersMove DEF Sound
    <3> QED
      BY <3>1
      DEF Moving, MovingOn, Late, Settled, Held, Granted, Running, Again, Submitted
  <2> QED
    BY <2>1, <2>2, <2>3 DEF Steps, Framed, ItemFrames
<1>2. pc' = "idle" \/ act'.status \in Late
  BY DEF Steps, Guided, Handles, Ends, Begins, GoesOn
<1> QED
  BY <1>1, <1>2

LEMMA BoundStep ==
  ASSUME Sound, Steps, TypeOK', Bound
  PROVE  Bound'
<1>0. TypeOK /\ env.grants \in Nat /\ env'.grants \in Nat /\ env.grants <= env'.grants
      /\ disk \in Disk /\ disk.cmeta \in CloneMeta
  BY DiskTypes DEF Sound, Grounds, TypeOK, Env, Steps, Tallied, Accounts
<1>1. pc' \in {"int_count", "int_status"} => ~Loose'
  <2>1. UNCHANGED <<pc, act>> => disk'.cmeta = disk.cmeta
    BY FilesWait DEF Steps
  <2>2. IntegrateBase => disk'.cmeta.base = disk'.cmeta.target
    BY <1>0 DEF IntegrateBase, Disk, CloneMeta
  <2>3. IntegrateCount => pc = "int_count" /\ disk' = disk
    BY DEF IntegrateCount
  <2> QED
    BY <2>1, <2>2, <2>3 DEF Bound, Loose, Steps, Tallied, Routed
<1>2. pc' \in Granted => env'.grants > 0
  BY <1>0 DEF Bound, Steps, Tallied, Routed
<1>3. pc' = "final_files" => ~disk'.clone.merging
  <2>1. pc' = "final_files" /\ UNCHANGED <<pc, act>> => disk'.clone = disk.clone
    <3>1. pc = "final_files" => ~ImplementerWorks
      BY RoleFacts
      DEF ImplementerWorks, Sound, Grounds, UnitsByPhase, UnitsByLabel, QuietLabels,
          NoUnitActive
    <3> QED
      BY <3>1, FilesWait DEF Steps
  <2>2. FinalizeStatus => pc' = "final_clone"
    BY DEF FinalizeStatus, Goto
  <2>3. FinalizeClone => ~disk'.clone.merging
    BY <1>0 DEF FinalizeClone, Disk, NoClone
  <2> QED
    BY <2>1, <2>2, <2>3 DEF Bound, Steps, Tallied, Routed, Finishing
<1>4. disk'.clone.merging =>
        disk'.cmeta.parent # 0 /\ disk'.cmeta.parent = disk'.clone.head
  BY MergeStays, MergeBegins DEF Bound
<1>5. ASSUME disk'.clone.merging, Loose', env'.grants = 0
      PROVE  item'.status \in Late /\ (pc' = "idle" \/ act'.status \in Late)
  <2>1. env.grants = 0
    BY <1>0, <1>5
  <2>2. CASE disk.clone.merging
    <3>1. Loose
      BY <1>5, <2>2, MergeStays DEF Loose
    <3>2. /\ item.status \in Late /\ (pc = "idle" \/ act.status \in Late)
          /\ pc \notin Granted \cup {"int_status"}
      BY <2>1, <2>2, <3>1 DEF Bound
    <3> QED
      BY <3>2, LateStays
  <2>3. CASE ~disk.clone.merging
    BY <1>0, <1>5, <2>3, MergeBegins DEF Late, Settled
  <2> QED
    BY <2>2, <2>3
<1> QED
  BY <1>1, <1>2, <1>3, <1>4, <1>5 DEF Bound

LEMMA BoundHolds == Spec => []Bound
<1>1. Init => Sound /\ Bound
  BY InitSound, InitBound
<1>2. Sound /\ Bound /\ TypeOK' /\ [Next]_vars => (Sound /\ Bound)'
  BY SoundStep, BoundStep
<1> QED
  BY <1>1, <1>2, TypeCorrect, PTL DEF Spec

\* A worker that finds a prepared merge works on the base and the commit that
\* prepare_upstream_integration bound, whatever base advances, faults and holds
\* came in between, unless an operator granted an attempt.
THEOREM MergesAreBound == Spec => []IntegrationBound
<1>1. Bound => IntegrationBound
  BY DEF Bound, Loose, Late, Settled, Held, IntegrationBound
<1> QED
  BY <1>1, BoundHolds, PTL

(***************************************************************************)
(* Rejections: a review that is called again, by a retry or to replace one *)
(* that ran out of quota, finds none to discard, or finds itself started.  *)
(***************************************************************************)
\* The second reviewer is dispatched only by a first dispatch.
FirstCalls ==
  pc = "review_security" \/ (Calling /\ act.next = "review_security") => FirstDispatch

\* A parked reviewer is as it was parked, or its files are being removed; later
\* jobs of its role have larger numbers.
Replaced ==
  /\ disk.wait.recovery \in {0, disk.wait.job.id}
  /\ pc = "review_unlink_job" => disk.result[act.role] = NoResult
  /\ pc = "spawn_unit" /\ act.role \in ReviewRoles => disk.wait.job.id < disk.job[act.role].id
  /\ \A r \in ReviewRoles :
       disk.wait.role = r /\ disk.wait.resume = "REVIEWING" =>
         \/ disk.wait.job.id < disk.job[r].id
         \/ /\ disk.job[r] \in {NoJob, disk.wait.job} /\ ~Active(r)
            /\ disk.result[r].kind \in {"quota", "none", "empty"}

\* The very review that is called runs, or has left a result.
Respawned(role) ==
  /\ disk.meta[role] = act.newmeta
  /\ Active(role) \/ disk.result[role] # NoResult
  /\ \/ act.newmeta.recovery = 0
     \/ disk.job[role] # NoJob /\ disk.job[role].id # act.newmeta.recovery

Discarding == {"review_stage", "review_pack", "review_unlink_result"}
Unrejected ==
  /\ pc \in Discarding /\ ~FirstDispatch => disk.result[act.role].kind # "reject"
  /\ pc = "review_check" /\ ~FirstDispatch =>
       \/ ~Active(act.role) /\ disk.result[act.role].kind # "reject"
       \/ Respawned(act.role)

Rejections == FirstCalls /\ Replaced /\ Unrejected

LEMMA InitRejections == Init => Rejections
<1> SUFFICES ASSUME Init PROVE Rejections
  OBVIOUS
<1>1. pc = "idle" /\ disk.wait = NoWait
  BY DEF Init
<1> QED
  BY <1>1
  DEF Rejections, FirstCalls, Replaced, Unrejected, Discarding, Calling, SpawnLabels,
      SpawnReviewLabels, NoWait, NoJob, ReviewRoles

\* What the reviewers' files and units do in a step.
ReviewersMove == \A r \in ReviewRoles : ReviewerKept(r) \/ ReviewerWrites(r)

\* What a recovery calls: the replacement of the parked review, by the provider
\* that has it already or by another one.
Replaces(role) ==
  /\ disk.meta[role].recovery = disk.wait.recovery
  /\ \/ Active(role)
     \/ disk.job[role] \notin {NoJob, disk.wait.job} /\ disk.result[role] # NoResult

LEMMA RecoveryCalls ==
  ASSUME TypeOK, DispatchRecovery, pc' = "review_check"
  PROVE  /\ act'.role = disk.wait.role /\ act'.next = "review_status" /\ act'.quota
         /\ act'.newmeta.head = gh.head /\ act'.newmeta.impl = Impl
         /\ act'.newmeta.tries = disk.meta[disk.wait.role].tries
         /\ act'.newmeta.recovery = disk.wait.recovery
         /\ Replaces(disk.wait.role) =>
              act'.newmeta.provider = disk.meta[disk.wait.role].provider
         /\ disk.meta[disk.wait.role].head = gh.head /\ disk.meta[disk.wait.role].impl = Impl
         /\ \/ disk.meta[disk.wait.role].recovery = disk.wait.recovery
            \/ disk.result[disk.wait.role].kind = "quota"
         /\ act'.newmeta \in Meta
<1> DEFINE role == disk.wait.role
           provider == IF Replaces(role) THEN disk.meta[role].provider
                       ELSE Candidate(role, item.provider)
<1>1. /\ CallReview([Payload EXCEPT !.quota = TRUE], role, provider, disk.meta[role].tries,
                    disk.wait.recovery, "review_status")
      /\ disk.meta[role].head = Impl.commit /\ disk.meta[role].impl = Impl
      /\ \/ disk.meta[role].recovery = disk.wait.recovery
         \/ disk.result[role].kind = "quota"
      /\ ReviewReady /\ role \in RequiredRoles
  BY DEF DispatchRecovery, Accept, Replaces
<1>2. Impl.commit = gh.head
  BY <1>1 DEF ReviewReady, Published
<1>3. Payload.result = disk.result /\ Payload.head = gh.head /\ Payload \in Act
  BY PayloadType DEF Payload
<1>4. /\ act'.role = role /\ act'.next = "review_status" /\ act'.quota
      /\ act'.newmeta = [provider |-> provider, head |-> gh.head, impl |-> Impl,
                         tries |-> disk.meta[role].tries, recovery |-> disk.wait.recovery]
  <2> HIDE DEF role, provider
  <2>1. ASSUME NEW a \in Act
        PROVE  LET b == [a EXCEPT !.quota = TRUE]
                   c == [b EXCEPT !.role = role, !.agent = provider, !.next = "review_status",
                                  !.newmeta = [provider |-> provider, head |-> b.head,
                                               impl |-> b.result["implementer"],
                                               tries |-> disk.meta[role].tries,
                                               recovery |-> disk.wait.recovery]]
               IN  /\ b.head = a.head /\ b.result = a.result
                   /\ c.role = role /\ c.next = "review_status" /\ c.quota
                   /\ c.newmeta = [provider |-> provider, head |-> b.head,
                                   impl |-> b.result["implementer"],
                                   tries |-> disk.meta[role].tries,
                                   recovery |-> disk.wait.recovery]
    BY DEF Act
  <2> QED
    BY <1>1, <1>3, <2>1 DEF CallReview, Impl
<1>5. provider \in Nat
  <2>1. Candidate(role, item.provider) \in Nat
    BY CandidateType
  <2> QED
    BY <1>1, <2>1, DiskTypes, RoleFacts DEF Meta
<1>6. act'.newmeta \in Meta
  <2>1. gh.head \in Nat /\ Impl \in Result /\ disk.meta[role] \in Meta /\ disk.wait \in Wait
    BY <1>1, DiskTypes, RoleFacts DEF TypeOK, GitHub, Impl
  <2> QED
    BY <1>4, <1>5, <2>1 DEF Meta, Wait
<1>7. Replaces(role) => provider = disk.meta[role].provider
  OBVIOUS
<1>8. /\ act'.newmeta.provider = provider /\ act'.newmeta.head = gh.head
      /\ act'.newmeta.impl = Impl /\ act'.newmeta.tries = disk.meta[role].tries
      /\ act'.newmeta.recovery = disk.wait.recovery
  <2> HIDE DEF role, provider
  <2> QED
    BY <1>4
<1> HIDE DEF provider
<1> QED
  BY <1>1, <1>2, <1>4, <1>6, <1>7, <1>8

\* The first dispatch is one.
LEMMA DispatchIsFirst ==
  ASSUME TypeOK, DispatchReview
  PROVE  FirstDispatch'
<1>1. Payload \in Act /\ item.status = "IMPLEMENTED" /\ ~Recovering
  BY PayloadType DEF DispatchReview, ReviewReady
<1>2. /\ Payload.status = item.status /\ Payload.quota = FALSE
      /\ Payload.wait = disk.wait /\ Payload.result = disk.result
  BY DEF Payload
<1>3. /\ act'.status = Payload.status /\ act'.quota = Payload.quota
      /\ act'.wait = Payload.wait /\ act'.result = Payload.result
  <2> DEFINE provider == Candidate("reviewer", item.provider)
             next == IF HighRisk THEN "review_security" ELSE "review_status"
  <2> HIDE DEF provider, next
  <2>1. CASE Queue(Payload, "queue", "reviewer", item.provider, "IMPLEMENTED")
    BY <1>1, <2>1 DEF Queue, Act
  <2>2. CASE CallReview(Payload, "reviewer", provider, 0, 0, next)
    BY <1>1, <2>2 DEF CallReview, Act
  <2> QED
    BY <2>1, <2>2 DEF DispatchReview, provider, next
<1> QED
  BY <1>1, <1>2, <1>3 DEF FirstDispatch, ReplacementDue, Recovering, Impl

LEMMA FirstCallsStep ==
  ASSUME Sound, Steps, FirstCalls
  PROVE  FirstCalls'
<1>0. TypeOK /\ UnitsByPhase /\ act \in Act /\ Payload \in Act
  BY PayloadType DEF Sound, Grounds, TypeOK
<1> SUFFICES ASSUME pc' = "review_security" \/ (Calling' /\ act'.next = "review_security")
             PROVE  FirstDispatch'
  BY DEF FirstCalls
<1>1. CASE UNCHANGED <<pc, act>>
  BY <1>1 DEF FirstCalls, FirstDispatch, ReplacementDue, Calling
<1>2. CASE Came /\ pc' = "review_security"
  <2>1. /\ act' = act /\ act.next = "review_security"
        /\ pc = "review_check" \/ pc = "spawn_unit"
    BY <1>2
    DEF Came, ReviewCheck, SpawnUnit, Resume, Return, Goto
  <2>2. Calling
    BY <1>0, <2>1
    DEF Calling, SpawnReviewLabels, SpawnLabels, UnitsByPhase, CallsByLabel
  <2> QED
    BY <2>1, <2>2 DEF FirstCalls, FirstDispatch, ReplacementDue
<1>3. CASE Came /\ Calling' /\ act'.next = "review_security"
  <2>1. CASE pc' = "review_check"
    <3>1. CASE DispatchReview
      BY <1>0, <3>1, DispatchIsFirst
    <3>2. CASE DispatchSecurity
      <4>1. act'.next = "review_status"
        BY <1>0, <2>1, <3>2 DEF DispatchSecurity, CallReview, Return, Act
      <4> QED
        BY <1>3, <4>1
    <3>3. CASE DispatchRecovery
      <4>1. act'.next = "review_status"
        BY <1>0, <2>1, <3>3, RecoveryCalls
      <4> QED
        BY <1>3, <4>1
    <3>4. CASE RetryReview
      <4>1. act'.next = "review_note"
        BY <1>0, <2>1, <3>4 DEF RetryReview, Queue, CallReview, Return, Act
      <4> QED
        BY <1>3, <4>1
    <3> QED
      BY <1>3, <2>1, <3>1, <3>2, <3>3, <3>4 DEF Came
  <2>2. CASE pc' \in SpawnReviewLabels \ {"review_check"}
    BY <1>3, <2>2 DEF Came, FirstCalls, FirstDispatch, ReplacementDue, Calling
  <2>3. CASE pc' = "spawn"
    <3>1. ReviewMeta
      <4>1. DispatchSpawn \/ RetryGuard \/ RetryBudget => act'.role = "implementer"
        BY <1>0, <2>3 DEF DispatchSpawn, RetryGuard, RetryBudget, SpawnAgent, Goto, Return, Act
      <4> QED
        BY <1>3, <2>3, <4>1 DEF Came, Calling, SpawnReviewLabels
    <3>2. /\ pc = "review_meta" /\ act'.next = act.next
          /\ act'.status = act.status /\ act'.quota = act.quota
          /\ act'.wait = act.wait /\ act'.result = act.result
      BY <1>0, <2>3, <3>1 DEF ReviewMeta, SpawnAgent, Goto, Act
    <3> QED
      BY <1>3, <3>2 DEF FirstCalls, FirstDispatch, ReplacementDue, Calling, SpawnReviewLabels
  <2>4. CASE pc' \in {"spawn_job", "spawn_unit"}
    <3>1. act' = act /\ pc \in SpawnLabels
      BY <1>3, <2>4 DEF Came, SpawnTruncate, SpawnJob, Goto, SpawnLabels
    <3> QED
      BY <1>3, <2>4, <3>1 DEF FirstCalls, FirstDispatch, ReplacementDue, Calling, SpawnReviewLabels
  <2> QED
    BY <1>3, <2>1, <2>2, <2>3, <2>4 DEF Calling, SpawnLabels
<1> QED
  BY <1>1, <1>2, <1>3 DEF Steps, Guided

\* The files of the reviewer that is called are written by nobody else.
LEMMA CalledRests ==
  ASSUME Sound, ReviewersMove, UNCHANGED <<pc, act>>,
         pc \in SpawnReviewLabels \cup {"spawn_unit"}, act.role \in ReviewRoles
  PROVE  /\ disk'.job[act.role] = disk.job[act.role]
         /\ unit'[act.role] \in {unit[act.role], NoJob}
         /\ \/ disk'.result[act.role] = disk.result[act.role]
            \/ Active(act.role) /\ disk'.result[act.role].kind # "none"
<1>0. TypeOK
  BY DEF Sound, Grounds
<1>1. ~SpawnJob /\ ~SpawnTruncate /\ ~FinalizeFiles /\ ~ReviewUnlinkJob /\ ~ReviewUnlinkResult
  BY DEF SpawnJob, SpawnTruncate, FinalizeFiles, ReviewUnlinkJob, ReviewUnlinkResult,
         SpawnReviewLabels, Goto
<1>3. ~SpawnUnit
  BY RoleFacts
  DEF SpawnUnit, Resume, Sound, Grounds, UnitsByPhase, CallsByLabel, SpawnLabels
<1>2. pc # "idle"
  BY DEF SpawnReviewLabels
<1> QED
  BY <1>0, <1>1, <1>2, <1>3, ReportMoves, ReviewJobMoves, ReviewUnitMoves DEF ReviewersMove

LEMMA ReplacedStep ==
  ASSUME Sound, Waits, TypeOK', Replaced, Steps, ReviewersMove
  PROVE  Replaced'
<1>0. /\ TypeOK /\ disk \in Disk /\ act \in Act /\ act.role \in Roles /\ disk.wait \in Wait
      /\ Numbered /\ UnitsByPhase /\ CallIsAboutHead
  BY DiskTypes DEF Sound, Grounds, Evidence, Ledger, TypeOK, Act
<1>1. disk'.wait.recovery \in {0, disk'.wait.job.id}
  <2>1. CASE QueueWait
    BY <1>0, <2>1 DEF QueueWait, Parked, NoWait, Disk
  <2>2. CASE RecoverReview
    <3>1. disk'.wait.recovery = disk.wait.job.id /\ disk'.wait.job = disk.wait.job
      BY <1>0, <2>2 DEF RecoverReview, Disk, Wait
    <3> QED
      BY <3>1
  <2>3. CASE ~QueueWait /\ ~RecoverReview
    BY <2>3 DEF Replaced, Steps, Framed, DiskFrames
  <2> QED
    BY <2>1, <2>2, <2>3
<1>2. pc' = "review_unlink_job" => disk'.result[act'.role] = NoResult
  <2>1. CASE UNCHANGED <<pc, act>>
    <3> SUFFICES ASSUME pc = "review_unlink_job" PROVE disk'.result[act.role] = NoResult
      BY <2>1
    <3>1. act.role \in ReviewRoles /\ ~Active(act.role)
      BY <1>0, RoleFacts
      DEF UnitsByPhase, CallsByLabel, CallIsAboutHead, Calling, SpawnReviewLabels
    <3> QED
      BY <2>1, <3>1, CalledRests DEF Replaced, SpawnReviewLabels
  <2>2. CASE ReviewUnlinkResult
    BY <1>0, <2>2, DiskTypes DEF ReviewUnlinkResult, Goto, Disk
  <2> QED
    BY <2>1, <2>2 DEF Steps, Guided, Came
<1>3. pc' = "spawn_unit" /\ act'.role \in ReviewRoles =>
        disk'.wait.job.id < disk'.job[act'.role].id
  <2>1. CASE UNCHANGED <<pc, act>>
    <3> SUFFICES ASSUME pc = "spawn_unit", act.role \in ReviewRoles
                 PROVE  disk'.wait.job.id < disk'.job[act.role].id
      BY <2>1
    <3>1. disk'.wait.job = disk.wait.job
      BY <2>1, FilesWait DEF Steps
    <3> QED
      BY <2>1, <3>1, CalledRests DEF Replaced
  <2>2. CASE SpawnJob
    <3>1. /\ disk'.wait = disk.wait /\ act'.role = act.role
          /\ disk'.job[act.role].id = env.launches + 1
      BY <1>0, <2>2, DiskTypes DEF SpawnJob, Goto, Disk
    <3> QED
      BY <1>0, <3>1, NumberTypes DEF Numbered
  <2> QED
    BY <2>1, <2>2 DEF Steps, Guided, Came
<1>4. ASSUME NEW r \in ReviewRoles, disk'.wait.role = r, disk'.wait.resume = "REVIEWING"
      PROVE  \/ disk'.wait.job.id < disk'.job[r].id
             \/ /\ disk'.job[r] \in {NoJob, disk'.wait.job} /\ unit'[r] = NoJob
                /\ disk'.result[r].kind \in {"quota", "none", "empty"}
  <2>0. r \in Roles
    BY RoleFacts
  <2>1. CASE QueueWait
    <3>1. /\ act.role = r /\ act.resume = "REVIEWING" /\ disk'.wait.job = disk.job[r]
          /\ disk'.job = disk.job /\ disk'.result = disk.result /\ unit' = unit /\ pc = "queue"
      BY <1>0, <1>4, <2>1 DEF QueueWait, Parked, NoWait, Disk
    <3> QED
      BY <3>1 DEF Waits, Exhausted, Active
  <2>2. CASE ~QueueWait
    <3>0. disk.wait.role = r /\ disk.wait.resume = "REVIEWING" /\ disk'.wait.job = disk.wait.job
      BY <1>4, <2>2 DEF Steps, Framed, DiskFrames
    <3>1. CASE SpawnJob /\ act.role = r /\ disk'.job[r].id = env.launches + 1
      BY <1>0, <3>0, <3>1, NumberTypes DEF Numbered
    <3>2. CASE ReviewUnlinkJob /\ act.role = r /\ disk'.job[r] = NoJob
      <4>1. ~Active(r) /\ disk.result[r] = NoResult
        BY <1>0, <3>2 DEF ReviewUnlinkJob, CallIsAboutHead, Calling, SpawnReviewLabels, Replaced
      <4>2. disk'.result = disk.result /\ unit' = unit
        BY <1>0, <3>2 DEF ReviewUnlinkJob, Disk
      <4> QED
        BY <3>2, <4>1, <4>2 DEF NoResult, Simple, Active
    <3>3. CASE FinalizeFiles
      <4>1. unit' = unit /\ disk'.job[r] = NoJob /\ disk'.result[r] = NoResult
        BY <1>0, <2>0, <3>3 DEF FinalizeFiles, Disk
      <4>2. ~Active(r)
        BY <1>0, <2>0, <3>3 DEF FinalizeFiles, UnitsByPhase, UnitsByLabel, QuietLabels, NoUnitActive
      <4> QED
        BY <4>1, <4>2 DEF NoResult, Simple, Active
    <3>4. CASE disk'.job[r] = disk.job[r] /\ ~FinalizeFiles
      <4>1. CASE disk.wait.job.id < disk.job[r].id
        BY <3>0, <3>4, <4>1
      <4>2. CASE /\ disk.job[r] \in {NoJob, disk.wait.job} /\ ~Active(r)
                 /\ disk.result[r].kind \in {"quota", "none", "empty"}
                 /\ ~(disk.wait.job.id < disk.job[r].id)
        <5>1. ~(SpawnUnit /\ act.role = r)
          BY <4>2 DEF Replaced, SpawnUnit
        <5>2. unit'[r] = NoJob
          BY <1>0, <4>2, <5>1, ReviewUnitMoves DEF ReviewersMove, Active
        <5>3. disk'.result[r].kind \in {"quota", "none", "empty"}
          BY <1>0, <4>2, ReportMoves DEF ReviewersMove, NoResult, Simple
        <5> QED
          BY <3>0, <3>4, <4>2, <5>2, <5>3
      <4> QED
        BY <3>0, <4>1, <4>2 DEF Replaced
    <3> QED
      BY <1>0, <3>1, <3>2, <3>3, <3>4, ReviewJobMoves DEF ReviewersMove
  <2> QED
    BY <2>1, <2>2
<1> QED
  BY <1>1, <1>2, <1>3, <1>4 DEF Replaced, Active

\* Nobody at work, and nothing that could be discarded.
LEMMA CallFindsNone ==
  ASSUME Sound, ReviewersMove, UNCHANGED <<pc, act>>, pc \in SpawnReviewLabels,
         ~Active(act.role), disk.result[act.role].kind # "reject"
  PROVE  unit'[act.role] = NoJob /\ disk'.result[act.role].kind # "reject"
<1>1. act.role \in ReviewRoles
  BY RoleFacts DEF Sound, Grounds, UnitsByPhase, CallsByLabel
<1> QED
  BY <1>1, CalledRests DEF Active

LEMMA RespawnedStays ==
  ASSUME Sound, Truncated, Steps, ReviewersMove, UNCHANGED <<pc, act>>, pc = "review_check",
         Respawned(act.role)
  PROVE  Respawned(act.role)'
<1>0. act.role \in ReviewRoles
  BY RoleFacts DEF Sound, Grounds, UnitsByPhase, CallsByLabel, SpawnReviewLabels
<1>1. disk'.meta = disk.meta
  BY DEF Steps, Framed, DiskFrames, ReviewMeta, FinalizeFiles
<1>2. /\ disk'.job[act.role] = disk.job[act.role]
      /\ unit'[act.role] \in {unit[act.role], NoJob}
      /\ \/ disk'.result[act.role] = disk.result[act.role]
         \/ Active(act.role) /\ disk'.result[act.role].kind # "none"
  BY <1>0, CalledRests DEF SpawnReviewLabels
<1>3. Active(act.role) => disk.result[act.role] = Simple("empty")
  BY <1>0 DEF Truncated
<1>4. Simple("empty") # NoResult /\ NoResult.kind = "none"
  BY DEF Simple, NoResult
<1>5. unit'[act.role] # NoJob \/ disk'.result[act.role] # NoResult
  BY <1>2, <1>3, <1>4 DEF Respawned, Active
<1> QED
  BY <1>1, <1>2, <1>5 DEF Respawned, Active

\* A recovery finds the quota report, or no report, or the replacement.
LEMMA RecoveryFinds ==
  ASSUME Sound, Truncated, Replaced, DispatchRecovery, pc' = "review_check"
  PROVE  \/ ~Active(act'.role) /\ disk.result[act'.role].kind # "reject"
         \/ /\ disk.meta[act'.role] = act'.newmeta
            /\ Active(act'.role) \/ disk.result[act'.role] # NoResult
            /\ \/ act'.newmeta.recovery = 0
               \/ /\ disk.job[act'.role] # NoJob
                  /\ disk.job[act'.role].id # act'.newmeta.recovery
<1> DEFINE r == disk.wait.role
<1>0. /\ TypeOK /\ r \in ReviewRoles /\ disk.wait.resume = "REVIEWING" /\ act'.role = r
      /\ disk.wait.job.id \in Nat /\ disk.meta[r] \in Meta /\ r \in Roles
      /\ disk.job[r].id \in Nat
  BY RecoveryCalls, RoleFacts, DiskTypes, NumberTypes
  DEF Sound, Grounds, DispatchRecovery, Recovering
<1>1. CASE disk.meta[r].recovery # disk.wait.recovery
  <2>1. disk.result[r].kind = "quota"
    BY <1>0, <1>1, RecoveryCalls
  <2>2. ~Active(r)
    BY <1>0, <2>1 DEF Truncated, Simple
  <2> QED
    BY <1>0, <2>1, <2>2
<1>2. CASE disk.meta[r].recovery = disk.wait.recovery /\ ~Replaces(r)
  <2>1. \/ disk.job[r] \in {NoJob, disk.wait.job} \/ disk.result[r] = NoResult
    BY <1>2 DEF Replaces
  <2>2. ~Active(r)
    BY <1>2 DEF Replaces
  <2>3. NoJob.id = 0 /\ NoResult.kind = "none"
    BY DEF NoJob, NoResult, Simple
  <2>4. disk.result[r].kind # "reject"
    BY <1>0, <2>1, <2>3 DEF Replaced
  <2> QED
    BY <1>0, <2>2, <2>4
<1>3. CASE Replaces(r)
  <2>1. disk.meta[r] = act'.newmeta
    <3>1. /\ act'.newmeta \in Meta /\ act'.newmeta.provider = disk.meta[r].provider
          /\ act'.newmeta.head = disk.meta[r].head /\ act'.newmeta.impl = disk.meta[r].impl
          /\ act'.newmeta.tries = disk.meta[r].tries
          /\ act'.newmeta.recovery = disk.meta[r].recovery
      BY <1>0, <1>3, RecoveryCalls DEF Replaces
    <3>2. \A m, n \in Meta :
            /\ m.provider = n.provider /\ m.head = n.head /\ m.impl = n.impl
            /\ m.tries = n.tries /\ m.recovery = n.recovery
            => m = n
      BY DEF Meta
    <3> QED
      BY <1>0, <3>1, <3>2
  <2>2. disk.wait.job.id < disk.job[r].id
    <3>1. NoJob.id = 0
      BY DEF NoJob
    <3> QED
      BY <1>0, <1>3, <3>1 DEF Replaces, Replaced
  <2>3. disk.job[r] # NoJob /\ (disk.wait.recovery = 0 \/ disk.job[r].id # disk.wait.recovery)
    BY <1>0, <2>2 DEF Replaced, NoJob
  <2>4. act'.newmeta.recovery = disk.wait.recovery
    BY <1>0, RecoveryCalls
  <2> QED
    BY <1>0, <1>3, <2>1, <2>3, <2>4 DEF Replaces
<1> QED
  BY <1>1, <1>2, <1>3 DEF Replaces

LEMMA UnrejectedStep ==
  ASSUME Sound, Truncated, Rejections, Steps, ReviewersMove
  PROVE  Unrejected'
<1>0. /\ TypeOK /\ disk \in Disk /\ act \in Act /\ UnitsByPhase /\ CallIsAboutHead /\ Replaced
      /\ pc \in SpawnReviewLabels => act.role \in ReviewRoles
      /\ pc \in SpawnReviewLabels /\ pc # "review_check" => ~Active(act.role)
  BY RoleFacts
  DEF Sound, Grounds, TypeOK, Evidence, CallIsAboutHead, Calling, UnitsByPhase, CallsByLabel,
      Rejections
<1>1. ASSUME pc' \in Discarding, ~FirstDispatch'
      PROVE  disk'.result[act'.role].kind # "reject"
  <2>1. CASE UNCHANGED <<pc, act>>
    <3>1. pc \in SpawnReviewLabels /\ ~Active(act.role)
          /\ disk.result[act.role].kind # "reject"
      BY <1>0, <1>1, <2>1
      DEF Discarding, SpawnReviewLabels, Rejections, Unrejected, FirstDispatch, ReplacementDue
    <3> QED
      BY <2>1, <3>1, CallFindsNone
  <2>2. CASE Came /\ ReviewCheck
    <3>1. act' = act /\ disk' = disk /\ ~Active(act.role) /\ ~AlreadySpawned(act.role)
          /\ pc = "review_check"
      <4>1. act.next \notin Discarding /\ "idle" \notin Discarding
        BY <1>0, <2>2
        DEF ReviewCheck, UnitsByPhase, CallsByLabel, SpawnReviewLabels, Discarding
      <4> QED
        BY <1>1, <2>2, <4>1 DEF ReviewCheck, Resume, Return, Goto
    <3>2. ~Respawned(act.role)
      BY <3>1 DEF Respawned, AlreadySpawned
    <3>3. ~FirstDispatch
      BY <1>1, <3>1 DEF FirstDispatch, ReplacementDue
    <3> QED
      BY <3>1, <3>2, <3>3 DEF Rejections, Unrejected
  <2>3. CASE ReviewMeta \/ ReviewPack
    <3>1. pc \in Discarding /\ act' = act /\ disk'.result = disk.result
      BY <1>0, <1>1, <2>3
      DEF ReviewMeta, ReviewPack, Goto, SpawnAgent, Discarding, Disk
    <3> QED
      BY <1>1, <3>1 DEF Rejections, Unrejected, FirstDispatch, ReplacementDue
  <2> QED
    BY <1>1, <2>1, <2>2, <2>3 DEF Steps, Guided, Came, Discarding
<1>2. ASSUME pc' = "review_check", ~FirstDispatch'
      PROVE  \/ unit'[act'.role] = NoJob /\ disk'.result[act'.role].kind # "reject"
             \/ Respawned(act.role)'
  <2>1. CASE UNCHANGED <<pc, act>>
    <3>1. \/ ~Active(act.role) /\ disk.result[act.role].kind # "reject"
          \/ Respawned(act.role)
      BY <1>2, <2>1 DEF Rejections, Unrejected, FirstDispatch, ReplacementDue
    <3> QED
      BY <1>2, <2>1, <3>1, CallFindsNone, RespawnedStays DEF SpawnReviewLabels
  <2>2. CASE DispatchReview \/ DispatchSecurity
    <3>1. CASE DispatchReview
      <4>1. FirstDispatch'
        BY <1>0, <3>1, DispatchIsFirst
      <4> QED
        BY <1>2, <4>1
    <3>2. CASE DispatchSecurity
      <4>1. /\ act'.status = act.status /\ act'.quota = act.quota /\ pc = "review_security"
            /\ act'.wait = act.wait /\ act'.result = act.result
        BY <1>0, <1>2, <3>2 DEF DispatchSecurity, CallReview, Return, Act
      <4> QED
        BY <1>2, <4>1 DEF Rejections, FirstCalls, FirstDispatch, ReplacementDue
    <3> QED
      BY <2>2, <3>1, <3>2
  <2>3. CASE RetryReview
    <3>1. act'.role = act.role /\ ReviewFailed(act.role) /\ UNCHANGED <<disk, unit>>
      BY <1>0, <1>2, <2>3 DEF RetryReview, Queue, CallReview, Return, Act
    <3>2. disk.result[act.role].kind # "reject" /\ ~Active(act.role)
      BY <3>1 DEF ReviewFailed, ParsesReview, NoResult, Simple
    <3> QED
      BY <3>1, <3>2 DEF Active
  <2>4. CASE DispatchRecovery
    <3>1. UNCHANGED <<disk, unit>>
      BY <2>4 DEF DispatchRecovery
    <3> QED
      BY <1>0, <1>2, <2>4, <3>1, RecoveryFinds DEF Respawned, Active
  <2> QED
    BY <1>2, <2>1, <2>2, <2>3, <2>4 DEF Steps, Guided, Came
<1> QED
  BY <1>1, <1>2 DEF Unrejected, Active

LEMMA RejectionStands ==
  ASSUME Sound, Truncated, Rejections, ReviewersMove, NEW r \in RequiredRoles,
         disk.result[r].kind = "reject", disk'.result[r].kind # "reject", item.status # "DONE"
  PROVE  FirstDispatch
<1>0. TypeOK /\ r \in ReviewRoles
  BY RoleFacts DEF Sound, Grounds
<1>1. ~(SpawnTruncate /\ act.role = r)
  BY RoleFacts, <1>0
  DEF SpawnTruncate, Sound, Grounds, Evidence, CallIsAboutHead, Calling, SpawnLabels, ParsesReview
<1>2. ~FinalizeFiles
  BY DEF FinalizeFiles, Sound, Ledger, Finished, Finishing
<1>3. ~Active(r)
  BY <1>0 DEF Truncated, Simple
<1>4. ReviewUnlinkResult /\ act.role = r
  BY <1>0, <1>1, <1>2, <1>3, ReportMoves DEF ReviewersMove
<1> QED
  BY <1>4 DEF ReviewUnlinkResult, Rejections, Unrejected, Discarding

\* A rejection is discarded by a first dispatch of the review only, whatever
\* happens in between: retries, quotas, replacements, crashes and holds.
THEOREM RejectionsAreKept == Spec => RejectionsStand
<1>1. Init => Sound /\ Truncated /\ Waits /\ Rejections
  BY InitSound, InitWaits, InitRejections
<1>2. ASSUME Sound, Truncated, Waits, Rejections, TypeOK', [Next]_vars
      PROVE  /\ (Sound /\ Truncated /\ Waits /\ Rejections)'
             /\ [\A r \in RequiredRoles :
                   disk.result[r].kind = "reject" /\ disk'.result[r].kind # "reject"
                     /\ item.status # "DONE" => FirstDispatch]_vars
  <2>1. Sound' /\ Steps /\ Grounds /\ TypeOK
    BY <1>2, SoundStep DEF Sound, Grounds
  <2>2. ReviewersMove
    BY <1>2, <2>1, ReviewerFrames DEF ReviewersMove
  <2>3. Truncated' /\ Waits'
    BY <1>2, <2>1, <2>2, TruncatedStep, WaitsStep DEF Steps, ReviewersMove
  <2>4. FirstCalls' /\ Replaced' /\ Unrejected'
    BY <1>2, <2>1, <2>2, FirstCallsStep, ReplacedStep, UnrejectedStep DEF Rejections
  <2> QED
    BY <1>2, <2>1, <2>2, <2>3, <2>4, RejectionStands DEF Rejections
<1> QED
  BY <1>1, <1>2, TypeCorrect, PTL DEF Spec, RejectionsStand
=============================================================================
