------------------------------- MODULE Review -------------------------------
(***************************************************************************)
(* Publication and review: publish_pr, dispatch_review, spawn_review,      *)
(* consume_review, retry_review, and the operator commands that return an  *)
(* item to REVIEWING or register a host validation.                        *)
(***************************************************************************)
EXTENDS Implementation

Impl == disk.result["implementer"]

(***************************************************************************)
(* publish_pr.  lifecycle_action makes it a dispatch_review once the open  *)
(* pull request is at the implementation's commit.                         *)
(***************************************************************************)
Published == gh.pr # "none" /\ ParsesImplementation(Impl) /\ Impl.commit = gh.head

CanFastForward ==
  gh.pr = "open" /\ gh.head = gh.remote /\ Ancestor(gh.remote, Impl.commit)

PublishStart ==
  /\ pc = "idle" /\ item.status = "IMPLEMENTED" /\ ~Published
  /\ ParsesImplementation(Impl) /\ Valid(Impl.commit)
  /\ gh.pr = "merged" => gh.remote \in {0, Impl.commit}
  /\ Accept(CASE gh.remote = Impl.commit -> "publish_pr"
              [] gh.remote = 0 \/ CanFastForward -> "publish_push"
              [] OTHER -> "publish_hold")
  /\ UNCHANGED <<item, disk, unit, gh, health, env, ghost>>

\* The remote branch is not ours to move.
PublishHold ==
  /\ pc = "publish_hold" /\ StatusFresh
  /\ SetStatus("WAITING_HUMAN")
  /\ Return
  /\ UNCHANGED <<disk, unit, gh, health, env, ghost>>

\* git push without force: the server takes a fast-forward only, and GitHub
\* recomputes the pull request.
PublishPush ==
  /\ pc = "publish_push"
  /\ \/ /\ gh.remote = 0 \/ Ancestor(gh.remote, Impl.commit)
        /\ gh' = [gh EXCEPT !.remote = Impl.commit,
                            !.head = IF gh.pr = "open" THEN Impl.commit ELSE @,
                            !.ci = "pending",
                            !.conflict = @ /\ disk.clone.based # gh.tip]
        /\ Goto("publish_pr")
     \/ /\ ~(gh.remote = 0 \/ Ancestor(gh.remote, Impl.commit))
        /\ Return /\ UNCHANGED gh
  /\ UNCHANGED <<item, disk, unit, health, env, ghost>>

\* gh pr create unless there is one; the status stays IMPLEMENTED.
PublishPr ==
  /\ pc = "publish_pr"
  /\ gh' = IF gh.pr = "none" THEN [gh EXCEPT !.pr = "open", !.head = gh.remote] ELSE gh
  /\ Return
  /\ UNCHANGED <<item, disk, unit, health, env, ghost>>

PublishSteps == PublishStart \/ PublishHold \/ PublishPush \/ PublishPr

(***************************************************************************)
(* spawn_review(role, provider, tries, recovery), called with the payload  *)
(* a; its caller goes on at next.                                          *)
(***************************************************************************)
CallReview(a, role, provider, tries, recovery, next) ==
  /\ pc' = "review_check"
  /\ act' = [a EXCEPT !.role = role, !.agent = provider, !.next = next,
                      !.newmeta = [provider |-> provider, head |-> a.head,
                                   impl |-> a.result["implementer"],
                                   tries |-> tries, recovery |-> recovery]]

\* The fresh_lifecycle_item inside spawn_review.
StillFresh ==
  /\ item.status = act.status /\ item.provider = act.provider /\ item.retry = act.retry
  /\ gh.head = act.head
  /\ act.status = "REVIEWING" =>
       \A r \in ReviewRoles : disk.result[r] = act.result[r] /\ disk.meta[r] = act.meta[r]

\* Mutant: a review is started whatever was started before.
AlreadySpawnedNever(role) == FALSE

\* The very same review runs, or has left a result: for a recovery only the
\* result of a replacement job counts.
AlreadySpawned(role) ==
  /\ disk.meta[role] = act.newmeta
  /\ \/ Active(role)
     \/ /\ disk.result[role] # NoResult
        /\ \/ act.newmeta.recovery = 0
           \/ disk.job[role] # NoJob /\ disk.job[role].id # act.newmeta.recovery

ReviewCheck ==
  /\ pc = "review_check"
  /\ \/ AlreadySpawned(act.role) /\ Resume(act.next)
     \/ /\ ~AlreadySpawned(act.role)
        /\ IF Active(act.role) \/ ~StillFresh THEN Return
           ELSE Goto(IF act.newmeta.recovery # 0 THEN "review_stage" ELSE "review_pack")
  /\ UNCHANGED <<item, disk, unit, gh, health, env, ghost>>

\* The metadata is written first of all for a recovery, and last for any.
ReviewMeta ==
  /\ pc \in {"review_stage", "review_meta"}
  /\ disk' = [disk EXCEPT !.meta[act.role] = act.newmeta]
  /\ IF pc = "review_stage" THEN Goto("review_pack") ELSE SpawnAgent(act.role, act.agent, act.next)
  /\ UNCHANGED <<item, unit, gh, health, env, ghost>>

ReviewPack ==
  /\ pc = "review_pack"
  /\ LET prior == \/ act.newmeta.recovery # 0
                  \/ act.newmeta.tries > 0 /\ disk.result[act.role].kind \notin {"none", "empty"}
     IN disk' = [disk EXCEPT !.pack[act.role] = {"task"} \cup (IF prior THEN {"failure"} ELSE {})]
  /\ Goto("review_unlink_result")
  /\ UNCHANGED <<item, unit, gh, health, env, ghost>>

ReviewUnlinkResult ==
  /\ pc = "review_unlink_result"
  /\ disk' = [disk EXCEPT !.result[act.role] = NoResult]
  /\ Goto("review_unlink_job")
  /\ UNCHANGED <<item, unit, gh, health, env, ghost>>

ReviewUnlinkJob ==
  /\ pc = "review_unlink_job"
  /\ disk' = [disk EXCEPT !.job[act.role] = NoJob]
  /\ Goto("review_meta")
  /\ UNCHANGED <<item, unit, gh, health, env, ghost>>

SpawnReviewSteps ==
  ReviewCheck \/ ReviewMeta \/ ReviewPack \/ ReviewUnlinkResult \/ ReviewUnlinkJob

(***************************************************************************)
(* dispatch_review.                                                        *)
(***************************************************************************)
ReviewReady ==
  /\ pc = "idle" /\ item.status = "IMPLEMENTED"
  /\ Published /\ gh.pr = "open" /\ Valid(Impl.commit)

Recovering ==
  /\ disk.wait.pending /\ disk.wait.resume = "REVIEWING"
  /\ disk.wait.head = Impl.commit /\ disk.wait.impl = Impl

\* Mutant: the review is dispatched anew although a reviewer is to be replaced.
DispatchReviewAnyway ==
  /\ ReviewReady
  /\ LET provider == Candidate("reviewer", item.provider) IN
     IF provider = 0 THEN Queue(Payload, "queue", "reviewer", item.provider, "IMPLEMENTED")
     ELSE CallReview(Payload, "reviewer", provider, 0, 0,
                     IF HighRisk THEN "review_security" ELSE "review_status")
  /\ UNCHANGED <<item, disk, unit, gh, health, env, ghost>>

DispatchReview ==
  /\ ReviewReady /\ ~Recovering
  /\ LET provider == Candidate("reviewer", item.provider) IN
     IF provider = 0 THEN Queue(Payload, "queue", "reviewer", item.provider, "IMPLEMENTED")
     ELSE CallReview(Payload, "reviewer", provider, 0, 0,
                     IF HighRisk THEN "review_security" ELSE "review_status")
  /\ UNCHANGED <<item, disk, unit, gh, health, env, ghost>>

\* enabled_review_provider raises when nobody is independent.
DispatchSecurity ==
  /\ pc = "review_security"
  /\ LET provider == Candidate("security-reviewer", act.provider) IN
     IF provider = 0 THEN Return
     ELSE CallReview(act, "security-reviewer", provider, 0, 0, "review_status")
  /\ UNCHANGED <<item, disk, unit, gh, health, env, ghost>>

\* The pending recovery: its metadata is still the failed review's (with all
\* its files), or already the replacement's.
DispatchRecovery ==
  /\ ReviewReady /\ Recovering
  /\ LET role == disk.wait.role
         prior == disk.meta[role]
         replacement == prior.recovery = disk.wait.recovery
         started == replacement /\
                    (\/ Active(role)
                     \/ /\ disk.job[role] \notin {NoJob, disk.wait.job}
                        /\ disk.result[role] # NoResult)
         provider == IF started THEN prior.provider ELSE Candidate(role, item.provider)
     IN /\ role \in RequiredRoles
        /\ prior.head = Impl.commit /\ prior.impl = Impl
        /\ replacement \/ /\ prior.provider = disk.wait.failed
                          /\ disk.pack[role] = disk.wait.pack /\ disk.job[role] = disk.wait.job
                          /\ disk.result[role] = disk.wait.result /\ disk.result[role].kind = "quota"
        /\ IF provider = 0 THEN ~replacement /\ Accept("review_wait")
           ELSE /\ provider # item.provider
                /\ CallReview([Payload EXCEPT !.quota = TRUE], role, provider, prior.tries,
                              disk.wait.recovery, "review_status")
  /\ UNCHANGED <<item, disk, unit, gh, health, env, ghost>>

ReviewWait ==
  /\ pc = "review_wait" /\ StatusFresh
  /\ SetStatus("WAITING_PROVIDER")
  /\ Return
  /\ UNCHANGED <<disk, unit, gh, health, env, ghost>>

ReviewStatus ==
  /\ pc = "review_status" /\ StatusFresh
  /\ SetStatus("REVIEWING")
  /\ IF act.quota THEN Goto("review_spent") ELSE Return
  /\ UNCHANGED <<disk, unit, gh, health, env, ghost>>

ReviewSpent ==
  /\ pc = "review_spent"
  /\ disk' = [disk EXCEPT !.wait.pending = FALSE]
  /\ Return
  /\ UNCHANGED <<item, unit, gh, health, env, ghost>>

DispatchReviewSteps ==
  \/ DispatchReview \/ DispatchSecurity \/ DispatchRecovery
  \/ ReviewWait \/ ReviewStatus \/ ReviewSpent

(***************************************************************************)
(* consume_review, one required role after the other, and retry_review.    *)
(***************************************************************************)
ConsumeStart ==
  /\ pc = "idle" /\ item.status = "REVIEWING" /\ gh.pr = "open"
  /\ act' = [Payload EXCEPT !.role = "reviewer"]
  /\ pc' = "consume"
  /\ UNCHANGED <<item, disk, unit, gh, health, env, ghost>>

\* Mutant: the review is bound to the handoff, not to the pull request's head.
ReviewBoundHandoff(role) ==
  /\ disk.meta[role] # NoMeta /\ disk.meta[role] = act.meta[role]
  /\ disk.meta[role].impl = Impl
  /\ ParsesImplementation(Impl) /\ Valid(Impl.commit)

\* The role's metadata is the snapshot's and binds this head and handoff.
ReviewBound(role) ==
  /\ disk.meta[role] # NoMeta /\ disk.meta[role] = act.meta[role]
  /\ disk.meta[role].head = act.head /\ disk.meta[role].impl = Impl
  /\ ParsesImplementation(Impl) /\ Valid(Impl.commit) /\ Impl.commit = act.head

\* Mutant: a host check that was deferred but never registered is forgotten.
HostValidatedRegistered(head) == disk.cmeta.required => disk.report = head

\* require_pending_validation: a deferred host check has its signed report.
HostValidated(head) == (Impl.deferred \/ disk.cmeta.required) => disk.report = head

\* A result is there, of the job the metadata names, and not changed since.
ReviewReported(role) ==
  /\ disk.result[role] # NoResult
  /\ disk.job[role] # NoJob /\ disk.job[role].provider = disk.meta[role].provider
  /\ disk.result[role] = act.result[role]

ConsumeVerdict ==
  /\ pc = "consume" /\ ReviewBound(act.role) /\ ~Active(act.role) /\ ReviewReported(act.role)
  /\ ParsesReview(disk.result[act.role])
  /\ disk.result[act.role].kind = "approve" => HostValidated(act.head)
  /\ gh' = [gh EXCEPT !.comments = @ \cup
              {[role |-> act.role, provider |-> disk.meta[act.role].provider,
                head |-> act.head, decision |-> disk.result[act.role].kind]}]
  /\ IF HighRisk /\ act.role = "reviewer"
     THEN pc' = "consume" /\ act' = [act EXCEPT !.role = "security-reviewer"]
     ELSE Goto("consume_status")
  /\ UNCHANGED <<item, disk, unit, health, env, ghost>>

ConsumeStatus ==
  /\ pc = "consume_status" /\ StatusFresh
  /\ SetStatus(IF \E r \in RequiredRoles : act.result[r].kind = "reject"
               THEN "CHANGES_REQUESTED" ELSE "VERIFIED")
  /\ Return
  /\ UNCHANGED <<disk, unit, gh, health, env, ghost>>

\* retry_review is called: the reviewer left nothing, or nothing valid.
ReviewFailed(role) ==
  /\ ReviewBound(role) /\ ~Active(role)
  /\ \/ disk.result[role] = NoResult
     \/ ReviewReported(role) /\ ~ParsesReview(disk.result[role])

RetryReview ==
  /\ pc = "consume" /\ ReviewFailed(act.role) /\ StillFresh
  /\ LET meta == disk.meta[act.role] IN
     \/ /\ disk.result[act.role].kind = "quota"
        /\ Queue(act, "quota_mark", act.role, meta.provider, "REVIEWING")
        /\ UNCHANGED item
     \/ /\ disk.result[act.role].kind # "quota" /\ meta.tries >= MaxRetries
        /\ Explain("process", "WAITING_HUMAN")
        /\ Return
     \/ /\ disk.result[act.role].kind # "quota" /\ meta.tries < MaxRetries
        /\ CallReview(act, act.role, meta.provider, meta.tries + 1, 0, "review_note")
        /\ UNCHANGED item
  /\ UNCHANGED <<disk, unit, gh, health, env, ghost>>

ReviewNote ==
  /\ pc = "review_note"
  /\ item' = [item EXCEPT !.note = "other"]
  /\ Return
  /\ UNCHANGED <<disk, unit, gh, health, env, ghost>>

\* A reviewer still runs, a binding is broken, or evidence is missing.
ConsumeNothing ==
  /\ pc = "consume"
  /\ \/ ~ReviewBound(act.role)
     \/ Active(act.role)
     \/ disk.result[act.role] # NoResult /\ ~ReviewReported(act.role)
     \/ disk.result[act.role].kind = "approve" /\ ~HostValidated(act.head)
     \/ ReviewFailed(act.role) /\ ~StillFresh
  /\ Return
  /\ UNCHANGED <<item, disk, unit, gh, health, env, ghost>>

ConsumeSteps ==
  \/ ConsumeStart \/ ConsumeVerdict \/ ConsumeStatus \/ RetryReview \/ ReviewNote
  \/ ConsumeNothing

(***************************************************************************)
(* Operator commands on a WAITING_HUMAN item.                              *)
(***************************************************************************)
OperatorTarget(role) ==
  /\ gh.pr = "open" /\ ParsesImplementation(Impl) /\ Valid(Impl.commit) /\ gh.head = Impl.commit
  /\ disk.meta[role].head = Impl.commit /\ disk.meta[role].impl = Impl

OperatorStart ==
  /\ pc = "idle" /\ item.status = "WAITING_HUMAN" /\ NoUnitActive
  /\ env.grants < MaxGrants
  /\ item' = [item EXCEPT !.note = "other"]
  /\ env' = [env EXCEPT !.grants = @ + 1]
  /\ Accept("operator_reviewing")

ResumeReview(role) ==
  /\ OperatorTarget(role) /\ ~ParsesReview(disk.result[role])
  /\ OperatorStart
  /\ disk' = [disk EXCEPT !.meta[role].tries = MaxRetries - 1]
  /\ UNCHANGED <<unit, gh, health, ghost>>

ReconcileWaitingResult ==
  /\ item.note \in {"process", "limit"}
  /\ \A r \in RequiredRoles : OperatorTarget(r) /\ ParsesReview(disk.result[r])
  /\ item.note = "limit" =>
       (\E r \in RequiredRoles : disk.result[r].kind = "reject") /\ disk.budget < MaxRetries
  /\ OperatorStart
  /\ UNCHANGED <<disk, unit, gh, health, ghost>>

OperatorReviewing ==
  /\ pc = "operator_reviewing"
  /\ SetStatus("REVIEWING")
  /\ Return
  /\ UNCHANGED <<disk, unit, gh, health, env, ghost>>

\* register_external_validation of kind host, in any status.
RecordHost ==
  /\ pc = "idle" /\ NoUnitActive /\ Valid(disk.clone.head)
  /\ HostCheck /\ disk.report # disk.clone.head
  /\ disk' = [disk EXCEPT !.cmeta.required = TRUE]
  /\ Accept("operator_report")
  /\ UNCHANGED <<item, unit, gh, health, env, ghost>>

RecordReport ==
  /\ pc = "operator_report"
  /\ disk' = [disk EXCEPT !.report = disk.clone.head]
  /\ Return
  /\ UNCHANGED <<item, unit, gh, health, env, ghost>>

OperatorSteps ==
  \/ \E r \in RequiredRoles : ResumeReview(r)
  \/ ReconcileWaitingResult \/ OperatorReviewing \/ RecordHost \/ RecordReport

\* A new release of the broker reads a result that the old one rejected: what
\* reconcile_waiting_result is for.
ProtocolFix(role, decision) ==
  /\ pc = "idle" /\ env.fixes < MaxFixes
  /\ disk.result[role].kind = "bad" /\ ~Active(role) /\ disk.job[role] # NoJob
  /\ disk' = [disk EXCEPT !.result[role].kind = decision]
  /\ ghost' = [ghost EXCEPT !.reviews = @ \cup
                 {[role |-> role, provider |-> disk.job[role].provider,
                   head |-> disk.meta[role].head, decision |-> decision]}]
  /\ env' = [env EXCEPT !.fixes = @ + 1]
  /\ UNCHANGED <<item, unit, gh, health, pc, act>>

ReviewEnvironment ==
  \E r \in ReviewRoles, d \in {"approve", "reject"} : ProtocolFix(r, d)

ReviewSteps ==
  PublishSteps \/ SpawnReviewSteps \/ DispatchReviewSteps \/ ConsumeSteps \/ OperatorSteps
=============================================================================
