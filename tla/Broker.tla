------------------------------- MODULE Broker -------------------------------
(***************************************************************************)
(* The whole lifecycle of one issue: the broker's handlers, the workers,   *)
(* the cooldowns, GitHub and the failures, and what must hold of them.     *)
(***************************************************************************)
EXTENDS Merge, Transitions

(***************************************************************************)
(* Failures.                                                               *)
(***************************************************************************)
\* The broker process is killed, or a call it makes fails and the BrokerError
\* ends the cycle, between any two steps.
BrokerStops ==
  /\ pc # "idle" /\ env.faults < MaxFaults
  /\ env' = [env EXCEPT !.faults = @ + 1]
  /\ Return
  /\ UNCHANGED <<item, disk, unit, gh, health, ghost>>

\* require_project_status raises: somebody moved the item.
Checked == {"queue_status", "recover_select", "recover_review", "recover_status",
            "dispatch_done", "unwind_status", "retry_count", "publish_hold", "review_wait",
            "review_status", "consume_status", "advance_status", "int_target", "int_resume",
            "merge_status", "merge_failed", "final_status"}
BrokerRaises ==
  /\ pc \in Checked /\ ~StatusFresh
  /\ Return
  /\ UNCHANGED <<item, disk, unit, gh, health, env, ghost>>

(***************************************************************************)
(* The specification.  The timer starts a cycle every minute and a cycle   *)
(* offers the item the one action lifecycle_action computes for it, so the *)
(* broker's own steps are fair; operator commands are not.  Workers end,   *)
(* cooldowns run out and CI reports; nothing else of the environment need  *)
(* happen.                                                                 *)
(***************************************************************************)
BrokerSteps ==
  \/ CooldownSteps \/ SpawnSteps \/ DispatchSteps \/ LaunchSteps \/ ReconcileSteps \/ RetrySteps
  \/ PublishSteps \/ SpawnReviewSteps \/ DispatchReviewSteps \/ ConsumeSteps
  \/ MergeGateSteps \/ ResumeStatus \/ OperatorReviewing \/ RecordReport \/ BrokerRaises

Next ==
  \/ CooldownSteps \/ SpawnSteps \/ ImplementationSteps \/ ReviewSteps \/ MergeGateSteps
  \/ BrokerStops \/ BrokerRaises
  \/ WorkerSteps \/ CooldownEnvironment \/ ReviewEnvironment \/ GitHubSteps

Spec == Init /\ [][Next]_vars

Fairness ==
  /\ WF_vars(BrokerSteps)
  /\ \A r \in Roles : WF_vars(WorkerExits(r))
  /\ \A p \in Providers : WF_vars(CooldownEnds(p))
  /\ WF_vars(CiReports)

FairSpec == Spec /\ Fairness

(***************************************************************************)
(* Safety.                                                                 *)
(***************************************************************************)
\* The implementer, who writes the clone, never runs together with a reviewer,
\* who reads it: no schedule of dispatches, retries, fallbacks and operator
\* commands overlaps them.
ExclusiveClone == Active("implementer") => \A r \in ReviewRoles : ~Active(r)

\* An active unit still has its clone and its own job record, so that every
\* later reconciliation finds the worker it belongs to.
UnitsKnown ==
  \A r \in Roles : Active(r) => disk.clone.there /\ disk.job[r] = unit[r]

\* READY between cycles has nothing left over: dispatch refuses an existing
\* clone or task pack, so leftovers would block the issue for good.
ReadyIsClean ==
  pc = "idle" /\ item.status = "READY" =>
    ~disk.clone.there /\ disk.pack["implementer"] = {} /\ disk.job["implementer"] = NoJob

\* A parked attempt stays as it was recorded, so recover_provider will not raise
\* for ever.  A review that nobody could start has no attempt of its own, and
\* its record is not kept up: see ParkedLeaves.
ParkedIsRecoverable ==
  pc = "idle" /\ item.status = "WAITING_PROVIDER" /\ NoUnitActive =>
    disk.wait.role # "none" /\ (disk.wait.resume # "IMPLEMENTED" => ParkedIntact)

\* What publication and review start from is a validated handoff at HEAD.
ImplementedIsValid ==
  item.status = "IMPLEMENTED" => ParsesImplementation(Impl) /\ Valid(Impl.commit)

\* Every worker run is paid for: the dispatch, MaxRetries retries, as many
\* corrections, one run per operator grant, per quota continuation and per
\* prepared integration; a crash anywhere never buys another run.
LaunchBound ==
  ghost.runs <= 1 + 2 * MaxRetries + env.grants + env.quotas
                + (IF disk.cmeta.parent # 0 \/ item.status = "DONE" THEN 1 ELSE 0)

\* Review evidence on the pull request is what a reviewer decided about that
\* very commit, whatever was pushed, retried or replayed in between.
EvidenceGenuine == gh.comments \subseteq ghost.reviews

\* GitHub merges only a commit that every required role approved, by a provider
\* that is not the implementation's at that moment, however the item was
\* corrected, parked, moved to another provider or held in between.
MergeIsReviewed ==
  [][gh.pr = "open" /\ gh'.pr = "merged" =>
       \A r \in RequiredRoles : \E v \in ghost.reviews :
         /\ v.role = r /\ v.head = gh.head /\ v.decision = "approve"
         /\ v.provider # item.provider]_vars

\* GitHub merges only the commit whose handoff was validated, host check
\* included, however long the merge call comes after the gates.
MergeIsValidated ==
  [][gh.pr = "open" /\ gh'.pr = "merged" =>
       Impl.commit = gh.head /\ (HostCheck => disk.report = gh.head)]_vars

\* A reviewer's rejection is discarded only by a first dispatch of the review,
\* which asks anew: never by a retry, an operator command or a late report, and
\* never while a reviewer that ran out of quota is to be replaced.
ReplacementDue ==
  /\ act.wait.pending /\ act.wait.resume = "REVIEWING"
  /\ act.wait.impl = act.result["implementer"] /\ act.wait.head = act.wait.impl.commit
FirstDispatch == act.status = "IMPLEMENTED" /\ ~act.quota /\ ~ReplacementDue
RejectionsStand ==
  [][\A r \in RequiredRoles :
       disk.result[r].kind = "reject" /\ disk'.result[r].kind # "reject" /\ item.status # "DONE"
         => FirstDispatch ]_vars

\* A rejection of the implementation at hand is discarded before it is on the
\* pull request.
Discards(r) ==
  /\ disk.result[r].kind = "reject" /\ disk'.result[r].kind # "reject"
  /\ disk.meta[r].impl = Impl /\ item.status # "DONE"
  /\ \A c \in gh.comments :
       ~(c.role = r /\ c.head = disk.meta[r].head /\ c.decision = "reject")

\* A dispatch that is repeated after a crash finds the review that was started:
\* it never asks the same reviewer again and so loses what it has decided.
ReviewsFound ==
  [][\A r \in RequiredRoles : Discards(r) => act.agent # disk.meta[r].provider]_vars

\* Not even when another reviewer is asked: known not to hold.
RejectionsKept == [][\A r \in RequiredRoles : ~Discards(r)]_vars

\* The entitlement of a quota continuation is spent only by a worker that
\* really started.
EntitlementKept ==
  [][disk.wait.pending /\ ~disk'.wait.pending =>
       ghost.started[disk.wait.role] = disk.job[disk.wait.role].id]_vars

\* Nobody's own work is merged on nobody else's approval.
NoSelfApproval ==
  gh.pr = "merged" =>
    \A r \in RequiredRoles : \E v \in ghost.reviews :
      /\ v.role = r /\ v.head = ghost.merged /\ v.decision = "approve"
      /\ v.provider \notin ghost.authors

\* An upstream integration has one target for the life of the clone, however
\* often its preparation is interrupted and replayed.
IntegrationOnce ==
  [][disk.cmeta.target # 0 /\ disk'.cmeta # NoCloneMeta =>
       disk'.cmeta.target = disk.cmeta.target /\ disk'.cmeta.parent = disk.cmeta.parent]_vars

\* Whoever works on a prepared merge works on the one the broker bound, also when
\* the preparation was interrupted or held; a resume in its middle is excepted.
IntegrationBound ==
  env.grants = 0 /\ disk.clone.merging /\ item.status \in {"RETRY_PENDING", "IN_PROGRESS"} =>
    disk.cmeta.base = disk.cmeta.target /\ disk.cmeta.parent = disk.clone.head

\* The broker with its files, crash points and retries keeps the abstract
\* lifecycle: no interleaving with workers, people and GitHub makes a status
\* write that the handler under way does not have, or one around a worker.
Abstract == INSTANCE IssueLifecycle
  WITH status <- item.status,
       doing <- IF pc = "idle" THEN "none" ELSE Kind(act.status),
       running <- Active("implementer"),
       merged <- gh.pr = "merged"
KeepsLifecycle == Abstract!Spec

(***************************************************************************)
(* Liveness.                                                               *)
(***************************************************************************)
Leaves(s) == item.status = s ~> item.status # s

\* The issue gets done, or a person is asked; a pull request whose CI failed
\* waits in VERIFIED or MERGE_READY.
Settles == <>(item.status \in {"DONE", "WAITING_HUMAN"} \/ gh.ci = "fail")

\* A parked item does not stay parked.
ParkedLeaves == Leaves("WAITING_PROVIDER")

\* Whatever a crash interrupts before the pull request is reviewed, the next
\* cycles take the issue out of the status it was left in.
RestartSafe ==
  \A s \in {"CLAIMED", "IN_PROGRESS", "IMPLEMENTED", "RETRY_PENDING", "CHANGES_REQUESTED"} :
    Leaves(s)

\* An implementer whose unit has ended is noticed: IN_PROGRESS goes on to
\* IMPLEMENTED, to a retry, to a provider's wait or to a person.
InProgressLeaves == Leaves("IN_PROGRESS")

\* A review whose reviewer is gone is retried or decided.
ReviewingLeaves == Leaves("REVIEWING")

\* A merge that was announced is made, taken back or finalized.
MergingLeaves == Leaves("MERGING")
=============================================================================
