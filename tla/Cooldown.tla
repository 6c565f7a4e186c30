------------------------------ MODULE Cooldown ------------------------------
(***************************************************************************)
(* Provider cooldowns and the parking of an item whose provider is         *)
(* exhausted: mark_provider_quota, queue_provider_wait, recover_provider.  *)
(* The cooldown files are shared with the other issues, which may cool a   *)
(* provider at any time; cooldowns end by themselves.                      *)
(***************************************************************************)
EXTENDS Worker

\* queue_provider_wait(role, provider, resume) is called.
Queue(payload, l, role, provider, resume) ==
  /\ pc' = l
  /\ act' = [payload EXCEPT !.role = role, !.agent = provider, !.resume = resume]

\* mark_provider_quota: one cooldown for one failed result and job.
QuotaMark ==
  /\ pc = "quota_mark"
  /\ LET failure == [blocked |-> TRUE, result |-> disk.result[act.role],
                     job |-> disk.job[act.role]]
         old == health[act.agent]
     IN  health' = IF old.result = failure.result /\ old.job = failure.job THEN health
                   ELSE [health EXCEPT ![act.agent] = failure]
  /\ Goto("queue")
  /\ UNCHANGED <<item, disk, unit, gh, env, ghost>>

\* The wait file binds the role's result, job and pack, and HEAD once there is
\* work to come back to.
Parked ==
  [NoWait EXCEPT !.role = act.role, !.failed = act.agent, !.resume = act.resume,
                 !.result = disk.result[act.role], !.job = disk.job[act.role],
                 !.pack = disk.pack[act.role], !.pending = TRUE,
                 !.head = IF act.resume \in {"RETRY_PENDING", "REVIEWING"}
                          THEN disk.clone.head ELSE 0]

\* Mutant: the wait file is written without the commit it was parked at.
QueueWaitNoHead ==
  /\ pc = "queue"
  /\ disk' = [disk EXCEPT !.wait = [Parked EXCEPT !.head = 0]]
  /\ Goto("queue_status")
  /\ UNCHANGED <<item, unit, gh, health, env, ghost>>

\* queue_provider_wait.
QueueWait ==
  /\ pc = "queue"
  /\ disk' = [disk EXCEPT !.wait = Parked]
  /\ Goto("queue_status")
  /\ UNCHANGED <<item, unit, gh, health, env, ghost>>

QueueStatus ==
  /\ pc = "queue_status" /\ StatusFresh
  /\ Explain("other", "WAITING_PROVIDER")
  /\ Return
  /\ UNCHANGED <<disk, unit, gh, health, env, ghost>>

(***************************************************************************)
(* recover_provider.  The failed attempt must be exactly what was parked.  *)
(***************************************************************************)
\* Mutant: the commit is compared for every parked item, recorded or not.
ParkedIntactAlways ==
  /\ disk.result[disk.wait.role] = disk.wait.result
  /\ disk.pack[disk.wait.role] = disk.wait.pack
  /\ disk.job[disk.wait.role] = disk.wait.job
  /\ disk.clone.head = disk.wait.head

ParkedIntact ==
  /\ disk.result[disk.wait.role] = disk.wait.result
  /\ disk.wait.resume \in {"RETRY_PENDING", "REVIEWING"} =>
       /\ disk.pack[disk.wait.role] = disk.wait.pack
       /\ disk.job[disk.wait.role] = disk.wait.job
       /\ disk.clone.head = disk.wait.head

\* The parked review still has its pull request, metadata and implementation.
ReviewTargetIntact(role) ==
  LET impl == disk.result["implementer"] IN
  /\ gh.pr = "open" /\ ParsesImplementation(impl) /\ gh.head = impl.commit
  /\ disk.meta[role].head = impl.commit /\ disk.meta[role].impl = impl
  /\ Valid(impl.commit)

RecoverStart ==
  /\ pc = "idle" /\ item.status = "WAITING_PROVIDER" /\ disk.wait.role # "none"
  /\ NoUnitActive /\ Candidate(disk.wait.role, item.provider) # 0 /\ ParkedIntact
  /\ act' = [Payload EXCEPT !.role = disk.wait.role,
                            !.agent = Candidate(disk.wait.role, item.provider)]
  /\ \/ disk.wait.role # "implementer" /\ disk.wait.resume = "IMPLEMENTED"
        /\ pc' = "recover_status"
     \/ disk.wait.role = "implementer" /\ pc' = "recover_select"
     \/ disk.wait.role # "implementer" /\ disk.wait.resume # "IMPLEMENTED"
        /\ ReviewTargetIntact(disk.wait.role) /\ pc' = "recover_review"
  /\ UNCHANGED <<item, disk, unit, gh, health, env, ghost>>

RecoverSelect ==
  /\ pc = "recover_select" /\ StatusFresh
  /\ disk' = [disk EXCEPT !.wait.selected = act.agent]
  /\ Goto("recover_provider")
  /\ UNCHANGED <<item, unit, gh, health, env, ghost>>

RecoverField ==
  /\ pc = "recover_provider"
  /\ item' = [item EXCEPT !.provider = act.agent, !.note = "other"]
  /\ Goto("recover_resume")
  /\ UNCHANGED <<disk, unit, gh, health, env, ghost>>

RecoverResume ==
  /\ pc = "recover_resume"
  /\ SetStatus(disk.wait.resume)
  /\ Return
  /\ UNCHANGED <<disk, unit, gh, health, env, ghost>>

RecoverReview ==
  /\ pc = "recover_review" /\ StatusFresh
  /\ disk' = [disk EXCEPT !.wait = [@ EXCEPT !.recovery = disk.wait.job.id,
                                              !.impl = disk.result["implementer"]]]
  /\ Goto("recover_reviewing")
  /\ UNCHANGED <<item, unit, gh, health, env, ghost>>

RecoverReviewStatus ==
  /\ \/ pc = "recover_status" /\ StatusFresh /\ SetStatus("IMPLEMENTED")
     \/ pc = "recover_reviewing" /\ Explain("other", "IMPLEMENTED")
  /\ Return
  /\ UNCHANGED <<disk, unit, gh, health, env, ghost>>

CooldownSteps ==
  \/ QuotaMark \/ QueueWait \/ QueueStatus
  \/ RecoverStart \/ RecoverSelect \/ RecoverField \/ RecoverResume
  \/ RecoverReview \/ RecoverReviewStatus

(***************************************************************************)
(* The environment of the cooldown files.                                  *)
(***************************************************************************)
OtherIssueQuota(p) ==
  /\ env.cools < MaxCools
  /\ health' = [health EXCEPT ![p] = [blocked |-> TRUE, result |-> NoResult, job |-> NoJob]]
  /\ env' = [env EXCEPT !.cools = @ + 1]
  /\ UNCHANGED <<item, disk, unit, gh, pc, act, ghost>>

CooldownEnds(p) ==
  /\ health[p].blocked
  /\ health' = [health EXCEPT ![p].blocked = FALSE]
  /\ UNCHANGED <<item, disk, unit, gh, pc, act, env, ghost>>

CooldownEnvironment == \E p \in Providers : OtherIssueQuota(p) \/ CooldownEnds(p)
=============================================================================
