-------------------------------- MODULE Merge -------------------------------
(***************************************************************************)
(* From VERIFIED to DONE: the merge gates, the upstream integration of a   *)
(* conflicting pull request, the merge itself and finalize_merge; and what *)
(* GitHub and the people on it do meanwhile.                               *)
(***************************************************************************)
EXTENDS Review

(***************************************************************************)
(* merge_gates.                                                            *)
(***************************************************************************)
\* verified_review_roles: the roles with a signed APPROVE at the PR's head.
VerifiedRoles ==
  {r \in ReviewRoles : \E c \in gh.comments :
     c.role = r /\ c.head = gh.head /\ c.decision = "approve"}

Gates ==
  /\ gh.pr = "open" /\ RequiredRoles \subseteq VerifiedRoles
  /\ ~gh.conflict /\ gh.ci = "pass"
  /\ ParsesImplementation(Impl) /\ Impl.commit = gh.head /\ HostValidated(gh.head)

AdvanceStart ==
  /\ pc = "idle" /\ item.status = "VERIFIED" /\ gh.pr = "open"
  /\ ~gh.conflict /\ Gates /\ Accept("advance_status")
  /\ UNCHANGED <<item, disk, unit, gh, health, env, ghost>>

AdvanceStatus ==
  /\ pc = "advance_status" /\ StatusFresh
  /\ SetStatus("MERGE_READY")
  /\ Return
  /\ UNCHANGED <<disk, unit, gh, health, env, ghost>>

(***************************************************************************)
(* prepare_upstream_integration.                                           *)
(***************************************************************************)
Pending(commit) == disk.cmeta.pending /\ disk.cmeta.parent = commit

\* Mutant: a second conflict is integrated like the first.
IntegrateStartAgain ==
  /\ pc = "idle" /\ item.status = "VERIFIED" /\ gh.pr = "open"
  /\ gh.conflict /\ NoUnitActive /\ ParsesImplementation(Impl) /\ Impl.commit = gh.head
  /\ \/ /\ Pending(Impl.commit) /\ disk.clone.head = Impl.commit
        /\ Accept("int_resume")
     \/ /\ ~disk.cmeta.pending /\ Valid(Impl.commit)
        /\ gh.tip # disk.clone.based
        /\ Accept("int_target")
  /\ UNCHANGED <<item, disk, unit, gh, health, env, ghost>>

IntegrateStart ==
  /\ pc = "idle" /\ item.status = "VERIFIED" /\ gh.pr = "open"
  /\ gh.conflict /\ NoUnitActive /\ ParsesImplementation(Impl) /\ Impl.commit = gh.head
  /\ \/ /\ disk.cmeta.parent # 0 /\ ~Pending(Impl.commit)
        /\ Accept("int_inspect")
     \/ /\ Pending(Impl.commit) /\ disk.clone.head = Impl.commit
        /\ Accept("int_resume")
     \/ /\ disk.cmeta.parent = 0 /\ Valid(Impl.commit)
        /\ gh.tip # disk.clone.based
        /\ Accept("int_target")
  /\ UNCHANGED <<item, disk, unit, gh, health, env, ghost>>

\* The one transition written without requiring the status first.
IntegrateInspect ==
  /\ pc = "int_inspect"
  /\ Explain("other", "WAITING_HUMAN")
  /\ Return
  /\ UNCHANGED <<disk, unit, gh, health, env, ghost>>

IntegrateTarget ==
  /\ pc = "int_target" /\ StatusFresh
  /\ disk' = [disk EXCEPT !.cmeta = [@ EXCEPT !.pending = TRUE, !.target = gh.tip,
                                                !.parent = Impl.commit]]
  /\ Goto("int_merge")
  /\ UNCHANGED <<item, unit, gh, health, env, ghost>>

\* git merge --no-commit unless a MERGE_HEAD is already there.
IntegrateMerge ==
  /\ \/ pc = "int_merge"
     \/ pc = "int_resume" /\ StatusFresh
  /\ disk.clone.merging \/ Valid(Impl.commit)
  /\ disk' = [disk EXCEPT !.clone.merging = TRUE]
  /\ Goto("int_base")
  /\ UNCHANGED <<item, unit, gh, health, env, ghost>>

\* Mutant: the prepared merge leaves the old base bound.
IntegrateBaseKept ==
  /\ pc = "int_base"
  /\ Goto("int_count")
  /\ UNCHANGED <<item, disk, unit, gh, health, env, ghost>>

IntegrateBase ==
  /\ pc = "int_base"
  /\ disk' = [disk EXCEPT !.cmeta.base = disk.cmeta.target]
  /\ Goto("int_count")
  /\ UNCHANGED <<item, unit, gh, health, env, ghost>>

IntegrateCount ==
  /\ pc = "int_count"
  /\ item' = [item EXCEPT !.note = "other", !.retry = MaxRetries - 1]
  /\ Goto("int_status")
  /\ UNCHANGED <<disk, unit, gh, health, env, ghost>>

IntegrateStatus ==
  /\ pc = "int_status"
  /\ SetStatus("RETRY_PENDING")
  /\ Goto("int_close")
  /\ UNCHANGED <<disk, unit, gh, health, env, ghost>>

IntegrateClose ==
  /\ pc = "int_close"
  /\ disk' = [disk EXCEPT !.cmeta.pending = FALSE]
  /\ Return
  /\ UNCHANGED <<item, unit, gh, health, env, ghost>>

IntegrateSteps ==
  \/ IntegrateStart \/ IntegrateInspect \/ IntegrateTarget \/ IntegrateMerge
  \/ IntegrateBase \/ IntegrateCount \/ IntegrateStatus \/ IntegrateClose

(***************************************************************************)
(* merge_pr: gates, MERGING, then gh pr merge --match-head-commit.         *)
(***************************************************************************)
MergeStart ==
  /\ pc = "idle" /\ item.status = "MERGE_READY" /\ Gates
  /\ Accept("merge_status")
  /\ UNCHANGED <<item, disk, unit, gh, health, env, ghost>>

MergeStatus ==
  /\ pc = "merge_status" /\ StatusFresh
  /\ SetStatus("MERGING")
  /\ Goto("merge_call")
  /\ UNCHANGED <<disk, unit, gh, health, env, ghost>>

\* Mutant: gh pr merge without --match-head-commit.
MergeCallAnyHead ==
  /\ pc = "merge_call"
  /\ gh.pr = "open" /\ ~gh.conflict
  /\ gh' \in {[gh EXCEPT !.pr = "merged", !.closed = c] : c \in BOOLEAN}
  /\ ghost' = [ghost EXCEPT !.merged = gh.head]
  /\ Return
  /\ UNCHANGED <<item, disk, unit, health, env>>

\* GitHub merges the matching head, and may close the issue itself.
MergeCall ==
  /\ pc = "merge_call"
  /\ gh.pr = "open" /\ gh.head = act.head /\ ~gh.conflict
  /\ gh' \in {[gh EXCEPT !.pr = "merged", !.closed = c] : c \in BOOLEAN}
  /\ ghost' = [ghost EXCEPT !.merged = gh.head]
  /\ Return
  /\ UNCHANGED <<item, disk, unit, health, env>>

MergeRefused ==
  /\ pc = "merge_call"
  /\ \/ (gh.pr # "open" \/ gh.head # act.head \/ gh.conflict) /\ UNCHANGED env
     \/ env.faults < MaxFaults /\ env' = [env EXCEPT !.faults = @ + 1]
  /\ Goto("merge_failed")
  /\ UNCHANGED <<item, disk, unit, gh, health, ghost>>

\* Not merged and still the same head: back to MERGE_READY.
MergeReverts ==
  /\ pc = "merge_failed" /\ gh.pr = "open" /\ gh.head = act.head /\ StatusFresh
  /\ SetStatus("MERGE_READY")
  /\ Return
  /\ UNCHANGED <<disk, unit, gh, health, env, ghost>>

\* "pull request merge outcome is ambiguous"
MergeAmbiguous ==
  /\ pc = "merge_failed" /\ (gh.pr # "open" \/ gh.head # act.head)
  /\ Return
  /\ UNCHANGED <<item, disk, unit, gh, health, env, ghost>>

MergeSteps ==
  MergeStart \/ MergeStatus \/ MergeCall \/ MergeRefused \/ MergeReverts \/ MergeAmbiguous

(***************************************************************************)
(* finalize_merge.                                                         *)
(***************************************************************************)
FinalizeStart ==
  /\ pc = "idle" /\ item.status = "MERGING" /\ gh.pr = "merged"
  /\ Accept("final_comment")
  /\ UNCHANGED <<item, disk, unit, gh, health, env, ghost>>

FinalizeComment ==
  /\ pc = "final_comment"
  /\ gh' = [gh EXCEPT !.mergeNote = TRUE]
  /\ Goto("final_close")
  /\ UNCHANGED <<item, disk, unit, health, env, ghost>>

FinalizeClose ==
  /\ pc = "final_close"
  /\ gh' = [gh EXCEPT !.closed = TRUE]
  /\ Goto("final_status")
  /\ UNCHANGED <<item, disk, unit, health, env, ghost>>

FinalizeStatus ==
  /\ pc = "final_status" /\ StatusFresh
  /\ Explain("other", "DONE")
  /\ Goto("final_clone")
  /\ UNCHANGED <<disk, unit, gh, health, env, ghost>>

FinalizeClone ==
  /\ pc = "final_clone"
  /\ disk' = [disk EXCEPT !.clone = NoClone]
  /\ Goto("final_files")
  /\ UNCHANGED <<item, unit, gh, health, env, ghost>>

FinalizeFiles ==
  /\ pc = "final_files"
  /\ disk' = [disk EXCEPT !.job = [r \in Roles |-> NoJob], !.result = [r \in Roles |-> NoResult],
                          !.meta = [r \in ReviewRoles |-> NoMeta], !.cmeta = NoCloneMeta,
                          !.pack = [r \in Roles |-> {}]]
  /\ Return
  /\ UNCHANGED <<item, unit, gh, health, env, ghost>>

FinalizeSteps ==
  \/ FinalizeStart \/ FinalizeComment \/ FinalizeClose \/ FinalizeStatus
  \/ FinalizeClone \/ FinalizeFiles

MergeGateSteps ==
  AdvanceStart \/ AdvanceStatus \/ IntegrateSteps \/ MergeSteps \/ FinalizeSteps

(***************************************************************************)
(* GitHub's side.                                                          *)
(***************************************************************************)
HumanPush ==
  /\ env.pushes < MaxPushes /\ gh.remote # 0 /\ gh.pr # "merged"
  /\ gh' = [gh EXCEPT !.remote = Foreign, !.ci = "pending",
                      !.head = IF gh.pr = "open" THEN Foreign ELSE @]
  /\ env' = [env EXCEPT !.pushes = @ + 1]
  /\ UNCHANGED <<item, disk, unit, health, pc, act, ghost>>

\* Another pull request is merged; an open one may conflict from now on.
BaseAdvances ==
  /\ gh.tip < MaxBase
  /\ gh' \in {[gh EXCEPT !.tip = @ + 1, !.conflict = c] :
                c \in IF gh.pr = "open" THEN {gh.conflict, TRUE} ELSE {FALSE}}
  /\ UNCHANGED <<item, disk, unit, health, pc, act, env, ghost>>

CiReports ==
  /\ gh.pr = "open" /\ gh.ci = "pending"
  /\ gh' \in {[gh EXCEPT !.ci = verdict] : verdict \in {"pass", "fail"}}
  /\ UNCHANGED <<item, disk, unit, health, pc, act, env, ghost>>

\* A person drags the item, whatever the broker is doing.
HumanHold ==
  /\ env.holds < MaxHolds /\ item.status \notin {"DONE", "WAITING_HUMAN"}
  /\ SetStatus("WAITING_HUMAN")
  /\ env' = [env EXCEPT !.holds = @ + 1]
  /\ UNCHANGED <<disk, unit, gh, health, pc, act, ghost>>

GitHubSteps == HumanPush \/ BaseAdvances \/ CiReports \/ HumanHold
=============================================================================
