----------------------------- MODULE Lifecycle -----------------------------
(***************************************************************************)
(* The state one issue has while the coordinator broker drives it from     *)
(* READY to DONE: the Project item, the files the broker keeps for the     *)
(* issue, the worker units of systemd, GitHub's branch and pull request,   *)
(* the provider cooldowns and the broker process itself.                   *)
(*                                                                         *)
(* A digest is modelled by the content it digests: two digests are equal   *)
(* exactly when the contents are.  A commit is a number: the broker's      *)
(* clone starts at commit 0 (the base) and every worker commit is the next *)
(* number, so that a commit is an ancestor of every larger one; Foreign is *)
(* the commit somebody else pushed.                                        *)
(***************************************************************************)
EXTENDS Naturals

CONSTANTS
  NumProviders,   \* providers 1..NumProviders, numbered in HARNESS_*_ORDER
  MaxRetries,     \* HARNESS_MAX_RETRIES
  HighRisk,       \* TRUE when the item's Risk is HIGH or CRITICAL
  HostCheck,      \* TRUE when an acceptance bullet is [external:host]
  MaxCommits,     \* bound: commits workers make
  MaxBase,        \* bound: advances of the default branch
  MaxFaults,      \* bound: broker crashes, failing calls and killed units
  MaxQuota,       \* bound: workers stopped by a provider quota
  MaxGrants,      \* bound: operator recovery commands
  MaxHolds,       \* bound: humans dragging the item to WAITING_HUMAN
  MaxMisreports,  \* bound: successful handoffs that do not match the clone
  MaxPushes,      \* bound: pushes to the branch by somebody else
  MaxCools,       \* bound: cooldowns of a provider caused by other issues
  MaxFixes        \* bound: review results that only a later release can read

ASSUME LifecycleAssumption ==
  /\ NumProviders \in Nat \ {0} /\ MaxRetries \in Nat \ {0}
  /\ HighRisk \in BOOLEAN /\ HostCheck \in BOOLEAN
  /\ MaxCommits \in Nat /\ MaxBase \in Nat /\ MaxFaults \in Nat
  /\ MaxQuota \in Nat /\ MaxGrants \in Nat /\ MaxHolds \in Nat
  /\ MaxMisreports \in Nat /\ MaxPushes \in Nat
  /\ MaxCools \in Nat /\ MaxFixes \in Nat

VARIABLES
  item,     \* the Project item: Harness Status, Provider, Retry Count, Evidence
  disk,     \* .worktrees/issue-N and .ai-team/runtime/{jobs,results,reviews,taskpacks}
  unit,     \* the active systemd unit of each role, as the job that started it
  gh,       \* the remote branch, the pull request, its comments and checks
  health,   \* provider-health/<provider>.json: cooling down, and for what failure
  pc,       \* where the one broker process is; "idle" between actions
  act,      \* the action payload it holds and its pending spawn-agent call
  env,      \* how often each bounded event has happened
  ghost     \* what really happened: reviews made, workers run, authors, the merge

vars == <<item, disk, unit, gh, health, pc, act, env, ghost>>

Providers == 1..NumProviders
ReviewRoles == {"reviewer", "security-reviewer"}
Roles == ReviewRoles \cup {"implementer"}
RequiredRoles == IF HighRisk THEN ReviewRoles ELSE {"reviewer"}
Foreign == MaxCommits + 1

Statuses == {"READY", "CLAIMED", "IN_PROGRESS", "IMPLEMENTED", "REVIEWING",
             "CHANGES_REQUESTED", "VERIFIED", "MERGE_READY", "MERGING", "DONE",
             "RETRY_PENDING", "WAITING_HUMAN", "WAITING_PROVIDER"}

(***************************************************************************)
(* The files.  "none" is a missing result, "empty" the file spawn-agent    *)
(* truncates, "quota" and "failed" the two kinds of process failure, "bad" *)
(* an answer without a valid structured result, "ok" an implementation     *)
(* result that parses, with the run that wrote it: two implementers do not *)
(* word their results alike.                                               *)
(***************************************************************************)
Result == [kind : {"none", "empty", "quota", "failed", "bad", "ok", "approve", "reject"},
           commit : Nat, deferred : BOOLEAN, run : Nat]
Simple(kind) == [kind |-> kind, commit |-> 0, deferred |-> FALSE, run |-> 0]
NoResult == Simple("none")

\* A job record; STARTED_AT makes every one different, so it has a number.
Job == [id : Nat, provider : Nat]
NoJob == [id |-> 0, provider |-> 0]

\* What a task pack tells the worker; {} is a missing pack.
Pack == SUBSET {"task", "failure", "rejection"}

\* reviews/issue-N-<role>.json; recovery is the job whose quota failure the
\* replacement recovers from (review_recovery_id and its source job).
Meta == [provider : Nat, head : Nat, impl : Result, tries : Nat, recovery : Nat]
NoMeta == [provider |-> 0, head |-> 0, impl |-> NoResult, tries |-> 0, recovery |-> 0]

\* issue-N-provider-wait.json
Wait == [role : Roles \cup {"none"}, failed : Nat, resume : Statuses, result : Result,
         job : Job, pack : Pack, head : Nat, pending : BOOLEAN, selected : Nat,
         recovery : Nat, impl : Result]
NoWait == [role |-> "none", failed |-> 0, resume |-> "READY", result |-> NoResult,
           job |-> NoJob, pack |-> {}, head |-> 0, pending |-> FALSE, selected |-> 0,
           recovery |-> 0, impl |-> NoResult]

\* issue-N-quota-launch.json
Tx == [open : BOOLEAN, provider : Nat, pack : Pack, job : Job, result : Result]
NoTx == [open |-> FALSE, provider |-> 0, pack |-> {}, job |-> NoJob, result |-> NoResult]

\* The clone: HEAD, the base version HEAD contains, uncommitted changes, MERGE_HEAD.
Clone == [there : BOOLEAN, head : Nat, based : Nat, dirty : BOOLEAN, merging : BOOLEAN]
NoClone == [there |-> FALSE, head |-> 0, based |-> 0, dirty |-> FALSE, merging |-> FALSE]

\* issue-N-clone.json; parent is integration_parent_sha (0 when absent),
\* target is integration_target_sha.
CloneMeta == [base : Nat, parent : Nat, target : Nat, pending : BOOLEAN, required : BOOLEAN]
NoCloneMeta == [base |-> 0, parent |-> 0, target |-> 0, pending |-> FALSE, required |-> FALSE]

\* A cooldown and the failed result and job it was recorded for.
Health == [blocked : BOOLEAN, result : Result, job : Job]

Disk == [clone : Clone, cmeta : CloneMeta, pack : [Roles -> Pack], job : [Roles -> Job],
         result : [Roles -> Result], meta : [ReviewRoles -> Meta], wait : Wait, tx : Tx,
         budget : Nat, report : Nat]

Item == [status : Statuses, provider : Nat, retry : Nat,
         note : {"other", "limit", "process"}]

\* A signed review-evidence comment, or what a reviewer really decided.
Verdict == [role : ReviewRoles, provider : Nat, head : Nat,
            decision : {"approve", "reject"}]

GitHub == [remote : Nat, pr : {"none", "open", "merged"}, head : Nat,
           comments : SUBSET Verdict, ci : {"pending", "pass", "fail"},
           conflict : BOOLEAN, tip : Nat, closed : BOOLEAN, mergeNote : BOOLEAN]

\* Where the broker process can be: one label before every write and every call
\* of a handler, named for the handler; "idle" between actions.
Labels == {"idle"}
  \cup {"spawn", "spawn_job", "spawn_unit", "quota_mark", "queue", "queue_status"}
  \cup {"recover_select", "recover_provider", "recover_resume", "recover_review",
        "recover_reviewing", "recover_status"}
  \cup {"dispatch_claim", "dispatch_clone", "dispatch_meta", "dispatch_pack",
        "dispatch_spawn", "dispatch_done", "unwind_files", "unwind_status"}
  \cup {"recover_launch", "launch_settled", "launch_status", "launch_closed",
        "reconcile", "reconcile_ready"}
  \cup {"retry", "retry_tx", "retry_pack", "retry_unlink_job", "retry_unlink_result",
        "retry_count", "retry_status", "retry_guard", "retry_restore", "retry_uncount",
        "retry_unstatus", "retry_budget", "retry_spent", "retry_close"}
  \cup {"publish_push", "publish_pr", "publish_hold"}
  \cup {"review_check", "review_stage", "review_pack", "review_unlink_result",
        "review_unlink_job", "review_meta", "review_security", "review_wait",
        "review_status", "review_spent", "review_note", "consume", "consume_status"}
  \cup {"operator_status", "operator_reviewing", "operator_report"}
  \cup {"advance_status", "int_inspect", "int_target", "int_resume", "int_merge",
        "int_base", "int_count", "int_status", "int_close"}
  \cup {"merge_status", "merge_call", "merge_failed", "final_comment", "final_close",
        "final_status", "final_clone", "final_files"}

\* Where a call that several handlers make may return to.
Callers == {"idle", "dispatch_done", "reconcile", "retry", "retry_spent", "review_security",
            "review_status", "review_note"}

(***************************************************************************)
(* The payload of the action being applied.  fresh_lifecycle_item requires *)
(* the payload recomputed from the current state to equal the snapshot's,  *)
(* so a handler that goes on holds the state as it was at that moment.     *)
(* The fields from role on are the handler's locals: the pending spawn or  *)
(* parking call (role, agent = provider, next = where its caller goes on,  *)
(* resume), whether a retry is a quota continuation, the previous files of *)
(* a retry and the review metadata about to be written.                    *)
(***************************************************************************)
Payload ==
  [status |-> item.status, provider |-> item.provider, retry |-> item.retry,
   result |-> disk.result, job |-> disk.job["implementer"], meta |-> disk.meta,
   wait |-> disk.wait, head |-> gh.head, base |-> gh.tip, role |-> "implementer",
   agent |-> 0, next |-> "idle", resume |-> "READY", quota |-> FALSE,
   saved |-> NoTx, newmeta |-> NoMeta]

Act == [status : Statuses, provider : Nat, retry : Nat, result : [Roles -> Result],
        job : Job, meta : [ReviewRoles -> Meta], wait : Wait, head : Nat, base : Nat,
        role : Roles, agent : Nat, next : Callers, resume : Statuses, quota : BOOLEAN,
        saved : Tx, newmeta : Meta]

NoAct == [status |-> "READY", provider |-> 0, retry |-> 0,
          result |-> [r \in Roles |-> NoResult], job |-> NoJob,
          meta |-> [r \in ReviewRoles |-> NoMeta], wait |-> NoWait, head |-> 0, base |-> 0,
          role |-> "implementer", agent |-> 0, next |-> "idle", resume |-> "READY",
          quota |-> FALSE, saved |-> NoTx, newmeta |-> NoMeta]

Env == [faults : Nat, quotas : Nat, grants : Nat, holds : Nat, misreports : Nat,
        pushes : Nat, cools : Nat, fixes : Nat, launches : Nat]

Ghost == [reviews : SUBSET Verdict, runs : Nat, started : [Roles -> Nat],
          authors : SUBSET Nat, merged : Nat]

TypeOK ==
  /\ item \in Item
  /\ disk \in Disk
  /\ unit \in [Roles -> Job]
  /\ gh \in GitHub
  /\ health \in [Providers -> Health]
  /\ pc \in Labels
  /\ act \in Act
  /\ env \in Env
  /\ ghost \in Ghost

Init ==
  /\ item = [status |-> "READY", provider |-> 1, retry |-> 0, note |-> "other"]
  /\ disk = [clone |-> NoClone, cmeta |-> NoCloneMeta, pack |-> [r \in Roles |-> {}],
             job |-> [r \in Roles |-> NoJob], result |-> [r \in Roles |-> NoResult],
             meta |-> [r \in ReviewRoles |-> NoMeta], wait |-> NoWait, tx |-> NoTx,
             budget |-> 0, report |-> 0]
  /\ unit = [r \in Roles |-> NoJob]
  /\ gh = [remote |-> 0, pr |-> "none", head |-> 0, comments |-> {}, ci |-> "pending",
           conflict |-> FALSE, tip |-> 0, closed |-> FALSE, mergeNote |-> FALSE]
  /\ health = [p \in Providers |-> [blocked |-> FALSE, result |-> NoResult, job |-> NoJob]]
  /\ pc = "idle"
  /\ act = NoAct
  /\ env = [faults |-> 0, quotas |-> 0, grants |-> 0, holds |-> 0, misreports |-> 0,
            pushes |-> 0, cools |-> 0, fixes |-> 0, launches |-> 0]
  /\ ghost = [reviews |-> {}, runs |-> 0, started |-> [r \in Roles |-> 0],
              authors |-> {}, merged |-> 0]

(***************************************************************************)
(* Control of the broker process.                                          *)
(***************************************************************************)
Goto(l) == pc' = l /\ UNCHANGED act

\* The handler ends: it returns, or raises BrokerError and ends the cycle.
Return == pc' = "idle" /\ act' = NoAct

\* A call returns to the label its caller named; "idle" ends the handler.
Resume(l) == pc' = l /\ act' = IF l = "idle" THEN NoAct ELSE act

\* fresh_lifecycle_item accepts the action; the handler goes on at l.
Accept(l) == pc' = l /\ act' = Payload

\* The status require_project_status expects at label l: the one the action
\* was made for, or the one the handler itself has set.
Expected(l) ==
  CASE l \in {"dispatch_spawn", "dispatch_done", "unwind_status"} -> "CLAIMED"
    [] l = "merge_failed" -> "MERGING"
    [] OTHER -> act.status
StatusFresh == item.status = Expected(pc)

SetStatus(s) == item' = [item EXCEPT !.status = s]
Explain(note, s) == item' = [item EXCEPT !.note = note, !.status = s]

Active(role) == unit[role] # NoJob
NoUnitActive == \A r \in Roles : ~Active(r)

\* run(spawn-agent role provider ...), then the caller goes on at next.
SpawnAgent(role, provider, next) ==
  /\ pc' = "spawn"
  /\ act' = [act EXCEPT !.role = role, !.agent = provider, !.next = next]

(***************************************************************************)
(* Pure helpers of the broker.                                             *)
(***************************************************************************)

\* parse_implementation_result succeeds.
ParsesImplementation(r) == r.kind = "ok"
\* Mutant: a rejection is no valid answer of a reviewer.
ParsesReviewApproved(r) == r.kind = "approve"
\* parse_review_result succeeds.
ParsesReview(r) == r.kind \in {"approve", "reject"}

\* validate_implementation: clean clone at the reported commit, at least one
\* commit, on top of the base the broker bound.
Valid(commit) ==
  /\ disk.clone.there /\ ~disk.clone.dirty /\ ~disk.clone.merging
  /\ disk.clone.head = commit /\ commit # 0
  /\ disk.clone.based = disk.cmeta.base

Ancestor(a, b) == a # Foreign /\ a <= b

\* provider_candidate: the first enabled provider outside its cooldown, for a
\* review another one than the implementer's; 0 when there is none.
Eligible(role, implementer) ==
  {p \in Providers : ~health[p].blocked /\ (role = "implementer" \/ p # implementer)}
Candidate(role, implementer) ==
  IF Eligible(role, implementer) = {} THEN 0
  ELSE CHOOSE p \in Eligible(role, implementer) :
         \A q \in Eligible(role, implementer) : p <= q
=============================================================================
