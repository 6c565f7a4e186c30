# Verification of the AI team harness

`.ai-team/coordinator/broker.py` moves GitHub issues from READY to DONE. It is run once a
minute by a systemd timer, keeps no state in memory between runs, and everything it does
(Project fields, files, worker units, pushes, merges) is a sequence of separate writes any of
which may be the last one before a crash. This directory models that program in TLA+, every
handler and every write, with the workers, people, providers and GitHub around it; the cycle that
runs it over several issues; `bootstrap.py`, which publishes a plan as issues in the same manner; the
decision engine; and the observation journal of `internal/journal`.

    tlc -workers 2 -config Broker_people.cfg Broker     # any row of the table of runs
    tlapm TypesProof.tla; tlapm ExclusionProof.tla; tlapm HandoffProof.tla; tlapm LifecycleProof.tla
    tlapm BootstrapProof.tla; tlapm JournalProof.tla; tlapm CycleProof.tla; tlapm DecisionProof.tla

Paths below are relative to the repository; `broker.py` is `.ai-team/coordinator/broker.py`,
`bootstrap.py` is `.ai-team/bootstrap/bootstrap.py`.

## 1. The system

| Component | State it keeps | Operations | Talks to | Hard behaviour | What makes it correct |
|---|---|---|---|---|---|
| Lifecycle of one issue (`broker.py`, `apply` and its handlers) | Project fields (Harness Status, Provider, Retry Count, Evidence); the clone; jobs, results, reviews, task packs, clone metadata, correction budget, report | dispatch, reconcile_implementation, retry_implementation, publish_pr, dispatch_review, consume_review, retry_review, advance_merge_gate, prepare_upstream_integration, merge_pr, finalize_merge, unlock_dependency | GitHub, `spawn-agent`, git | crash between any two writes; stale snapshots; people moving the item | no concurrent use of the clone, bounded runs, only reviewed and validated commits are merged, no status is a dead end |
| Provider quota and cooldown (`broker.py`) | `provider-health/*.json`, `issue-N-provider-wait.json`, `issue-N-quota-launch.json` | mark_provider_quota, queue_provider_wait, recover_provider, recover_quota_launch, replacement of a failed reviewer | lifecycle, other issues through the shared cooldowns | exact comparison of a parked attempt, entitlement to one unpaid continuation | a parked item can be taken up, a continuation is spent by a worker only |
| Worker launch and execution (`bin/spawn-agent`, `bin/run-provider-agent`) | result file, job record, transient unit | start, commit, report, fail, be killed | started by the broker, read by later cycles | the launch is four writes; the result may be missing, empty, wrong or not match the clone | whoever runs is known to the broker |
| Operator commands (`broker.py`: resume, resume-review, reconcile-waiting, record-host-validation) | the same as the lifecycle | one grant each, only without active units | a person | race with workers and cycles | no second worker, bounded grants |
| Broker cycle over all issues (`snapshot`, `apply`, `bin/coordinator-cycle`) | signed snapshot, `flock` | offer actions, select within capacity, apply in order | all issues | capacity, expiry, the first error ends the cycle | no oversubscription, no starvation |
| Bootstrap (`bootstrap/bootstrap.py`) | signed envelope in the tracking issue, runtime values | create or repair issues and dependency edges, check dispatch | GitHub | interrupted and repeated runs | one issue per node, edges complete before dispatch |
| Decision engine (`decision/decision_engine.py`) | none | provider, retry and action decisions from rules, gated by a confidence | the provider of answers | thresholds and fallbacks | the fallback is the rules' answer |
| Event journal (`internal/journal`) | retained events, pending events, one file | Append, Snapshot, ReadAfter, HTTP stream | observers | gaps, duplicates, retention against slow readers, persist failure | consecutive sequence, nothing published before it is persisted |
| Native workers (`internal/worker`) | claim directories, credentials, unit | Start, Stop | systemd | partial failure of Start, claim leaks | one worker per claim, credentials gone after Stop |
| Scheduler (`internal/scheduler`) | waiting list with ages | Frontier, Dispatched | its caller | aging, overlapping leases | deterministic order, aged work is not starved |
| Snapshot protocol (`internal/snapshot`) | none (key) | Sign, Validate, Apply, Migrate | broker | all-or-nothing checks before execution | nothing runs from an invalid snapshot |
| Routing (`internal/routing`), provider registry (`internal/registry`) | observations | Select, Load, Discover | scheduler | stale observations, judgments | a judgment can only choose among the candidates |
| GitHub gateway (`internal/ghgateway`), observer bridge (`internal/observer`) | none | paginated reads, conversions | GitHub | pages that change while they are read | same normalised item as the broker's |
| Domain contracts, configuration, migration, dashboard, `harness`, installation scripts | files | validation, one-shot rewriting, serving | – | – | – |

The core is the first four rows: one process and up to three units write the same files without
locks or transactions. Around it the cycle over all issues, the bootstrap that creates them, the
decision engine and the observation journal are modelled as well. Everything else is listed in
`PROJECT.json` with its status and in section 5.

How they interact: the bootstrap writes issues, edges and Project items, and `check_dispatch` is the
broker's question whether it has finished. A cycle takes a snapshot of all items and applies one
action per issue; each is a handler of the lifecycle, which starts workers through `spawn-agent` and
reads their results in later cycles. Bootstrap and operators ask the decision engine for choices.
The journal is fed by an observer and read by clients; nothing of it flows back into the broker.

## 2. Modules

Four models, each independent of the others but for `Transitions`, which two of them share.

| Module | Models | Code |
|---|---|---|
| `Transitions` | the statuses, the action offered in each, and the status writes each action may make | `lifecycle_action`, the writes of all handlers |
| `Lifecycle` | state, control of the broker process, pure helpers | data structures, `lifecycle_action`, `fresh_lifecycle_item`, `require_project_status`, `set_status`, parsers, `validate_implementation`, `provider_candidate` |
| `Worker` | spawn-agent step by step; the units | `bin/spawn-agent`, `bin/run-provider-agent` |
| `Cooldown` | parking and recovering an item | `mark_provider_quota`, `queue_provider_wait`, `recover_provider` |
| `Implementation` | dispatch and its unwinding, reconciliation, retry, correction, continuation, resume | `dispatch`, `recover_quota_launch`, `reconcile_implementation`, `retry_implementation`, `resume_implementation` |
| `Review` | publication, reviews, their retry and replacement, operator commands | `publish_pr`, `spawn_review`, `dispatch_review`, `consume_review`, `retry_review`, `resume_review`, `reconcile_waiting_result`, `register_external_validation` |
| `Merge` | gates, integration, merge, finalization; GitHub and people | `merge_gates`, `advance_merge_gate`, `prepare_upstream_integration`, `merge_pr`, `finalize_merge` |
| `Broker` | failures, the next-state relation, fairness, the properties | `main`, `bin/install-systemd` |
| `IssueLifecycle` | the abstract lifecycle that `Broker` implements | – |
| `Exclusion` | the inductive invariant behind the exclusive clone | – |
| `TypesProof`, `ExclusionProof`, `HandoffProof`, `LifecycleProof` | proofs, each extending the one before: types; who runs when; handoff and review evidence; the abstract lifecycle, the merge gates, READY and parked items | – |
| `Cycle` | several issues: snapshot, selection, `apply`'s loop, dependencies, unlocking | `make_snapshot`, `main`, `apply`, `trusted_issue_scope`, `ensure_dependencies`, `unlock_dependency` |
| `CycleProof` | proofs | – |
| `Bootstrap` | runs that publish a plan, the dispatch gate, people who edit what was published | `bootstrap`, `validate`, `create_issue`, `repair_relationships`, `verify_identity`, `save_envelope`, `check_dispatch` and what they call; of the broker, `dispatch` and `unlock_dependency` up to their first write |
| `BootstrapProof` | proofs | – |
| `DecisionEngine`, `MCDecisionEngine` | one invocation: rules, Jev's answers, gates, fallback | `decision_engine.py` |
| `DecisionProof` | proofs | – |
| `Journal` | append, checkpoint, reopening, event streams, clients | `journal.go`, `http.go` |
| `EventLog` | the abstract log that `Journal` implements | – |
| `JournalProof` | proofs | – |

`Lifecycle`, `Worker`, `Cooldown`, `Implementation`, `Review`, `Merge`, `Broker` each extend the one before.

### The lifecycle of one issue

* `item` is the Project item, `disk` the files of the issue (clone, clone metadata, and per role
  a task pack, job record, result and review metadata; the wait record, the launch transaction,
  the correction budget and the host report), `unit` the active units, `gh` the branch, the pull
  request, its checks and comments and the default branch, `health` the cooldown files.
* `pc` and `act` are the broker process. There is one: cycles and operator commands take the same
  `flock`. A handler is a chain of actions, one per write or external call, in
  the order of the code; `pc` names the next one. `act` is the action payload: the snapshot's view
  of the item, results, jobs and metadata, which the handler compares with the present
  (`fresh_lifecycle_item`, digests) as the code does, and a handler's local variables. Every other
  process may move between two steps.
* `Expected`/`StatusFresh` is `require_project_status`. Where the code omits that check, so does
  the action (`IntegrateInspect`, the last write of most recoveries).
* `BrokerStops` ends the handler at any label: a kill, or a call that fails and raises. Where
  the code catches the error (`DispatchFails`, `RetryGuardFails`, `MergeRefused`) the unwinding is a
  chain of its own. `BrokerRaises` is a status check that fails.
* `env` counts what is bounded; `ghost` records what really happened (reviews made, runs
  started, authors, the merged commit). No action of the system reads `ghost`; only guards of
  bounded events and `SpawnJob`, for fresh job numbers, read `env`.

A commit is a number and ancestry is `<=`; `Foreign` is what somebody else pushed. A digest is
modelled by the content it digests. A result is its kind, its commit, whether it defers a
host check, and the run it came from; a task pack is the set of things it tells the worker. Evidence
texts are reduced to the two prefixes that `reconcile_waiting_result` looks for.

Writes that belong together and that no other process can observe apart are one step: the Evidence
and Status pair of one transition, the files of one loop (restore, unwind, final unlink), the
comment of `set_status`.

`IssueLifecycle` is what a reader of the state machine expects of all this: the status moves only along the
writes of the handler under way, an implementer runs only for the handler that starts it and is gone before
any other status is written, a merge comes only from the handler that announced it. `Broker!KeepsLifecycle`
maps `status` to `item.status`, `doing` to the kind of `act`, `running` to the implementer's unit and `merged` to
`gh.pr`; files, reviewers, labels and budgets are hidden.

### The cycle

`Cycle` puts several issues side by side and keeps of each handler only its writes of the status (the same
`Transitions` that `Broker` is shown to keep), the check of the issue's scope, and the start of a worker. `Snapshot`
is `make_snapshot` over all items, `Select` counts the free places once, `Begin` is `fresh_item` for the next action;
`Raise` is a `BrokerError`, which leaves `apply` whatever is still selected. `needs` are the native blockers,
`closed` the issues GitHub has as closed, by the broker or by hand.

### Publication of a plan

`issues` is everything on GitHub that belongs to one brief, in the order of creation: the marker, what the body says of
other issues, parent, edges, Project status, and for the tracking issue the signed envelope (`plan`, `nodes`,
`complete`) and whether the COMPLETE line ends the body (`closing`). `run` is the process: it lists the issues once,
then walks the nodes (locate, create or repair, bind, item, fields, verify), reads everything again, releases the free
leaves and completes. One action is one write. `late` is an issue that `gh` creates after its run was killed; `CreateTorn` is a
`gh issue create` that fails while it attaches the edges.

`broker` is the other process: `dispatch` and `unlock_dependency` up to their first write. `Offer` is the snapshot with the fresh item,
`ReadScope` the one reading of `ensure_dependencies` (the issue is open, all its blockers are closed), `ReadIssue`, `ReadRoot` and
`ReadRelations` the three readings of `check_dispatch`; only then `Unlock` or `Dispatch` compares the item once more and writes it, and
runs and people move between any two of these steps. `closed` is what GitHub says of an issue, and all `trusted_issue_scope` asks of a blocker
(`broker.py:412`); DONE is a status like any other. `Merge` closes the issue by the pull request's "Closes" and leaves the
item between the merge and `finalize_merge` ("MERGED" stands for MERGING from then on); `Finalize` closes it again if
somebody has reopened it. The last comparison and its write are one step: the window between them is a hazard of its own (`broker.py:953`).

People edit titles, bodies, parents and edges, close and reopen issues, drag items to BACKLOG, BLOCKED or READY, and break the end of the
tracking issue; nobody sets a working status or restores a COMPLETE line by hand.

A node is its position in `validate`'s order, so that whatever it refers to comes before it; the planner
process, the depth and edge limits, a status edit that a killed run's `gh` makes late (only a late creation is modelled), the key and the choice of the Project are left out. An issue that fails the signature is not
modelled (deleted issues, edits of the tracking issue's marker or envelope): every run and the gate refuse it. `route_node`
that raises is `Stop` at `describe`.

### Decisions

`DecisionEngine` is a program that runs once: `request` is its input and environment, `response` what Jev
answers, `out` what is printed. Every request over the providers of the environment, every routed set of fields and every answer (an offered
choice, another one, none, unsure) is an initial state or a choice of `Ask`.

### The journal

`mem` and `file` are the state in memory and the checkpoint, each a cursor, the retained events and the reorder buffer. An
`Append` is `Persist` (everything up to the rename) and `Publish` (the memory and the closed channel); the mutex
covers both, so in between only death is possible. A stream holds a batch, the captured channel (`notified`) and the
bytes on the wire; a client is modelled from what the protocol tells it: reconnect from the last event, take a snapshot after a 409 or a
reset frame. `EventLog` is the promise: one log, and clients that each see a contiguous part of it; `log` and what a client
`has` implement it (`Journal!Implements`).

## 3. What is checked

All passing runs are exhaustive. For the `Broker` runs, constants not named in a row are at their smallest: two providers,
`MaxRetries = 1`, one worker commit, risk not high, no host check, no event of the other kinds.

| Run | Bounds | Properties | Question |
|---|---|---|---|
| `crash` (module `Exclusion`) | 1 fault, 1 quota | `TypeOK`, `UnitsByPhase`, `UnitsKnown`, `ReadyIsClean`, `LaunchBound`, `ParkedIsRecoverable`, `KeepsLifecycle`, `RestartSafe`, `ReviewsFound` | Do the files stay consistent, and the status inside the lifecycle, when any step is the last one, do later cycles leave that status, and does a repeated dispatch find the reviewer it has started? |
| `high_risk` | HIGH risk, 1 quota | `RejectionsStand` | Is a rejection only ever discarded by a first dispatch of the review, and not when a reviewer is retried or replaced? |
| `people` | host check; 1 push, hold, grant, misreport, parser fix | `ExclusiveClone`, `ImplementedIsValid`, `EvidenceGenuine`, `LaunchBound`, `MergeIsReviewed`, `MergeIsValidated`, `KeepsLifecycle` | Can people and wrong handoffs get an unreviewed or unvalidated commit merged, two workers into one clone, or the item off the lifecycle? |
| `integration` | 2 commits, 2 base advances, 1 fault, 1 hold | `IntegrationBound`, `IntegrationOnce` | Is an upstream integration made once and on the bound base? |
| `live_quota` | 1 quota, 1 foreign cooldown | `Settles`, `ParkedLeaves` | Do quotas only delay? |
| `cycle` | 2 issues with any acyclic edges, 1 place, 2 drags, 1 close, 1 fault | `TypeOK`, `WithinCapacity`, `DependenciesFirst`, `PassedOverByErrors` | Do stale snapshots and several starts in one cycle keep the capacity and the order, and what keeps an issue waiting? |
| `publish` | every plan of 2 nodes; 2 troubles: faults of a run or the broker, changes by hand | `TypeOK`, `StartedWhole`, `StartedOnce`, `ProgressKept`, `PlannedOrder`, `Finishes` | Is a plan published once and whole, whichever runs break off, never worked on before, and worked on in its order, although the broker reads it piece by piece while others change it? |
| `decide` | 2 enabled, 3 supplied providers; 5 lists of actions | `Answered`, `Governed`, `Cautious`, `SwitchedByRules` | Who decides, and is the result usable, whatever Jev answers? |
| `journal` | 3 events, 2 payloads, 2 clients, 2 slots, window 2, buffer 2, 1 crash, 1 broken connection | `TypeOK`, `Reopens`, `Durable`, `Implements`, `Delivered` | Does every client see the log, all of it, without gaps? |

Each property is violated when a definition is replaced by its mutant (`PROJECT.json`,
"mutants"; the mutated forms stand before the definition they replace): a dropped guard, a missing reset, an
uncounted run, a file left behind.

Why the bounds are enough to be interesting:

* Lifecycle: one fault already hits every step of every handler, and the recovery from it then runs undisturbed, which
  is what "restart-safe" is about; one retry makes both "an attempt is left" and "none is left" reachable for retries and
  corrections; two providers are the least that allow an independent review, and with one cooling down the least that forbid
  it; two commits are what a correction or an integration needs. They do not show two faults in one recovery, or
  three providers with quotas.
* Cycle: two issues with one place make a snapshot select one of two, and a second drag puts an item where the snapshot no longer
  has it. Three issues are not checked; the theorems hold for any number.
* Publication: two nodes give a group with a leaf, two independent leaves and a dependency; `MaxTrouble = 2`
  gives two broken runs (the second one repairs what the first one left), two changes by hand (an edge removed and restored, an issue closed
  and reopened), or one of each. For the safety properties the theorems below cover every size.
* Journal: a window of two and three events let a cursor fall out of it; an event that closes a gap brings more than the
  window holds; a buffer of two can be full; two slots and two clients let one connection occupy what another one has left.

Deadlock is not checked for the lifecycle, the publication, the decision engine and the journal because they do stop: in DONE and
in WAITING_HUMAN without grants; when a plan is worked off, or two issues with one marker have to be
reconciled by a person; when the answer is printed; when all events are delivered. A cycle never stops, and `cycle` checks it.

### Fairness

* Lifecycle: the timer of `bin/install-systemd` (`OnUnitInactiveSec`) starts a cycle again and again, and a cycle
  offers each item the one action `lifecycle_action` computes, so the broker's own steps are weakly
  fair as one action. A unit ends (`--max-turns`, provider limits), a cooldown runs out,
  CI reports. Operator commands, people, pushes, failures and base advances are not fair.
* Cycle: its own steps, for the same reason, as one action.
* Publication: the operator runs the brief again until it is published, as `USAGE.md` asks (`Start`), a run that nothing
  breaks goes on, the broker runs, and what a killed run's `gh` still creates appears. Faults and people are not fair.
* Journal: the producer replays what was not accepted, the process is started again and goes on, a stream's goroutine runs.
  A client's steps are strongly fair, since connecting is disabled again and again by appends that hold the mutex.
  Heartbeats, deaths and broken connections are not fair: a lost wakeup must not be hidden by a heartbeat.

### Disagreements between code and documents

Three runs expect a violation. Each states what the repository's documents say and finds a behaviour
of the code that does not do it.

| Run | Property | Behaviour |
|---|---|---|
| `misreport` | `InProgressLeaves` | A result that parses but does not match the clone raises in every cycle: neither a retry nor a person is asked for. |
| `fallback` | `NoSelfApproval` | After a quota fallback the first provider's commits stay in the clone, and that provider may review them. |
| `parked` | `ParkedLeaves` | A cycle dies after it has started a reviewer and before it writes REVIEWING; the next one finds that reviewer's provider cooled down by another issue, parks the review and records the digest of a result that is still being written (`broker.py:1609`). Once the reviewer ends, `recover_provider` raises "provider recovery result changed" in every cycle (`broker.py:1292`). |

Further properties stand in the modules and are known not to hold; they show with the smallest constants and the events named:

* `MergingLeaves` (1 fault): `merge_pr` sets MERGING before it merges (`broker.py:1911`); after a crash in between the pull request is open, and
  MERGING only has `finalize_merge`, which demands a merged one.
* `ReviewingLeaves` (1 fault): after a crash between `spawn-agent`'s truncation of the result and its job record, the empty
  result passes for the same review's result (`broker.py:1478`); `consume_review` then raises in every cycle.
* `EntitlementKept` (1 fault, 1 quota): `systemd-run` fails after the job record was written; the quota continuation counts as
  spent although nobody ran (`broker.py:2098`).
* `Bootstrap!PlannedAlways` (2 changes by hand): the broker reads the blockers twice, for their state (`broker.py:969`) and for the
  edges as planned (`broker.py:971`, `bootstrap.py:485`). An edge that is missing in the first reading and restored before the second, or a blocker that is
  reopened in between, lets an issue start before its planned dependency. `PlannedOrder` is what remains true: it takes such a change in
  that very window, and a run that attaches the edge there does not do it.
* `RejectionsKept` (HIGH risk, 3 providers, 1 fault and 1 foreign cooldown, or 2 foreign cooldowns): a review dispatch ends before REVIEWING, the cooldown
  changes the candidate, and the second dispatch removes the rejection of the first (`broker.py:1603`). `RejectionsStand` is what remains true: only such a first dispatch
  does it, which starts the review anew; and `ReviewsFound`: only with another reviewer.
* `Cycle!Unlocked`: an issue that a person closes while its item is READY makes every cycle raise at its dispatch, and the issues
  behind it are never reached; `PassedOverByErrors` is what remains true.
* `DecisionEngine!Switched`: a confident "switch_provider" with an unsure provider prints the rules' provider, and the rules, which would not have switched, name the one that just failed
  (`decision_engine.py:390`); `SwitchedByRules` is what remains true.

Smaller observations: a crash after DONE leaves the clone and the records of the
issue behind, since no cycle looks at a DONE item. And an integration interrupted before its base is
bound, followed by a human hold and a resume, hands a prepared merge to a worker while the old base is
bound (two commits and one each of base advance, fault, hold and grant show it); `IntegrationBound` therefore speaks of
items without a granted attempt. In `bootstrap.py`, edges that
somebody added are never taken away, so that a run raises until a person removes them; and a person who breaks the COMPLETE
line of a published plan makes the next run write all statuses again, which `ProgressKept` therefore excludes; so are the
person's own drags. A blocker that is closed by hand, never DONE, lets its dependents start: `trusted_issue_scope` asks for CLOSED
alone (`broker.py:412`), and `PlannedOrder` says no more. In `Broker`, another issue's quota may come at any step
of a handler, although one cycle handles its actions one after the other; with HIGH risk, where it may then come between the two reviewers of one
dispatch, `Settles` and `ParkedLeaves` do not hold of the model, and `live_quota` is about issues with one reviewer.

## 4. What is proved

| Theorem | Module | Says |
|---|---|---|
| `TypeCorrect` | `TypesProof` | `Spec => []TypeOK` (`Broker`) |
| `PhasesHold` | `ExclusionProof` | `Spec => []UnitsByPhase` |
| `CloneIsExclusive` | `ExclusionProof` | `Spec => []ExclusiveClone` |
| `UnitsAreKnown` | `ExclusionProof` | `Spec => []UnitsKnown` |
| `SubmittedIsValid` | `HandoffProof` | `Spec => []ImplementedIsValid` |
| `EvidenceIsGenuine` | `HandoffProof` | `Spec => []EvidenceGenuine` |
| `LifecycleIsKept` | `LifecycleProof` | `Spec => KeepsLifecycle`: the broker implements `IssueLifecycle` |
| `MergeIsApproved` | `LifecycleProof` | `Spec => MergeIsReviewed` |
| `MergeIsChecked` | `LifecycleProof` | `Spec => MergeIsValidated` |
| `ReadyHasNoLeftovers` | `LifecycleProof` | `Spec => []ReadyIsClean` |
| `IntegrationHappensOnce` | `LifecycleProof` | `Spec => IntegrationOnce` |
| `ParkedStaysRecoverable` | `LifecycleProof` | `Spec => []ParkedIsRecoverable` |
| `RunsArePaid` | `LifecycleProof` | `Spec => []LaunchBound` |
| `MergesAreBound` | `LifecycleProof` | `Spec => []IntegrationBound` |
| `RejectionsAreKept` | `LifecycleProof` | `Spec => RejectionsStand` |
| `PublicationInvariant` | `BootstrapProof` | `Spec => [](IInv /\ Gate)` |
| `TypesHold` | `BootstrapProof` | `Spec => []TypeOK` (`Bootstrap`) |
| `NoNodeTwice` | `BootstrapProof` | `Spec => []StartedOnce` |
| `WholeWhenStarted` | `BootstrapProof` | `Spec => []StartedWhole` |
| `StatusSurvivesRuns` | `BootstrapProof` | `Spec => ProgressKept` |
| `OrderHolds` | `BootstrapProof` | `Spec => PlannedOrder` |
| `JournalInvariant` | `JournalProof` | `Spec => []IInv` |
| `LogKept` | `JournalProof` | `Spec => Implements`: the journal implements `EventLog` |
| `Reopened` | `JournalProof` | `Spec => []Reopens` |
| `NothingTakenBack` | `JournalProof` | `Spec => []Durable` |
| `TypesHold` | `JournalProof` | `Spec => []TypeOK` (`Journal`) |
| `CapacityKept` | `CycleProof` | `Spec => []WithinCapacity` |
| `DependenciesKept` | `CycleProof` | `Spec => []DependenciesFirst` |
| `TypesKept` | `CycleProof` | `Spec => []TypeOK` (`Cycle`) |
| `AlwaysAnswered` | `DecisionProof` | `Spec => []Answered` |
| `WellGoverned` | `DecisionProof` | `Spec => []Governed` |
| `RiskIsRespected` | `DecisionProof` | `Spec => []Cautious` |
| `RulesSwitch` | `DecisionProof` | `Spec => []SwitchedByRules` |

The lifecycle's hold for every value of the constants that satisfies `LifecycleAssumption` (at least one
provider, at least one retry, natural bounds), with no bound on anything else; the publication's for plans of any size and any number of
faults and changes (`BootstrapConstants`: at least one node, a natural bound); the journal's for any clients, payloads and limits that are at least one
(`JournalAssumption`); the cycle's for any number of issues and the capacities `main` accepts, 1 to 32 (`CycleAssumption`); the
decision engine's for any providers and any lists of them (`DecisionConstants`).

### The lifecycle

`TypeOK` is not inductive by itself: `consume_review` writes review metadata for `act.role`, which is a
reviewer only because the handler is entered with one. `ConsumeRole` adds that. The assumption
`MaxRetries > 0` is needed: `resume` and the integration set the retry count to `MaxRetries - 1`.

`ExclusiveClone` says that the implementer never runs together with a reviewer. Nothing in the code states it
in one place: dispatch and retry look at the implementer's unit only, `spawn_review` only at the
reviewer's own. It follows from the order of the statuses, and `UnitsByPhase` is that argument made
explicit:

* `UnitsByStatus`: no unit in READY, CHANGES_REQUESTED and from VERIFIED on; no reviewer in CLAIMED,
  IN_PROGRESS and RETRY_PENDING; no implementer in IMPLEMENTED, REVIEWING and WAITING_PROVIDER. Nothing is known
  in WAITING_HUMAN, which a person may enter at any time; so every operator command must
  check all units, and does.
* `UnitsByLabel`: the same for every point of a handler, because a person may have changed the status
  since it started.
* `StatusByLabel`, `CallsByLabel`: for whom `spawn-agent` is called, by whom, and that the status the caller goes on
  from can only have become WAITING_HUMAN meanwhile.
* `UnitsRecorded`: only required reviewers run, so consuming the required roles leaves nobody; an active
  implementer has a job record, so reconciliation does not take its clone away.

The step lemmas reduce every action to one of a few observations: a handler that holds no unit may go anywhere
(`QuietStep`); while no reviewer runs the implementer's handlers may go on (`ImplementerStep`), and while no implementer
runs the reviewers' (`ReviewerStep`, `CallReviewStep`); ending a handler without a write is always safe, which is why a
crash is (`EndingStep`); the environment only ends units or moves the item to WAITING_HUMAN (`EnvironmentStep`).

`UnitsByPhase` then carries two more results. `UnitsKnown` needs little beside it (`Known`): behind its first check `spawn-agent` has
found the clone, and from that check to the removal of the job record `spawn_review` has found the role inactive. Every other
handler that removes a clone or a job record does so at a label where no unit is active.

`ImplementedIsValid` is about one moment, but the handoff has to survive from its validation by `reconcile_implementation` until
it is reviewed. `Handoff` says where it is meanwhile. In IMPLEMENTED and REVIEWING it is valid; in WAITING_PROVIDER it is valid if a
reviewer is parked, and if the implementer is parked the wait file resumes to READY or RETRY_PENDING only (`ValidByStatus`). The handlers
that write the clone, its base or the implementer's result (`Busy`) run in none of these statuses, and a retry that is taken back
started in none of them (`Retrying`); the handlers that write one of these statuses (`Returning`, `Reviewing`, `Parking`)
hold the handoff valid, or a payload from such a status (`ByLabel`). The implementer itself cannot spoil it, since by `UnitsByStatus` it is not
running. A person's hold removes the obligation and an operator's command validates the handoff again.

`EvidenceGenuine` compares comments with what reviewers really decided. `Evidence` closes the gap between the two: a parsed
review that still has its job record is the verdict of that provider on the head its metadata names (`Recorded`), a reviewer at work reads that
head (`Reading`), and a call of `spawn_review` is about the commit in the clone and leaves no older result that parses behind
(`CallIsAboutHead`). It needs to know that the commit in the clone stays while the reviewers have it, which is what `UnitsByPhase`, `Known` and
`Handoff` give, and in which status a handler is: `Track` says that the payload's status is one the handler is offered for
(`Found`), and that the item has that status, one this handler has itself written, or WAITING_HUMAN.

The remaining theorems rest on what single steps may do, proved once for all of them. `DiskFrames` and `ItemFrames` list the
writers of every field; `Handles` says that a payload is loaded when a handler begins and carried until it ends;
`Came` says which steps lead to a label. With these (`Framed`, `Guided`) an invariant's proof looks only at the few
actions that can disturb it. `Grounds` is what is then invariant:

* `Fresh`: the runs recorded in results and job records are ones that were launched, and no review is about a later one; so a
  new implementation cannot pass for the one that was reviewed.
* `Continuation`: an open launch transaction holds the files of a worker that a quota stopped, in a status where nobody else
  uses them, and is never of a correction.

On it are built:

* `LifecycleIsKept`, the refinement: every status write is one of `Moves` for the handler under way (`WritersMove`), no implementer
  runs around a write that needs it gone (`WritersFindNoWorker`), and starts, ends, merges and holds are steps of `IssueLifecycle`;
  everything else is a stutter.
* The merge gates (`Gated`). `Unready`: an item that is to be dispatched, or whose implementer is parked, has no
  handoff that parses, so that a change of provider never meets reviews of the work at hand. `Independent`: whoever reviews the item's implementation is not the item's provider, although the provider changes while an item is
  parked. `Approved`: from the verdicts `consume_review` reads to the call of GitHub, every required role has approved the
  implementation's commit, and the merge names that commit as the head it expects. `HostChecked`: the same
  for the report of the host check. A push between gate and call changes GitHub's head, so that GitHub refuses.
* `Ready`: where the item becomes READY, or is parked to become it, clone, task pack and job record are gone and no
  integration is bound (`Blank`); a clone without a prepared merge has no target (`Untargeted`), from which `IntegrationOnce` follows.
* `Waits`: a parked item has its record; the attempt it records is as it was, nobody works on it (`Standing`), and if a reviewer
  made it, it ended with a quota report. `Truncated` says that the result of a reviewer at work or about to start is
  empty, so that the result a record was taken of is a finished one.
* `Budget`, for `LaunchBound`: what has run (`ghost.runs`), what is about to run (a worker `spawn-agent` is starting, a first
  worker that is still to be dispatched, a continuation a quota has earned) and what may still be asked for (the retries and
  corrections left, an integration without its attempt) are together at most the limit. `LaunchBound` says nothing of the last two, but
  the step that buys a run is never the one that starts it, and a crash may lie between them. That each step only moves an amount
  from one place to another needs `Ledger`: the count a retry goes by at every label of it (`Counting`), that the
  implementer's result is empty while it is being started (`Alone`), that a recorded attempt is older than the
  one under way (`Numbered`), and where the head of a prepared integration is (`Prepared`, `Dated`).
* `Bound`, for `IntegrationBound`: the base is bound before the attempt is counted and the status written. Between preparing and binding
  the item is in one of the statuses after verification, or held (`Late`), and no handler of an earlier status is under way; from there
  only a granted attempt leads back to a worker without binding.
* `Rejections`: a review that is called finds no rejection, or finds that this very review was started (`Unrejected`). A second
  reviewer is called by a first dispatch only (`FirstCalls`). A replacement that a crash interrupted is recognised because the
  parked reviewer's files are as they were parked or are being removed, and every later job of the role has a larger number (`Replaced`).

Four properties had to be stated anew. `MergeIsReviewed` replaces an invariant about merged pull requests, which compared the reviewers with the item's
provider for ever after: it speaks of the moment of the merge. `ParkedIsRecoverable` claimed that the recorded digests are right for every
parked item. That is false for a review that nobody could start (run `parked`), which is parked with resume `IMPLEMENTED`; it
claims it for the others. `IntegrationBound` and `RejectionsStand` name the exceptions (section 3) that bounds had kept out of sight.

### The publication

The properties say something about issues that are worked on; why they hold is decided long before, label by label, while a run
that knows only an old listing works on issues other runs have left. The inductive invariant `IInv` is that knowledge:

* `Store`, about the issues alone: the bindings of an envelope lead to issues of that node, each owned by one envelope
  (`Bindings`, `Owned`); only one tracking issue is complete, and it is so with every node bound, canonical and routed, unless
  people changed it (`OneComplete`, `Whole`); an issue that is still to be created late is unknown to everybody (`LateUnborn`).
* `Process`, about the run: it works on a tracking issue that is not complete (`OnRoot`); its listing agrees with the issues in
  what cannot change but by hand (`Listing`); the issue at hand belongs to the node at hand (`AtHand`); every node behind it is
  finished (`Behind`).

`Store` and `Process` are stated over values, so that a step is a fact about an old and a new value. `FinishedKept`, `QuietStore` and
`QuietProcess` say what a harmless change keeps; one lemma per label move (`To...`) covers the steps that change only the run; one
lemma per action does the rest.

`Gate` is the invariant of the broker between its readings. `Chosen` needs nobody's restraint: the item belongs to a node, and once the tracking issue is
read it is the one bound to it. `Gated` holds as long as nobody has changed anything since the blockers were read: after
`ReadRelations` the edges are the planned ones, and from the first reading on `Guarded`: the planned dependencies among the edges are closed, unless
a run has attached an edge since. That run works on a plan that is not published; when it has been past the node, the issue is
BLOCKED and the handler's last comparison fails, and before that the tracking issue's reading fails. `RunWrites` says field by field what a run
writes, `GuardedStays` and `RunKeepsGate` follow from it. `Writers` lists who may write a status, `StartsInOrder` what is known when
`Dispatch` writes it; from them the action properties follow. Only `TypesHold` mentions the bound.

### The journal

`IInv` says that the log is in four places. `Stored`: the checkpoint passes `validate` (`Good`) and holds what was published plus
what is just being written (`Holds(file, log \o ahead)`), and the memory of a running process holds what was published. `Served`: the
frames on the wire and the batch of a client's stream continue where the client is (`Follows`). `Seen`: what a client has is a
part of the log. `AppendGood` and `AppendHolds` are about one Append, which may close a gap and so bring several events, drop
the oldest ones and keep the later ones waiting; `BufferBounded` is why the reorder buffer stays within its limit although an event that
closes a gap is accepted when it is full. `AfterFollows` is about reading from a cursor that is still in the window.
`ReaderKeeps`, `StreamKeeps` and `GrowthKeeps` say what a change of one client, of one stream and of the log leaves intact, and
`Steps` shows every action to be a step of `EventLog` or a stutter.

### The cycle

That the capacity is kept does not follow from any one check: `main` counts the free places once, `dispatch` counts the running units
again, a retry does not. `Capacity` is the sum that no step increases: the running implementers and the selected actions that may
still start one are together at most `MaxImplementers`. `FirstOnes` and `SelectionBounded` count the selection; `Selected` is stated with sets
of positions and `InOrder`, not by recursion over the list, so that no induction is needed. `Order` is
`DependenciesFirst` together with what the handler has already read of its issue's blockers: nothing reopens an issue or adds a
blocker between the check and the start.

### Decisions

`IInv` is the shape of what is printed: the rules' values, or Jev's response judged field by field. `RulesUsable`
says that the rules' values are ones the caller offered, `SureIsRouted` that the fields Jev decides are among those it was
asked for. `Least` reduces the choice of the first fitting list entry to the well-foundedness of `<` on the naturals.

### What is only model-checked

Every invariant and every action property of a passing run has a theorem, but one. What is left to TLC:

* `ReviewsFound`. It needs to be known of every decided review whether its verdict was posted before its item became IMPLEMENTED
  again. Besides `crash`, it was checked with HIGH risk (1 fault and 1 quota; 1 fault and 1 grant; 1 hold and 1 grant) and with three providers
  (1 fault, 1 foreign cooldown), at up to 7 million states each.
* All liveness (`Settles`, `ParkedLeaves`, `RestartSafe`, `PassedOverByErrors`, `Finishes`, `Delivered`): liveness under fairness
  and `ENABLED` are beyond the prover.

## 5. What is not modelled

* Lifecycle: browser validation (the second kind of external report) and the validation context; the migration credit for
  retries of old task packs (because of it, the "Retry limit reached" branch of
  `reconcile_waiting_result` is in the model but only old items reach it); edits of the issue during a retry, except that the launch guard
  may fail for them; the confinement of worker processes, the prompts, credentials, and the wording of comments and Evidence.
* Cycle: the snapshot's signature, its expiry and its replay; issues that are reopened and blockers that are added later; handlers are reduced to their status writes, so that a quota or a
  budget of one issue that influences another (the shared cooldown) is only in `Broker`.
* Bootstrap: see section 2; two checkouts have two locks, and running both at once is not modelled.
* Decision engine: prompts, probabilities, the smoke test. Journal: the encoding of events and its size limits.
* Native workers (`internal/worker`), scheduler, snapshot protocol, registry, routing: Go packages that the Python programs
  do not call; planned below.
* GitHub gateway, observer bridge, domain contracts, configuration, migration, dashboard, `harness`, credentials and
  installation: conversions, one-shot file rewriting and plain I/O, without state over time.

## 6. Plan

1. `NativeWorker`: Start and Stop with partial failures and crashes; claims and credentials. To be proved: one worker per
   claim.
2. `Scheduler`: Frontier and aging; no eligible work waits for ever; the order is a function of the snapshot and the ages.
3. `SnapshotProtocol`: all-or-nothing preflight, expiry and replay; composed with `Cycle`.
4. `Routing` and the registry as pure functions against reference definitions over small inputs.
5. Proofs: that the statuses `Cycle` writes are those of `IssueLifecycle` for each issue.
