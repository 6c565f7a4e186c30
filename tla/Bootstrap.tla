------------------------------ MODULE Bootstrap ------------------------------
(***************************************************************************)
(* bootstrap-project: a plan becomes GitHub issues with native parent and  *)
(* blocked-by edges, Project items and a signed envelope in the tracking   *)
(* issue, by runs any of which may break off anywhere; and check_dispatch, *)
(* the gate that keeps the broker from a half-published plan.              *)
(*                                                                         *)
(* Issues are numbered as they are created.  A node is its position in     *)
(* validate's order, so that what a node refers to comes before it; node 0 *)
(* stands for the tracking issue, "closing" for the COMPLETE line that     *)
(* must end its body.  One lock per checkout: one run at a time.           *)
(***************************************************************************)
EXTENDS Integers, FiniteSets, SequencesExt

CONSTANTS
  N,          \* nodes of a plan
  MaxTrouble  \* runs and actions that break off, and changes people make by hand, together

ASSUME BootstrapConstants == N \in Nat \ {0} /\ MaxTrouble \in Nat

VARIABLES
  issues,  \* GitHub: the issues of this brief, with their Project items
  run,     \* the bootstrap process
  broker,  \* the broker process: the item it is about to unlock or dispatch
  late,    \* an issue a killed run's gh has yet to create
  faults,  \* faults so far
  touched  \* issues changed by hand, in the order of the changes
vars == <<issues, run, broker, late, faults, touched>>
Trouble == faults + Len(touched)

Nodes == 1 .. N

(***************************************************************************)
(* Plans.                                                                  *)
(***************************************************************************)
Leaves(plan) == Nodes \ {plan.parent[n] : n \in Nodes}

\* What validate accepts, with the nodes in its order: no cycles, and
\* dependencies only between executable leaves.
Plans ==
  { plan \in [parent : [Nodes -> 0 .. N], deps : [Nodes -> SUBSET Nodes]] :
      \A n \in Nodes :
        /\ plan.parent[n] < n /\ \A d \in plan.deps[n] : d < n /\ d \in Leaves(plan)
        /\ n \notin Leaves(plan) => plan.deps[n] = {} }

NoPlan == [parent |-> [n \in Nodes |-> 0], deps |-> [n \in Nodes |-> {}]]
NoNodes == [n \in Nodes |-> 0]

(***************************************************************************)
(* Issues.  "body" is what node_body writes of other issues: the root and  *)
(* the dependencies; "text" says whether title and body are still as they  *)
(* were planned, and whether the body still starts with the marker.        *)
(***************************************************************************)
Status == {"none", "BACKLOG", "BLOCKED", "READY", "STARTED", "MERGED", "DONE"}
NewIssue == [mark |-> 0, body |-> [root |-> 0, deps |-> {}], text |-> "planned",
             parent |-> 0, edges |-> {}, closed |-> FALSE, status |-> "none", routed |-> FALSE,
             plan |-> NoPlan, nodes |-> NoNodes, complete |-> FALSE, closing |-> FALSE]
NoIssue == [NewIssue EXCEPT !.mark = -1]
Numbers == 1 .. Len(issues)

NoRun == [pc |-> "idle", listed |-> <<>>, root |-> 0, node |-> 0, issue |-> 0, missing |-> {}]

NoAction == [pc |-> "idle", issue |-> 0, from |-> "none", text |-> "planned", since |-> 0]

Init ==
  /\ issues = <<>> /\ run = NoRun /\ broker = NoAction /\ late = NoIssue
  /\ faults = 0 /\ touched = <<>>

\* The issue a node is bound to in the envelope of root r; the root's own for 0.
Bound(r, n) == IF n = 0 THEN r ELSE issues[r].nodes[n]
Parent(r, n) == Bound(r, issues[r].plan.parent[n])
Dependencies(r, n) == {Bound(r, d) : d \in issues[r].plan.deps[n]}
Executable(r, n) == n \in Leaves(issues[r].plan)
Body(r, n) == [root |-> r, deps |-> Dependencies(r, n)]

\* verify_identity and verify_relationships.
Canonical(issue, r, n) == issue.text = "planned" /\ issue.body = Body(r, n)
Related(i, r, n) == issues[i].parent = Parent(r, n) /\ issues[i].edges = Dependencies(r, n)

(***************************************************************************)
(* A run.  It ends by returning, or by raising a BootstrapError.           *)
(***************************************************************************)
At(pc) == run.pc = pc
Goto(pc) == run' = [run EXCEPT !.pc = pc]
End == run' = NoRun
\* Mutant: one turn too many.
OnwardPast(pc, after) ==
  run' = IF run.node <= N THEN [run EXCEPT !.pc = pc, !.node = @ + 1, !.issue = 0]
         ELSE [run EXCEPT !.pc = after, !.node = 1, !.issue = 0]

\* The loop over the nodes: the next one, or what follows the loop.
Onward(pc, after) ==
  run' = IF run.node < N THEN [run EXCEPT !.pc = pc, !.node = @ + 1, !.issue = 0]
         ELSE [run EXCEPT !.pc = after, !.node = 1, !.issue = 0]

Update(i, issue) == issues' = [issues EXCEPT ![i] = issue]
World == <<broker, late, faults, touched>>

\* Mutant: a run does not look at the completion it finds.
StartAgain ==
  /\ run = NoRun
  /\ \/ issues = <<>> /\ run' = [NoRun EXCEPT !.pc = "create_root"]
     \/ \E r \in Numbers :
          /\ {i \in Numbers : issues[i].mark = 0} = {r}
          /\ run' = [NoRun EXCEPT !.pc = "root_item", !.listed = issues, !.root = r, !.node = 1]
  /\ UNCHANGED <<issues, World>>

\* Mutant: a run that finds a tracking issue gives up.
StartFresh ==
  /\ At("idle") /\ {i \in Numbers : issues[i].mark = 0} = {}
  /\ run' = [NoRun EXCEPT !.pc = "create_root", !.listed = issues]
  /\ UNCHANGED <<issues, World>>

\* The listing, and the tracking issue in it.  A second one with the marker
\* raises, and the complete one is all there is to do.
Roots == {i \in Numbers : issues[i].mark = 0}
Published(r) == issues[r].complete /\ issues[r].closing
Start ==
  /\ At("idle")
  /\ \/ Roots = {} /\ run' = [NoRun EXCEPT !.pc = "create_root", !.listed = issues]
     \/ \E r \in Roots :
          /\ Roots = {r} /\ ~Published(r)
          /\ run' = [NoRun EXCEPT !.pc = "root_item", !.listed = issues, !.root = r, !.node = 1]
  /\ UNCHANGED <<issues, World>>

\* A new plan, whatever an interrupted run had been given.
CreateRoot ==
  /\ At("create_root")
  /\ \E plan \in Plans : issues' = Append(issues, [NewIssue EXCEPT !.plan = plan])
  /\ run' = [run EXCEPT !.pc = "root_item", !.root = Len(issues) + 1, !.node = 1]
  /\ UNCHANGED World

RootItem ==
  /\ At("root_item")
  /\ Update(run.root, [issues[run.root] EXCEPT !.status = "BACKLOG"])
  /\ Goto("locate")
  /\ UNCHANGED World

\* The issue of the node at hand: by its binding, or by its marker in the listing.
Candidates ==
  LET bound == Bound(run.root, run.node)
  IN IF bound # 0 THEN {bound}
     ELSE
     { i \in 1 .. Len(run.listed) :
         run.listed[i].mark = run.node /\ run.listed[i].text # "unmarked" }
Locate ==
  /\ At("locate")
  /\ \/ Candidates = {} /\ Goto("create")
     \/ \E i \in Candidates :
          /\ Candidates = {i} /\ Canonical(run.listed[i], run.root, run.node)
          /\ run' = [run EXCEPT !.pc = "repair", !.issue = i]
  /\ UNCHANGED <<issues, World>>
LocateRaises ==
  /\ At("locate") /\ Candidates # {}
  /\ \A i \in Candidates : Candidates # {i} \/ ~Canonical(run.listed[i], run.root, run.node)
  /\ End
  /\ UNCHANGED <<issues, World>>

\* gh issue create: the issue, its parent and its edges.
Created ==
  [NewIssue EXCEPT !.mark = run.node, !.body = Body(run.root, run.node),
     !.parent = Parent(run.root, run.node), !.edges = Dependencies(run.root, run.node)]
Create ==
  /\ At("create")
  /\ issues' = Append(issues, Created)
  /\ run' = [run EXCEPT !.pc = "bind", !.issue = Len(issues) + 1, !.missing = {}]
  /\ UNCHANGED World

\* repair_relationships adds what is missing and never takes an edge away.
Repair ==
  LET i == run.issue IN
  /\ At("repair")
  /\ issues[i].parent \in {0, Parent(run.root, run.node)}
  /\ Update(i, [issues[i] EXCEPT !.parent = Parent(run.root, run.node)])
  /\ run' = [run EXCEPT !.pc = "bind",
                        !.missing = Dependencies(run.root, run.node) \ issues[i].edges]
  /\ UNCHANGED World
RepairRaises ==
  /\ At("repair") /\ issues[run.issue].parent \notin {0, Parent(run.root, run.node)}
  /\ End
  /\ UNCHANGED <<issues, World>>
Attach ==
  /\ At("bind")
  /\ \E d \in run.missing :
       /\ Update(run.issue, [issues[run.issue] EXCEPT !.edges = @ \union {d}])
       /\ run' = [run EXCEPT !.missing = @ \ {d}]
  /\ UNCHANGED World

\* The binding is in the signed envelope before anything relies on it.
Bind ==
  /\ At("bind") /\ run.missing = {}
  /\ issues' = [issues EXCEPT ![run.root].nodes[run.node] = run.issue]
  /\ Goto("item")
  /\ UNCHANGED World

\* The Project item, its status, then its fields with route_node's choice.
Item ==
  /\ At("item")
  /\ Update(run.issue, [issues[run.issue] EXCEPT
       !.status = IF Executable(run.root, run.node) THEN "BLOCKED" ELSE "BACKLOG"])
  /\ Goto("describe")
  /\ UNCHANGED World
Describe ==
  /\ At("describe")
  /\ Update(run.issue, [issues[run.issue] EXCEPT !.routed = Executable(run.root, run.node)])
  /\ Goto("verify")
  /\ UNCHANGED World
Verify ==
  /\ At("verify")
  /\ IF Related(run.issue, run.root, run.node) THEN Onward("locate", "reread") ELSE End
  /\ UNCHANGED <<issues, World>>

\* Every issue once more, as GitHub has it now.
Reread ==
  LET i == Bound(run.root, run.node) IN
  /\ At("reread")
  /\ IF Canonical(issues[i], run.root, run.node) /\ Related(i, run.root, run.node)
     THEN Onward("reread", "release") ELSE End
  /\ UNCHANGED <<issues, World>>

\* The leaves without dependencies become READY, one by one.
Release ==
  LET i == Bound(run.root, run.node)
      free == Executable(run.root, run.node) /\ issues[run.root].plan.deps[run.node] = {}
  IN
  /\ At("release")
  /\ Update(i, [issues[i] EXCEPT !.status = IF free THEN "READY" ELSE @])
  /\ Onward("release", "complete")
  /\ UNCHANGED World

\* One edit of the tracking issue opens the gate.
Complete ==
  /\ At("complete")
  /\ Update(run.root, [issues[run.root] EXCEPT !.complete = TRUE, !.closing = TRUE])
  /\ End
  /\ UNCHANGED World

RunSteps ==
  \/ CreateRoot \/ RootItem \/ Locate \/ LocateRaises \/ Create \/ Repair \/ RepairRaises
  \/ Attach \/ Bind \/ Item \/ Describe \/ Verify \/ Reread \/ Release \/ Complete

(***************************************************************************)
(* Failures.  A call fails or the process is killed between two steps; gh  *)
(* creates the issue and fails while it attaches edges; or gh outlives the *)
(* killed process and creates the issue some time later.                   *)
(***************************************************************************)
BreaksOff == ~At("idle") /\ Trouble < MaxTrouble /\ faults' = faults + 1 /\ End
Stop == BreaksOff /\ UNCHANGED <<issues, broker, late, touched>>

CreateTorn ==
  /\ At("create") /\ BreaksOff
  /\ \E parent \in {0, Parent(run.root, run.node)},
        edges \in SUBSET Dependencies(run.root, run.node) :
       issues' = Append(issues, [Created EXCEPT !.parent = parent, !.edges = edges])
  /\ UNCHANGED <<broker, late, touched>>
CreateLate ==
  /\ late = NoIssue /\ BreaksOff
  /\ \/ At("create") /\ late' = Created
     \/ At("create_root") /\ \E plan \in Plans : late' = [NewIssue EXCEPT !.plan = plan]
  /\ UNCHANGED <<issues, broker, touched>>
Land ==
  /\ late # NoIssue
  /\ issues' = Append(issues, late) /\ late' = NoIssue
  /\ UNCHANGED <<run, broker, faults, touched>>

Failures == Stop \/ CreateTorn \/ CreateLate \/ Land

(***************************************************************************)
(* The broker: dispatch and unlock_dependency up to their first write.     *)
(* Every reading is a step of its own, and what was read may have changed  *)
(* when the next one is made.  A started issue is anywhere between CLAIMED *)
(* and its merge.                                                          *)
(***************************************************************************)
Scoped(i) == ~issues[i].closed /\ \A j \in issues[i].edges : issues[j].closed

\* The item is offered by the snapshot and, to fresh_item, still as it was there;
\* a BLOCKED one only when its blockers are closed.
Offer(i) ==
  /\ broker = NoAction
  /\ issues[i].mark # 0 /\ issues[i].routed /\ issues[i].status \in {"READY", "BLOCKED"}
  /\ issues[i].status = "BLOCKED" => \A j \in issues[i].edges : issues[j].closed
  /\ broker' = [NoAction EXCEPT !.pc = "scope", !.issue = i, !.from = issues[i].status,
                               !.text = issues[i].text]
  /\ UNCHANGED <<issues, run, late, faults, touched>>

\* One reading: the handler goes on to the next one, or is over.
Reads(pc, accepted, next) ==
  /\ broker.pc = pc
  /\ broker' = IF accepted THEN next ELSE NoAction
  /\ UNCHANGED <<issues, run, late, faults, touched>>

\* ensure_dependencies: the issue is open and its blockers are closed, by whomever.
ReadScope == Reads("scope", Scoped(broker.issue),
                   [broker EXCEPT !.pc = "issue", !.since = Len(touched)])

\* check_dispatch reads the issue, the tracking issue, and parent and edges.
ReadIssue == Reads("issue", issues[broker.issue].text = "planned",
                   [broker EXCEPT !.pc = "root"])

\* Mutants: a gate that does not wait for the completion, one that takes the
\* marker for the identity, one that does not look at the edges.
IdentifiedEarly(i) ==
  LET r == issues[i].body.root
      n == issues[i].mark
  IN n # 0 /\ Executable(r, n) /\ Bound(r, n) = i /\ issues[i].body = Body(r, n)
IdentifiedByMarker(i) ==
  LET r == issues[i].body.root
      n == issues[i].mark
  IN n # 0 /\ Published(r) /\ Executable(r, n) /\ issues[i].body = Body(r, n)

\* The graph is complete, and the issue is the one bound to its node.
Identified(i) ==
  LET r == issues[i].body.root
      n == issues[i].mark
  IN /\ n # 0 /\ Published(r) /\ Executable(r, n)
     /\ 0 \notin {issues[r].nodes[m] : m \in Nodes}
     /\ Bound(r, n) = i /\ issues[i].body = Body(r, n)
ReadRoot == Reads("root", Identified(broker.issue), [broker EXCEPT !.pc = "relations"])

ReadRelationsAnyway == Reads("relations", TRUE, [broker EXCEPT !.pc = "write"])
ReadRelations ==
  Reads("relations",
        Related(broker.issue, issues[broker.issue].body.root, issues[broker.issue].mark),
        [broker EXCEPT !.pc = "write"])

\* The item is still as it was, and is written.
Unmoved ==
  /\ issues[broker.issue].status = broker.from
  /\ broker.from = "READY" => issues[broker.issue].text = broker.text
Writes(from, to) ==
  /\ broker.pc = "write" /\ broker.from = from /\ Unmoved
  /\ Update(broker.issue, [issues[broker.issue] EXCEPT !.status = to])
  /\ broker' = NoAction
  /\ UNCHANGED <<run, late, faults, touched>>
Unlock == Writes("BLOCKED", "READY")
Dispatch == Writes("READY", "STARTED")
Stale == Reads("write", Unmoved, broker) /\ ~Unmoved

\* The merge closes the issue, by the pull request's "Closes"; finalize_merge
\* sees to it before DONE.
Closes(i, from, to) ==
  /\ issues[i].status = from
  /\ Update(i, [issues[i] EXCEPT !.status = to, !.closed = TRUE])
  /\ UNCHANGED <<run, World>>
Merge(i) == Closes(i, "STARTED", "MERGED")
Finalize(i) == broker = NoAction /\ Closes(i, "MERGED", "DONE")

BrokerSteps ==
  \/ ReadScope \/ ReadIssue \/ ReadRoot \/ ReadRelations \/ Unlock \/ Dispatch \/ Stale
  \/ \E i \in Numbers : Offer(i) \/ Merge(i) \/ Finalize(i)

\* A call fails or the process dies: what it has read is lost.
BrokerStops ==
  /\ broker # NoAction /\ Trouble < MaxTrouble
  /\ broker' = NoAction /\ faults' = faults + 1
  /\ UNCHANGED <<issues, run, late, touched>>

(***************************************************************************)
(* People: they edit a node's issue, its parent or its edges, close or     *)
(* reopen it, drag its item, or edit the end of the tracking issue.        *)
(***************************************************************************)
ByHand(i, issue) ==
  /\ Trouble < MaxTrouble /\ touched' = Append(touched, i)
  /\ issue # issues[i] /\ Update(i, issue)
  /\ UNCHANGED <<run, broker, late, faults>>
People ==
  \E i \in Numbers :
    LET issue == issues[i] IN
    \/ issue.closing /\ ByHand(i, [issue EXCEPT !.closing = FALSE])
    \/ /\ issue.mark # 0
       /\ \/ \E text \in {"planned", "changed", "unmarked"} :
               ByHand(i, [issue EXCEPT !.text = text])
          \/ \E j \in ({0} \union Numbers) \ {i} : ByHand(i, [issue EXCEPT !.parent = j])
          \/ \E j \in Numbers \ {i} : issues[j].mark # 0 /\
               \/ ByHand(i, [issue EXCEPT !.edges = @ \ {j}])
               \/ ByHand(i, [issue EXCEPT !.edges = @ \union {j}])
          \/ ByHand(i, [issue EXCEPT !.closed = ~@])
          \/ issue.status # "none" /\ \E status \in {"BACKLOG", "BLOCKED", "READY"} :
               ByHand(i, [issue EXCEPT !.status = status])

Next == Start \/ RunSteps \/ Failures \/ BrokerSteps \/ BrokerStops \/ People

(***************************************************************************)
(* The operator runs the same brief again until it is published, as        *)
(* USAGE.md asks; the timer runs the broker; a killed run's gh ends.       *)
(***************************************************************************)
Fairness == WF_vars(Start) /\ WF_vars(RunSteps) /\ WF_vars(BrokerSteps) /\ WF_vars(Land)
Spec == Init /\ [][Next]_vars
FairSpec == Spec /\ Fairness

(***************************************************************************)
(* Properties.                                                             *)
(***************************************************************************)
IssueType ==
  [mark : {-1} \union 0 .. N, body : [root : Nat, deps : SUBSET Nat],
   text : {"planned", "changed", "unmarked"}, parent : Nat, edges : SUBSET Nat, closed : BOOLEAN,
   status : Status, routed : BOOLEAN, plan : Plans \union {NoPlan}, nodes : [Nodes -> Nat],
   complete : BOOLEAN, closing : BOOLEAN]
ActionType ==
  [pc : {"idle", "scope", "issue", "root", "relations", "write"}, issue : 0 .. Len(issues),
   from : {"none", "BLOCKED", "READY"}, text : {"planned", "changed", "unmarked"},
   since : 0 .. Len(touched)]

\* Types, and the process's references are to issues that exist.
TypeOK ==
  /\ \A i \in Numbers : issues[i] \in IssueType /\ issues[i].mark # -1
  /\ late \in IssueType /\ broker \in ActionType
  /\ run.root \in 0 .. Len(issues) /\ run.issue \in 0 .. Len(issues)
  /\ run.node \in 0 .. N /\ run.missing \subseteq Numbers
  /\ faults \in Nat /\ Trouble <= MaxTrouble

Begun(i) == issues[i].mark # 0 /\ issues[i].status \in {"STARTED", "MERGED", "DONE"}
Hands == ToSet(touched)

\* When anything of a plan is being worked on, all of it is published: every
\* node has its own issue with the planned content and edges, and every leaf
\* is routed, whichever runs broke off on the way.
StartedWhole ==
  \A i \in Numbers : Begun(i) =>
    LET r == issues[i].body.root IN
    /\ issues[r].complete
    /\ \A n \in Nodes :
         LET j == Bound(r, n) IN
         /\ j # 0 /\ issues[j].mark = n
         /\ j \in Hands \/ (Canonical(issues[j], r, n) /\ Related(j, r, n))
         /\ Executable(r, n) => issues[j].routed

\* However often issues were created twice, no node is worked on twice.
StartedOnce ==
  \A i, j \in Numbers :
    (Begun(i) \/ Identified(i)) /\ (Begun(j) \/ Identified(j)) /\ issues[i].mark = issues[j].mark
      => i = j

\* A run never takes back a status the broker has written, as long as nobody
\* breaks the end of the tracking issue by hand; only people drag such an item.
ProgressKept ==
  [][\A i \in Numbers : Begun(i) /\ Published(issues[i].body.root) /\ touched' = touched =>
       issues'[i].status \in {"STARTED", "MERGED", "DONE"}]_vars

\* Issue i is started, and a planned dependency of its node is open.
OutOfOrder(i) ==
  LET r == issues[i].body.root IN
  /\ ~Begun(i) /\ issues'[i].status = "STARTED"
  /\ \E d \in issues[r].plan.deps[issues[i].mark] : ~issues[Bound(r, d)].closed

\* An issue is started only when every planned dependency is closed, whatever
\* runs broke off and whatever people did, unless they change something after the
\* broker has read which blockers the issue has and before it claims the item.
PlannedOrder == [][broker.since = Len(touched) => \A i \in Numbers : ~OutOfOrder(i)]_vars

\* Even then: known not to hold.
PlannedAlways == [][\A i \in Numbers : ~OutOfOrder(i)]_vars

\* The plan is published and worked off in the end, unless people changed
\* something or an issue that was created late has to be reconciled.
Ambiguous == \E i, j \in Numbers : i # j /\ issues[i].mark = issues[j].mark
WorkedOff == \E r \in Roots : \A n \in Leaves(issues[r].plan) :
               Bound(r, n) # 0 /\ issues[Bound(r, n)].status = "DONE"
Finishes == <>(WorkedOff \/ touched # <<>> \/ Ambiguous)
=============================================================================
