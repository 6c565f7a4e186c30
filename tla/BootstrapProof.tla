--------------------------- MODULE BootstrapProof ---------------------------
(***************************************************************************)
(* What publication guarantees for plans of any size, any number of broken *)
(* runs and any number of changes by hand.  The invariant is stated of the *)
(* values s (issues), h (issues changed by hand), l (late) and v (run), so *)
(* that a step is a fact about old and new values.                         *)
(***************************************************************************)
EXTENDS Bootstrap, TLAPS

(***************************************************************************)
(* The inductive invariant: the issues.                                    *)
(***************************************************************************)
Ids(s) == 1 .. Len(s)
BoundIn(s, r, n) == IF n = 0 THEN r ELSE s[r].nodes[n]
ParentIn(s, r, n) == BoundIn(s, r, s[r].plan.parent[n])
DepsIn(s, r, n) == {BoundIn(s, r, d) : d \in s[r].plan.deps[n]}
BodyIn(s, r, n) == [root |-> r, deps |-> DepsIn(s, r, n)]
LeafIn(s, r, n) == n \in Leaves(s[r].plan)

\* Issue i is as the plan of r has node n.
Planned(s, i, r, n) ==
  /\ s[i].text = "planned" /\ s[i].body = BodyIn(s, r, n)
  /\ s[i].parent = ParentIn(s, r, n) /\ s[i].edges = DepsIn(s, r, n)

\* A node is finished when its issue is bound, as planned unless somebody
\* changed it, and routed if it is a leaf.
Finished(s, h, r, n) ==
  LET i == s[r].nodes[n] IN
  i # 0 /\ (i \in h \/ Planned(s, i, r, n)) /\ (LeafIn(s, r, n) => s[i].routed)

\* A node's issue names its tracking issue; only tracking issues are completed.
Rooted(s) == \A i \in Ids(s) :
  /\ s[i].mark # -1 /\ (s[i].mark # 0 => s[i].body.root \in Ids(s))
  /\ s[i].complete => s[i].mark = 0

\* An issue that is yet to be created is bound to nothing.
Unborn(s, issue) ==
  /\ issue.mark # -1 /\ (issue.mark # 0 => issue.body.root \in Ids(s))
  /\ issue.status = "none" /\ ~issue.complete /\ ~issue.closing /\ issue.nodes = NoNodes
LateUnborn(s, l) == l = NoIssue \/ Unborn(s, l)

\* Only one plan is ever completed.
OneComplete(s) == \A r, q \in Ids(s) : s[r].complete /\ s[q].complete => r = q

\* A binding is to an issue of that node and that plan.
Binds(s, i, r, n) == i \in Ids(s) /\ s[i].mark = n /\ s[i].body.root = r
Bindings(s) == \A r \in Ids(s) : \A n \in Nodes :
  s[r].nodes[n] # 0 => Binds(s, s[r].nodes[n], r, n)

\* Work under way is on the bound issues of a complete plan.
Working(issue) == issue.status \in {"STARTED", "MERGED", "DONE"}
Entitled(s, i) ==
  s[i].mark # 0 /\ s[s[i].body.root].complete /\ s[s[i].body.root].nodes[s[i].mark] = i
Owned(s) == \A i \in Ids(s) : Working(s[i]) => Entitled(s, i)

\* Every node of a complete plan is finished.
Whole(s, h) == \A r \in Ids(s) : s[r].complete => \A n \in Nodes : Finished(s, h, r, n)

Store(s, h, l) ==
  Rooted(s) /\ LateUnborn(s, l) /\ OneComplete(s) /\ Bindings(s) /\ Owned(s) /\ Whole(s, h)

(***************************************************************************)
(* The inductive invariant: what the run knows at each label.              *)
(***************************************************************************)
Held == {"repair", "bind", "item", "describe", "verify"}
Loop == {"locate", "create"} \union Held
Ending == {"reread", "release", "complete"}
Labels == {"idle", "create_root", "root_item"} \union Loop \union Ending

\* The plan it works on is the only one that may be complete, and not published.
OnRoot(s, v) ==
  /\ v.pc = "idle" => v = NoRun
  /\ v.pc = "create_root" => v.root = 0 /\ v.node = 0 /\ \A i \in Ids(s) : ~s[i].complete
  /\ v.pc \notin {"idle", "create_root"} =>
       /\ v.root \in Ids(s) /\ s[v.root].mark = 0 /\ ~(s[v.root].complete /\ s[v.root].closing)
       /\ \A i \in Ids(s) : s[i].complete => i = v.root
       /\ v.node \in Nodes
  /\ v.pc = "root_item" => v.node = 1

\* The listing differs from GitHub only by what people changed, and has the
\* issues that earlier runs bound to the nodes ahead.
Listing(s, h, v) ==
  /\ Len(v.listed) <= Len(s)
  /\ \A i \in Ids(v.listed) :
       /\ v.listed[i].mark = s[i].mark /\ v.listed[i].body = s[i].body
       /\ i \in h \/ v.listed[i].text = s[i].text
  /\ v.pc \in {"root_item"} \union Loop =>
       \A m \in Nodes : m > v.node \/ (m = v.node /\ v.pc \in {"root_item", "locate"}) =>
         s[v.root].nodes[m] <= Len(v.listed)

\* The issue at hand is the node's.
AtHand(s, h, v) ==
  /\ v.pc \notin Held => v.issue = 0
  /\ v.pc # "bind" => v.missing = {}
  /\ v.pc = "create" => s[v.root].nodes[v.node] = 0
  /\ v.pc \in Held =>
       /\ v.issue \in Ids(s) /\ s[v.issue].mark = v.node
       /\ s[v.issue].body = BodyIn(s, v.root, v.node)
       /\ v.issue \in h \/ s[v.issue].text = "planned"
       /\ s[v.root].nodes[v.node] \in {0, v.issue}
       /\ v.missing \subseteq DepsIn(s, v.root, v.node)
  /\ v.pc \in {"item", "describe", "verify"} => s[v.root].nodes[v.node] = v.issue
  /\ v.pc = "verify" /\ LeafIn(s, v.root, v.node) => s[v.issue].routed

\* The loops: what is behind is finished.
Behind(s, h, v) ==
  /\ v.pc \in Loop => \A m \in Nodes : m < v.node => Finished(s, h, v.root, m)
  /\ v.pc \in Ending => \A m \in Nodes : Finished(s, h, v.root, m)

Process(s, h, v) == OnRoot(s, v) /\ Listing(s, h, v) /\ AtHand(s, h, v) /\ Behind(s, h, v)

RunType == [pc : Labels, listed : Seq(IssueType), root : Nat, node : Nat, issue : Nat,
            missing : SUBSET Nat]
BrokerType == [pc : {"idle", "scope", "issue", "root", "relations", "write"}, issue : Nat,
               from : {"none", "BLOCKED", "READY"}, text : {"planned", "changed", "unmarked"},
               since : Nat]
Typed ==
  /\ issues \in Seq(IssueType) /\ late \in IssueType /\ run \in RunType /\ broker \in BrokerType
  /\ faults \in Nat /\ touched \in Seq(Nat) /\ Trouble <= MaxTrouble

IInv == Typed /\ Store(issues, Hands, late) /\ Process(issues, Hands, run)

(***************************************************************************)
(* The inductive invariant: what the broker knows at each label.           *)
(***************************************************************************)
\* The item is a node's; after check_dispatch has read the tracking issue, it
\* is the one bound to the node of a complete plan.
Chosen(s, k, b) ==
  /\ b.since <= Len(k)
  /\ b.pc = "idle" => b.issue = 0
  /\ b.pc # "idle" => b.issue \in Ids(s) /\ s[b.issue].mark # 0
  /\ b.pc \in {"relations", "write"} => Entitled(s, b.issue)

\* The planned dependencies among the edges of issue i are closed.
Cleared(s, i) ==
  LET r == s[i].body.root IN
  \A d \in s[r].plan.deps[s[i].mark] :
    BoundIn(s, r, d) \in s[i].edges \intersect Ids(s) => s[BoundIn(s, r, d)].closed

\* The run has been past node n of r, and has written the status of its issue.
Passed(v, r, n) ==
  /\ v.root = r
  /\ \/ v.pc \in Loop /\ n < v.node
     \/ v.pc \in {"describe", "verify"} /\ n = v.node
     \/ v.pc \in Ending

\* An edge that is attached after ensure_dependencies has read them: until the
\* run has been past the node, the plan is not published; from then on the
\* issue is BLOCKED, unless it is another one that the node is bound to.
Guarded(s, v, i) ==
  LET r == s[i].body.root
      n == s[i].mark
  IN \/ Cleared(s, i) \/ s[i].status # "READY" \/ s[r].nodes[n] \notin {0, i}
     \/ ~(s[r].complete /\ s[r].closing) /\ ~Passed(v, r, n)

\* As long as nobody has changed anything since.
Gated(s, v, b) ==
  LET r == s[b.issue].body.root IN
  /\ b.pc \in {"issue", "root", "relations", "write"} /\ b.from = "READY" => Guarded(s, v, b.issue)
  /\ b.pc \in {"relations", "write"} => s[r].complete /\ s[r].closing
  /\ b.pc = "write" => s[b.issue].edges = DepsIn(s, r, s[b.issue].mark)

Gate ==
  /\ Chosen(issues, touched, broker)
  /\ broker.since = Len(touched) => Gated(issues, run, broker)

(***************************************************************************)
(* Plans and the relations between the issues of one.                      *)
(***************************************************************************)
\* What a node refers to comes before it.
LEMMA PlanOrder ==
  ASSUME NEW plan \in Plans, NEW n \in Nodes
  PROVE  /\ plan.parent[n] \in 0 .. N /\ plan.parent[n] < n
         /\ plan.deps[n] \subseteq Nodes /\ \A d \in plan.deps[n] : d < n
  BY DEF Plans

\* The empty plan is valid, so that every issue carries a valid plan.
LEMMA EmptyPlan == NoPlan \in Plans
<1>1. N \in Nat
  BY BootstrapConstants
<1>2. NoPlan \in [parent : [Nodes -> 0 .. N], deps : [Nodes -> SUBSET Nodes]]
  BY <1>1 DEF NoPlan, Nodes
<1>3. \A n \in Nodes : NoPlan.parent[n] < n /\ NoPlan.deps[n] = {}
  BY <1>1 DEF NoPlan, Nodes
<1> QED
  BY <1>2, <1>3 DEF Plans

\* Every field of an issue has its type.
LEMMA Fields ==
  ASSUME NEW e \in IssueType
  PROVE  /\ e.mark \in {-1} \union 0 .. N /\ e.body \in [root : Nat, deps : SUBSET Nat]
         /\ e.text \in {"planned", "changed", "unmarked"} /\ e.parent \in Nat
         /\ e.edges \in SUBSET Nat /\ e.closed \in BOOLEAN /\ e.status \in Status
         /\ e.routed \in BOOLEAN
         /\ e.plan \in Plans /\ e.nodes \in [Nodes -> Nat]
         /\ e.complete \in BOOLEAN /\ e.closing \in BOOLEAN
  BY EmptyPlan DEF IssueType
LEMMA Element ==
  ASSUME NEW s \in Seq(IssueType)
  PROVE  Len(s) \in Nat /\ \A i \in Ids(s) : s[i] \in IssueType /\ i \in Nat /\ i # 0
  BY DEF Ids

(***************************************************************************)
(* What a change of the issues keeps.                                      *)
(***************************************************************************)
\* Issue i becomes e: an issue that is as planned stays so, unless somebody
\* changed it.
Steady(s, e, i, k) ==
  LET r == s[i].body.root
      n == s[i].mark
  IN /\ i \in k \/ e.text = s[i].text
     /\ i \in k \/ (Planned(s, i, r, n) => e.parent = s[i].parent /\ e.edges = s[i].edges)
     /\ LeafIn(s, r, n) /\ s[i].routed => e.routed
Keeps(s, e, i, k) ==
  /\ e.mark = s[i].mark /\ e.body = s[i].body /\ e.plan = s[i].plan
  /\ \A m \in Nodes : s[i].nodes[m] # 0 => e.nodes[m] = s[i].nodes[m]
  /\ s[i].complete => e.complete
  /\ Steady(s, e, i, k)
Frame(s, t, k) == Len(s) <= Len(t) /\ \A i \in Ids(s) : Keeps(s, t[i], i, k)

\* What a node refers to is what it was.
LEMMA RelationsKept ==
  ASSUME NEW s, NEW t, NEW r, NEW n \in Nodes, s[r].plan \in Plans, t[r].plan = s[r].plan,
         \A m \in Nodes : m < n => t[r].nodes[m] = s[r].nodes[m]
  PROVE  /\ ParentIn(t, r, n) = ParentIn(s, r, n) /\ DepsIn(t, r, n) = DepsIn(s, r, n)
         /\ BodyIn(t, r, n) = BodyIn(s, r, n) /\ LeafIn(t, r, n) = LeafIn(s, r, n)
<1> DEFINE plan == s[r].plan
<1>1. /\ plan.parent[n] \in 0 .. N /\ plan.parent[n] < n
      /\ plan.deps[n] \subseteq Nodes /\ \A d \in plan.deps[n] : d < n
  BY PlanOrder
<1>2. ParentIn(t, r, n) = ParentIn(s, r, n)
  <2>1. plan.parent[n] # 0 => plan.parent[n] \in Nodes
    BY <1>1, BootstrapConstants DEF Nodes
  <2> QED BY <1>1, <2>1 DEF ParentIn, BoundIn
<1>3. DepsIn(t, r, n) = DepsIn(s, r, n)
  <2>1. \A d \in plan.deps[n] : BoundIn(t, r, d) = BoundIn(s, r, d)
    BY <1>1 DEF BoundIn
  <2> QED BY <2>1 DEF DepsIn
<1> QED
  BY <1>2, <1>3 DEF BodyIn, LeafIn

\* A finished node stays finished.
LEMMA FinishedKept ==
  ASSUME NEW s, NEW t, NEW h, NEW k, NEW r \in Ids(s), NEW n \in Nodes,
         s \in Seq(IssueType), h \subseteq k, Frame(s, t, k), Bindings(s),
         \A m \in Nodes : m < n => s[r].nodes[m] # 0, Finished(s, h, r, n)
  PROVE  Finished(t, k, r, n)
<1> DEFINE i == s[r].nodes[n]
<1>1. s[r].plan \in Plans
  BY Element, Fields
<1>2. Keeps(s, t[r], r, k)
  BY DEF Frame
<1>3. /\ ParentIn(t, r, n) = ParentIn(s, r, n) /\ DepsIn(t, r, n) = DepsIn(s, r, n)
      /\ BodyIn(t, r, n) = BodyIn(s, r, n) /\ LeafIn(t, r, n) = LeafIn(s, r, n)
  <2>1. t[r].plan = s[r].plan /\ \A m \in Nodes : m < n => t[r].nodes[m] = s[r].nodes[m]
    BY <1>2 DEF Keeps
  <2> QED BY ONLY <1>1, <2>1, n \in Nodes, RelationsKept
<1>4. i # 0 /\ t[r].nodes[n] = i
  BY <1>2 DEF Keeps, Finished
<1>5. Binds(s, i, r, n)
  BY <1>4 DEF Bindings
<1>6. Keeps(s, t[i], i, k)
  BY <1>5 DEF Frame, Binds
<1>7. i \in k \/ Planned(t, i, r, n)
  BY <1>3, <1>5, <1>6 DEF Finished, Planned, Keeps, Steady, Binds
<1>8. LeafIn(t, r, n) => t[i].routed
  BY <1>3, <1>5, <1>6 DEF Finished, Keeps, Steady, Binds
<1> QED
  BY <1>4, <1>7, <1>8 DEF Finished

\* Replacing one issue, and adding one.
LEMMA Updated ==
  ASSUME NEW s \in Seq(IssueType), NEW i \in Ids(s), NEW e \in IssueType, NEW t,
         t = [s EXCEPT ![i] = e]
  PROVE  /\ t \in Seq(IssueType) /\ Len(t) = Len(s) /\ Ids(t) = Ids(s)
         /\ t[i] = e /\ \A j \in Ids(s) : j # i => t[j] = s[j]
  BY DEF Ids
LEMMA Appended ==
  ASSUME NEW s \in Seq(IssueType), NEW e \in IssueType
  PROVE  LET t == Append(s, e) IN
         /\ t \in Seq(IssueType) /\ Len(t) = Len(s) + 1 /\ Ids(t) = Ids(s) \union {Len(t)}
         /\ t[Len(t)] = e /\ \A j \in Ids(s) : t[j] = s[j]
  BY DEF Ids

\* A change that binds nothing, completes nothing and starts only what is
\* entitled to it.
Quiet(s, t) ==
  /\ \A i \in Ids(s) :
       /\ t[i].nodes = s[i].nodes /\ t[i].complete = s[i].complete
       /\ t[i].closing => s[i].closing
       /\ Working(t[i]) => Working(s[i]) \/ Entitled(s, i)
  /\ \A i \in Ids(t) : i \notin Ids(s) => Unborn(t, t[i])

LEMMA QuietStore ==
  ASSUME NEW s \in Seq(IssueType), NEW t \in Seq(IssueType), NEW h, NEW k, NEW l, NEW f,
         h \subseteq k, Frame(s, t, k), Quiet(s, t), Store(s, h, l), f = NoIssue \/ f = l
  PROVE  Store(t, k, f)
<1>1. Len(s) \in Nat /\ Len(t) \in Nat /\ Ids(s) \subseteq Ids(t)
  BY Element DEF Frame, Ids
<1>2. \A i \in Ids(s) : t[i].mark = s[i].mark /\ t[i].body = s[i].body
  BY DEF Frame, Keeps
<1>3. Rooted(t)
  BY <1>1, <1>2 DEF Rooted, Store, Quiet, Unborn
<1>4. LateUnborn(t, f)
  BY <1>1 DEF LateUnborn, Store, Unborn
<1>5. \A i \in Ids(t) : t[i].complete => i \in Ids(s) /\ s[i].complete
  BY DEF Quiet, Unborn
<1>6. OneComplete(t)
  BY <1>5 DEF OneComplete, Store
<1>7. Bindings(t)
  <2> SUFFICES ASSUME NEW r \in Ids(t), NEW n \in Nodes, t[r].nodes[n] # 0
               PROVE  Binds(t, t[r].nodes[n], r, n)
    BY DEF Bindings
  <2>1. r \in Ids(s) /\ t[r].nodes[n] = s[r].nodes[n]
    BY DEF Quiet, Unborn, NoNodes
  <2>2. Binds(s, s[r].nodes[n], r, n)
    BY <2>1 DEF Store, Bindings
  <2> QED BY <1>1, <1>2, <2>1, <2>2 DEF Binds
<1>8. Owned(t)
  <2> SUFFICES ASSUME NEW i \in Ids(t), Working(t[i]) PROVE Entitled(t, i)
    BY DEF Owned
  <2>1. i \in Ids(s)
    BY DEF Quiet, Unborn, Working
  <2>2. Entitled(s, i)
    BY <2>1 DEF Quiet, Store, Owned
  <2>3. s[i].mark # 0 /\ s[i].body.root \in Ids(s)
    BY <2>1, <2>2 DEF Entitled, Store, Rooted
  <2>4. /\ t[s[i].body.root].nodes = s[s[i].body.root].nodes
        /\ t[s[i].body.root].complete = s[s[i].body.root].complete
    BY <2>3 DEF Quiet
  <2>5. t[i].mark = s[i].mark /\ t[i].body.root = s[i].body.root
    BY <1>2, <2>1
  <2> QED BY <2>2, <2>3, <2>4, <2>5 DEF Entitled
<1>9. Whole(t, k)
  <2> SUFFICES ASSUME NEW r \in Ids(t), t[r].complete, NEW n \in Nodes
               PROVE  Finished(t, k, r, n)
    BY DEF Whole
  <2>1. r \in Ids(s) /\ \A m \in Nodes : Finished(s, h, r, m)
    BY <1>5 DEF Store, Whole
  <2>2. \A m \in Nodes : m < n => s[r].nodes[m] # 0
    BY <2>1 DEF Finished
  <2> QED BY <2>1, <2>2, FinishedKept DEF Store
<1> QED
  BY <1>3, <1>4, <1>6, <1>7, <1>8, <1>9 DEF Store

LEMMA QuietProcess ==
  ASSUME NEW s \in Seq(IssueType), NEW t \in Seq(IssueType), NEW h, NEW k, NEW l,
         NEW v \in RunType,
         h \subseteq k, Frame(s, t, k), Quiet(s, t), Store(s, h, l), Process(s, h, v)
  PROVE  Process(t, k, v)
<1>1. Len(s) \in Nat /\ Len(t) \in Nat /\ Ids(s) \subseteq Ids(t) /\ Len(s) <= Len(t)
  BY Element DEF Frame, Ids
<1>2. \A i \in Ids(s) : t[i].mark = s[i].mark /\ t[i].body = s[i].body
  BY DEF Frame, Keeps
<1>3. \A i \in Ids(t) : t[i].complete => i \in Ids(s) /\ s[i].complete
  BY DEF Quiet, Unborn
<1>4. OnRoot(t, v)
  BY <1>1, <1>2, <1>3 DEF OnRoot, Process, Quiet
<1>5. Listing(t, k, v)
  <2>1. Len(v.listed) \in Nat /\ Len(v.listed) <= Len(t) /\ Ids(v.listed) \subseteq Ids(s)
    BY <1>1 DEF Process, Listing, RunType, Ids
  <2>2. ASSUME NEW i \in Ids(v.listed)
        PROVE  /\ v.listed[i].mark = t[i].mark /\ v.listed[i].body = t[i].body
               /\ i \in k \/ v.listed[i].text = t[i].text
    BY <1>2, <2>1 DEF Process, Listing, Frame, Keeps, Steady
  <2>3. v.pc \in {"root_item"} \union Loop => t[v.root].nodes = s[v.root].nodes
    BY DEF Process, OnRoot, Quiet, Loop, Held
  <2> QED BY <2>1, <2>2, <2>3 DEF Process, Listing
<1>6. ASSUME v.pc \in Loop \union Ending
      PROVE  /\ v.root \in Ids(s) /\ v.node \in Nodes /\ t[v.root].nodes = s[v.root].nodes
             /\ DepsIn(t, v.root, v.node) = DepsIn(s, v.root, v.node)
             /\ BodyIn(t, v.root, v.node) = BodyIn(s, v.root, v.node)
             /\ LeafIn(t, v.root, v.node) = LeafIn(s, v.root, v.node)
  <2>1. v.root \in Ids(s) /\ v.node \in Nodes
    BY <1>6 DEF Process, OnRoot, Loop, Held, Ending
  <2>2. ASSUME NEW r \in Ids(s), NEW n \in Nodes
        PROVE  /\ t[r].nodes = s[r].nodes /\ DepsIn(t, r, n) = DepsIn(s, r, n)
               /\ BodyIn(t, r, n) = BodyIn(s, r, n) /\ LeafIn(t, r, n) = LeafIn(s, r, n)
    <3>1. t[r].nodes = s[r].nodes /\ t[r].plan = s[r].plan /\ s[r].plan \in Plans
      BY Element, Fields DEF Quiet, Frame, Keeps
    <3>2. \A m \in Nodes : m < n => t[r].nodes[m] = s[r].nodes[m]
      BY <3>1
    <3>3. /\ DepsIn(t, r, n) = DepsIn(s, r, n) /\ BodyIn(t, r, n) = BodyIn(s, r, n)
          /\ LeafIn(t, r, n) = LeafIn(s, r, n)
      BY ONLY <3>1, <3>2, n \in Nodes, RelationsKept
    <3> QED BY <3>1, <3>3
  <2> QED BY <2>1, <2>2
<1>7. AtHand(t, k, v)
  <2>1. v.pc \notin Held => v.issue = 0
    BY DEF Process, AtHand
  <2>2. v.pc # "bind" => v.missing = {}
    BY DEF Process, AtHand
  <2>3. v.pc = "create" => t[v.root].nodes[v.node] = 0
    BY <1>6 DEF Process, AtHand, Loop
  <2>4. ASSUME v.pc \in Held
        PROVE  /\ v.issue \in Ids(t) /\ t[v.issue].mark = v.node
               /\ t[v.issue].body = BodyIn(t, v.root, v.node)
               /\ v.issue \in k \/ t[v.issue].text = "planned"
               /\ t[v.root].nodes[v.node] \in {0, v.issue}
               /\ v.missing \subseteq DepsIn(t, v.root, v.node)
    BY <1>1, <1>2, <1>6, <2>4 DEF Process, AtHand, Loop, Frame, Keeps, Steady
  <2>5. v.pc \in {"item", "describe", "verify"} => t[v.root].nodes[v.node] = v.issue
    BY <1>6 DEF Process, AtHand, Loop, Held
  <2>6. ASSUME v.pc = "verify", LeafIn(t, v.root, v.node) PROVE t[v.issue].routed
    <3>1. LeafIn(s, v.root, v.node)
      BY <1>6, <2>6 DEF Loop, Held
    <3>2. /\ v.issue \in Ids(s) /\ s[v.issue].mark = v.node /\ s[v.issue].body.root = v.root
          /\ s[v.issue].routed
      BY <2>6, <3>1 DEF Process, AtHand, Held, BodyIn
    <3> QED BY <3>1, <3>2 DEF Frame, Keeps, Steady
  <2> QED BY <2>1, <2>2, <2>3, <2>4, <2>5, <2>6 DEF AtHand
<1>8. Behind(t, k, v)
  <2>1. ASSUME v.pc \in Loop, NEW m \in Nodes, m < v.node PROVE Finished(t, k, v.root, m)
    <3>1. Finished(s, h, v.root, m) /\ v.root \in Ids(s)
      BY <1>6, <2>1 DEF Process, Behind
    <3>2. \A j \in Nodes : j < m => s[v.root].nodes[j] # 0
      <4>1. v.node \in Nodes
        BY <1>6, <2>1
      <4>2. \A j \in Nodes : j < m => j < v.node
        BY <2>1, <4>1, BootstrapConstants DEF Nodes
      <4> QED BY <2>1, <4>2 DEF Process, Behind, Finished
    <3> QED BY <3>1, <3>2, FinishedKept DEF Store
  <2>2. ASSUME v.pc \in Ending, NEW m \in Nodes PROVE Finished(t, k, v.root, m)
    <3>1. v.root \in Ids(s) /\ \A j \in Nodes : Finished(s, h, v.root, j)
      BY <1>6, <2>2 DEF Process, Behind
    <3>2. \A j \in Nodes : j < m => s[v.root].nodes[j] # 0
      BY <3>1 DEF Finished
    <3> QED BY <3>1, <3>2, FinishedKept DEF Store
  <2> QED BY <2>1, <2>2 DEF Behind
<1> QED
  BY <1>4, <1>5, <1>7, <1>8 DEF Process

\* One issue changes, or one is created.
LEMMA EditKeeps ==
  ASSUME IInv, NEW i \in Numbers, NEW e \in IssueType, Hands \subseteq Hands', late' = late,
         issues' = [issues EXCEPT ![i] = e],
         Keeps(issues, e, i, Hands'), e.nodes = issues[i].nodes, e.complete = issues[i].complete,
         e.closing => issues[i].closing,
         Working(e) => Working(issues[i]) \/ Entitled(issues, i)
  PROVE  /\ issues' \in Seq(IssueType) /\ Len(issues') = Len(issues)
         /\ Store(issues', Hands', late') /\ Process(issues', Hands', run)
<1>1. /\ issues \in Seq(IssueType) /\ i \in Ids(issues) /\ run \in RunType
      /\ Store(issues, Hands, late) /\ Process(issues, Hands, run)
  BY DEF IInv, Typed, Numbers, Ids
<1>2. /\ issues' \in Seq(IssueType) /\ Len(issues') = Len(issues) /\ Ids(issues') = Ids(issues)
      /\ issues'[i] = e /\ \A j \in Ids(issues) : j # i => issues'[j] = issues[j]
  BY <1>1 DEF Ids
<1>3. Frame(issues, issues', Hands')
  <2>1. Len(issues) <= Len(issues')
    BY <1>1, <1>2, Element
  <2>2. ASSUME NEW j \in Ids(issues), j # i PROVE Keeps(issues, issues'[j], j, Hands')
    BY <1>2, <2>2 DEF Keeps, Steady
  <2> QED BY <1>2, <2>1, <2>2 DEF Frame
<1>4. Quiet(issues, issues')
  BY <1>2 DEF Quiet
<1> QED
  BY <1>1, <1>2, <1>3, <1>4, QuietStore, QuietProcess

LEMMA AppendKeeps ==
  ASSUME IInv, NEW e \in IssueType, Hands' = Hands, late' = late \/ late' = NoIssue,
         issues' = Append(issues, e), Unborn(issues, e)
  PROVE  /\ issues' \in Seq(IssueType) /\ Len(issues') = Len(issues) + 1
         /\ issues'[Len(issues')] = e /\ \A j \in Numbers : issues'[j] = issues[j]
         /\ Store(issues', Hands', late') /\ Process(issues', Hands', run)
<1>1. /\ issues \in Seq(IssueType) /\ run \in RunType /\ Numbers = Ids(issues)
      /\ Store(issues, Hands, late) /\ Process(issues, Hands, run)
  BY DEF IInv, Typed, Numbers, Ids
<1>2. /\ issues' \in Seq(IssueType) /\ Len(issues') = Len(issues) + 1
      /\ Ids(issues') = Ids(issues) \union {Len(issues')}
      /\ issues'[Len(issues')] = e /\ \A j \in Ids(issues) : issues'[j] = issues[j]
  BY <1>1, Appended
<1>3. Frame(issues, issues', Hands')
  <2>1. Len(issues) <= Len(issues')
    BY <1>1, <1>2, Element
  <2>2. ASSUME NEW j \in Ids(issues) PROVE Keeps(issues, issues'[j], j, Hands')
    BY <1>2, <2>2 DEF Keeps, Steady
  <2> QED BY <2>1, <2>2 DEF Frame
<1>4. Quiet(issues, issues')
  BY <1>2 DEF Quiet, Unborn
<1> QED
  BY <1>1, <1>2, <1>3, <1>4, QuietStore, QuietProcess

(***************************************************************************)
(* The run's steps from label to label, with the issues as they are.       *)
(***************************************************************************)
\* One turn of a loop.
Turn(v, pc, node) == [v EXCEPT !.pc = pc, !.node = node, !.issue = 0]
LEMMA Turns ==
  ASSUME NEW v \in RunType, NEW pc \in Labels, NEW node \in Nat
  PROVE  LET w == Turn(v, pc, node) IN
         /\ w \in RunType /\ w.pc = pc /\ w.listed = v.listed /\ w.root = v.root
         /\ w.node = node /\ w.issue = 0 /\ w.missing = v.missing
  BY DEF RunType, Turn

\* A run that has ended knows nothing.
LEMMA Ended ==
  ASSUME NEW s \in Seq(IssueType), NEW h
  PROVE  NoRun \in RunType /\ Process(s, h, NoRun)
<1>1. NoRun \in RunType /\ NoRun.pc = "idle" /\ NoRun.issue = 0 /\ NoRun.missing = {}
      /\ NoRun.listed = <<>>
  BY DEF NoRun, RunType, Labels
<1> QED
  BY <1>1, Element DEF Process, OnRoot, Listing, AtHand, Behind, Held, Loop, Ending, Ids

\* The same listing, tracking issue and node.
Like(v, w) == w.listed = v.listed /\ w.root = v.root /\ w.node = v.node

\* From the start to the first node.
LEMMA ToFirst ==
  ASSUME NEW s \in Seq(IssueType), NEW h, NEW v \in RunType, NEW w \in RunType, Process(s, h, v),
         v.pc = "root_item", w = [v EXCEPT !.pc = "locate"]
  PROVE  Process(s, h, w)
<1>1. /\ w.pc = "locate" /\ w.listed = v.listed /\ w.root = v.root /\ w.node = v.node
      /\ w.issue = v.issue /\ w.missing = v.missing
  BY DEF RunType
<1>2. OnRoot(s, w)
  BY <1>1 DEF Process, OnRoot
<1>3. Listing(s, h, w)
  BY <1>1 DEF Process, Listing
<1>4. AtHand(s, h, w)
  BY <1>1 DEF Process, AtHand, Held
<1>5. Behind(s, h, w)
  <2>1. w.node = 1
    BY <1>1 DEF Process, OnRoot
  <2> QED BY <1>1, <2>1, BootstrapConstants DEF Behind, Nodes, Loop, Ending, Held
<1> QED
  BY <1>2, <1>3, <1>4, <1>5 DEF Process

\* A node nobody has created yet.
LEMMA ToCreate ==
  ASSUME NEW s \in Seq(IssueType), NEW h, NEW v \in RunType, NEW w \in RunType, Process(s, h, v),
         v.pc = "locate", w = [v EXCEPT !.pc = "create"], s[v.root].nodes[v.node] = 0
  PROVE  Process(s, h, w)
<1>1. /\ w.pc = "create" /\ w.listed = v.listed /\ w.root = v.root /\ w.node = v.node
      /\ w.issue = v.issue /\ w.missing = v.missing
  BY DEF RunType
<1>2. OnRoot(s, w)
  BY <1>1 DEF Process, OnRoot
<1>3. Listing(s, h, w)
  BY <1>1 DEF Process, Listing, Loop
<1>4. AtHand(s, h, w)
  BY <1>1 DEF Process, AtHand, Held
<1>5. Behind(s, h, w)
  BY <1>1 DEF Process, Behind, Loop, Ending, Held
<1> QED
  BY <1>2, <1>3, <1>4, <1>5 DEF Process

\* An issue to adopt.
LEMMA ToRepair ==
  ASSUME NEW s \in Seq(IssueType), NEW h, NEW v \in RunType, NEW w \in RunType, Process(s, h, v),
         v.pc = "locate", NEW i \in Ids(s), Like(v, w), w.pc = "repair", w.issue = i,
         w.missing = v.missing,
         s[i].mark = v.node, s[i].body = BodyIn(s, v.root, v.node),
         i \in h \/ s[i].text = "planned", s[v.root].nodes[v.node] \in {0, i}
  PROVE  Process(s, h, w)
<1>1. /\ w.listed = v.listed /\ w.root = v.root /\ w.node = v.node /\ v.missing = {}
  BY DEF Like, Process, AtHand
<1>2. OnRoot(s, w)
  BY <1>1 DEF Process, OnRoot
<1>3. Listing(s, h, w)
  BY <1>1 DEF Process, Listing, Loop, Held
<1>4. AtHand(s, h, w)
  BY <1>1 DEF AtHand, Held
<1>5. Behind(s, h, w)
  BY <1>1 DEF Process, Behind, Loop, Ending, Held
<1> QED
  BY <1>2, <1>3, <1>4, <1>5 DEF Process

\* From the issue, created or adopted, to its binding.
LEMMA ToBind ==
  ASSUME NEW s \in Seq(IssueType), NEW h, NEW v \in RunType, NEW w \in RunType, Process(s, h, v),
         v.pc \in {"create", "repair", "bind"}, NEW i \in Ids(s), NEW missing,
         Like(v, w), w.pc = "bind", w.issue = i, w.missing = missing,
         s[i].mark = v.node, s[i].body = BodyIn(s, v.root, v.node),
         i \in h \/ s[i].text = "planned", s[v.root].nodes[v.node] \in {0, i},
         missing \subseteq DepsIn(s, v.root, v.node)
  PROVE  Process(s, h, w)
<1>1. w.listed = v.listed /\ w.root = v.root /\ w.node = v.node
  BY DEF Like
<1>2. OnRoot(s, w)
  BY <1>1 DEF Process, OnRoot
<1>3. Listing(s, h, w)
  BY <1>1 DEF Process, Listing, Loop, Held
<1>4. AtHand(s, h, w)
  BY <1>1 DEF AtHand, Held
<1>5. Behind(s, h, w)
  BY <1>1 DEF Process, Behind, Loop, Ending, Held
<1> QED
  BY <1>2, <1>3, <1>4, <1>5 DEF Process

\* From the binding to the item, its fields and the verification.
LEMMA ToVerify ==
  ASSUME NEW s \in Seq(IssueType), NEW h, NEW v \in RunType, NEW w \in RunType, Process(s, h, v),
         \/ v.pc = "item" /\ w = [v EXCEPT !.pc = "describe"]
         \/ /\ v.pc = "describe" /\ w = [v EXCEPT !.pc = "verify"]
            /\ LeafIn(s, v.root, v.node) => s[v.issue].routed
  PROVE  Process(s, h, w)
<1>1. /\ w.pc \in {"describe", "verify"} /\ v.pc \in {"item", "describe"}
      /\ w.pc = "verify" => (LeafIn(s, v.root, v.node) => s[v.issue].routed)
      /\ w.listed = v.listed /\ w.root = v.root /\ w.node = v.node
      /\ w.issue = v.issue /\ w.missing = v.missing
  BY DEF RunType
<1>2. OnRoot(s, w)
  BY <1>1 DEF Process, OnRoot
<1>3. Listing(s, h, w)
  BY <1>1 DEF Process, Listing, Loop, Held
<1>4. AtHand(s, h, w)
  BY <1>1 DEF Process, AtHand, Held
<1>5. Behind(s, h, w)
  BY <1>1 DEF Process, Behind, Loop, Ending, Held
<1> QED
  BY <1>2, <1>3, <1>4, <1>5 DEF Process

\* From a finished node to the next, or to the last look at all of them.
LEMMA ToNext ==
  ASSUME NEW s \in Seq(IssueType), NEW h, NEW v \in RunType, NEW w, Process(s, h, v),
         v.pc = "verify", Finished(s, h, v.root, v.node),
         v.node < N => w = Turn(v, "locate", v.node + 1),
         ~(v.node < N) => w = Turn(v, "reread", 1)
  PROVE  w \in RunType /\ Process(s, h, w)
<1>1. /\ v.root \in Ids(s) /\ s[v.root].mark = 0 /\ v.node \in Nodes /\ v.missing = {}
      /\ \A m \in Nodes : m < v.node => Finished(s, h, v.root, m)
      /\ N \in Nat /\ N > 0
  BY BootstrapConstants DEF Process, OnRoot, AtHand, Behind, Loop, Held
<1>2. CASE v.node < N
  <2>1. /\ w \in RunType /\ w.pc = "locate" /\ w.listed = v.listed /\ w.root = v.root
        /\ w.node = v.node + 1 /\ w.issue = 0 /\ w.missing = {}
    <3>1. "locate" \in Labels
      BY DEF Labels, Loop
    <3>2. PICK node \in Nat : node = v.node + 1
      BY DEF RunType
    <3>3. w = Turn(v, "locate", node)
      BY <1>2, <3>2
    <3>4. /\ w \in RunType /\ w.pc = "locate" /\ w.listed = v.listed /\ w.root = v.root
          /\ w.node = node /\ w.issue = 0 /\ w.missing = v.missing
      BY <3>1, <3>3, Turns
    <3> QED BY <1>1, <3>2, <3>4
  <2>2. w.node \in Nodes
    BY <1>1, <1>2, <2>1 DEF Nodes
  <2>3. OnRoot(s, w)
    BY <2>1, <2>2 DEF Process, OnRoot
  <2>4. Listing(s, h, w)
    BY <1>1, <2>1 DEF Process, Listing, Loop, Held, Nodes
  <2>5. AtHand(s, h, w)
    BY <2>1 DEF AtHand, Held
  <2>6. \A m \in Nodes : m < w.node => Finished(s, h, w.root, m)
    BY <1>1, <2>1 DEF Nodes
  <2> QED BY <2>1, <2>3, <2>4, <2>5, <2>6 DEF Process, Behind, Ending
<1>3. CASE ~(v.node < N)
  <2>1. /\ w \in RunType /\ w.pc = "reread" /\ w.listed = v.listed /\ w.root = v.root
        /\ w.node = 1 /\ w.issue = 0 /\ w.missing = {}
    <3>1. "reread" \in Labels /\ 1 \in Nat
      BY DEF Labels, Ending
    <3>2. w = Turn(v, "reread", 1)
      BY <1>3
    <3>3. /\ w \in RunType /\ w.pc = "reread" /\ w.listed = v.listed /\ w.root = v.root
          /\ w.node = 1 /\ w.issue = 0 /\ w.missing = v.missing
      BY <3>1, <3>2, Turns
    <3> QED BY <1>1, <3>3
  <2>2. w.node \in Nodes
    BY <1>1, <2>1 DEF Nodes
  <2>3. OnRoot(s, w)
    BY <2>1, <2>2 DEF Process, OnRoot
  <2>4. Listing(s, h, w)
    BY <2>1 DEF Process, Listing, Loop, Held
  <2>5. AtHand(s, h, w)
    BY <2>1 DEF AtHand, Held
  <2>6. \A m \in Nodes : Finished(s, h, w.root, m)
    BY <1>1, <1>3, <2>1 DEF Nodes
  <2> QED BY <2>1, <2>3, <2>4, <2>5, <2>6 DEF Process, Behind, Loop, Held
<1> QED
  BY <1>2, <1>3

\* The last loops, over finished nodes.
LEMMA ToLast ==
  ASSUME NEW s \in Seq(IssueType), NEW h, NEW v \in RunType, NEW w, Process(s, h, v),
         NEW pc \in Ending, NEW after \in Ending, v.pc \in Ending,
         v.node < N => w = Turn(v, pc, v.node + 1),
         ~(v.node < N) => w = Turn(v, after, 1)
  PROVE  w \in RunType /\ Process(s, h, w)
<1>1. v.node \in Nodes /\ v.missing = {} /\ N \in Nat /\ N > 0
  BY BootstrapConstants DEF Process, OnRoot, AtHand, Ending
<1>2. /\ w \in RunType /\ w.pc \in Ending /\ w.listed = v.listed /\ w.root = v.root
      /\ w.node \in Nodes /\ w.issue = 0 /\ w.missing = {}
  <2>1. CASE v.node < N
    <3>1. pc \in Labels
      BY DEF Labels
    <3>2. PICK node \in Nodes : node \in Nat /\ node = v.node + 1
      BY <1>1, <2>1 DEF Nodes
    <3>3. w = Turn(v, pc, node)
      BY <2>1, <3>2
    <3>4. /\ w \in RunType /\ w.pc = pc /\ w.listed = v.listed /\ w.root = v.root
          /\ w.node = node /\ w.issue = 0 /\ w.missing = v.missing
      BY <3>1, <3>2, <3>3, Turns
    <3> QED BY <1>1, <3>2, <3>4
  <2>2. CASE ~(v.node < N)
    <3>1. 1 \in Nodes /\ 1 \in Nat /\ after \in Labels
      BY <1>1 DEF Nodes, Labels
    <3>2. w = Turn(v, after, 1)
      BY <2>2
    <3>3. /\ w \in RunType /\ w.pc = after /\ w.listed = v.listed /\ w.root = v.root
          /\ w.node = 1 /\ w.issue = 0 /\ w.missing = v.missing
      BY <3>1, <3>2, Turns
    <3> QED BY <1>1, <3>1, <3>3
  <2> QED BY <2>1, <2>2
<1>3. OnRoot(s, w)
  BY <1>2 DEF Process, OnRoot, Ending
<1>4. Listing(s, h, w)
  BY <1>2 DEF Process, Listing, Loop, Held, Ending
<1>5. AtHand(s, h, w)
  BY <1>2 DEF AtHand, Held, Ending
<1>6. Behind(s, h, w)
  BY <1>2 DEF Process, Behind, Loop, Held, Ending
<1> QED
  BY <1>2, <1>3, <1>4, <1>5, <1>6 DEF Process

(***************************************************************************)
(* The actions.                                                            *)
(***************************************************************************)
LEMMA InTerms ==
  ASSUME NEW r, NEW n
  PROVE  /\ Bound(r, n) = BoundIn(issues, r, n) /\ Parent(r, n) = ParentIn(issues, r, n)
         /\ Dependencies(r, n) = DepsIn(issues, r, n) /\ Body(r, n) = BodyIn(issues, r, n)
         /\ Executable(r, n) <=> LeafIn(issues, r, n)
  BY DEF Bound, BoundIn, Parent, ParentIn, Dependencies, DepsIn, Body, BodyIn, Executable, LeafIn

\* The parts of the invariant, as the actions use them.
LEMMA Parts ==
  ASSUME IInv
  PROVE  /\ issues \in Seq(IssueType) /\ late \in IssueType /\ run \in RunType
         /\ Store(issues, Hands, late) /\ Process(issues, Hands, run)
         /\ Numbers = Ids(issues) /\ Len(issues) \in Nat
  BY Element DEF IInv, Typed, Numbers, Ids

\* The node at hand: what its issue is to refer to.
LEMMA Reference ==
  ASSUME IInv, run.pc \in Loop
  PROVE  /\ run.root \in Numbers /\ run.node \in Nodes /\ run.node \in Nat
         /\ ParentIn(issues, run.root, run.node) \in Nat
         /\ DepsIn(issues, run.root, run.node) \subseteq Numbers
<1>1. /\ issues \in Seq(IssueType) /\ Numbers = Ids(issues) /\ run.root \in Numbers
      /\ run.node \in Nodes /\ run.node \in Nat
      /\ \A m \in Nodes : m < run.node => Finished(issues, Hands, run.root, m)
  BY Parts DEF Process, OnRoot, Behind, Loop, Held, RunType
<1> DEFINE issue == issues[run.root]
<1>2. issue.plan \in Plans /\ issue.nodes \in [Nodes -> Nat] /\ run.root \in Nat
  BY <1>1, Element, Fields
<1>3. /\ issue.plan.parent[run.node] \in 0 .. N
      /\ issue.plan.deps[run.node] \subseteq Nodes
      /\ \A d \in issue.plan.deps[run.node] : d < run.node
  BY <1>1, <1>2, PlanOrder
<1>4. ParentIn(issues, run.root, run.node) \in Nat
  <2>1. issue.plan.parent[run.node] # 0 => issue.plan.parent[run.node] \in Nodes
    BY <1>3, BootstrapConstants DEF Nodes
  <2> QED BY <1>2, <2>1 DEF ParentIn, BoundIn
<1>5. ASSUME NEW d \in issue.plan.deps[run.node] PROVE BoundIn(issues, run.root, d) \in Numbers
  <2>1. d \in Nodes /\ d # 0 /\ issue.nodes[d] # 0
    BY <1>1, <1>3 DEF Finished, Nodes
  <2> QED BY <1>1, <2>1, Parts DEF BoundIn, Store, Bindings, Binds
<1> QED
  BY <1>1, <1>4, <1>5 DEF DepsIn

\* Steps that leave the issues alone.
LEMMA Ends ==
  ASSUME IInv, issues' = issues, UNCHANGED <<broker, touched>>, End, faults' \in Nat,
         Trouble' <= MaxTrouble, late' \in IssueType, LateUnborn(issues, late')
  PROVE  IInv'
<1>1. run' = NoRun /\ Hands' = Hands
  BY DEF End, Hands
<1>2. Store(issues', Hands', late')
  BY <1>1, Parts DEF Store
<1>3. run' \in RunType /\ Process(issues', Hands', run')
  BY <1>1, Parts, Ended
<1> QED
  BY <1>2, <1>3 DEF IInv, Typed

LEMMA Moving ==
  ASSUME IInv, issues' = issues, UNCHANGED World, run' \in RunType, Process(issues, Hands, run')
  PROVE  IInv'
<1>1. Hands' = Hands
  BY DEF Hands, World
<1> QED
  BY <1>1 DEF IInv, Typed, World, Trouble

LEMMA StartKeeps ==
  ASSUME IInv, Start
  PROVE  IInv'
<1>1. /\ issues \in Seq(IssueType) /\ Len(issues) \in Nat /\ Numbers = Ids(issues)
      /\ \A i \in Ids(issues) : issues[i].complete => i \in Roots
  BY Parts DEF Store, Rooted, Roots
<1>2. CASE Roots = {} /\ run' = [NoRun EXCEPT !.pc = "create_root", !.listed = issues]
  <2>1. /\ run'.pc = "create_root" /\ run'.listed = issues /\ run'.root = 0 /\ run'.node = 0
        /\ run'.issue = 0 /\ run'.missing = {}
    BY <1>2 DEF NoRun
  <2>2. run' \in RunType
    BY <1>1, <1>2 DEF NoRun, RunType, Labels
  <2>3. Process(issues, Hands, run')
    BY <1>1, <1>2, <2>1 DEF Process, OnRoot, Listing, AtHand, Behind, Held, Loop, Ending
  <2> QED BY <2>2, <2>3, Moving DEF Start
<1>3. ASSUME NEW r \in Roots, Roots = {r}, ~Published(r),
             run' = [NoRun EXCEPT !.pc = "root_item", !.listed = issues, !.root = r, !.node = 1]
      PROVE  IInv'
  <2>1. /\ run'.pc = "root_item" /\ run'.listed = issues /\ run'.root = r /\ run'.node = 1
        /\ run'.issue = 0 /\ run'.missing = {}
    BY <1>3 DEF NoRun
  <2>2. r \in Ids(issues) /\ issues[r].mark = 0 /\ r \in Nat
    BY <1>1, Element DEF Roots
  <2>3. run' \in RunType
    BY <1>1, <1>3, <2>2 DEF NoRun, RunType, Labels
  <2>4. 1 \in Nodes
    BY BootstrapConstants DEF Nodes
  <2>5. OnRoot(issues, run')
    BY <1>1, <1>3, <2>1, <2>2, <2>4 DEF OnRoot, Published
  <2>6. \A m \in Nodes : issues[r].nodes[m] <= Len(issues)
    <3>1. ASSUME NEW m \in Nodes
          PROVE  issues[r].nodes[m] = 0 \/ issues[r].nodes[m] \in Ids(issues)
      BY <2>2, Parts DEF Store, Bindings, Binds
    <3> QED BY <1>1, <3>1 DEF Ids
  <2>7. Listing(issues, Hands, run')
    BY <1>1, <2>1, <2>6 DEF Listing
  <2>8. AtHand(issues, Hands, run') /\ Behind(issues, Hands, run')
    BY <2>1 DEF AtHand, Behind, Held, Loop, Ending
  <2> QED BY <1>3, <2>3, <2>5, <2>7, <2>8, Moving DEF Process, Start
<1> QED
  BY <1>2, <1>3 DEF Start

LEMMA LocateKeeps ==
  ASSUME IInv, Locate
  PROVE  IInv'
<1> DEFINE r == run.root
           n == run.node
<1>1. /\ issues \in Seq(IssueType) /\ run \in RunType /\ Process(issues, Hands, run)
      /\ run.pc = "locate" /\ run.pc \in Loop /\ Numbers = Ids(issues)
  BY Parts DEF Locate, At, Loop
<1>2. r \in Numbers /\ n \in Nodes /\ n # 0 /\ Bound(r, n) = issues[r].nodes[n]
  BY <1>1, Reference DEF Bound, Nodes
<1>3. CASE Candidates = {} /\ Goto("create")
  <2>1. issues[r].nodes[n] = 0
    BY <1>2, <1>3 DEF Candidates
  <2>2. run' = [run EXCEPT !.pc = "create"] /\ run' \in RunType
    BY <1>1, <1>3 DEF Goto, RunType, Labels, Loop
  <2>3. Process(issues, Hands, run')
    BY <1>1, <2>1, <2>2, ToCreate
  <2> QED BY <2>2, <2>3, Moving DEF Locate
<1>4. ASSUME NEW i \in Candidates, Candidates = {i}, Canonical(run.listed[i], r, n),
             run' = [run EXCEPT !.pc = "repair", !.issue = i]
      PROVE  IInv'
  <2>1. Listing(issues, Hands, run) /\ Len(run.listed) \in Nat /\ Len(issues) \in Nat
    BY <1>1, Element DEF Process, RunType
  <2>2. i \in Ids(run.listed) /\ issues[i].mark = n /\ issues[r].nodes[n] \in {0, i}
    <3>1. CASE issues[r].nodes[n] = 0
      <4>1. i \in Ids(run.listed) /\ run.listed[i].mark = n
        BY <1>2, <1>4, <3>1 DEF Candidates, Ids
      <4> QED BY <2>1, <3>1, <4>1 DEF Listing
    <3>2. CASE issues[r].nodes[n] # 0
      <4>1. i = issues[r].nodes[n]
        BY <1>2, <1>4, <3>2 DEF Candidates
      <4>2. Binds(issues, i, r, n)
        BY <1>1, <1>2, <3>2, <4>1, Parts DEF Store, Bindings
      <4>3. i <= Len(run.listed)
        BY <1>1, <1>2, <2>1, <4>1 DEF Listing
      <4> QED BY <2>1, <4>1, <4>2, <4>3 DEF Binds, Ids
    <3> QED BY <3>1, <3>2
  <2>3. i \in Ids(issues)
    BY <2>1, <2>2 DEF Ids, Listing
  <2>4. run.listed[i].text = "planned" /\ run.listed[i].body = BodyIn(issues, r, n)
    BY <1>4, InTerms DEF Canonical
  <2>5. issues[i].body = BodyIn(issues, r, n) /\ (i \in Hands \/ issues[i].text = "planned")
    BY <2>1, <2>2, <2>4 DEF Listing
  <2>6. run' \in RunType
    <3>1. i \in Nat /\ "repair" \in Labels
      BY <2>1, <2>3 DEF Labels, Loop, Held, Ids
    <3> QED BY <1>1, <1>4, <3>1 DEF RunType
  <2>7. Like(run, run') /\ run'.pc = "repair" /\ run'.issue = i /\ run'.missing = run.missing
    BY <1>1, <1>4 DEF Like, RunType
  <2>8. Process(issues, Hands, run')
    BY <1>1, <2>2, <2>3, <2>5, <2>6, <2>7, ToRepair
  <2> QED BY <2>6, <2>8, Moving DEF Locate
<1> QED
  BY <1>3, <1>4 DEF Locate

LEMMA Changing ==
  ASSUME IInv, UNCHANGED World, issues' \in Seq(IssueType), Store(issues', Hands', late'),
         run' \in RunType, Process(issues', Hands', run')
  PROVE  IInv'
  BY DEF IInv, Typed, World, Trouble

LEMMA Same ==
  ASSUME UNCHANGED World
  PROVE  Hands' = Hands /\ late' = late
  BY DEF World, Hands

\* New issues.
LEMMA NewType == NewIssue \in IssueType
<1>1. N \in Nat /\ NoNodes \in [Nodes -> Nat]
  BY BootstrapConstants DEF NoNodes
<1> QED
  BY <1>1 DEF NewIssue, IssueType, Status

LEMMA CreateRootKeeps ==
  ASSUME IInv, CreateRoot
  PROVE  IInv'
<1>1. PICK plan \in Plans : issues' = Append(issues, [NewIssue EXCEPT !.plan = plan])
  BY DEF CreateRoot
<1> DEFINE e == [NewIssue EXCEPT !.plan = plan]
<1>2. e \in IssueType
  BY NewType DEF IssueType
<1>3. e.mark = 0 /\ e.status = "none" /\ ~e.complete /\ ~e.closing /\ e.nodes = NoNodes
  BY DEF NewIssue
<1> HIDE DEF e
<1>4. UNCHANGED World /\ Hands' = Hands /\ late' = late
  BY Same DEF CreateRoot
<1>5. /\ issues' \in Seq(IssueType) /\ Len(issues') = Len(issues) + 1 /\ issues'[Len(issues')] = e
      /\ Store(issues', Hands', late') /\ Process(issues', Hands', run)
  <2>1. Unborn(issues, e)
    BY <1>3 DEF Unborn
  <2> QED BY <1>1, <1>2, <1>4, <2>1, AppendKeeps DEF e
<1>6. /\ run.pc = "create_root" /\ run \in RunType /\ Len(issues) \in Nat
      /\ \A i \in Ids(issues') : ~issues'[i].complete
      /\ run.issue = 0 /\ run.missing = {}
  BY <1>5, Parts DEF CreateRoot, At, Process, OnRoot, AtHand, Held
<1>7. /\ run'.pc = "root_item" /\ run'.listed = run.listed /\ run'.root = Len(issues')
      /\ run'.node = 1 /\ run'.issue = 0 /\ run'.missing = {} /\ run' \in RunType
  <2>1. Len(issues) + 1 \in Nat /\ "root_item" \in Labels
    BY <1>6 DEF Labels
  <2> QED BY <1>5, <1>6, <2>1 DEF CreateRoot, RunType
<1>8. Len(issues') \in Ids(issues') /\ 1 \in Nodes
  BY <1>5, <1>6, BootstrapConstants DEF Ids, Nodes
<1>9. OnRoot(issues', run')
  BY <1>3, <1>5, <1>6, <1>7, <1>8 DEF OnRoot
<1>10. Listing(issues', Hands', run')
  <2>1. Len(run.listed) \in Nat
    BY <1>6 DEF RunType
  <2>2. \A m \in Nodes : e.nodes[m] = 0
    BY <1>3 DEF NoNodes
  <2> QED BY <1>5, <1>7, <2>1, <2>2 DEF Process, Listing
<1>11. AtHand(issues', Hands', run') /\ Behind(issues', Hands', run')
  BY <1>7 DEF AtHand, Behind, Held, Loop, Ending
<1> QED
  BY <1>4, <1>5, <1>7, <1>9, <1>10, <1>11, Changing DEF Process

\* gh issue create, complete or torn, in time or late.
LEMMA CreatedType ==
  ASSUME IInv, run.pc = "create", NEW e,
         \E p \in {0, Parent(run.root, run.node)}, d \in SUBSET Dependencies(run.root, run.node) :
           e = [Created EXCEPT !.parent = p, !.edges = d]
  PROVE  /\ e \in IssueType /\ Unborn(issues, e) /\ e.mark = run.node
         /\ e.body = BodyIn(issues, run.root, run.node) /\ e.text = "planned"
<1> DEFINE r == run.root
           n == run.node
<1>1. /\ r \in Numbers /\ n \in Nodes /\ r \in Nat /\ n \in 0 .. N /\ n # -1
      /\ ParentIn(issues, r, n) \in Nat /\ DepsIn(issues, r, n) \subseteq Nat
  BY Reference, BootstrapConstants DEF Loop, Numbers, Nodes
<1>2. PICK p \in {0, ParentIn(issues, r, n)}, d \in SUBSET DepsIn(issues, r, n) :
        e = [Created EXCEPT !.parent = p, !.edges = d]
  BY InTerms
<1>3. p \in Nat /\ d \in SUBSET Nat
  BY <1>1, <1>2
<1>4. /\ e.mark = n /\ e.body = BodyIn(issues, r, n) /\ e.text = "planned"
      /\ e.status = "none" /\ ~e.complete /\ ~e.closing /\ e.nodes = NoNodes
  BY <1>2, InTerms DEF Created, NewIssue
<1>5. BodyIn(issues, r, n) \in [root : Nat, deps : SUBSET Nat]
  BY <1>1 DEF BodyIn
<1>6. e \in IssueType
  <2>1. PICK body : body = BodyIn(issues, r, n)
    OBVIOUS
  <2>2. e = [NewIssue EXCEPT !.mark = n, !.body = body, !.parent = p, !.edges = d]
    <3>1. body = Body(r, n)
      BY <2>1, InTerms
    <3> QED BY <1>2, <3>1 DEF Created, NewIssue
  <2>3. n \in {-1} \union 0 .. N /\ body \in [root : Nat, deps : SUBSET Nat]
    BY <1>1, <1>5, <2>1
  <2> HIDE DEF n
  <2> QED BY <1>3, <2>2, <2>3, NewType DEF IssueType
<1>7. Unborn(issues, e)
  BY <1>1, <1>4, Parts DEF Unborn, BodyIn
<1> QED
  BY <1>4, <1>6, <1>7

LEMMA CreateKeeps ==
  ASSUME IInv, Create
  PROVE  IInv'
<1>1. run.pc = "create" /\ run \in RunType /\ Len(issues) \in Nat /\ Numbers = Ids(issues)
  BY Parts DEF Create, At
<1>2. PICK e : e = Created
  OBVIOUS
<1>3. /\ e \in IssueType /\ Unborn(issues, e) /\ e.mark = run.node
      /\ e.body = BodyIn(issues, run.root, run.node) /\ e.text = "planned"
  <2>1. e = [Created EXCEPT !.parent = Parent(run.root, run.node),
                            !.edges = Dependencies(run.root, run.node)]
    BY <1>2 DEF Created, NewIssue
  <2> QED BY <1>1, <2>1, CreatedType
<1>4. UNCHANGED World /\ Hands' = Hands /\ late' = late
  BY Same DEF Create
<1>5. /\ issues' \in Seq(IssueType) /\ Len(issues') = Len(issues) + 1 /\ issues'[Len(issues')] = e
      /\ \A j \in Numbers : issues'[j] = issues[j]
      /\ Store(issues', Hands', late') /\ Process(issues', Hands', run)
  BY <1>2, <1>3, <1>4, AppendKeeps DEF Create
<1>6. /\ run'.pc = "bind" /\ run'.issue = Len(issues') /\ run'.missing = {} /\ Like(run, run')
      /\ run' \in RunType
  <2>1. Len(issues) + 1 \in Nat /\ "bind" \in Labels
    BY <1>1 DEF Labels, Loop, Held
  <2> QED BY <1>1, <1>5, <2>1 DEF Create, RunType, Like
<1>7. Len(issues') \in Ids(issues')
  BY <1>1, <1>5 DEF Ids
<1>8. BodyIn(issues', run.root, run.node) = BodyIn(issues, run.root, run.node)
  <2>1. issues'[run.root] = issues[run.root]
    BY <1>1, <1>5, Reference DEF Loop
  <2> QED BY <2>1 DEF BodyIn, DepsIn, BoundIn
<1>9. issues'[run.root].nodes[run.node] = 0
  BY <1>1, <1>5 DEF Process, AtHand
<1>10. Process(issues', Hands', run')
  <2>1. issues'[Len(issues')].mark = run.node
    BY <1>3, <1>5
  <2>2. issues'[Len(issues')].body = BodyIn(issues', run.root, run.node)
    BY <1>3, <1>5, <1>8
  <2>3. issues'[Len(issues')].text = "planned"
    BY <1>3, <1>5
  <2> QED BY <1>1, <1>5, <1>6, <1>7, <1>9, <2>1, <2>2, <2>3, ToBind
<1> QED
  BY <1>4, <1>5, <1>6, <1>10, Changing

\* A status is written.
LEMMA StatusKeeps ==
  ASSUME IInv, UNCHANGED <<late, touched>>, NEW i \in Numbers, NEW status \in Status,
         issues' = [issues EXCEPT ![i] = [issues[i] EXCEPT !.status = status]],
         status \in {"STARTED", "MERGED", "DONE"} => Working(issues[i]) \/ Entitled(issues, i)
  PROVE  /\ issues' \in Seq(IssueType) /\ Hands' = Hands
         /\ Store(issues', Hands', late') /\ Process(issues', Hands', run)
<1> DEFINE e == [issues[i] EXCEPT !.status = status]
<1>1. issues[i] \in IssueType
  BY Parts, Element
<1>2. /\ e \in IssueType /\ e.mark = issues[i].mark /\ e.body = issues[i].body
      /\ e.text = issues[i].text /\ e.parent = issues[i].parent /\ e.edges = issues[i].edges
      /\ e.status = status /\ e.routed = issues[i].routed /\ e.plan = issues[i].plan
      /\ e.nodes = issues[i].nodes /\ e.complete = issues[i].complete
      /\ e.closing = issues[i].closing
  BY <1>1 DEF IssueType
<1> HIDE DEF e
<1>3. Hands' = Hands /\ late' = late
  BY DEF Hands
<1>4. Keeps(issues, e, i, Hands')
  BY <1>2 DEF Keeps, Steady
<1>5. Working(e) => Working(issues[i]) \/ Entitled(issues, i)
  BY <1>2 DEF Working
<1>6. issues' = [issues EXCEPT ![i] = e]
  BY DEF e
<1> QED
  BY <1>2, <1>3, <1>4, <1>5, <1>6, EditKeeps

LEMMA RootItemKeeps ==
  ASSUME IInv, RootItem
  PROVE  IInv'
<1>1. run.pc = "root_item" /\ run \in RunType /\ run.root \in Numbers
  BY Parts DEF RootItem, At, Process, OnRoot
<1>2. /\ issues' \in Seq(IssueType) /\ Store(issues', Hands', late')
      /\ Process(issues', Hands', run)
  BY <1>1, StatusKeeps DEF RootItem, Update, World, Status
<1>3. run' = [run EXCEPT !.pc = "locate"] /\ run' \in RunType
  BY <1>1 DEF RootItem, Goto, RunType, Labels, Loop
<1>4. Process(issues', Hands', run')
  BY <1>1, <1>2, <1>3, ToFirst
<1> QED
  BY <1>2, <1>3, <1>4, Changing DEF RootItem

LEMMA ItemKeeps ==
  ASSUME IInv, Item
  PROVE  IInv'
<1>1. run.pc = "item" /\ run \in RunType /\ run.issue \in Numbers
  BY Parts DEF Item, At, Process, AtHand, Held
<1>2. PICK status \in {"BLOCKED", "BACKLOG"} :
        issues' = [issues EXCEPT ![run.issue] = [issues[run.issue] EXCEPT !.status = status]]
  BY DEF Item, Update
<1>3. /\ issues' \in Seq(IssueType) /\ Store(issues', Hands', late')
      /\ Process(issues', Hands', run)
  BY <1>1, <1>2, StatusKeeps DEF Item, World, Status
<1>4. run' = [run EXCEPT !.pc = "describe"] /\ run' \in RunType
  BY <1>1 DEF Item, Goto, RunType, Labels, Loop, Held
<1>5. Process(issues', Hands', run')
  BY <1>1, <1>3, <1>4, ToVerify
<1> QED
  BY <1>3, <1>4, <1>5, Changing DEF Item

\* The issue at hand: whose it is.
LEMMA InHand ==
  ASSUME IInv, run.pc \in Held
  PROVE  /\ run.issue \in Numbers /\ issues[run.issue] \in IssueType
         /\ issues[run.issue].mark = run.node /\ issues[run.issue].body.root = run.root
         /\ issues[run.issue].body = BodyIn(issues, run.root, run.node)
         /\ run.root \in Numbers /\ run.root # run.issue /\ run.node \in Nodes
         /\ run.missing \subseteq DepsIn(issues, run.root, run.node)
         /\ DepsIn(issues, run.root, run.node) \subseteq Numbers
         /\ ParentIn(issues, run.root, run.node) \in Nat
<1>1. /\ run.issue \in Numbers /\ issues[run.issue].mark = run.node
      /\ issues[run.issue].body = BodyIn(issues, run.root, run.node)
      /\ run.missing \subseteq DepsIn(issues, run.root, run.node)
  BY Parts DEF Process, AtHand
<1>2. /\ run.root \in Numbers /\ issues[run.root].mark = 0 /\ run.node \in Nodes
      /\ run.node # 0
  BY Parts DEF Process, OnRoot, Held, Nodes
<1>3. issues[run.issue] \in IssueType
  BY <1>1, Parts, Element
<1>4. run.root # run.issue
  BY <1>1, <1>2
<1>5. run.pc \in Loop
  BY DEF Loop
<1> QED
  BY <1>1, <1>2, <1>3, <1>4, <1>5, Reference DEF BodyIn

LEMMA DescribeKeeps ==
  ASSUME IInv, Describe
  PROVE  IInv'
<1> DEFINE i == run.issue
           routed == LeafIn(issues, run.root, run.node)
           e == [issues[i] EXCEPT !.routed = Executable(run.root, run.node)]
<1>1. run.pc = "describe" /\ run.pc \in Held /\ run \in RunType
  BY Parts DEF Describe, At, Held
<1>2. Executable(run.root, run.node) \in BOOLEAN /\ (Executable(run.root, run.node) <=> routed)
  BY InTerms DEF Executable
<1>3. /\ e \in IssueType /\ e.mark = issues[i].mark /\ e.body = issues[i].body
      /\ e.text = issues[i].text /\ e.parent = issues[i].parent /\ e.edges = issues[i].edges
      /\ e.status = issues[i].status /\ (e.routed <=> routed) /\ e.plan = issues[i].plan
      /\ e.nodes = issues[i].nodes /\ e.complete = issues[i].complete
      /\ e.closing = issues[i].closing
  <2>1. PICK leaf \in BOOLEAN : leaf = Executable(run.root, run.node)
    BY <1>2
  <2>2. issues[i] \in IssueType
    BY <1>1, InHand
  <2>3. e = [issues[i] EXCEPT !.routed = leaf]
    BY <2>1
  <2> QED BY <1>2, <2>1, <2>2, <2>3 DEF IssueType
<1> HIDE DEF e
<1>4. UNCHANGED World /\ Hands' = Hands /\ late' = late
  BY Same DEF Describe
<1>5. Keeps(issues, e, i, Hands')
  <2>1. issues[i].body.root = run.root /\ issues[i].mark = run.node
    BY <1>1, InHand
  <2> QED BY <1>3, <2>1 DEF Keeps, Steady
<1>6. /\ issues' \in Seq(IssueType) /\ Store(issues', Hands', late')
      /\ Process(issues', Hands', run) /\ Len(issues') = Len(issues)
  <2>1. issues' = [issues EXCEPT ![i] = e]
    BY DEF Describe, Update, e
  <2>2. i \in Numbers
    BY <1>1, InHand
  <2>3. Working(e) => Working(issues[i])
    BY <1>3 DEF Working
  <2> QED BY <1>3, <1>4, <1>5, <2>1, <2>2, <2>3, EditKeeps
<1>7. run' = [run EXCEPT !.pc = "verify"] /\ run' \in RunType
  BY <1>1 DEF Describe, Goto, RunType, Labels, Loop, Held
<1>8. LeafIn(issues', run.root, run.node) => issues'[i].routed
  <2>1. issues'[i] = e /\ issues'[run.root] = issues[run.root]
    <3>1. /\ issues \in Seq(IssueType) /\ i \in Ids(issues) /\ run.root \in Ids(issues)
          /\ run.root # i
      BY <1>1, InHand, Parts
    <3>2. issues' = [issues EXCEPT ![i] = e]
      BY DEF Describe, Update, e
    <3> QED BY <3>1, <3>2 DEF Ids
  <2> QED BY <1>3, <2>1 DEF LeafIn
<1>9. Process(issues', Hands', run')
  BY <1>1, <1>6, <1>7, <1>8, ToVerify
<1> QED
  BY <1>4, <1>6, <1>7, <1>9, Changing

\* repair_relationships: the parent, then the edges that are missing.
LEMMA RelationKeeps ==
  ASSUME IInv, UNCHANGED World, run.pc \in {"repair", "bind"}, NEW parent \in Nat,
         NEW edges \in SUBSET Nat,
         issues' = [issues EXCEPT
           ![run.issue] = [issues[run.issue] EXCEPT !.parent = parent, !.edges = edges]],
         Planned(issues, run.issue, run.root, run.node) =>
           parent = issues[run.issue].parent /\ edges = issues[run.issue].edges
  PROVE  /\ issues' \in Seq(IssueType) /\ Store(issues', Hands', late')
         /\ Process(issues', Hands', run) /\ issues'[run.root] = issues[run.root]
<1> DEFINE i == run.issue
           e == [issues[i] EXCEPT !.parent = parent, !.edges = edges]
<1>1. /\ run.pc \in Held /\ issues \in Seq(IssueType) /\ i \in Ids(issues)
      /\ run.root \in Ids(issues) /\ run.root # i /\ issues[i] \in IssueType
      /\ issues[i].body.root = run.root /\ issues[i].mark = run.node
      /\ Numbers = Ids(issues)
  BY InHand, Parts DEF Held
<1>2. /\ e \in IssueType /\ e.mark = issues[i].mark /\ e.body = issues[i].body
      /\ e.text = issues[i].text /\ e.parent = parent /\ e.edges = edges
      /\ e.status = issues[i].status /\ e.routed = issues[i].routed /\ e.plan = issues[i].plan
      /\ e.nodes = issues[i].nodes /\ e.complete = issues[i].complete
      /\ e.closing = issues[i].closing
  BY <1>1 DEF IssueType
<1> HIDE DEF e
<1>3. Hands' = Hands /\ late' = late
  BY Same
<1>4. Keeps(issues, e, i, Hands')
  BY <1>1, <1>2 DEF Keeps, Steady
<1>5. issues' = [issues EXCEPT ![i] = e]
  BY DEF e
<1>6. issues'[run.root] = issues[run.root]
  BY <1>1, <1>5 DEF Ids
<1>7. Working(e) => Working(issues[i])
  BY <1>2 DEF Working
<1> QED
  BY <1>1, <1>2, <1>3, <1>4, <1>5, <1>6, <1>7, EditKeeps

\* ... after which the issue waits for its binding.
LEMMA BindNext ==
  ASSUME IInv, UNCHANGED World, run.pc \in {"repair", "bind"}, run' \in RunType,
         issues' \in Seq(IssueType), Store(issues', Hands', late'), Process(issues', Hands', run),
         issues'[run.root] = issues[run.root],
         run'.pc = "bind", Like(run, run'), run'.issue = run.issue,
         run'.missing \subseteq DepsIn(issues, run.root, run.node)
  PROVE  IInv'
<1>1. run \in RunType /\ run.pc \in Held
  BY Parts DEF Held
<1>2. DepsIn(issues', run.root, run.node) = DepsIn(issues, run.root, run.node)
  BY DEF DepsIn, BoundIn
<1>3. /\ run.issue \in Ids(issues') /\ issues'[run.issue].mark = run.node
      /\ issues'[run.issue].body = BodyIn(issues', run.root, run.node)
      /\ run.issue \in Hands' \/ issues'[run.issue].text = "planned"
      /\ issues'[run.root].nodes[run.node] \in {0, run.issue}
  BY <1>1 DEF Process, AtHand
<1>4. run.pc \in {"create", "repair", "bind"}
  OBVIOUS
<1>5. Process(issues', Hands', run')
  BY <1>1, <1>2, <1>3, <1>4, ToBind
<1> QED
  BY <1>5, Changing

LEMMA RepairKeeps ==
  ASSUME IInv, Repair
  PROVE  IInv'
<1> DEFINE i == run.issue
           deps == DepsIn(issues, run.root, run.node)
           parent == ParentIn(issues, run.root, run.node)
<1>1. /\ run.pc = "repair" /\ run.pc \in Held /\ run \in RunType /\ UNCHANGED World
      /\ issues[i] \in IssueType /\ i \in Numbers
      /\ parent \in Nat /\ deps \subseteq Nat
  BY Parts, InHand DEF Repair, At, Held, Numbers
<1>2. /\ issues' = [issues EXCEPT ![i] = [issues[i] EXCEPT !.parent = parent]]
      /\ run' = [run EXCEPT !.pc = "bind", !.missing = deps \ issues[i].edges]
  BY InTerms DEF Repair, Update
<1>3. issues[i].edges \in SUBSET Nat
  BY <1>1, Fields
<1>4. [issues[i] EXCEPT !.parent = parent]
        = [issues[i] EXCEPT !.parent = parent, !.edges = issues[i].edges]
  BY <1>1 DEF IssueType
<1>5. Planned(issues, i, run.root, run.node) => parent = issues[i].parent
  BY DEF Planned
<1>6. /\ issues' \in Seq(IssueType) /\ Store(issues', Hands', late')
      /\ Process(issues', Hands', run) /\ issues'[run.root] = issues[run.root]
  BY <1>1, <1>2, <1>3, <1>4, <1>5, RelationKeeps
<1>7. PICK missing \in SUBSET Nat : missing = deps \ issues[i].edges
  BY <1>1
<1>8. /\ run' \in RunType /\ run'.pc = "bind" /\ Like(run, run') /\ run'.issue = i
      /\ run'.missing = missing
  <2>1. run' = [run EXCEPT !.pc = "bind", !.missing = missing] /\ "bind" \in Labels
    BY <1>2, <1>7 DEF Labels, Loop, Held
  <2> QED BY <1>1, <2>1 DEF RunType, Like
<1> QED
  BY <1>1, <1>6, <1>7, <1>8, BindNext

LEMMA AttachKeeps ==
  ASSUME IInv, Attach
  PROVE  IInv'
<1> DEFINE i == run.issue
           deps == DepsIn(issues, run.root, run.node)
<1>1. /\ run.pc = "bind" /\ run.pc \in Held /\ run \in RunType /\ UNCHANGED World
      /\ issues[i] \in IssueType /\ i \in Numbers
      /\ run.missing \subseteq deps /\ deps \subseteq Nat
  BY Parts, InHand DEF Attach, At, Held, Numbers
<1>2. PICK d \in run.missing :
        /\ issues' = [issues EXCEPT ![i] = [issues[i] EXCEPT !.edges = @ \union {d}]]
        /\ run' = [run EXCEPT !.missing = @ \ {d}]
  BY DEF Attach, Update
<1>3. PICK edges \in SUBSET Nat : edges = issues[i].edges \union {d}
  BY <1>1, Fields
<1>4. issues[i].parent \in Nat
  BY <1>1, Fields
<1>5. issues' = [issues EXCEPT
        ![i] = [issues[i] EXCEPT !.parent = issues[i].parent, !.edges = edges]]
  <2>1. [issues[i] EXCEPT !.edges = edges]
          = [issues[i] EXCEPT !.parent = issues[i].parent, !.edges = edges]
    BY <1>1 DEF IssueType
  <2> QED BY <1>2, <1>3, <2>1
<1>6. Planned(issues, i, run.root, run.node) => edges = issues[i].edges
  BY <1>1, <1>3 DEF Planned
<1>7. /\ issues' \in Seq(IssueType) /\ Store(issues', Hands', late')
      /\ Process(issues', Hands', run) /\ issues'[run.root] = issues[run.root]
  BY <1>1, <1>4, <1>5, <1>6, RelationKeeps
<1>8. PICK missing \in SUBSET Nat : missing = run.missing \ {d}
  BY <1>1
<1>9. /\ run' \in RunType /\ run'.pc = "bind" /\ Like(run, run') /\ run'.issue = i
      /\ run'.missing = missing
  <2>1. run' = [run EXCEPT !.missing = missing]
    BY <1>2, <1>8
  <2> QED BY <1>1, <2>1 DEF RunType, Like
<1> QED
  BY <1>1, <1>7, <1>8, <1>9, BindNext

\* A change that binds a node, or completes a finished plan.
LEMMA FrameStore ==
  ASSUME NEW s \in Seq(IssueType), NEW t \in Seq(IssueType), NEW h, NEW l,
         Len(t) = Len(s), Frame(s, t, h), Store(s, h, l), OneComplete(t), Bindings(t),
         \A i \in Ids(s) : t[i].status = s[i].status,
         \A r \in Ids(s) : t[r].complete =>
           t[r].mark = 0 /\ \A n \in Nodes : Finished(s, h, r, n)
  PROVE  Store(t, h, l)
<1>1. Ids(t) = Ids(s)
  BY DEF Ids
<1>2. \A i \in Ids(s) : t[i].mark = s[i].mark /\ t[i].body = s[i].body
  BY DEF Frame, Keeps
<1>3. Rooted(t)
  BY <1>1, <1>2 DEF Rooted, Store
<1>4. LateUnborn(t, l)
  BY <1>1 DEF LateUnborn, Store, Unborn
<1>5. Owned(t)
  <2> SUFFICES ASSUME NEW i \in Ids(s), Working(t[i]) PROVE Entitled(t, i)
    BY <1>1 DEF Owned
  <2>1. Entitled(s, i) /\ i # 0
    BY Element DEF Store, Owned, Working
  <2>2. s[i].body.root \in Ids(s) /\ s[i].mark \in Nodes
    <3>1. s[i].mark \in {-1} \union 0 .. N /\ s[i].mark # -1 /\ s[i].mark # 0
      BY <2>1, Element, Fields DEF Store, Rooted, Entitled
    <3> QED BY <3>1, BootstrapConstants DEF Store, Rooted, Nodes
  <2>3. Keeps(s, t[s[i].body.root], s[i].body.root, h)
    BY <2>2 DEF Frame
  <2>4. s[s[i].body.root].complete /\ s[s[i].body.root].nodes[s[i].mark] = i /\ s[i].mark # 0
    BY <2>1 DEF Entitled
  <2>5. t[s[i].body.root].complete /\ t[s[i].body.root].nodes[s[i].mark] = i
    BY <2>1, <2>2, <2>3, <2>4 DEF Keeps
  <2>6. t[i].mark = s[i].mark /\ t[i].body = s[i].body
    BY <1>2
  <2> QED BY <2>4, <2>5, <2>6 DEF Entitled
<1>6. Whole(t, h)
  <2> SUFFICES ASSUME NEW r \in Ids(s), t[r].complete, NEW n \in Nodes
               PROVE  Finished(t, h, r, n)
    BY <1>1 DEF Whole
  <2>1. \A m \in Nodes : Finished(s, h, r, m)
    OBVIOUS
  <2>2. \A m \in Nodes : m < n => s[r].nodes[m] # 0
    BY <2>1 DEF Finished
  <2> QED BY <2>1, <2>2, FinishedKept DEF Store
<1> QED
  BY <1>3, <1>4, <1>5, <1>6 DEF Store

\* The tracking issue changes.
LEMMA RootFrame ==
  ASSUME IInv, run.root \in Numbers, NEW e \in IssueType, Keeps(issues, e, run.root, Hands),
         issues' = [issues EXCEPT ![run.root] = e]
  PROVE  /\ issues' \in Seq(IssueType) /\ Len(issues') = Len(issues) /\ Ids(issues') = Ids(issues)
         /\ issues'[run.root] = e
         /\ \A j \in Ids(issues) : j # run.root => issues'[j] = issues[j]
         /\ Frame(issues, issues', Hands)
<1>1. issues \in Seq(IssueType) /\ run.root \in Ids(issues) /\ Len(issues) \in Nat
  BY Parts
<1>2. /\ issues' \in Seq(IssueType) /\ Len(issues') = Len(issues) /\ Ids(issues') = Ids(issues)
      /\ issues'[run.root] = e
      /\ \A j \in Ids(issues) : j # run.root => issues'[j] = issues[j]
  BY <1>1 DEF Ids
<1>3. ASSUME NEW j \in Ids(issues), j # run.root PROVE Keeps(issues, issues'[j], j, Hands)
  BY <1>2, <1>3 DEF Keeps, Steady
<1> QED
  BY <1>1, <1>2, <1>3 DEF Frame

LEMMA BindKeeps ==
  ASSUME IInv, Bind
  PROVE  IInv'
<1> DEFINE r == run.root
           n == run.node
           i == run.issue
           e == [issues[r] EXCEPT !.nodes = [issues[r].nodes EXCEPT ![n] = i]]
<1>1. /\ run.pc = "bind" /\ run.pc \in Held /\ run.pc \in Loop /\ run \in RunType
      /\ issues \in Seq(IssueType) /\ Numbers = Ids(issues) /\ Len(issues) \in Nat
      /\ Store(issues, Hands, late) /\ Process(issues, Hands, run) /\ run.missing = {}
  BY Parts DEF Bind, At, Held, Loop
<1>2. /\ r \in Ids(issues) /\ issues[r] \in IssueType /\ n \in Nodes /\ i \in Nat
      /\ i \in Ids(issues) /\ i # r /\ issues[i].mark = n /\ issues[i].body.root = r
      /\ issues[i].body = BodyIn(issues, r, n)
      /\ issues[r].nodes[n] \in {0, i} /\ issues[r].nodes \in [Nodes -> Nat]
  BY <1>1, InHand, Element, Fields DEF Process, AtHand
<1>3. /\ e \in IssueType /\ e.mark = issues[r].mark /\ e.body = issues[r].body
      /\ e.text = issues[r].text /\ e.parent = issues[r].parent /\ e.edges = issues[r].edges
      /\ e.status = issues[r].status /\ e.routed = issues[r].routed /\ e.plan = issues[r].plan
      /\ e.complete = issues[r].complete /\ e.closing = issues[r].closing
      /\ e.nodes[n] = i /\ \A m \in Nodes : m # n => e.nodes[m] = issues[r].nodes[m]
  <2>1. PICK nodes \in [Nodes -> Nat] : nodes = [issues[r].nodes EXCEPT ![n] = i]
    BY <1>2
  <2>2. nodes[n] = i /\ \A m \in Nodes : m # n => nodes[m] = issues[r].nodes[m]
    BY <1>2, <2>1
  <2>3. e = [issues[r] EXCEPT !.nodes = nodes]
    BY <2>1
  <2> QED BY <1>2, <2>2, <2>3 DEF IssueType
<1>4. issues' = [issues EXCEPT ![r] = e]
  BY DEF Bind
<1> HIDE DEF e
<1>5. Keeps(issues, e, r, Hands)
  BY <1>2, <1>3 DEF Keeps, Steady
<1>6. /\ issues' \in Seq(IssueType) /\ Len(issues') = Len(issues) /\ Ids(issues') = Ids(issues)
      /\ issues'[r] = e /\ (\A j \in Ids(issues) : j # r => issues'[j] = issues[j])
      /\ Frame(issues, issues', Hands)
  BY <1>1, <1>2, <1>3, <1>4, <1>5, RootFrame
<1>7. UNCHANGED World /\ Hands' = Hands /\ late' = late
  BY Same DEF Bind
<1>8. \A j \in Ids(issues) : /\ issues'[j].mark = issues[j].mark /\ issues'[j].body = issues[j].body
                             /\ issues'[j].complete = issues[j].complete
                             /\ issues'[j].closing = issues[j].closing
                             /\ issues'[j].text = issues[j].text
                             /\ issues'[j].status = issues[j].status
  BY <1>3, <1>6
<1>9. Bindings(issues')
  <2> SUFFICES ASSUME NEW q \in Ids(issues), NEW m \in Nodes, issues'[q].nodes[m] # 0
               PROVE  Binds(issues', issues'[q].nodes[m], q, m)
    BY <1>6 DEF Bindings
  <2>1. CASE q = r /\ m = n
    BY <1>2, <1>3, <1>6, <1>8, <2>1 DEF Binds
  <2>2. CASE ~(q = r /\ m = n)
    <3>1. issues'[q].nodes[m] = issues[q].nodes[m]
      BY <1>3, <1>6, <2>2
    <3>2. Binds(issues, issues[q].nodes[m], q, m)
      BY <1>1, <3>1 DEF Store, Bindings
    <3> QED BY <1>6, <1>8, <3>1, <3>2 DEF Binds
  <2> QED BY <2>1, <2>2
<1>10. Store(issues', Hands', late')
  <2>1. OneComplete(issues')
    BY <1>1, <1>6, <1>8 DEF Store, OneComplete
  <2>2. \A q \in Ids(issues) : issues'[q].complete =>
           issues'[q].mark = 0 /\ \A m \in Nodes : Finished(issues, Hands, q, m)
    BY <1>1, <1>8 DEF Store, Whole, Rooted
  <2> QED BY <1>1, <1>6, <1>7, <1>8, <1>9, <2>1, <2>2, FrameStore
<1>11. /\ run' \in RunType /\ run'.pc = "item" /\ run'.listed = run.listed /\ run'.root = r
       /\ run'.node = n /\ run'.issue = i /\ run'.missing = {}
  <2>1. run' = [run EXCEPT !.pc = "item"] /\ "item" \in Labels
    BY DEF Bind, Goto, Labels, Loop, Held
  <2> QED BY <1>1, <2>1 DEF RunType
<1>12. OnRoot(issues', run')
  <2>1. OnRoot(issues, run)
    BY <1>1 DEF Process
  <2> QED BY <1>1, <1>2, <1>6, <1>8, <1>11, <2>1 DEF OnRoot
<1>13. Listing(issues', Hands', run')
  <2>1. Listing(issues, Hands, run) /\ Len(run.listed) \in Nat
    BY <1>1 DEF Process, RunType
  <2>2. Ids(run.listed) \subseteq Ids(issues)
    BY <1>1, <2>1 DEF Listing, Ids
  <2>3. \A m \in Nodes : m > n => issues'[r].nodes[m] <= Len(run.listed)
    <3>1. \A m \in Nodes : m > n => m # n
      BY BootstrapConstants DEF Nodes
    <3> QED BY <1>1, <1>3, <1>6, <2>1, <3>1 DEF Listing
  <2>4. \A j \in Ids(run.listed) :
          /\ run.listed[j].mark = issues'[j].mark /\ run.listed[j].body = issues'[j].body
          /\ j \in Hands \/ run.listed[j].text = issues'[j].text
    BY <1>8, <2>1, <2>2 DEF Listing
  <2>5. Len(run.listed) <= Len(issues')
    BY <1>6, <2>1 DEF Listing
  <2> QED BY <1>7, <1>11, <2>3, <2>4, <2>5 DEF Listing
<1>14. AtHand(issues', Hands', run')
  <2>1. BodyIn(issues', r, n) = BodyIn(issues, r, n)
    <3>1. issues[r].plan \in Plans /\ issues'[r].plan = issues[r].plan
      BY <1>2, <1>3, <1>6, Fields
    <3>2. \A m \in Nodes : m < n => m # n
      BY <1>2, BootstrapConstants DEF Nodes
    <3>3. \A m \in Nodes : m < n => issues'[r].nodes[m] = issues[r].nodes[m]
      BY <1>3, <1>6, <3>2
    <3> QED BY <1>2, <3>1, <3>3, RelationsKept
  <2>2. i \in Hands \/ issues[i].text = "planned"
    BY <1>1 DEF Process, AtHand
  <2> QED BY <1>2, <1>3, <1>6, <1>7, <1>8, <1>11, <2>1, <2>2 DEF AtHand, Held
<1>15. Behind(issues', Hands', run')
  <2>1. ASSUME NEW m \in Nodes, m < n PROVE Finished(issues', Hands', r, m)
    <3>1. Finished(issues, Hands, r, m)
      BY <1>1, <2>1 DEF Process, Behind
    <3>2. \A j \in Nodes : j < m => j < n
      BY <1>2, <2>1, BootstrapConstants DEF Nodes
    <3>3. \A j \in Nodes : j < m => issues[r].nodes[j] # 0
      BY <1>1, <3>2 DEF Process, Behind, Finished
    <3> QED BY <1>1, <1>2, <1>6, <1>7, <3>1, <3>3, FinishedKept DEF Store
  <2> QED BY <1>11, <2>1 DEF Behind, Ending
<1> QED
  BY <1>6, <1>7, <1>10, <1>11, <1>12, <1>13, <1>14, <1>15, Changing DEF Process

LEMMA CompleteKeeps ==
  ASSUME IInv, Complete
  PROVE  IInv'
<1> DEFINE r == run.root
           e == [issues[r] EXCEPT !.complete = TRUE, !.closing = TRUE]
<1>1. /\ run.pc = "complete" /\ run.pc \in Ending
      /\ issues \in Seq(IssueType) /\ Numbers = Ids(issues)
      /\ Store(issues, Hands, late) /\ Process(issues, Hands, run)
  BY Parts DEF Complete, At, Ending
<1>2. /\ r \in Ids(issues) /\ issues[r] \in IssueType /\ issues[r].mark = 0
      /\ \A j \in Ids(issues) : issues[j].complete => j = r
  BY <1>1, Element DEF Process, OnRoot
<1>3. /\ e \in IssueType /\ e.mark = issues[r].mark /\ e.body = issues[r].body
      /\ e.text = issues[r].text /\ e.parent = issues[r].parent /\ e.edges = issues[r].edges
      /\ e.status = issues[r].status /\ e.routed = issues[r].routed /\ e.plan = issues[r].plan
      /\ e.complete /\ e.nodes = issues[r].nodes
  BY <1>2 DEF IssueType
<1>4. issues' = [issues EXCEPT ![r] = e]
  BY DEF Complete, Update
<1> HIDE DEF e
<1>5. Keeps(issues, e, r, Hands)
  BY <1>2, <1>3 DEF Keeps, Steady
<1>6. /\ issues' \in Seq(IssueType) /\ Len(issues') = Len(issues) /\ Ids(issues') = Ids(issues)
      /\ issues'[r] = e /\ (\A j \in Ids(issues) : j # r => issues'[j] = issues[j])
      /\ Frame(issues, issues', Hands)
  BY <1>1, <1>2, <1>3, <1>4, <1>5, RootFrame
<1>7. UNCHANGED World /\ Hands' = Hands /\ late' = late /\ run' = NoRun
  BY Same DEF Complete, End
<1>8. \A j \in Ids(issues) : /\ issues'[j].mark = issues[j].mark
                             /\ issues'[j].body = issues[j].body
                             /\ issues'[j].nodes = issues[j].nodes
                             /\ issues'[j].status = issues[j].status
                             /\ issues'[j].complete => j = r
  BY <1>2, <1>3, <1>6
<1>9. Bindings(issues')
  <2> SUFFICES ASSUME NEW q \in Ids(issues), NEW m \in Nodes, issues'[q].nodes[m] # 0
               PROVE  Binds(issues', issues'[q].nodes[m], q, m)
    BY <1>6 DEF Bindings
  <2>1. issues'[q].nodes[m] = issues[q].nodes[m]
    BY <1>8
  <2>2. Binds(issues, issues[q].nodes[m], q, m)
    BY <1>1, <2>1 DEF Store, Bindings
  <2> QED BY <1>6, <1>8, <2>1, <2>2 DEF Binds
<1>10. OneComplete(issues')
  BY <1>6, <1>8 DEF OneComplete
<1>11. \A q \in Ids(issues) : issues'[q].complete =>
         issues'[q].mark = 0 /\ \A m \in Nodes : Finished(issues, Hands, q, m)
  BY <1>1, <1>2, <1>8 DEF Process, Behind
<1>12. Store(issues', Hands', late')
  BY <1>1, <1>6, <1>7, <1>8, <1>9, <1>10, <1>11, FrameStore
<1>13. run' \in RunType /\ Process(issues', Hands', run')
  BY <1>6, <1>7, Ended
<1> QED
  BY <1>6, <1>7, <1>12, <1>13, Changing

\* A step that raises.
LEMMA RaisesKeeps ==
  ASSUME IInv, UNCHANGED <<issues, World>>, End
  PROVE  IInv'
<1>1. late \in IssueType /\ LateUnborn(issues, late) /\ faults \in Nat /\ Trouble <= MaxTrouble
  BY DEF IInv, Typed, Store
<1> QED
  BY <1>1, Ends DEF World, Trouble

LEMMA VerifyKeeps ==
  ASSUME IInv, Verify
  PROVE  IInv'
<1> DEFINE r == run.root
           n == run.node
           i == run.issue
<1>1. /\ run.pc = "verify" /\ run.pc \in Held /\ run \in RunType /\ issues \in Seq(IssueType)
      /\ Process(issues, Hands, run) /\ UNCHANGED <<issues, World>>
  BY Parts DEF Verify, At, Held
<1>2. CASE Related(i, r, n) /\ Onward("locate", "reread")
  <2>1. /\ i \in Numbers /\ i # 0 /\ issues[r].nodes[n] = i
        /\ issues[i].body = BodyIn(issues, r, n) /\ (i \in Hands \/ issues[i].text = "planned")
        /\ LeafIn(issues, r, n) => issues[i].routed
    BY <1>1, InHand DEF Process, AtHand, Numbers
  <2>2. issues[i].parent = ParentIn(issues, r, n) /\ issues[i].edges = DepsIn(issues, r, n)
    BY <1>2, InTerms DEF Related
  <2>3. Finished(issues, Hands, r, n)
    BY <2>1, <2>2 DEF Finished, Planned
  <2>4. /\ n < N => run' = Turn(run, "locate", n + 1)
        /\ ~(n < N) => run' = Turn(run, "reread", 1)
    BY <1>2 DEF Onward, Turn
  <2>5. run' \in RunType /\ Process(issues, Hands, run')
    BY <1>1, <2>3, <2>4, ToNext
  <2> QED BY <1>1, <2>5, Moving
<1>3. CASE End
  BY <1>1, <1>3, RaisesKeeps
<1> QED
  BY <1>2, <1>3 DEF Verify

LEMMA RereadKeeps ==
  ASSUME IInv, Reread
  PROVE  IInv'
<1>1. /\ run.pc = "reread" /\ run.pc \in Ending /\ run \in RunType /\ issues \in Seq(IssueType)
      /\ Process(issues, Hands, run) /\ UNCHANGED <<issues, World>>
      /\ "reread" \in Ending /\ "release" \in Ending
  BY Parts DEF Reread, At, Ending
<1>2. CASE Onward("reread", "release")
  <2>1. /\ run.node < N => run' = Turn(run, "reread", run.node + 1)
        /\ ~(run.node < N) => run' = Turn(run, "release", 1)
    BY <1>2 DEF Onward, Turn
  <2>2. run' \in RunType /\ Process(issues, Hands, run')
    BY <1>1, <2>1, ToLast
  <2> QED BY <1>1, <2>2, Moving
<1>3. CASE End
  BY <1>1, <1>3, RaisesKeeps
<1> QED
  BY <1>2, <1>3 DEF Reread

LEMMA ReleaseKeeps ==
  ASSUME IInv, Release
  PROVE  IInv'
<1> DEFINE i == Bound(run.root, run.node)
<1>1. /\ run.pc = "release" /\ run.pc \in Ending /\ run \in RunType
      /\ Process(issues, Hands, run) /\ Store(issues, Hands, late) /\ UNCHANGED World
      /\ "release" \in Ending /\ "complete" \in Ending
  BY Parts DEF Release, At, Ending
<1>2. i \in Numbers /\ issues[i] \in IssueType
  <2>1. run.root \in Numbers /\ run.node \in Nodes
    BY <1>1, Parts DEF Process, OnRoot, Ending
  <2>2. i = issues[run.root].nodes[run.node] /\ i # 0
    BY <1>1, <2>1, BootstrapConstants DEF Bound, Nodes, Process, Behind, Finished
  <2> QED BY <1>1, <2>1, <2>2, Parts, Element DEF Store, Bindings, Binds
<1>3. PICK status \in Status :
        /\ issues' = [issues EXCEPT ![i] = [issues[i] EXCEPT !.status = status]]
        /\ status = "READY" \/ status = issues[i].status
  <2>1. issues[i].status \in Status /\ "READY" \in Status
    BY <1>2, Fields DEF Status
  <2> QED BY <2>1 DEF Release, Update
<1>4. status \in {"STARTED", "MERGED", "DONE"} => Working(issues[i])
  BY <1>3 DEF Working
<1>5. /\ issues' \in Seq(IssueType) /\ Store(issues', Hands', late')
      /\ Process(issues', Hands', run)
  BY <1>1, <1>2, <1>3, <1>4, StatusKeeps DEF World
<1>6. /\ run.node < N => run' = Turn(run, "release", run.node + 1)
      /\ ~(run.node < N) => run' = Turn(run, "complete", 1)
  BY DEF Release, Onward, Turn
<1>7. run' \in RunType /\ Process(issues', Hands', run')
  BY <1>1, <1>5, <1>6, ToLast
<1> QED
  BY <1>1, <1>5, <1>7, Changing

LEMMA RunStepsKeep ==
  ASSUME IInv, Start \/ RunSteps
  PROVE  IInv'
<1>1. CASE LocateRaises
  BY <1>1, RaisesKeeps DEF LocateRaises
<1>2. CASE RepairRaises
  BY <1>2, RaisesKeeps DEF RepairRaises
<1> QED
  BY <1>1, <1>2, StartKeeps, CreateRootKeeps, RootItemKeeps, LocateKeeps, CreateKeeps, RepairKeeps,
     AttachKeeps, BindKeeps, ItemKeeps, DescribeKeeps, VerifyKeeps, RereadKeeps, ReleaseKeeps,
     CompleteKeeps
  DEF RunSteps

(***************************************************************************)
(* Failures.                                                               *)
(***************************************************************************)
LEMMA FailuresKeep ==
  ASSUME IInv, Failures
  PROVE  IInv'
<1>1. /\ faults \in Nat /\ Len(touched) \in Nat /\ MaxTrouble \in Nat /\ Trouble <= MaxTrouble
      /\ late \in IssueType /\ issues \in Seq(IssueType) /\ LateUnborn(issues, late)
  BY BootstrapConstants DEF IInv, Typed, Store
<1>2. BreaksOff /\ touched' = touched =>
        End /\ run' = NoRun /\ faults' \in Nat /\ Trouble' <= MaxTrouble
  BY <1>1 DEF BreaksOff, End, Trouble
<1>3. CASE Stop
  BY <1>1, <1>2, <1>3, Ends DEF Stop
<1>4. CASE CreateTorn
  <2>1. PICK p \in {0, Parent(run.root, run.node)}, d \in SUBSET Dependencies(run.root, run.node) :
          issues' = Append(issues, [Created EXCEPT !.parent = p, !.edges = d])
    BY <1>4 DEF CreateTorn
  <2> DEFINE e == [Created EXCEPT !.parent = p, !.edges = d]
  <2> HIDE DEF e
  <2>2. e \in IssueType /\ Unborn(issues, e) /\ issues' = Append(issues, e)
    <3>1. run.pc = "create"
      BY <1>4 DEF CreateTorn, At
    <3>2. e = [Created EXCEPT !.parent = p, !.edges = d]
      BY DEF e
    <3> QED BY <2>1, <3>1, <3>2, CreatedType
  <2>3. Hands' = Hands /\ late' = late /\ touched' = touched
    BY <1>4 DEF CreateTorn, Hands
  <2>4. issues' \in Seq(IssueType) /\ Store(issues', Hands', late')
    BY <2>1, <2>2, <2>3, AppendKeeps
  <2>5. /\ run' \in RunType /\ Process(issues', Hands', run') /\ broker' = broker
        /\ faults' \in Nat /\ Trouble' <= MaxTrouble
    BY <1>2, <1>4, <2>4, Ended DEF CreateTorn
  <2> QED BY <2>3, <2>4, <2>5 DEF IInv, Typed
<1>5. CASE CreateLate
  <2>1. late' \in IssueType /\ Unborn(issues, late')
    <3>1. CASE At("create") /\ late' = Created
      <4>1. late' = [Created EXCEPT !.parent = Parent(run.root, run.node),
                                    !.edges = Dependencies(run.root, run.node)]
        BY <3>1 DEF Created, NewIssue
      <4> QED BY <3>1, <4>1, CreatedType DEF At
    <3>2. CASE \E plan \in Plans : late' = [NewIssue EXCEPT !.plan = plan]
      <4>1. late' \in IssueType
        BY <3>2, NewType DEF IssueType
      <4> QED BY <3>2, <4>1 DEF Unborn, NewIssue
    <3> QED BY <1>5, <3>1, <3>2 DEF CreateLate
  <2> QED BY <1>2, <1>5, <2>1, Ends DEF CreateLate, LateUnborn
<1>6. CASE Land
  <2>1. /\ late' = NoIssue /\ UNCHANGED <<run, broker, faults, touched>> /\ Hands' = Hands
        /\ issues' = Append(issues, late) /\ Unborn(issues, late)
    BY <1>1, <1>6 DEF Land, LateUnborn, Hands
  <2>2. /\ issues' \in Seq(IssueType) /\ Store(issues', Hands', late')
        /\ Process(issues', Hands', run)
    BY <1>1, <2>1, AppendKeeps
  <2>3. NoIssue \in IssueType
    BY NewType DEF IssueType, NoIssue
  <2> QED BY <2>1, <2>2, <2>3 DEF IInv, Typed, Trouble
<1> QED
  BY <1>3, <1>4, <1>5, <1>6 DEF Failures

(***************************************************************************)
(* What a step of a run, or its failure, writes.                           *)
(***************************************************************************)
LEMMA Others ==
  ASSUME IInv, NEW k \in Numbers, NEW e, Update(k, e), NEW j \in Numbers
  PROVE  Len(issues') = Len(issues) /\ issues'[j] = IF j = k THEN e ELSE issues[j]
  BY Parts DEF Update, Ids

\* Whatever happens to an issue, this lasts.
Lasts(o, e) ==
  /\ e.mark = o.mark /\ e.body = o.body /\ e.plan = o.plan /\ (o.complete => e.complete)
  /\ \A m \in Nodes : o.nodes[m] # 0 => e.nodes[m] = o.nodes[m]

\* Each field, with the steps that write it.
RunWrites(j) ==
  LET o == issues[j]
      e == issues'[j]
  IN /\ Len(issues) <= Len(issues') /\ Lasts(o, e) /\ e.closed = o.closed
     /\ e.edges = o.edges \/ (Attach /\ j = run.issue)
     /\ \/ e.nodes = o.nodes
        \/ Bind /\ j = run.root /\ \A m \in Nodes : m # run.node => e.nodes[m] = o.nodes[m]
     /\ (e.complete = o.complete /\ e.closing = o.closing) \/ (Complete /\ j = run.root)
     /\ \/ e.status = o.status
        \/ RootItem /\ j = run.root /\ e.status = "BACKLOG"
        \/ Item /\ j = run.issue /\ e.status \in {"BACKLOG", "BLOCKED"}
        \/ /\ Release /\ j = Bound(run.root, run.node) /\ e.status = "READY"
           /\ issues[run.root].plan.deps[run.node] = {}

LEMMA SameIssue ==
  ASSUME NEW j \in Numbers, Len(issues) <= Len(issues'), issues'[j] = issues[j]
  PROVE  RunWrites(j)
  BY DEF RunWrites, Lasts

LEMMA RootWritten ==
  ASSUME IInv, RootItem \/ Bind \/ Complete, NEW j \in Numbers
  PROVE  RunWrites(j)
<1> DEFINE r == run.root
<1>1. r \in Numbers /\ issues[r] \in IssueType /\ Len(issues) \in Nat
  BY Parts, Element DEF RootItem, Bind, Complete, At, Process, OnRoot
<1>2. CASE RootItem
  <2>1. Update(r, [issues[r] EXCEPT !.status = "BACKLOG"])
    BY <1>2 DEF RootItem
  <2>2. Len(issues') = Len(issues)
        /\ issues'[j] = IF j = r THEN [issues[r] EXCEPT !.status = "BACKLOG"] ELSE issues[j]
    BY <1>1, <2>1, Others
  <2> QED BY <1>1, <1>2, <2>2 DEF RunWrites, Lasts, IssueType
<1>3. CASE Bind
  <2>1. /\ issues[r].nodes \in [Nodes -> Nat] /\ run.node \in Nodes
        /\ issues[r].nodes[run.node] \in {0, run.issue}
    BY <1>1, <1>3, Fields, InHand, Parts DEF Bind, At, Held, Process, AtHand
  <2> DEFINE nodes == [issues[r].nodes EXCEPT ![run.node] = run.issue]
  <2>2. /\ nodes[run.node] = run.issue
        /\ \A m \in Nodes : m # run.node => nodes[m] = issues[r].nodes[m]
    BY <2>1
  <2>3. Update(r, [issues[r] EXCEPT !.nodes = nodes])
    BY <1>3 DEF Bind, Update
  <2> HIDE DEF nodes
  <2>4. Len(issues') = Len(issues)
        /\ issues'[j] = IF j = r THEN [issues[r] EXCEPT !.nodes = nodes] ELSE issues[j]
    BY <1>1, <2>3, Others
  <2>5. CASE j = r
    <3>1. /\ issues'[j].nodes = nodes /\ issues'[j].mark = issues[j].mark
          /\ issues'[j].body = issues[j].body /\ issues'[j].plan = issues[j].plan
          /\ issues'[j].complete = issues[j].complete /\ issues'[j].closing = issues[j].closing
          /\ issues'[j].closed = issues[j].closed /\ issues'[j].edges = issues[j].edges
          /\ issues'[j].status = issues[j].status
      BY <1>1, <2>4, <2>5 DEF IssueType
    <3>2. Lasts(issues[j], issues'[j])
      BY <2>1, <2>2, <2>5, <3>1 DEF Lasts
    <3> QED BY <1>1, <1>3, <2>2, <2>4, <2>5, <3>1, <3>2 DEF RunWrites
  <2>6. CASE j # r
    BY <1>1, <2>4, <2>6, SameIssue
  <2> QED BY <2>5, <2>6
<1>4. CASE Complete
  <2>1. Update(r, [issues[r] EXCEPT !.complete = TRUE, !.closing = TRUE])
    BY <1>4 DEF Complete
  <2>2. Len(issues') = Len(issues)
        /\ issues'[j] = IF j = r THEN [issues[r] EXCEPT !.complete = TRUE, !.closing = TRUE]
                        ELSE issues[j]
    BY <1>1, <2>1, Others
  <2>3. CASE j # r
    BY <1>1, <2>2, <2>3, SameIssue
  <2>4. CASE j = r
    <3>1. /\ Lasts(issues[j], issues'[j]) /\ issues'[j].closed = issues[j].closed
          /\ issues'[j].edges = issues[j].edges /\ issues'[j].nodes = issues[j].nodes
          /\ issues'[j].status = issues[j].status
      BY <1>1, <2>2, <2>4 DEF Lasts, IssueType
    <3> QED BY <1>1, <1>4, <2>2, <2>4, <3>1 DEF RunWrites
  <2> QED BY <2>3, <2>4
<1> QED
  BY <1>2, <1>3, <1>4

LEMMA NodeWritten ==
  ASSUME IInv, Repair \/ Attach \/ Item \/ Describe, NEW j \in Numbers
  PROVE  RunWrites(j)
<1> DEFINE i == run.issue
<1>1. i \in Numbers /\ issues[i] \in IssueType /\ Len(issues) \in Nat
  BY Parts, InHand DEF Repair, Attach, Item, Describe, At, Held
<1>2. CASE Repair
  <2>1. PICK p : Update(i, [issues[i] EXCEPT !.parent = p])
    BY <1>2 DEF Repair
  <2>2. Len(issues') = Len(issues)
        /\ issues'[j] = IF j = i THEN [issues[i] EXCEPT !.parent = p] ELSE issues[j]
    BY <1>1, <2>1, Others
  <2> QED BY <1>1, <2>2 DEF RunWrites, Lasts, IssueType
<1>3. CASE Attach
  <2>1. PICK edges : Update(i, [issues[i] EXCEPT !.edges = edges])
    BY <1>3 DEF Attach, Update
  <2>2. Len(issues') = Len(issues)
        /\ issues'[j] = IF j = i THEN [issues[i] EXCEPT !.edges = edges] ELSE issues[j]
    BY <1>1, <2>1, Others
  <2> QED BY <1>1, <1>3, <2>2 DEF RunWrites, Lasts, IssueType
<1>4. CASE Item
  <2>1. PICK status \in {"BACKLOG", "BLOCKED"} : Update(i, [issues[i] EXCEPT !.status = status])
    BY <1>4 DEF Item
  <2>2. Len(issues') = Len(issues)
        /\ issues'[j] = IF j = i THEN [issues[i] EXCEPT !.status = status] ELSE issues[j]
    BY <1>1, <2>1, Others
  <2>3. CASE j # i
    BY <1>1, <2>2, <2>3, SameIssue
  <2>4. CASE j = i
    <3>1. /\ Lasts(issues[j], issues'[j]) /\ issues'[j].closed = issues[j].closed
          /\ issues'[j].edges = issues[j].edges /\ issues'[j].nodes = issues[j].nodes
          /\ issues'[j].complete = issues[j].complete /\ issues'[j].closing = issues[j].closing
          /\ issues'[j].status = status
      BY <1>1, <2>2, <2>4 DEF Lasts, IssueType
    <3> QED BY <1>1, <1>4, <2>2, <2>4, <3>1 DEF RunWrites
  <2> QED BY <2>3, <2>4
<1>5. CASE Describe
  <2>1. PICK routed : Update(i, [issues[i] EXCEPT !.routed = routed])
    BY <1>5 DEF Describe
  <2>2. Len(issues') = Len(issues)
        /\ issues'[j] = IF j = i THEN [issues[i] EXCEPT !.routed = routed] ELSE issues[j]
    BY <1>1, <2>1, Others
  <2> QED BY <1>1, <2>2 DEF RunWrites, Lasts, IssueType
<1> QED
  BY <1>2, <1>3, <1>4, <1>5

\* The issue Release looks at is the one bound to the node.
LEMMA Released ==
  ASSUME IInv, Release
  PROVE  LET i == Bound(run.root, run.node) IN
         /\ run.root \in Numbers /\ run.node \in Nodes /\ i \in Numbers
         /\ issues[i].mark = run.node /\ issues[i].body.root = run.root
         /\ issues[i] \in IssueType
<1>1. /\ run.root \in Ids(issues) /\ run.node \in Nodes
      /\ Finished(issues, Hands, run.root, run.node)
  BY Parts DEF Release, At, Process, OnRoot, Behind, Ending
<1>2. Bound(run.root, run.node) = issues[run.root].nodes[run.node]
      /\ issues[run.root].nodes[run.node] # 0
  BY <1>1, BootstrapConstants DEF Bound, Nodes, Finished
<1>3. Binds(issues, issues[run.root].nodes[run.node], run.root, run.node)
  BY <1>1, <1>2, Parts DEF Store, Bindings
<1> QED
  BY <1>1, <1>2, <1>3, Parts, Element DEF Binds

LEMMA RunStepWrites ==
  ASSUME IInv, Start \/ RunSteps \/ Failures, NEW j \in Numbers
  PROVE  RunWrites(j)
<1>1. issues \in Seq(IssueType) /\ Len(issues) \in Nat /\ j \in Ids(issues)
  BY Parts
<1>2. CASE issues' = issues
  BY <1>1, <1>2, SameIssue
<1>3. ASSUME NEW e, issues' = Append(issues, e) PROVE RunWrites(j)
  <2>1. Len(issues) <= Len(issues') /\ issues'[j] = issues[j]
    BY <1>1, <1>3 DEF Ids
  <2> QED BY <2>1, SameIssue
<1>4. CASE Release
  <2> DEFINE k == Bound(run.root, run.node)
  <2>1. PICK status :
          /\ Update(k, [issues[k] EXCEPT !.status = status])
          /\ \/ status = issues[k].status
             \/ status = "READY" /\ issues[run.root].plan.deps[run.node] = {}
    BY <1>4 DEF Release
  <2>2. Len(issues') = Len(issues)
        /\ issues'[j] = IF j = k THEN [issues[k] EXCEPT !.status = status] ELSE issues[j]
    BY <1>4, <2>1, Released, Others
  <2>3. issues[k] \in IssueType
    BY <1>4, Released
  <2>4. CASE j # k
    BY <1>1, <2>2, <2>4, SameIssue
  <2>5. CASE j = k
    <3>1. issues'[j] = [issues[j] EXCEPT !.status = status] /\ issues[j] \in IssueType
      BY <2>2, <2>3, <2>5
    <3>2. /\ Lasts(issues[j], issues'[j]) /\ issues'[j].closed = issues[j].closed
          /\ issues'[j].edges = issues[j].edges /\ issues'[j].nodes = issues[j].nodes
          /\ issues'[j].complete = issues[j].complete /\ issues'[j].closing = issues[j].closing
          /\ issues'[j].status = status
      BY <3>1 DEF Lasts, IssueType
    <3> QED BY <1>1, <1>4, <2>1, <2>2, <2>5, <3>2 DEF RunWrites
  <2> QED BY <2>4, <2>5
<1>5. CASE CreateRoot \/ Create \/ CreateTorn \/ Land
  <2>1. \E e : issues' = Append(issues, e)
    BY <1>5 DEF CreateRoot, Create, CreateTorn, Land
  <2> QED BY <1>3, <2>1
<1>6. CASE Start \/ Locate \/ LocateRaises \/ RepairRaises \/ Verify \/ Reread \/ Stop \/ CreateLate
  BY <1>2, <1>6
  DEF Start, Locate, LocateRaises, RepairRaises, Verify, Reread, Stop, CreateLate
<1> QED
  BY <1>4, <1>5, <1>6, RootWritten, NodeWritten DEF RunSteps, Failures

(***************************************************************************)
(* The broker and people.                                                  *)
(***************************************************************************)
\* What has its place, and what is entitled to be worked on, stays so.
LEMMA Stays ==
  ASSUME IInv, Len(issues) <= Len(issues'), Len(issues') \in Nat,
         \A j \in Numbers : Lasts(issues[j], issues'[j]),
         NEW i \in Numbers, issues[i].mark # 0
  PROVE  /\ i \in Ids(issues') /\ issues'[i].mark # 0
         /\ issues[i].body.root \in Numbers /\ issues[i].mark \in Nodes
         /\ Entitled(issues, i) => Entitled(issues', i)
<1>1. Len(issues) \in Nat /\ Numbers = Ids(issues) /\ i \in Ids(issues') /\ i # 0
  BY Parts DEF Ids
<1>2. issues[i].body.root \in Numbers /\ issues[i].mark \in Nodes
  <2>1. issues[i].mark \in {-1} \union 0 .. N /\ issues[i].mark # -1
    BY <1>1, Parts, Element, Fields DEF Store, Rooted
  <2> QED BY <1>1, <2>1, Parts, BootstrapConstants DEF Store, Rooted, Nodes
<1>3. /\ Lasts(issues[i], issues'[i])
      /\ Lasts(issues[issues[i].body.root], issues'[issues[i].body.root])
  BY <1>2
<1>4. issues'[i].mark = issues[i].mark /\ issues'[i].body.root = issues[i].body.root
  BY <1>3 DEF Lasts
<1>5. ASSUME Entitled(issues, i) PROVE Entitled(issues', i)
  <2> DEFINE r == issues[i].body.root
  <2>1. issues[r].complete /\ issues[r].nodes[issues[i].mark] = i
    BY <1>5 DEF Entitled
  <2>2. issues'[r].complete /\ issues'[r].nodes[issues[i].mark] = i
    BY <1>1, <1>2, <1>3, <2>1 DEF Lasts
  <2> QED BY <1>4, <2>2 DEF Entitled
<1> QED
  BY <1>1, <1>2, <1>4, <1>5

LEMMA ChosenStays ==
  ASSUME IInv, Chosen(issues, touched, broker), broker' = broker, Len(touched) <= Len(touched'),
         Len(touched') \in Nat, Len(issues) <= Len(issues'), Len(issues') \in Nat,
         \A j \in Numbers : Lasts(issues[j], issues'[j])
  PROVE  Chosen(issues', touched', broker')
<1>1. broker.since \in Nat /\ Len(touched) \in Nat
  BY DEF IInv, Typed, BrokerType
<1>2. ASSUME broker.pc # "idle"
      PROVE  /\ broker.issue \in Ids(issues') /\ issues'[broker.issue].mark # 0
             /\ Entitled(issues, broker.issue) => Entitled(issues', broker.issue)
  BY <1>2, Stays, Parts DEF Chosen
<1> QED
  BY <1>1, <1>2 DEF Chosen

LEMMA NoActionType == NoAction \in BrokerType
  BY DEF NoAction, BrokerType

\* A step that has no item at hand afterwards.
LEMMA LetGo ==
  ASSUME broker' = NoAction, Len(touched') \in Nat
  PROVE  Gate'
<1>1. broker'.since = 0 /\ broker'.pc = "idle" /\ broker'.issue = 0
  BY DEF NoAction
<1> QED
  BY <1>1 DEF Gate, Chosen, Gated

\* The broker reads: nothing but its own state changes.
LEMMA ReadKeeps ==
  ASSUME IInv, UNCHANGED <<issues, run, late, touched>>, broker' \in BrokerType, faults' \in Nat,
         Trouble' <= MaxTrouble
  PROVE  IInv'
<1>1. Hands' = Hands
  BY DEF Hands
<1> QED
  BY <1>1 DEF IInv, Typed

\* ensure_dependencies has read the edges, and all they lead to is closed.
LEMMA ScopeKeeps ==
  ASSUME IInv, Gate, ReadScope
  PROVE  broker' \in BrokerType /\ Gate'
<1>1. /\ broker \in BrokerType /\ touched' = touched /\ issues' = issues /\ run' = run
      /\ Len(touched) \in Nat /\ broker.pc = "scope"
  BY DEF IInv, Typed, ReadScope, Reads
<1>2. CASE broker' = NoAction
  BY <1>1, <1>2, NoActionType, LetGo
<1>3. CASE Scoped(broker.issue) /\ broker' = [broker EXCEPT !.pc = "issue", !.since = Len(touched)]
  <2>1. /\ broker' \in BrokerType /\ broker'.pc = "issue" /\ broker'.issue = broker.issue
        /\ broker'.from = broker.from /\ broker'.since = Len(touched)
    BY <1>1, <1>3 DEF BrokerType
  <2>2. Cleared(issues, broker.issue)
    BY <1>3 DEF Scoped, Cleared
  <2>3. Gated(issues', run', broker')
    BY <1>1, <2>1, <2>2 DEF Gated, Guarded
  <2>4. Chosen(issues', touched', broker')
    BY <1>1, <2>1 DEF Gate, Chosen
  <2> QED BY <2>1, <2>3, <2>4 DEF Gate
<1> QED
  BY <1>2, <1>3 DEF ReadScope, Reads

LEMMA IssueKeeps ==
  ASSUME IInv, Gate, ReadIssue
  PROVE  broker' \in BrokerType /\ Gate'
<1>1. /\ broker \in BrokerType /\ touched' = touched /\ issues' = issues /\ run' = run
      /\ Len(touched) \in Nat /\ broker.pc = "issue"
  BY DEF IInv, Typed, ReadIssue, Reads
<1>2. CASE broker' = NoAction
  BY <1>1, <1>2, NoActionType, LetGo
<1>3. CASE broker' = [broker EXCEPT !.pc = "root"]
  <2>1. /\ broker' \in BrokerType /\ broker'.pc = "root" /\ broker'.issue = broker.issue
        /\ broker'.from = broker.from /\ broker'.since = broker.since
    BY <1>1, <1>3 DEF BrokerType
  <2>2. Chosen(issues', touched', broker')
    BY <1>1, <2>1 DEF Gate, Chosen
  <2>3. Gated(issues, run, broker) => Gated(issues', run', broker')
    BY <1>1, <2>1 DEF Gated
  <2> QED BY <1>1, <2>1, <2>2, <2>3 DEF Gate
<1> QED
  BY <1>2, <1>3 DEF ReadIssue, Reads

\* What check_dispatch lets through is the bound issue of a published plan.
LEMMA IdentityEntitles ==
  ASSUME IInv, NEW i \in Numbers, Identified(i)
  PROVE  Entitled(issues, i) /\ Published(issues[i].body.root)
  BY DEF Identified, Published, Entitled, Bound

LEMMA RootKeeps ==
  ASSUME IInv, Gate, ReadRoot
  PROVE  broker' \in BrokerType /\ Gate'
<1>1. /\ broker \in BrokerType /\ touched' = touched /\ issues' = issues /\ run' = run
      /\ Len(touched) \in Nat /\ broker.pc = "root" /\ broker.issue \in Numbers
  BY Parts DEF IInv, Typed, ReadRoot, Reads, Gate, Chosen
<1>2. CASE broker' = NoAction
  BY <1>1, <1>2, NoActionType, LetGo
<1>3. CASE Identified(broker.issue) /\ broker' = [broker EXCEPT !.pc = "relations"]
  <2>1. /\ broker' \in BrokerType /\ broker'.pc = "relations" /\ broker'.issue = broker.issue
        /\ broker'.from = broker.from /\ broker'.since = broker.since
    BY <1>1, <1>3 DEF BrokerType
  <2>2. /\ Entitled(issues, broker.issue)
        /\ issues[issues[broker.issue].body.root].complete
        /\ issues[issues[broker.issue].body.root].closing
    BY <1>1, <1>3, IdentityEntitles DEF Published
  <2>3. Chosen(issues', touched', broker')
    BY <1>1, <2>1, <2>2 DEF Gate, Chosen
  <2>4. Gated(issues, run, broker) => Gated(issues', run', broker')
    BY <1>1, <2>1, <2>2 DEF Gated
  <2> QED BY <1>1, <2>1, <2>3, <2>4 DEF Gate
<1> QED
  BY <1>2, <1>3 DEF ReadRoot, Reads

LEMMA RelationsKeep ==
  ASSUME IInv, Gate, ReadRelations
  PROVE  broker' \in BrokerType /\ Gate'
<1> DEFINE i == broker.issue
<1>1. /\ broker \in BrokerType /\ touched' = touched /\ issues' = issues /\ run' = run
      /\ Len(touched) \in Nat /\ broker.pc = "relations" /\ i \in Numbers
  BY Parts DEF IInv, Typed, ReadRelations, Reads, Gate, Chosen
<1>2. CASE broker' = NoAction
  BY <1>1, <1>2, NoActionType, LetGo
<1>3. CASE /\ Related(i, issues[i].body.root, issues[i].mark)
           /\ broker' = [broker EXCEPT !.pc = "write"]
  <2>1. /\ broker' \in BrokerType /\ broker'.pc = "write" /\ broker'.issue = i
        /\ broker'.from = broker.from /\ broker'.since = broker.since
    BY <1>1, <1>3 DEF BrokerType
  <2>2. issues[i].edges = DepsIn(issues, issues[i].body.root, issues[i].mark)
    BY <1>3, InTerms DEF Related
  <2>3. Chosen(issues', touched', broker')
    BY <1>1, <2>1 DEF Gate, Chosen
  <2>4. Gated(issues, run, broker) => Gated(issues', run', broker')
    BY <1>1, <2>1, <2>2 DEF Gated
  <2> QED BY <1>1, <2>1, <2>3, <2>4 DEF Gate
<1> QED
  BY <1>2, <1>3 DEF ReadRelations, Reads

LEMMA OfferKeeps ==
  ASSUME IInv, Gate, NEW i \in Numbers, Offer(i)
  PROVE  broker' \in BrokerType /\ Gate'
<1>1. /\ issues[i] \in IssueType /\ issues[i].mark # 0 /\ issues[i].status \in {"BLOCKED", "READY"}
      /\ i \in Nat /\ i \in Ids(issues) /\ issues' = issues /\ touched' = touched
      /\ Len(touched) \in Nat
  BY Parts, Element DEF Offer, IInv, Typed
<1>2. issues[i].text \in {"planned", "changed", "unmarked"}
  BY <1>1, Fields
<1>3. /\ broker' \in BrokerType /\ broker'.pc = "scope" /\ broker'.issue = i /\ broker'.since = 0
  BY <1>1, <1>2 DEF Offer, NoAction, BrokerType
<1> QED
  BY <1>1, <1>3 DEF Gate, Chosen, Gated

\* Dispatch and unlock_dependency write what they are entitled to.
LEMMA WriteKeeps ==
  ASSUME IInv, Gate, NEW from, NEW to \in {"READY", "STARTED"}, Writes(from, to)
  PROVE  IInv' /\ Gate'
<1>1. /\ broker.pc = "write" /\ broker.issue \in Numbers /\ Entitled(issues, broker.issue)
      /\ broker' = NoAction /\ UNCHANGED <<run, late, faults, touched>> /\ Len(touched') \in Nat
      /\ issues' = [issues EXCEPT ![broker.issue] = [issues[broker.issue] EXCEPT !.status = to]]
  BY Parts DEF Writes, Update, Gate, Chosen, IInv, Typed
<1>2. /\ issues' \in Seq(IssueType) /\ Hands' = Hands /\ Store(issues', Hands', late')
      /\ Process(issues', Hands', run)
  BY <1>1, StatusKeeps DEF Status
<1> QED
  BY <1>1, <1>2, NoActionType, LetGo DEF IInv, Typed, Trouble

\* The merge closes the issue.
LEMMA ClosesKeep ==
  ASSUME IInv, Gate, NEW i \in Numbers, NEW from \in {"STARTED", "MERGED"},
         NEW to \in {"MERGED", "DONE"}, Closes(i, from, to)
  PROVE  IInv' /\ Gate'
<1> DEFINE e == [issues[i] EXCEPT !.status = to, !.closed = TRUE]
<1>1. /\ issues \in Seq(IssueType) /\ issues[i] \in IssueType /\ Numbers = Ids(issues)
      /\ run \in RunType /\ Len(issues) \in Nat /\ Len(touched) \in Nat
  BY Parts, Element DEF IInv, Typed
<1>2. /\ issues[i].status = from /\ issues' = [issues EXCEPT ![i] = e]
      /\ UNCHANGED <<run, broker, late, faults, touched>>
  BY DEF Closes, Update, World
<1>3. /\ e \in IssueType /\ e.mark = issues[i].mark /\ e.body = issues[i].body
      /\ e.text = issues[i].text /\ e.parent = issues[i].parent /\ e.edges = issues[i].edges
      /\ e.status = to /\ e.closed /\ e.routed = issues[i].routed /\ e.plan = issues[i].plan
      /\ e.nodes = issues[i].nodes /\ e.complete = issues[i].complete
      /\ e.closing = issues[i].closing
  BY <1>1 DEF IssueType, Status
<1> HIDE DEF e
<1>4. Hands' = Hands /\ late' = late
  BY <1>2 DEF Hands
<1>5. /\ issues' \in Seq(IssueType) /\ Len(issues') = Len(issues)
      /\ Store(issues', Hands', late') /\ Process(issues', Hands', run)
  <2>1. Keeps(issues, e, i, Hands')
    BY <1>3 DEF Keeps, Steady
  <2>2. Working(issues[i])
    BY <1>2 DEF Working
  <2> QED BY <1>2, <1>3, <1>4, <2>1, <2>2, EditKeeps
<1>6. IInv'
  BY <1>2, <1>5 DEF IInv, Typed, Trouble
<1>7. ASSUME NEW j \in Numbers
      PROVE  /\ issues'[j].mark = issues[j].mark /\ issues'[j].body = issues[j].body
             /\ issues'[j].plan = issues[j].plan /\ issues'[j].nodes = issues[j].nodes
             /\ issues'[j].edges = issues[j].edges /\ issues'[j].complete = issues[j].complete
             /\ issues'[j].closing = issues[j].closing /\ (issues[j].closed => issues'[j].closed)
             /\ issues'[j].status = "READY" => issues[j].status = "READY"
  <2>1. issues'[j] = IF j = i THEN e ELSE issues[j]
    BY <1>1, <1>2 DEF Ids
  <2> QED BY <1>3, <2>1
<1>8. Chosen(issues', touched', broker')
  <2>1. \A j \in Numbers : Lasts(issues[j], issues'[j])
    BY <1>7 DEF Lasts
  <2> QED BY <1>1, <1>2, <1>5, <2>1, ChosenStays DEF Gate
<1>9. ASSUME Gated(issues, run, broker), broker.pc \in {"issue", "root", "relations", "write"}
      PROVE  Gated(issues', run', broker')
  <2> DEFINE k == broker.issue
             r == issues[k].body.root
             n == issues[k].mark
  <2>1. k \in Numbers /\ r \in Numbers /\ Ids(issues') = Ids(issues)
    BY <1>1, <1>5, <1>9, Parts DEF Gate, Chosen, Store, Rooted, Ids
  <2>2. issues'[k].body.root = r /\ issues'[k].mark = n
    BY <1>7, <2>1
  <2>3. \A d : BoundIn(issues', r, d) = BoundIn(issues, r, d)
    BY <1>7, <2>1 DEF BoundIn
  <2>4. DepsIn(issues', r, n) = DepsIn(issues, r, n)
    <3>1. issues'[r].plan = issues[r].plan
      BY <1>7, <2>1
    <3> QED BY <2>3, <3>1 DEF DepsIn
  <2>5. Cleared(issues, k) => Cleared(issues', k)
    <3> SUFFICES ASSUME Cleared(issues, k), NEW d \in issues[r].plan.deps[n],
                        BoundIn(issues, r, d) \in issues[k].edges \intersect Ids(issues)
                 PROVE  issues'[BoundIn(issues, r, d)].closed
      <4>1. issues'[r].plan = issues[r].plan /\ issues'[k].edges = issues[k].edges
        BY <1>7, <2>1
      <4> QED BY <2>1, <2>2, <2>3, <4>1 DEF Cleared
    <3>1. issues[BoundIn(issues, r, d)].closed
      BY DEF Cleared
    <3> QED BY <1>1, <1>7, <3>1
  <2>6. Guarded(issues, run, k) => Guarded(issues', run, k)
    <3>1. /\ issues'[k].status = "READY" => issues[k].status = "READY"
          /\ issues'[r].complete = issues[r].complete /\ issues'[r].closing = issues[r].closing
          /\ issues'[r].nodes = issues[r].nodes
      BY <1>7, <2>1
    <3> QED BY <2>2, <2>5, <3>1 DEF Guarded
  <2> QED BY <1>2, <1>7, <1>9, <2>1, <2>2, <2>4, <2>6 DEF Gated
<1>10. Gated(issues, run, broker) => Gated(issues', run', broker')
  BY <1>2, <1>9 DEF Gated
<1> QED
  BY <1>2, <1>6, <1>8, <1>10 DEF Gate

LEMMA BrokerKeeps ==
  ASSUME IInv, Gate, BrokerSteps \/ BrokerStops
  PROVE  IInv' /\ Gate'
<1>1. /\ faults \in Nat /\ Trouble <= MaxTrouble /\ MaxTrouble \in Nat /\ Len(touched) \in Nat
  BY BootstrapConstants DEF IInv, Typed
<1>2. CASE ReadScope \/ ReadIssue \/ ReadRoot \/ ReadRelations
  <2>1. UNCHANGED <<issues, run, late, faults, touched>>
    BY <1>2 DEF ReadScope, ReadIssue, ReadRoot, ReadRelations, Reads
  <2>2. broker' \in BrokerType /\ Gate'
    BY <1>2, ScopeKeeps, IssueKeeps, RootKeeps, RelationsKeep
  <2> QED BY <1>1, <2>1, <2>2, ReadKeeps DEF Trouble
<1>3. ASSUME NEW i \in Numbers, Offer(i) PROVE IInv' /\ Gate'
  <2>1. UNCHANGED <<issues, run, late, faults, touched>>
    BY <1>3 DEF Offer
  <2> QED BY <1>1, <1>3, <2>1, OfferKeeps, ReadKeeps DEF Trouble
<1>4. CASE Unlock \/ Dispatch
  BY <1>4, WriteKeeps DEF Unlock, Dispatch
<1>5. CASE Stale
  <2>1. UNCHANGED <<issues, run, late, faults, touched>> /\ broker' = NoAction
    BY <1>5 DEF Stale, Reads
  <2> QED BY <1>1, <2>1, ReadKeeps, NoActionType, LetGo DEF Trouble
<1>6. ASSUME NEW i \in Numbers, Merge(i) \/ Finalize(i) PROVE IInv' /\ Gate'
  BY <1>6, ClosesKeep DEF Merge, Finalize
<1>7. CASE BrokerStops
  <2>1. UNCHANGED <<issues, run, late, touched>> /\ broker' = NoAction /\ faults' \in Nat
        /\ Trouble' <= MaxTrouble
    BY <1>1, <1>7 DEF BrokerStops, Trouble
  <2> QED BY <1>1, <2>1, ReadKeeps, NoActionType, LetGo
<1> QED
  BY <1>2, <1>3, <1>4, <1>5, <1>6, <1>7 DEF BrokerSteps

\* What people write leaves the rest of an issue as it is.
Harmless(o, e) ==
  /\ e \in IssueType /\ e.mark = o.mark /\ e.body = o.body /\ e.plan = o.plan
  /\ e.nodes = o.nodes /\ e.complete = o.complete /\ e.routed = o.routed
  /\ e.closing => o.closing
  /\ e.status = o.status \/ e.status \in {"BACKLOG", "BLOCKED", "READY"}

LEMMA HandEdits ==
  ASSUME IInv, People
  PROVE  \E i \in Numbers : \E e : ByHand(i, e) /\ Harmless(issues[i], e)
<1> DEFINE Texts(i, e) ==
             \E text \in {"planned", "changed", "unmarked"} : e = [issues[i] EXCEPT !.text = text]
           Parents(i, e) == \E j \in {0} \union Numbers : e = [issues[i] EXCEPT !.parent = j]
           Cuts(i, e) == \E j \in Numbers : e = [issues[i] EXCEPT !.edges = @ \ {j}]
           Ties(i, e) == \E j \in Numbers : e = [issues[i] EXCEPT !.edges = @ \union {j}]
           Breaks(i, e) == issues[i].closing /\ e = [issues[i] EXCEPT !.closing = FALSE]
           Shuts(i, e) == e = [issues[i] EXCEPT !.closed = ~@]
           Drags(i, e) == \E status \in {"BACKLOG", "BLOCKED", "READY"} :
                            e = [issues[i] EXCEPT !.status = status]
           Edits(i, e) == \/ Texts(i, e) \/ Parents(i, e) \/ Cuts(i, e) \/ Ties(i, e)
                          \/ Breaks(i, e) \/ Shuts(i, e) \/ Drags(i, e)
<1>1. PICK i, e : i \in Numbers /\ ByHand(i, e) /\ Edits(i, e)
  <2>1. PICK i \in Numbers :
          \/ issues[i].closing /\ ByHand(i, [issues[i] EXCEPT !.closing = FALSE])
          \/ \E text \in {"planned", "changed", "unmarked"} :
               ByHand(i, [issues[i] EXCEPT !.text = text])
          \/ \E j \in {0} \union Numbers : ByHand(i, [issues[i] EXCEPT !.parent = j])
          \/ \E j \in Numbers : ByHand(i, [issues[i] EXCEPT !.edges = @ \ {j}])
          \/ \E j \in Numbers : ByHand(i, [issues[i] EXCEPT !.edges = @ \union {j}])
          \/ ByHand(i, [issues[i] EXCEPT !.closed = ~@])
          \/ \E status \in {"BACKLOG", "BLOCKED", "READY"} :
               ByHand(i, [issues[i] EXCEPT !.status = status])
    BY Zenon DEF People
  <2>2. CASE issues[i].closing /\ ByHand(i, [issues[i] EXCEPT !.closing = FALSE])
    BY <2>2
  <2>3. CASE ByHand(i, [issues[i] EXCEPT !.closed = ~@])
    BY <2>3
  <2>4. ASSUME NEW text \in {"planned", "changed", "unmarked"},
               ByHand(i, [issues[i] EXCEPT !.text = text])
        PROVE  \E e : ByHand(i, e) /\ Texts(i, e)
    BY <2>4
  <2>5. ASSUME NEW j \in {0} \union Numbers, ByHand(i, [issues[i] EXCEPT !.parent = j])
        PROVE  \E e : ByHand(i, e) /\ Parents(i, e)
    BY <2>5
  <2>6. ASSUME NEW j \in Numbers, ByHand(i, [issues[i] EXCEPT !.edges = @ \ {j}])
        PROVE  \E e : ByHand(i, e) /\ Cuts(i, e)
    BY <2>6
  <2>7. ASSUME NEW j \in Numbers, ByHand(i, [issues[i] EXCEPT !.edges = @ \union {j}])
        PROVE  \E e : ByHand(i, e) /\ Ties(i, e)
    BY <2>7
  <2>8. ASSUME NEW status \in {"BACKLOG", "BLOCKED", "READY"},
               ByHand(i, [issues[i] EXCEPT !.status = status])
        PROVE  \E e : ByHand(i, e) /\ Drags(i, e)
    BY <2>8
  <2> HIDE DEF Texts, Parents, Cuts, Ties, Drags
  <2>9. \E e : ByHand(i, e) /\ Edits(i, e)
    BY <2>1, <2>2, <2>3, <2>4, <2>5, <2>6, <2>7, <2>8
  <2> QED BY <2>9
<1>2. /\ issues[i] \in IssueType /\ issues[i].edges \in SUBSET Nat /\ Numbers \subseteq Nat
      /\ issues[i].closed \in BOOLEAN
  BY <1>1, Parts, Element, Fields DEF Numbers
<1>3. ASSUME NEW text \in {"planned", "changed", "unmarked"}, e = [issues[i] EXCEPT !.text = text]
      PROVE  Harmless(issues[i], e)
  BY <1>2, <1>3 DEF IssueType, Harmless
<1>4. ASSUME NEW j \in {0} \union Numbers, e = [issues[i] EXCEPT !.parent = j]
      PROVE  Harmless(issues[i], e)
  BY <1>2, <1>4 DEF IssueType, Harmless
<1>5. ASSUME NEW edges \in SUBSET Nat, e = [issues[i] EXCEPT !.edges = edges]
      PROVE  Harmless(issues[i], e)
  BY <1>2, <1>5 DEF IssueType, Harmless
<1>6. ASSUME issues[i].closing, e = [issues[i] EXCEPT !.closing = FALSE]
      PROVE  Harmless(issues[i], e)
  BY <1>2, <1>6 DEF IssueType, Harmless
<1>7. ASSUME NEW status \in {"BACKLOG", "BLOCKED", "READY"},
             e = [issues[i] EXCEPT !.status = status]
      PROVE  Harmless(issues[i], e)
  BY <1>2, <1>7 DEF IssueType, Status, Harmless
<1>8. ASSUME NEW closed \in BOOLEAN, e = [issues[i] EXCEPT !.closed = closed]
      PROVE  Harmless(issues[i], e)
  BY <1>2, <1>8 DEF IssueType, Harmless
<1>9. ASSUME NEW j \in Numbers,
             \/ e = [issues[i] EXCEPT !.edges = @ \ {j}]
             \/ e = [issues[i] EXCEPT !.edges = @ \union {j}]
      PROVE  \E edges \in SUBSET Nat : e = [issues[i] EXCEPT !.edges = edges]
  BY <1>2, <1>9
<1>10. e = [issues[i] EXCEPT !.closed = ~@] =>
         \E closed \in BOOLEAN : e = [issues[i] EXCEPT !.closed = closed]
  BY <1>2
<1>11. Harmless(issues[i], e)
  BY <1>1, <1>3, <1>4, <1>5, <1>6, <1>7, <1>8, <1>9, <1>10
<1> QED
  BY <1>1, <1>11

\* After a change by hand, what the broker has read is out of date.
LEMMA PeopleKeep ==
  ASSUME IInv, Gate, People
  PROVE  IInv' /\ Gate'
<1>1. PICK i, e : i \in Numbers /\ ByHand(i, e) /\ Harmless(issues[i], e)
  BY HandEdits
<1>2. /\ touched \in Seq(Nat) /\ i \in Nat /\ run \in RunType /\ MaxTrouble \in Nat
      /\ faults \in Nat /\ broker \in BrokerType /\ issues \in Seq(IssueType)
      /\ issues' = [issues EXCEPT ![i] = e] /\ UNCHANGED <<run, broker, late, faults>>
      /\ touched' = Append(touched, i) /\ Trouble < MaxTrouble
  BY <1>1, Parts, BootstrapConstants DEF IInv, Typed, ByHand, Update, Numbers
<1>3. /\ touched' \in Seq(Nat) /\ Len(touched') = Len(touched) + 1 /\ Len(touched) \in Nat
      /\ Trouble' <= MaxTrouble
  BY <1>2 DEF Trouble
<1>4. Hands \subseteq Hands' /\ i \in Hands'
  <2>1. /\ DOMAIN touched \subseteq DOMAIN touched' /\ Len(touched') \in DOMAIN touched'
        /\ touched'[Len(touched')] = i /\ \A j \in DOMAIN touched : touched'[j] = touched[j]
    BY <1>2
  <2> QED BY <2>1 DEF Hands, ToSet
<1>5. Keeps(issues, e, i, Hands') /\ (Working(e) => Working(issues[i]))
  BY <1>1, <1>4 DEF Keeps, Steady, Harmless, Working
<1>6. /\ issues' \in Seq(IssueType) /\ Len(issues') = Len(issues)
      /\ Store(issues', Hands', late') /\ Process(issues', Hands', run)
  BY <1>1, <1>2, <1>4, <1>5, EditKeeps DEF Harmless
<1>7. IInv'
  BY <1>2, <1>3, <1>6 DEF IInv, Typed
<1>8. Chosen(issues', touched', broker')
  <2>1. ASSUME NEW j \in Numbers PROVE Lasts(issues[j], issues'[j])
    <3>1. issues'[j] = IF j = i THEN e ELSE issues[j]
      BY <1>1, Others DEF ByHand
    <3> QED BY <1>1, <3>1 DEF Lasts, Harmless
  <2>2. Len(issues) \in Nat
    BY Parts
  <2> QED BY <1>2, <1>3, <1>6, <2>1, <2>2, ChosenStays DEF Gate
<1>9. broker'.since # Len(touched')
  BY <1>2, <1>3 DEF Gate, Chosen, BrokerType
<1> QED
  BY <1>7, <1>8, <1>9 DEF Gate

(***************************************************************************)
(* A run, while the broker is between two readings.                        *)
(***************************************************************************)
\* Nothing is written by a run once the plan is published.
LEMMA PublishedRests ==
  ASSUME IInv, NEW r \in Numbers, Published(r), Start \/ RunSteps \/ Failures
  PROVE  Land
<1>1. run.pc = "idle"
  BY Parts DEF Process, OnRoot, Published
<1>2. r \in Roots
  BY Parts DEF Store, Rooted, Published, Roots
<1>3. ~Start
  BY <1>2 DEF Start
<1>4. ~RunSteps /\ ~Stop /\ ~CreateTorn /\ ~CreateLate
  BY <1>1
  DEF RunSteps, At, CreateRoot, RootItem, Locate, LocateRaises, Create, Repair, RepairRaises,
      Attach, Bind, Item, Describe, Verify, Reread, Release, Complete, Stop, CreateTorn, CreateLate,
      BreaksOff
<1> QED
  BY <1>3, <1>4 DEF Failures

\* The run passes a node as it writes the status of the node's issue.
LEMMA Passes ==
  ASSUME IInv, Start \/ RunSteps \/ Failures, NEW r \in Numbers, NEW n \in Nodes,
         Passed(run', r, n)
  PROVE  Passed(run, r, n) \/ (Item /\ r = run.root /\ n = run.node)
<1>1. run \in RunType /\ n \in Nat /\ n <= N /\ n >= 1 /\ N \in Nat /\ run.node \in Nat
  BY Parts, BootstrapConstants DEF Nodes, RunType
<1>2. ASSUME run' = NoRun PROVE FALSE
  BY <1>2 DEF Passed, NoRun, Loop, Held, Ending
<1>3. CASE run' = run
  BY <1>3
<1>4. CASE Start \/ CreateRoot
  <2>1. run'.pc \in {"create_root", "root_item"}
    BY <1>1, <1>4 DEF Start, CreateRoot, NoRun, RunType
  <2> QED BY <2>1 DEF Passed, Loop, Held, Ending
<1>5. CASE RootItem
  <2>1. run'.node = 1 /\ run'.pc = "locate"
    BY <1>1, <1>5, Parts DEF RootItem, At, Goto, RunType, Process, OnRoot
  <2> QED BY <1>1, <2>1 DEF Passed, Ending
<1>6. CASE (Locate \/ Create \/ Repair \/ Attach \/ Bind) /\ run' # NoRun
  <2>1. run.pc \in Loop /\ run'.root = run.root /\ run'.node = run.node
        /\ run'.pc \in {"create", "repair", "bind", "item"}
    BY <1>1, <1>6 DEF Locate, Create, Repair, Attach, Bind, At, Goto, RunType, Loop, Held
  <2> QED BY <2>1 DEF Passed, Ending
<1>7. CASE Item
  <2>1. run.pc = "item" /\ run'.root = run.root /\ run'.node = run.node /\ run'.pc = "describe"
    BY <1>1, <1>7 DEF Item, At, Goto, RunType
  <2> QED BY <1>7, <2>1 DEF Passed, Loop, Held, Ending
<1>8. CASE Describe
  <2>1. run.pc = "describe" /\ run'.root = run.root /\ run'.node = run.node /\ run'.pc = "verify"
    BY <1>1, <1>8 DEF Describe, At, Goto, RunType
  <2> QED BY <2>1 DEF Passed, Loop, Held, Ending
<1>9. CASE Verify /\ run' # NoRun
  <2>1. /\ run.pc = "verify" /\ run'.root = run.root
        /\ run.node < N => run'.pc = "locate" /\ run'.node = run.node + 1
    BY <1>1, <1>9 DEF Verify, At, Onward, End, RunType
  <2>2. CASE run.node < N
    BY <1>1, <2>1, <2>2 DEF Passed, Loop, Held, Ending
  <2>3. CASE ~(run.node < N)
    BY <1>1, <2>1, <2>3 DEF Passed, Loop, Held
  <2> QED BY <2>2, <2>3
<1>10. CASE (Reread \/ Release) /\ run' # NoRun
  <2>1. run.pc \in Ending /\ run'.root = run.root
    BY <1>1, <1>10 DEF Reread, Release, At, Onward, End, RunType, Ending
  <2> QED BY <2>1 DEF Passed
<1> QED
  BY <1>2, <1>3, <1>4, <1>5, <1>6, <1>7, <1>8, <1>9, <1>10
  DEF RunSteps, Failures, LocateRaises, RepairRaises, Complete, Stop, CreateTorn, CreateLate, Land,
      BreaksOff, End

\* The edges of an issue change, or the binding of one of its dependencies:
\* neither its plan is published nor has the run been past its node.
LEMMA GuardedStays ==
  ASSUME IInv, Start \/ RunSteps \/ Failures, NEW i \in Numbers, issues[i].mark # 0,
         Guarded(issues, run, i)
  PROVE  Guarded(issues', run', i)
<1> DEFINE r == issues[i].body.root
           n == issues[i].mark
<1>1. /\ issues \in Seq(IssueType) /\ Numbers = Ids(issues) /\ Len(issues) \in Nat
      /\ Store(issues, Hands, late) /\ Process(issues, Hands, run) /\ i # 0
  BY Parts, Element
<1>2. r \in Numbers /\ n \in Nodes /\ issues[r].plan \in Plans
  <2>1. issues[i].mark \in {-1} \union 0 .. N /\ issues[i].mark # -1 /\ r \in Numbers
    BY <1>1, Element, Fields DEF Store, Rooted
  <2> QED BY <1>1, <2>1, Element, Fields, BootstrapConstants DEF Nodes
<1>3. RunWrites(i) /\ RunWrites(r)
  BY <1>2, RunStepWrites
<1>4. issues'[i].body.root = r /\ issues'[i].mark = n /\ issues'[r].plan = issues[r].plan
  BY <1>3 DEF RunWrites, Lasts
<1>5. issues[r].nodes[n] \notin {0, i} => issues'[r].nodes[n] \notin {0, i}
  BY <1>2, <1>3 DEF RunWrites, Lasts
<1>6. ASSUME issues[i].status # "READY" PROVE issues'[i].status # "READY" \/ Cleared(issues', i)
  <2>1. CASE Release /\ i = Bound(run.root, run.node) /\ issues[run.root].plan.deps[run.node] = {}
    <3>1. r = run.root /\ n = run.node
      BY <2>1, Released
    <3> QED BY <1>4, <2>1, <3>1 DEF Cleared
  <2>2. CASE ~(/\ Release /\ i = Bound(run.root, run.node)
               /\ issues[run.root].plan.deps[run.node] = {})
    BY <1>3, <1>6, <2>2 DEF RunWrites
  <2> QED BY <2>1, <2>2
<1>7. ASSUME ~(issues[r].complete /\ issues[r].closing)
      PROVE  (Complete /\ r = run.root) \/ ~(issues'[r].complete /\ issues'[r].closing)
  BY <1>3, <1>7 DEF RunWrites
<1>8. ASSUME ~(issues[r].complete /\ issues[r].closing), ~Passed(run, r, n)
      PROVE  Guarded(issues', run', i)
  <2>1. ~(issues'[r].complete /\ issues'[r].closing)
    <3>1. Complete => run.pc \in Ending
      BY DEF Complete, At, Ending
    <3> QED BY <1>7, <1>8, <3>1 DEF Passed
  <2>2. CASE ~Passed(run', r, n)
    BY <1>4, <2>1, <2>2 DEF Guarded
  <2>3. CASE Item /\ r = run.root /\ n = run.node
    <3>1. run.pc = "item" /\ run.issue = issues[r].nodes[n]
      BY <1>1, <2>3 DEF Item, At, Process, AtHand
    <3>2. CASE run.issue # i
      <4>1. run.issue # 0
        BY <1>1, <3>1, InHand, Element DEF Held
      <4> QED BY <1>4, <1>5, <3>1, <3>2, <4>1 DEF Guarded
    <3>3. CASE run.issue = i
      <4>1. PICK status \in {"BACKLOG", "BLOCKED"} :
              Update(i, [issues[i] EXCEPT !.status = status])
        BY <2>3, <3>3 DEF Item
      <4>2. issues[i] \in IssueType /\ issues'[i] = [issues[i] EXCEPT !.status = status]
        BY <1>1, <4>1, Element, Others
      <4>3. issues'[i].status # "READY"
        BY <4>1, <4>2 DEF IssueType
      <4> QED BY <4>3 DEF Guarded
    <3> QED BY <3>2, <3>3
  <2> QED BY <1>2, <1>8, <2>2, <2>3, Passes
<1>9. Len(issues') \in Nat
  BY RunStepsKeep, FailuresKeep, Element DEF IInv, Typed
<1>10. ASSUME Cleared(issues, i) PROVE Guarded(issues', run', i)
  <2>1. CASE Attach /\ i = run.issue
    <3>1. /\ run.pc = "bind" /\ r = run.root /\ n = run.node
          /\ ~(issues[r].complete /\ issues[r].closing)
      BY <1>1, <2>1, InHand DEF Attach, At, Held, Process, OnRoot
    <3>2. ~Passed(run, r, n)
      BY <1>2, <3>1, BootstrapConstants DEF Passed, Loop, Held, Ending, Nodes
    <3> QED BY <1>8, <3>1, <3>2
  <2>2. CASE Bind /\ r = run.root /\ run.node \in issues[r].plan.deps[n]
    <3>1. run.pc = "bind" /\ ~(issues[r].complete /\ issues[r].closing)
      BY <1>1, <2>2 DEF Bind, At, Process, OnRoot
    <3>2. run.node < n /\ run.node \in Nodes
      BY <1>2, <2>2, PlanOrder
    <3>3. ~Passed(run, r, n)
      BY <1>2, <3>1, <3>2, BootstrapConstants DEF Passed, Loop, Held, Ending, Nodes
    <3> QED BY <1>8, <3>1, <3>3
  <2>3. CASE /\ ~(Attach /\ i = run.issue)
             /\ ~(Bind /\ r = run.root /\ run.node \in issues[r].plan.deps[n])
    <3>1. issues'[i].edges = issues[i].edges
      BY <1>3, <2>3 DEF RunWrites
    <3>2. ASSUME NEW d \in issues[r].plan.deps[n]
          PROVE  /\ d \in Nodes /\ d # 0 /\ issues'[r].nodes[d] = issues[r].nodes[d]
                 /\ issues[r].nodes[d] = 0 \/ issues[r].nodes[d] \in Numbers
      <4>1. d \in Nodes /\ d # 0
        BY <1>2, PlanOrder, BootstrapConstants DEF Nodes
      <4>2. issues'[r].nodes[d] = issues[r].nodes[d]
        BY <1>3, <2>3, <4>1 DEF RunWrites
      <4>3. issues[r].nodes[d] = 0 \/ issues[r].nodes[d] \in Numbers
        BY <1>1, <1>2, <4>1 DEF Store, Bindings, Binds
      <4> QED BY <4>1, <4>2, <4>3
    <3>3. ASSUME NEW d \in issues[r].plan.deps[n],
                 BoundIn(issues', r, d) \in issues'[i].edges \intersect Ids(issues')
          PROVE  issues'[BoundIn(issues', r, d)].closed
      <4>1. /\ BoundIn(issues', r, d) = issues[r].nodes[d]
            /\ BoundIn(issues, r, d) = issues[r].nodes[d]
        BY <3>2 DEF BoundIn
      <4>2. issues[r].nodes[d] \in Numbers
        <5>1. issues[r].nodes[d] \in Ids(issues')
          BY <3>3, <4>1
        <5>2. 0 \notin Ids(issues')
          BY <1>9 DEF Ids
        <5> QED BY <3>2, <5>1, <5>2
      <4>3. issues[issues[r].nodes[d]].closed
        BY <1>1, <1>10, <3>1, <3>3, <4>1, <4>2 DEF Cleared
      <4>4. RunWrites(issues[r].nodes[d])
        BY <4>2, RunStepWrites
      <4> QED BY <4>1, <4>3, <4>4 DEF RunWrites
    <3>4. Cleared(issues', i)
      BY <1>4, <3>3 DEF Cleared
    <3> QED BY <3>4 DEF Guarded
  <2> QED BY <2>1, <2>2, <2>3
<1> QED
  BY <1>4, <1>5, <1>6, <1>8, <1>10 DEF Guarded

LEMMA RunGated ==
  ASSUME IInv, Gate, Start \/ RunSteps \/ Failures, broker' = broker,
         Gated(issues, run, broker)
  PROVE  Gated(issues', run', broker')
<1> DEFINE i == broker.issue
           r == issues[i].body.root
<1> SUFFICES ASSUME broker.pc \in {"issue", "root", "relations", "write"}
             PROVE  Gated(issues', run', broker')
  BY DEF Gated
<1>1. i \in Numbers /\ issues[i].mark # 0 /\ r \in Numbers /\ Numbers = Ids(issues)
  BY Parts DEF Gate, Chosen, Store, Rooted
<1>2. RunWrites(i) /\ RunWrites(r)
  BY <1>1, RunStepWrites
<1>3. issues'[i].body.root = r /\ issues'[i].mark = issues[i].mark
  BY <1>2 DEF RunWrites, Lasts
<1>4. Guarded(issues, run, i) => Guarded(issues', run', i)
  BY <1>1, GuardedStays
<1>5. ASSUME broker.pc \in {"relations", "write"}
      PROVE  /\ issues'[r] = issues[r] /\ issues'[i] = issues[i]
             /\ issues[r].complete /\ issues[r].closing
             /\ DepsIn(issues', r, issues[i].mark) = DepsIn(issues, r, issues[i].mark)
  <2>1. issues[r].complete /\ issues[r].closing
    BY <1>5 DEF Gated
  <2>2. Land
    BY <1>1, <2>1, PublishedRests DEF Published
  <2>3. issues'[r] = issues[r] /\ issues'[i] = issues[i]
    BY <1>1, <2>2, Parts DEF Land, Ids
  <2> QED BY <2>1, <2>3 DEF DepsIn, BoundIn
<1> QED
  BY <1>3, <1>4, <1>5 DEF Gated

LEMMA RunKeepsGate ==
  ASSUME IInv, Gate, Start \/ RunSteps \/ Failures
  PROVE  Gate'
<1>1. UNCHANGED <<broker, touched>>
  BY DEF Start, RunSteps, Failures, CreateRoot, RootItem, Locate, LocateRaises, Create, Repair,
         RepairRaises, Attach, Bind, Item, Describe, Verify, Reread, Release, Complete, Stop,
         CreateTorn, CreateLate, Land, World
<1>2. IInv'
  BY RunStepsKeep, FailuresKeep
<1>3. Len(touched') \in Nat /\ Len(issues') \in Nat
  BY <1>2, Element DEF IInv, Typed
<1>4. 1 \in Numbers => Len(issues) <= Len(issues')
  BY RunStepWrites DEF RunWrites
<1>5. Len(issues) <= Len(issues')
  BY <1>3, <1>4, Parts DEF Numbers
<1>6. \A j \in Numbers : Lasts(issues[j], issues'[j])
  BY RunStepWrites DEF RunWrites
<1>7. Chosen(issues', touched', broker')
  BY <1>1, <1>3, <1>5, <1>6, ChosenStays DEF Gate
<1> QED
  BY <1>1, <1>7, RunGated DEF Gate

(***************************************************************************)
(* The theorems.                                                           *)
(***************************************************************************)
LEMMA InitHolds ==
  ASSUME Init
  PROVE  IInv /\ Gate
<1>1. issues \in Seq(IssueType) /\ touched \in Seq(Nat) /\ Len(touched) = 0
  BY DEF Init
<1>2. Ids(issues) = {}
  BY DEF Init, Ids
<1>3. late = NoIssue /\ late \in IssueType
  BY NewType DEF Init, NoIssue, IssueType
<1>4. run \in RunType /\ Process(issues, Hands, run)
  BY <1>1, Ended DEF Init
<1>5. Store(issues, Hands, late)
  BY <1>2, <1>3 DEF Store, Rooted, LateUnborn, OneComplete, Bindings, Owned, Whole
<1>6. faults \in Nat /\ Trouble <= MaxTrouble /\ broker \in BrokerType
  BY <1>1, BootstrapConstants, NoActionType DEF Init, Trouble
<1>7. Gate
  BY <1>1 DEF Init, NoAction, Gate, Chosen, Gated
<1> QED
  BY <1>1, <1>3, <1>4, <1>5, <1>6, <1>7 DEF IInv, Typed

LEMMA StepKeeps ==
  ASSUME IInv, Gate, [Next]_vars
  PROVE  IInv' /\ Gate'
<1>1. CASE Next
  BY <1>1, RunStepsKeep, FailuresKeep, RunKeepsGate, BrokerKeeps, PeopleKeep DEF Next
<1>2. CASE UNCHANGED vars
  BY <1>2 DEF vars, IInv, Typed, Trouble, Store, Process, Hands, Gate
<1> QED
  BY <1>1, <1>2

\* The invariant of publication, for plans of any size.
THEOREM PublicationInvariant == Spec => [](IInv /\ Gate)
<1>1. Init => IInv /\ Gate
  BY InitHolds
<1>2. (IInv /\ Gate) /\ [Next]_vars => (IInv /\ Gate)'
  BY StepKeeps
<1> QED
  BY <1>1, <1>2, PTL DEF Spec

\* Types, and no reference of the run or of the broker is to an issue that does
\* not exist.
THEOREM TypesHold == Spec => []TypeOK
<1>1. IInv /\ Gate => TypeOK
  <2> SUFFICES ASSUME IInv, Gate PROVE TypeOK
    OBVIOUS
  <2>1. /\ issues \in Seq(IssueType) /\ late \in IssueType /\ run \in RunType
        /\ Numbers = Ids(issues) /\ Len(issues) \in Nat /\ Len(touched) \in Nat /\ N \in Nat
        /\ faults \in Nat /\ Trouble <= MaxTrouble /\ broker \in BrokerType
    BY Parts, BootstrapConstants DEF IInv, Typed
  <2>2. \A i \in Numbers : issues[i] \in IssueType /\ issues[i].mark # -1
    BY <2>1, Element DEF IInv, Store, Rooted
  <2>3. run.root \in 0 .. Len(issues)
    BY <2>1 DEF IInv, Process, OnRoot, NoRun, Ids
  <2>4. run.issue \in 0 .. Len(issues)
    BY <2>1 DEF IInv, Process, AtHand, Ids
  <2>5. run.node \in 0 .. N
    BY <2>1 DEF IInv, Process, OnRoot, NoRun, Nodes
  <2>6. run.missing \subseteq Numbers
    <3>1. CASE run.pc = "bind"
      BY <3>1, InHand DEF Held
    <3>2. CASE run.pc # "bind"
      BY <3>2 DEF IInv, Process, AtHand
    <3> QED BY <3>1, <3>2
  <2>7. broker \in ActionType
    <3>1. broker.issue \in 0 .. Len(issues)
      BY <2>1 DEF Gate, Chosen, Ids
    <3>2. broker.since \in 0 .. Len(touched)
      BY <2>1 DEF Gate, Chosen, BrokerType
    <3> QED BY <2>1, <3>1, <3>2 DEF BrokerType, ActionType
  <2> QED BY <2>1, <2>2, <2>3, <2>4, <2>5, <2>6, <2>7 DEF TypeOK
<1> QED
  BY <1>1, PublicationInvariant, PTL

\* What is being worked on, or may be, is the bound issue of the one complete plan.
LEMMA BegunEntitled ==
  ASSUME IInv, NEW i \in Numbers, Begun(i) \/ Identified(i)
  PROVE  /\ Entitled(issues, i) /\ issues[i].body.root \in Numbers
         /\ issues[issues[i].body.root].complete
<1>1. Entitled(issues, i)
  BY IdentityEntitles, Parts DEF Begun, Store, Owned, Working
<1> QED
  BY <1>1, Parts DEF Entitled, Store, Rooted

\* However often runs break off and create an issue again, no node is worked
\* on twice.
THEOREM NoNodeTwice == Spec => []StartedOnce
<1>1. IInv => StartedOnce
  <2> SUFFICES ASSUME IInv, NEW i \in Numbers, NEW j \in Numbers,
                      Begun(i) \/ Identified(i), Begun(j) \/ Identified(j),
                      issues[i].mark = issues[j].mark
               PROVE  i = j
    BY DEF StartedOnce
  <2>1. issues[i].body.root = issues[j].body.root
    BY BegunEntitled, Parts DEF Store, OneComplete
  <2> QED BY <2>1, BegunEntitled DEF Entitled
<1> QED
  BY <1>1, PublicationInvariant, PTL

\* Nothing is started of a plan that is not wholly there.
THEOREM WholeWhenStarted == Spec => []StartedWhole
<1>1. IInv => StartedWhole
  <2> SUFFICES ASSUME IInv, NEW i \in Numbers, Begun(i), NEW n \in Nodes
               PROVE  LET r == issues[i].body.root
                          j == Bound(r, n)
                      IN /\ issues[r].complete /\ j # 0 /\ issues[j].mark = n
                         /\ j \in Hands \/ (Canonical(issues[j], r, n) /\ Related(j, r, n))
                         /\ Executable(r, n) => issues[j].routed
    <3>1. 1 \in Nodes
      BY BootstrapConstants DEF Nodes
    <3> QED BY <3>1 DEF StartedWhole
  <2> DEFINE r == issues[i].body.root
             j == issues[r].nodes[n]
  <2>1. r \in Numbers /\ issues[r].complete
    BY BegunEntitled
  <2>2. Finished(issues, Hands, r, n) /\ Bound(r, n) = j
    BY <2>1, Parts, BootstrapConstants DEF Store, Whole, Bound, Nodes
  <2>3. issues[j].mark = n
    <3>1. j # 0 /\ r \in Ids(issues) /\ Bindings(issues)
      BY <2>1, <2>2, Parts DEF Finished, Store
    <3> QED BY <3>1 DEF Bindings, Binds
  <2>4. Planned(issues, j, r, n) => Canonical(issues[j], r, n) /\ Related(j, r, n)
    BY InTerms DEF Planned, Canonical, Related
  <2> QED BY <2>1, <2>2, <2>3, <2>4, InTerms DEF Finished
<1> QED
  BY <1>1, PublicationInvariant, PTL

\* Who writes a status.
LEMMA Writers ==
  ASSUME IInv, Gate, Next, NEW i \in Numbers, issues'[i].status # issues[i].status
  PROVE  \/ /\ issues'[i].status \notin {"STARTED", "MERGED", "DONE"}
            /\ issues[i].mark = 0 \/ ~Published(issues[i].body.root) \/ touched' # touched
         \/ (Unlock \/ Dispatch) /\ i = broker.issue
         \/ Merge(i) \/ Finalize(i)
<1>1. CASE Start \/ RunSteps \/ Failures
  <2>1. RunWrites(i)
    BY <1>1, RunStepWrites
  <2>2. CASE RootItem /\ i = run.root /\ issues'[i].status = "BACKLOG"
    <3>1. issues[i].mark = 0
      BY <2>2, Parts DEF RootItem, At, Process, OnRoot
    <3> QED BY <2>2, <3>1
  <2>3. CASE Item /\ i = run.issue /\ issues'[i].status \in {"BACKLOG", "BLOCKED"}
    <3>1. ~Published(issues[i].body.root)
      BY <2>3, InHand, Parts DEF Item, At, Held, Process, OnRoot, Published
    <3> QED BY <2>3, <3>1
  <2>4. CASE Release /\ i = Bound(run.root, run.node) /\ issues'[i].status = "READY"
    <3>1. ~Published(issues[i].body.root)
      BY <2>4, Released, Parts DEF Release, At, Process, OnRoot, Published
    <3> QED BY <2>4, <3>1
  <2> QED BY <2>1, <2>2, <2>3, <2>4 DEF RunWrites
<1>2. CASE Unlock \/ Dispatch
  <2>1. broker.issue \in Numbers
    BY <1>2, Parts DEF Gate, Chosen, Unlock, Dispatch, Writes
  <2>2. PICK e : Update(broker.issue, e)
    BY <1>2 DEF Unlock, Dispatch, Writes
  <2> QED BY <1>2, <2>1, <2>2, Others
<1>3. ASSUME NEW k \in Numbers, Merge(k) \/ Finalize(k) PROVE Merge(i) \/ Finalize(i)
  <2>1. PICK e : Update(k, e)
    BY <1>3 DEF Merge, Finalize, Closes
  <2> QED BY <1>3, <2>1, Others
<1>4. CASE ReadScope \/ ReadIssue \/ ReadRoot \/ ReadRelations \/ Stale \/ BrokerStops
  BY <1>4 DEF ReadScope, ReadIssue, ReadRoot, ReadRelations, Stale, BrokerStops, Reads
<1>5. ~\E k \in Numbers : Offer(k)
  BY DEF Offer
<1>6. CASE People
  <2>1. PICK k, e : k \in Numbers /\ ByHand(k, e) /\ Harmless(issues[k], e)
    BY <1>6, HandEdits
  <2>2. issues'[i] = IF i = k THEN e ELSE issues[i]
    BY <2>1, Others DEF ByHand
  <2>3. touched' # touched
    <3>1. touched \in Seq(Nat) /\ k \in Nat /\ touched' = Append(touched, k)
      BY <2>1, Parts DEF IInv, Typed, ByHand, Numbers
    <3>2. Len(touched') = Len(touched) + 1 /\ Len(touched) \in Nat
      BY <3>1
    <3> QED BY <3>2
  <2> QED BY <2>1, <2>2, <2>3 DEF Harmless
<1> QED
  BY <1>1, <1>2, <1>3, <1>4, <1>5, <1>6 DEF Next, BrokerSteps

\* A run never takes back what the broker has written.
THEOREM StatusSurvivesRuns == Spec => ProgressKept
<1> DEFINE Kept == \A i \in Numbers :
                     Begun(i) /\ Published(issues[i].body.root) /\ touched' = touched =>
                       issues'[i].status \in {"STARTED", "MERGED", "DONE"}
<1>1. IInv /\ Gate /\ [Next]_vars => [Kept]_vars
  <2> SUFFICES ASSUME IInv, Gate, Next, NEW i \in Numbers, Begun(i),
                      Published(issues[i].body.root), touched' = touched
               PROVE  issues'[i].status \in {"STARTED", "MERGED", "DONE"}
    OBVIOUS
  <2>1. CASE issues'[i].status = issues[i].status
    BY <2>1 DEF Begun
  <2>2. CASE (Unlock \/ Dispatch) /\ i = broker.issue
    BY <2>2 DEF Unlock, Dispatch, Writes, Unmoved, Begun
  <2>3. CASE Merge(i) \/ Finalize(i)
    <3>1. PICK status \in {"MERGED", "DONE"} :
            Update(i, [issues[i] EXCEPT !.status = status, !.closed = TRUE])
      BY <2>3 DEF Merge, Finalize, Closes
    <3>2. issues[i] \in IssueType
      BY Parts, Element
    <3>3. issues'[i] = [issues[i] EXCEPT !.status = status, !.closed = TRUE]
      BY <3>1, Others
    <3> QED BY <3>1, <3>2, <3>3 DEF IssueType
  <2> QED BY <2>1, <2>2, <2>3, Writers DEF Begun
<1> QED
  BY <1>1, PublicationInvariant, PTL DEF Spec, ProgressKept

\* What the broker starts has all its planned dependencies closed, unless people
\* changed something after the broker had read the edges of its issue.
LEMMA StartsInOrder ==
  ASSUME IInv, Gate, broker.since = Len(touched), broker.pc = "write", broker.from = "READY",
         issues[broker.issue].status = "READY",
         NEW d \in issues[issues[broker.issue].body.root].plan.deps[issues[broker.issue].mark]
  PROVE  issues[Bound(issues[broker.issue].body.root, d)].closed
<1> DEFINE i == broker.issue
           r == issues[i].body.root
           n == issues[i].mark
           j == BoundIn(issues, r, d)
<1>1. Gated(issues, run, broker) /\ Entitled(issues, i) /\ i \in Numbers /\ i # 0
  BY Parts, Element DEF Gate, Chosen
<1>2. Guarded(issues, run, i) /\ issues[r].complete /\ issues[r].closing
  BY <1>1 DEF Gated
<1>3. issues[i].edges = DepsIn(issues, r, n) /\ issues[r].nodes[n] = i
  BY <1>1 DEF Gated, Entitled
<1>4. Cleared(issues, i)
  BY <1>2, <1>3 DEF Guarded
<1>5. r \in Ids(issues) /\ n \in Nodes /\ issues[r].plan \in Plans
  <2>1. r \in Ids(issues) /\ n # 0 /\ n # -1 /\ n \in {-1} \union 0 .. N
    BY <1>1, Parts, Element, Fields DEF Entitled, Store, Rooted
  <2> QED BY <2>1, Parts, Element, Fields, BootstrapConstants DEF Nodes
<1>6. d \in Nodes /\ d # 0
  BY <1>5, PlanOrder, BootstrapConstants DEF Nodes
<1>7. Finished(issues, Hands, r, d)
  BY <1>2, <1>5, <1>6, Parts DEF Store, Whole
<1>8. j = issues[r].nodes[d] /\ Binds(issues, j, r, d)
  <2>1. j = issues[r].nodes[d] /\ j # 0
    BY <1>6, <1>7 DEF BoundIn, Finished
  <2> QED BY <1>5, <1>6, <2>1, Parts DEF Store, Bindings
<1>9. j \in issues[i].edges \intersect Ids(issues)
  BY <1>3, <1>8 DEF DepsIn, Binds
<1>10. issues[j].closed
  BY <1>4, <1>9 DEF Cleared
<1> QED
  BY <1>10, InTerms

\* The plan's order, whatever people do to issues, edges and items, unless they do
\* it between the broker's readings.
THEOREM OrderHolds == Spec => PlannedOrder
<1> DEFINE Ordered == broker.since = Len(touched) => \A i \in Numbers : ~OutOfOrder(i)
<1>1. IInv /\ Gate /\ [Next]_vars => [Ordered]_vars
  <2> SUFFICES ASSUME IInv, Gate, Next, broker.since = Len(touched), NEW i \in Numbers,
                      ~Begun(i), issues'[i].status = "STARTED",
                      NEW d \in issues[issues[i].body.root].plan.deps[issues[i].mark]
               PROVE  issues[Bound(issues[i].body.root, d)].closed
    BY DEF OutOfOrder
  <2>1. issues[i].status # "STARTED" /\ issues[i] \in IssueType
    BY Parts, Element DEF Begun, Store, Owned, Entitled, Working
  <2>2. Dispatch /\ i = broker.issue
    <3>1. CASE Unlock /\ i = broker.issue
      <4>1. Update(i, [issues[i] EXCEPT !.status = "READY"])
        BY <3>1 DEF Unlock, Writes
      <4>2. issues'[i] = [issues[i] EXCEPT !.status = "READY"]
        BY <4>1, Others
      <4> QED BY <2>1, <4>2 DEF IssueType
    <3>2. CASE Merge(i) \/ Finalize(i)
      <4>1. PICK status \in {"MERGED", "DONE"} :
              Update(i, [issues[i] EXCEPT !.status = status, !.closed = TRUE])
        BY <3>2 DEF Merge, Finalize, Closes
      <4>2. issues'[i] = [issues[i] EXCEPT !.status = status, !.closed = TRUE]
        BY <4>1, Others
      <4> QED BY <2>1, <4>1, <4>2 DEF IssueType
    <3> QED BY <2>1, <3>1, <3>2, Writers
  <2> QED BY <2>2, StartsInOrder DEF Dispatch, Writes, Unmoved
<1> QED
  BY <1>1, PublicationInvariant, PTL DEF Spec, PlannedOrder
=============================================================================
