------------------------------- MODULE Cycle -------------------------------
(***************************************************************************)
(* One coordinator cycle over all issues of the Project: the snapshot, the *)
(* selection within the worker capacity, and the actions one after the     *)
(* other, while workers end, people move items and close issues, and the   *)
(* process may die.  What a handler does to its own issue is the abstract  *)
(* lifecycle (Transitions), which Broker is shown to keep.  The lock on    *)
(* coordinator.lock admits one process at a time.                          *)
(***************************************************************************)
EXTENDS Transitions, Naturals, Sequences, FiniteSets

CONSTANTS
  NumIssues,        \* issues, in the order of the Project's items
  MaxImplementers,  \* HARNESS_MAX_IMPLEMENTERS
  MaxDrags,         \* bound: items people move
  MaxCloses,        \* bound: issues people close by hand
  MaxFaults         \* bound: deaths of the process and failing calls

ASSUME CycleAssumption ==
  /\ NumIssues \in Nat \ {0} /\ MaxImplementers \in 1..32
  /\ MaxDrags \in Nat /\ MaxCloses \in Nat /\ MaxFaults \in Nat

VARIABLES
  status,   \* Harness Status of each issue
  running,  \* the issues whose implementer unit runs
  closed,   \* the issues that GitHub has as CLOSED
  needs,    \* per issue: the issues it is natively blocked by
  todo,     \* the cycle's actions: <<>> outside a cycle
  cycle,    \* where the cycle is, and the handler of the first action of todo
  count     \* drags, closes and faults so far

vars == <<status, running, closed, needs, todo, cycle, count>>

Issues == 1..NumIssues
Statuses == {"BLOCKED", "READY", "CLAIMED", "IN_PROGRESS", "IMPLEMENTED", "REVIEWING",
             "CHANGES_REQUESTED", "VERIFIED", "MERGE_READY", "MERGING", "DONE",
             "RETRY_PENDING", "WAITING_HUMAN", "WAITING_PROVIDER"}
Action == [issue : Issues, status : Statuses]

\* bootstrap refuses dependency cycles: every set of issues has one that needs
\* none of the others.
Acyclic(graph) == \A S \in SUBSET Issues : S # {} => \E i \in S : graph[i] \cap S = {}

TypeOK ==
  /\ status \in [Issues -> Statuses]
  /\ running \subseteq Issues /\ closed \subseteq Issues
  /\ needs \in [Issues -> SUBSET Issues]
  /\ todo \in Seq(Action)
  /\ cycle \in [phase : {"idle", "select", "next", "apply"}, checked : BOOLEAN,
                writes : 0..2, started : BOOLEAN, raised : BOOLEAN]
  /\ count \in [drags : 0..MaxDrags, closes : 0..MaxCloses, faults : 0..MaxFaults]

Idle(raised) ==
  [phase |-> "idle", checked |-> FALSE, writes |-> 0, started |-> FALSE, raised |-> raised]
NextAction == [Idle(FALSE) EXCEPT !.phase = "next"]

Init ==
  /\ needs \in {graph \in [Issues -> SUBSET Issues] : Acyclic(graph)}
  /\ status = [i \in Issues |-> IF needs[i] = {} THEN "READY" ELSE "BLOCKED"]
  /\ running = {} /\ closed = {} /\ todo = <<>> /\ cycle = Idle(FALSE)
  /\ count = [drags |-> 0, closes |-> 0, faults |-> 0]

(***************************************************************************)
(* The cycle.                                                              *)
(***************************************************************************)
\* trusted_issue_scope does not raise.
Scoped(i) == i \notin closed /\ needs[i] \subseteq closed

\* Mutant: a blocker that was closed by hand does not count.
OfferedDone(i) ==
  /\ Kind(status[i]) \notin {"none", "operator"}
  /\ status[i] = "BLOCKED" => \A j \in needs[i] : status[j] = "DONE"

\* lifecycle_action offers something for the item; BLOCKED only when every
\* blocker of the snapshot is closed.
Offered(i) ==
  /\ Kind(status[i]) \notin {"none", "operator"}
  /\ status[i] = "BLOCKED" => needs[i] \subseteq closed

\* lifecycle_action raises, and with it the whole snapshot.
Unreadable(i) == Kind(status[i]) = "retry_implementation" /\ ~Scoped(i)

Starter(action) == Starts(Kind(action.status)) # "none"

\* The actions of a list that start an implementer, as numbers.
Starters(actions) == {k \in 1..Len(actions) : Starter(actions[k])}

\* What is left when at most n of those that count are taken, the first ones,
\* and all others.
Taken(actions, n, counted) ==
  {k \in 1..Len(actions) : k \in counted => Cardinality(counted \cap 1..k) <= n}

\* Mutant: only dispatches count against the capacity.
SelectedRetries(actions, n) ==
  Taken(actions, n, {k \in 1..Len(actions) : actions[k].status = "READY"})

\* The first n of the actions that start an implementer, and all others.
Selected(actions, n) == Taken(actions, n, Starters(actions))

\* The one listing of a set of numbers in their order.
InOrder(S) == {f \in [1..Cardinality(S) -> S] : \A i, j \in DOMAIN f : i < j => f[i] < f[j]}

\* make_snapshot, in the order of the items.
Snapshot ==
  /\ cycle.phase = "idle"
  /\ IF \E i \in Issues : Unreadable(i)
     THEN todo' = <<>> /\ cycle' = Idle(TRUE)
     ELSE /\ \E pick \in InOrder({i \in Issues : Offered(i)}) :
               todo' = [k \in DOMAIN pick |-> [issue |-> pick[k], status |-> status[pick[k]]]]
          /\ cycle' = [Idle(FALSE) EXCEPT !.phase = "select"]
  /\ UNCHANGED <<status, running, closed, needs, count>>

\* main: the free places are counted once.
Free ==
  IF Cardinality(running) >= MaxImplementers THEN 0 ELSE MaxImplementers - Cardinality(running)

Select ==
  /\ cycle.phase = "select"
  /\ \E pick \in InOrder(Selected(todo, Free)) : todo' = [k \in DOMAIN pick |-> todo[pick[k]]]
  /\ cycle' = NextAction
  /\ UNCHANGED <<status, running, closed, needs, count>>

\* apply returns.
Finish ==
  /\ cycle.phase = "next" /\ todo = <<>>
  /\ cycle' = Idle(FALSE)
  /\ UNCHANGED <<status, running, closed, needs, todo, count>>

\* A BrokerError leaves apply, whatever is still selected.
Raise ==
  /\ todo' = <<>> /\ cycle' = Idle(TRUE)
  /\ UNCHANGED <<status, running, closed, needs>>

Current == Head(todo).issue
Doing == Kind(Head(todo).status)

\* fresh_item and fresh_lifecycle_item: the item is as it was in the snapshot
\* and would be offered again.
Fresh ==
  /\ status[Current] = Head(todo).status /\ Offered(Current) /\ ~Unreadable(Current)
  /\ Doing = "dispatch_implementer" => Cardinality(running) < MaxImplementers

Begin ==
  /\ cycle.phase = "next" /\ todo # <<>>
  /\ IF Fresh
     THEN /\ cycle' = [cycle EXCEPT !.phase = "apply"]
          /\ UNCHANGED <<status, running, closed, needs, todo, count>>
     ELSE Raise /\ UNCHANGED count

(***************************************************************************)
(* A handler.  Dispatch, retry and unlocking read the issue's scope again, *)
(* dispatch and unlocking before their first write, retry_implementation   *)
(* at the launch boundary.                                                 *)
(***************************************************************************)
Applying == cycle.phase = "apply"

Check ==
  /\ Applying /\ ~cycle.checked
  /\ Starts(Doing) # "none" \/ Doing = "unlock_dependency"
  /\ IF Scoped(Current)
     THEN /\ cycle' = [cycle EXCEPT !.checked = TRUE]
          /\ UNCHANGED <<status, running, closed, needs, todo, count>>
     ELSE IF Doing = "unlock_dependency" /\ Current \notin closed
     THEN \* "incomplete dependencies": unlock_dependency returns
          /\ todo' = Tail(todo) /\ cycle' = NextAction
          /\ UNCHANGED <<status, running, closed, needs, count>>
     ELSE Raise /\ UNCHANGED count

\* Mutant: dispatch trusts that what is READY may start.
ClearedReady == cycle.checked \/ Doing = "dispatch_implementer"
\* The scope has been read and does not forbid to go on.
Cleared == cycle.checked

\* Mutant: a handler writes again and again.
WriteAgain ==
  /\ Applying
  /\ \E to \in Targets(Doing) :
       /\ <<status[Current], to>> \in Moves(Doing)
       /\ status' = [status EXCEPT ![Current] = to]
  /\ cycle' = [cycle EXCEPT !.writes = @ + 1]
  /\ UNCHANGED <<running, closed, needs, todo, count>>

\* A status write; before DONE finalize_merge closes the issue.  The handlers
\* make at most two writes.
Write ==
  /\ Applying /\ cycle.writes < 2
  /\ \E to \in Targets(Doing) :
       /\ <<status[Current], to>> \in Moves(Doing) \/ status[Current] = Held
       /\ Current \in running => to = "IN_PROGRESS"
       /\ to = "CLAIMED" \/ Doing = "unlock_dependency" => Cleared
       /\ status' = [status EXCEPT ![Current] = to]
       /\ closed' = IF to = "DONE" THEN closed \cup {Current} ELSE closed
  /\ cycle' = [cycle EXCEPT !.writes = @ + 1]
  /\ UNCHANGED <<running, needs, todo, count>>

Start ==
  /\ Applying /\ Cleared /\ ~cycle.started /\ cycle.writes > 0
  /\ status[Current] \in {Starts(Doing), Held} /\ Starts(Doing) # "none"
  /\ running' = running \cup {Current}
  /\ cycle' = [cycle EXCEPT !.started = TRUE]
  /\ UNCHANGED <<status, closed, needs, todo, count>>

\* The handler returns; unlocking only after its write.
Return ==
  /\ Applying
  /\ Doing = "unlock_dependency" => cycle.writes > 0
  /\ todo' = Tail(todo) /\ cycle' = NextAction
  /\ UNCHANGED <<status, running, closed, needs, count>>

\* require_project_status raises: somebody moved the item before the first write.
Moved ==
  /\ Applying /\ cycle.writes = 0 /\ status[Current] # Head(todo).status
  /\ Raise /\ UNCHANGED count

\* A call of the handler fails, or the process dies and the lock goes with it.
Stops ==
  /\ cycle.phase # "idle" /\ count.faults < MaxFaults
  /\ Raise
  /\ count' = [count EXCEPT !.faults = @ + 1]

CycleSteps ==
  \/ Snapshot \/ Select \/ Finish \/ Begin \/ Check \/ Write \/ Start \/ Return \/ Moved

(***************************************************************************)
(* Everybody else.                                                         *)
(***************************************************************************)
WorkerEnds(i) ==
  /\ running' = running \ {i} /\ i \in running
  /\ UNCHANGED <<status, closed, needs, todo, cycle, count>>

\* A person holds an item, or moves it to READY before its time.
Drag(i) ==
  /\ count.drags < MaxDrags
  /\ \/ status[i] # "DONE" /\ status' = [status EXCEPT ![i] = Held]
     \/ status[i] = "BLOCKED" /\ status' = [status EXCEPT ![i] = "READY"]
  /\ count' = [count EXCEPT !.drags = @ + 1]
  /\ UNCHANGED <<running, closed, needs, todo, cycle>>

\* The operator's resume commands, which take the lock as well.
Resume(i) ==
  /\ cycle.phase = "idle" /\ status[i] = Held
  /\ \E to \in Targets("operator") : status' = [status EXCEPT ![i] = to]
  /\ UNCHANGED <<running, closed, needs, todo, cycle, count>>

Close(i) ==
  /\ count.closes < MaxCloses /\ i \notin closed
  /\ closed' = closed \cup {i}
  /\ count' = [count EXCEPT !.closes = @ + 1]
  /\ UNCHANGED <<status, running, needs, todo, cycle>>

Next ==
  \/ CycleSteps \/ Stops
  \/ \E i \in Issues : WorkerEnds(i) \/ Drag(i) \/ Resume(i) \/ Close(i)

Spec == Init /\ [][Next]_vars
\* The timer starts a cycle again and again, and a cycle runs to its end.
FairSpec == Spec /\ WF_vars(CycleSteps)

(***************************************************************************)
(* Properties.                                                             *)
(***************************************************************************)
\* Dispatches and retries of several issues never run more implementers than
\* HARNESS_MAX_IMPLEMENTERS, although the places are counted only once a cycle
\* and retry_implementation does not count them again.
WithinCapacity == Cardinality(running) <= MaxImplementers

\* No implementer works on an issue before everything it is blocked by is
\* closed: not after a snapshot that has become stale, nor when a person moved
\* the item to READY too early.
DependenciesFirst == \A i \in running : needs[i] \subseteq closed

\* An issue whose blockers are all closed stays BLOCKED only when cycles keep
\* being cut short by an error of some issue.
Unlockable(i) == status[i] = "BLOCKED" /\ Scoped(i)
PassedOverByErrors == \A i \in Issues : <>[]Unlockable(i) => []<>(cycle.raised)

\* Every such issue is unlocked, whatever happens to the others.
Unlocked == \A i \in Issues : Unlockable(i) ~> ~Unlockable(i)
=============================================================================
