---------------------------- MODULE CycleProof ----------------------------
(***************************************************************************)
(* Of the coordinator cycle, for any number of issues, places, drags,      *)
(* closes and faults: the capacity is kept, and so is the order of the     *)
(* dependencies.                                                           *)
(***************************************************************************)
EXTENDS Cycle, FiniteSetTheorems, TLAPS

(***************************************************************************)
(* The invariant: what the selected actions may still start has its place, *)
(* and what the handler has read of the dependencies remains true.         *)
(***************************************************************************)
\* The actions that have not yet started their implementer.
Ahead == IF cycle.started THEN Tail(todo) ELSE todo

Phases ==
  /\ cycle.phase = "apply" => todo # <<>>
  /\ cycle.checked \/ cycle.started => cycle.phase = "apply"
Capacity ==
  /\ Cardinality(running) <= MaxImplementers
  /\ cycle.phase \in {"next", "apply"} =>
       Cardinality(running) + Cardinality(Starters(Ahead)) <= MaxImplementers
Order == DependenciesFirst /\ (cycle.checked => needs[Current] \subseteq closed)

IInv == TypeOK /\ Phases /\ Capacity /\ Order

(***************************************************************************)
(* Counting.                                                               *)
(***************************************************************************)
LEMMA NoMore ==
  ASSUME NEW S, NEW T, IsFiniteSet(T), NEW f \in [S -> T],
         \A a, b \in S : f[a] = f[b] => a = b
  PROVE  IsFiniteSet(S) /\ Cardinality(S) <= Cardinality(T)
<1>1. f \in Injection(S, T)
  BY DEF Injection, IsInjective
<1> QED
  BY <1>1, FS_Injection

LEMMA Numbers ==
  ASSUME NEW n \in Nat, NEW S, S \subseteq 1..n
  PROVE  IsFiniteSet(S) /\ Cardinality(S) \in Nat /\ Cardinality(S) <= n
<1>1. IsFiniteSet(1..n) /\ Cardinality(1..n) = n
  BY FS_Interval
<1>2. IsFiniteSet(S) /\ Cardinality(S) <= Cardinality(1..n)
  BY <1>1, FS_Subset
<1> QED
  BY <1>1, <1>2, FS_CardinalityType

LEMMA StartersFinite ==
  ASSUME NEW T, NEW q \in Seq(T)
  PROVE  IsFiniteSet(Starters(q)) /\ Cardinality(Starters(q)) \in Nat
<1>1. Len(q) \in Nat /\ Starters(q) \subseteq 1..Len(q)
  BY DEF Starters
<1> QED
  BY <1>1, Numbers

\* Of the numbers that satisfy a condition, those with at most n such numbers up
\* to them are at most n: how many there are up to it tells them apart.
LEMMA FirstOnes ==
  ASSUME NEW m \in Nat, NEW n \in Nat, NEW S, S \subseteq 1..m
  PROVE  Cardinality({k \in S : Cardinality(S \cap 1..k) <= n}) <= n
<1> DEFINE Up(k) == S \cap 1..k
           first == {k \in S : Cardinality(Up(k)) <= n}
           rank == [k \in first |-> Cardinality(Up(k))]
<1>1. ASSUME NEW k \in S PROVE IsFiniteSet(Up(k)) /\ Cardinality(Up(k)) \in Nat \ {0} /\ k \in Up(k)
  <2>1. k \in 1..m /\ k \in Up(k) /\ Up(k) \subseteq 1..m
    OBVIOUS
  <2>2. IsFiniteSet(Up(k)) /\ Cardinality(Up(k)) \in Nat
    BY <2>1, Numbers
  <2>3. Cardinality(Up(k)) # 0
    BY <2>1, <2>2, FS_EmptySet
  <2> QED BY <2>1, <2>2, <2>3
<1>2. ASSUME NEW j \in S, NEW k \in S, j < k PROVE Cardinality(Up(j)) # Cardinality(Up(k))
  <2>1. j \in 1..m /\ k \in 1..m /\ Up(j) \subseteq Up(k) /\ k \notin Up(j) /\ k \in Up(k)
    BY <1>2
  <2>2. Up(j) # Up(k)
    BY <2>1
  <2> HIDE DEF Up
  <2>3. IsFiniteSet(Up(k))
    BY <1>1
  <2> QED BY <2>1, <2>2, <2>3, FS_Subset
<1> HIDE DEF Up
<1>3. rank \in [first -> 1..n]
  <2>1. ASSUME NEW k \in first PROVE Cardinality(Up(k)) \in 1..n
    <3>1. k \in S /\ Cardinality(Up(k)) <= n
      OBVIOUS
    <3> QED BY <1>1, <3>1
  <2> HIDE DEF first
  <2> QED BY <2>1
<1>4. \A j, k \in first : rank[j] = rank[k] => j = k
  <2> SUFFICES ASSUME NEW j \in first, NEW k \in first, rank[j] = rank[k], j # k PROVE FALSE
    OBVIOUS
  <2>1. j \in S /\ k \in S /\ Cardinality(Up(j)) = Cardinality(Up(k)) /\ j \in 1..m /\ k \in 1..m
    OBVIOUS
  <2>2. j < k \/ k < j
    BY <2>1
  <2> QED BY <1>2, <2>1, <2>2
<1> HIDE DEF rank, first
<1>5. IsFiniteSet(1..n) /\ Cardinality(1..n) = n
  BY FS_Interval
<1>6. Cardinality(first) <= n
  BY <1>3, <1>4, <1>5, NoMore
<1> QED
  BY <1>6 DEF first, Up

\* A selection in the order of the numbers has at most n starters.
LEMMA SelectionBounded ==
  ASSUME NEW q \in Seq(Action), NEW n \in Nat, NEW pick \in InOrder(Selected(q, n)),
         NEW r, r = [k \in DOMAIN pick |-> q[pick[k]]]
  PROVE  r \in Seq(Action) /\ Cardinality(Starters(r)) <= n
<1> DEFINE all == Starters(q)
           S == Selected(q, n)
           first == {k \in all : Cardinality(all \cap 1..k) <= n}
<1>1. Len(q) \in Nat /\ all \subseteq 1..Len(q) /\ S \subseteq 1..Len(q)
  BY DEF Starters, Selected, Taken
<1>2. IsFiniteSet(S) /\ Cardinality(S) \in Nat
  BY <1>1, Numbers
<1> HIDE DEF S
<1>3. /\ pick \in [1..Cardinality(S) -> S] /\ DOMAIN pick = 1..Cardinality(S)
      /\ \A i, j \in 1..Cardinality(S) : i < j => pick[i] < pick[j]
  BY DEF InOrder, S
<1>4. r \in Seq(Action) /\ Len(r) = Cardinality(S)
  <2>1. ASSUME NEW k \in 1..Cardinality(S) PROVE q[pick[k]] \in Action
    <3>1. pick[k] \in 1..Len(q)
      BY <1>1, <1>3
    <3> QED BY <3>1
  <2>2. r \in [1..Cardinality(S) -> Action]
    BY <1>3, <2>1
  <2> QED BY <1>2, <2>2
<1>5. ASSUME NEW k \in Starters(r) PROVE k \in 1..Cardinality(S) /\ pick[k] \in first
  <2>1. k \in 1..Cardinality(S) /\ pick[k] \in S /\ r[k] = q[pick[k]] /\ Starter(q[pick[k]])
    BY <1>3, <1>4 DEF Starters
  <2>2. pick[k] \in 1..Len(q) /\ pick[k] \in all
    BY <1>1, <2>1 DEF Starters
  <2>3. Cardinality(all \cap 1..pick[k]) <= n
    BY <2>1, <2>2 DEF S, Selected, Taken
  <2> QED BY <2>1, <2>2, <2>3
<1>6. IsFiniteSet(first) /\ Cardinality(first) \in Nat /\ Cardinality(first) <= n
  <2>1. first \subseteq 1..Len(q)
    BY <1>1
  <2> QED BY <1>1, <2>1, Numbers, FirstOnes
<1> HIDE DEF all, first
<1> DEFINE f == [k \in Starters(r) |-> pick[k]]
<1>7. f \in [Starters(r) -> first]
  BY <1>5
<1>8. \A a, b \in Starters(r) : f[a] = f[b] => a = b
  <2> SUFFICES ASSUME NEW a \in Starters(r), NEW b \in Starters(r), pick[a] = pick[b], a # b
               PROVE  FALSE
    OBVIOUS
  <2>1. a \in 1..Cardinality(S) /\ b \in 1..Cardinality(S) 
    BY <1>5
  <2>2. a < b \/ b < a
    BY <1>2, <2>1
  <2>3. pick[a] \in S /\ pick[a] \in Nat
    <3>1. pick[a] \in S
      BY <1>3, <2>1
    <3>2. pick[a] \in 1..Len(q)
      BY <1>1, <3>1
    <3> QED BY <3>1, <3>2
  <2>4. pick[a] < pick[b] \/ pick[b] < pick[a]
    BY <1>3, <2>1, <2>2
  <2> QED BY <2>3, <2>4
<1> HIDE DEF f
<1>9. Cardinality(Starters(r)) <= Cardinality(first)
  BY <1>6, <1>7, <1>8, NoMore
<1>10. Cardinality(Starters(r)) \in Nat
  BY <1>4, StartersFinite
<1> QED
  BY <1>4, <1>6, <1>9, <1>10

\* Taking the first action away leaves no more starters, and one less if it is one.
LEMMA RestStarts ==
  ASSUME NEW q \in Seq(Action), q # <<>>
  PROVE  /\ Tail(q) \in Seq(Action) /\ Cardinality(Starters(Tail(q))) <= Cardinality(Starters(q))
         /\ Starter(Head(q)) => Cardinality(Starters(Tail(q))) + 1 <= Cardinality(Starters(q))
<1> DEFINE t == Tail(q)
           others == Starters(q) \ {1}
           f == [k \in Starters(t) |-> k + 1]
<1>1. /\ t \in Seq(Action) /\ Len(q) \in Nat \ {0} /\ Len(t) = Len(q) - 1 /\ Head(q) = q[1]
      /\ \A k \in 1..Len(t) : t[k] = q[k + 1]
  OBVIOUS
<1>2. IsFiniteSet(Starters(q)) /\ Cardinality(Starters(q)) \in Nat
  BY StartersFinite
<1>3. /\ IsFiniteSet(others)
      /\ Cardinality(others) = IF 1 \in Starters(q) THEN Cardinality(Starters(q)) - 1
                               ELSE Cardinality(Starters(q))
  BY <1>2, FS_RemoveElement
<1> HIDE DEF t
<1>4. ASSUME NEW k \in Starters(t) PROVE k \in Nat /\ k + 1 \in others
  BY <1>1 DEF Starters
<1>5. f \in [Starters(t) -> others] /\ \A a, b \in Starters(t) : f[a] = f[b] => a = b
  BY <1>4
<1> HIDE DEF others, f
<1>6. Cardinality(Starters(t)) <= Cardinality(others)
  BY <1>3, <1>5, NoMore
<1>7. Cardinality(Starters(t)) \in Nat
  BY <1>1, StartersFinite
<1>8. Starter(Head(q)) => 1 \in Starters(q)
  BY <1>1 DEF Starters
<1> QED
  BY <1>1, <1>2, <1>3, <1>6, <1>7, <1>8 DEF t

LEMMA RunningFinite ==
  ASSUME TypeOK
  PROVE  IsFiniteSet(running) /\ Cardinality(running) \in Nat
<1>1. running \subseteq 1..NumIssues /\ NumIssues \in Nat
  BY CycleAssumption DEF TypeOK, Issues
<1> QED
  BY <1>1, Numbers

(***************************************************************************)
(* The steps.                                                              *)
(***************************************************************************)
Cycles == [phase : {"idle", "select", "next", "apply"}, checked : BOOLEAN,
           writes : 0..2, started : BOOLEAN, raised : BOOLEAN]

LEMMA Phase ==
  /\ \A b \in BOOLEAN :
       /\ Idle(b) \in Cycles /\ Idle(b).phase = "idle" /\ ~Idle(b).checked /\ ~Idle(b).started
  /\ [Idle(FALSE) EXCEPT !.phase = "select"] \in Cycles
  /\ [Idle(FALSE) EXCEPT !.phase = "select"].phase = "select"
  /\ ~[Idle(FALSE) EXCEPT !.phase = "select"].checked
  /\ ~[Idle(FALSE) EXCEPT !.phase = "select"].started
  /\ NextAction \in Cycles /\ NextAction.phase = "next" /\ ~NextAction.checked /\ ~NextAction.started
<1>1. \A b \in BOOLEAN :
        /\ Idle(b) \in Cycles /\ Idle(b).phase = "idle" /\ ~Idle(b).checked /\ ~Idle(b).started
  BY DEF Idle, Cycles
<1>2. /\ [Idle(FALSE) EXCEPT !.phase = "select"] \in Cycles
      /\ [Idle(FALSE) EXCEPT !.phase = "select"].phase = "select"
      /\ ~[Idle(FALSE) EXCEPT !.phase = "select"].checked
      /\ ~[Idle(FALSE) EXCEPT !.phase = "select"].started
  <2> DEFINE x == Idle(FALSE)
  <2>1. x \in Cycles /\ ~x.checked /\ ~x.started
    BY <1>1
  <2> HIDE DEF x
  <2>2. /\ [x EXCEPT !.phase = "select"] \in Cycles /\ [x EXCEPT !.phase = "select"].phase = "select"
        /\ ~[x EXCEPT !.phase = "select"].checked /\ ~[x EXCEPT !.phase = "select"].started
    BY <2>1 DEF Cycles
  <2> QED BY <2>2 DEF x
<1>3. NextAction \in Cycles /\ NextAction.phase = "next" /\ ~NextAction.checked /\ ~NextAction.started
  <2> DEFINE x == Idle(FALSE)
  <2>1. x \in Cycles /\ ~x.checked /\ ~x.started /\ NextAction = [x EXCEPT !.phase = "next"]
    BY <1>1 DEF NextAction
  <2> HIDE DEF x
  <2> QED BY <2>1 DEF Cycles
<1> QED
  BY <1>1, <1>2, <1>3

LEMMA Nothing ==
  <<>> \in Seq(Action)
  OBVIOUS

LEMMA TargetsKnown ==
  \A kind : Targets(kind) \subseteq Statuses
<1> SUFFICES ASSUME NEW kind, NEW move \in Moves(kind) PROVE move[2] \in Statuses
  BY DEF Targets
<1> QED
  BY DEF Moves, Statuses, Held

\* Outside a handler and a selection the invariant says little.
LEMMA Between ==
  ASSUME IInv, TypeOK', cycle'.phase \in {"idle", "select"}, ~cycle'.checked, ~cycle'.started,
         running' \subseteq running, needs' = needs, closed \subseteq closed'
  PROVE  IInv'
<1>1. Cardinality(running') <= MaxImplementers
  <2>1. IsFiniteSet(running) /\ Cardinality(running) \in Nat /\ Cardinality(running) <= MaxImplementers
    BY RunningFinite DEF IInv, Capacity
  <2>2. IsFiniteSet(running') /\ Cardinality(running') <= Cardinality(running)
    BY <2>1, FS_Subset
  <2>3. Cardinality(running') \in Nat /\ MaxImplementers \in Nat
    BY <2>2, FS_CardinalityType, CycleAssumption
  <2> QED BY <2>1, <2>2, <2>3
<1>2. DependenciesFirst'
  BY DEF IInv, Order, DependenciesFirst
<1> QED
  BY <1>1, <1>2 DEF IInv, Phases, Capacity, Order

\* A step that leaves the selected actions and their handler alone.
LEMMA Around ==
  ASSUME IInv, TypeOK', todo' = todo,
         cycle'.phase = cycle.phase, cycle'.checked = cycle.checked, cycle'.started = cycle.started,
         running' \subseteq running, needs' = needs, closed \subseteq closed'
  PROVE  IInv'
<1>1. Starters(Ahead)' = Starters(Ahead)
  BY DEF Starters, Ahead
<1>2. Capacity'
  <2>1. IsFiniteSet(running) /\ Cardinality(running) \in Nat
    BY RunningFinite DEF IInv
  <2>2. IsFiniteSet(running') /\ Cardinality(running') <= Cardinality(running)
    BY <2>1, FS_Subset
  <2>3. Cardinality(running') \in Nat /\ MaxImplementers \in Nat
    BY <2>2, FS_CardinalityType, CycleAssumption
  <2>4. Ahead \in Seq(Action)
    <3>1. todo \in Seq(Action) /\ (cycle.started => todo # <<>>)
      BY DEF IInv, TypeOK, Phases
    <3> QED BY <3>1, RestStarts DEF Ahead
  <2>5. Cardinality(Starters(Ahead)) \in Nat
    BY <2>4, StartersFinite
  <2> QED BY <1>1, <2>1, <2>2, <2>3, <2>5 DEF IInv, Capacity
<1>3. Order'
  BY DEF IInv, Order, DependenciesFirst, Current
<1> QED
  BY <1>2, <1>3 DEF IInv, Phases

\* The handler of the first action ends, and the next one's turn comes.
LEMMA Onto ==
  ASSUME IInv, cycle.phase = "apply", todo' = Tail(todo), cycle' = NextAction,
         UNCHANGED <<status, running, closed, needs, count>>
  PROVE  IInv'
<1>1. todo \in Seq(Action) /\ todo # <<>>
  BY DEF IInv, TypeOK, Phases
<1>2. /\ todo' \in Seq(Action)
      /\ Cardinality(Starters(Tail(todo))) <= Cardinality(Starters(todo))
  BY <1>1, RestStarts
<1>3. TypeOK'
  BY <1>2, Phase DEF IInv, TypeOK, Cycles
<1>4. Ahead' = Tail(todo)
  BY Phase DEF Ahead
<1>5. Capacity'
  <2>1. Cardinality(running) + Cardinality(Starters(Tail(todo))) <= MaxImplementers
    <3>1. Cardinality(Starters(todo)) \in Nat /\ Cardinality(Starters(Tail(todo))) \in Nat
      BY <1>1, <1>2, StartersFinite
    <3>2. Cardinality(running) \in Nat /\ MaxImplementers \in Nat
      BY RunningFinite, CycleAssumption DEF IInv
    <3>3. CASE cycle.started
      BY <3>3 DEF IInv, Capacity, Ahead
    <3>4. CASE ~cycle.started
      <4>1. Cardinality(running) + Cardinality(Starters(todo)) <= MaxImplementers
        BY <3>4 DEF IInv, Capacity, Ahead
      <4> QED BY <1>2, <3>1, <3>2, <4>1
    <3> QED BY <3>3, <3>4
  <2>2. Starters(Ahead)' = Starters(Tail(todo))
    BY <1>4 DEF Starters
  <2> QED BY <2>1, <2>2 DEF IInv, Capacity
<1>6. Order' /\ Phases'
  BY Phase DEF IInv, Order, DependenciesFirst, Phases
<1> QED
  BY <1>3, <1>5, <1>6 DEF IInv

LEMMA Initially ==
  ASSUME Init
  PROVE  IInv
<1>1. needs \in [Issues -> SUBSET Issues] /\ \A i \in Issues : {"READY", "BLOCKED"} \subseteq Statuses
  BY DEF Init, Statuses
<1>2. status \in [Issues -> Statuses]
  BY <1>1 DEF Init
<1>3. todo \in Seq(Action) /\ cycle \in Cycles /\ cycle.phase = "idle" /\ ~cycle.checked /\ ~cycle.started
  BY Phase, Nothing DEF Init
<1>4. TypeOK
  <2>1. count \in [drags : 0..MaxDrags, closes : 0..MaxCloses, faults : 0..MaxFaults]
    BY CycleAssumption DEF Init
  <2>2. running \subseteq Issues /\ closed \subseteq Issues
    BY DEF Init
  <2> QED BY <1>1, <1>2, <1>3, <2>1, <2>2 DEF TypeOK, Cycles
<1>5. Cardinality(running) <= MaxImplementers
  BY FS_EmptySet, CycleAssumption DEF Init
<1>6. Order /\ Phases /\ Capacity
  BY <1>3, <1>5 DEF Init, Order, DependenciesFirst, Phases, Capacity
<1> QED
  BY <1>4, <1>6 DEF IInv

LEMMA Snapping ==
  ASSUME IInv, Snapshot
  PROVE  IInv'
<1>1. UNCHANGED <<status, running, closed, needs, count>>
  BY DEF Snapshot
<1>2. cycle' \in Cycles /\ cycle'.phase \in {"idle", "select"} /\ ~cycle'.checked /\ ~cycle'.started
  <2>1. cycle' = Idle(TRUE) \/ cycle' = [Idle(FALSE) EXCEPT !.phase = "select"]
    BY DEF Snapshot
  <2> QED BY <2>1, Phase
<1>3. todo' \in Seq(Action)
  <2>1. CASE \E i \in Issues : Unreadable(i)
    BY <2>1, Nothing DEF Snapshot
  <2>2. CASE ~\E i \in Issues : Unreadable(i)
    <3> DEFINE S == {i \in Issues : Offered(i)}
    <3>1. PICK pick \in InOrder(S) :
            todo' = [k \in DOMAIN pick |-> [issue |-> pick[k], status |-> status[pick[k]]]]
      BY <2>2 DEF Snapshot
    <3>2. S \subseteq 1..NumIssues /\ NumIssues \in Nat
      BY CycleAssumption DEF Issues
    <3>3. Cardinality(S) \in Nat /\ S \subseteq Issues
      BY <3>2, Numbers
    <3> HIDE DEF S
    <3>4. pick \in [1..Cardinality(S) -> S] /\ DOMAIN pick = 1..Cardinality(S)
      BY DEF InOrder
    <3>5. \A k \in 1..Cardinality(S) : [issue |-> pick[k], status |-> status[pick[k]]] \in Action
      BY <3>3, <3>4 DEF IInv, TypeOK, Action
    <3>6. todo' \in [1..Cardinality(S) -> Action]
      BY <3>1, <3>4, <3>5
    <3> QED BY <3>3, <3>6
  <2> QED BY <2>1, <2>2
<1>4. TypeOK'
  BY <1>1, <1>2, <1>3 DEF IInv, TypeOK, Cycles
<1> QED
  BY <1>1, <1>2, <1>4, Between

LEMMA Selecting ==
  ASSUME IInv, Select
  PROVE  IInv'
<1>1. UNCHANGED <<status, running, closed, needs, count>> /\ cycle' = NextAction
  BY DEF Select
<1>2. /\ Cardinality(running) \in Nat /\ Cardinality(running) <= MaxImplementers
      /\ MaxImplementers \in Nat /\ todo \in Seq(Action)
  BY RunningFinite, CycleAssumption DEF IInv, Capacity, TypeOK
<1>3. Free \in Nat /\ Cardinality(running) + Free = MaxImplementers
  BY <1>2 DEF Free
<1>4. todo' \in Seq(Action) /\ Cardinality(Starters(todo')) <= Free
  BY <1>2, <1>3, SelectionBounded DEF Select
<1>5. Cardinality(Starters(todo')) \in Nat
  BY <1>4, StartersFinite
<1>6. TypeOK'
  BY <1>1, <1>4, Phase DEF IInv, TypeOK, Cycles
<1>7. Capacity'
  <2>1. Starters(Ahead)' = Starters(todo')
    BY <1>1, Phase DEF Starters, Ahead
  <2>2. Cardinality(running) + Cardinality(Starters(todo')) <= MaxImplementers
    BY <1>2, <1>3, <1>4, <1>5
  <2> QED BY <1>1, <1>2, <2>1, <2>2 DEF Capacity
<1>8. Order' /\ Phases'
  BY <1>1, Phase DEF IInv, Order, DependenciesFirst, Phases
<1> QED
  BY <1>6, <1>7, <1>8 DEF IInv

LEMMA Raising ==
  ASSUME IInv, Raise, count' \in [drags : 0..MaxDrags, closes : 0..MaxCloses, faults : 0..MaxFaults]
  PROVE  IInv'
<1>1. UNCHANGED <<status, running, closed, needs>> /\ todo' = <<>> /\ cycle' = Idle(TRUE)
  BY DEF Raise
<1>2. TypeOK'
  BY <1>1, Phase, Nothing DEF IInv, TypeOK, Cycles
<1> QED
  BY <1>1, <1>2, Phase, Between

LEMMA Finishing ==
  ASSUME IInv, Finish
  PROVE  IInv'
<1>1. UNCHANGED <<status, running, closed, needs, todo, count>> /\ cycle' = Idle(FALSE)
  BY DEF Finish
<1>2. TypeOK'
  BY <1>1, Phase DEF IInv, TypeOK, Cycles
<1> QED
  BY <1>1, <1>2, Phase, Between

LEMMA Beginning ==
  ASSUME IInv, Begin
  PROVE  IInv'
<1>1. CASE ~Fresh
  BY <1>1, Raising DEF Begin, IInv, TypeOK
<1>2. CASE Fresh
  <2>1. /\ cycle' = [cycle EXCEPT !.phase = "apply"] /\ cycle.phase = "next" /\ todo # <<>>
        /\ UNCHANGED <<status, running, closed, needs, todo, count>>
    BY <1>2 DEF Begin
  <2>2. cycle \in Cycles
    BY DEF IInv, TypeOK, Cycles
  <2>3. /\ cycle' \in Cycles /\ cycle'.phase = "apply" /\ cycle'.checked = cycle.checked
        /\ cycle'.started = cycle.started
    BY <2>1, <2>2 DEF Cycles
  <2>4. TypeOK'
    BY <2>1, <2>3 DEF IInv, TypeOK, Cycles
  <2>5. Starters(Ahead)' = Starters(Ahead)
    BY <2>1, <2>3 DEF Starters, Ahead
  <2> QED BY <2>1, <2>3, <2>4, <2>5 DEF IInv, Phases, Capacity, Order, DependenciesFirst, Current
<1> QED
  BY <1>1, <1>2

LEMMA Checking ==
  ASSUME IInv, Check
  PROVE  IInv'
<1>1. CASE Scoped(Current)
  <2>1. /\ cycle' = [cycle EXCEPT !.checked = TRUE] /\ cycle.phase = "apply"
        /\ UNCHANGED <<status, running, closed, needs, todo, count>>
    BY <1>1 DEF Check, Applying
  <2>2. cycle \in Cycles
    BY DEF IInv, TypeOK, Cycles
  <2>3. /\ cycle' \in Cycles /\ cycle'.phase = cycle.phase /\ cycle'.started = cycle.started
    BY <2>1, <2>2 DEF Cycles
  <2>4. TypeOK'
    BY <2>1, <2>3 DEF IInv, TypeOK, Cycles
  <2>5. Starters(Ahead)' = Starters(Ahead)
    BY <2>1, <2>3 DEF Starters, Ahead
  <2>6. needs[Current] \subseteq closed
    BY <1>1 DEF Scoped
  <2> QED BY <2>1, <2>3, <2>4, <2>5, <2>6 DEF IInv, Phases, Capacity, Order, DependenciesFirst, Current
<1>2. CASE ~Scoped(Current)
  <2>1. \/ todo' = Tail(todo) /\ cycle' = NextAction /\ UNCHANGED <<status, running, closed, needs, count>>
        \/ Raise /\ UNCHANGED count
    BY <1>2 DEF Check
  <2>2. cycle.phase = "apply"
    BY DEF Check, Applying
  <2> QED BY <2>1, <2>2, Onto, Raising DEF IInv, TypeOK
<1> QED
  BY <1>1, <1>2

LEMMA Writing ==
  ASSUME IInv, Write
  PROVE  IInv'
<1>1. PICK to \in Targets(Doing) :
        /\ status' = [status EXCEPT ![Current] = to]
        /\ closed' = IF to = "DONE" THEN closed \cup {Current} ELSE closed
  BY DEF Write
<1>2. /\ cycle.phase = "apply" /\ cycle.writes < 2 /\ cycle' = [cycle EXCEPT !.writes = @ + 1]
      /\ UNCHANGED <<running, needs, todo, count>>
  BY DEF Write, Applying
<1>3. cycle \in Cycles
  BY DEF IInv, TypeOK, Cycles
<1>4. /\ cycle' \in Cycles /\ cycle'.phase = cycle.phase /\ cycle'.checked = cycle.checked
      /\ cycle'.started = cycle.started
  BY <1>2, <1>3 DEF Cycles
<1>5. Current \in Issues
  <2>1. todo \in Seq(Action) /\ todo # <<>>
    BY <1>2 DEF IInv, TypeOK, Phases
  <2>2. Head(todo) \in Action
    BY <2>1
  <2> QED BY <2>2 DEF Action, Current
<1>6. to \in Statuses
  BY TargetsKnown
<1>7. TypeOK'
  BY <1>1, <1>2, <1>4, <1>5, <1>6 DEF IInv, TypeOK, Cycles
<1>8. closed \subseteq closed'
  BY <1>1
<1> QED
  BY <1>2, <1>4, <1>7, <1>8, Around

LEMMA Starting ==
  ASSUME IInv, Start
  PROVE  IInv'
<1>1. /\ cycle.phase = "apply" /\ cycle.checked /\ ~cycle.started
      /\ running' = running \cup {Current} /\ cycle' = [cycle EXCEPT !.started = TRUE]
      /\ Starts(Doing) # "none" /\ UNCHANGED <<status, closed, needs, todo, count>>
  BY DEF Start, Applying, Cleared
<1>2. cycle \in Cycles /\ todo \in Seq(Action) /\ todo # <<>>
  BY <1>1 DEF IInv, TypeOK, Cycles, Phases
<1>3. /\ cycle' \in Cycles /\ cycle'.phase = "apply" /\ cycle'.checked /\ cycle'.started
  BY <1>1, <1>2 DEF Cycles
<1>4. Head(todo) \in Action /\ Current \in Issues
  <2>1. Head(todo) \in Action
    BY <1>2
  <2> QED BY <2>1 DEF Action, Current
<1>5. Starter(Head(todo))
  BY <1>1 DEF Starter, Doing
<1>6. TypeOK'
  BY <1>1, <1>3, <1>4 DEF IInv, TypeOK, Cycles
<1>7. Capacity'
  <2>1. Cardinality(running) + Cardinality(Starters(todo)) <= MaxImplementers
    BY <1>1 DEF IInv, Capacity, Ahead
  <2>2. /\ Cardinality(Starters(Tail(todo))) + 1 <= Cardinality(Starters(todo))
        /\ Tail(todo) \in Seq(Action)
    BY <1>2, <1>5, RestStarts
  <2>3. /\ Cardinality(Starters(todo)) \in Nat /\ Cardinality(Starters(Tail(todo))) \in Nat
        /\ MaxImplementers \in Nat
    <3>1. Cardinality(Starters(todo)) \in Nat
      BY <1>2, StartersFinite
    <3>2. Cardinality(Starters(Tail(todo))) \in Nat
      BY <2>2, StartersFinite
    <3> QED BY <3>1, <3>2, CycleAssumption
  <2>4. IsFiniteSet(running) /\ Cardinality(running) \in Nat
    BY RunningFinite DEF IInv
  <2>5. Cardinality(running') \in Nat /\ Cardinality(running') <= Cardinality(running) + 1
    <3>1. IsFiniteSet(running') /\ Cardinality(running') = IF Current \in running THEN Cardinality(running)
                                                           ELSE Cardinality(running) + 1
      BY <1>1, <2>4, FS_AddElement
    <3> QED BY <2>4, <3>1
  <2>6. Starters(Ahead)' = Starters(Tail(todo))
    BY <1>1, <1>3 DEF Ahead, Starters
  <2>7. Cardinality(running') + Cardinality(Starters(Tail(todo))) <= MaxImplementers
    BY <2>1, <2>2, <2>3, <2>4, <2>5
  <2> QED BY <2>3, <2>5, <2>6, <2>7 DEF Capacity
<1>8. Order'
  BY <1>1 DEF IInv, Order, DependenciesFirst, Current
<1>9. Phases'
  BY <1>1, <1>2, <1>3 DEF Phases
<1> QED
  BY <1>6, <1>7, <1>8, <1>9 DEF IInv

LEMMA Outside ==
  ASSUME IInv, NEW i \in Issues, WorkerEnds(i) \/ Drag(i) \/ Resume(i) \/ Close(i)
  PROVE  IInv'
<1>1. /\ UNCHANGED <<needs, todo, cycle>> /\ running' \subseteq running /\ closed \subseteq closed'
  BY DEF WorkerEnds, Drag, Resume, Close
<1>2. status' \in [Issues -> Statuses]
  <2>1. "READY" \in Statuses /\ Held \in Statuses
    BY DEF Statuses, Held
  <2>2. \A to \in Targets("operator") : to \in Statuses
    BY TargetsKnown
  <2> QED BY <2>1, <2>2 DEF IInv, TypeOK, WorkerEnds, Drag, Resume, Close
<1>3. running' \subseteq Issues /\ closed' \subseteq Issues
  BY DEF IInv, TypeOK, WorkerEnds, Drag, Resume, Close
<1>4. count' \in [drags : 0..MaxDrags, closes : 0..MaxCloses, faults : 0..MaxFaults]
  <2>1. count \in [drags : 0..MaxDrags, closes : 0..MaxCloses, faults : 0..MaxFaults]
    BY DEF IInv, TypeOK
  <2> QED BY <2>1, CycleAssumption DEF WorkerEnds, Drag, Resume, Close
<1>5. TypeOK'
  BY <1>1, <1>2, <1>3, <1>4 DEF IInv, TypeOK
<1> QED
  BY <1>1, <1>5, Around

LEMMA Steps ==
  ASSUME IInv, [Next]_vars
  PROVE  IInv'
<1>1. ASSUME CycleSteps PROVE IInv'
  <2>1. ASSUME Return PROVE IInv'
    BY <2>1, Onto DEF Return, Applying
  <2>2. ASSUME Moved PROVE IInv'
    BY <2>2, Raising DEF Moved, IInv, TypeOK
  <2> QED
    BY <1>1, <2>1, <2>2, Snapping, Selecting, Finishing, Beginning, Checking, Writing, Starting
    DEF CycleSteps
<1>2. ASSUME Stops PROVE IInv'
  <2>1. count \in [drags : 0..MaxDrags, closes : 0..MaxCloses, faults : 0..MaxFaults]
    BY DEF IInv, TypeOK
  <2>2. count' \in [drags : 0..MaxDrags, closes : 0..MaxCloses, faults : 0..MaxFaults]
    BY <1>2, <2>1, CycleAssumption DEF Stops
  <2> QED BY <1>2, <2>2, Raising DEF Stops
<1>3. ASSUME NEW i \in Issues, WorkerEnds(i) \/ Drag(i) \/ Resume(i) \/ Close(i) PROVE IInv'
  BY <1>3, Outside
<1>4. ASSUME UNCHANGED vars PROVE IInv'
  BY <1>4, Around DEF vars, IInv, TypeOK
<1> QED
  BY <1>1, <1>2, <1>3, <1>4 DEF Next

(***************************************************************************)
(* The results.                                                            *)
(***************************************************************************)
\* Whatever people and workers do during make_snapshot and apply: the actions
\* that are still selected have their places.
THEOREM CycleInvariant == Spec => []IInv
<1>1. Init => IInv
  BY Initially
<1>2. IInv /\ [Next]_vars => IInv'
  BY Steps
<1> QED
  BY <1>1, <1>2, PTL DEF Spec

\* The variables keep their types: no handler writes more often than it may.
THEOREM TypesKept == Spec => []TypeOK
<1>1. IInv => TypeOK
  BY DEF IInv
<1> QED
  BY <1>1, CycleInvariant, PTL

\* main counts the free places once per cycle; still no more implementers run
\* than HARNESS_MAX_IMPLEMENTERS allows.
THEOREM CapacityKept == Spec => []WithinCapacity
<1>1. IInv => WithinCapacity
  BY DEF IInv, Capacity, WithinCapacity
<1> QED
  BY <1>1, CycleInvariant, PTL

\* trusted_issue_scope is read before an implementer starts, and blockers are
\* not opened again: none runs for an issue with an open blocker.
THEOREM DependenciesKept == Spec => []DependenciesFirst
<1>1. IInv => DependenciesFirst
  BY DEF IInv, Order
<1> QED
  BY <1>1, CycleInvariant, PTL
=============================================================================
