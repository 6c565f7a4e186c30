---------------------------- MODULE JournalProof ----------------------------
(***************************************************************************)
(* What the journal keeps whatever the limits, the clients and the number  *)
(* of events, deaths and broken connections: its checkpoint can be opened, *)
(* nothing that was published is taken back, and every client sees the     *)
(* log.  The invariant relates four places that hold the same events: the  *)
(* checkpoint, the memory, the streams on their way, and the clients.      *)
(***************************************************************************)
EXTENDS Journal, FiniteSetTheorems, TLAPS

(***************************************************************************)
(* The parts of the invariant.                                             *)
(***************************************************************************)
\* A state that Append may start from.
Good(s) == s \in State /\ IsFiniteSet(s.pending) /\ Valid(s)

\* The state s holds the end of the log l.
Holds(s, l) ==
  /\ s.cursor = Len(l)
  /\ \A i \in 1..Len(s.events) : s.events[i].data = l[s.events[i].id]

\* The events q come after position at, in the order and with the data of l.
Follows(q, at, l) ==
  \A k \in 1..Len(q) : q[k].id = at + k /\ at + k <= Len(l) /\ q[k].data = l[at + k]

\* The checkpoint is as it should be, and so is the memory of a running process.
Stored ==
  /\ log \in Seq(Payloads) /\ ahead \in Seq(Payloads)
  /\ up \in BOOLEAN /\ writing \in BOOLEAN
  /\ Good(file) /\ Holds(file, log \o ahead)
  /\ up => Good(mem) /\ Holds(mem, log)
  /\ writing => up
  /\ up /\ ~writing => ahead = <<>> /\ file = mem

\* The stream t serves the client c, which is at position at: its frames and its
\* batch continue what the client has.
Serves(t, c, at, l) ==
  /\ t.of = c /\ t.live /\ t.phase # "none"
  /\ t.cursor = at + Len(t.wire)
  /\ Follows(t.wire, at, l) /\ Follows(t.batch, t.cursor, l)
Served(c) == client[c].slot # 0 => Serves(stream[client[c].slot], c, client[c].at, log)

\* What a client has is a part of the log.
Seen(v, l) == v.after <= v.at /\ v.at <= Len(l) /\ v.has = SubSeq(l, v.after + 1, v.at)

Typed ==
  /\ mem \in State /\ Len(mem.events) <= Retain
  /\ stream \in [Slots -> Stream] /\ client \in [Clients -> Client]
  /\ count \in [crashes : Nat, drops : Nat]

IInv == Typed /\ Stored /\ \A c \in Clients : Served(c) /\ Seen(client[c], log)

(***************************************************************************)
(* Sequences of events.                                                    *)
(***************************************************************************)
LEMMA Element ==
  ASSUME NEW S, NEW q \in Seq(S), NEW i \in 1..Len(q)
  PROVE  q[i] \in S
  OBVIOUS

LEMMA EventAt ==
  ASSUME NEW q \in Seq(Event), NEW i \in 1..Len(q)
  PROVE  q[i] \in Event /\ q[i].id \in Nat /\ q[i].data \in Payloads
<1>1. q[i] \in Event
  BY Element
<1> QED
  BY <1>1 DEF Event

LEMMA Joined ==
  ASSUME NEW a \in Seq(Event), NEW b \in Seq(Event), NEW q, q = a \o b
  PROVE  /\ q \in Seq(Event)
         /\ Len(q) = Len(a) + Len(b)
         /\ \A i \in 1..Len(a) : q[i] = a[i]
         /\ \A i \in 1..Len(b) : q[Len(a) + i] = b[i]
  OBVIOUS

LEMMA Longer ==
  ASSUME NEW l \in Seq(Payloads), NEW a \in Seq(Payloads), NEW m, m = l \o a
  PROVE  /\ m \in Seq(Payloads) /\ Len(m) = Len(l) + Len(a)
         /\ \A i \in 1..Len(l) : m[i] = l[i]
         /\ \A i \in 1..Len(a) : m[Len(l) + i] = a[i]
         /\ SubSeq(m, 1, Len(l)) = l
         /\ \A i \in Nat \ {0} : \A j \in 0..Len(l) : SubSeq(m, i, j) = SubSeq(l, i, j)
<1>1. /\ m \in Seq(Payloads) /\ Len(m) = Len(l) + Len(a)
      /\ \A i \in 1..Len(l) : m[i] = l[i]
      /\ \A i \in 1..Len(a) : m[Len(l) + i] = a[i]
  OBVIOUS
<1>2. \A i \in Nat \ {0} : \A j \in 0..Len(l) : SubSeq(m, i, j) = SubSeq(l, i, j)
  BY <1>1
<1>3. SubSeq(m, 1, Len(l)) = l
  BY <1>1
<1> QED
  BY <1>1, <1>2, <1>3

LEMMA SamePrefix ==
  \A l, a \in Seq(Payloads) : \A i \in Nat \ {0} : \A j \in 0..Len(l) :
    SubSeq(l \o a, i, j) = SubSeq(l, i, j)
  BY Longer

LEMMA NewestWindow ==
  ASSUME NEW q \in Seq(Event)
  PROVE  /\ Newest(q) \in Seq(Event)
         /\ Len(Newest(q)) <= Retain /\ Len(Newest(q)) <= Len(q)
         /\ q # <<>> => Newest(q) # <<>>
         /\ \A i \in 1..Len(Newest(q)) : Newest(q)[i] = q[Len(q) - Len(Newest(q)) + i]
<1>1. CASE Len(q) <= Retain
  BY <1>1 DEF Newest
<1>2. CASE ~(Len(q) <= Retain)
  <2>1. Newest(q) = SubSeq(q, Len(q) - Retain + 1, Len(q))
    BY <1>2 DEF Newest
  <2>2. Len(q) \in Nat /\ Retain \in Nat \ {0} /\ Len(q) > Retain
    BY <1>2, JournalAssumption
  <2>3. /\ Newest(q) \in Seq(Event) /\ Len(Newest(q)) = Retain
        /\ \A i \in 1..Len(Newest(q)) : Newest(q)[i] = q[Len(q) - Retain + i]
    BY <2>1, <2>2
  <2> QED BY <2>2, <2>3
<1> QED
  BY <1>1, <1>2

LEMMA DataOf ==
  ASSUME NEW q \in Seq(Event)
  PROVE  /\ Data(q) \in Seq(Payloads) /\ Len(Data(q)) = Len(q)
         /\ \A i \in 1..Len(q) : Data(q)[i] = q[i].data
<1>1. Len(q) \in Nat /\ \A i \in 1..Len(q) : q[i].data \in Payloads
  BY EventAt
<1>2. Data(q) \in [1..Len(q) -> Payloads]
  BY <1>1 DEF Data
<1> QED
  BY <1>1, <1>2 DEF Data

\* Every identifier up to n is waiting, so the gap is closed by events.
LEMMA ClosedGap ==
  ASSUME NEW s \in State, NEW e \in Event, NEW n \in Nat, Reaches(s, e, n)
  PROVE  /\ Closed(s, e, n) \in Seq(Event) /\ Len(Closed(s, e, n)) = n - s.cursor
         /\ \A i \in 1..(n - s.cursor) : Closed(s, e, n)[i].id = s.cursor + i
<1>1. s.cursor \in Nat /\ s.cursor <= n /\ Waiting(s, e) \subseteq Event
  BY DEF State, Waiting, Reaches
<1>2. ASSUME NEW i \in 1..(n - s.cursor)
      PROVE  /\ Closed(s, e, n)[i] \in Event
             /\ Closed(s, e, n)[i].id = s.cursor + i
  <2>1. s.cursor + i \in Ids(Waiting(s, e))
    BY <1>1 DEF Reaches
  <2>2. \E p \in Waiting(s, e) : p.id = s.cursor + i
    BY <2>1 DEF Ids
  <2>3. Closed(s, e, n)[i] = CHOOSE p \in Waiting(s, e) : p.id = s.cursor + i
    BY DEF Closed
  <2> QED BY <1>1, <2>2, <2>3
<1>3. Closed(s, e, n) \in [1..(n - s.cursor) -> Event]
  BY <1>2 DEF Closed
<1> QED
  BY <1>1, <1>2, <1>3

(***************************************************************************)
(* Append: the next state is valid again, and holds the longer log.        *)
(***************************************************************************)
\* The buffer never exceeds its limit: either the event closes a gap and is
\* not buffered, or there was room for it.
LEMMA BufferBounded ==
  ASSUME NEW s, Good(s), NEW e \in Event, NEW n \in Nat, Reaches(s, e, n),
         e.id = s.cursor + 1 \/ Cardinality(s.pending) < Pending
  PROVE  LET rest == {p \in Waiting(s, e) : p.id > n}
         IN IsFiniteSet(rest) /\ Cardinality(rest) <= Pending
<1> DEFINE rest == {p \in Waiting(s, e) : p.id > n}
<1>1. /\ IsFiniteSet(s.pending) /\ Cardinality(s.pending) <= Pending /\ Pending \in Nat
      /\ s.cursor \in Nat /\ s.cursor <= n /\ Cardinality(s.pending) \in Nat
  BY JournalAssumption, FS_CardinalityType DEF Good, Valid, State, Reaches
<1>2. CASE e.id = s.cursor + 1
  <2>1. n # s.cursor
    BY <1>1, <1>2 DEF Reaches, Ids, Waiting
  <2>2. rest \subseteq s.pending
    BY <1>1, <1>2, <2>1 DEF Waiting, Event
  <2>3. IsFiniteSet(rest) /\ Cardinality(rest) <= Cardinality(s.pending)
    BY <1>1, <2>2, FS_Subset
  <2>4. Cardinality(rest) \in Nat
    BY <2>3, FS_CardinalityType
  <2> QED BY <1>1, <2>3, <2>4
<1>3. CASE Cardinality(s.pending) < Pending
  <2>1. /\ IsFiniteSet(Waiting(s, e))
        /\ Cardinality(Waiting(s, e)) <= Cardinality(s.pending) + 1
    BY <1>1, FS_AddElement DEF Waiting
  <2>2. IsFiniteSet(rest) /\ Cardinality(rest) <= Cardinality(Waiting(s, e))
    BY <2>1, FS_Subset
  <2>3. Cardinality(rest) \in Nat /\ Cardinality(Waiting(s, e)) \in Nat
    BY <2>1, <2>2, FS_CardinalityType
  <2> QED BY <1>1, <1>3, <2>1, <2>2, <2>3
<1> QED
  BY <1>2, <1>3

\* The retained events with those that close the gap.
LEMMA Extended ==
  ASSUME NEW s, Good(s), NEW e \in Event, NEW n \in Nat, Reaches(s, e, n)
  PROVE  LET q == s.events \o Closed(s, e, n)
         IN /\ q \in Seq(Event) /\ Len(q) <= n /\ (n > 0 => q # <<>>)
            /\ \A i \in 1..Len(q) : q[i].id + Len(q) = n + i
<1> DEFINE closed == Closed(s, e, n)
           q == s.events \o closed
<1>1. /\ s \in State /\ s.events \in Seq(Event) /\ s.cursor \in Nat /\ s.cursor <= n
      /\ Len(s.events) \in Nat /\ Len(s.events) <= s.cursor
  BY DEF Good, Valid, Consecutive, State, Reaches
<1>2. /\ closed \in Seq(Event) /\ Len(closed) = n - s.cursor
      /\ \A i \in 1..(n - s.cursor) : closed[i].id = s.cursor + i
  BY <1>1, ClosedGap
<1> HIDE DEF closed
<1>3. /\ q \in Seq(Event) /\ Len(q) = Len(s.events) + (n - s.cursor)
      /\ \A i \in 1..Len(s.events) : q[i] = s.events[i]
      /\ \A i \in 1..Len(closed) : q[Len(s.events) + i] = closed[i]
  <2>1. s.events \in Seq(Event) /\ closed \in Seq(Event)
    BY <1>1, <1>2
  <2>2. /\ q \in Seq(Event) /\ Len(q) = Len(s.events) + Len(closed)
        /\ \A i \in 1..Len(s.events) : q[i] = s.events[i]
        /\ \A i \in 1..Len(closed) : q[Len(s.events) + i] = closed[i]
    BY <2>1, Joined
  <2> QED BY <1>2, <2>2
<1> HIDE DEF q
<1>4. n > 0 => q # <<>>
  BY <1>1, <1>3 DEF Good, Valid
<1>5. ASSUME NEW i \in 1..Len(q) PROVE q[i].id + Len(q) = n + i
  <2>1. CASE i <= Len(s.events)
    <3>1. q[i] = s.events[i] /\ i \in 1..Len(s.events)
      BY <1>1, <1>2, <1>3, <2>1
    <3>2. s.events[i].id + Len(s.events) = s.cursor + i
      BY <3>1 DEF Good, Valid, Consecutive
    <3>3. q[i].id \in Nat /\ q[i].id + Len(s.events) = s.cursor + i
      BY <1>1, <3>1, <3>2, EventAt
    <3>4. n \in Nat /\ i \in Nat /\ Len(q) = Len(s.events) + (n - s.cursor)
      BY <1>1, <1>3
    <3>5. s.cursor \in Nat /\ Len(s.events) \in Nat
      BY <1>1
    <3> DEFINE id == q[i].id
               old == Len(s.events)
               cursor == s.cursor
    <3>6. /\ id \in Nat /\ old \in Nat /\ cursor \in Nat /\ id + old = cursor + i
          /\ Len(q) = old + (n - cursor)
      BY <3>3, <3>4, <3>5
    <3> HIDE DEF id, old, cursor
    <3>7. id + (old + (n - cursor)) = n + i
      BY <3>4, <3>6
    <3>8. id + Len(q) = n + i
      BY <3>6, <3>7, Zenon
    <3> QED BY <3>8, Zenon DEF id
  <2>2. CASE i > Len(s.events)
    <3>1. i - Len(s.events) \in 1..(n - s.cursor) /\ i = Len(s.events) + (i - Len(s.events))
      BY <1>1, <1>3, <2>2
    <3>2. q[i] = closed[i - Len(s.events)]
      BY <1>2, <1>3, <3>1
    <3>3. q[i].id = s.cursor + (i - Len(s.events))
      BY <1>2, <3>1, <3>2
    <3>4. n \in Nat /\ i \in Nat /\ Len(q) = Len(s.events) + (n - s.cursor)
      BY <1>1, <1>3
    <3> QED BY <1>1, <3>3, <3>4
  <2> QED BY <1>1, <2>1, <2>2
<1>6. Len(q) <= n
  <2>1. Len(q) = Len(s.events) + (n - s.cursor)
    BY <1>3
  <2> QED BY <1>1, <2>1
<1>7. /\ q \in Seq(Event) /\ Len(q) <= n /\ (n > 0 => q # <<>>)
      /\ \A i \in 1..Len(q) : q[i].id + Len(q) = n + i
  BY <1>3, <1>4, <1>5, <1>6, Zenon
<1> QED
  BY <1>7, Zenon DEF q, closed

LEMMA AppendGood ==
  ASSUME NEW s, Good(s), NEW e \in Event, NEW n \in Nat, Reaches(s, e, n),
         e.id > s.cursor, e.id \notin Ids(s.pending),
         e.id = s.cursor + 1 \/ Cardinality(s.pending) < Pending
  PROVE  Good(Drained(s, e, n))
<1> DEFINE q == s.events \o Closed(s, e, n)
           rest == {p \in Waiting(s, e) : p.id > n}
           t == Drained(s, e, n)
<1>1. /\ q \in Seq(Event) /\ Len(q) \in Nat /\ Len(q) <= n /\ (n > 0 => q # <<>>)
      /\ \A i \in 1..Len(q) : q[i].id + Len(q) = n + i
  BY Extended
<1>2. t.cursor = n /\ t.events = Newest(q) /\ t.pending = rest
  BY DEF Drained
<1>3. IsFiniteSet(rest) /\ Cardinality(rest) <= Pending
  BY BufferBounded
<1>4. /\ Waiting(s, e) \subseteq Event
      /\ \A f, g \in Waiting(s, e) : f.id = g.id => f = g
  BY DEF Good, Valid, State, Waiting, Ids
<1>5. rest \in SUBSET Event /\ \A f, g \in rest : f.id = g.id => f = g
  BY <1>4
<1>6. \A f \in rest : f.id > n + 1
  BY <1>4 DEF Reaches, Ids, Event
<1> HIDE DEF q, rest
<1>7. /\ Newest(q) \in Seq(Event)
      /\ Len(Newest(q)) <= Retain /\ Len(Newest(q)) <= Len(q)
      /\ q # <<>> => Newest(q) # <<>>
      /\ \A i \in 1..Len(Newest(q)) : Newest(q)[i] = q[Len(q) - Len(Newest(q)) + i]
  BY <1>1, NewestWindow
<1>8. t \in State
  BY <1>5, <1>7 DEF Drained, State, q, rest
<1>9. Consecutive(t)
  <2>1. Len(Newest(q)) \in Nat
    BY <1>7
  <2>2. ASSUME NEW i \in 1..Len(Newest(q))
        PROVE  Newest(q)[i].id + Len(Newest(q)) = n + i
    <3>1. Len(q) - Len(Newest(q)) + i \in 1..Len(q)
      BY <1>1, <1>7, <2>1
    <3>2. Newest(q)[i].id + Len(q) = n + (Len(q) - Len(Newest(q)) + i)
      BY <1>1, <1>7, <3>1
    <3>3. Newest(q)[i].id \in Nat
      BY <1>7, EventAt
    <3>4. n \in Nat /\ i \in Nat /\ Len(q) \in Nat
      BY <1>1
    <3> DEFINE id == Newest(q)[i].id
               old == Len(q)
               new == Len(Newest(q))
    <3>5. /\ id \in Nat /\ old \in Nat /\ new \in Nat /\ n \in Nat /\ i \in Nat
          /\ id + old = n + (old - new + i)
      BY <2>1, <3>2, <3>3, <3>4, Zenon
    <3> HIDE DEF id, old, new
    <3>6. id + new = n + i
      BY <3>5
    <3> QED BY <3>6, Zenon DEF id, new
  <2> QED BY <1>1, <1>2, <1>7, <2>1, <2>2 DEF Consecutive
<1>10. Valid(t)
  <2>1. t.cursor > 0 => t.events # <<>>
    BY <1>1, <1>2, <1>7, Zenon
  <2>2. Len(t.events) <= Retain /\ Cardinality(t.pending) <= Pending
    BY <1>2, <1>3, <1>7, Zenon
  <2>3. /\ \A f \in t.pending : f.id > t.cursor + 1
        /\ \A f, g \in t.pending : f.id = g.id => f = g
    BY <1>2, <1>5, <1>6, Zenon
  <2> HIDE DEF t
  <2> QED BY <1>9, <2>1, <2>2, <2>3, Zenon DEF Valid
<1> QED
  BY <1>2, <1>3, <1>8, <1>10 DEF Good

LEMMA AppendHolds ==
  ASSUME NEW s, Good(s), NEW e \in Event, NEW n \in Nat, Reaches(s, e, n),
         NEW l \in Seq(Payloads), Holds(s, l)
  PROVE  /\ Data(Closed(s, e, n)) \in Seq(Payloads)
         /\ Holds(Drained(s, e, n), l \o Data(Closed(s, e, n)))
<1> DEFINE closed == Closed(s, e, n)
           q == s.events \o closed
           m == l \o Data(closed)
<1>1. /\ s \in State /\ s.events \in Seq(Event) /\ s.cursor = Len(l)
      /\ s.cursor \in Nat /\ s.cursor <= n /\ Len(s.events) \in Nat /\ Len(s.events) <= s.cursor
  BY DEF Good, Valid, Consecutive, State, Reaches, Holds
<1>2. /\ closed \in Seq(Event) /\ Len(closed) = n - s.cursor
      /\ \A i \in 1..(n - s.cursor) : closed[i].id = s.cursor + i
  BY <1>1, ClosedGap
<1>3. /\ Data(closed) \in Seq(Payloads) /\ Len(Data(closed)) = n - s.cursor
      /\ \A i \in 1..(n - s.cursor) : Data(closed)[i] = closed[i].data
  BY <1>2, DataOf
<1> HIDE DEF closed
<1>4. /\ Len(m) = n
      /\ \A i \in 1..Len(l) : m[i] = l[i]
      /\ \A i \in 1..(n - s.cursor) : m[s.cursor + i] = closed[i].data
  BY <1>1, <1>3, Longer
<1>5. /\ q \in Seq(Event) /\ Len(q) = Len(s.events) + (n - s.cursor)
      /\ \A i \in 1..Len(s.events) : q[i] = s.events[i]
      /\ \A i \in 1..(n - s.cursor) : q[Len(s.events) + i] = closed[i]
  <2>1. s.events \in Seq(Event) /\ closed \in Seq(Event)
    BY <1>1, <1>2
  <2>2. /\ q \in Seq(Event) /\ Len(q) = Len(s.events) + Len(closed)
        /\ \A i \in 1..Len(s.events) : q[i] = s.events[i]
        /\ \A i \in 1..Len(closed) : q[Len(s.events) + i] = closed[i]
    BY <2>1, Joined
  <2> QED BY <1>2, <2>2
<1> HIDE DEF q, m
<1>6. ASSUME NEW i \in 1..Len(q) PROVE q[i].data = m[q[i].id]
  <2>1. CASE i <= Len(s.events)
    <3>1. q[i] = s.events[i] /\ i \in 1..Len(s.events)
      BY <1>1, <1>5, <2>1
    <3>2. s.events[i].id + Len(s.events) = s.cursor + i /\ s.events[i].data = l[s.events[i].id]
      BY <3>1 DEF Good, Valid, Consecutive, Holds
    <3>3. s.events[i].id \in Nat
      BY <1>1, <3>1, EventAt
    <3> DEFINE id == s.events[i].id
               size == Len(s.events)
               cursor == s.cursor
    <3>4. id \in 1..Len(l)
      <4>1. /\ id \in Nat /\ size \in Nat /\ cursor \in Nat /\ Len(l) \in Nat /\ i \in 1..size
            /\ id + size = cursor + i /\ size <= cursor /\ cursor = Len(l)
        BY <1>1, <3>1, <3>2, <3>3, Zenon
      <4> HIDE DEF id, size, cursor
      <4> QED BY <4>1
    <3> QED BY <1>4, <3>1, <3>2, <3>4
  <2>2. CASE i > Len(s.events)
    <3>1. i - Len(s.events) \in 1..(n - s.cursor) /\ i = Len(s.events) + (i - Len(s.events))
      BY <1>1, <1>5, <2>2
    <3>2. q[i] = closed[i - Len(s.events)]
      BY <1>5, <3>1
    <3>3. q[i].id = s.cursor + (i - Len(s.events))
      BY <1>2, <3>1, <3>2
    <3> QED BY <1>4, <3>1, <3>2, <3>3
  <2> QED BY <1>1, <2>1, <2>2
<1>7. \A i \in 1..Len(Newest(q)) : Newest(q)[i].data = m[Newest(q)[i].id]
  <2>1. /\ Newest(q) \in Seq(Event) /\ Len(Newest(q)) <= Len(q)
        /\ \A i \in 1..Len(Newest(q)) : Newest(q)[i] = q[Len(q) - Len(Newest(q)) + i]
    BY <1>5, NewestWindow
  <2>2. \A i \in 1..Len(Newest(q)) : Len(q) - Len(Newest(q)) + i \in 1..Len(q)
    BY <1>5, <2>1
  <2> QED BY <1>6, <2>1, <2>2
<1>8. Drained(s, e, n).cursor = n /\ Drained(s, e, n).events = Newest(q)
  BY DEF Drained, q, closed
<1> QED
  BY <1>3, <1>4, <1>7, <1>8 DEF Holds, m, closed

(***************************************************************************)
(* Reading.                                                                *)
(***************************************************************************)
LEMMA FollowsTail ==
  ASSUME NEW q \in Seq(Event), q # <<>>, NEW at \in Nat, NEW l, Len(l) \in Nat, Follows(q, at, l)
  PROVE  /\ Tail(q) \in Seq(Event) /\ Len(Tail(q)) = Len(q) - 1 /\ Follows(Tail(q), at + 1, l)
         /\ Head(q) \in Event /\ Head(q).id = at + 1 /\ Head(q).data = l[at + 1]
         /\ at + 1 <= Len(l)
<1>1. Len(q) \in Nat \ {0} /\ Head(q) = q[1] /\ 1 \in 1..Len(q)
  OBVIOUS
<1>2. /\ Tail(q) \in Seq(Event) /\ Len(Tail(q)) = Len(q) - 1
      /\ \A k \in 1..Len(Tail(q)) : Tail(q)[k] = q[k + 1]
  BY <1>1
<1>3. Head(q) \in Event
  BY <1>1, EventAt
<1>4. ASSUME NEW k \in 1..Len(Tail(q))
      PROVE  Tail(q)[k].id = at + 1 + k /\ at + 1 + k <= Len(l) /\ Tail(q)[k].data = l[at + 1 + k]
  <2>1. k + 1 \in 1..Len(q) /\ at + (k + 1) = at + 1 + k
    BY <1>1, <1>2
  <2> QED BY <1>2, <2>1 DEF Follows
<1> QED
  BY <1>1, <1>2, <1>3, <1>4 DEF Follows

LEMMA FollowsAppend ==
  ASSUME NEW q \in Seq(Event), NEW at \in Nat, NEW l, Follows(q, at, l), NEW e \in Event,
         e.id = at + Len(q) + 1, e.id <= Len(l), e.data = l[e.id]
  PROVE  Append(q, e) \in Seq(Event) /\ Len(Append(q, e)) = Len(q) + 1 /\ Follows(Append(q, e), at, l)
<1>1. /\ Len(q) \in Nat /\ Append(q, e) \in Seq(Event) /\ Len(Append(q, e)) = Len(q) + 1
      /\ Append(q, e)[Len(q) + 1] = e
      /\ \A k \in 1..Len(q) : Append(q, e)[k] = q[k]
  OBVIOUS
<1>2. ASSUME NEW k \in 1..(Len(q) + 1)
      PROVE  /\ Append(q, e)[k].id = at + k /\ at + k <= Len(l)
             /\ Append(q, e)[k].data = l[at + k]
  <2>1. CASE k \in 1..Len(q)
    BY <1>1, <2>1 DEF Follows
  <2>2. CASE k = Len(q) + 1
    BY <1>1, <2>2
  <2> QED BY <1>1, <2>1, <2>2
<1> QED
  BY <1>1, <1>2 DEF Follows

LEMMA FollowsLonger ==
  ASSUME NEW q \in Seq(Event), NEW at \in Nat, NEW l \in Seq(Payloads), NEW a \in Seq(Payloads),
         Follows(q, at, l)
  PROVE  Follows(q, at, l \o a)
<1>1. /\ Len(l \o a) = Len(l) + Len(a) /\ Len(l) \in Nat /\ Len(a) \in Nat
      /\ \A i \in 1..Len(l) : (l \o a)[i] = l[i]
  BY Longer
<1>2. ASSUME NEW k \in 1..Len(q)
      PROVE  at + k <= Len(l \o a) /\ (l \o a)[at + k] = l[at + k]
  BY <1>1 DEF Follows
<1> QED
  BY <1>2 DEF Follows

LEMMA Position ==
  ASSUME NEW s, Good(s), NEW i \in 1..Len(s.events)
  PROVE  s.events[i].id = (s.cursor - Len(s.events)) + i
<1>1. s.events \in Seq(Event) /\ s.cursor \in Nat /\ Len(s.events) \in Nat
  BY DEF Good, State
<1>2. s.events[i].id + Len(s.events) = s.cursor + i
  BY DEF Good, Valid, Consecutive
<1>3. s.events[i].id \in Nat
  BY <1>1, EventAt
<1> QED
  BY <1>1, <1>2, <1>3

\* What ReadAfter answers continues the position it is asked for.
LEMMA AfterFollows ==
  ASSUME Good(mem), Holds(mem, log), log \in Seq(Payloads), NEW at \in Nat, Readable(at)
  PROVE  After(at) \in Seq(Event) /\ Follows(After(at), at, log)
<1> DEFINE from == at - Oldest
<1>1. /\ mem.events \in Seq(Event) /\ Len(mem.events) \in Nat /\ mem.cursor \in Nat
      /\ Len(mem.events) <= mem.cursor /\ mem.cursor = Len(log)
  BY DEF Good, Valid, Consecutive, State, Holds
<1>2. Oldest \in Nat /\ from \in Nat /\ from <= Len(mem.events)
      /\ at + Len(mem.events) = mem.cursor + from
  BY <1>1 DEF Readable, Oldest
<1>3. After(at) = SubSeq(mem.events, from + 1, Len(mem.events))
  <2>1. ~(at < Oldest)
    BY <1>1, <1>2 DEF Readable
  <2> QED BY <2>1 DEF After
<1> HIDE DEF from
<1>4. /\ After(at) \in Seq(Event) /\ Len(After(at)) = Len(mem.events) - from
      /\ \A k \in 1..Len(After(at)) : After(at)[k] = mem.events[from + k]
  BY <1>1, <1>2, <1>3
<1>5. ASSUME NEW k \in 1..Len(After(at))
      PROVE  After(at)[k].id = at + k /\ at + k <= Len(log) /\ After(at)[k].data = log[at + k]
  <2>1. from + k \in 1..Len(mem.events) /\ k \in Nat
    BY <1>1, <1>2, <1>4
  <2>2. /\ mem.events[from + k].id = (mem.cursor - Len(mem.events)) + (from + k)
        /\ mem.events[from + k].data = log[mem.events[from + k].id]
    BY <2>1, Position DEF Holds
  <2>3. at = mem.cursor + from - Len(mem.events)
    BY <1>1, <1>2
  <2>4. mem.events[from + k].id = at + k
    BY <1>1, <1>2, <2>1, <2>2, <2>3
  <2>5. at + k <= Len(log)
    BY <1>1, <1>2, <2>1, <2>3
  <2> QED BY <1>4, <2>2, <2>4, <2>5
<1> QED
  BY <1>4, <1>5 DEF Follows

\* A snapshot is the end of the log.
LEMMA SnapshotSeen ==
  ASSUME Good(mem), Holds(mem, log), log \in Seq(Payloads)
  PROVE  /\ Oldest \in 0..mem.cursor /\ mem.cursor = Len(log)
         /\ Data(mem.events) \in Seq(Payloads)
         /\ Data(mem.events) = SubSeq(log, Oldest + 1, mem.cursor)
<1>1. /\ mem.events \in Seq(Event) /\ Len(mem.events) \in Nat /\ mem.cursor \in Nat
      /\ Len(mem.events) <= mem.cursor /\ mem.cursor = Len(log)
  BY DEF Good, Valid, Consecutive, State, Holds
<1>2. Oldest \in 0..mem.cursor /\ mem.cursor - Oldest = Len(mem.events)
  BY <1>1 DEF Oldest
<1>3. /\ Data(mem.events) \in Seq(Payloads) /\ Len(Data(mem.events)) = Len(mem.events)
      /\ \A i \in 1..Len(mem.events) : Data(mem.events)[i] = mem.events[i].data
  BY <1>1, DataOf
<1> DEFINE window == SubSeq(log, Oldest + 1, mem.cursor)
<1>4. /\ window \in Seq(Payloads) /\ Len(window) = Len(mem.events)
      /\ \A i \in 1..Len(window) : window[i] = log[Oldest + i]
  BY <1>1, <1>2
<1>5. ASSUME NEW i \in 1..Len(mem.events) PROVE mem.events[i].data = log[Oldest + i]
  <2>1. /\ mem.events[i].id = (mem.cursor - Len(mem.events)) + i
        /\ mem.events[i].data = log[mem.events[i].id]
    BY Position DEF Holds
  <2> QED BY <2>1 DEF Oldest
<1> HIDE DEF window
<1>6. Data(mem.events) = window
  BY <1>3, <1>4, <1>5
<1> QED
  BY <1>1, <1>2, <1>3, <1>6 DEF window

(***************************************************************************)
(* What the steps have in common.                                          *)
(***************************************************************************)
Storage == <<mem, file, up, writing, log, ahead>>

\* A step that leaves the store and all clients alone but c, and all streams but
\* those that serve nobody else.
LEMMA ReaderKeeps ==
  ASSUME IInv, UNCHANGED Storage, NEW c \in Clients, NEW v \in Client,
         client' = [client EXCEPT ![c] = v], stream' \in [Slots -> Stream],
         count' \in [crashes : Nat, drops : Nat],
         Seen(v, log), v.slot # 0 => Serves(stream'[v.slot], c, v.at, log),
         \A d \in Clients \ {c} :
           client[d].slot # 0 => stream'[client[d].slot] = stream[client[d].slot]
  PROVE  IInv'
<1>1. client' \in [Clients -> Client] /\ client'[c] = v /\ \A d \in Clients \ {c} : client'[d] = client[d]
  BY DEF IInv, Typed
<1>2. Stored' /\ Typed' /\ log' = log
  BY <1>1 DEF IInv, Stored, Typed, Storage, Good, Holds, Valid, Consecutive
<1>3. ASSUME NEW d \in Clients PROVE Served(d)' /\ Seen(client[d], log)'
  <2>1. CASE d = c
    BY <1>1, <1>2, <2>1 DEF Served
  <2>2. CASE d # c
    <3>1. client'[d] = client[d] /\ Served(d) /\ Seen(client[d], log)
      BY <1>1, <2>2 DEF IInv
    <3>2. client[d].slot # 0 => stream'[client[d].slot] = stream[client[d].slot]
      BY <2>2
    <3> QED BY <1>2, <3>1, <3>2 DEF Served
  <2> QED BY <2>1, <2>2
<1> QED
  BY <1>2, <1>3 DEF IInv

\* A step of the goroutine of one stream.
LEMMA StreamKeeps ==
  ASSUME IInv, UNCHANGED <<Storage, client, count>>, NEW s \in Slots, NEW t \in Stream,
         stream' = [stream EXCEPT ![s] = t],
         \A c \in Clients : client[c].slot = s => Serves(t, c, client[c].at, log)
  PROVE  IInv'
<1>1. stream' \in [Slots -> Stream] /\ stream'[s] = t /\ \A r \in Slots \ {s} : stream'[r] = stream[r]
  BY DEF IInv, Typed
<1>2. Stored' /\ Typed' /\ log' = log /\ client' = client
  BY <1>1 DEF IInv, Stored, Typed, Storage, Good, Holds, Valid, Consecutive
<1>3. ASSUME NEW c \in Clients PROVE Served(c)' /\ Seen(client[c], log)'
  <2>1. client[c].slot \in 0..MaxStreams /\ Served(c) /\ Seen(client[c], log)
    BY DEF IInv, Typed, Client
  <2>2. client[c].slot \notin {0, s} => stream'[client[c].slot] = stream[client[c].slot]
    BY <1>1, <2>1 DEF Slots
  <2> QED BY <1>1, <1>2, <2>1, <2>2 DEF Served
<1> QED
  BY <1>2, <1>3 DEF IInv

\* The log grows, and the streams are at most notified.
LEMMA GrowthKeeps ==
  ASSUME IInv, log' = log \o ahead, client' = client, stream' \in [Slots -> Stream],
         \A s \in Slots : \E b \in BOOLEAN : stream'[s] = [stream[s] EXCEPT !.notified = b]
  PROVE  \A c \in Clients : Served(c)' /\ Seen(client[c], log)'
<1>1. log \in Seq(Payloads) /\ ahead \in Seq(Payloads)
  BY DEF IInv, Stored
<1>2. /\ Len(log) \in Nat /\ Len(log') \in Nat /\ Len(log) <= Len(log')
      /\ \A i \in Nat \ {0} : \A j \in 0..Len(log) : SubSeq(log', i, j) = SubSeq(log, i, j)
  <2>1. Len(log \o ahead) = Len(log) + Len(ahead) /\ Len(log) \in Nat /\ Len(ahead) \in Nat
    BY <1>1
  <2>2. Len(log') \in Nat /\ Len(log) <= Len(log')
    BY <2>1
  <2>3. \A i \in Nat \ {0} : \A j \in 0..Len(log) : SubSeq(log \o ahead, i, j) = SubSeq(log, i, j)
    BY <1>1, SamePrefix, Zenon
  <2> QED BY <2>1, <2>2, <2>3
<1> TAKE c \in Clients
<1>3. Seen(client[c], log)'
  <2>1. client[c] \in Client /\ client[c].after \in Nat /\ client[c].at \in Nat /\ Seen(client[c], log)
    BY DEF IInv, Typed, Client
  <2>2. /\ client[c].after <= client[c].at /\ client[c].at <= Len(log)
        /\ client[c].has = SubSeq(log, client[c].after + 1, client[c].at)
    BY <2>1 DEF Seen
  <2>3. client[c].after + 1 \in Nat \ {0} /\ client[c].at \in 0..Len(log)
    BY <1>2, <2>1, <2>2
  <2>4. SubSeq(log', client[c].after + 1, client[c].at) = SubSeq(log, client[c].after + 1, client[c].at)
    BY <1>2, <2>3
  <2>5. client[c].at <= Len(log')
    BY <1>2, <2>1, <2>2
  <2> QED BY <2>2, <2>4, <2>5 DEF Seen
<1>4. Served(c)'
  <2> SUFFICES ASSUME client[c].slot # 0
               PROVE  Serves(stream'[client[c].slot], c, client[c].at, log')
    BY DEF Served
  <2> DEFINE s == client[c].slot
  <2>1. s \in Slots /\ client[c].at \in Nat /\ Serves(stream[s], c, client[c].at, log)
    BY DEF IInv, Typed, Client, Slots, Served
  <2>2. /\ stream[s] \in Stream /\ stream[s].wire \in Seq(Event) /\ stream[s].batch \in Seq(Event)
        /\ stream[s].cursor \in Nat
    BY <2>1 DEF IInv, Typed, Stream
  <2> HIDE DEF s
  <2>3. /\ stream'[s].wire = stream[s].wire /\ stream'[s].batch = stream[s].batch
        /\ stream'[s].cursor = stream[s].cursor /\ stream'[s].of = stream[s].of
        /\ stream'[s].live = stream[s].live /\ stream'[s].phase = stream[s].phase
    BY <2>1, <2>2 DEF Stream
  <2>4. Follows(stream[s].wire, client[c].at, log') /\ Follows(stream[s].batch, stream[s].cursor, log')
    BY <1>1, <2>1, <2>2, FollowsLonger DEF Serves
  <2> QED BY <2>1, <2>3, <2>4 DEF Serves, s
<1> QED
  BY <1>3, <1>4

LEMMA Slot ==
  ASSUME IInv, NEW s \in Slots
  PROVE  /\ stream[s] \in Stream /\ stream[s].phase \in {"none", "send", "wait", "reset"}
         /\ stream[s].of \in Clients /\ stream[s].live \in BOOLEAN /\ stream[s].cursor \in Nat
         /\ stream[s].batch \in Seq(Event) /\ stream[s].notified \in BOOLEAN
         /\ stream[s].wire \in Seq(Event)
<1>1. stream[s] \in Stream
  BY DEF IInv, Typed
<1> QED
  BY <1>1 DEF Stream

LEMMA Nobody ==
  NoStream \in Stream
<1>1. (CHOOSE c \in Clients : TRUE) \in Clients
  BY JournalAssumption
<1>2. <<>> \in Seq(Event)
  OBVIOUS
<1> QED
  BY <1>1, <1>2 DEF NoStream, Stream

LEMMA Reader ==
  ASSUME IInv, NEW c \in Clients
  PROVE  /\ client[c] \in Client /\ client[c].slot \in 0..MaxStreams
         /\ client[c].after \in Nat /\ client[c].at \in Nat /\ client[c].has \in Seq(Payloads)
         /\ client[c].stale \in BOOLEAN /\ Seen(client[c], log) /\ Served(c)
         /\ client[c].slot # 0 => client[c].slot \in Slots
<1>1. client[c] \in Client /\ Seen(client[c], log) /\ Served(c)
  BY DEF IInv, Typed
<1> QED
  BY <1>1, JournalAssumption DEF Client, Slots

(***************************************************************************)
(* The steps: each keeps the invariant, and is a step of the log that is   *)
(* promised, or none.                                                      *)
(***************************************************************************)
View == [c \in Clients |-> [after |-> client[c].after, at |-> client[c].at, has |-> client[c].has]]
Same == UNCHANGED <<log, View>>

LEMMA Initially ==
  ASSUME Init
  PROVE  IInv /\ Promise!Init
<1>1. Empty \in State /\ Empty.cursor = 0 /\ Empty.events = <<>> /\ Empty.pending = {}
  BY DEF Empty, State
<1>2. Good(Empty)
  BY <1>1, FS_EmptySet, JournalAssumption DEF Good, Valid, Consecutive
<1>3. log = <<>> /\ ahead = <<>> /\ log \o ahead = <<>> /\ <<>> \in Seq(Payloads)
  BY DEF Init
<1>4. Stored
  <2>1. mem = Empty /\ file = Empty /\ up = TRUE /\ writing = FALSE
    BY DEF Init
  <2>2. Len(<<>>) = 0 /\ 1..0 = {}
    OBVIOUS
  <2>3. Holds(Empty, <<>>)
    BY <1>1, <2>2 DEF Holds
  <2> QED BY <1>2, <1>3, <2>1, <2>3 DEF Stored
<1>5. Typed
  <2>1. stream \in [Slots -> Stream]
    BY Nobody DEF Init
  <2>2. client \in [Clients -> Client]
    BY <1>3, JournalAssumption DEF Init, Client
  <2> QED BY <1>1, <2>1, <2>2, JournalAssumption DEF Init, Typed
<1>6. \A c \in Clients : Served(c) /\ Seen(client[c], log)
  <2> TAKE c \in Clients
  <2>1. client[c] = [slot |-> 0, after |-> 0, at |-> 0, has |-> <<>>, stale |-> FALSE]
    BY DEF Init
  <2>2. SubSeq(<<>>, 1, 0) = <<>> /\ Len(<<>>) = 0
    OBVIOUS
  <2> QED BY <1>3, <2>1, <2>2 DEF Served, Seen
<1> QED
  BY <1>4, <1>5, <1>6 DEF IInv, Init, Promise!Init

LEMMA Persisting ==
  ASSUME IInv, NEW id \in 1..MaxId, Produces(id)
  PROVE  IInv' /\ Same
<1>1. PICK data \in Payloads : Persist([id |-> id, data |-> data])
  BY DEF Produces
<1> DEFINE e == [id |-> id, data |-> data]
<1>2. e \in Event /\ Persist(e)
  BY <1>1, JournalAssumption DEF Event
<1> HIDE DEF e
<1>3. up /\ ~writing /\ mem = file /\ ahead = <<>> /\ Good(mem) /\ Holds(mem, log) /\ log \in Seq(Payloads)
  BY <1>2 DEF Persist, IInv, Stored
<1>4. mem.cursor \in Nat
  BY <1>3 DEF Good, State
<1>5. PICK n \in mem.cursor..MaxId :
        Reaches(mem, e, n) /\ file' = Drained(mem, e, n) /\ ahead' = Data(Closed(mem, e, n))
  BY <1>2 DEF Persist
<1>6. n \in Nat /\ Accepts(e)
  BY <1>2, <1>4, JournalAssumption DEF Persist
<1>7. Good(file')
  BY <1>2, <1>3, <1>5, <1>6, AppendGood DEF Accepts, Fresh
<1>8. ahead' \in Seq(Payloads) /\ Holds(file', log \o ahead')
  BY <1>2, <1>3, <1>5, <1>6, AppendHolds
<1>9. /\ writing' = TRUE /\ up' = up /\ mem' = mem /\ stream' = stream /\ client' = client
      /\ log' = log /\ count' = count
  BY <1>2 DEF Persist
<1>10. Stored'
  <2>1. Good(mem)' /\ Holds(mem, log)'
    BY <1>3, <1>9 DEF Good, Holds, Valid, Consecutive
  <2>2. Good(file)' /\ Holds(file, log \o ahead)'
    BY <1>7, <1>8, <1>9 DEF Good, Holds, Valid, Consecutive
  <2>3. /\ log' \in Seq(Payloads) /\ up' = TRUE /\ writing' = TRUE
        /\ up' \in BOOLEAN /\ writing' \in BOOLEAN
    BY <1>3, <1>9 DEF IInv, Stored
  <2> QED BY <1>8, <2>1, <2>2, <2>3, Zenon DEF Stored
<1>11. Typed'
  BY <1>9 DEF IInv, Typed
<1>12. ASSUME NEW c \in Clients PROVE Served(c)' /\ Seen(client[c], log)'
  <2>1. Served(c) /\ Seen(client[c], log)
    BY DEF IInv
  <2>2. Served(c)'
    BY <1>9, <2>1 DEF Served, Serves, Follows
  <2>3. Seen(client[c], log)'
    BY <1>9, <2>1 DEF Seen
  <2> QED BY <2>2, <2>3
<1> QED
  BY <1>9, <1>10, <1>11, <1>12 DEF IInv, Same, View

\* What Publish and Open do to the store and the log.
LEMMA Growing ==
  ASSUME IInv, mem' = file, file' = file, log' = log \o ahead, ahead' = <<>>, up', ~writing',
         up' \in BOOLEAN, writing' \in BOOLEAN, client' = client, count' = count,
         stream' \in [Slots -> Stream],
         \A s \in Slots : \E b \in BOOLEAN : stream'[s] = [stream[s] EXCEPT !.notified = b]
  PROVE  IInv' /\ (Promise!Accept \/ Same)
<1>1. log \in Seq(Payloads) /\ ahead \in Seq(Payloads) /\ Good(file) /\ Holds(file, log \o ahead)
  BY DEF IInv, Stored
<1>2. /\ log' \in Seq(Payloads) /\ Len(log') = Len(log) + Len(ahead) /\ Len(log) \in Nat
      /\ SubSeq(log', 1, Len(log)) = log
  BY <1>1, Longer
<1>3. log' \o ahead' = log'
  BY <1>2
<1>4. Good(file)' /\ Good(mem)' /\ Holds(file, log \o ahead)' /\ Holds(mem, log)'
  BY <1>1, <1>3 DEF Good, Holds, Valid, Consecutive
<1>5. Stored' /\ Typed'
  <2>1. mem' \in State /\ Len(mem'.events) <= Retain
    BY <1>1 DEF Good, Valid
  <2>2. <<>> \in Seq(Payloads)
    OBVIOUS
  <2> QED BY <1>2, <1>4, <2>1, <2>2 DEF IInv, Stored, Typed
<1>6. \A c \in Clients : Served(c)' /\ Seen(client[c], log)'
  BY GrowthKeeps
<1>7. View' = View
  BY DEF View
<1>8. Promise!Accept \/ Same
  <2>1. CASE ahead = <<>>
    <3>1. log' = log
      BY <1>1, <2>1
    <3> QED BY <1>7, <3>1 DEF Same
  <2>2. CASE ahead # <<>>
    <3>1. Len(ahead) \in Nat \ {0}
      BY <1>1, <2>2
    <3>2. Len(log') > Len(log)
      BY <1>2, <3>1
    <3> QED BY <1>2, <1>7, <3>2 DEF Promise!Accept, View
  <2> QED BY <2>1, <2>2
<1> QED
  BY <1>5, <1>6, <1>8 DEF IInv

LEMMA Publishing ==
  ASSUME IInv, Publish
  PROVE  IInv' /\ (Promise!Accept \/ Same)
<1>1. ASSUME NEW s \in Slots
      PROVE  /\ stream'[s] \in Stream
             /\ \E b \in BOOLEAN : stream'[s] = [stream[s] EXCEPT !.notified = b]
  BY Slot DEF Publish, Notified, Stream
<1>2. stream' \in [Slots -> Stream]
  BY <1>1 DEF Publish, Notified
<1> QED
  BY <1>1, <1>2, Growing DEF Publish

LEMMA Opening ==
  ASSUME IInv, Open
  PROVE  IInv' /\ (Promise!Accept \/ Same)
<1>1. stream' = stream /\ stream \in [Slots -> Stream] /\ ~writing' /\ writing' \in BOOLEAN
  BY DEF Open, IInv, Typed, Stored
<1>2. \A s \in Slots : \E b \in BOOLEAN : stream'[s] = [stream[s] EXCEPT !.notified = b]
  <2> TAKE s \in Slots
  <2>1. stream[s] = [stream[s] EXCEPT !.notified = stream[s].notified]
    BY <1>1 DEF Stream
  <2> QED BY <1>1, <2>1, Slot
<1> QED
  BY <1>1, <1>2, Growing DEF Open

LEMMA Crashing ==
  ASSUME IInv, Crash
  PROVE  IInv' /\ Same
<1>1. Empty \in State /\ Len(Empty.events) <= Retain
  BY JournalAssumption DEF Empty, State
<1>2. stream' \in [Slots -> Stream]
  BY Nobody DEF Crash, Gone
<1>3. \A c \in Clients : client'[c] = [client[c] EXCEPT !.slot = 0]
  BY DEF Crash
<1>4. /\ client' \in [Clients -> Client]
      /\ \A c \in Clients : /\ client'[c].slot = 0 /\ client'[c].at = client[c].at
                            /\ client'[c].after = client[c].after /\ client'[c].has = client[c].has
  <2>1. ASSUME NEW c \in Clients
        PROVE  /\ [client[c] EXCEPT !.slot = 0] \in Client /\ client'[c].slot = 0
               /\ client'[c].at = client[c].at /\ client'[c].after = client[c].after
               /\ client'[c].has = client[c].has
    <3>1. client[c] \in Client /\ 0 \in 0..MaxStreams
      BY Reader, JournalAssumption
    <3> QED BY <1>3, <3>1 DEF Client
  <2> QED BY <2>1 DEF Crash
<1>5. Typed'
  BY <1>1, <1>2, <1>4 DEF Crash, IInv, Typed
<1>6. Stored'
  BY DEF Crash, IInv, Stored, Good, Holds, Valid, Consecutive
<1>7. \A c \in Clients : Served(c)' /\ Seen(client[c], log)'
  BY <1>4, Reader DEF Crash, Served, Seen
<1> QED
  BY <1>4, <1>5, <1>6, <1>7 DEF IInv, Same, View, Crash

\* A client that only connects, disconnects or gives up has what it had.
LEMMA ViewKept ==
  ASSUME IInv, log' = log, NEW c \in Clients, NEW v \in Client, client' = [client EXCEPT ![c] = v],
         v.at = client[c].at, v.after = client[c].after, v.has = client[c].has
  PROVE  Same /\ Seen(v, log)
<1>1. client' \in [Clients -> Client] /\ client'[c] = v /\ \A d \in Clients \ {c} : client'[d] = client[d]
  BY DEF IInv, Typed
<1>2. Seen(v, log)
  BY Reader DEF Seen
<1> QED
  BY <1>1, <1>2 DEF Same, View

LEMMA Connecting ==
  ASSUME IInv, NEW c \in Clients, NEW s \in Slots, Connect(c, s)
  PROVE  IInv' /\ Same
<1>1. /\ client[c] \in Client /\ client[c].slot = 0 /\ client[c].at \in Nat /\ Seen(client[c], log)
      /\ stream[s].phase = "none" /\ UNCHANGED <<Storage, count>>
  BY Reader DEF Connect, Free, Storage
<1>2. \A d \in Clients \ {c} : client[d].slot # s
  BY <1>1, Reader DEF Served, Serves, Slots
<1>3. count' \in [crashes : Nat, drops : Nat]
  BY <1>1 DEF IInv, Typed
<1>4. CASE Readable(client[c].at)
  <2> DEFINE t == [phase |-> "send", of |-> c, live |-> TRUE, cursor |-> client[c].at,
                   batch |-> After(client[c].at), notified |-> FALSE, wire |-> <<>>]
             v == [client[c] EXCEPT !.slot = s]
  <2>1. Good(mem) /\ Holds(mem, log) /\ log \in Seq(Payloads)
    BY DEF Connect, Locked, IInv, Stored
  <2>2. After(client[c].at) \in Seq(Event) /\ Follows(After(client[c].at), client[c].at, log)
    BY <1>1, <1>4, <2>1, AfterFollows
  <2>3. <<>> \in Seq(Event) /\ Len(<<>>) = 0 /\ client[c].at = client[c].at + 0
    BY <1>1
  <2>4. t \in Stream /\ Serves(t, c, client[c].at, log)
    BY <1>1, <2>2, <2>3 DEF Stream, Serves, Follows
  <2>5. v \in Client /\ v.slot = s /\ v.at = client[c].at /\ v.after = client[c].after /\ v.has = client[c].has
    <3>1. client[c] \in Client /\ s \in 0..MaxStreams
      BY <1>1, JournalAssumption DEF Slots
    <3> QED BY <3>1 DEF Client
  <2>6. client' = [client EXCEPT ![c] = v] /\ stream' = [stream EXCEPT ![s] = t]
    BY <1>4 DEF Connect
  <2> HIDE DEF t, v
  <2>7. stream' \in [Slots -> Stream] /\ stream'[s] = t /\ \A r \in Slots \ {s} : stream'[r] = stream[r]
    BY <2>4, <2>6 DEF IInv, Typed
  <2>8. \A d \in Clients \ {c} : client[d].slot # 0 => stream'[client[d].slot] = stream[client[d].slot]
    BY <1>2, <2>7, Reader
  <2>9. Same /\ Seen(v, log)
    BY <1>1, <2>5, <2>6, ViewKept DEF Storage
  <2>10. IInv'
    BY <1>1, <1>3, <2>4, <2>5, <2>6, <2>7, <2>8, <2>9, ReaderKeeps
  <2> QED BY <2>9, <2>10
<1>5. CASE ~Readable(client[c].at)
  <2> DEFINE v == [client[c] EXCEPT !.stale = TRUE]
  <2>1. client' = [client EXCEPT ![c] = v] /\ stream' = stream
    BY <1>5 DEF Connect
  <2>2. v \in Client /\ v.slot = 0 /\ v.at = client[c].at /\ v.after = client[c].after /\ v.has = client[c].has
    BY <1>1 DEF Client
  <2> HIDE DEF v
  <2>3. stream' \in [Slots -> Stream]
    BY <2>1 DEF IInv, Typed
  <2>4. Same /\ Seen(v, log)
    BY <1>1, <2>1, <2>2, ViewKept DEF Storage
  <2>5. IInv'
    BY <1>1, <1>3, <2>1, <2>2, <2>3, <2>4, ReaderKeeps
  <2> QED BY <2>4, <2>5
<1> QED
  BY <1>4, <1>5

\* The frames a connected client may process next.
LEMMA Connected ==
  ASSUME IInv, NEW c \in Clients, client[c].slot # 0
  PROVE  /\ client[c].slot \in Slots
         /\ Serves(stream[client[c].slot], c, client[c].at, log)
         /\ \A d \in Clients \ {c} : client[d].slot # client[c].slot
  BY Reader DEF Served, Serves

LEMMA PartGrows ==
  ASSUME NEW l \in Seq(Payloads), NEW a \in Nat, NEW b \in Nat, a <= b, b + 1 <= Len(l)
  PROVE  Append(SubSeq(l, a + 1, b), l[b + 1]) = SubSeq(l, a + 1, b + 1)
<1> DEFINE p == SubSeq(l, a + 1, b)
           q == SubSeq(l, a + 1, b + 1)
<1>1. /\ p \in Seq(Payloads) /\ Len(p) = b - a
      /\ \A i \in 1..(b - a) : p[i] = l[a + i]
  OBVIOUS
<1>2. /\ q \in Seq(Payloads) /\ Len(q) = b + 1 - a
      /\ \A i \in 1..(b + 1 - a) : q[i] = l[a + i]
  OBVIOUS
<1>3. l[b + 1] \in Payloads
  OBVIOUS
<1> HIDE DEF p, q
<1>4. /\ Append(p, l[b + 1]) \in Seq(Payloads) /\ Len(Append(p, l[b + 1])) = b - a + 1
      /\ Append(p, l[b + 1])[b - a + 1] = l[b + 1]
      /\ \A i \in 1..(b - a) : Append(p, l[b + 1])[i] = p[i]
  BY <1>1, <1>3
<1>5. ASSUME NEW i \in 1..(b + 1 - a) PROVE Append(p, l[b + 1])[i] = q[i]
  <2>1. CASE i \in 1..(b - a)
    BY <1>1, <1>2, <1>4, <2>1
  <2>2. CASE i = b - a + 1
    <3>1. a + i = b + 1
      BY <2>2
    <3> QED BY <1>2, <1>4, <2>2, <3>1
  <2>3. i \in 1..(b - a) \/ i = b - a + 1
    OBVIOUS
  <2> QED BY <2>1, <2>2, <2>3
<1>6. Append(p, l[b + 1]) = q
  <2>1. Len(Append(p, l[b + 1])) = Len(q) /\ Len(q) = b + 1 - a
    BY <1>2, <1>4
  <2> QED BY <1>2, <1>4, <1>5, <2>1
<1> QED
  BY <1>6 DEF p, q

\* What a client and its stream become when it processes a frame.
Taken(t) == [t EXCEPT !.wire = Tail(@)]
Advanced(v, e) == [v EXCEPT !.at = e.id, !.has = Append(@, e.data)]

\* The oldest frame of a stream is the next event, and without it the stream
\* continues the next position.
LEMMA FrameTaken ==
  ASSUME NEW t \in Stream, NEW c, NEW at \in Nat, NEW l, Len(l) \in Nat,
         Serves(t, c, at, l), t.wire # <<>>
  PROVE  /\ Taken(t) \in Stream /\ Serves(Taken(t), c, at + 1, l)
         /\ Head(t.wire) \in Event /\ Head(t.wire).id = at + 1
         /\ Head(t.wire).data = l[at + 1] /\ at + 1 <= Len(l)
<1> DEFINE u == Taken(t)
<1>1. t.wire \in Seq(Event) /\ Len(t.wire) \in Nat /\ Follows(t.wire, at, l) /\ t.cursor = at + Len(t.wire)
  BY DEF Stream, Serves
<1>2. /\ Tail(t.wire) \in Seq(Event) /\ Len(Tail(t.wire)) = Len(t.wire) - 1
      /\ Follows(Tail(t.wire), at + 1, l)
      /\ Head(t.wire) \in Event /\ Head(t.wire).id = at + 1
      /\ Head(t.wire).data = l[at + 1] /\ at + 1 <= Len(l)
  BY <1>1, FollowsTail
<1>3. /\ u \in Stream /\ u.of = t.of /\ u.live = t.live /\ u.phase = t.phase
      /\ u.cursor = t.cursor /\ u.batch = t.batch /\ u.wire = Tail(t.wire)
  BY <1>2 DEF Stream, Taken
<1>4. t.cursor = (at + 1) + Len(Tail(t.wire))
  <2> DEFINE all == Len(t.wire)
             rest == Len(Tail(t.wire))
  <2>1. all \in Nat /\ t.cursor = at + all /\ rest = all - 1
    BY <1>1, <1>2
  <2> HIDE DEF all, rest
  <2>2. t.cursor = (at + 1) + rest
    BY <2>1
  <2> QED BY <2>2 DEF rest
<1> HIDE DEF u
<1>5. Serves(u, c, at + 1, l)
  BY <1>2, <1>3, <1>4 DEF Serves
<1> QED
  BY <1>2, <1>3, <1>5 DEF u

LEMMA EventTaken ==
  ASSUME NEW v \in Client, NEW l \in Seq(Payloads), Seen(v, l), NEW e \in Event,
         e.id = v.at + 1, e.id <= Len(l), e.data = l[v.at + 1]
  PROVE  LET w == Advanced(v, e)
         IN /\ w \in Client /\ Seen(w, l) /\ w.slot = v.slot /\ w.after = v.after
            /\ w.at = v.at + 1 /\ w.has = Append(v.has, l[v.at + 1])
<1> DEFINE w == Advanced(v, e)
<1>1. v.at \in Nat /\ v.after \in Nat /\ v.has \in Seq(Payloads) /\ e.id \in Nat /\ e.data \in Payloads
  BY DEF Client, Event
<1>2. Append(v.has, e.data) \in Seq(Payloads)
  BY <1>1
<1>3. /\ w \in Client /\ w.slot = v.slot /\ w.after = v.after
      /\ w.at = v.at + 1 /\ w.has = Append(v.has, l[v.at + 1])
  BY <1>1, <1>2 DEF Client, Advanced
<1> HIDE DEF w
<1>4. v.after <= v.at /\ v.at + 1 <= Len(l) /\ v.has = SubSeq(l, v.after + 1, v.at)
  BY DEF Seen
<1>5. w.has = SubSeq(l, v.after + 1, v.at + 1)
  BY <1>1, <1>3, <1>4, PartGrows
<1>6. v.after <= v.at + 1
  BY <1>1, <1>4
<1> QED
  BY <1>3, <1>4, <1>5, <1>6 DEF Seen, w

LEMMA Processing ==
  ASSUME IInv, NEW c \in Clients, Process(c)
  PROVE  IInv' /\ Promise!Deliver(c)
<1> DEFINE s == client[c].slot
           t == Taken(stream[s])
           head == Head(stream[s].wire)
           v == Advanced(client[c], head)
<1>1. /\ s # 0 /\ stream[s].wire # <<>> /\ UNCHANGED <<Storage, count>>
      /\ client' = [client EXCEPT ![c] = v] /\ stream' = [stream EXCEPT ![s] = t]
  BY DEF Process, Storage, Taken, Advanced
<1>2. /\ s \in Slots /\ Serves(stream[s], c, client[c].at, log)
      /\ \A d \in Clients \ {c} : client[d].slot # s
  BY <1>1, Connected
<1> HIDE DEF s
<1>3. /\ stream[s] \in Stream /\ client[c] \in Client /\ client[c].at \in Nat
      /\ Len(log) \in Nat /\ log \in Seq(Payloads) /\ Seen(client[c], log)
  BY <1>2, Slot, Reader DEF IInv, Stored
<1>4. /\ t \in Stream /\ Serves(t, c, client[c].at + 1, log)
      /\ head \in Event /\ head.id = client[c].at + 1 /\ head.data = log[client[c].at + 1]
      /\ client[c].at + 1 <= Len(log)
  BY <1>1, <1>2, <1>3, FrameTaken
<1> HIDE DEF head, t
<1>5. /\ v \in Client /\ Seen(v, log) /\ v.slot = s /\ v.after = client[c].after
      /\ v.at = client[c].at + 1 /\ v.has = Append(client[c].has, log[client[c].at + 1])
  <2>1. head.id <= Len(log)
    BY <1>4
  <2> QED BY <1>3, <1>4, <2>1, EventTaken DEF s
<1> HIDE DEF v
<1>6. stream' \in [Slots -> Stream] /\ stream'[s] = t /\ \A r \in Slots \ {s} : stream'[r] = stream[r]
  BY <1>1, <1>2, <1>4 DEF IInv, Typed
<1>7. \A d \in Clients \ {c} : client[d].slot # 0 => stream'[client[d].slot] = stream[client[d].slot]
  BY <1>2, <1>6, Reader
<1>8. count' \in [crashes : Nat, drops : Nat]
  BY <1>1 DEF IInv, Typed
<1>9. IInv'
  <2>1. v.slot # 0 => Serves(stream'[v.slot], c, v.at, log)
    BY <1>4, <1>5, <1>6
  <2>2. UNCHANGED Storage /\ client' = [client EXCEPT ![c] = v]
    BY <1>1
  <2> QED BY <1>5, <1>6, <1>7, <1>8, <2>1, <2>2, ReaderKeeps
<1>10. Promise!Deliver(c)
  <2>1. client' \in [Clients -> Client] /\ client'[c] = v /\ \A d \in Clients \ {c} : client'[d] = client[d]
    BY <1>1, <1>5 DEF IInv, Typed
  <2>2. View' = [View EXCEPT ![c].at = @ + 1, ![c].has = Append(@, log[View[c].at + 1])]
    BY <1>5, <2>1 DEF View
  <2>3. log' = log /\ View[c].at < Len(log)
    BY <1>1, <1>3, <1>4 DEF Storage, View
  <2> QED BY <2>2, <2>3 DEF Promise!Deliver, View
<1> QED
  BY <1>9, <1>10

\* The slot of the client is left to its stream, which ends.
LEMMA Leaving ==
  ASSUME IInv, NEW c \in Clients, client[c].slot # 0, UNCHANGED Storage,
         count' \in [crashes : Nat, drops : Nat],
         NEW v \in Client, client' = [client EXCEPT ![c] = v], v.slot = 0,
         v.at = client[c].at, v.after = client[c].after, v.has = client[c].has,
         NEW t \in Stream, stream' = [stream EXCEPT ![client[c].slot] = t]
  PROVE  IInv' /\ Same
<1>1. client[c].slot \in Slots /\ \A d \in Clients \ {c} : client[d].slot # client[c].slot
  BY Connected
<1>2. /\ stream' \in [Slots -> Stream]
      /\ \A r \in Slots \ {client[c].slot} : stream'[r] = stream[r]
  BY <1>1 DEF IInv, Typed
<1>3. \A d \in Clients \ {c} : client[d].slot # 0 => stream'[client[d].slot] = stream[client[d].slot]
  BY <1>1, <1>2, Reader
<1>4. Same /\ Seen(v, log)
  BY ViewKept DEF Storage
<1> QED
  BY <1>2, <1>3, <1>4, ReaderKeeps

LEMMA Left ==
  ASSUME NEW v \in Client
  PROVE  /\ [v EXCEPT !.slot = 0] \in Client
         /\ [v EXCEPT !.slot = 0, !.stale = TRUE] \in Client
<1>1. 0 \in 0..MaxStreams
  BY JournalAssumption
<1> QED
  BY <1>1 DEF Client

LEMMA Ended ==
  ASSUME NEW t \in Stream
  PROVE  /\ [t EXCEPT !.live = FALSE] \in Stream
         /\ [t EXCEPT !.live = FALSE, !.wire = <<>>] \in Stream
<1>1. <<>> \in Seq(Event)
  OBVIOUS
<1> QED
  BY <1>1 DEF Stream

LEMMA Resetting ==
  ASSUME IInv, NEW c \in Clients, Reset(c)
  PROVE  IInv' /\ Same
<1> DEFINE v == [client[c] EXCEPT !.slot = 0, !.stale = TRUE]
           t == [stream[client[c].slot] EXCEPT !.live = FALSE]
<1>1. /\ client[c].slot # 0 /\ UNCHANGED <<Storage, count>>
      /\ client' = [client EXCEPT ![c] = v] /\ stream' = [stream EXCEPT ![client[c].slot] = t]
  BY DEF Reset, Storage
<1>2. client[c] \in Client /\ stream[client[c].slot] \in Stream
  BY <1>1, Reader, Slot
<1>3. v \in Client /\ t \in Stream
  BY <1>2, Left, Ended
<1>4. v.slot = 0 /\ v.at = client[c].at /\ v.after = client[c].after /\ v.has = client[c].has
  BY <1>2 DEF Client
<1>5. count' \in [crashes : Nat, drops : Nat]
  BY <1>1 DEF IInv, Typed
<1> HIDE DEF v, t
<1> QED
  BY <1>1, <1>3, <1>4, <1>5, Leaving

LEMMA Dropping ==
  ASSUME IInv, NEW c \in Clients, Drop(c)
  PROVE  IInv' /\ Same
<1> DEFINE v == [client[c] EXCEPT !.slot = 0]
           t == [stream[client[c].slot] EXCEPT !.live = FALSE, !.wire = <<>>]
<1>1. /\ client[c].slot # 0 /\ UNCHANGED Storage /\ count' = [count EXCEPT !.drops = @ + 1]
      /\ client' = [client EXCEPT ![c] = v] /\ stream' = [stream EXCEPT ![client[c].slot] = t]
  BY DEF Drop, Storage
<1>2. client[c] \in Client /\ stream[client[c].slot] \in Stream
  BY <1>1, Reader, Slot
<1>3. v \in Client /\ t \in Stream
  BY <1>2, Left, Ended
<1>4. v.slot = 0 /\ v.at = client[c].at /\ v.after = client[c].after /\ v.has = client[c].has
  BY <1>2 DEF Client
<1>5. count' \in [crashes : Nat, drops : Nat]
  BY <1>1 DEF IInv, Typed
<1> HIDE DEF v, t
<1> QED
  BY <1>1, <1>3, <1>4, <1>5, Leaving

LEMMA Resyncing ==
  ASSUME IInv, NEW c \in Clients, Resync(c)
  PROVE  IInv' /\ Promise!Resync(c)
<1> DEFINE v == [slot |-> 0, after |-> Oldest, at |-> mem.cursor, has |-> Data(mem.events),
                 stale |-> FALSE]
<1>1. UNCHANGED <<Storage, stream, count>> /\ client' = [client EXCEPT ![c] = v]
  BY DEF Resync, Storage
<1>2. Good(mem) /\ Holds(mem, log) /\ log \in Seq(Payloads)
  BY DEF Resync, Locked, IInv, Stored
<1>3. /\ Oldest \in 0..mem.cursor /\ mem.cursor = Len(log) /\ mem.cursor \in Nat
      /\ Data(mem.events) \in Seq(Payloads)
      /\ Data(mem.events) = SubSeq(log, Oldest + 1, mem.cursor)
  BY <1>2, SnapshotSeen
<1>4. v \in Client /\ v.slot = 0 /\ Seen(v, log)
  BY <1>3, JournalAssumption DEF Client, Seen
<1>5. /\ v.after = Oldest /\ v.at = mem.cursor /\ v.has = SubSeq(log, Oldest + 1, mem.cursor)
  BY <1>3
<1> HIDE DEF v
<1>6. stream' \in [Slots -> Stream] /\ count' \in [crashes : Nat, drops : Nat]
  BY <1>1 DEF IInv, Typed
<1>7. IInv'
  BY <1>1, <1>4, <1>6, ReaderKeeps
<1>8. Promise!Resync(c)
  <2>1. client' \in [Clients -> Client] /\ client'[c] = v /\ \A d \in Clients \ {c} : client'[d] = client[d]
    BY <1>1, <1>4 DEF IInv, Typed
  <2>2. View' = [View EXCEPT ![c] = [after |-> Oldest, at |-> mem.cursor,
                                     has |-> SubSeq(log, Oldest + 1, mem.cursor)]]
    BY <1>5, <2>1 DEF View
  <2>3. client[c].at \in Nat /\ client[c].at <= Len(log)
    BY Reader DEF Seen
  <2>4. View[c].at = client[c].at
    BY DEF View
  <2>5. mem.cursor \in View[c].at..Len(log)
    BY <1>3, <2>3, <2>4
  <2>6. log' = log
    BY <1>1 DEF Storage
  <2> QED BY <1>3, <2>2, <2>5, <2>6 DEF Promise!Resync, View
<1> QED
  BY <1>7, <1>8

\* A batch is written: the frame follows the others, and the rest of the batch
\* follows the frame.
Written(t) == [t EXCEPT !.batch = Tail(@), !.cursor = Head(t.batch).id, !.wire = Append(@, Head(t.batch))]

LEMMA FrameWritten ==
  ASSUME NEW t \in Stream, NEW c, NEW at \in Nat, NEW l, Len(l) \in Nat,
         Serves(t, c, at, l), t.batch # <<>>
  PROVE  Serves(Written(t), c, at, l)
<1> DEFINE u == Written(t)
           e == Head(t.batch)
<1>1. /\ t.batch \in Seq(Event) /\ t.wire \in Seq(Event) /\ t.cursor \in Nat /\ t.cursor = at + Len(t.wire)
      /\ Follows(t.wire, at, l) /\ Follows(t.batch, t.cursor, l)
  BY DEF Stream, Serves
<1>2. /\ Tail(t.batch) \in Seq(Event) /\ Follows(Tail(t.batch), t.cursor + 1, l)
      /\ e \in Event /\ e.id = t.cursor + 1 /\ e.data = l[t.cursor + 1] /\ t.cursor + 1 <= Len(l)
  BY <1>1, FollowsTail
<1> HIDE DEF e
<1> DEFINE n == Len(t.wire)
<1>3. n \in Nat /\ e.id = at + n + 1 /\ e.id <= Len(l) /\ e.data = l[e.id]
  BY <1>1, <1>2
<1>4. /\ Append(t.wire, e) \in Seq(Event) /\ Len(Append(t.wire, e)) = n + 1
      /\ Follows(Append(t.wire, e), at, l)
  BY <1>1, <1>2, <1>3, FollowsAppend
<1>5. /\ u.of = t.of /\ u.live = t.live /\ u.phase = t.phase
      /\ u.cursor = e.id /\ u.batch = Tail(t.batch) /\ u.wire = Append(t.wire, e)
  BY DEF Stream, Written, e
<1> HIDE DEF u, n
<1>6. u.cursor = at + Len(u.wire)
  <2> DEFINE m == Len(u.wire)
  <2>1. m = n + 1 /\ u.cursor = at + n + 1
    BY <1>3, <1>4, <1>5
  <2> HIDE DEF m
  <2>2. u.cursor = at + m
    BY <1>3, <2>1
  <2> QED BY <2>2 DEF m
<1>7. Follows(u.wire, at, l) /\ Follows(u.batch, u.cursor, l)
  BY <1>2, <1>4, <1>5
<1>8. Serves(u, c, at, l)
  BY <1>5, <1>6, <1>7 DEF Serves
<1> QED
  BY <1>8 DEF u

LEMMA WrittenStream ==
  ASSUME NEW t \in Stream, t.batch # <<>>
  PROVE  Written(t) \in Stream
<1>1. /\ t.batch \in Seq(Event) /\ Len(t.batch) \in Nat \ {0} /\ t.wire \in Seq(Event)
  BY DEF Stream
<1>2. Head(t.batch) = t.batch[1] /\ 1 \in 1..Len(t.batch) /\ Tail(t.batch) \in Seq(Event)
  BY <1>1
<1>3. Head(t.batch) \in Event /\ Head(t.batch).id \in Nat
  BY <1>1, <1>2, EventAt
<1>4. Append(t.wire, Head(t.batch)) \in Seq(Event)
  BY <1>1, <1>3
<1> QED
  BY <1>2, <1>3, <1>4 DEF Stream, Written

LEMMA Writing ==
  ASSUME IInv, NEW s \in Slots, Write(s)
  PROVE  IInv' /\ Same
<1>1. stream[s].batch # <<>> /\ UNCHANGED <<Storage, client, count>>
  BY DEF Write, Storage
<1>2. stream' = [stream EXCEPT ![s] = Written(stream[s])]
  BY DEF Write, Written
<1>3. stream[s] \in Stream /\ Len(log) \in Nat
  BY Slot DEF IInv, Stored
<1>4. Written(stream[s]) \in Stream
  BY <1>1, <1>3, WrittenStream
<1>5. ASSUME NEW c \in Clients, client[c].slot = s
      PROVE  Serves(Written(stream[s]), c, client[c].at, log)
  <2>1. client[c].at \in Nat /\ Serves(stream[s], c, client[c].at, log)
    BY <1>5, Reader, Connected DEF Slots
  <2> QED BY <1>1, <1>3, <2>1, FrameWritten
<1>6. IInv'
  BY <1>1, <1>2, <1>4, <1>5, StreamKeeps
<1> QED
  BY <1>1, <1>6 DEF Same, View, Storage

LEMMA Pausing ==
  ASSUME IInv, NEW s \in Slots, Wait(s)
  PROVE  IInv' /\ Same
<1> DEFINE t == [stream[s] EXCEPT !.phase = "wait"]
<1>1. UNCHANGED <<Storage, client, count>> /\ stream' = [stream EXCEPT ![s] = t]
  BY DEF Wait, Storage
<1>2. stream[s] \in Stream
  BY Slot
<1>3. /\ t \in Stream /\ t.of = stream[s].of /\ t.live = stream[s].live /\ t.phase = "wait"
      /\ t.cursor = stream[s].cursor /\ t.batch = stream[s].batch /\ t.wire = stream[s].wire
  BY <1>2 DEF Stream
<1> HIDE DEF t
<1>4. ASSUME NEW c \in Clients, client[c].slot = s
      PROVE  Serves(t, c, client[c].at, log)
  <2>1. Serves(stream[s], c, client[c].at, log)
    BY <1>4, Connected DEF Slots
  <2> QED BY <1>3, <2>1 DEF Serves
<1>5. IInv'
  BY <1>1, <1>3, <1>4, StreamKeeps
<1> QED
  BY <1>1, <1>5 DEF Same, View, Storage

\* A stream that reads after its cursor gets what follows its frames, or ends.
LEMMA Reading ==
  ASSUME IInv, NEW s \in Slots, ~Locked, stream[s].phase = "wait", ReadNext(s),
         UNCHANGED <<Storage, client, count>>
  PROVE  IInv' /\ Same
<1> DEFINE t == stream[s]
           next == [t EXCEPT !.phase = "send", !.batch = After(t.cursor), !.notified = FALSE]
           last == [t EXCEPT !.phase = "reset"]
           u == IF Readable(t.cursor) THEN next ELSE last
<1>1. stream' = [stream EXCEPT ![s] = u]
  BY DEF ReadNext
<1>2. t \in Stream /\ t.cursor \in Nat
  BY Slot
<1> HIDE DEF t
<1>3. Readable(t.cursor) => After(t.cursor) \in Seq(Event) /\ Follows(After(t.cursor), t.cursor, log)
  <2>1. Good(mem) /\ Holds(mem, log) /\ log \in Seq(Payloads)
    BY DEF Locked, IInv, Stored
  <2> QED BY <1>2, <2>1, AfterFollows
<1>4. /\ u \in Stream /\ u.of = t.of /\ u.live = t.live /\ u.phase # "none"
      /\ u.cursor = t.cursor /\ u.wire = t.wire
      /\ u.batch = IF Readable(t.cursor) THEN After(t.cursor) ELSE t.batch
  <2>1. CASE Readable(t.cursor)
    BY <1>2, <1>3, <2>1 DEF Stream
  <2>2. CASE ~Readable(t.cursor)
    BY <1>2, <2>2 DEF Stream
  <2> QED BY <2>1, <2>2
<1> HIDE DEF u
<1>5. ASSUME NEW c \in Clients, client[c].slot = s
      PROVE  Serves(u, c, client[c].at, log)
  <2>1. Serves(t, c, client[c].at, log)
    BY <1>5, Connected DEF Slots, t
  <2>2. Follows(u.batch, u.cursor, log)
    BY <1>3, <1>4, <2>1 DEF Serves
  <2> QED BY <1>4, <2>1, <2>2 DEF Serves
<1>6. IInv'
  BY <1>1, <1>4, <1>5, StreamKeeps
<1> QED
  BY <1>6 DEF Same, View, Storage

LEMMA Releasing ==
  ASSUME IInv, NEW s \in Slots, Release(s)
  PROVE  IInv' /\ Same
<1>1. ~stream[s].live /\ UNCHANGED <<Storage, client, count>> /\ stream' = [stream EXCEPT ![s] = NoStream]
  BY DEF Release, Storage
<1>2. \A c \in Clients : client[c].slot # s
  BY <1>1, Connected DEF Slots, Serves
<1>3. IInv'
  BY <1>1, <1>2, Nobody, StreamKeeps
<1> QED
  BY <1>1, <1>3 DEF Same, View, Storage

LEMMA Still ==
  ASSUME IInv, UNCHANGED vars
  PROVE  IInv' /\ Same
<1>1. /\ mem' = mem /\ file' = file /\ up' = up /\ writing' = writing /\ stream' = stream
      /\ client' = client /\ log' = log /\ ahead' = ahead /\ count' = count
  BY DEF vars
<1>2. Stored' /\ Typed'
  BY <1>1 DEF IInv, Stored, Typed, Good, Holds, Valid, Consecutive
<1>3. \A c \in Clients : Served(c)' /\ Seen(client[c], log)'
  BY <1>1 DEF IInv, Served, Serves, Follows, Seen
<1> QED
  BY <1>1, <1>2, <1>3 DEF IInv, Same, View

LEMMA Steps ==
  ASSUME IInv, [Next]_vars
  PROVE  IInv' /\ (Promise!Next \/ Same)
<1>1. ASSUME NEW id \in 1..MaxId, Produces(id) PROVE IInv' /\ Same
  BY <1>1, Persisting
<1>2. ASSUME Publish PROVE IInv' /\ (Promise!Accept \/ Same)
  BY <1>2, Publishing
<1>3. ASSUME Open PROVE IInv' /\ (Promise!Accept \/ Same)
  BY <1>3, Opening
<1>4. ASSUME Crash PROVE IInv' /\ Same
  BY <1>4, Crashing
<1>5. ASSUME NEW s \in Slots, StreamSteps(s) \/ Heartbeat(s) PROVE IInv' /\ Same
  <2>1. ASSUME Write(s) PROVE IInv' /\ Same
    BY <2>1, Writing
  <2>2. ASSUME Wait(s) PROVE IInv' /\ Same
    BY <2>2, Pausing
  <2>3. ASSUME Wake(s) PROVE IInv' /\ Same
    BY <2>3, Reading DEF Wake, Storage
  <2>4. ASSUME Heartbeat(s) PROVE IInv' /\ Same
    BY <2>4, Reading DEF Heartbeat, Storage
  <2>5. ASSUME Release(s) PROVE IInv' /\ Same
    BY <2>5, Releasing
  <2> QED BY <1>5, <2>1, <2>2, <2>3, <2>4, <2>5 DEF StreamSteps
<1>6. ASSUME NEW c \in Clients, ClientSteps(c) \/ Drop(c)
      PROVE  IInv' /\ (Promise!Deliver(c) \/ Promise!Resync(c) \/ Same)
  <2>1. ASSUME Process(c) PROVE IInv' /\ Promise!Deliver(c)
    BY <2>1, Processing
  <2>2. ASSUME Reset(c) PROVE IInv' /\ Same
    BY <2>2, Resetting
  <2>3. ASSUME Resync(c) PROVE IInv' /\ Promise!Resync(c)
    BY <2>3, Resyncing
  <2>4. ASSUME NEW s \in Slots, Connect(c, s) PROVE IInv' /\ Same
    BY <2>4, Connecting
  <2>5. ASSUME Drop(c) PROVE IInv' /\ Same
    BY <2>5, Dropping
  <2> QED BY <1>6, <2>1, <2>2, <2>3, <2>4, <2>5 DEF ClientSteps
<1>7. ASSUME UNCHANGED vars PROVE IInv' /\ Same
  BY <1>7, Still
<1>8. IInv'
  BY <1>1, <1>2, <1>3, <1>4, <1>5, <1>6, <1>7 DEF Next
<1>9. Promise!Next \/ Same
  BY <1>1, <1>2, <1>3, <1>4, <1>5, <1>6, <1>7 DEF Next, Promise!Next
<1> QED
  BY <1>8, <1>9

(***************************************************************************)
(* The results.                                                            *)
(***************************************************************************)
\* Whatever is delivered late, twice or out of order, wherever the process dies
\* and however slowly clients read: checkpoint, memory, streams and clients all
\* hold parts of one log (Append, Open, ReadAfter, Snapshot and ServeHTTP).
THEOREM JournalInvariant == Spec => []IInv
<1>1. Init => IInv
  BY Initially
<1>2. IInv /\ [Next]_vars => IInv'
  BY Steps
<1> QED
  BY <1>1, <1>2, PTL DEF Spec

\* The variables keep their types, and the retained window its limit.
THEOREM TypesHold == Spec => []TypeOK
<1>1. IInv => TypeOK
  BY DEF IInv, Typed, Stored, Good, TypeOK
<1> QED
  BY <1>1, JournalInvariant, PTL

\* validate accepts every checkpoint Append ever wrote, so that Open succeeds
\* after every death of the process.
THEOREM Reopened == Spec => []Reopens
<1>1. IInv => Reopens
  BY DEF IInv, Stored, Good, Reopens
<1> QED
  BY <1>1, JournalInvariant, PTL

\* What readers have seen is in the checkpoint: a restart takes nothing back.
THEOREM NothingTakenBack == Spec => []Durable
<1>1. ASSUME IInv PROVE Durable
  <2>1. /\ Good(file) /\ Holds(file, log \o ahead)
        /\ log \in Seq(Payloads) /\ ahead \in Seq(Payloads)
    BY <1>1 DEF IInv, Stored
  <2>2. /\ Len(log \o ahead) = Len(log) + Len(ahead) /\ Len(log) \in Nat /\ Len(ahead) \in Nat
        /\ \A i \in 1..Len(log) : (log \o ahead)[i] = log[i]
    BY <2>1, Longer
  <2>3. Len(log) <= file.cursor
    BY <2>1, <2>2 DEF Holds
  <2>4. ASSUME NEW i \in 1..Len(file.events), file.events[i].id <= Len(log)
        PROVE  file.events[i].data = log[file.events[i].id]
    <3>1. /\ file.events \in Seq(Event) /\ Len(file.events) \in Nat /\ file.cursor \in Nat
          /\ Len(file.events) <= file.cursor
      BY <2>1 DEF Good, Valid, Consecutive, State
    <3>2. file.events[i].id \in Nat /\ file.events[i].id + Len(file.events) = file.cursor + i
      BY <2>1, <3>1, EventAt DEF Good, Valid, Consecutive
    <3> DEFINE id == file.events[i].id
               size == Len(file.events)
               cursor == file.cursor
    <3>3. id \in 1..Len(log)
      <4>1. /\ id \in Nat /\ size \in Nat /\ cursor \in Nat /\ size <= cursor
            /\ id + size = cursor + i /\ id <= Len(log) /\ Len(log) \in Nat /\ i \in 1..size
        BY <2>2, <2>4, <3>1, <3>2, Zenon
      <4> HIDE DEF id, size, cursor
      <4> QED BY <4>1
    <3>4. file.events[i].data = (log \o ahead)[file.events[i].id]
      BY <2>1 DEF Holds
    <3> QED BY <2>2, <3>3, <3>4
  <2> QED BY <2>3, <2>4 DEF Durable
<1> QED
  BY <1>1, JournalInvariant, PTL

\* The journal implements the log it promises: every client sees the published
\* observations in order, without gaps, duplicates or losses, across resets,
\* reconnections, deaths of the process and slow reads.
THEOREM LogKept == Spec => Implements
<1>1. Init => Promise!Init
  BY Initially
<1>2. IInv /\ [Next]_vars => [Promise!Next]_(<<log, View>>)
  BY Steps DEF Same
<1> QED
  BY <1>1, <1>2, JournalInvariant, PTL DEF Spec, Implements, Promise!Spec, View
=============================================================================
