------------------------------ MODULE Journal ------------------------------
(***************************************************************************)
(* The observation journal (internal/journal): one writer that appends     *)
(* events delivered late, twice or out of order, a checkpoint file, a      *)
(* process that may die and be opened again, and HTTP streams of slow      *)
(* clients.  A mutex covers a whole Append and a whole ReadAfter or        *)
(* Snapshot; between the rename of the checkpoint and the assignment of    *)
(* the memory state the process may only die.                              *)
(***************************************************************************)
EXTENDS Naturals, Sequences, FiniteSets

CONSTANTS
  Clients,      \* clients of the HTTP interface
  Payloads,     \* what an event may carry
  Retain,       \* Limits.Retain
  Pending,      \* Limits.Pending
  MaxStreams,   \* HTTPOptions.MaxStreams
  MaxId,        \* bound: events of the producer
  MaxCrashes,   \* bound: deaths of the process
  MaxDrops      \* bound: connections that break

ASSUME JournalAssumption ==
  /\ Clients # {} /\ Retain \in Nat \ {0} /\ Pending \in Nat \ {0} /\ MaxStreams \in Nat \ {0}
  /\ MaxId \in Nat /\ MaxCrashes \in Nat /\ MaxDrops \in Nat

VARIABLES
  mem,      \* Journal.state: cursor, retained events, pending events
  file,     \* the checkpoint
  up,       \* the process runs
  writing,  \* an Append has renamed the checkpoint and not yet published it
  stream,   \* the admitted requests for /events, one per slot
  client,   \* per client: the slot of its connection, and what it has of the log
  log,      \* history: what was ever published
  ahead,    \* history: what the checkpoint has beyond the log
  count     \* crashes and broken connections so far

vars == <<mem, file, up, writing, stream, client, log, ahead, count>>

Slots == 1..MaxStreams
Event == [id : Nat, data : Payloads]
State == [cursor : Nat, events : Seq(Event), pending : SUBSET Event]
Empty == [cursor |-> 0, events |-> <<>>, pending |-> {}]

(***************************************************************************)
(* A stream: the client it serves, whether that one is still there, the    *)
(* batch it is writing, the cursor of the last event written, whether the  *)
(* channel it captured has been closed since, and what is written but not  *)
(* yet processed.  "reset" is the last frame of a stream that fell behind. *)
(***************************************************************************)
Stream == [phase : {"none", "send", "wait", "reset"}, of : Clients, live : BOOLEAN,
           cursor : Nat, batch : Seq(Event), notified : BOOLEAN, wire : Seq(Event)]
Free(s) == stream[s].phase = "none"
NoStream == [phase |-> "none", of |-> CHOOSE c \in Clients : TRUE, live |-> FALSE, cursor |-> 0,
             batch |-> <<>>, notified |-> FALSE, wire |-> <<>>]

Client == [slot : 0..MaxStreams, after : Nat, at : Nat, has : Seq(Payloads), stale : BOOLEAN]

TypeOK ==
  /\ mem \in State /\ file \in State
  /\ Len(mem.events) <= Retain
  /\ up \in BOOLEAN /\ writing \in BOOLEAN
  /\ stream \in [Slots -> Stream]
  /\ client \in [Clients -> Client]
  /\ log \in Seq(Payloads) /\ ahead \in Seq(Payloads)
  /\ count \in [crashes : Nat, drops : Nat]

Init ==
  /\ mem = Empty /\ file = Empty
  /\ up = TRUE /\ writing = FALSE
  /\ stream = [s \in Slots |-> NoStream]
  /\ client = [c \in Clients |-> [slot |-> 0, after |-> 0, at |-> 0, has |-> <<>>, stale |-> FALSE]]
  /\ log = <<>> /\ ahead = <<>>
  /\ count = [crashes |-> 0, drops |-> 0]

(***************************************************************************)
(* The state of the journal.                                               *)
(***************************************************************************)
Ids(events) == {e.id : e \in events}
Data(events) == [i \in 1..Len(events) |-> events[i].data]

\* The retained events have the consecutive identifiers up to the cursor.
Consecutive(s) ==
  /\ Len(s.events) <= s.cursor
  /\ \A i \in 1..Len(s.events) : s.events[i].id + Len(s.events) = s.cursor + i

\* validate: what Open demands of a checkpoint.
Valid(s) ==
  /\ Len(s.events) <= Retain
  /\ Cardinality(s.pending) <= Pending
  /\ s.cursor > 0 => s.events # <<>>
  /\ Consecutive(s)
  /\ \A e \in s.pending : e.id > s.cursor + 1
  /\ \A e, f \in s.pending : e.id = f.id => e = f

\* Mutants: nothing is forgotten; the same events from the other end.
NewestAll(events) == events
NewestOldest(events) == SubSeq(events, 1, IF Len(events) <= Retain THEN Len(events) ELSE Retain)

Newest(events) ==
  IF Len(events) <= Retain THEN events
  ELSE SubSeq(events, Len(events) - Retain + 1, Len(events))

(***************************************************************************)
(* s with the event e added and every gap closed that it closes: the       *)
(* cursor moves to the last identifier n without a gap before it.          *)
(***************************************************************************)
Waiting(s, e) == s.pending \cup {e}
Closed(s, e, n) ==
  [i \in 1..(n - s.cursor) |-> CHOOSE p \in Waiting(s, e) : p.id = s.cursor + i]
Drained(s, e, n) ==
  [cursor |-> n,
   events |-> Newest(s.events \o Closed(s, e, n)),
   pending |-> {p \in Waiting(s, e) : p.id > n}]

\* n is that identifier.
Reaches(s, e, n) ==
  /\ s.cursor <= n
  /\ (s.cursor + 1)..n \subseteq Ids(Waiting(s, e))
  /\ n + 1 \notin Ids(Waiting(s, e))

\* Append takes e: it is no repetition, and there is room for it unless it is
\* the next one, which always is accepted.
Fresh(e) == e.id > mem.cursor /\ e.id \notin Ids(mem.pending)
\* Mutant: a full buffer refuses the very event that would empty it.
AcceptsIfRoom(e) == Fresh(e) /\ Cardinality(mem.pending) < Pending
Accepts(e) ==
  /\ Fresh(e)
  /\ e.id = mem.cursor + 1 \/ Cardinality(mem.pending) < Pending

(***************************************************************************)
(* The writer.                                                             *)
(***************************************************************************)
Notified == [s \in Slots |-> [stream[s] EXCEPT !.notified = stream[s].phase # "none"]]

\* The memory state is replaced and the channel closed.
Publish ==
  /\ up /\ writing
  /\ mem' = file /\ writing' = FALSE
  /\ log' = log \o ahead /\ ahead' = <<>>
  /\ stream' = Notified
  /\ UNCHANGED <<file, up, client, count>>

\* Mutant: readers see the event before it is on the disk.
PersistLate(e) ==
  /\ up /\ ~writing /\ Accepts(e)
  /\ \E n \in mem.cursor..MaxId :
       /\ Reaches(mem, e, n)
       /\ mem' = Drained(mem, e, n)
       /\ log' = log \o Data(Closed(mem, e, n))
  /\ stream' = Notified
  /\ UNCHANGED <<file, up, writing, client, ahead, count>>

\* Append up to the rename of the checkpoint; an Append that fails before it
\* leaves everything as it was.
Persist(e) ==
  /\ up /\ ~writing /\ Accepts(e)
  /\ \E n \in mem.cursor..MaxId :
       /\ Reaches(mem, e, n)
       /\ file' = Drained(mem, e, n) /\ ahead' = Data(Closed(mem, e, n))
  /\ writing' = TRUE
  /\ UNCHANGED <<mem, up, stream, client, log, count>>

(***************************************************************************)
(* The process dies, and is opened again on its checkpoint.                *)
(***************************************************************************)
Gone == [s \in Slots |-> NoStream]

Crash ==
  /\ up /\ count.crashes < MaxCrashes
  /\ up' = FALSE /\ writing' = FALSE
  /\ mem' = Empty
  /\ stream' = Gone
  /\ client' = [c \in Clients |-> [client[c] EXCEPT !.slot = 0]]
  /\ count' = [count EXCEPT !.crashes = @ + 1]
  /\ UNCHANGED <<file, log, ahead>>

\* Open: an Append that died after the rename is published now.
Open ==
  /\ ~up /\ Valid(file)
  /\ up' = TRUE
  /\ mem' = file
  /\ log' = log \o ahead /\ ahead' = <<>>
  /\ UNCHANGED <<file, writing, stream, client, count>>

(***************************************************************************)
(* Readers.                                                                *)
(***************************************************************************)
Locked == ~up \/ writing

\* ReadAfter: what follows the cursor, if it is inside the retained window.
Oldest == mem.cursor - Len(mem.events)
\* Mutant: a cursor before the window is served from the window's start.
ReadableAnyAge(cursor) == cursor <= mem.cursor
Readable(cursor) == cursor <= mem.cursor /\ cursor >= Oldest
After(cursor) ==
  SubSeq(mem.events, IF cursor < Oldest THEN 1 ELSE cursor - Oldest + 1, Len(mem.events))

\* GET /events: admitted to a free slot, answered 409 when the cursor is outside
\* the window, or streamed.
Connect(c, s) ==
  /\ ~Locked /\ client[c].slot = 0 /\ ~client[c].stale /\ Free(s)
  /\ IF Readable(client[c].at)
     THEN /\ stream' = [stream EXCEPT ![s] =
               [phase |-> "send", of |-> c, live |-> TRUE, cursor |-> client[c].at,
                batch |-> After(client[c].at), notified |-> FALSE, wire |-> <<>>]]
          /\ client' = [client EXCEPT ![c].slot = s]
     ELSE /\ client' = [client EXCEPT ![c].stale = TRUE]
          /\ UNCHANGED stream
  /\ UNCHANGED <<mem, file, up, writing, log, ahead, count>>

\* One event is written and flushed.
Write(s) ==
  /\ stream[s].phase = "send" /\ stream[s].live /\ stream[s].batch # <<>>
  /\ stream' = [stream EXCEPT ![s] =
       [stream[s] EXCEPT !.batch = Tail(stream[s].batch), !.cursor = Head(stream[s].batch).id,
                         !.wire = Append(stream[s].wire, Head(stream[s].batch))]]
  /\ UNCHANGED <<mem, file, up, writing, client, log, ahead, count>>

\* The batch is written; the stream waits for a change or a heartbeat.
Wait(s) ==
  /\ stream[s].phase = "send" /\ stream[s].batch = <<>>
  /\ stream' = [stream EXCEPT ![s].phase = "wait"]
  /\ UNCHANGED <<mem, file, up, writing, client, log, ahead, count>>

\* Woken by the change: the next batch and the next channel, or the last frame.
ReadNext(s) ==
  stream' = [stream EXCEPT ![s] =
    IF Readable(@.cursor)
    THEN [@ EXCEPT !.phase = "send", !.batch = After(stream[s].cursor), !.notified = FALSE]
    ELSE [@ EXCEPT !.phase = "reset"]]

Wake(s) ==
  /\ ~Locked /\ stream[s].phase = "wait" /\ stream[s].live /\ stream[s].notified
  /\ ReadNext(s)
  /\ UNCHANGED <<mem, file, up, writing, client, log, ahead, count>>

\* A heartbeat reads as well.
Heartbeat(s) ==
  /\ ~Locked /\ stream[s].phase = "wait" /\ stream[s].live
  /\ ReadNext(s)
  /\ UNCHANGED <<mem, file, up, writing, client, log, ahead, count>>

\* The handler returns: its client is gone (the context is done, or a write
\* fails or runs into its deadline), and the slot is free again.
Release(s) ==
  /\ stream[s].phase # "none" /\ ~stream[s].live
  /\ stream' = [stream EXCEPT ![s] = NoStream]
  /\ UNCHANGED <<mem, file, up, writing, client, log, ahead, count>>

(***************************************************************************)
(* Clients: what is outside the repository's Go code.                      *)
(***************************************************************************)
\* The client processes the oldest frame.
Process(c) ==
  LET s == client[c].slot IN
  /\ s # 0 /\ stream[s].wire # <<>>
  /\ client' = [client EXCEPT ![c].at = Head(stream[s].wire).id,
                              ![c].has = Append(@, Head(stream[s].wire).data)]
  /\ stream' = [stream EXCEPT ![s].wire = Tail(@)]
  /\ UNCHANGED <<mem, file, up, writing, log, ahead, count>>

\* The reset frame arrives after all others, and the stream is closed.
Reset(c) ==
  LET s == client[c].slot IN
  /\ s # 0 /\ stream[s].phase = "reset" /\ stream[s].wire = <<>>
  /\ client' = [client EXCEPT ![c].slot = 0, ![c].stale = TRUE]
  /\ stream' = [stream EXCEPT ![s].live = FALSE]
  /\ UNCHANGED <<mem, file, up, writing, log, ahead, count>>

\* The connection breaks or the client is too slow for the write deadline:
\* frames that were written and not processed are lost.
Drop(c) ==
  LET s == client[c].slot IN
  /\ s # 0 /\ count.drops < MaxDrops
  /\ client' = [client EXCEPT ![c].slot = 0]
  /\ stream' = [stream EXCEPT ![s].live = FALSE, ![s].wire = <<>>]
  /\ count' = [count EXCEPT !.drops = @ + 1]
  /\ UNCHANGED <<mem, file, up, writing, log, ahead>>

\* GET /snapshot: the client's window is replaced.
Resync(c) ==
  /\ ~Locked /\ client[c].stale
  /\ client' = [client EXCEPT ![c] = [slot |-> 0, after |-> Oldest, at |-> mem.cursor,
                                      has |-> Data(mem.events), stale |-> FALSE]]
  /\ UNCHANGED <<mem, file, up, writing, stream, log, ahead, count>>

(***************************************************************************)
(* The specification.  The producer replays what was not accepted; a       *)
(* stream's goroutine runs; clients reconnect and read.  Heartbeats,       *)
(* crashes and broken connections need not happen.                         *)
(***************************************************************************)
Produces(id) == \E data \in Payloads : Persist([id |-> id, data |-> data])
StreamSteps(s) == Write(s) \/ Wait(s) \/ Wake(s) \/ Release(s)
ClientSteps(c) == Process(c) \/ Reset(c) \/ Resync(c) \/ \E s \in Slots : Connect(c, s)

Next ==
  \/ \E id \in 1..MaxId : Produces(id)
  \/ Publish \/ Crash \/ Open
  \/ \E s \in Slots : StreamSteps(s) \/ Heartbeat(s)
  \/ \E c \in Clients : ClientSteps(c) \/ Drop(c)

Spec == Init /\ [][Next]_vars

Fairness ==
  /\ \A id \in 1..MaxId : WF_vars(Produces(id))
  /\ WF_vars(Publish) /\ WF_vars(Open)
  /\ \A s \in Slots : WF_vars(StreamSteps(s))
  /\ \A c \in Clients : SF_vars(ClientSteps(c))

FairSpec == Spec /\ Fairness

(***************************************************************************)
(* Properties.                                                             *)
(***************************************************************************)
\* Every checkpoint can be opened again: validate never refuses what Append
\* wrote, whatever gaps, duplicates and crashes came before.
Reopens == Valid(file)

\* Nothing is published that a restart would take back: the checkpoint is never
\* behind what readers have seen, and its retained window is the end of the log.
Durable ==
  /\ Len(log) <= file.cursor
  /\ \A i \in 1..Len(file.events) :
       file.events[i].id <= Len(log) => file.events[i].data = log[file.events[i].id]

\* The journal is the log it promises to be: clients see it without gaps,
\* duplicates or reordering across reconnects, resets, crashes and slow reads.
Promise == INSTANCE EventLog
  WITH view <- [c \in Clients |->
                  [after |-> client[c].after, at |-> client[c].at, has |-> client[c].has]]
Implements == Promise!Spec

\* Every event arrives: a full reorder buffer, a lost wakeup, a reset or a slot
\* that is never given back would keep a client behind for ever.
Delivered == \A c \in Clients : <>(client[c].at = MaxId)
=============================================================================
