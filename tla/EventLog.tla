------------------------------ MODULE EventLog ------------------------------
(***************************************************************************)
(* What the observation journal promises (internal/journal): one log of    *)
(* observations in the order of their identifiers, and clients that each   *)
(* see a part of it without gaps, duplicates or reordering.  A client that *)
(* falls too far behind is told to take a snapshot, which moves it ahead.  *)
(***************************************************************************)
EXTENDS Naturals, Sequences

CONSTANTS Clients, Payloads

VARIABLES
  log,    \* the observations accepted so far; the identifier is the position
  view    \* per client: what it has of the log, after one position (0 at first,
          \* later where its last snapshot began) up to another

Init ==
  /\ log = <<>>
  /\ view = [c \in Clients |-> [after |-> 0, at |-> 0, has |-> <<>>]]

\* Events are accepted; several at once when the first closes a gap.
Accept ==
  /\ log' \in Seq(Payloads)
  /\ Len(log') > Len(log) /\ SubSeq(log', 1, Len(log)) = log
  /\ UNCHANGED view

\* The client processes the event that follows its position.
Deliver(c) ==
  /\ view[c].at < Len(log)
  /\ view' = [view EXCEPT ![c].at = @ + 1, ![c].has = Append(@, log[view[c].at + 1])]
  /\ UNCHANGED log

\* The client replaces what it has by a retained part of the log.
Resync(c) ==
  /\ \E at \in view[c].at..Len(log) : \E after \in 0..at :
       view' = [view EXCEPT ![c] = [after |-> after, at |-> at, has |-> SubSeq(log, after + 1, at)]]
  /\ UNCHANGED log

Next == Accept \/ \E c \in Clients : Deliver(c) \/ Resync(c)

Spec == Init /\ [][Next]_<<log, view>>
=============================================================================
