--------------------------- MODULE IssueLifecycle ---------------------------
(***************************************************************************)
(* What the coordinator promises about one issue, without its files, crash *)
(* points and retries: the status moves only along the writes of the       *)
(* handler under way; an implementer runs only for the handler that starts *)
(* it and is gone before any other status is written; a merge comes only   *)
(* from the handler that announced it, which writes nothing after it; and  *)
(* a person's hold is kept, unless it comes in the middle of a handler,    *)
(* which may overwrite it and then goes where it would have gone.          *)
(***************************************************************************)
EXTENDS Transitions

VARIABLES
  status,   \* the Harness Status
  doing,    \* the kind of the action being applied, or "none"
  running,  \* an implementer's unit is active
  merged    \* the pull request is merged

vars == <<status, doing, running, merged>>

Init == status = "READY" /\ doing = "none" /\ ~running /\ ~merged

Begin ==
  /\ doing = "none" /\ Kind(status) # "none"
  /\ doing' = Kind(status)
  /\ UNCHANGED <<status, running, merged>>

End == doing' = "none" /\ UNCHANGED <<status, running, merged>>

\* A status write, with which the handler may end.
Write ==
  /\ status' \in Targets(doing)
  /\ <<status, status'>> \in Moves(doing) \/ status = Held
  /\ running => status' = "IN_PROGRESS"
  /\ doing' \in {doing, "none"}
  /\ UNCHANGED <<running, merged>>

Start ==
  /\ status \in {Starts(doing), Held}
  /\ Starts(doing) # "none"
  /\ running' = TRUE
  /\ doing' \in {doing, "none"}
  /\ UNCHANGED <<status, merged>>

Stop == running' = FALSE /\ UNCHANGED <<status, doing, merged>>

Merge ==
  /\ doing = "merge_pr" /\ status \in {"MERGING", Held} /\ ~running
  /\ merged' = TRUE /\ doing' = "none"
  /\ UNCHANGED <<status, running>>

Hold == status # "DONE" /\ status' = Held /\ UNCHANGED <<doing, running, merged>>

Next == Begin \/ End \/ Write \/ Start \/ Stop \/ Merge \/ Hold

Spec == Init /\ [][Next]_vars
=============================================================================
