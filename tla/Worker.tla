------------------------------- MODULE Worker -------------------------------
(***************************************************************************)
(* Worker processes: spawn-agent (a child of the broker, so its steps are  *)
(* steps of the broker), the transient systemd unit it starts, and         *)
(* run-provider-agent inside that unit.                                    *)
(***************************************************************************)
EXTENDS Lifecycle

(***************************************************************************)
(* spawn-agent.  Its checks come first, then it truncates the result, then *)
(* refuses a unit that is already active, then writes the job record, and  *)
(* systemd-run is last.  Any of these may fail; that is BrokerStops below. *)
(***************************************************************************)
SpawnTruncate ==
  /\ pc = "spawn" /\ disk.clone.there /\ disk.pack[act.role] # {}
  /\ disk' = [disk EXCEPT !.result[act.role] = Simple("empty")]
  /\ Goto("spawn_job")
  /\ UNCHANGED <<item, unit, gh, health, env, ghost>>

\* realpath fails without a clone, and an active unit is exit code 7.
SpawnRefused ==
  /\ \/ pc = "spawn" /\ ~(disk.clone.there /\ disk.pack[act.role] # {})
     \/ pc = "spawn_job" /\ Active(act.role)
  /\ Return
  /\ UNCHANGED <<item, disk, unit, gh, health, env, ghost>>

SpawnJob ==
  /\ pc = "spawn_job" /\ ~Active(act.role)
  /\ disk' = [disk EXCEPT !.job[act.role] = [id |-> env.launches + 1, provider |-> act.agent]]
  /\ env' = [env EXCEPT !.launches = @ + 1]
  /\ Goto("spawn_unit")
  /\ UNCHANGED <<item, unit, gh, health, ghost>>

SpawnUnit ==
  /\ pc = "spawn_unit"
  /\ unit' = [unit EXCEPT ![act.role] = disk.job[act.role]]
  /\ ghost' = [ghost EXCEPT !.started[act.role] = disk.job[act.role].id,
                            !.runs = IF act.role = "implementer" THEN @ + 1 ELSE @]
  /\ Resume(act.next)
  /\ UNCHANGED <<item, disk, gh, health, env>>

SpawnSteps == SpawnTruncate \/ SpawnRefused \/ SpawnJob \/ SpawnUnit

(***************************************************************************)
(* run-provider-agent in the unit.                                         *)
(***************************************************************************)

\* The implementer commits; committing a prepared upstream merge makes HEAD
\* contain the target of the integration.
WorkerCommits ==
  /\ Active("implementer") /\ disk.clone.there /\ disk.clone.head < MaxCommits
  /\ disk' = [disk EXCEPT !.clone =
       [there |-> TRUE, head |-> disk.clone.head + 1, dirty |-> FALSE, merging |-> FALSE,
        based |-> IF disk.clone.merging THEN disk.cmeta.target ELSE disk.clone.based]]
  /\ ghost' = [ghost EXCEPT !.authors = @ \cup {unit["implementer"].provider}]
  /\ UNCHANGED <<item, unit, gh, health, pc, act, env>>

UnitEnds(role, kind, commit) ==
  /\ disk' = [disk EXCEPT !.result[role] =
                [kind |-> kind, commit |-> commit, deferred |-> kind = "ok" /\ HostCheck,
                 run |-> IF kind = "ok" THEN unit[role].id ELSE 0]]
  /\ unit' = [unit EXCEPT ![role] = NoJob]

\* An honest handoff: a clean clone whose HEAD is the reported commit.
ImplementerSucceeds ==
  /\ Active("implementer") /\ Valid(disk.clone.head)
  /\ UnitEnds("implementer", "ok", disk.clone.head)
  /\ UNCHANGED <<item, gh, health, pc, act, env, ghost>>

\* A result that parses while the clone is not what it says.
ImplementerMisreports ==
  /\ Active("implementer") /\ disk.clone.there /\ env.misreports < MaxMisreports
  /\ disk' = [disk EXCEPT !.clone.dirty = TRUE,
                          !.result["implementer"] = [kind |-> "ok", commit |-> disk.clone.head,
                            deferred |-> HostCheck, run |-> unit["implementer"].id]]
  /\ unit' = [unit EXCEPT !["implementer"] = NoJob]
  /\ env' = [env EXCEPT !.misreports = @ + 1]
  /\ UNCHANGED <<item, gh, health, pc, act, ghost>>

ReviewerDecides(role, decision) ==
  /\ Active(role)
  /\ UnitEnds(role, decision, 0)
  /\ ghost' = [ghost EXCEPT !.reviews = @ \cup
                 {[role |-> role, provider |-> unit[role].provider,
                   head |-> disk.clone.head, decision |-> decision]}]
  /\ UNCHANGED <<item, gh, health, pc, act, env>>

\* The provider process fails, or answers without a valid result.
WorkerFails(role, kind) ==
  /\ Active(role) /\ kind \in {"failed", "bad"}
  /\ UnitEnds(role, kind, 0)
  /\ UNCHANGED <<item, gh, health, pc, act, env, ghost>>

WorkerQuota(role) ==
  /\ Active(role) /\ env.quotas < MaxQuota
  /\ UnitEnds(role, "quota", 0)
  /\ env' = [env EXCEPT !.quotas = @ + 1]
  /\ UNCHANGED <<item, gh, health, pc, act, ghost>>

\* The unit is killed: the result stays as spawn-agent truncated it.
UnitKilled(role) ==
  /\ Active(role) /\ env.faults < MaxFaults
  /\ unit' = [unit EXCEPT ![role] = NoJob]
  /\ env' = [env EXCEPT !.faults = @ + 1]
  /\ UNCHANGED <<item, disk, gh, health, pc, act, ghost>>

WorkerSteps ==
  \/ WorkerCommits \/ ImplementerSucceeds \/ ImplementerMisreports
  \/ \E r \in ReviewRoles, d \in {"approve", "reject"} : ReviewerDecides(r, d)
  \/ \E r \in Roles, k \in {"failed", "bad"} : WorkerFails(r, k)
  \/ \E r \in Roles : WorkerQuota(r) \/ UnitKilled(r)

\* The units that end on their own whatever they did.
WorkerExits(role) ==
  \/ role = "implementer" /\ (ImplementerSucceeds \/ ImplementerMisreports)
  \/ role \in ReviewRoles /\ \E d \in {"approve", "reject"} : ReviewerDecides(role, d)
  \/ \E k \in {"failed", "bad"} : WorkerFails(role, k)
  \/ WorkerQuota(role)
=============================================================================
