----------------------------- MODULE TypesProof -----------------------------
(***************************************************************************)
(* TypeOK is an invariant of the lifecycle, whatever the constants are.    *)
(* One lemma per group of steps; in it one step per action, and under it   *)
(* the variables the action changes.                                       *)
(***************************************************************************)
EXTENDS Broker, TLAPS, WellFoundedInduction

(***************************************************************************)
(* The constants of the record types.                                      *)
(***************************************************************************)
LEMMA SimpleType ==
  ASSUME NEW k \in {"none", "empty", "quota", "failed", "bad"}
  PROVE  Simple(k) \in Result
  BY DEF Simple, Result

\* The "nothing there" records are records of their type.
LEMMA ConstantTypes ==
  /\ NoResult \in Result /\ NoJob \in Job /\ NoMeta \in Meta /\ NoWait \in Wait
  /\ NoTx \in Tx /\ NoClone \in Clone /\ NoCloneMeta \in CloneMeta
<1>1. NoResult \in Result /\ NoJob \in Job /\ NoClone \in Clone /\ NoCloneMeta \in CloneMeta
  BY SimpleType DEF NoResult, NoJob, Job, NoClone, Clone, NoCloneMeta, CloneMeta
<1>2. NoMeta \in Meta
  BY <1>1 DEF NoMeta, Meta
<1>3. {} \in Pack
  BY DEF Pack
<1>4. NoWait \in Wait
  <2>1. "none" \in Roles \cup {"none"} /\ "READY" \in Statuses
    BY DEF Statuses
  <2> QED BY <1>1, <1>3, <2>1 DEF NoWait, Wait
<1>5. NoTx \in Tx
  BY <1>1, <1>3 DEF NoTx, Tx
<1> QED
  BY <1>1, <1>2, <1>4, <1>5

\* A call returns to a label.
LEMMA CallersAreLabels == Callers \subseteq Labels
  BY DEF Callers, Labels

\* The empty payload is a payload.
LEMMA NoActType == NoAct \in Act
<1>1. "implementer" \in Roles /\ "READY" \in Statuses /\ "idle" \in Callers
  BY DEF Roles, Statuses, Callers
<1>2. [r \in Roles |-> NoResult] \in [Roles -> Result]
  BY ConstantTypes
<1>3. [r \in ReviewRoles |-> NoMeta] \in [ReviewRoles -> Meta]
  BY ConstantTypes
<1> QED
  BY <1>1, <1>2, <1>3, ConstantTypes DEF NoAct, Act

\* The lifecycle starts typed.
LEMMA InitType == Init => TypeOK
<1> SUFFICES ASSUME Init PROVE TypeOK
  OBVIOUS
<1>1. item \in Item
  BY DEF Init, Item, Statuses
<1>2. disk \in Disk
  BY ConstantTypes DEF Init, Disk, Pack
<1>3. unit \in [Roles -> Job] /\ health \in [Providers -> Health]
  BY ConstantTypes DEF Init, Health
<1>4. gh \in GitHub
  BY DEF Init, GitHub
<1>5. act \in Act /\ pc \in Labels
  BY NoActType DEF Init, Labels
<1>6. env \in Env /\ ghost \in Ghost
  BY DEF Init, Env, Ghost
<1> QED
  BY <1>1, <1>2, <1>3, <1>4, <1>5, <1>6 DEF TypeOK

(***************************************************************************)
(* The fields of the state, and what replacing one of them does.           *)
(***************************************************************************)
LEMMA DiskFields ==
  ASSUME NEW d \in Disk
  PROVE  /\ d.clone \in Clone /\ d.cmeta \in CloneMeta
         /\ d.pack \in [Roles -> Pack] /\ d.job \in [Roles -> Job]
         /\ d.result \in [Roles -> Result] /\ d.meta \in [ReviewRoles -> Meta]
         /\ d.wait \in Wait /\ d.tx \in Tx /\ d.budget \in Nat /\ d.report \in Nat
  BY DEF Disk

\* Replacing one file by another of its type leaves a disk.
LEMMA DiskUpdates ==
  ASSUME NEW d \in Disk
  PROVE  /\ \A v \in Clone : [d EXCEPT !.clone = v] \in Disk
         /\ \A v \in CloneMeta : [d EXCEPT !.cmeta = v] \in Disk
         /\ \A v \in [Roles -> Pack] : [d EXCEPT !.pack = v] \in Disk
         /\ \A v \in [Roles -> Job] : [d EXCEPT !.job = v] \in Disk
         /\ \A v \in [Roles -> Result] : [d EXCEPT !.result = v] \in Disk
         /\ \A v \in [ReviewRoles -> Meta] : [d EXCEPT !.meta = v] \in Disk
         /\ \A v \in Wait : [d EXCEPT !.wait = v] \in Disk
         /\ \A v \in Tx : [d EXCEPT !.tx = v] \in Disk
         /\ \A v \in Nat : [d EXCEPT !.budget = v] \in Disk
         /\ \A v \in Nat : [d EXCEPT !.report = v] \in Disk
  BY DEF Disk

\* The fields of a payload.
LEMMA ActFields ==
  ASSUME NEW a \in Act
  PROVE  /\ a.status \in Statuses /\ a.provider \in Nat /\ a.retry \in Nat
         /\ a.result \in [Roles -> Result] /\ a.job \in Job
         /\ a.meta \in [ReviewRoles -> Meta] /\ a.wait \in Wait
         /\ a.head \in Nat /\ a.base \in Nat /\ a.role \in Roles /\ a.agent \in Nat
         /\ a.next \in Callers /\ a.resume \in Statuses /\ a.quota \in BOOLEAN
         /\ a.saved \in Tx /\ a.newmeta \in Meta
  BY DEF Act

\* The handler's locals that an action may bind.
LEMMA ActUpdates ==
  ASSUME NEW a \in Act
  PROVE  /\ \A v \in Roles : [a EXCEPT !.role = v] \in Act
         /\ \A v \in Nat : [a EXCEPT !.agent = v] \in Act
         /\ \A v \in Callers : [a EXCEPT !.next = v] \in Act
         /\ \A v \in Statuses : [a EXCEPT !.resume = v] \in Act
         /\ \A v \in BOOLEAN : [a EXCEPT !.quota = v] \in Act
         /\ \A v \in Tx : [a EXCEPT !.saved = v] \in Act
         /\ \A v \in Meta : [a EXCEPT !.newmeta = v] \in Act
  BY DEF Act

\* The fields of the Project item, and replacing them.
LEMMA ItemTypes ==
  ASSUME TypeOK
  PROVE  /\ item.status \in Statuses /\ item.provider \in Nat /\ item.retry \in Nat
         /\ \A s \in Statuses : [item EXCEPT !.status = s] \in Item
         /\ \A n \in Nat : [item EXCEPT !.retry = n] \in Item
  BY DEF TypeOK, Item

(***************************************************************************)
(* The payload of an action, and the control operators.                    *)
(***************************************************************************)
LEMMA PayloadType == TypeOK => Payload \in Act
<1> SUFFICES ASSUME TypeOK PROVE Payload \in Act
  OBVIOUS
<1>1. /\ disk.result \in [Roles -> Result] /\ disk.job["implementer"] \in Job
      /\ disk.meta \in [ReviewRoles -> Meta] /\ disk.wait \in Wait
  BY DiskFields DEF TypeOK, Roles
<1>2. item.status \in Statuses /\ item.provider \in Nat /\ item.retry \in Nat
  BY ItemTypes
<1>3. gh.head \in Nat /\ gh.tip \in Nat
  BY DEF TypeOK, GitHub
<1>4. "implementer" \in Roles /\ "READY" \in Statuses /\ "idle" \in Callers
  BY DEF Roles, Statuses, Callers
<1> QED
  BY <1>1, <1>2, <1>3, <1>4, ConstantTypes DEF Payload, Act

\* Every way a handler moves on: goto, return, accept, spawn-agent, park.
LEMMA ControlTypes ==
  ASSUME TypeOK
  PROVE  /\ \A l \in Labels : Goto(l) \/ Resume(l) \/ Accept(l) => pc' \in Labels /\ act' \in Act
         /\ Return => pc' \in Labels /\ act' \in Act
         /\ \A r \in Roles, p \in Nat, l \in Callers :
              SpawnAgent(r, p, l) => pc' \in Labels /\ act' \in Act
         /\ \A a \in Act, l \in Labels, r \in Roles, p \in Nat, s \in Statuses :
              Queue(a, l, r, p, s) => pc' \in Labels /\ act' \in Act
<1>1. ASSUME NEW l \in Labels, Goto(l) \/ Resume(l) \/ Accept(l)
      PROVE  pc' \in Labels /\ act' \in Act
  BY <1>1, NoActType, PayloadType DEF Goto, Resume, Accept, TypeOK
<1>2. Return => pc' \in Labels /\ act' \in Act
  BY NoActType DEF Return, Labels
<1>3. ASSUME NEW r \in Roles, NEW p \in Nat, NEW l \in Callers, SpawnAgent(r, p, l)
      PROVE  pc' \in Labels /\ act' \in Act
  <2>1. [act EXCEPT !.role = r, !.agent = p, !.next = l] \in Act
    BY DEF TypeOK, Act
  <2> QED BY <1>3, <2>1 DEF SpawnAgent, Labels
<1>4. ASSUME NEW a \in Act, NEW l \in Labels, NEW r \in Roles, NEW p \in Nat,
             NEW s \in Statuses, Queue(a, l, r, p, s)
      PROVE  pc' \in Labels /\ act' \in Act
  <2>1. [a EXCEPT !.role = r, !.agent = p, !.resume = s] \in Act
    BY DEF Act
  <2> QED BY <1>4, <2>1 DEF Queue
<1> QED
  BY <1>1, <1>2, <1>3, <1>4

(***************************************************************************)
(* spawn-agent and the workers.                                            *)
(***************************************************************************)
LEMMA SpawnTypes == TypeOK /\ SpawnSteps => TypeOK'
<1> SUFFICES ASSUME TypeOK, SpawnSteps PROVE TypeOK'
  OBVIOUS
<1>1. CASE SpawnTruncate
  <2>1. disk' \in Disk
    BY <1>1, DiskFields, DiskUpdates, SimpleType DEF SpawnTruncate, TypeOK
  <2>2. pc' \in Labels /\ act' \in Act
    BY <1>1, ControlTypes DEF SpawnTruncate, Labels
  <2> QED BY <1>1, <2>1, <2>2 DEF SpawnTruncate, TypeOK
<1>2. CASE SpawnRefused
  <2>1. pc' \in Labels /\ act' \in Act
    BY <1>2, ControlTypes DEF SpawnRefused
  <2> QED BY <1>2, <2>1 DEF SpawnRefused, TypeOK
<1>3. CASE SpawnJob
  <2>1. env.launches + 1 \in Nat /\ env' \in Env
    BY <1>3 DEF SpawnJob, TypeOK, Env
  <2>2. [id |-> env.launches + 1, provider |-> act.agent] \in Job
    BY <2>1, ActFields DEF TypeOK, Job
  <2>3. disk' \in Disk
    BY <1>3, <2>2, DiskFields, DiskUpdates DEF SpawnJob, TypeOK
  <2>4. pc' \in Labels /\ act' \in Act
    BY <1>3, ControlTypes DEF SpawnJob, Labels
  <2> QED BY <1>3, <2>1, <2>3, <2>4 DEF SpawnJob, TypeOK
<1>4. CASE SpawnUnit
  <2>1. disk.job[act.role] \in Job
    BY DiskFields, ActFields DEF TypeOK
  <2>2. unit' \in [Roles -> Job]
    BY <1>4, <2>1 DEF SpawnUnit, TypeOK
  <2>3. ghost' \in Ghost
    <3>1. disk.job[act.role].id \in Nat
      BY <2>1 DEF Job
    <3>2. [ghost.started EXCEPT ![act.role] = disk.job[act.role].id] \in [Roles -> Nat]
      BY <3>1 DEF TypeOK, Ghost
    <3>3. ghost.runs + 1 \in Nat /\ ghost.runs \in Nat
      BY DEF TypeOK, Ghost
    <3> QED BY <1>4, <3>2, <3>3 DEF SpawnUnit, TypeOK, Ghost
  <2>4. pc' \in Labels /\ act' \in Act
    BY <1>4, ControlTypes, ActFields, CallersAreLabels DEF SpawnUnit, TypeOK
  <2> QED BY <1>4, <2>2, <2>3, <2>4 DEF SpawnUnit, TypeOK
<1> QED
  BY <1>1, <1>2, <1>3, <1>4 DEF SpawnSteps

\* A unit ends with a result of any kind.
LEMMA UnitEndsTypes ==
  ASSUME TypeOK, NEW r \in Roles, NEW c \in Nat,
         NEW k \in {"quota", "failed", "bad", "ok", "approve", "reject"}, UnitEnds(r, k, c)
  PROVE  disk' \in Disk /\ unit' \in [Roles -> Job]
<1>1. unit[r].id \in Nat
  BY DEF TypeOK, Job
<1>2. [kind |-> k, commit |-> c, deferred |-> k = "ok" /\ HostCheck,
       run |-> IF k = "ok" THEN unit[r].id ELSE 0] \in Result
  BY <1>1, LifecycleAssumption DEF Result
<1>3. disk' \in Disk
  BY <1>2, DiskFields, DiskUpdates DEF UnitEnds, TypeOK
<1> QED
  BY <1>3, ConstantTypes DEF UnitEnds, TypeOK

\* What the workers write.
LEMMA WorkerTypes == TypeOK /\ WorkerSteps => TypeOK'
<1> SUFFICES ASSUME TypeOK, WorkerSteps PROVE TypeOK'
  OBVIOUS
<1>0. /\ "implementer" \in Roles /\ ReviewRoles \subseteq Roles
      /\ disk.clone \in Clone /\ disk.cmeta \in CloneMeta /\ disk.clone.head \in Nat
  BY DiskFields DEF TypeOK, Roles, Clone
<1>1. CASE WorkerCommits
  <2>1. [there |-> TRUE, head |-> disk.clone.head + 1, dirty |-> FALSE, merging |-> FALSE,
         based |-> IF disk.clone.merging THEN disk.cmeta.target ELSE disk.clone.based] \in Clone
    BY <1>0 DEF Clone, CloneMeta
  <2>2. disk' \in Disk
    BY <1>1, <2>1, DiskUpdates DEF WorkerCommits, TypeOK
  <2>3. ghost' \in Ghost
    <3>1. unit["implementer"].provider \in Nat
      BY <1>0 DEF TypeOK, Job
    <3> QED BY <1>1, <3>1 DEF WorkerCommits, TypeOK, Ghost
  <2> QED BY <1>1, <2>2, <2>3 DEF WorkerCommits, TypeOK
<1>2. CASE ImplementerSucceeds
  BY <1>0, <1>2, UnitEndsTypes DEF ImplementerSucceeds, TypeOK
<1>3. CASE ImplementerMisreports
  <2>1. [kind |-> "ok", commit |-> disk.clone.head, deferred |-> HostCheck,
         run |-> unit["implementer"].id] \in Result
    <3>1. unit["implementer"].id \in Nat
      BY <1>0 DEF TypeOK, Job
    <3> QED BY <1>0, <3>1, LifecycleAssumption DEF Result
  <2>2. [disk.clone EXCEPT !.dirty = TRUE] \in Clone
    BY <1>0 DEF Clone
  <2>3. disk' \in Disk
    BY <1>3, <2>1, <2>2, DiskFields, DiskUpdates DEF ImplementerMisreports, TypeOK
  <2>4. unit' \in [Roles -> Job]
    BY <1>3, ConstantTypes DEF ImplementerMisreports, TypeOK
  <2>5. env' \in Env
    BY <1>3 DEF ImplementerMisreports, TypeOK, Env
  <2> QED BY <1>3, <2>3, <2>4, <2>5 DEF ImplementerMisreports, TypeOK
<1>4. ASSUME NEW r \in ReviewRoles, NEW d \in {"approve", "reject"}, ReviewerDecides(r, d)
      PROVE  TypeOK'
  <2>1. disk' \in Disk /\ unit' \in [Roles -> Job]
    BY <1>0, <1>4, UnitEndsTypes DEF ReviewerDecides
  <2>2. [role |-> r, provider |-> unit[r].provider, head |-> disk.clone.head,
         decision |-> d] \in Verdict
    <3>1. unit[r].provider \in Nat
      BY <1>0 DEF TypeOK, Job
    <3> QED BY <1>0, <3>1 DEF Verdict
  <2>3. ghost' \in Ghost
    BY <1>4, <2>2 DEF ReviewerDecides, TypeOK, Ghost
  <2> QED BY <1>4, <2>1, <2>3 DEF ReviewerDecides, TypeOK
<1>5. ASSUME NEW r \in Roles, NEW k \in {"failed", "bad"}, WorkerFails(r, k)
      PROVE  TypeOK'
  BY <1>5, UnitEndsTypes DEF WorkerFails, TypeOK
<1>6. ASSUME NEW r \in Roles, WorkerQuota(r)
      PROVE  TypeOK'
  <2>1. env' \in Env
    BY <1>6 DEF WorkerQuota, TypeOK, Env
  <2> QED BY <1>6, <2>1, UnitEndsTypes DEF WorkerQuota, TypeOK
<1>7. ASSUME NEW r \in Roles, UnitKilled(r)
      PROVE  TypeOK'
  <2>1. env' \in Env
    BY <1>7 DEF UnitKilled, TypeOK, Env
  <2> QED BY <1>7, <2>1, ConstantTypes DEF UnitKilled, TypeOK
<1> QED
  BY <1>1, <1>2, <1>3, <1>4, <1>5, <1>6, <1>7 DEF WorkerSteps

(***************************************************************************)
(* Cooldowns and parking.                                                  *)
(***************************************************************************)
LEMMA WaitFields ==
  ASSUME NEW w \in Wait
  PROVE  /\ w.role \in Roles \cup {"none"} /\ w.failed \in Nat /\ w.resume \in Statuses
         /\ w.result \in Result /\ w.job \in Job /\ w.pack \in Pack /\ w.head \in Nat
         /\ w.pending \in BOOLEAN /\ w.selected \in Nat /\ w.recovery \in Nat
         /\ w.impl \in Result
         /\ \A v \in BOOLEAN : [w EXCEPT !.pending = v] \in Wait
         /\ \A v \in Nat : [w EXCEPT !.selected = v] \in Wait
         /\ \A v \in Nat, i \in Result : [w EXCEPT !.recovery = v, !.impl = i] \in Wait
  BY DEF Wait

\* provider_candidate is an eligible provider, or 0 when there is none.
LEMMA CandidateType ==
  ASSUME NEW r, NEW i
  PROVE  /\ Candidate(r, i) \in Nat
         /\ Candidate(r, i) # 0 => Candidate(r, i) \in Eligible(r, i)
<1>1. CASE Eligible(r, i) = {}
  BY <1>1 DEF Candidate
<1>2. CASE Eligible(r, i) # {}
  <2>1. Eligible(r, i) \subseteq Nat
    BY LifecycleAssumption DEF Eligible, Providers
  <2>2. PICK p \in Eligible(r, i) : \A q \in Eligible(r, i) : p <= q
    <3> DEFINE Less == OpToRel(<, Nat)
    <3>1. IsWellFoundedOn(Less, Nat)
      BY NatLessThanWellFounded
    <3>2. \A m, n \in Nat : m < n => <<m, n>> \in Less
      BY DEF OpToRel
    <3> HIDE DEF Less
    <3>3. PICK n \in Eligible(r, i) : \A m \in Eligible(r, i) : ~ (<<m, n>> \in Less)
      BY <1>2, <2>1, <3>1, WFMin
    <3>4. ASSUME NEW m \in Eligible(r, i) PROVE n <= m
      <4>1. n \in Nat /\ m \in Nat
        BY <2>1
      <4>2. ~ (m < n)
        BY <4>1, <3>2, <3>3
      <4> QED BY <4>1, <4>2
    <3> QED BY <3>3, <3>4
  <2> QED BY <1>2, <2>1, <2>2 DEF Candidate
<1> QED
  BY <1>1, <1>2

\* Parking and recovering an item.
LEMMA CooldownTypes == TypeOK /\ CooldownSteps => TypeOK'
<1> SUFFICES ASSUME TypeOK, CooldownSteps PROVE TypeOK'
  OBVIOUS
<1>0. /\ disk.wait \in Wait /\ disk.wait.role \in Roles \cup {"none"}
      /\ disk.wait.resume \in Statuses /\ disk.wait.job.id \in Nat
      /\ disk.result \in [Roles -> Result] /\ disk.job \in [Roles -> Job]
      /\ disk.pack \in [Roles -> Pack] /\ disk.clone.head \in Nat
      /\ "implementer" \in Roles
  BY DiskFields, WaitFields DEF TypeOK, Job, Roles, Clone
<1>1. CASE QuotaMark
  <2>1. [blocked |-> TRUE, result |-> disk.result[act.role], job |-> disk.job[act.role]]
          \in Health
    BY <1>0, ActFields DEF TypeOK, Health
  <2>2. health' \in [Providers -> Health]
    BY <1>1, <2>1 DEF QuotaMark, TypeOK
  <2>3. pc' \in Labels /\ act' \in Act
    BY <1>1, ControlTypes DEF QuotaMark, Labels
  <2> QED BY <1>1, <2>2, <2>3 DEF QuotaMark, TypeOK
<1>2. CASE QueueWait
  <2>1. /\ act.role \in Roles /\ act.agent \in Nat /\ act.resume \in Statuses
        /\ disk.result[act.role] \in Result /\ disk.job[act.role] \in Job
        /\ disk.pack[act.role] \in Pack
    BY <1>0, ActFields DEF TypeOK
  <2>2. Parked \in Wait
    BY <1>0, <2>1, ConstantTypes DEF Parked, Wait
  <2>3. disk' \in Disk
    BY <1>2, <2>2, DiskUpdates DEF QueueWait, TypeOK
  <2>4. pc' \in Labels /\ act' \in Act
    BY <1>2, ControlTypes DEF QueueWait, Labels
  <2> QED BY <1>2, <2>3, <2>4 DEF QueueWait, TypeOK
<1>3. CASE QueueStatus
  <2>1. item' \in Item
    BY <1>3 DEF QueueStatus, Explain, TypeOK, Item, Statuses
  <2>2. pc' \in Labels /\ act' \in Act
    BY <1>3, ControlTypes DEF QueueStatus
  <2> QED BY <1>3, <2>1, <2>2 DEF QueueStatus, TypeOK
<1>4. CASE RecoverStart
  <2>1. disk.wait.role \in Roles /\ Candidate(disk.wait.role, item.provider) \in Nat
    BY <1>0, <1>4, CandidateType DEF RecoverStart
  <2>2. [Payload EXCEPT !.role = disk.wait.role,
                        !.agent = Candidate(disk.wait.role, item.provider)] \in Act
    BY <2>1, PayloadType DEF Act
  <2>3. act' \in Act /\ pc' \in Labels
    BY <1>4, <2>2 DEF RecoverStart, Labels
  <2> QED BY <1>4, <2>3 DEF RecoverStart, TypeOK
<1>5. CASE RecoverSelect
  <2>1. disk' \in Disk
    BY <1>0, <1>5, WaitFields, ActFields, DiskUpdates DEF RecoverSelect, TypeOK
  <2>2. pc' \in Labels /\ act' \in Act
    BY <1>5, ControlTypes DEF RecoverSelect, Labels
  <2> QED BY <1>5, <2>1, <2>2 DEF RecoverSelect, TypeOK
<1>6. CASE RecoverField
  <2>1. item' \in Item
    BY <1>6, ActFields DEF RecoverField, TypeOK, Item
  <2>2. pc' \in Labels /\ act' \in Act
    BY <1>6, ControlTypes DEF RecoverField, Labels
  <2> QED BY <1>6, <2>1, <2>2 DEF RecoverField, TypeOK
<1>7. CASE RecoverResume
  <2>1. item' \in Item
    BY <1>0, <1>7, ItemTypes DEF RecoverResume, SetStatus
  <2>2. pc' \in Labels /\ act' \in Act
    BY <1>7, ControlTypes DEF RecoverResume
  <2> QED BY <1>7, <2>1, <2>2 DEF RecoverResume, TypeOK
<1>8. CASE RecoverReview
  <2>1. [disk.wait EXCEPT !.recovery = disk.wait.job.id, !.impl = disk.result["implementer"]]
          \in Wait
    BY <1>0, WaitFields
  <2>2. disk' \in Disk
    BY <1>8, <2>1, DiskUpdates DEF RecoverReview, TypeOK
  <2>3. pc' \in Labels /\ act' \in Act
    BY <1>8, ControlTypes DEF RecoverReview, Labels
  <2> QED BY <1>8, <2>2, <2>3 DEF RecoverReview, TypeOK
<1>9. CASE RecoverReviewStatus
  <2>1. item' \in Item
    BY <1>9 DEF RecoverReviewStatus, SetStatus, Explain, TypeOK, Item, Statuses
  <2>2. pc' \in Labels /\ act' \in Act
    BY <1>9, ControlTypes DEF RecoverReviewStatus
  <2> QED BY <1>9, <2>1, <2>2 DEF RecoverReviewStatus, TypeOK
<1> QED
  BY <1>1, <1>2, <1>3, <1>4, <1>5, <1>6, <1>7, <1>8, <1>9 DEF CooldownSteps

\* Cooldowns begin and end by themselves.
LEMMA CooldownEnvironmentTypes == TypeOK /\ CooldownEnvironment => TypeOK'
<1> SUFFICES ASSUME TypeOK, NEW p \in Providers, OtherIssueQuota(p) \/ CooldownEnds(p)
             PROVE  TypeOK'
  BY DEF CooldownEnvironment
<1>1. CASE OtherIssueQuota(p)
  <2>1. [blocked |-> TRUE, result |-> NoResult, job |-> NoJob] \in Health
    BY ConstantTypes DEF Health
  <2>2. health' \in [Providers -> Health]
    BY <1>1, <2>1 DEF OtherIssueQuota, TypeOK
  <2>3. env' \in Env
    BY <1>1 DEF OtherIssueQuota, TypeOK, Env
  <2> QED BY <1>1, <2>2, <2>3 DEF OtherIssueQuota, TypeOK
<1>2. CASE CooldownEnds(p)
  <2>1. [health[p] EXCEPT !.blocked = FALSE] \in Health
    BY DEF TypeOK, Health
  <2>2. health' \in [Providers -> Health]
    BY <1>2, <2>1 DEF CooldownEnds, TypeOK
  <2> QED BY <1>2, <2>2 DEF CooldownEnds, TypeOK
<1> QED
  BY <1>1, <1>2

(***************************************************************************)
(* The implementer's half.                                                 *)
(***************************************************************************)
LEMMA StatusTypes ==
  ASSUME TypeOK, NEW s \in Statuses
  PROVE  /\ SetStatus(s) => item' \in Item
         /\ \A n \in {"other", "limit", "process"} : Explain(n, s) => item' \in Item
  BY DEF SetStatus, Explain, TypeOK, Item

\* dispatch and its except block.
LEMMA DispatchTypes == TypeOK /\ DispatchSteps => TypeOK'
<1> SUFFICES ASSUME TypeOK, DispatchSteps PROVE TypeOK'
  OBVIOUS
<1>0. /\ "implementer" \in Roles /\ {"CLAIMED", "IN_PROGRESS", "READY"} \subseteq Statuses
      /\ {"task"} \in Pack /\ {} \in Pack
  BY DEF Roles, Statuses, Pack
<1>1. CASE DispatchStart
  <2>1. Payload \in Act /\ item.provider \in Nat
    BY PayloadType, ItemTypes
  <2>2. act' \in Act /\ pc' \in Labels
    BY <1>0, <1>1, <2>1, ControlTypes DEF DispatchStart, Labels
  <2> QED BY <1>1, <2>2 DEF DispatchStart, TypeOK
<1>2. CASE DispatchClaim
  BY <1>0, <1>2, StatusTypes, ControlTypes DEF DispatchClaim, TypeOK, Labels
<1>3. CASE DispatchStale
  BY <1>3, ControlTypes DEF DispatchStale, TypeOK
<1>4. CASE DispatchClone
  <2>1. [NoClone EXCEPT !.there = TRUE, !.based = gh.tip] \in Clone
    BY ConstantTypes DEF Clone, TypeOK, GitHub
  <2>2. disk' \in Disk
    BY <1>4, <2>1, DiskUpdates DEF DispatchClone, TypeOK
  <2>3. pc' \in Labels /\ act' \in Act
    BY <1>4, ControlTypes DEF DispatchClone, Labels
  <2> QED BY <1>4, <2>2, <2>3 DEF DispatchClone, TypeOK
<1>5. CASE DispatchMeta
  <2>1. [NoCloneMeta EXCEPT !.base = act.base] \in CloneMeta
    BY ConstantTypes, ActFields DEF CloneMeta, TypeOK
  <2>2. disk' \in Disk
    BY <1>5, <2>1, DiskUpdates DEF DispatchMeta, TypeOK
  <2>3. pc' \in Labels /\ act' \in Act
    BY <1>5, ControlTypes DEF DispatchMeta, Labels
  <2> QED BY <1>5, <2>2, <2>3 DEF DispatchMeta, TypeOK
<1>6. CASE DispatchPack
  <2>1. [disk.pack EXCEPT !["implementer"] = {"task"}] \in [Roles -> Pack]
    BY <1>0, DiskFields DEF TypeOK
  <2>2. disk' \in Disk
    <3>1. disk \in Disk /\ disk' \in {disk, [disk EXCEPT !.pack["implementer"] = {"task"}]}
      BY <1>6 DEF DispatchPack, TypeOK
    <3>2. [disk EXCEPT !.pack["implementer"] = {"task"}] =
            [disk EXCEPT !.pack = [disk.pack EXCEPT !["implementer"] = {"task"}]]
      OBVIOUS
    <3>3. [disk EXCEPT !.pack["implementer"] = {"task"}] \in Disk
      BY <2>1, <3>1, <3>2, DiskUpdates
    <3> QED BY <3>1, <3>3
  <2>3. pc' \in Labels /\ act' \in Act
    BY <1>6, ControlTypes DEF DispatchPack, Labels
  <2> QED BY <1>6, <2>2, <2>3 DEF DispatchPack, TypeOK
<1>7. CASE DispatchSpawn
  <2>1. pc' \in Labels /\ act' \in Act
    BY <1>0, <1>7, ControlTypes, ActFields DEF DispatchSpawn, TypeOK, Labels, Callers
  <2> QED BY <1>7, <2>1 DEF DispatchSpawn, TypeOK
<1>8. CASE DispatchDone
  BY <1>0, <1>8, StatusTypes, ControlTypes DEF DispatchDone, TypeOK
<1>9. CASE DispatchFails
  <2>1. env' \in Env
    BY <1>9 DEF DispatchFails, TypeOK, Env
  <2> QED BY <1>9, <2>1, ControlTypes DEF DispatchFails, TypeOK, Labels
<1>10. CASE UnwindFiles
  <2>1. [disk.pack EXCEPT !["implementer"] = {}] \in [Roles -> Pack]
    BY <1>0, DiskFields DEF TypeOK
  <2>2. disk' \in Disk
    BY <1>10, <2>1, ConstantTypes DEF UnwindFiles, TypeOK, Disk
  <2> QED BY <1>10, <2>2, ControlTypes DEF UnwindFiles, TypeOK, Labels
<1>11. CASE UnwindStatus
  BY <1>0, <1>11, StatusTypes, ControlTypes DEF UnwindStatus, TypeOK
<1> QED
  BY <1>1, <1>2, <1>3, <1>4, <1>5, <1>6, <1>7, <1>8, <1>9, <1>10, <1>11 DEF DispatchSteps

\* Going on at a label that the action took from its caller.
LEMMA NextLabel == TypeOK => act.next \in Labels /\ act.status \in Statuses
  BY ActFields, CallersAreLabels DEF TypeOK

\* An implementation handler starts with the payload.
LEMMA ImplementationStartTypes ==
  ASSUME TypeOK, NEW l \in {"reconcile", "retry"}, NEW s, ImplementationStart(s, l)
  PROVE  TypeOK'
<1>1. [Payload EXCEPT !.next = l] \in Act
  BY PayloadType, ActUpdates DEF Callers
<1>2. act' \in Act /\ pc' \in Labels
  BY <1>1 DEF ImplementationStart, Labels
<1> QED
  BY <1>2 DEF ImplementationStart, TypeOK

\* recover_quota_launch.
LEMMA LaunchTypes == TypeOK /\ LaunchSteps => TypeOK'
<1> SUFFICES ASSUME TypeOK, LaunchSteps PROVE TypeOK'
  OBVIOUS
<1>0. /\ "implementer" \in Roles /\ "RETRY_PENDING" \in Statuses
      /\ disk.tx.pack \in Pack /\ disk.tx.job \in Job /\ disk.tx.result \in Result
  BY DiskFields DEF TypeOK, Roles, Statuses, Tx
<1>1. CASE LaunchSpent
  <2>1. disk' \in Disk
    BY <1>1, DiskFields, WaitFields, DiskUpdates DEF LaunchSpent, TypeOK
  <2> QED BY <1>1, <2>1, ControlTypes DEF LaunchSpent, TypeOK, Labels
<1>2. CASE LaunchSettled
  <2>1. disk' \in Disk
    BY <1>2, ConstantTypes, DiskUpdates DEF LaunchSettled, TypeOK
  <2> QED BY <1>2, <2>1, NextLabel, ControlTypes DEF LaunchSettled, TypeOK
<1>3. CASE LaunchRestored
  <2>1. /\ [disk.pack EXCEPT !["implementer"] = disk.tx.pack] \in [Roles -> Pack]
        /\ [disk.job EXCEPT !["implementer"] = disk.tx.job] \in [Roles -> Job]
        /\ [disk.result EXCEPT !["implementer"] = disk.tx.result] \in [Roles -> Result]
    BY <1>0, DiskFields DEF TypeOK
  <2>2. disk' \in Disk
    BY <1>3, <2>1 DEF LaunchRestored, TypeOK, Disk
  <2> QED BY <1>3, <2>2, ControlTypes DEF LaunchRestored, TypeOK, Labels
<1>4. CASE LaunchStatus
  BY <1>0, <1>4, StatusTypes, ControlTypes DEF LaunchStatus, TypeOK, Labels
<1>5. CASE LaunchClosed
  <2>1. disk' \in Disk
    BY <1>5, ConstantTypes, DiskUpdates DEF LaunchClosed, TypeOK
  <2> QED BY <1>5, <2>1, ControlTypes DEF LaunchClosed, TypeOK
<1>6. CASE LaunchKept
  BY <1>6, ControlTypes DEF LaunchKept, TypeOK
<1> QED
  BY <1>1, <1>2, <1>3, <1>4, <1>5, <1>6 DEF LaunchSteps

\* reconcile_implementation.
LEMMA ReconcileTypes == TypeOK /\ ReconcileSteps => TypeOK'
<1> SUFFICES ASSUME TypeOK, ReconcileSteps PROVE TypeOK'
  OBVIOUS
<1>0. /\ "implementer" \in Roles /\ {"READY", "RETRY_PENDING", "IMPLEMENTED"} \subseteq Statuses
      /\ {} \in Pack
  BY DEF Roles, Statuses, Pack
<1>1. CASE ReconcileStart
  BY <1>1, ImplementationStartTypes DEF ReconcileStart
<1>2. CASE ReconcileAbandoned
  <2>1. CASE act.status = "CLAIMED"
    <3>1. [disk.pack EXCEPT !["implementer"] = {}] \in [Roles -> Pack]
      BY <1>0, DiskFields DEF TypeOK
    <3>2. disk' \in Disk
      BY <1>2, <2>1, <3>1, ConstantTypes DEF ReconcileAbandoned, TypeOK, Disk
    <3> QED BY <1>2, <2>1, <3>2, ControlTypes DEF ReconcileAbandoned, TypeOK, Labels
  <2>2. CASE act.status # "CLAIMED"
    BY <1>0, <1>2, <2>2, StatusTypes, ControlTypes DEF ReconcileAbandoned, TypeOK
  <2> QED BY <2>1, <2>2
<1>3. CASE ReconcileReady
  BY <1>0, <1>3, StatusTypes, ControlTypes DEF ReconcileReady, TypeOK
<1>4. CASE ReconcileQuota
  <2>1. act' \in Act /\ pc' \in Labels
    BY <1>0, <1>4, ControlTypes, ActFields DEF ReconcileQuota, TypeOK, Labels
  <2> QED BY <1>4, <2>1 DEF ReconcileQuota, TypeOK
<1>5. CASE ReconcileFailure
  BY <1>0, <1>5, StatusTypes, ControlTypes DEF ReconcileFailure, TypeOK
<1>6. CASE ReconcileSuccess
  BY <1>0, <1>6, StatusTypes, ControlTypes DEF ReconcileSuccess, TypeOK
<1>7. CASE ReconcileNothing
  BY <1>7, ControlTypes DEF ReconcileNothing, TypeOK
<1> QED
  BY <1>1, <1>2, <1>3, <1>4, <1>5, <1>6, <1>7 DEF ReconcileSteps

\* retry_implementation: the retry count needs MaxRetries > 0.
LEMMA RetryTypes == TypeOK /\ RetrySteps => TypeOK'
<1> SUFFICES ASSUME TypeOK, RetrySteps PROVE TypeOK'
  OBVIOUS
<1>0. /\ "implementer" \in Roles /\ {"WAITING_HUMAN", "IN_PROGRESS"} \subseteq Statuses
      /\ act.saved.pack \in Pack /\ act.saved.job \in Job /\ act.saved.result \in Result
      /\ act \in Act /\ act.provider \in Nat /\ act.retry \in Nat /\ disk \in Disk
  BY ActFields DEF TypeOK, Roles, Statuses, Tx
<1>1. CASE RetryStart
  BY <1>1, ImplementationStartTypes DEF RetryStart
<1>2. CASE RetryLimit
  BY <1>0, <1>2, StatusTypes, ControlTypes DEF RetryLimit, TypeOK
<1>3. CASE RetryPrepare
  <2>1. [open |-> TRUE, provider |-> act.provider, pack |-> disk.pack["implementer"],
         job |-> disk.job["implementer"], result |-> disk.result["implementer"]] \in Tx
    BY <1>0, DiskFields DEF Tx
  <2>2. QuotaRetry \in BOOLEAN
    BY DEF QuotaRetry
  <2>3. act' \in Act
    BY <1>0, <1>3, <2>1, <2>2 DEF RetryPrepare, Act
  <2>4. pc' \in Labels
    BY <1>3 DEF RetryPrepare, Labels
  <2> QED BY <1>3, <2>3, <2>4 DEF RetryPrepare, TypeOK
<1>4. CASE RetryRefused
  BY <1>4, ControlTypes DEF RetryRefused, TypeOK
<1>5. CASE RetryTx
  <2>1. disk' \in Disk
    BY <1>0, <1>5, ActFields, DiskUpdates DEF RetryTx
  <2> QED BY <1>5, <2>1, ControlTypes DEF RetryTx, TypeOK, Labels
<1>6. CASE RetryPack
  <2>1. NewPack \in Pack
    BY <1>0 DEF NewPack, Pack
  <2>2. disk' \in Disk
    BY <1>0, <1>6, <2>1, DiskFields, DiskUpdates DEF RetryPack
  <2> QED BY <1>6, <2>2, ControlTypes DEF RetryPack, TypeOK, Labels
<1>7. CASE RetryUnlinkJob
  <2>1. disk' \in Disk
    BY <1>0, <1>7, ConstantTypes, DiskFields, DiskUpdates DEF RetryUnlinkJob
  <2> QED BY <1>7, <2>1, ControlTypes DEF RetryUnlinkJob, TypeOK, Labels
<1>8. CASE RetryUnlinkResult
  <2>1. disk' \in Disk
    BY <1>0, <1>8, ConstantTypes, DiskFields, DiskUpdates DEF RetryUnlinkResult
  <2> QED BY <1>8, <2>1, ControlTypes DEF RetryUnlinkResult, TypeOK, Labels
<1>9. CASE RetryCount
  <2>1. item' \in Item
    BY <1>0, <1>9, ItemTypes DEF RetryCount, NextRetry
  <2> QED BY <1>9, <2>1, ControlTypes DEF RetryCount, TypeOK, Labels
<1>10. CASE RetryStatus
  BY <1>0, <1>10, StatusTypes, ControlTypes DEF RetryStatus, TypeOK, Labels
<1>11. CASE RetryGuard
  <2>1. pc' \in Labels /\ act' \in Act
    BY <1>0, <1>11, ControlTypes DEF RetryGuard, Labels, Callers
  <2> QED BY <1>11, <2>1 DEF RetryGuard, TypeOK
<1>12. CASE RetryGuardFails
  <2>1. env' \in Env
    BY <1>12 DEF RetryGuardFails, TypeOK, Env
  <2> QED BY <1>12, <2>1, ControlTypes DEF RetryGuardFails, TypeOK, Labels
<1>13. CASE RetryRestore
  <2>1. /\ [disk.pack EXCEPT !["implementer"] = act.saved.pack] \in [Roles -> Pack]
        /\ [disk.job EXCEPT !["implementer"] = act.saved.job] \in [Roles -> Job]
        /\ [disk.result EXCEPT !["implementer"] = act.saved.result] \in [Roles -> Result]
    BY <1>0, DiskFields
  <2>2. disk' \in Disk
    BY <1>0, <1>13, <2>1 DEF RetryRestore, Disk
  <2> QED BY <1>13, <2>2, ControlTypes DEF RetryRestore, TypeOK, Labels
<1>14. CASE RetryUncount
  <2>1. item' \in Item
    BY <1>0, <1>14, ItemTypes DEF RetryUncount
  <2> QED BY <1>14, <2>1, ControlTypes DEF RetryUncount, TypeOK, Labels
<1>15. CASE RetryUnstatus
  BY <1>15, NextLabel, StatusTypes, ControlTypes DEF RetryUnstatus, TypeOK
<1>16. CASE RetryBudget
  <2>1. disk' \in Disk
    BY <1>0, <1>16, DiskFields, DiskUpdates DEF RetryBudget
  <2>2. pc' \in Labels /\ act' \in Act
    BY <1>0, <1>16, ControlTypes DEF RetryBudget, Labels, Callers
  <2> QED BY <1>16, <2>1, <2>2 DEF RetryBudget, TypeOK
<1>17. CASE RetrySpent
  <2>1. disk' \in Disk
    BY <1>0, <1>17, DiskFields, WaitFields, DiskUpdates DEF RetrySpent
  <2> QED BY <1>17, <2>1, ControlTypes DEF RetrySpent, TypeOK, Labels
<1>18. CASE RetryClose
  <2>1. disk' \in Disk
    BY <1>0, <1>18, ConstantTypes, DiskUpdates DEF RetryClose
  <2> QED BY <1>18, <2>1, ControlTypes DEF RetryClose, TypeOK
<1> QED
  BY <1>1, <1>2, <1>3, <1>4, <1>5, <1>6, <1>7, <1>8, <1>9, <1>10, <1>11, <1>12, <1>13, <1>14,
     <1>15, <1>16, <1>17, <1>18 DEF RetrySteps

\* resume_implementation: MaxRetries - 1 is a natural number.
LEMMA ResumeTypes == TypeOK /\ (ResumeStart \/ ResumeStatus) => TypeOK'
<1> SUFFICES ASSUME TypeOK, ResumeStart \/ ResumeStatus PROVE TypeOK'
  OBVIOUS
<1>1. CASE ResumeStart
  <2>1. MaxRetries - 1 \in Nat
    BY LifecycleAssumption
  <2>2. item' \in Item
    BY <1>1, <2>1 DEF ResumeStart, TypeOK, Item
  <2>3. env' \in Env
    BY <1>1 DEF ResumeStart, TypeOK, Env
  <2> QED BY <1>1, <2>2, <2>3, ControlTypes DEF ResumeStart, TypeOK, Labels
<1>2. CASE ResumeStatus
  BY <1>2, StatusTypes, ControlTypes DEF ResumeStatus, TypeOK, Statuses
<1> QED
  BY <1>1, <1>2

\* All of the implementer's half.
LEMMA ImplementationTypes == TypeOK /\ ImplementationSteps => TypeOK'
  BY DispatchTypes, LaunchTypes, ReconcileTypes, RetryTypes, ResumeTypes DEF ImplementationSteps

(***************************************************************************)
(* Publication and review.                                                 *)
(***************************************************************************)
LEMMA ImplType == TypeOK => /\ Impl \in Result /\ Impl.commit \in Nat
                            /\ disk.result \in [Roles -> Result]
                            /\ disk.job \in [Roles -> Job] /\ disk.pack \in [Roles -> Pack]
                            /\ disk.meta \in [ReviewRoles -> Meta]
                            /\ gh.head \in Nat /\ gh.tip \in Nat /\ gh.remote \in Nat
  BY DiskFields DEF TypeOK, Impl, Roles, Result, GitHub

\* publish_pr.
LEMMA PublishTypes == TypeOK /\ PublishSteps => TypeOK'
<1> SUFFICES ASSUME TypeOK, PublishSteps PROVE TypeOK'
  OBVIOUS
<1>1. CASE PublishStart
  <2>1. \E l \in {"publish_pr", "publish_push", "publish_hold"} : Accept(l)
    BY <1>1 DEF PublishStart
  <2>2. pc' \in Labels /\ act' \in Act
    BY <2>1, ControlTypes DEF Labels
  <2> QED BY <1>1, <2>2 DEF PublishStart, TypeOK
<1>2. CASE PublishHold
  BY <1>2, StatusTypes, ControlTypes DEF PublishHold, TypeOK, Statuses
<1>3. CASE PublishPush
  <2>1. gh' \in GitHub
    <3>1. gh \in GitHub /\ Impl.commit \in Nat
      BY ImplType DEF TypeOK
    <3>2. CASE UNCHANGED gh
      BY <3>1, <3>2
    <3>3. CASE ~UNCHANGED gh
      BY <1>3, <3>1, <3>3 DEF PublishPush, GitHub
    <3> QED BY <3>2, <3>3
  <2>2. pc' \in Labels /\ act' \in Act
    BY <1>3, ControlTypes DEF PublishPush, Labels
  <2> QED BY <1>3, <2>1, <2>2 DEF PublishPush, TypeOK
<1>4. CASE PublishPr
  <2>1. gh' \in GitHub
    BY <1>4, ImplType DEF PublishPr, TypeOK, GitHub
  <2> QED BY <1>4, <2>1, ControlTypes DEF PublishPr, TypeOK
<1> QED
  BY <1>1, <1>2, <1>3, <1>4 DEF PublishSteps

\* A call of spawn_review binds well-typed metadata.
LEMMA CallReviewTypes ==
  ASSUME NEW a \in Act, NEW r \in Roles, NEW p \in Nat, NEW t \in Nat, NEW v \in Nat,
         NEW l \in Callers, CallReview(a, r, p, t, v, l)
  PROVE  pc' \in Labels /\ act' \in Act
<1>1. a.head \in Nat /\ a.result["implementer"] \in Result
  BY ActFields DEF Roles
<1>2. [provider |-> p, head |-> a.head, impl |-> a.result["implementer"],
       tries |-> t, recovery |-> v] \in Meta
  BY <1>1 DEF Meta
<1>3. act' \in Act
  BY <1>2 DEF CallReview, Act
<1> QED
  BY <1>3 DEF CallReview, Labels

\* spawn_review.
LEMMA SpawnReviewTypes == TypeOK /\ SpawnReviewSteps => TypeOK'
<1> SUFFICES ASSUME TypeOK, SpawnReviewSteps PROVE TypeOK'
  OBVIOUS
<1>0. /\ disk \in Disk /\ act.role \in Roles /\ act.agent \in Nat /\ act.next \in Callers
      /\ act.next \in Labels /\ act.newmeta \in Meta
  BY ActFields, NextLabel DEF TypeOK
<1>1. CASE ReviewCheck
  <2>1. pc' \in Labels /\ act' \in Act
    BY <1>0, <1>1, ControlTypes DEF ReviewCheck, Labels
  <2> QED BY <1>1, <2>1 DEF ReviewCheck, TypeOK
<1>2. CASE ReviewMeta
  <2>1. disk' \in Disk
    BY <1>0, <1>2, DiskFields, DiskUpdates DEF ReviewMeta
  <2>2. pc' \in Labels /\ act' \in Act
    BY <1>0, <1>2, ControlTypes DEF ReviewMeta, Labels
  <2> QED BY <1>2, <2>1, <2>2 DEF ReviewMeta, TypeOK
<1>3. CASE ReviewPack
  <2>1. {"task"} \in Pack /\ {"task"} \cup {"failure"} \in Pack /\ {"task"} \cup {} \in Pack
    BY DEF Pack
  <2>2. PICK v \in Pack : disk' = [disk EXCEPT !.pack[act.role] = v]
    BY <1>3, <2>1 DEF ReviewPack
  <2>3. disk' \in Disk
    BY <1>0, <2>2, DiskFields, DiskUpdates
  <2> QED BY <1>3, <2>3, ControlTypes DEF ReviewPack, TypeOK, Labels
<1>4. CASE ReviewUnlinkResult
  <2>1. disk' \in Disk
    BY <1>0, <1>4, ConstantTypes, DiskFields, DiskUpdates DEF ReviewUnlinkResult
  <2> QED BY <1>4, <2>1, ControlTypes DEF ReviewUnlinkResult, TypeOK, Labels
<1>5. CASE ReviewUnlinkJob
  <2>1. disk' \in Disk
    BY <1>0, <1>5, ConstantTypes, DiskFields, DiskUpdates DEF ReviewUnlinkJob
  <2> QED BY <1>5, <2>1, ControlTypes DEF ReviewUnlinkJob, TypeOK, Labels
<1> QED
  BY <1>1, <1>2, <1>3, <1>4, <1>5 DEF SpawnReviewSteps

\* The required roles are reviewers, and reviewers have all files of a role.
LEMMA RequiredAreReviewers == RequiredRoles \subseteq ReviewRoles /\ ReviewRoles \subseteq Roles
  BY DEF RequiredRoles, ReviewRoles, Roles

\* dispatch_review.
LEMMA DispatchReviewTypes == TypeOK /\ DispatchReviewSteps => TypeOK'
<1> SUFFICES ASSUME TypeOK, DispatchReviewSteps PROVE TypeOK'
  OBVIOUS
<1>0. /\ Payload \in Act /\ act \in Act /\ item.provider \in Nat
      /\ "reviewer" \in Roles /\ "security-reviewer" \in Roles
      /\ {"review_security", "review_status"} \subseteq Callers /\ 0 \in Nat
      /\ {"WAITING_PROVIDER", "REVIEWING", "IMPLEMENTED"} \subseteq Statuses
      /\ "queue" \in Labels
  BY PayloadType, ItemTypes DEF TypeOK, Roles, ReviewRoles, Callers, Statuses, Labels
<1>1. CASE DispatchReview
  <2>1. CASE Candidate("reviewer", item.provider) = 0
    BY <1>0, <1>1, <2>1, ControlTypes DEF DispatchReview, TypeOK
  <2>2. CASE Candidate("reviewer", item.provider) # 0
    <3>1. \E l \in {"review_security", "review_status"} :
            CallReview(Payload, "reviewer", Candidate("reviewer", item.provider), 0, 0, l)
      BY <1>1, <2>2 DEF DispatchReview
    <3>2. pc' \in Labels /\ act' \in Act
      BY <1>0, <3>1, CandidateType, CallReviewTypes
    <3> QED BY <1>1, <3>2 DEF DispatchReview, TypeOK
  <2> QED BY <2>1, <2>2
<1>2. CASE DispatchSecurity
  <2>1. pc' \in Labels /\ act' \in Act
    BY <1>0, <1>2, CandidateType, CallReviewTypes, ControlTypes DEF DispatchSecurity
  <2> QED BY <1>2, <2>1 DEF DispatchSecurity, TypeOK
<1>3. CASE DispatchRecovery
  <2>1. /\ disk.wait.role \in RequiredRoles /\ disk.meta[disk.wait.role] \in Meta
        /\ disk.wait.recovery \in Nat
    BY <1>3, DiskFields, WaitFields, RequiredAreReviewers DEF DispatchRecovery, TypeOK
  <2>2. /\ disk.meta[disk.wait.role].provider \in Nat /\ disk.meta[disk.wait.role].tries \in Nat
        /\ disk.wait.role \in Roles
    BY <2>1, RequiredAreReviewers DEF Meta
  <2>3. [Payload EXCEPT !.quota = TRUE] \in Act
    BY <1>0, ActUpdates
  <2>4. \/ Accept("review_wait")
        \/ \E p \in Nat : CallReview([Payload EXCEPT !.quota = TRUE], disk.wait.role, p,
                            disk.meta[disk.wait.role].tries, disk.wait.recovery, "review_status")
    BY <1>3, <2>2, CandidateType DEF DispatchRecovery
  <2>5. pc' \in Labels /\ act' \in Act
    BY <1>0, <2>1, <2>2, <2>3, <2>4, CallReviewTypes, ControlTypes DEF Labels
  <2> QED BY <1>3, <2>5 DEF DispatchRecovery, TypeOK
<1>4. CASE ReviewWait
  BY <1>0, <1>4, StatusTypes, ControlTypes DEF ReviewWait, TypeOK
<1>5. CASE ReviewStatus
  BY <1>0, <1>5, StatusTypes, ControlTypes DEF ReviewStatus, TypeOK, Labels
<1>6. CASE ReviewSpent
  <2>1. disk' \in Disk
    BY <1>6, DiskFields, WaitFields, DiskUpdates DEF ReviewSpent, TypeOK
  <2> QED BY <1>6, <2>1, ControlTypes DEF ReviewSpent, TypeOK
<1> QED
  BY <1>1, <1>2, <1>3, <1>4, <1>5, <1>6 DEF DispatchReviewSteps

\* Inside consume_review the role is a reviewer's.
ConsumeRole == pc = "consume" => act.role \in ReviewRoles

\* consume_review, which writes the files of the role it consumes.
LEMMA ConsumeTypes == TypeOK /\ ConsumeRole /\ ConsumeSteps => TypeOK'
<1> SUFFICES ASSUME TypeOK, ConsumeRole, ConsumeSteps PROVE TypeOK'
  OBVIOUS
<1>0. /\ Payload \in Act /\ act \in Act /\ disk \in Disk /\ act.head \in Nat
      /\ "reviewer" \in Roles /\ "security-reviewer" \in Roles /\ act.role \in Roles
      /\ {"review_note"} \subseteq Callers /\ 0 \in Nat
      /\ {"WAITING_HUMAN", "REVIEWING", "CHANGES_REQUESTED", "VERIFIED"} \subseteq Statuses
      /\ {"quota_mark", "consume", "consume_status"} \subseteq Labels
  BY PayloadType, ActFields DEF TypeOK, Roles, ReviewRoles, Callers, Statuses, Labels
<1>1. CASE ConsumeStart
  BY <1>0, <1>1, ActUpdates DEF ConsumeStart, TypeOK
<1>2. CASE ConsumeVerdict
  <2>1. act.role \in ReviewRoles /\ disk.meta[act.role] \in Meta
    BY <1>0, <1>2, DiskFields DEF ConsumeVerdict, ConsumeRole
  <2>2. disk.meta[act.role].provider \in Nat
    BY <2>1 DEF Meta
  <2>3. disk.result[act.role].kind \in {"approve", "reject"}
    BY <1>2 DEF ConsumeVerdict, ParsesReview
  <2>4. [role |-> act.role, provider |-> disk.meta[act.role].provider, head |-> act.head,
         decision |-> disk.result[act.role].kind] \in Verdict
    BY <1>0, <2>1, <2>2, <2>3 DEF Verdict
  <2>5. gh' \in GitHub
    BY <1>2, <2>4 DEF ConsumeVerdict, TypeOK, GitHub
  <2>6. pc' \in Labels /\ act' \in Act
    BY <1>0, <1>2, ActUpdates DEF ConsumeVerdict, Goto
  <2> QED BY <1>2, <2>5, <2>6 DEF ConsumeVerdict, TypeOK
<1>3. CASE ConsumeStatus
  <2>1. PICK s \in Statuses : SetStatus(s)
    BY <1>0, <1>3 DEF ConsumeStatus
  <2> QED BY <1>3, <2>1, StatusTypes, ControlTypes DEF ConsumeStatus, TypeOK
<1>4. CASE RetryReview
  <2>1. act.role \in ReviewRoles /\ disk.meta[act.role] \in Meta
    BY <1>0, <1>4, DiskFields DEF RetryReview, ConsumeRole
  <2>2. disk.meta[act.role].provider \in Nat /\ disk.meta[act.role].tries + 1 \in Nat
    BY <2>1 DEF Meta
  <2>3. \/ Queue(act, "quota_mark", act.role, disk.meta[act.role].provider, "REVIEWING")
           /\ UNCHANGED item
        \/ Explain("process", "WAITING_HUMAN") /\ Return
        \/ CallReview(act, act.role, disk.meta[act.role].provider,
                      disk.meta[act.role].tries + 1, 0, "review_note") /\ UNCHANGED item
    BY <1>4 DEF RetryReview
  <2>4. pc' \in Labels /\ act' \in Act
    BY <1>0, <2>2, <2>3, CallReviewTypes, ControlTypes
  <2>5. item' \in Item
    BY <1>0, <2>3, StatusTypes DEF TypeOK
  <2> QED BY <1>4, <2>4, <2>5 DEF RetryReview, TypeOK
<1>5. CASE ReviewNote
  <2>1. item' \in Item
    BY <1>5 DEF ReviewNote, TypeOK, Item
  <2> QED BY <1>5, <2>1, ControlTypes DEF ReviewNote, TypeOK
<1>6. CASE ConsumeNothing
  BY <1>6, ControlTypes DEF ConsumeNothing, TypeOK
<1> QED
  BY <1>1, <1>2, <1>3, <1>4, <1>5, <1>6 DEF ConsumeSteps

\* The operator commands.
LEMMA OperatorTypes == TypeOK /\ OperatorSteps => TypeOK'
<1> SUFFICES ASSUME TypeOK, OperatorSteps PROVE TypeOK'
  OBVIOUS
<1>0. /\ disk \in Disk /\ disk.cmeta \in CloneMeta /\ disk.clone.head \in Nat
      /\ "REVIEWING" \in Statuses
      /\ {"operator_reviewing", "operator_report"} \subseteq Labels
  BY DiskFields DEF TypeOK, Clone, Statuses, Labels
<1>1. ASSUME OperatorStart
      PROVE  item' \in Item /\ env' \in Env /\ pc' \in Labels /\ act' \in Act
  <2>1. item' \in Item
    BY <1>1 DEF OperatorStart, TypeOK, Item
  <2>2. env' \in Env
    BY <1>1 DEF OperatorStart, TypeOK, Env
  <2> QED BY <1>0, <1>1, <2>1, <2>2, ControlTypes DEF OperatorStart
<1>2. ASSUME NEW r \in RequiredRoles, ResumeReview(r)
      PROVE  TypeOK'
  <2>1. MaxRetries - 1 \in Nat
    BY LifecycleAssumption
  <2>2. [disk.meta[r] EXCEPT !.tries = MaxRetries - 1] \in Meta
    BY <1>0, <2>1, DiskFields, RequiredAreReviewers DEF Meta
  <2>3. disk' \in Disk
    BY <1>0, <1>2, <2>2, DiskFields, DiskUpdates DEF ResumeReview
  <2> QED BY <1>1, <1>2, <2>3 DEF ResumeReview, TypeOK
<1>3. CASE ReconcileWaitingResult
  BY <1>1, <1>3 DEF ReconcileWaitingResult, TypeOK
<1>4. CASE OperatorReviewing
  BY <1>0, <1>4, StatusTypes, ControlTypes DEF OperatorReviewing, TypeOK
<1>5. CASE RecordHost
  <2>1. [disk.cmeta EXCEPT !.required = TRUE] \in CloneMeta
    BY <1>0 DEF CloneMeta
  <2>2. disk' \in Disk
    BY <1>0, <1>5, <2>1, DiskUpdates DEF RecordHost
  <2> QED BY <1>0, <1>5, <2>2, ControlTypes DEF RecordHost, TypeOK
<1>6. CASE RecordReport
  <2>1. disk' \in Disk
    BY <1>0, <1>6, DiskUpdates DEF RecordReport
  <2> QED BY <1>6, <2>1, ControlTypes DEF RecordReport, TypeOK
<1> QED
  BY <1>2, <1>3, <1>4, <1>5, <1>6 DEF OperatorSteps

\* A later release reads an old result.
LEMMA ReviewEnvironmentTypes == TypeOK /\ ReviewEnvironment => TypeOK'
<1> SUFFICES ASSUME TypeOK, NEW r \in ReviewRoles, NEW d \in {"approve", "reject"},
                    ProtocolFix(r, d)
             PROVE  TypeOK'
  BY DEF ReviewEnvironment
<1>1. r \in Roles /\ disk \in Disk /\ disk.result[r] \in Result
      /\ disk.job[r].provider \in Nat /\ disk.meta[r].head \in Nat
  BY DiskFields, RequiredAreReviewers DEF TypeOK, Job, Meta
<1>2. [disk.result[r] EXCEPT !.kind = d] \in Result
  BY <1>1 DEF Result
<1>3. disk' \in Disk
  BY <1>1, <1>2, DiskFields, DiskUpdates DEF ProtocolFix
<1>4. [role |-> r, provider |-> disk.job[r].provider, head |-> disk.meta[r].head,
       decision |-> d] \in Verdict
  BY <1>1 DEF Verdict
<1>5. ghost' \in Ghost
  BY <1>4 DEF ProtocolFix, TypeOK, Ghost
<1>6. env' \in Env
  BY DEF ProtocolFix, TypeOK, Env
<1> QED
  BY <1>3, <1>5, <1>6 DEF ProtocolFix, TypeOK

(***************************************************************************)
(* Merging, and GitHub's side.                                             *)
(***************************************************************************)
LEMMA IntegrateTypes == TypeOK /\ IntegrateSteps => TypeOK'
<1> SUFFICES ASSUME TypeOK, IntegrateSteps PROVE TypeOK'
  OBVIOUS
<1>0. /\ disk \in Disk /\ disk.cmeta \in CloneMeta /\ disk.clone \in Clone
      /\ disk.cmeta.target \in Nat
      /\ {"WAITING_HUMAN", "RETRY_PENDING"} \subseteq Statuses
      /\ {"int_inspect", "int_resume", "int_target", "int_merge", "int_base", "int_count",
          "int_status", "int_close"} \subseteq Labels
  BY DiskFields DEF TypeOK, CloneMeta, Statuses, Labels
<1>1. CASE IntegrateStart
  <2>1. pc' \in Labels /\ act' \in Act
    BY <1>0, <1>1, ControlTypes DEF IntegrateStart
  <2> QED BY <1>1, <2>1 DEF IntegrateStart, TypeOK
<1>2. CASE IntegrateInspect
  BY <1>0, <1>2, StatusTypes, ControlTypes DEF IntegrateInspect, TypeOK
<1>3. CASE IntegrateTarget
  <2>1. [disk.cmeta EXCEPT !.pending = TRUE, !.target = gh.tip, !.parent = Impl.commit]
          \in CloneMeta
    BY <1>0, ImplType DEF CloneMeta
  <2>2. disk' \in Disk
    BY <1>0, <1>3, <2>1, DiskUpdates DEF IntegrateTarget
  <2> QED BY <1>0, <1>3, <2>2, ControlTypes DEF IntegrateTarget, TypeOK
<1>4. CASE IntegrateMerge
  <2>1. [disk.clone EXCEPT !.merging = TRUE] \in Clone
    BY <1>0 DEF Clone
  <2>2. disk' \in Disk
    BY <1>0, <1>4, <2>1, DiskUpdates DEF IntegrateMerge
  <2> QED BY <1>0, <1>4, <2>2, ControlTypes DEF IntegrateMerge, TypeOK
<1>5. CASE IntegrateBase
  <2>1. [disk.cmeta EXCEPT !.base = disk.cmeta.target] \in CloneMeta
    BY <1>0 DEF CloneMeta
  <2>2. disk' \in Disk
    BY <1>0, <1>5, <2>1, DiskUpdates DEF IntegrateBase
  <2> QED BY <1>0, <1>5, <2>2, ControlTypes DEF IntegrateBase, TypeOK
<1>6. CASE IntegrateCount
  <2>1. MaxRetries - 1 \in Nat
    BY LifecycleAssumption
  <2>2. item' \in Item
    BY <1>6, <2>1 DEF IntegrateCount, TypeOK, Item
  <2> QED BY <1>0, <1>6, <2>2, ControlTypes DEF IntegrateCount, TypeOK
<1>7. CASE IntegrateStatus
  BY <1>0, <1>7, StatusTypes, ControlTypes DEF IntegrateStatus, TypeOK
<1>8. CASE IntegrateClose
  <2>1. [disk.cmeta EXCEPT !.pending = FALSE] \in CloneMeta
    BY <1>0 DEF CloneMeta
  <2>2. disk' \in Disk
    BY <1>0, <1>8, <2>1, DiskUpdates DEF IntegrateClose
  <2> QED BY <1>0, <1>8, <2>2, ControlTypes DEF IntegrateClose, TypeOK
<1> QED
  BY <1>1, <1>2, <1>3, <1>4, <1>5, <1>6, <1>7, <1>8 DEF IntegrateSteps

\* merge_pr.
LEMMA MergeTypes == TypeOK /\ MergeSteps => TypeOK'
<1> SUFFICES ASSUME TypeOK, MergeSteps PROVE TypeOK'
  OBVIOUS
<1>0. /\ {"MERGE_READY", "MERGING"} \subseteq Statuses
      /\ {"merge_status", "merge_call", "merge_failed"} \subseteq Labels
  BY DEF Statuses, Labels
<1>1. CASE MergeStart
  BY <1>0, <1>1, ControlTypes DEF MergeStart, TypeOK
<1>2. CASE MergeStatus
  BY <1>0, <1>2, StatusTypes, ControlTypes DEF MergeStatus, TypeOK
<1>3. CASE MergeCall
  <2>1. PICK c \in BOOLEAN : gh' = [gh EXCEPT !.pr = "merged", !.closed = c]
    BY <1>3 DEF MergeCall
  <2>2. gh' \in GitHub
    BY <2>1 DEF TypeOK, GitHub
  <2>3. ghost' \in Ghost
    BY <1>3, ImplType DEF MergeCall, TypeOK, Ghost
  <2> QED BY <1>3, <2>2, <2>3, ControlTypes DEF MergeCall, TypeOK
<1>4. CASE MergeRefused
  <2>1. env' \in Env
    BY <1>4 DEF MergeRefused, TypeOK, Env
  <2> QED BY <1>0, <1>4, <2>1, ControlTypes DEF MergeRefused, TypeOK
<1>5. CASE MergeReverts
  BY <1>0, <1>5, StatusTypes, ControlTypes DEF MergeReverts, TypeOK
<1>6. CASE MergeAmbiguous
  BY <1>6, ControlTypes DEF MergeAmbiguous, TypeOK
<1> QED
  BY <1>1, <1>2, <1>3, <1>4, <1>5, <1>6 DEF MergeSteps

\* finalize_merge.
LEMMA FinalizeTypes == TypeOK /\ FinalizeSteps => TypeOK'
<1> SUFFICES ASSUME TypeOK, FinalizeSteps PROVE TypeOK'
  OBVIOUS
<1>0. /\ disk \in Disk /\ "DONE" \in Statuses /\ {} \in Pack
      /\ {"final_comment", "final_close", "final_status", "final_clone", "final_files"}
           \subseteq Labels
  BY DEF TypeOK, Statuses, Labels, Pack
<1>1. CASE FinalizeStart
  BY <1>0, <1>1, ControlTypes DEF FinalizeStart, TypeOK
<1>2. CASE FinalizeComment
  <2>1. gh' \in GitHub
    BY <1>2 DEF FinalizeComment, TypeOK, GitHub
  <2> QED BY <1>0, <1>2, <2>1, ControlTypes DEF FinalizeComment, TypeOK
<1>3. CASE FinalizeClose
  <2>1. gh' \in GitHub
    BY <1>3 DEF FinalizeClose, TypeOK, GitHub
  <2> QED BY <1>0, <1>3, <2>1, ControlTypes DEF FinalizeClose, TypeOK
<1>4. CASE FinalizeStatus
  BY <1>0, <1>4, StatusTypes, ControlTypes DEF FinalizeStatus, TypeOK
<1>5. CASE FinalizeClone
  <2>1. disk' \in Disk
    BY <1>0, <1>5, ConstantTypes, DiskUpdates DEF FinalizeClone
  <2> QED BY <1>0, <1>5, <2>1, ControlTypes DEF FinalizeClone, TypeOK
<1>6. CASE FinalizeFiles
  <2>1. disk' \in Disk
    BY <1>0, <1>6, ConstantTypes DEF FinalizeFiles, Disk
  <2> QED BY <1>6, <2>1, ControlTypes DEF FinalizeFiles, TypeOK
<1> QED
  BY <1>1, <1>2, <1>3, <1>4, <1>5, <1>6 DEF FinalizeSteps

\* All from VERIFIED to DONE.
LEMMA MergeGateTypes == TypeOK /\ MergeGateSteps => TypeOK'
<1>1. TypeOK /\ AdvanceStart => TypeOK'
  <2> SUFFICES ASSUME TypeOK, AdvanceStart PROVE TypeOK'
    OBVIOUS
  <2>1. Accept("advance_status") /\ UNCHANGED <<item, disk, unit, gh, health, env, ghost>>
    BY DEF AdvanceStart
  <2>2. pc' \in Labels /\ act' \in Act
    BY <2>1, ControlTypes DEF Labels
  <2> QED BY <2>1, <2>2 DEF TypeOK
<1>2. TypeOK /\ AdvanceStatus => TypeOK'
  BY StatusTypes, ControlTypes DEF AdvanceStatus, TypeOK, Statuses
<1> QED
  BY <1>1, <1>2, IntegrateTypes, MergeTypes, FinalizeTypes DEF MergeGateSteps

\* Pushes, base advances, CI and holds.
LEMMA GitHubTypes == TypeOK /\ GitHubSteps => TypeOK'
<1> SUFFICES ASSUME TypeOK, GitHubSteps PROVE TypeOK'
  OBVIOUS
<1>1. CASE HumanPush
  <2>1. Foreign \in Nat
    BY LifecycleAssumption DEF Foreign
  <2>2. gh' \in GitHub
    BY <1>1, <2>1 DEF HumanPush, TypeOK, GitHub
  <2>3. env' \in Env
    BY <1>1 DEF HumanPush, TypeOK, Env
  <2> QED BY <1>1, <2>2, <2>3 DEF HumanPush, TypeOK
<1>2. CASE BaseAdvances
  <2>1. gh.conflict \in BOOLEAN /\ gh.tip + 1 \in Nat
    BY DEF TypeOK, GitHub
  <2>2. PICK c \in BOOLEAN : gh' = [gh EXCEPT !.tip = gh.tip + 1, !.conflict = c]
    BY <1>2, <2>1 DEF BaseAdvances
  <2>3. gh' \in GitHub
    BY <2>1, <2>2 DEF TypeOK, GitHub
  <2> QED BY <1>2, <2>3 DEF BaseAdvances, TypeOK
<1>3. CASE CiReports
  <2>1. gh' \in GitHub
    BY <1>3 DEF CiReports, TypeOK, GitHub
  <2> QED BY <1>3, <2>1 DEF CiReports, TypeOK
<1>4. CASE HumanHold
  <2>1. env' \in Env
    BY <1>4 DEF HumanHold, TypeOK, Env
  <2>2. "WAITING_HUMAN" \in Statuses
    BY DEF Statuses
  <2> QED BY <1>4, <2>1, <2>2, StatusTypes DEF HumanHold, TypeOK
<1> QED
  BY <1>1, <1>2, <1>3, <1>4 DEF GitHubSteps

(***************************************************************************)
(* The whole specification.                                                *)
(***************************************************************************)
LEMMA NextTypes == TypeOK /\ ConsumeRole /\ Next => TypeOK'
<1>1. TypeOK /\ BrokerStops => TypeOK'
  <2> SUFFICES ASSUME TypeOK, BrokerStops PROVE TypeOK'
    OBVIOUS
  <2>1. env' \in Env
    BY DEF BrokerStops, TypeOK, Env
  <2> QED BY <2>1, ControlTypes DEF BrokerStops, TypeOK
<1>2. TypeOK /\ BrokerRaises => TypeOK'
  BY ControlTypes DEF BrokerRaises, TypeOK
<1>3. TypeOK /\ ConsumeRole /\ ReviewSteps => TypeOK'
  BY PublishTypes, SpawnReviewTypes, DispatchReviewTypes, ConsumeTypes, OperatorTypes
     DEF ReviewSteps
<1> QED
  BY <1>1, <1>2, <1>3, CooldownTypes, SpawnTypes, ImplementationTypes, MergeGateTypes,
     WorkerTypes, CooldownEnvironmentTypes, ReviewEnvironmentTypes, GitHubTypes DEF Next

\* consume_review only ever consumes a reviewer: no other step enters it.
LEMMA ConsumeRoleStep == TypeOK /\ ConsumeRole /\ Next => ConsumeRole'
<1> SUFFICES ASSUME TypeOK, ConsumeRole, Next PROVE ConsumeRole'
  OBVIOUS
<1>0. act.next # "consume"
  BY ActFields DEF TypeOK, Callers
<1>1. CASE CooldownSteps
  BY <1>1 DEF CooldownSteps, QuotaMark, QueueWait, QueueStatus, RecoverStart, RecoverSelect,
     RecoverField, RecoverResume, RecoverReview, RecoverReviewStatus, Goto, Return, ConsumeRole
<1>2. CASE SpawnSteps
  BY <1>0, <1>2 DEF SpawnSteps, SpawnTruncate, SpawnRefused, SpawnJob, SpawnUnit, Goto, Return,
     Resume, ConsumeRole
<1>3. CASE DispatchSteps
  BY <1>3 DEF DispatchSteps, DispatchStart, DispatchClaim, DispatchStale, DispatchClone,
     DispatchMeta, DispatchPack, DispatchSpawn, DispatchDone, DispatchFails, UnwindFiles,
     UnwindStatus, Goto, Return, Accept, Queue, SpawnAgent, ConsumeRole
<1>4. CASE LaunchSteps
  BY <1>0, <1>4 DEF LaunchSteps, LaunchSpent, LaunchSettled, LaunchRestored, LaunchStatus,
     LaunchClosed, LaunchKept, Goto, Return, ConsumeRole
<1>5. CASE ReconcileSteps
  BY <1>5 DEF ReconcileSteps, ReconcileStart, ImplementationStart, ReconcileAbandoned,
     ReconcileReady, ReconcileQuota, ReconcileFailure, ReconcileSuccess, ReconcileNothing,
     Goto, Return, Queue, ConsumeRole
<1>6. CASE RetrySteps
  BY <1>6 DEF RetrySteps, RetryStart, ImplementationStart, RetryLimit, RetryPrepare,
     RetryRefused, RetryTx, RetryPack, RetryUnlinkJob, RetryUnlinkResult, RetryCount,
     RetryStatus, RetryGuard, RetryGuardFails, RetryRestore, RetryUncount, RetryUnstatus,
     RetryBudget, RetrySpent, RetryClose, Goto, Return, SpawnAgent, ConsumeRole
<1>7. CASE ResumeStart \/ ResumeStatus
  BY <1>7 DEF ResumeStart, ResumeStatus, Accept, Return, ConsumeRole
<1>8. CASE PublishSteps
  <2>1. CASE PublishStart
    <3>1. \E l \in {"publish_pr", "publish_push", "publish_hold"} : Accept(l)
      BY <2>1 DEF PublishStart
    <3> QED BY <3>1 DEF Accept, ConsumeRole
  <2> QED BY <1>8, <2>1 DEF PublishSteps, PublishHold, PublishPush, PublishPr, Goto, Return,
             ConsumeRole
<1>9. CASE SpawnReviewSteps
  BY <1>0, <1>9 DEF SpawnReviewSteps, ReviewCheck, ReviewMeta, ReviewPack, ReviewUnlinkResult,
     ReviewUnlinkJob, Goto, Return, Resume, SpawnAgent, ConsumeRole
<1>10. CASE DispatchReviewSteps
  BY <1>10 DEF DispatchReviewSteps, DispatchReview, DispatchSecurity, DispatchRecovery,
     ReviewWait, ReviewStatus, ReviewSpent, Queue, CallReview, Accept, Goto, Return, ConsumeRole
<1>11. CASE ConsumeSteps
  <2>1. /\ Payload \in Act /\ act \in Act
        /\ {"reviewer", "security-reviewer"} \subseteq ReviewRoles
    BY PayloadType DEF TypeOK, ReviewRoles
  <2>2. CASE ConsumeStart
    BY <2>1, <2>2 DEF ConsumeStart, ConsumeRole, Act
  <2>3. CASE ConsumeVerdict
    BY <2>1, <2>3 DEF ConsumeVerdict, Goto, ConsumeRole, Act
  <2> QED BY <1>11, <2>2, <2>3 DEF ConsumeSteps, ConsumeStatus, RetryReview, ReviewNote,
             ConsumeNothing, Queue, CallReview, Goto, Return, ConsumeRole
<1>12. CASE OperatorSteps
  BY <1>12 DEF OperatorSteps, ResumeReview, ReconcileWaitingResult, OperatorStart,
     OperatorReviewing, RecordHost, RecordReport, Accept, Return, ConsumeRole
<1>13. CASE MergeGateSteps
  BY <1>13 DEF MergeGateSteps, AdvanceStart, AdvanceStatus, IntegrateSteps, IntegrateStart,
     IntegrateInspect, IntegrateTarget, IntegrateMerge, IntegrateBase, IntegrateCount,
     IntegrateStatus, IntegrateClose, MergeSteps, MergeStart, MergeStatus, MergeCall,
     MergeRefused, MergeReverts, MergeAmbiguous, FinalizeSteps, FinalizeStart,
     FinalizeComment, FinalizeClose, FinalizeStatus, FinalizeClone, FinalizeFiles,
     Accept, Goto, Return, ConsumeRole
<1>14. CASE BrokerStops \/ BrokerRaises
  BY <1>14 DEF BrokerStops, BrokerRaises, Return, ConsumeRole
<1>15. CASE WorkerSteps \/ CooldownEnvironment \/ ReviewEnvironment \/ GitHubSteps
  BY <1>15 DEF WorkerSteps, WorkerCommits, ImplementerSucceeds, ImplementerMisreports,
     ReviewerDecides, WorkerFails, WorkerQuota, UnitKilled, CooldownEnvironment,
     OtherIssueQuota, CooldownEnds, ReviewEnvironment, ProtocolFix, GitHubSteps, HumanPush,
     BaseAdvances, CiReports, HumanHold, ConsumeRole
<1> QED
  BY <1>1, <1>2, <1>3, <1>4, <1>5, <1>6, <1>7, <1>8, <1>9, <1>10, <1>11, <1>12, <1>13, <1>14,
     <1>15 DEF Next, ImplementationSteps, ReviewSteps

\* TypeOK needs ConsumeRole to be inductive, and the two are.
LEMMA TypeInvariant == Spec => [](TypeOK /\ ConsumeRole)
<1>1. Init => TypeOK /\ ConsumeRole
  BY InitType DEF Init, ConsumeRole
<1>2. TypeOK /\ ConsumeRole /\ [Next]_vars => (TypeOK /\ ConsumeRole)'
  <2>1. TypeOK /\ ConsumeRole /\ UNCHANGED vars => (TypeOK /\ ConsumeRole)'
    BY DEF vars, TypeOK, ConsumeRole
  <2> QED BY <2>1, NextTypes, ConsumeRoleStep
<1> QED
  BY <1>1, <1>2, PTL DEF Spec

\* Every reachable state is well typed, whatever the number of providers, the
\* retry limit and the bounds are: no handler of the broker writes a status
\* outside the Project's, a negative retry count, or a record that the next
\* reader of the file could not parse.
THEOREM TypeCorrect == Spec => []TypeOK
  BY TypeInvariant, PTL
=============================================================================
