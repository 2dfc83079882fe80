--------------------------- MODULE GpuArbiterProofs ---------------------------
(***************************************************************************)
(* For any slots, engines and jobs, any changes of the policy and any      *)
(* leases that are never released: the arbiter is well typed, a lease is   *)
(* lost only as LeaseKept says, and protects its work as LeaseProtects     *)
(* says.                                                                   *)
(*                                                                         *)
(* What carries it: the active lease is that of a job which holds one      *)
(* (GrantedHolds); who holds one that is not the active one has lost it    *)
(* (HoldersLost); and who is past its wait while a lease of another slot   *)
(* stands is in the history of that lease (AheadKnown).                    *)
(***************************************************************************)
EXTENDS GpuArbiter, TLAPS

GrantedHolds == granted # NoJob => job[granted].holds /\ activeLease = MySlot(granted)

HoldersLost == \A j \in Job : job[j].holds /\ granted # j /\ job[j].at # "done" => j \in lost

Fits(j) ==
  /\ job[j].for = "lease" =>
       /\ job[j].at # "passed" /\ (job[j].at = "evicts" => job[j].holds)
       /\ job[j].at \in {"calls", "parked", "looks"} => ~job[j].holds
  /\ job[j].at = "evicts" => MySlot(j) \notin job[j].slots
  /\ job[j].at # "evicts" => job[j].slots = {} /\ job[j].seen = {}

PlacesFit == \A j \in Job : Fits(j)

AheadKnown ==
  \A j, k \in Job :
    granted = k /\ j # k /\ job[k].at # "done" /\ job[j].at \in {"passed", "evicts"} =>
      j \in ahead[k] \/ MySlot(j) = MySlot(k)

IInv == TypeOK /\ GrantedHolds /\ HoldersLost /\ PlacesFit /\ AheadKnown

LEMMA SlotsOfJobs == \A j \in Job : MySlot(j) \in Slot /\ EngineOf[j] \in Engine
  BY ArbiterAssumption DEF MySlot

LEMMA OfTyped ==
  \A for \in {"lease", "use"}, at \in Places, holds \in BOOLEAN : Of(for, at, holds) \in Jobs
  BY DEF Of, Jobs

LEMMA EvictingTyped ==
  ASSUME NEW was \in Jobs, NEW slots \in SUBSET Slot, NEW seen \in SUBSET Engine
  PROVE  Evicting(was, slots, seen) \in Jobs
  BY DEF Evicting, Jobs, Places

LEMMA InitIInv ==
  ASSUME Init PROVE IInv
  <1>1. job \in [Job -> Jobs]
    <2>1. \A j \in Job : Of(IF j \in Leasing THEN "lease" ELSE "use", "calls", FALSE) \in Jobs
      BY OfTyped DEF Places
    <2>2. QED  BY <2>1 DEF Init
  <1>2. spent \in [flips : 0 .. Flips, churn : 0 .. Churn, leaks : 0 .. Leaks]
    BY ArbiterAssumption DEF Init
  <1>3. TypeOK
    BY <1>1, <1>2, ArbiterAssumption DEF Init, TypeOK
  <1>4. QED
    BY <1>3 DEF Init, IInv, GrantedHolds, HoldersLost, PlacesFit, Fits, AheadKnown, Of

-----------------------------------------------------------------------------
(* What a step does to the jobs: one moves, the others stand by.           *)

\* A bystander stays, is woken, or is cut off.
StandsBy(k) ==
  \/ job'[k] = job[k]
  \/ job[k].at = "parked" /\ job'[k] = Of(job[k].for, "looks", job[k].holds)
  \/ job[k].at = "runs" /\ job'[k] = Of(job[k].for, "cut", job[k].holds)

\* Waking moves only parked jobs, and only back to their look.
LEMMA WokenStands ==
  ASSUME job \in [Job -> Jobs]
  PROVE  /\ Woken(job) \in [Job -> Jobs]
         /\ \A k \in Job : \/ Woken(job)[k] = job[k]
                          \/ /\ job[k].at = "parked"
                             /\ Woken(job)[k] = Of(job[k].for, "looks", job[k].holds)
  <1>1. ASSUME NEW k \in Job
        PROVE  /\ Woken(job)[k] \in Jobs
               /\ \/ Woken(job)[k] = job[k]
                  \/ /\ job[k].at = "parked"
                     /\ Woken(job)[k] = Of(job[k].for, "looks", job[k].holds)
    <2>1. job[k].for \in {"lease", "use"} /\ job[k].holds \in BOOLEAN
      BY DEF Jobs
    <2>2. Of(job[k].for, "looks", job[k].holds) \in Jobs
      BY <2>1, OfTyped DEF Places
    <2>3. QED  BY <2>2 DEF Woken, Stands
  <1>2. Woken(job) \in [Job -> Jobs]
    <2>1. Woken(job) = [k \in Job |-> Woken(job)[k]]
      BY DEF Woken
    <2>2. QED  BY <1>1, <2>1
  <1>3. QED  BY <1>1, <1>2

\* What the next step of an eviction does, from where the job was.
LEMMA EvictionStep ==
  ASSUME TypeOK, NEW j \in Job
  PROVE  \A was \in Jobs, jobs \in [Job -> Jobs] :
           was.seen \subseteq Engine /\ EvictsFrom(jobs, j, was) =>
             /\ job' \in [Job -> Jobs]
             /\ job'[j] = Of(was.for, "admits", was.holds)
                \/ \E e \in Left(was) : job'[j] = Evicting(was, was.slots, was.seen \cup {e})
             /\ \A k \in Job \ {j} :
                  \/ job'[k] = jobs[k]
                  \/ \E e \in Left(was) :
                       /\ jobs[k].at = "runs" /\ EngineOf[k] = e
                       /\ job'[k] = Of(jobs[k].for, "cut", jobs[k].holds)
                       /\ job'[j] = Evicting(was, was.slots, was.seen \cup {e})
  <1> TAKE was \in Jobs, jobs \in [Job -> Jobs]
  <1> HAVE was.seen \subseteq Engine /\ EvictsFrom(jobs, j, was)
  <1>1. was.for \in {"lease", "use"} /\ was.holds \in BOOLEAN /\ was.slots \in SUBSET Slot
    BY DEF Jobs
  <1>2. CASE Left(was) = {} /\ job' = [jobs EXCEPT ![j] = Stands(was, "admits")]
    <2>1. Of(was.for, "admits", was.holds) \in Jobs
      BY <1>1, OfTyped DEF Places
    <2>2. QED  BY <1>2, <2>1 DEF Stands
  <1>3. ASSUME NEW e \in Left(was),
               job' = [k \in Job |-> IF k = j THEN Evicting(was, was.slots, was.seen \cup {e})
                                     ELSE Cut(jobs[k], k, e)]
        PROVE  /\ job' \in [Job -> Jobs]
               /\ job'[j] = Evicting(was, was.slots, was.seen \cup {e})
               /\ \A k \in Job \ {j} :
                    \/ job'[k] = jobs[k]
                    \/ /\ jobs[k].at = "runs" /\ EngineOf[k] = e
                       /\ job'[k] = Of(jobs[k].for, "cut", jobs[k].holds)
    <2>1. e \in Engine
      BY DEF Left, TypeOK
    <2>2. Evicting(was, was.slots, was.seen \cup {e}) \in Jobs
      BY <1>1, <2>1, EvictingTyped
    <2>3. ASSUME NEW k \in Job PROVE Cut(jobs[k], k, e) \in Jobs
      <3>1. jobs[k].for \in {"lease", "use"} /\ jobs[k].holds \in BOOLEAN
        BY DEF Jobs
      <3>2. Of(jobs[k].for, "cut", jobs[k].holds) \in Jobs
        BY <3>1, OfTyped DEF Places
      <3>3. QED  BY <3>2 DEF Cut, Stands
    <2>4. QED  BY <1>3, <2>2, <2>3 DEF Cut, Stands
  <1>4. QED  BY <1>2, <1>3 DEF EvictsFrom

\* A job that is not the one to move keeps its place, but for being woken.
LEMMA Bystander ==
  ASSUME TypeOK, PlacesFit, NEW k \in Job, StandsBy(k)
  PROVE  /\ job'[k].holds = job[k].holds
         /\ job'[k].at \in {"passed", "evicts"} => job'[k] = job[k]
         /\ job'[k].at = "done" <=> job[k].at = "done"
         /\ Fits(k)'
  <1>1. Fits(k) /\ job[k] \in Jobs
    BY DEF PlacesFit, TypeOK
  <1>2. CASE job'[k] = job[k]
    BY <1>1, <1>2 DEF Fits, MySlot
  <1>3. CASE job[k].at = "parked" /\ job'[k] = Of(job[k].for, "looks", job[k].holds)
    BY <1>1, <1>3 DEF Fits, Of
  <1>4. CASE job[k].at = "runs" /\ job'[k] = Of(job[k].for, "cut", job[k].holds)
    BY <1>1, <1>4 DEF Fits, Of
  <1>5. QED  BY <1>2, <1>3, <1>4 DEF StandsBy

\* What has to be shown of a step of job j.
LEMMA StepKeeps ==
  ASSUME IInv, TypeOK', NEW j \in Job, \A k \in Job \ {j} : StandsBy(k), Fits(j)', GrantedHolds',
         job'[j].holds /\ granted' # j /\ job'[j].at # "done" => j \in lost',
         \A k \in Job \ {j} : k \in lost \/ (granted = k /\ granted' # k) => k \in lost',
         \A k \in Job \ {j} : granted' = k => granted = k /\ ahead[k] \subseteq ahead'[k],
         \A k \in Job \ {j} :
           granted' = k /\ job[k].at # "done" /\ job'[j].at \in {"passed", "evicts"} =>
             j \in ahead'[k] \/ MySlot(j) = MySlot(k),
         granted' = j /\ job'[j].at # "done" =>
           \A i \in Job \ {j} : job[i].at \in {"passed", "evicts"} =>
             i \in ahead'[j] \/ MySlot(i) = MySlot(j)
  PROVE  IInv'
  <1>1. \A k \in Job \ {j} :
          /\ job'[k].holds = job[k].holds
          /\ job'[k].at \in {"passed", "evicts"} => job'[k] = job[k]
          /\ job'[k].at = "done" <=> job[k].at = "done"
          /\ Fits(k)'
    BY Bystander DEF IInv
  <1>2. PlacesFit'
    BY <1>1 DEF PlacesFit
  <1>3. HoldersLost'
    <2>1. ASSUME NEW k \in Job \ {j}, job'[k].holds, granted' # k, job'[k].at # "done"
          PROVE  k \in lost'
      BY <1>1, <2>1 DEF IInv, HoldersLost
    <2>2. QED  BY <2>1 DEF HoldersLost
  <1>4. AheadKnown'
    <2>1. ASSUME NEW i \in Job, NEW k \in Job, granted' = k, i # k, job'[k].at # "done",
                 job'[i].at \in {"passed", "evicts"}
          PROVE  i \in ahead'[k] \/ MySlot(i) = MySlot(k)
      <3>1. CASE k = j
        BY <1>1, <2>1, <3>1
      <3>2. CASE k # j /\ i = j
        BY <1>1, <2>1, <3>2
      <3>3. CASE k # j /\ i # j
        BY <1>1, <2>1, <3>3 DEF IInv, AheadKnown
      <3>4. QED  BY <3>1, <3>2, <3>3
    <2>2. QED  BY <2>1 DEF AheadKnown, MySlot
  <1>5. QED  BY <1>2, <1>3, <1>4 DEF IInv

\* A step of job j that leaves the lease and the history alone.
LEMMA QuietStep ==
  ASSUME IInv, NEW j \in Job, TypeOK', \A k \in Job \ {j} : StandsBy(k),
         UNCHANGED <<activeLease, history>>,
         Fits(j)', job'[j].at = "done" <=> job[j].at = "done", job'[j].holds = job[j].holds,
         job'[j].at \in {"passed", "evicts"} => job[j].at \in {"passed", "evicts"}
  PROVE  IInv'
  <1>2. GrantedHolds'
    <2>1. ASSUME NEW k \in Job PROVE job'[k].holds = job[k].holds
      BY Bystander DEF IInv
    <2>2. QED  BY <2>1 DEF IInv, GrantedHolds, TypeOK, history, MySlot
  <1>3. granted \in Job \cup {NoJob} /\ ahead' = ahead /\ lost' = lost /\ granted' = granted
    BY DEF IInv, TypeOK, history
  <1>4. job'[j].holds /\ granted' # j /\ job'[j].at # "done" => j \in lost'
    BY <1>3 DEF IInv, HoldersLost
  <1>5. \A k \in Job \ {j} :
          granted' = k /\ job[k].at # "done" /\ job'[j].at \in {"passed", "evicts"} =>
            j \in ahead'[k] \/ MySlot(j) = MySlot(k)
    BY <1>3 DEF IInv, AheadKnown
  <1>6. granted' = j /\ job'[j].at # "done" =>
          \A i \in Job \ {j} : job[i].at \in {"passed", "evicts"} =>
            i \in ahead'[j] \/ MySlot(i) = MySlot(j)
    BY <1>3 DEF IInv, AheadKnown
  <1>7. QED  BY <1>2, <1>3, <1>4, <1>5, <1>6, StepKeeps

-----------------------------------------------------------------------------
(* The steps.                                                              *)

\* A job that moves alone.
LEMMA MoveKeeps ==
  ASSUME IInv, NEW j \in Job, NEW for \in {"lease", "use"}, NEW at \in Places,
         job' = [job EXCEPT ![j] = Of(for, at, job[j].holds)],
         UNCHANGED <<policy, activeLease, aged, registered, history, spent>>,
         at \notin {"evicts", "done"}, at = "passed" => job[j].at = "passed",
         job[j].at # "done",
         for = "lease" => /\ at # "passed"
                          /\ at \in {"calls", "parked", "looks"} => ~job[j].holds
  PROVE  IInv'
  <1>1. job[j] \in Jobs /\ job[j].holds \in BOOLEAN
    BY DEF IInv, TypeOK, Jobs
  <1>2. Of(for, at, job[j].holds) \in Jobs
    BY <1>1, OfTyped
  <1>3. /\ job' \in [Job -> Jobs] /\ job'[j] = Of(for, at, job[j].holds)
        /\ \A k \in Job \ {j} : StandsBy(k)
    BY <1>2 DEF IInv, TypeOK, StandsBy
  <1>4. TypeOK'
    BY <1>3 DEF IInv, TypeOK, history
  <1>5. Fits(j)'
    BY <1>3 DEF Fits, Of
  <1>6. /\ job'[j].at = at /\ job'[j].holds = job[j].holds
    BY <1>3 DEF Of
  <1>7. QED  BY <1>3, <1>4, <1>5, <1>6, QuietStep

LEMMA PlainSteps ==
  ASSUME IInv, NEW j \in Job,
         \/ job[j].at \in {"calls", "looks"} /\ (Parks(j) \/ Coexists(j))
         \/ TimerFires(j) \/ Admitted(j)
         \/ /\ job[j].at = "passed" /\ policy = "coexist" /\ job' = Moves(j, "admits")
            /\ UNCHANGED <<policy, activeLease, aged, registered, history, spent>>
  PROVE  IInv'
  <1>1. job[j] \in Jobs /\ job[j].for \in {"lease", "use"} /\ Fits(j)
    BY DEF IInv, TypeOK, Jobs, PlacesFit
  <1>2. CASE job[j].at \in {"calls", "looks"} /\ Parks(j)
    BY <1>1, <1>2, MoveKeeps DEF Parks, Moves, Stands, Places, Fits
  <1>3. CASE TimerFires(j)
    BY <1>1, <1>3, MoveKeeps DEF TimerFires, Moves, Stands, Places, Fits
  <1>4. CASE job[j].at \in {"calls", "looks"} /\ Coexists(j)
    <2>1. ~job[j].holds /\ job[j].holds = FALSE /\ job[j].for = "lease"
      BY <1>1, <1>4 DEF Coexists, Fits, Jobs
    <2>2. CASE job' = Moves(j, "admits")
      BY <1>1, <1>4, <2>2, MoveKeeps DEF Coexists, Moves, Stands, Places
    <2>3. CASE job' = [job EXCEPT ![j] = Of("use", "calls", FALSE)]
      BY <1>1, <1>4, <2>1, <2>3, MoveKeeps DEF Coexists, Places
    <2>4. CASE job' = Moves(j, "runs")
      BY <1>1, <1>4, <2>4, MoveKeeps DEF Coexists, Moves, Stands, Places
    <2>5. QED  BY <1>4, <2>2, <2>3, <2>4 DEF Coexists
  <1>5. CASE Admitted(j)
    <2>1. CASE job' = [job EXCEPT ![j] = Of("use", "calls", job[j].holds)]
      BY <1>1, <1>5, <2>1, MoveKeeps DEF Admitted, Places
    <2>2. CASE job' = [job EXCEPT ![j] = Of(job[j].for, "runs", job[j].holds)]
      BY <1>1, <1>5, <2>2, MoveKeeps DEF Admitted, Places
    <2>3. QED  BY <1>5, <2>1, <2>2 DEF Admitted
  <1>6. CASE /\ job[j].at = "passed" /\ policy = "coexist" /\ job' = Moves(j, "admits")
             /\ UNCHANGED <<policy, activeLease, aged, registered, history, spent>>
    BY <1>1, <1>6, MoveKeeps DEF Moves, Stands, Places
  <1>7. QED  BY <1>2, <1>3, <1>4, <1>5, <1>6

\* The eviction of the engines of the other slots.
LEMMA EvictsKeeps ==
  ASSUME IInv, NEW j \in Job, Evicts(j), job[j].at = "passed" => policy = "swap"
  PROVE  IInv'
  <1> DEFINE was == IF job[j].at = "passed" THEN Begun(job[j], j) ELSE job[j]
  <1>1. job[j] \in Jobs /\ Fits(j) /\ job[j].at \in {"passed", "evicts"}
        /\ job[j].seen \subseteq Engine
    BY DEF IInv, TypeOK, Jobs, PlacesFit, Evicts
  <1>2. {SlotOf[e] : e \in registered} \ {MySlot(j)} \in SUBSET Slot
    BY ArbiterAssumption DEF IInv, TypeOK
  <1>3. /\ was \in Jobs /\ was.seen \subseteq Engine /\ was.for = job[j].for
        /\ was.holds = job[j].holds /\ MySlot(j) \notin was.slots
    BY <1>1, <1>2, EvictingTyped DEF Begun, Evicting, Fits
  <1>4. EvictsFrom(job, j, was) /\ UNCHANGED <<policy, activeLease, aged, registered, history, spent>>
    BY <1>1 DEF Evicts
  <1> HIDE DEF was
  <1>5. /\ job' \in [Job -> Jobs]
        /\ job'[j] = Of(was.for, "admits", was.holds)
           \/ \E e \in Left(was) : job'[j] = Evicting(was, was.slots, was.seen \cup {e})
        /\ \A k \in Job \ {j} :
             \/ job'[k] = job[k]
             \/ job[k].at = "runs" /\ job'[k] = Of(job[k].for, "cut", job[k].holds)
    <2>1. TypeOK /\ job \in [Job -> Jobs]
      BY DEF IInv, TypeOK
    <2>2. /\ job' \in [Job -> Jobs]
          /\ job'[j] = Of(was.for, "admits", was.holds)
             \/ \E e \in Left(was) : job'[j] = Evicting(was, was.slots, was.seen \cup {e})
          /\ \A k \in Job \ {j} :
               \/ job'[k] = job[k]
               \/ \E e \in Left(was) :
                    /\ job[k].at = "runs" /\ EngineOf[k] = e
                    /\ job'[k] = Of(job[k].for, "cut", job[k].holds)
                    /\ job'[j] = Evicting(was, was.slots, was.seen \cup {e})
      BY <1>3, <1>4, <2>1, EvictionStep
    <2>3. QED  BY <2>2
  <1>6. TypeOK'
    BY <1>4, <1>5 DEF IInv, TypeOK, history
  <1>7. /\ job'[j].at \in {"admits", "evicts"} /\ job'[j].holds = job[j].holds
        /\ job'[j].for = job[j].for /\ Fits(j)'
    <2>1. CASE job'[j] = Of(was.for, "admits", was.holds)
      BY <1>1, <1>3, <2>1 DEF Of, Fits
    <2>2. ASSUME NEW e \in Left(was), job'[j] = Evicting(was, was.slots, was.seen \cup {e})
          PROVE  /\ job'[j].at \in {"admits", "evicts"} /\ job'[j].holds = job[j].holds
                 /\ job'[j].for = job[j].for /\ Fits(j)'
      BY <1>1, <1>3, <2>2 DEF Evicting, Fits, MySlot
    <2>3. QED  BY <1>5, <2>1, <2>2
  <1>8. \A k \in Job \ {j} : StandsBy(k)
    BY <1>5 DEF StandsBy
  <1>9. QED  BY <1>1, <1>4, <1>6, <1>7, <1>8, QuietStep

\* The jobs as the breaker leaves them.
LEMMA ClearedStands ==
  ASSUME TypeOK, NEW j \in Job, job[j].at \in {"calls", "looks"}
  PROVE  /\ Cleared(j) \in [Job -> Jobs] /\ Cleared(j)[j] = job[j]
         /\ \A k \in Job : \/ Cleared(j)[k] = job[k]
                          \/ /\ job[k].at = "parked"
                             /\ Cleared(j)[k] = Of(job[k].for, "looks", job[k].holds)
  <1>1. job \in [Job -> Jobs]
    BY DEF TypeOK
  <1>2. CASE Foreign(j)
    BY <1>1, <1>2, WokenStands DEF Cleared
  <1>3. CASE ~Foreign(j)
    BY <1>1, <1>3 DEF Cleared
  <1>4. QED  BY <1>2, <1>3

LEMMA TakesKeeps ==
  ASSUME IInv, NEW j \in Job, Takes(j), job[j].at \in {"calls", "looks"}
  PROVE  IInv'
  <1> DEFINE jobs == Cleared(j)
             was == Begun(Of("lease", "evicts", TRUE), j)
  <1>1. TypeOK /\ Fits(j) /\ job[j] \in Jobs /\ activeLease \in Slot \cup {NoSlot}
    BY DEF IInv, TypeOK, PlacesFit
  <1>2. /\ jobs \in [Job -> Jobs] /\ jobs[j] = job[j]
        /\ \A k \in Job : \/ jobs[k] = job[k]
                         \/ /\ job[k].at = "parked"
                            /\ jobs[k] = Of(job[k].for, "looks", job[k].holds)
    BY <1>1, ClearedStands
  <1>3. {SlotOf[e] : e \in registered} \ {MySlot(j)} \in SUBSET Slot
    BY ArbiterAssumption DEF IInv, TypeOK
  <1>4. Of("lease", "evicts", TRUE) \in Jobs
    BY OfTyped DEF Places
  <1>5. /\ was \in Jobs /\ was.seen \subseteq Engine /\ was.for = "lease" /\ was.holds = TRUE
        /\ MySlot(j) \notin was.slots
    BY <1>3, <1>4, EvictingTyped DEF Begun, Evicting, Of
  <1>6. EvictsFrom(jobs, j, was)
    BY DEF Takes
  <1> HIDE DEF was, jobs
  <1>7. /\ job' \in [Job -> Jobs]
        /\ job'[j] = Of(was.for, "admits", was.holds)
           \/ \E e \in Left(was) : job'[j] = Evicting(was, was.slots, was.seen \cup {e})
        /\ \A k \in Job \ {j} :
             \/ job'[k] = jobs[k]
             \/ jobs[k].at = "runs" /\ job'[k] = Of(jobs[k].for, "cut", jobs[k].holds)
    <2>1. /\ job' \in [Job -> Jobs]
          /\ job'[j] = Of(was.for, "admits", was.holds)
             \/ \E e \in Left(was) : job'[j] = Evicting(was, was.slots, was.seen \cup {e})
          /\ \A k \in Job \ {j} :
               \/ job'[k] = jobs[k]
               \/ \E e \in Left(was) :
                    /\ jobs[k].at = "runs" /\ EngineOf[k] = e
                    /\ job'[k] = Of(jobs[k].for, "cut", jobs[k].holds)
                    /\ job'[j] = Evicting(was, was.slots, was.seen \cup {e})
      <3>1. TypeOK /\ was \in Jobs /\ was.seen \subseteq Engine /\ jobs \in [Job -> Jobs]
            /\ EvictsFrom(jobs, j, was)
        BY <1>1, <1>2, <1>5, <1>6
      <3>2. QED  BY <3>1, EvictionStep
    <2>2. QED  BY <2>1
  <1>8. /\ job'[j].at \in {"admits", "evicts"} /\ job'[j].holds = TRUE /\ Fits(j)'
    <2>1. CASE job'[j] = Of(was.for, "admits", was.holds)
      BY <1>5, <2>1 DEF Of, Fits
    <2>2. ASSUME NEW e \in Left(was), job'[j] = Evicting(was, was.slots, was.seen \cup {e})
          PROVE  /\ job'[j].at \in {"admits", "evicts"} /\ job'[j].holds = TRUE /\ Fits(j)'
      BY <1>5, <2>2 DEF Evicting, Fits, MySlot
    <2>3. QED  BY <1>7, <2>1, <2>2
  <1>9. \A k \in Job \ {j} : StandsBy(k)
    BY <1>2, <1>7 DEF StandsBy, Of
  <1>10. /\ granted' = j /\ activeLease' = MySlot(j) /\ UNCHANGED <<policy, registered, spent>>
         /\ aged' = FALSE
         /\ ahead' = [ahead EXCEPT ![j] = {k \in Job \ {j} : job[k].at \in {"passed", "evicts"}}]
         /\ lost' = IF Foreign(j) THEN lost \cup {granted} ELSE lost
         /\ ~Foreign(j) => activeLease = NoSlot
         /\ Foreign(j) => activeLease # NoSlot
         /\ job[j].for = "lease"
    BY DEF Takes, Foreign
  <1>11. /\ Foreign(j) <=> granted \in Job
         /\ ~Foreign(j) => granted = NoJob
    BY <1>1, <1>10, ArbiterAssumption DEF TypeOK
  <1>12. TypeOK'
    BY <1>1, <1>7, <1>10, <1>11, SlotsOfJobs, ArbiterAssumption DEF TypeOK
  <1>13. GrantedHolds'
    BY <1>8, <1>10 DEF GrantedHolds, MySlot
  <1>14. \A k \in Job \ {j} : k \in lost \/ (granted = k /\ granted' # k) => k \in lost'
    BY <1>10, <1>11
  <1>15. \A i \in Job \ {j} : job[i].at \in {"passed", "evicts"} => i \in ahead'[j]
    BY <1>1, <1>10 DEF TypeOK
  <1>16. QED
    BY <1>8, <1>9, <1>10, <1>12, <1>13, <1>14, <1>15, StepKeeps

LEMMA PassesKeeps ==
  ASSUME IInv, NEW j \in Job, Passes(j), job[j].at \in {"calls", "looks"}
  PROVE  IInv'
  <1> DEFINE jobs == Cleared(j)
             place == IF job[j].at = "calls" /\ policy = "coexist" THEN "admits" ELSE "passed"
  <1>1. TypeOK /\ Fits(j) /\ job[j] \in Jobs /\ job[j].for = "use" /\ job[j].holds \in BOOLEAN
    BY DEF IInv, TypeOK, PlacesFit, Jobs, Passes
  <1>2. /\ jobs \in [Job -> Jobs] /\ jobs[j] = job[j]
        /\ \A k \in Job : \/ jobs[k] = job[k]
                         \/ /\ job[k].at = "parked"
                            /\ jobs[k] = Of(job[k].for, "looks", job[k].holds)
    BY <1>1, ClearedStands
  <1>3. job' = [jobs EXCEPT ![j] = Of("use", place, job[j].holds)]
    BY <1>1, <1>2 DEF Passes, Stands
  <1>4. place \in {"admits", "passed"}
    OBVIOUS
  <1>5. Of("use", place, job[j].holds) \in Jobs
    BY <1>1, <1>4, OfTyped DEF Places
  <1> HIDE DEF jobs, place
  <1>6. /\ job' \in [Job -> Jobs] /\ job'[j] = Of("use", place, job[j].holds)
        /\ \A k \in Job \ {j} : StandsBy(k)
    BY <1>2, <1>3, <1>5 DEF StandsBy
  <1>7. job'[j].at = place /\ job'[j].holds = job[j].holds /\ Fits(j)'
    BY <1>4, <1>6 DEF Of, Fits
  <1>8. /\ ahead' = [k \in Job |-> IF k = granted /\ policy = "coexist" THEN ahead[k] \cup {j}
                                  ELSE ahead[k]]
        /\ UNCHANGED <<policy, registered, spent>>
    BY DEF Passes
  <1>9. ahead' \in [Job -> SUBSET Job] /\ \A k \in Job : ahead[k] \subseteq ahead'[k]
    BY <1>1, <1>8 DEF TypeOK
  <1>10. CASE Foreign(j)
    <2>1. /\ granted' = NoJob /\ activeLease' = NoSlot /\ aged' = FALSE
          /\ lost' = lost \cup {granted} /\ activeLease \notin {NoSlot, MySlot(j)}
      BY <1>1, <1>10 DEF Passes, Unheld, Foreign
    <2>2. granted \in Job /\ granted # j
      BY <1>1, <2>1 DEF TypeOK, IInv, GrantedHolds
    <2>3. TypeOK' /\ GrantedHolds'
      BY <1>1, <1>6, <1>8, <1>9, <2>1, <2>2 DEF TypeOK, GrantedHolds
    <2>4. job'[j].holds /\ job'[j].at # "done" => j \in lost'
      BY <1>1, <1>7, <2>1, <2>2 DEF IInv, HoldersLost
    <2>5. QED  BY <1>6, <1>7, <2>1, <2>2, <2>3, <2>4, ArbiterAssumption, StepKeeps
  <1>11. CASE ~Foreign(j)
    <2>1. /\ UNCHANGED <<granted, activeLease, aged, lost>>
          /\ policy = "coexist" \/ activeLease \in {NoSlot, MySlot(j)}
      BY <1>1, <1>11 DEF Passes, Foreign, TypeOK
    <2>2. TypeOK'
      BY <1>1, <1>6, <1>8, <1>9, <2>1 DEF TypeOK
    <2>3. GrantedHolds'
      <3>1. \A k \in Job : job'[k].holds = job[k].holds
        BY <1>6, <1>7, <1>1, Bystander DEF IInv
      <3>2. QED  BY <1>1, <2>1, <3>1 DEF TypeOK, IInv, GrantedHolds, MySlot
    <2>4. job'[j].holds /\ granted' # j /\ job'[j].at # "done" => j \in lost'
      BY <1>1, <1>7, <2>1 DEF IInv, HoldersLost
    <2>5. ASSUME NEW k \in Job \ {j}, granted' = k
          PROVE  j \in ahead'[k] \/ MySlot(j) = MySlot(k)
      <3>1. CASE policy = "coexist"
        BY <1>8, <2>1, <2>5, <3>1
      <3>2. CASE activeLease \in {NoSlot, MySlot(j)}
        BY <1>1, <2>1, <2>5, <3>2, ArbiterAssumption DEF IInv, TypeOK, GrantedHolds
      <3>3. QED  BY <2>1, <3>1, <3>2
    <2>6. granted' = j => \A i \in Job \ {j} : job[i].at \in {"passed", "evicts"} =>
                            i \in ahead'[j] \/ MySlot(i) = MySlot(j)
      BY <1>1, <1>9, <2>1 DEF IInv, AheadKnown
    <2>7. QED  BY <1>6, <1>7, <1>9, <2>1, <2>2, <2>3, <2>4, <2>5, <2>6, StepKeeps
  <1>12. QED  BY <1>10, <1>11

LEMMA ReleaseStep ==
  ASSUME TypeOK, NEW j \in Job, Releasing(j)
  PROVE  /\ job'[j] = Of("use", "done", FALSE)
         /\ \A k \in Job \ {j} : job'[k] = job[k] \/ job'[k] = Of(job[k].for, "looks", job[k].holds)
  <1> DEFINE jobs == [job EXCEPT ![j] = Of("use", "done", FALSE)]
  <1>1. CASE job' = jobs
    BY <1>1 DEF TypeOK
  <1>2. CASE job' = Woken(jobs)
    <2>1. job' = [k \in Job |-> IF k = j THEN Of("use", "done", FALSE)
                                ELSE IF job[k].at = "parked"
                                THEN Of(job[k].for, "looks", job[k].holds) ELSE job[k]]
      BY <1>2 DEF TypeOK, Woken, Stands, Of
    <2>2. QED  BY <2>1
  <1>3. QED  BY <1>1, <1>2 DEF Releasing

LEMMA SpentStep ==
  ASSUME TypeOK,
         \/ Spends("flips", Flips) \/ Spends("churn", Churn) \/ Spends("leaks", Leaks)
         \/ UNCHANGED spent
  PROVE  spent' \in [flips : 0 .. Flips, churn : 0 .. Churn, leaks : 0 .. Leaks]
  BY ArbiterAssumption DEF TypeOK, Spends

LEMMA EndsKeeps ==
  ASSUME IInv, NEW j \in Job, Refused(j) \/ Ends(j)
  PROVE  IInv'
  <1>1. /\ TypeOK /\ PlacesFit /\ job \in [Job -> Jobs] /\ job[j] \in Jobs
        /\ job[j].holds \in BOOLEAN /\ job[j].at # "done"
    BY DEF IInv, TypeOK, Jobs, Refused, Ends
  <1>2. ahead' = [ahead EXCEPT ![j] = {}] /\ UNCHANGED <<policy, registered>>
    BY DEF Refused, Ends, Forgets
  <1>3. \A holds \in BOOLEAN : Of("use", "done", holds) \in Jobs
    BY OfTyped DEF Places
  <1>4. spent' \in [flips : 0 .. Flips, churn : 0 .. Churn, leaks : 0 .. Leaks]
    BY <1>1, SpentStep DEF Refused, Ends, TypeOK
  <1>5. CASE Releasing(j) /\ Releases(j)
    <2> DEFINE jobs == [job EXCEPT ![j] = Of("use", "done", FALSE)]
    <2>1. /\ granted' = NoJob /\ activeLease' = NoSlot /\ aged' = FALSE
          /\ lost' = (lost \cup {granted}) \ {j} /\ job' = Woken(jobs)
      BY <1>5 DEF Releasing, Unheld
    <2>2. activeLease = MySlot(j) /\ granted \in Job
      BY <1>1, <1>5, SlotsOfJobs, ArbiterAssumption DEF Releases, TypeOK
    <2>3. job' = [k \in Job |-> IF k = j THEN Of("use", "done", FALSE)
                                ELSE IF job[k].at = "parked"
                                THEN Of(job[k].for, "looks", job[k].holds) ELSE job[k]]
      BY <1>1, <2>1 DEF Woken, Stands, Of
    <2>4. \A k \in Job : Of(job[k].for, "looks", job[k].holds) \in Jobs
      BY <1>1, OfTyped DEF Jobs, Places
    <2>5. /\ job' \in [Job -> Jobs] /\ job'[j] = Of("use", "done", FALSE)
          /\ \A k \in Job \ {j} : StandsBy(k)
      BY <1>1, <1>3, <2>3, <2>4 DEF StandsBy
    <2>6. job'[j].at = "done" /\ ~job'[j].holds /\ Fits(j)'
      BY <2>5 DEF Of, Fits
    <2>7. TypeOK' /\ GrantedHolds'
      BY <1>1, <1>2, <1>4, <2>1, <2>2, <2>5 DEF TypeOK, GrantedHolds
    <2>8. QED  BY <2>1, <2>2, <2>5, <2>6, <2>7, ArbiterAssumption, StepKeeps
  <1>6. ASSUME NEW holds \in BOOLEAN, job' = [job EXCEPT ![j] = Of("use", "done", holds)],
               granted = j => holds, holds => job[j].holds,
               lost' = lost \ {j}, UNCHANGED <<activeLease, aged, granted>>
        PROVE  IInv'
    <2>1. /\ job' \in [Job -> Jobs] /\ job'[j] = Of("use", "done", holds)
          /\ \A k \in Job \ {j} : StandsBy(k)
      BY <1>1, <1>3, <1>6 DEF StandsBy
    <2>2. job'[j].at = "done" /\ job'[j].holds = holds /\ Fits(j)'
      BY <2>1 DEF Of, Fits
    <2>3. TypeOK'
      BY <1>1, <1>2, <1>4, <1>6, <2>1 DEF TypeOK
    <2>4. GrantedHolds'
      <3>1. \A k \in Job \ {j} : job'[k].holds = job[k].holds
        BY <1>1, <2>1, Bystander
      <3>2. QED  BY <1>1, <1>6, <2>2, <3>1 DEF TypeOK, IInv, GrantedHolds, MySlot
    <2>5. \A k \in Job \ {j} : ahead'[k] = ahead[k]
      BY <1>1, <1>2 DEF TypeOK
    <2>6. QED  BY <1>6, <2>1, <2>2, <2>3, <2>4, <2>5, StepKeeps
  <1>7. CASE Releasing(j) /\ ~Releases(j)
    <2>1. granted # j
      BY <1>1, <1>7, ArbiterAssumption DEF Releases, IInv, GrantedHolds
    <2>2. /\ job' = [job EXCEPT ![j] = Of("use", "done", FALSE)] /\ lost' = lost \ {j}
          /\ UNCHANGED <<activeLease, aged, granted>>
      BY <1>7 DEF Releasing
    <2>3. QED  BY <1>6, <2>1, <2>2
  <1>8. CASE ~Releasing(j)
    <2>1. /\ job[j].holds /\ job' = [job EXCEPT ![j] = Of("use", "done", TRUE)]
          /\ lost' = lost \ {j} /\ UNCHANGED <<activeLease, aged, granted>>
      BY <1>8 DEF Refused, Ends
    <2>2. QED  BY <1>6, <2>1
  <1>9. QED  BY <1>5, <1>7, <1>8

LEMMA SurroundingsKeep ==
  ASSUME IInv, Ages \/ SetPolicy \/ Register \/ UNCHANGED vars
  PROVE  IInv'
  <1>1. TypeOK /\ PlacesFit /\ job \in [Job -> Jobs]
    BY DEF IInv, TypeOK
  <1>2. /\ UNCHANGED <<activeLease, history>>
        /\ job' = job \/ job' = Woken(job)
    BY DEF Ages, SetPolicy, Register, vars
  <1>3. job' \in [Job -> Jobs] /\ \A k \in Job : StandsBy(k)
    BY <1>1, <1>2, WokenStands DEF StandsBy
  <1>4. policy' \in {"swap", "coexist"} /\ registered' \subseteq Engine
        /\ aged' \in BOOLEAN /\ (aged' => activeLease # NoSlot)
    <2>1. CASE Ages
      BY <1>1, <2>1 DEF TypeOK, Ages
    <2>2. CASE SetPolicy
      BY <1>1, <2>2 DEF TypeOK, SetPolicy
    <2>3. CASE Register
      BY <1>1, <2>3, ArbiterAssumption DEF TypeOK, Register
    <2>4. CASE UNCHANGED vars
      BY <1>1, <2>4 DEF TypeOK, vars
    <2>5. QED  BY <2>1, <2>2, <2>3, <2>4
  <1>5. spent' \in [flips : 0 .. Flips, churn : 0 .. Churn, leaks : 0 .. Leaks]
    BY <1>1, SpentStep DEF TypeOK, Ages, SetPolicy, Register, vars
  <1>6. TypeOK'
    BY <1>1, <1>2, <1>3, <1>4, <1>5 DEF TypeOK, history
  <1>7. CASE Job = {}
    BY <1>2, <1>6, <1>7 DEF IInv, TypeOK, history, GrantedHolds, HoldersLost, PlacesFit, AheadKnown
  <1>8. ASSUME NEW j \in Job PROVE IInv'
    BY <1>1, <1>2, <1>3, <1>6, Bystander, QuietStep
  <1>9. QED  BY <1>7, <1>8

LEMMA IInvStep ==
  ASSUME IInv, [Next]_vars PROVE IInv'
  <1>1. ASSUME NEW j \in Job, Looks(j) PROVE IInv'
    BY <1>1, PlainSteps, TakesKeeps, PassesKeeps DEF Looks
  <1>2. ASSUME NEW j \in Job, Evicts(j) PROVE IInv'
    <2>1. CASE job[j].at = "passed" /\ policy # "swap"
      BY <1>2, <2>1, PlainSteps DEF Evicts
    <2>2. CASE job[j].at = "passed" => policy = "swap"
      BY <1>2, <2>2, EvictsKeeps
    <2>3. QED  BY <2>1, <2>2
  <1>3. ASSUME NEW j \in Job, TimerFires(j) \/ Admitted(j) \/ Refused(j) \/ Ends(j) PROVE IInv'
    BY <1>3, PlainSteps, EndsKeeps
  <1>4. QED  BY <1>1, <1>2, <1>3, SurroundingsKeep DEF Next

\* No step of the arbiter breaks the inductive invariant.
THEOREM Invariance == Spec => []IInv
  <1>1. Init => IInv
    BY InitIInv
  <1>2. IInv /\ [Next]_vars => IInv'
    BY IInvStep
  <1>3. QED  BY <1>1, <1>2, PTL DEF Spec

\* The arbiter is well typed: it knows since when a lease is held exactly while there
\* is one.
THEOREM ArbiterTyped == Spec => []TypeOK
  <1>1. IInv => TypeOK
    BY DEF IInv
  <1>2. QED  BY <1>1, Invariance, PTL

\* A job that has the lease and runs is stopped by another that evicts, and only while
\* it is in the history of the lease.
LEMMA CutByAhead ==
  ASSUME IInv, [Next]_vars, NEW k \in Job, granted = k, granted' = k, job[k].at = "runs",
         job'[k].at = "cut"
  PROVE  \E j \in ahead[k] : job'[j].seen # job[j].seen
  <1>1. TypeOK /\ job \in [Job -> Jobs]
    BY DEF IInv, TypeOK
  <1>2. \A j \in Job : Looks(j) => FALSE
    <2>1. ASSUME NEW j \in Job, Looks(j) PROVE j # k
      BY <2>1 DEF Looks
    <2>2. ASSUME NEW j \in Job, Takes(j) PROVE j = k
      BY <2>2 DEF Takes
    <2>3. ASSUME NEW j \in Job, j # k, Looks(j), Parks(j) \/ Coexists(j) \/ Passes(j)
          PROVE  job'[k].at # "cut"
      <3>1. CASE Parks(j) \/ Coexists(j)
        BY <1>1, <2>3, <3>1 DEF Parks, Coexists, Moves
      <3>2. CASE Passes(j)
        <4>1. Cleared(j)[k] = job[k]
          BY <1>1, <2>3, ClearedStands DEF Looks
        <4>2. QED  BY <1>1, <2>3, <3>2, <4>1, ClearedStands DEF Passes, Looks
      <3>3. QED  BY <2>3, <3>1, <3>2
    <2>4. QED  BY <2>1, <2>2, <2>3 DEF Looks
  <1>3. ASSUME NEW j \in Job, TimerFires(j) \/ Admitted(j) \/ Refused(j) \/ Ends(j) PROVE FALSE
    <2>1. CASE TimerFires(j) \/ Admitted(j)
      BY <1>1, <2>1 DEF TimerFires, Admitted, Moves, Of, Stands
    <2>2. CASE Refused(j) \/ Ends(j)
      <3>1. CASE Releasing(j)
        <4>1. job'[k] \in {job[k], Of("use", "done", FALSE), Of(job[k].for, "looks", job[k].holds)}
          BY <1>1, <3>1, ReleaseStep
        <4>2. QED  BY <4>1 DEF Of
      <3>2. CASE ~Releasing(j)
        BY <1>1, <2>2, <3>2 DEF Refused, Ends, Of
      <3>3. QED  BY <3>1, <3>2
    <2>3. QED  BY <1>3, <2>1, <2>2
  <1>4. ASSUME NEW j \in Job, Evicts(j)
        PROVE  j \in ahead[k] /\ job'[j].seen # job[j].seen
    <2> DEFINE was == IF job[j].at = "passed" THEN Begun(job[j], j) ELSE job[j]
    <2>1. j # k /\ Fits(j) /\ job[j].at \in {"passed", "evicts"}
      BY <1>4 DEF IInv, PlacesFit, Evicts
    <2>2. EvictsFrom(job, j, was)
      BY <1>1, <1>4, <2>1 DEF Evicts, Moves
    <2>3. PICK e \in Left(was) :
            job' = [i \in Job |-> IF i = j THEN Evicting(was, was.slots, was.seen \cup {e})
                                 ELSE Cut(job[i], i, e)]
      BY <1>1, <2>1, <2>2 DEF EvictsFrom
    <2>4. EngineOf[k] = e
      BY <2>1, <2>3 DEF Cut
    <2>5. MySlot(j) \notin was.slots /\ was.seen = job[j].seen
      BY <2>1 DEF Begun, Evicting, Fits
    <2>6. e \notin was.seen /\ MySlot(k) \in was.slots
      BY <2>4 DEF Left, MySlot
    <2>7. j \in ahead[k]
      BY <2>1, <2>5, <2>6 DEF IInv, AheadKnown
    <2>8. job'[j].seen = was.seen \cup {e}
      BY <2>3 DEF Evicting
    <2>9. QED  BY <2>5, <2>6, <2>7, <2>8
  <1>5. ASSUME Ages \/ SetPolicy \/ Register \/ UNCHANGED vars PROVE FALSE
    <2>1. job' = job \/ job' = Woken(job)
      BY <1>5 DEF Ages, SetPolicy, Register, vars
    <2>2. QED  BY <1>1, <2>1, WokenStands
  <1>6. QED
    <2>1. PICK j \in Job : Evicts(j)
      BY <1>2, <1>3, <1>5 DEF Next
    <2>2. j \in ahead[k] /\ job'[j].seen # job[j].seen
      BY <1>4, <2>1
    <2>3. QED  BY <2>2

\* The work of the job that has the lease is stopped for another engine only by a job
\* that was past its wait (gpu-arbiter.ts:179-183).
THEOREM LeaseAlwaysProtects == Spec => LeaseProtects
  <1>1. IInv /\ [Next]_vars =>
          [\A k \in Job :
             granted = k /\ granted' = k /\ job[k].at = "runs" /\ job'[k].at = "cut" =>
               \E j \in ahead[k] : job'[j].seen # job[j].seen]_vars
    BY CutByAhead
  <1>2. QED  BY <1>1, Invariance, PTL DEF Spec, LeaseProtects

\* Whoever loses the lease while it is fresh loses it to the late release of a
\* job of its slot.
LEMMA LostAsSaid ==
  ASSUME IInv, [Next]_vars, NEW j \in Job, granted = j, granted' # j, job'[j].holds, ~aged
  PROVE  \E k \in lost \ {j} : MySlot(k) = MySlot(j) /\ job[k].holds /\ ~job'[k].holds
  <1>1. TypeOK /\ job \in [Job -> Jobs] /\ activeLease = MySlot(j) /\ activeLease # NoSlot
    BY ArbiterAssumption DEF IInv, TypeOK, GrantedHolds
  <1>2. ASSUME NEW k \in Job, Looks(k) PROVE FALSE
    <2>1. ~Takes(k)
      BY <1>1 DEF Takes, Foreign, Breaks
    <2>2. ~Passes(k)
      BY DEF Passes, Breaks
    <2>3. QED  BY <1>2, <2>1, <2>2 DEF Looks, Parks, Coexists, history
  <1>3. ASSUME NEW k \in Job, TimerFires(k) \/ Admitted(k) \/ Evicts(k) PROVE FALSE
    BY <1>3 DEF TimerFires, Admitted, Evicts, history
  <1>4. ~(Ages \/ SetPolicy \/ Register \/ UNCHANGED vars)
    BY DEF Ages, SetPolicy, Register, vars, history
  <1>5. PICK k \in Job : Refused(k) \/ Ends(k)
    BY <1>2, <1>3, <1>4 DEF Next
  <1>6. Releasing(k) /\ Releases(k)
    BY <1>5 DEF Refused, Ends, Releasing
  <1>7. job[k].holds /\ MySlot(k) = MySlot(j) /\ job[k].at # "done"
    BY <1>1, <1>5, <1>6 DEF Releases, Refused, Ends
  <1>8. ~job'[k].holds
    BY <1>1, <1>6, ReleaseStep DEF Of
  <1>9. k # j
    BY <1>8
  <1>10. k \in lost
    BY <1>7, <1>9 DEF IInv, HoldersLost
  <1>11. QED  BY <1>7, <1>8, <1>9, <1>10

\* A lease is lost by its own release, by age, or by the late release of a job that had
\* lost its own (gpu-arbiter.ts:209-217).
THEOREM LeaseAlwaysKept == Spec => LeaseKept
  <1>1. IInv /\ [Next]_vars =>
          [\A j \in Job : granted = j /\ granted' # j =>
             \/ ~job'[j].holds
             \/ aged
             \/ \E k \in lost \ {j} :
                  MySlot(k) = MySlot(j) /\ job[k].holds /\ ~job'[k].holds]_vars
    BY LostAsSaid
  <1>2. QED  BY <1>1, Invariance, PTL DEF Spec, LeaseKept

===============================================================================
