------------------------------ MODULE GpuArbiter ------------------------------
(***************************************************************************)
(* The arbiter that hands the graphics card from one kind of engine to     *)
(* another when the person asked for swapping                              *)
(* (inference/src/providers/gpu-arbiter.ts), with its callers: a chat turn *)
(* takes a lease and then asks for the card again before each launch, a    *)
(* render takes a lease, a cache warm-up only asks.                        *)
(*                                                                         *)
(* JavaScript runs an action to its next await. A lease is told apart from *)
(* another of its kind only by the history variables: the code keeps the   *)
(* kind of engine and the time.                                            *)
(***************************************************************************)
EXTENDS Naturals, FiniteSets

CONSTANTS
  Slot,       \* kinds of engine: llm, image, video
  Engine,     \* a slot may have several, one for each resident model
  SlotOf,     \* the slot of each engine
  Pooled,     \* engines of the pool, which come and go
  Job,        \* one caller, once
  EngineOf,   \* the engine each job uses
  Leasing,    \* jobs that call acquireLease
  Asking,     \* jobs that call acquire, afterwards if they lease too
  NoSlot, NoJob,
  Flips,      \* bound: changes of the policy
  Churn,      \* bound: engines of the pool registered or unregistered
  Leaks       \* bound: leases that are never released

ASSUME ArbiterAssumption ==
  /\ SlotOf \in [Engine -> Slot] /\ Pooled \subseteq Engine /\ EngineOf \in [Job -> Engine]
  /\ Leasing \subseteq Job /\ Asking \subseteq Job /\ Job \subseteq Leasing \cup Asking
  /\ NoSlot \notin Slot /\ NoJob \notin Job
  /\ Flips \in Nat /\ Churn \in Nat /\ Leaks \in Nat

VARIABLES
  policy,       \* "swap" or "coexist"
  activeLease,
  aged,         \* the lease is older than staleLeaseBreakMs by the wall clock
  registered,   \* the engines with an evictor
  job,          \* what each job awaits
  granted,      \* history: the job whose lease activeLease is
  ahead,        \* history: who was past its wait when each job took its lease, or was
                \* let past it by a change of the policy since
  lost,         \* history: jobs whose lease was taken from them
  spent         \* how much of each bound is used

history == <<granted, ahead, lost>>
vars == <<policy, activeLease, aged, registered, job, history, spent>>

\* A job calls, is parked, looks (again), is past the wait, evicts others, is being
\* admitted by the health gate, runs on its engine, was cut off by an eviction, is done.
Places == {"calls", "parked", "looks", "passed", "evicts", "admits", "runs", "cut", "done"}

Jobs == [for : {"lease", "use"}, at : Places, holds : BOOLEAN, slots : SUBSET Slot,
         seen : SUBSET Engine]

TypeOK ==
  /\ policy \in {"swap", "coexist"}
  /\ activeLease \in Slot \cup {NoSlot} /\ aged \in BOOLEAN
  /\ registered \subseteq Engine
  /\ job \in [Job -> Jobs]
  /\ granted \in Job \cup {NoJob} /\ ahead \in [Job -> SUBSET Job] /\ lost \subseteq Job
  /\ spent \in [flips : 0 .. Flips, churn : 0 .. Churn, leaks : 0 .. Leaks]
  /\ (activeLease = NoSlot <=> granted = NoJob) /\ (aged => activeLease # NoSlot)

Of(for, at, holds) == [for |-> for, at |-> at, holds |-> holds, slots |-> {}, seen |-> {}]

Init ==
  /\ policy \in {"swap", "coexist"} /\ activeLease = NoSlot /\ aged = FALSE
  /\ registered = Engine
  /\ job = [j \in Job |-> Of(IF j \in Leasing THEN "lease" ELSE "use", "calls", FALSE)]
  /\ granted = NoJob /\ ahead = [j \in Job |-> {}] /\ lost = {}
  /\ spent = [flips |-> 0, churn |-> 0, leaks |-> 0]

-----------------------------------------------------------------------------

MySlot(j) == SlotOf[EngineOf[j]]

Spends(bound, limit) == spent[bound] < limit /\ spent' = [spent EXCEPT ![bound] = @ + 1]

Stands(was, at) == Of(was.for, at, was.holds)

Moves(j, at) == [job EXCEPT ![j] = Stands(@, at)]

\* wakeLeaseWaiters
Woken(jobs) == [j \in Job |-> IF jobs[j].at = "parked" THEN Stands(jobs[j], "looks") ELSE jobs[j]]

-----------------------------------------------------------------------------
(* evictOthers, which stops one engine at a time: the slots are listed     *)
(* when it begins, the engines of each are looked up as it goes.           *)

Evicting(was, slots, seen) ==
  [for |-> was.for, at |-> "evicts", holds |-> was.holds, slots |-> slots, seen |-> seen]

Begun(was, j) == Evicting(was, {SlotOf[e] : e \in registered} \ {MySlot(j)}, {})

Left(was) == {e \in registered : SlotOf[e] \in was.slots /\ e \notin was.seen}

\* Stopping an engine ends the request it works on.
Cut(was, k, e) == IF was.at = "runs" /\ EngineOf[k] = e THEN Stands(was, "cut") ELSE was

\* Job j goes on from where it was while the others stand as in jobs.
EvictsFrom(jobs, j, was) ==
  \/ /\ Left(was) = {}
     /\ job' = [jobs EXCEPT ![j] = Stands(was, "admits")]
  \/ \E e \in Left(was) :
       job' = [k \in Job |->
                 IF k = j THEN Evicting(was, was.slots, was.seen \cup {e})
                 ELSE Cut(jobs[k], k, e)]

-----------------------------------------------------------------------------
(* The waits.                                                              *)

\* Mutant: who was woken does not look again.
ForeignAtCall(j) ==
  /\ job[j].at = "calls" /\ policy = "swap"
  /\ activeLease \notin (IF job[j].for = "lease" THEN {NoSlot} ELSE {NoSlot, MySlot(j)})

\* The condition of both loops.
Foreign(j) ==
  /\ policy = "swap"
  /\ activeLease \notin (IF job[j].for = "lease" THEN {NoSlot} ELSE {NoSlot, MySlot(j)})

\* Mutant: the breaker never comes.
NeverBreaks == FALSE

\* breakStaleLease
Breaks == aged

\* Mutant: activeLeaseSince is kept.
UnheldUntimed == activeLease' = NoSlot /\ UNCHANGED aged /\ granted' = NoJob

\* activeLease = null; activeLeaseSince = null
Unheld == activeLease' = NoSlot /\ aged' = FALSE /\ granted' = NoJob

\* waitForLeaseRelease
Parks(j) ==
  /\ Foreign(j) /\ ~Breaks
  /\ job' = Moves(j, "parked")
  /\ UNCHANGED <<policy, activeLease, aged, registered, history, spent>>

\* The breaker wakes those who wait.
Cleared(j) == IF Foreign(j) THEN Woken(job) ELSE job

\* acquireLease takes the lease and begins to evict.
Takes(j) ==
  /\ job[j].for = "lease" /\ policy = "swap" /\ (Foreign(j) => Breaks)
  /\ activeLease' = MySlot(j) /\ aged' = FALSE /\ granted' = j
  /\ ahead' = [ahead EXCEPT ![j] = {k \in Job \ {j} : job[k].at \in {"passed", "evicts"}}]
  /\ lost' = IF Foreign(j) THEN lost \cup {granted} ELSE lost
  /\ EvictsFrom(Cleared(j), j, Begun(Of("lease", "evicts", TRUE), j))
  /\ UNCHANGED <<policy, registered, spent>>

\* Under coexist there is nothing to release: who comes is admitted, who waited
\* returns at once.
Coexists(j) ==
  /\ job[j].for = "lease" /\ policy = "coexist"
  /\ job' = IF job[j].at = "calls" THEN Moves(j, "admits")
            ELSE IF j \in Asking THEN [job EXCEPT ![j] = Of("use", "calls", FALSE)]
            ELSE Moves(j, "runs")
  /\ UNCHANGED <<policy, activeLease, aged, registered, history, spent>>

\* acquire is past waitForForeignLease, which it awaits, or had nothing to wait for.
Passes(j) ==
  /\ job[j].for = "use" /\ (Foreign(j) => Breaks)
  /\ IF Foreign(j)
     THEN /\ Unheld
          /\ lost' = lost \cup {granted}
     ELSE UNCHANGED <<activeLease, aged, granted, lost>>
  /\ job' = [Cleared(j) EXCEPT ![j] =
               Stands(@, IF job[j].at = "calls" /\ policy = "coexist" THEN "admits" ELSE "passed")]
  /\ ahead' = [k \in Job |-> IF k = granted /\ policy = "coexist" THEN ahead[k] \cup {j}
                             ELSE ahead[k]]
  /\ UNCHANGED <<policy, registered, spent>>

Looks(j) ==
  /\ job[j].at \in {"calls", "looks"}
  /\ Parks(j) \/ Takes(j) \/ Coexists(j) \/ Passes(j)

TimerFires(j) ==
  /\ job[j].at = "parked" /\ job' = Moves(j, "looks")
  /\ UNCHANGED <<policy, activeLease, aged, registered, history, spent>>

Evicts(j) ==
  /\ \/ /\ job[j].at = "passed" /\ policy = "coexist" /\ job' = Moves(j, "admits")
     \/ job[j].at = "passed" /\ policy = "swap" /\ EvictsFrom(job, j, Begun(job[j], j))
     \/ job[j].at = "evicts" /\ EvictsFrom(job, j, job[j])
  /\ UNCHANGED <<policy, activeLease, aged, registered, history, spent>>

-----------------------------------------------------------------------------
(* The health gate, the work and the release.                              *)

\* Mutant: any release clears the lease.
ReleasesAll(j) == job[j].holds

\* The closure compares the slot.
Releases(j) == job[j].holds /\ activeLease = MySlot(j)

Releasing(j) ==
  IF Releases(j)
  THEN /\ Unheld /\ lost' = (lost \cup {granted}) \ {j}
       /\ job' = Woken([job EXCEPT ![j] = Of("use", "done", FALSE)])
  ELSE /\ job' = [job EXCEPT ![j] = Of("use", "done", FALSE)]
       /\ lost' = lost \ {j} /\ UNCHANGED <<activeLease, aged, granted>>

\* Its history is of no use when a job has ended.
Forgets(j) == ahead' = [ahead EXCEPT ![j] = {}]

Admitted(j) ==
  /\ job[j].at = "admits"
  /\ job' = IF job[j].for = "lease" /\ j \in Asking
            THEN [job EXCEPT ![j] = Of("use", "calls", job[j].holds)]
            ELSE [job EXCEPT ![j] = Of(job[j].for, "runs", job[j].holds)]
  /\ UNCHANGED <<policy, activeLease, aged, registered, history, spent>>

\* The gate refuses: acquireLease lets go, and so does a caller of acquire that holds
\* a lease.
Refused(j) ==
  /\ job[j].at = "admits" /\ Releasing(j) /\ Forgets(j)
  /\ UNCHANGED <<policy, registered, spent>>

Ends(j) ==
  /\ job[j].at \in {"runs", "cut"}
  /\ \/ Releasing(j) /\ UNCHANGED spent
     \/ /\ job[j].holds /\ Spends("leaks", Leaks)
        /\ job' = [job EXCEPT ![j] = Of("use", "done", TRUE)]
        /\ lost' = lost \ {j} /\ UNCHANGED <<activeLease, aged, granted>>
  /\ Forgets(j) /\ UNCHANGED <<policy, registered>>

-----------------------------------------------------------------------------
(* The surroundings.                                                       *)

\* The wall clock runs on while the machine sleeps, which the timeouts of the work
\* do not count: any lease may grow old.
Ages ==
  /\ activeLease # NoSlot /\ ~aged /\ aged' = TRUE
  /\ UNCHANGED <<policy, activeLease, registered, job, history, spent>>

SetPolicy ==
  /\ Spends("flips", Flips)
  /\ policy' = IF policy = "swap" THEN "coexist" ELSE "swap"
  /\ job' = IF policy' = "coexist" THEN Woken(job) ELSE job
  /\ UNCHANGED <<activeLease, aged, registered, history>>

\* registerEvictor and unregisterEvictor
Register ==
  /\ Spends("churn", Churn)
  /\ \E e \in Pooled : registered' = IF e \in registered THEN registered \ {e}
                                     ELSE registered \cup {e}
  /\ UNCHANGED <<policy, activeLease, aged, job, history>>

Next ==
  \/ \E j \in Job : Looks(j) \/ TimerFires(j) \/ Evicts(j) \/ Admitted(j) \/ Refused(j) \/ Ends(j)
  \/ Ages \/ SetPolicy \/ Register

Spec == Init /\ [][Next]_vars

\* A job calls when it likes, but for the second call of a turn.
Continues(j) ==
  \/ Looks(j) /\ (job[j].at = "looks" \/ (j \in Leasing /\ job[j].for = "use"))
  \/ TimerFires(j) \/ Evicts(j) \/ Admitted(j) \/ Refused(j) \/ Ends(j)

\* Continuations run, timers fire, engines stop, the gate answers, work ends, and
\* time passes.
FairSpec == Spec /\ (\A j \in Job : WF_vars(Continues(j))) /\ WF_vars(Ages)

-----------------------------------------------------------------------------
(* Properties.                                                             *)

\* gpu-arbiter.ts:209-217: a job loses its lease only by its own release, by age, or by
\* the late release of a job of its slot that had lost its own before.
LeaseKept ==
  [][\A j \in Job : granted = j /\ granted' # j =>
       \/ ~job'[j].holds
       \/ aged
       \/ \E k \in lost \ {j} : MySlot(k) = MySlot(j) /\ job[k].holds /\ ~job'[k].holds]_vars

\* gpu-arbiter.ts:179-183: the work of a job that has the lease is stopped for another
\* engine only by a job that had ended its wait before the lease was given, or that a
\* change of the policy let by, and not by one that was woken together with it or that
\* came later.
LeaseProtects ==
  [][\A k \in Job : granted = k /\ granted' = k /\ job[k].at = "runs" /\ job'[k].at = "cut" =>
       \E j \in ahead[k] : job'[j].seen # job[j].seen]_vars

\* gpu-arbiter.ts:228-233: nobody waits for ever, nor again and again, though a lease is
\* never released.
Served == <>[](\A j \in Job : job[j].at # "parked")

=============================================================================
