-------------------------- MODULE ProviderLifecycle --------------------------
(***************************************************************************)
(* The owner of one lazily built provider (inference/src/providers/        *)
(* provider-lifecycle.ts) and the gate that drains its work                *)
(* (retirement-gate.ts). A provider of an on-device engine is retired for  *)
(* good when the machine's engine service takes over; one that talks to a  *)
(* cloud stays.                                                            *)
(*                                                                         *)
(* Builds, operations and shutdowns are asynchronous. Requests ask for the *)
(* provider, may be sent back to ask again, and use what they got at any   *)
(* later time, when it may be closed.                                      *)
(***************************************************************************)
CONSTANTS
  Request,  \* the callers of current, each of which runs one operation
  NoOne

ASSUME NoOneAssumption == NoOne \notin Request

VARIABLES
  gens,           \* the generations, each named by the request whose call built it
  cur,            \* this.generation
  transition,     \* the drain in flight: of which generation, and what it awaits
  brokerRetired,
  req             \* what each request waits for or holds

lifecycleVars == <<gens, cur, transition, brokerRetired, req>>

Generation == [native : BOOLEAN, closed : BOOLEAN,
               state : {"none", "building", "failed", "up", "down"}]

Of(native, closed, state) == [native |-> native, closed |-> closed, state |-> state]

NoTransition == [gen |-> NoOne, at |-> "none"]

Someone == Request \cup {NoOne}
Running(g) == gens[g].state \in {"building", "up"}

LifecycleTypeOK ==
  /\ gens \in [Request -> Generation] /\ cur \in Someone
  /\ cur # NoOne => Running(cur)
  /\ transition \in [gen : Someone, at : {"none", "build", "idle", "shutdown"}]
  /\ brokerRetired \in BOOLEAN
  /\ req \in [Request -> [at : {"out", "waits", "again", "has", "runs", "done"},
                          native : BOOLEAN, gen : Someone]]

At(at, native, gen) == [at |-> at, native |-> native, gen |-> gen]
Done == At("done", FALSE, NoOne)

LifecycleInit ==
  /\ gens = [r \in Request |-> Of(FALSE, FALSE, "none")] /\ cur = NoOne
  /\ transition = NoTransition /\ brokerRetired = FALSE
  /\ req = [r \in Request |-> At("out", FALSE, NoOne)]

InTransition == transition.at # "none"

-----------------------------------------------------------------------------
(* current, reset and retireForMachineBroker.                              *)

Becomes(r, where) == req' = [req EXCEPT ![r] = where]

\* Mutant: a request that was sent back is not looked at again.
BarredAtEntry(r, native) == native /\ brokerRetired /\ req[r].at = "out"

Barred(r, native) == native /\ brokerRetired

\* drain closes the generation and its gate, unless a drain is under way.
Drain ==
  IF InTransition \/ cur = NoOne THEN UNCHANGED <<gens, transition>>
  ELSE /\ gens' = [gens EXCEPT ![cur] = Of(gens[cur].native, TRUE, gens[cur].state)]
       /\ transition' = [gen |-> cur, at |-> "build"]

Build(r, native) ==
  /\ gens' = [gens EXCEPT ![r] = Of(native, FALSE, "building")]
  /\ cur' = r /\ Becomes(r, At("has", native, r))
  /\ UNCHANGED transition

\* One call of current, up to its first await.
Current(r, native) ==
  /\ \/ /\ Barred(r, native)
        /\ Becomes(r, Done) /\ UNCHANGED <<gens, cur, transition>>
     \/ /\ ~Barred(r, native) /\ InTransition
        /\ Becomes(r, At("waits", native, NoOne)) /\ UNCHANGED <<gens, cur, transition>>
     \/ /\ ~Barred(r, native) /\ ~InTransition /\ cur # NoOne /\ gens[cur].closed
        /\ Drain /\ Becomes(r, At("waits", native, NoOne)) /\ UNCHANGED cur
     \/ /\ ~Barred(r, native) /\ ~InTransition /\ cur # NoOne /\ ~gens[cur].closed
        /\ Becomes(r, At("has", native, cur)) /\ UNCHANGED <<gens, cur, transition>>
     \/ ~Barred(r, native) /\ ~InTransition /\ cur = NoOne /\ Build(r, native)
  /\ UNCHANGED brokerRetired

Reset == Drain /\ UNCHANGED <<cur, brokerRetired, req>>

\* A generation that talks to a cloud is left alone.
Spared == cur # NoOne /\ ~gens[cur].native

RetireForMachineBroker ==
  /\ brokerRetired' = TRUE
  /\ IF Spared THEN UNCHANGED <<gens, transition>> ELSE Drain
  /\ UNCHANGED <<cur, req>>

-----------------------------------------------------------------------------
(* What was started goes on.                                               *)

Retry(r) == req[r].at = "again" /\ Current(r, req[r].native)

InState(g, state) == [gens EXCEPT ![g] = Of(gens[g].native, gens[g].closed, state)]

\* Mutant: a build that failed is kept, and with it every later caller.
Poisoned(g) == cur

\* A build that failed leaves no generation.
Unpoisoned(g) == IF cur = g THEN NoOne ELSE cur

BuildEnds(g) ==
  /\ gens[g].state = "building"
  /\ \/ gens' = InState(g, "up") /\ UNCHANGED cur
     \/ gens' = InState(g, "failed") /\ cur' = Unpoisoned(g)
  /\ UNCHANGED <<transition, brokerRetired, req>>

\* Mutant: the gate is never closed.
AdmitsAlways(g) == TRUE

\* gate.run
Admits(g) == ~gens[g].closed

\* The build has ended and an operation is tried.
Operate(r) ==
  /\ req[r].at = "has" /\ gens[req[r].gen].state # "building"
  /\ Becomes(r, IF gens[req[r].gen].state # "failed" /\ Admits(req[r].gen)
                THEN At("runs", req[r].native, req[r].gen) ELSE Done)
  /\ UNCHANGED <<gens, cur, transition, brokerRetired>>

OperationEnds(r) ==
  /\ req[r].at = "runs" /\ Becomes(r, Done)
  /\ UNCHANGED <<gens, cur, transition, brokerRetired>>

Working(g) == {r \in Request : req[r].at = "runs" /\ req[r].gen = g}

\* The drain awaits the build, then the gate, then the shutdown.
DrainGoesOn ==
  /\ \/ /\ transition.at = "build" /\ gens[transition.gen].state # "building"
        /\ transition' = [gen |-> transition.gen, at |-> "idle"]
     \/ /\ transition.at = "idle" /\ Working(transition.gen) = {}
        /\ transition' = [gen |-> transition.gen, at |-> "shutdown"]
  /\ UNCHANGED <<gens, cur, brokerRetired, req>>

\* Those who awaited the transition ask again, or get its error.
Answered(ok) ==
  [r \in Request |-> IF req[r].at # "waits" THEN req[r]
                     ELSE IF ok THEN At("again", req[r].native, NoOne) ELSE Done]

\* Mutant: the generation is given up whether or not it was shut down.
Forgotten(ok) == NoOne

\* A failed shutdown keeps its generation.
Retained(ok) == IF ok THEN NoOne ELSE cur

DrainEnds(ok) ==
  /\ transition.at = "shutdown" /\ (~ok => gens[transition.gen].state = "up")
  /\ gens' = IF ok /\ gens[transition.gen].state = "up"
             THEN InState(transition.gen, "down") ELSE gens
  /\ cur' = Retained(ok) /\ transition' = NoTransition /\ req' = Answered(ok)
  /\ UNCHANGED brokerRetired

-----------------------------------------------------------------------------
\* Any caller may ask, reset and retire at any time.
LifecycleNext ==
  \/ \E r \in Request : \/ req[r].at = "out" /\ \E native \in BOOLEAN : Current(r, native)
                        \/ Retry(r) \/ Operate(r) \/ OperationEnds(r)
  \/ Reset \/ RetireForMachineBroker
  \/ \E g \in Request : BuildEnds(g)
  \/ DrainGoesOn \/ \E ok \in BOOLEAN : DrainEnds(ok)

LifecycleSpec == LifecycleInit /\ [][LifecycleNext]_lifecycleVars

\* provider-lifecycle.ts:15-19: no replacement leaks past a provider that has not been
\* shut down, be it still building, working, draining or left by a failed shutdown.
OneProvider ==
  \A g, h \in Request : Running(g) /\ Running(h) => g = h

\* The shutdown of a provider never meets an operation on it, however late the
\* operation is tried, and no operation runs on a provider that was shut down.
WorkFinishes ==
  \A r \in Request : req[r].at = "runs" =>
    /\ gens[req[r].gen].state = "up"
    /\ ~(transition.at = "shutdown" /\ transition.gen = req[r].gen)

\* retirement-gate.ts:1-6: from the moment the broker is authoritative nobody starts
\* on-device work here, neither through a reference obtained before nor by building
\* again after a wait.
NoLocalStart ==
  [][brokerRetired =>
       \A r \in Request :
         /\ req[r].at # "runs" /\ req'[r].at = "runs" => ~gens[req[r].gen].native
         /\ gens[r].state = "none" /\ gens'[r].state # "none" => ~gens'[r].native]_lifecycleVars

=============================================================================
