------------------------ MODULE EngineRetirementProofs ------------------------
(***************************************************************************)
(* For any number of requests, edits, failures and changes of the service: *)
(* there is one provider at a time, its shutdown meets no work, and after  *)
(* a retirement there is no on-device engine.                              *)
(*                                                                         *)
(* The lifecycle is proved on its own, for callers that do as they please  *)
(* (LifecycleKeeps); the steps of the bridge and of the image manager are  *)
(* steps of such callers (StepOfLifecycle). What carries it: what runs is  *)
(* the current generation, a drain is always of a closed one, and after    *)
(* the retirement no generation of the device is open.                     *)
(***************************************************************************)
EXTENDS EngineRetirement, TLAPS

RunsAsCurrent == \A g \in Request : Running(g) => g = cur

DownIsClosed == \A g \in Request : gens[g].state = "down" => gens[g].closed

DrainOK ==
  InTransition =>
    /\ transition.gen \in Request /\ gens[transition.gen].closed
    /\ cur \in {NoOne, transition.gen}
    /\ transition.at # "build" => gens[transition.gen].state # "building"

HandlesOK ==
  \A r \in Request : req[r].at \in {"has", "runs"} =>
    req[r].gen \in Request /\ gens[req[r].gen].state # "none"

RetiredIsClosed ==
  brokerRetired => \A g \in Request : gens[g].native /\ Running(g) => gens[g].closed

LInv ==
  /\ LifecycleTypeOK /\ RunsAsCurrent /\ DownIsClosed /\ DrainOK /\ HandlesOK
  /\ WorkFinishes /\ RetiredIsClosed

LEMMA StartKeeps ==
  ASSUME LifecycleInit PROVE LInv
  BY DEF LifecycleInit, LInv, LifecycleTypeOK, RunsAsCurrent, DownIsClosed, DrainOK, HandlesOK,
     WorkFinishes, RetiredIsClosed, NoTransition, InTransition, Generation, At, Of, Someone, Running

\* A drain closes the current generation and nothing else.
LEMMA DrainCloses ==
  ASSUME LInv, Drain
  PROVE  /\ gens' \in [Request -> Generation]
         /\ \A g \in Request :
              /\ gens'[g].native = gens[g].native /\ gens'[g].state = gens[g].state
              /\ gens[g].closed \/ (g = cur /\ ~InTransition) => gens'[g].closed
         /\ transition' = IF InTransition \/ cur = NoOne THEN transition
                          ELSE [gen |-> cur, at |-> "build"]
  <1>1. CASE InTransition \/ cur = NoOne
    BY <1>1, NoOneAssumption DEF LInv, LifecycleTypeOK, Drain
  <1>2. CASE ~InTransition /\ cur # NoOne
    <2>1. cur \in Request /\ gens[cur] \in Generation
      BY <1>2 DEF LInv, LifecycleTypeOK, Someone
    <2>2. Of(gens[cur].native, TRUE, gens[cur].state) \in Generation
      BY <2>1 DEF Generation, Of
    <2>3. /\ gens' \in [Request -> Generation]
          /\ gens'[cur] = Of(gens[cur].native, TRUE, gens[cur].state)
          /\ \A g \in Request : g # cur => gens'[g] = gens[g]
          /\ transition' = [gen |-> cur, at |-> "build"]
      BY <1>2, <2>1, <2>2 DEF LInv, LifecycleTypeOK, Drain
    <2>4. /\ gens'[cur].native = gens[cur].native /\ gens'[cur].closed
          /\ gens'[cur].state = gens[cur].state
      BY <2>3 DEF Of
    <2>5. QED  BY <1>2, <2>3, <2>4
  <1>3. QED  BY <1>1, <1>2

\* A drain keeps the invariant, if an open on-device generation does not outlive the
\* retirement, and nobody begins an operation with it.
LEMMA DrainKeeps ==
  ASSUME LInv, Drain, UNCHANGED cur, brokerRetired' \in BOOLEAN,
         req' \in [Request -> [at : {"out", "waits", "again", "has", "runs", "done"},
                               native : BOOLEAN, gen : Someone]],
         \A r \in Request : req'[r] = req[r] \/ req'[r].at = "waits"
  PROVE  LInv'
  <1>1. /\ gens' \in [Request -> Generation]
        /\ \A g \in Request :
             /\ gens'[g].native = gens[g].native /\ gens'[g].state = gens[g].state
             /\ gens[g].closed \/ (g = cur /\ ~InTransition) => gens'[g].closed
        /\ transition' = IF InTransition \/ cur = NoOne THEN transition
                         ELSE [gen |-> cur, at |-> "build"]
    BY DrainCloses
  <1>2. LifecycleTypeOK'
    BY <1>1 DEF LInv, LifecycleTypeOK, Running, Someone
  <1>3. (RunsAsCurrent /\ DownIsClosed /\ DrainOK)'
    BY <1>1 DEF LInv, LifecycleTypeOK, RunsAsCurrent, DownIsClosed, DrainOK, InTransition,
       Running, Someone
  <1>4. RetiredIsClosed'
    <2>1. ASSUME NEW g \in Request, Running(g)' PROVE gens'[g].closed
      <3>1. g = cur /\ g # NoOne
        BY <1>1, <2>1, NoOneAssumption DEF LInv, RunsAsCurrent, Running
      <3>2. InTransition => gens[g].closed
        BY <3>1 DEF LInv, DrainOK
      <3>3. QED  BY <1>1, <3>1, <3>2
    <2>2. QED  BY <2>1 DEF RetiredIsClosed
  <1>5. (HandlesOK /\ WorkFinishes)'
    <2>1. ASSUME NEW r \in Request, req'[r].at \in {"has", "runs"} PROVE req'[r] = req[r]
      BY <2>1
    <2>2. transition'.at = "shutdown" => transition' = transition
      BY <1>1
    <2>3. QED  BY <1>1, <2>1, <2>2 DEF LInv, HandlesOK, WorkFinishes
  <1>6. QED  BY <1>2, <1>3, <1>4, <1>5 DEF LInv

\* A request moves on while the provider stays as it is.
LEMMA StandsKeeps ==
  ASSUME LInv, UNCHANGED <<gens, cur, transition, brokerRetired>>, NEW r \in Request,
         NEW where \in [at : {"waits", "again", "has", "runs", "done"}, native : BOOLEAN,
                        gen : Someone],
         Becomes(r, where), 
         where.at \in {"has", "runs"} =>
           where.gen \in Request /\ gens[where.gen].state # "none",
         where.at = "runs" =>
           /\ gens[where.gen].state = "up"
           /\ ~(transition.at = "shutdown" /\ transition.gen = where.gen)
  PROVE  LInv'
  <1>1. /\ req'[r] = where /\ \A q \in Request : q # r => req'[q] = req[q]
        /\ LifecycleTypeOK'
    BY DEF LInv, LifecycleTypeOK, Becomes, Running
  <1>2. (RunsAsCurrent /\ DownIsClosed /\ DrainOK /\ RetiredIsClosed)'
    BY DEF LInv, RunsAsCurrent, DownIsClosed, DrainOK, RetiredIsClosed, Running, InTransition
  <1>3. (HandlesOK /\ WorkFinishes)'
    BY <1>1 DEF LInv, HandlesOK, WorkFinishes
  <1>4. QED  BY <1>1, <1>2, <1>3 DEF LInv

\* One request asks.
LEMMA CurrentKeeps ==
  ASSUME LInv, NEW r \in Request, NEW native \in BOOLEAN, Current(r, native)
  PROVE  LInv'
  <1>1. CASE /\ Becomes(r, Done) \/ Becomes(r, At("waits", native, NoOne))
             /\ UNCHANGED <<gens, cur, transition, brokerRetired>>
    <2>1. PICK where \in {Done, At("waits", native, NoOne)} : Becomes(r, where)
      BY <1>1
    <2>2. CASE where = Done
      BY <1>1, <2>1, <2>2, StandsKeeps DEF Done, At, Someone
    <2>3. CASE where = At("waits", native, NoOne)
      BY <1>1, <2>1, <2>3, StandsKeeps DEF At, Someone
    <2>4. QED  BY <2>1, <2>2, <2>3
  <1>2. CASE /\ Drain /\ Becomes(r, At("waits", native, NoOne))
             /\ UNCHANGED <<cur, brokerRetired>>
    <2>1. /\ req' \in [Request -> [at : {"out", "waits", "again", "has", "runs", "done"},
                                   native : BOOLEAN, gen : Someone]]
          /\ \A q \in Request : req'[q] = req[q] \/ req'[q].at = "waits"
      BY <1>2 DEF LInv, LifecycleTypeOK, Becomes, At, Someone
    <2>2. QED  BY <1>2, <2>1, DrainKeeps DEF LInv, LifecycleTypeOK
  <1>3. CASE /\ cur # NoOne /\ Becomes(r, At("has", native, cur))
             /\ UNCHANGED <<gens, cur, transition, brokerRetired>>
    <2>1. cur \in Request /\ gens[cur].state # "none"
      BY <1>3 DEF LInv, LifecycleTypeOK, Running, Someone
    <2>2. QED  BY <1>3, <2>1, StandsKeeps DEF At, Someone
  <1>4. CASE /\ ~Barred(r, native) /\ ~InTransition /\ cur = NoOne /\ Build(r, native)
             /\ UNCHANGED brokerRetired
    <2>1. /\ gens' \in [Request -> Generation]
          /\ gens'[r] = Of(native, FALSE, "building")
          /\ \A g \in Request : g # r => gens'[g] = gens[g]
          /\ \A g \in Request : ~Running(g)
      BY <1>4, NoOneAssumption DEF LInv, LifecycleTypeOK, RunsAsCurrent, Build, Of, Generation
    <2>2. LifecycleTypeOK'
      BY <1>4, <2>1 DEF LInv, LifecycleTypeOK, Build, Becomes, At, Of, Someone, Running
    <2>3. (RunsAsCurrent /\ DownIsClosed /\ DrainOK)'
      BY <1>4, <2>1 DEF LInv, RunsAsCurrent, DownIsClosed, DrainOK, InTransition, Running,
         Build, Of
    <2>4. RetiredIsClosed'
      BY <1>4, <2>1 DEF LInv, RetiredIsClosed, Running, Barred, Of
    <2>5. (HandlesOK /\ WorkFinishes)'
      <3>1. /\ req'[r].at = "has" /\ req'[r].gen = r /\ gens'[r].state = "building"
            /\ \A q \in Request : q # r => req'[q] = req[q]
            /\ \A q \in Request : req[q].at # "runs"
        BY <1>4, <2>1 DEF LInv, LifecycleTypeOK, HandlesOK, WorkFinishes, Running, Build, Becomes,
           At, Of
      <3>2. WorkFinishes'
        BY <3>1 DEF WorkFinishes
      <3>3. ASSUME NEW q \in Request, req'[q].at \in {"has", "runs"}
            PROVE  req'[q].gen \in Request /\ gens'[req'[q].gen].state # "none"
        <4>1. CASE q = r
          BY <3>1, <4>1
        <4>2. CASE q # r
          <5>1. req[q].gen \in Request /\ gens[req[q].gen].state # "none"
            BY <3>1, <3>3, <4>2 DEF LInv, HandlesOK
          <5>2. QED  BY <2>1, <3>1, <4>2, <5>1
        <4>3. QED  BY <4>1, <4>2
      <3>4. QED  BY <3>2, <3>3 DEF HandlesOK
    <2>6. QED  BY <2>2, <2>3, <2>4, <2>5 DEF LInv
  <1>5. QED  BY <1>1, <1>2, <1>3, <1>4 DEF Current

LEMMA OperateKeeps ==
  ASSUME LInv, NEW r \in Request, Operate(r) \/ OperationEnds(r)
  PROVE  LInv'
  <1>1. /\ req[r].at \in {"has", "runs"} /\ req[r].gen \in Request
        /\ gens[req[r].gen] \in Generation /\ req[r].native \in BOOLEAN
        /\ UNCHANGED <<gens, cur, transition, brokerRetired>>
    BY DEF LInv, LifecycleTypeOK, HandlesOK, Operate, OperationEnds
  <1>2. CASE Becomes(r, Done)
    BY <1>1, <1>2, StandsKeeps DEF Done, At, Someone
  <1>3. CASE /\ req[r].at = "has" /\ gens[req[r].gen].state \notin {"building", "failed"}
             /\ Admits(req[r].gen) /\ Becomes(r, At("runs", req[r].native, req[r].gen))
    <2>1. gens[req[r].gen].state = "up"
      BY <1>1, <1>3 DEF LInv, DownIsClosed, HandlesOK, Admits, Generation
    <2>2. ~(transition.at = "shutdown" /\ transition.gen = req[r].gen)
      BY <1>1, <1>3 DEF LInv, DrainOK, InTransition, Admits
    <2>3. QED  BY <1>1, <1>3, <2>1, <2>2, StandsKeeps DEF At, Someone
  <1>4. QED  BY <1>1, <1>2, <1>3 DEF Operate, OperationEnds

LEMMA BuildKeeps ==
  ASSUME LInv, NEW b \in Request, BuildEnds(b)
  PROVE  LInv'
  <1>1. PICK state \in {"up", "failed"} :
          /\ gens' = InState(b, state) /\ (state = "up" => UNCHANGED cur)
          /\ state = "failed" => cur' = Unpoisoned(b)
    BY DEF BuildEnds
  <1>2. /\ gens' \in [Request -> Generation] /\ gens[b].state = "building"
        /\ gens'[b] = Of(gens[b].native, gens[b].closed, state)
        /\ \A g \in Request : g # b => gens'[g] = gens[g]
        /\ UNCHANGED <<transition, brokerRetired, req>>
    <2>1. gens[b] \in Generation /\ gens[b].state = "building"
      BY DEF LInv, LifecycleTypeOK, BuildEnds
    <2>2. Of(gens[b].native, gens[b].closed, state) \in Generation
      BY <1>1, <2>1 DEF Generation, Of
    <2>3. QED  BY <1>1, <2>1, <2>2 DEF LInv, LifecycleTypeOK, InState, BuildEnds
  <1>3. /\ gens'[b].native = gens[b].native /\ gens'[b].closed = gens[b].closed
        /\ gens'[b].state = state
    BY <1>2 DEF Of
  <1>4. /\ cur = b /\ b # NoOne
        /\ cur' = IF state = "up" THEN b ELSE NoOne
    BY <1>1, <1>2, NoOneAssumption DEF LInv, RunsAsCurrent, Running, Unpoisoned
  <1>5. LifecycleTypeOK'
    BY <1>2, <1>3, <1>4 DEF LInv, LifecycleTypeOK, Running, Someone
  <1>6. (RunsAsCurrent /\ DownIsClosed)'
    BY <1>1, <1>2, <1>3, <1>4 DEF LInv, RunsAsCurrent, DownIsClosed, Running
  <1>7. DrainOK'
    BY <1>1, <1>2, <1>3, <1>4 DEF LInv, DrainOK, InTransition
  <1>8. (HandlesOK /\ WorkFinishes /\ RetiredIsClosed)'
    BY <1>2, <1>3 DEF LInv, HandlesOK, WorkFinishes, RetiredIsClosed, Running
  <1>9. QED  BY <1>5, <1>6, <1>7, <1>8 DEF LInv

LEMMA DrainGoesOnKeeps ==
  ASSUME LInv, DrainGoesOn
  PROVE  LInv'
  <1>1. /\ UNCHANGED <<gens, cur, brokerRetired, req>>
        /\ transition.gen \in Request /\ transition'.gen = transition.gen
        /\ transition' \in [gen : Someone, at : {"idle", "shutdown"}]
        /\ gens[transition.gen].state # "building"
        /\ transition'.at = "shutdown" => Working(transition.gen) = {}
    BY DEF LInv, LifecycleTypeOK, DrainOK, InTransition, DrainGoesOn, Someone
  <1>2. LifecycleTypeOK'
    BY <1>1 DEF LInv, LifecycleTypeOK, Running
  <1>3. DrainOK'
    BY <1>1 DEF LInv, DrainOK, InTransition, DrainGoesOn
  <1>4. WorkFinishes'
    BY <1>1 DEF LInv, WorkFinishes, Working
  <1>5. QED
    BY <1>1, <1>2, <1>3, <1>4
    DEF LInv, RunsAsCurrent, DownIsClosed, HandlesOK, RetiredIsClosed, Running

\* What a drain leaves behind.
LEMMA DrainEndsWith ==
  ASSUME LInv, NEW ok \in BOOLEAN, DrainEnds(ok)
  PROVE  /\ gens' \in [Request -> Generation] /\ UNCHANGED brokerRetired
         /\ \A g \in Request :
              /\ gens'[g].native = gens[g].native /\ gens'[g].closed = gens[g].closed
              /\ \/ gens'[g].state = gens[g].state
                 \/ g = transition.gen /\ gens'[g].state = "down" /\ gens[g].state = "up"
         /\ cur' = IF ok THEN NoOne ELSE cur
         /\ ok => \A g \in Request : gens'[g].state \notin {"building", "up"}
  <1> DEFINE d == transition.gen
  <1>1. /\ d \in Request /\ gens[d] \in Generation /\ gens[d].state # "building"
        /\ gens[d].closed /\ cur \in {NoOne, d}
    BY DEF LInv, LifecycleTypeOK, DrainOK, InTransition, DrainEnds
  <1>2. \A g \in Request : Running(g) => g = d /\ gens[g].state = "up"
    BY <1>1, NoOneAssumption DEF LInv, RunsAsCurrent, Running
  <1>3. Of(gens[d].native, gens[d].closed, "down") \in Generation
    BY <1>1 DEF Generation, Of
  <1>7. UNCHANGED brokerRetired /\ cur' = IF ok THEN NoOne ELSE cur
    BY DEF DrainEnds, Retained
  <1>4. CASE ok /\ gens[d].state = "up"
    <2>1. /\ gens' \in [Request -> Generation]
          /\ gens'[d] = Of(gens[d].native, gens[d].closed, "down")
          /\ \A g \in Request : g # d => gens'[g] = gens[g]
      BY <1>1, <1>3, <1>4 DEF LInv, LifecycleTypeOK, DrainEnds, InState
    <2>2. /\ gens'[d].native = gens[d].native /\ gens'[d].closed = gens[d].closed
          /\ gens'[d].state = "down"
      BY <2>1 DEF Of
    <2>3. QED  BY <1>2, <1>4, <1>7, <2>1, <2>2 DEF Running
  <1>5. CASE ~(ok /\ gens[d].state = "up")
    <2>1. UNCHANGED gens
      BY <1>5 DEF DrainEnds
    <2>2. QED  BY <1>1, <1>2, <1>5, <1>7, <2>1 DEF LInv, LifecycleTypeOK, Running
  <1>6. QED  BY <1>4, <1>5

LEMMA DrainEndsKeeps ==
  ASSUME LInv, NEW ok \in BOOLEAN, DrainEnds(ok)
  PROVE  LInv'
  <1>1. /\ transition.at = "shutdown" /\ transition.gen \in Request
        /\ transition' = NoTransition /\ req' = Answered(ok)
    BY DEF LInv, DrainOK, InTransition, DrainEnds
  <1>2. /\ req' \in [Request -> [at : {"out", "waits", "again", "has", "runs", "done"},
                                native : BOOLEAN, gen : Someone]]
        /\ \A r \in Request : req'[r].at \in {"has", "runs"} => req'[r] = req[r]
    BY <1>1 DEF LInv, LifecycleTypeOK, Answered, At, Done, Someone
  <1>3. LifecycleTypeOK'
    BY <1>1, <1>2, DrainEndsWith DEF LInv, LifecycleTypeOK, DrainEnds, NoTransition, Running,
       Someone
  <1>4. (RunsAsCurrent /\ RetiredIsClosed)'
    BY DrainEndsWith DEF LInv, RunsAsCurrent, RetiredIsClosed, Running
  <1>5. (DownIsClosed /\ DrainOK)'
    BY <1>1, DrainEndsWith DEF LInv, DownIsClosed, DrainOK, InTransition, NoTransition
  <1>6. (HandlesOK /\ WorkFinishes)'
    BY <1>1, <1>2, DrainEndsWith DEF LInv, HandlesOK, WorkFinishes, NoTransition
  <1>7. QED  BY <1>3, <1>4, <1>5, <1>6 DEF LInv

\* Whatever callers do, the lifecycle keeps its invariant.
LEMMA LifecycleKeeps ==
  ASSUME LInv, [LifecycleNext]_lifecycleVars
  PROVE  LInv'
  <1>1. ASSUME NEW r \in Request, NEW native \in BOOLEAN, Current(r, native) PROVE LInv'
    BY <1>1, CurrentKeeps
  <1>2. ASSUME NEW r \in Request, Retry(r) PROVE LInv'
    <2>1. req[r].native \in BOOLEAN
      BY DEF LInv, LifecycleTypeOK
    <2>2. QED  BY <1>1, <1>2, <2>1 DEF Retry
  <1>3. CASE Reset
    BY <1>3, DrainKeeps DEF Reset, LInv, LifecycleTypeOK
  <1>4. CASE RetireForMachineBroker
    <2>1. CASE Spared
      <3>1. /\ UNCHANGED <<gens, cur, transition, req>> /\ brokerRetired' = TRUE
        BY <1>4, <2>1 DEF RetireForMachineBroker
      <3>2. RetiredIsClosed'
        BY <2>1, <3>1 DEF LInv, RunsAsCurrent, RetiredIsClosed, Spared, Running
      <3>3. QED
        BY <3>1, <3>2
        DEF LInv, LifecycleTypeOK, RunsAsCurrent, DownIsClosed, DrainOK, HandlesOK,
            WorkFinishes, InTransition, Running
    <2>2. CASE ~Spared
      BY <1>4, <2>2, DrainKeeps DEF RetireForMachineBroker, LInv, LifecycleTypeOK
    <2>3. QED  BY <2>1, <2>2
  <1>5. CASE UNCHANGED lifecycleVars
    BY <1>5
    DEF lifecycleVars, LInv, LifecycleTypeOK, RunsAsCurrent, DownIsClosed, DrainOK, HandlesOK,
        WorkFinishes, RetiredIsClosed, InTransition, Running
  <1>6. QED
    BY <1>1, <1>2, <1>3, <1>4, <1>5, OperateKeeps, BuildKeeps, DrainGoesOnKeeps, DrainEndsKeeps
    DEF LifecycleNext

\* An operation begins only with an open gate.
LEMMA OnlyOperateStarts ==
  ASSUME LInv, [LifecycleNext]_lifecycleVars, NEW r \in Request,
         req[r].at # "runs", req'[r].at = "runs"
  PROVE  /\ req[r].at = "has" /\ ~gens[req[r].gen].closed
         /\ gens[req[r].gen].state \notin {"building", "failed"}
  <1>1. ASSUME NEW q \in Request, NEW native \in BOOLEAN, Current(q, native)
        PROVE  FALSE
    <2>1. \/ Becomes(q, Done) \/ Becomes(q, At("waits", native, NoOne))
          \/ Becomes(q, At("has", native, cur)) \/ Becomes(q, At("has", native, q))
      BY <1>1 DEF Current, Build
    <2>2. QED  BY <2>1 DEF Becomes, At, Done, LInv, LifecycleTypeOK
  <1>2. ASSUME NEW q \in Request, Retry(q) PROVE FALSE
    BY <1>1, <1>2 DEF Retry, LInv, LifecycleTypeOK
  <1>3. ASSUME NEW q \in Request, OperationEnds(q) PROVE FALSE
    BY <1>3 DEF OperationEnds, Becomes, Done, At, LInv, LifecycleTypeOK
  <1>4. ASSUME NEW ok \in BOOLEAN, DrainEnds(ok) PROVE FALSE
    <2>1. req' = Answered(ok)
      BY <1>4 DEF DrainEnds
    <2>2. req'[r] \in {req[r], At("again", req[r].native, NoOne), Done}
      BY <2>1 DEF Answered
    <2>3. QED  BY <2>2 DEF At, Done
  <1>5. ASSUME NEW q \in Request, Operate(q)
        PROVE  q = r /\ req[q].at = "has" /\ Admits(req[q].gen)
               /\ gens[req[q].gen].state \notin {"building", "failed"}
    <2>1. q = r
      BY <1>5 DEF Operate, Becomes, LInv, LifecycleTypeOK
    <2>2. CASE gens[req[q].gen].state # "failed" /\ Admits(req[q].gen)
      BY <1>5, <2>1, <2>2 DEF Operate
    <2>3. CASE ~(gens[req[q].gen].state # "failed" /\ Admits(req[q].gen))
      BY <1>5, <2>1, <2>3 DEF Operate, Becomes, Done, At, LInv, LifecycleTypeOK
    <2>4. QED  BY <2>2, <2>3
  <1>6. QED
    BY <1>1, <1>2, <1>3, <1>4, <1>5
    DEF LifecycleNext, Reset, RetireForMachineBroker, BuildEnds, DrainGoesOn, lifecycleVars, Admits

\* A generation comes to be by a build alone.
LEMMA OnlyBuildMakes ==
  ASSUME LInv, [LifecycleNext]_lifecycleVars, NEW g \in Request,
         gens[g].state = "none", gens'[g].state # "none"
  PROVE  gens'[g].state = "building"
  <1>1. ~Drain
    BY DrainCloses
  <1>2. ~UNCHANGED gens
    OBVIOUS
  <1>3. ASSUME NEW ok \in BOOLEAN PROVE ~DrainEnds(ok)
    BY DrainEndsWith
  <1>4. ASSUME NEW h \in Request PROVE ~BuildEnds(h)
    BY DEF BuildEnds, InState, LInv, LifecycleTypeOK
  <1>5. ASSUME NEW q \in Request, NEW native \in BOOLEAN, Current(q, native)
        PROVE  gens'[g].state = "building"
    <2>1. Build(q, native)
      BY <1>1, <1>2, <1>5 DEF Current
    <2>2. QED  BY <2>1 DEF Build, Of, LInv, LifecycleTypeOK
  <1>6. QED
    BY <1>1, <1>2, <1>3, <1>4, <1>5
    DEF LifecycleNext, Retry, Reset, RetireForMachineBroker, Operate, OperationEnds, DrainGoesOn,
        lifecycleVars, LInv, LifecycleTypeOK

\* After the retirement no on-device engine starts, and none that ended comes back.
LEMMA NoneStarts ==
  ASSUME LInv, brokerRetired, [LifecycleNext]_lifecycleVars
  PROVE  /\ brokerRetired'
         /\ \A g \in Request : gens'[g].native /\ Running(g)' => gens[g].native /\ Running(g)
  <1>1. ASSUME NEW r \in Request, NEW native \in BOOLEAN, Current(r, native)
        PROVE  /\ brokerRetired'
               /\ \A g \in Request : gens'[g].native /\ Running(g)' => gens[g].native /\ Running(g)
    <2>1. CASE Drain
      BY <1>1, <2>1, DrainCloses DEF Current, Running
    <2>2. CASE UNCHANGED gens
      BY <1>1, <2>2 DEF Current, Running
    <2>3. CASE ~Barred(r, native) /\ Build(r, native)
      <3>1. /\ gens'[r] = Of(native, FALSE, "building")
            /\ \A g \in Request : g # r => gens'[g] = gens[g]
        BY <2>3 DEF Build, LInv, LifecycleTypeOK
      <3>2. ~gens'[r].native
        BY <2>3, <3>1 DEF Barred, Of
      <3>3. QED  BY <1>1, <3>1, <3>2 DEF Current, Running
    <2>4. QED  BY <1>1, <2>1, <2>2, <2>3 DEF Current
  <1>2. CASE Reset \/ RetireForMachineBroker
    <2>1. CASE UNCHANGED gens
      BY <1>2, <2>1 DEF Reset, RetireForMachineBroker, Running
    <2>2. CASE Drain
      BY <1>2, <2>2, DrainCloses DEF Reset, RetireForMachineBroker, Running
    <2>3. QED  BY <1>2, <2>1, <2>2 DEF Reset, RetireForMachineBroker
  <1>3. ASSUME NEW b \in Request, BuildEnds(b)
        PROVE  /\ brokerRetired'
               /\ \A g \in Request : gens'[g].native /\ Running(g)' => gens[g].native /\ Running(g)
    <2>1. PICK state \in {"up", "failed"} : gens' = InState(b, state)
      BY <1>3 DEF BuildEnds
    <2>2. /\ gens'[b] = Of(gens[b].native, gens[b].closed, state)
          /\ \A g \in Request : g # b => gens'[g] = gens[g]
      BY <2>1 DEF InState, LInv, LifecycleTypeOK
    <2>3. gens'[b].native = gens[b].native
      BY <2>2 DEF Of
    <2>4. QED  BY <1>3, <2>2, <2>3 DEF BuildEnds, Running
  <1>4. ASSUME NEW ok \in BOOLEAN, DrainEnds(ok)
        PROVE  /\ brokerRetired'
               /\ \A g \in Request : gens'[g].native /\ Running(g)' => gens[g].native /\ Running(g)
    BY <1>4, DrainEndsWith DEF Running
  <1>5. CASE \/ DrainGoesOn \/ UNCHANGED lifecycleVars
             \/ \E r \in Request : Operate(r) \/ OperationEnds(r)
    BY <1>5 DEF DrainGoesOn, Operate, OperationEnds, lifecycleVars, Running
  <1>6. ASSUME NEW r \in Request, Retry(r)
        PROVE  /\ brokerRetired'
               /\ \A g \in Request : gens'[g].native /\ Running(g)' => gens[g].native /\ Running(g)
    <2>1. req[r].native \in BOOLEAN
      BY DEF LInv, LifecycleTypeOK
    <2>2. QED  BY <1>1, <1>6, <2>1 DEF Retry
  <1>7. QED  BY <1>1, <1>2, <1>3, <1>4, <1>5, <1>6 DEF LifecycleNext

-----------------------------------------------------------------------------
(* The daemon: its steps are steps of callers of the lifecycle.            *)

\* Nobody asks the lifecycle before the image manager has routed the request.
RoutedOK == \A r \in Request : asked[r] # "routed" => req[r].at = "out"

RetiresOK ==
  \A k \in DOMAIN branches : branches[k] \in {"drains", "gone"} => brokerRetired

\* The parts of TypeOK that the bridge and the image manager change.
FlagsOK ==
  /\ config \in Kinds /\ owed \in BOOLEAN /\ asked \in [Request -> Kinds \cup {"no", "routed"}]
  /\ remote \in BOOLEAN /\ complete \in BOOLEAN /\ refreshing \in BOOLEAN /\ timer \in BOOLEAN

AttemptsOK ==
  /\ branches \in Seq({"asks", "native", "drains", "gone", "kept", "failed"})
  /\ flight \in 0 .. Len(branches)

SpentOK == spent \in [edits : 0 .. Edits, failures : 0 .. Failures, flips : 0 .. Flips]

CompleteOK == complete => flight = 0 /\ ~timer

LEMMA TypeParts ==
  TypeOK <=> LifecycleTypeOK /\ FlagsOK /\ AttemptsOK /\ SpentOK /\ CompleteOK
  BY DEF TypeOK, FlagsOK, AttemptsOK, SpentOK, CompleteOK

IInv == LInv /\ TypeOK /\ RoutedOK /\ RetiresOK /\ GoneForGood

LEMMA InitIInv ==
  ASSUME Init PROVE IInv
  <1>1. LInv
    BY StartKeeps DEF Init
  <1>2. TypeOK
    <2>1. FlagsOK /\ CompleteOK
      BY DEF Init, FlagsOK, CompleteOK, Kinds
    <2>2. AttemptsOK
      BY DEF Init, AttemptsOK
    <2>3. SpentOK
      BY RetirementAssumption DEF Init, SpentOK
    <2>4. QED  BY <1>1, <2>1, <2>2, <2>3, TypeParts DEF LInv
  <1>3. RoutedOK
    BY DEF Init, LifecycleInit, RoutedOK, At
  <1>4. RetiresOK /\ GoneForGood
    BY DEF Init, RetiresOK, GoneForGood
  <1>5. QED  BY <1>1, <1>2, <1>3, <1>4 DEF IInv

\* The daemon uses its lifecycle as any caller may: every step of it is a step
\* of the lifecycle or none.
LEMMA StepOfLifecycle ==
  ASSUME IInv, [Next]_vars
  PROVE  [LifecycleNext]_lifecycleVars
  <1>1. ASSUME NEW r \in Request, Route(r) PROVE [LifecycleNext]_lifecycleVars
    <2>1. req[r].at = "out" /\ (asked[r] = "native") \in BOOLEAN
      BY <1>1 DEF IInv, RoutedOK, Route, Kinds
    <2>2. QED  BY <1>1, <2>1 DEF Route, LifecycleNext
  <1>2. ASSUME NEW r \in Request, ReadsConfig(r) \/ Uses(r) PROVE [LifecycleNext]_lifecycleVars
    BY <1>2 DEF ReadsConfig, Uses, LifecycleNext
  <1>3. CASE Configure \/ Resets \/ Builds \/ Drains \/ \E ok \in BOOLEAN : Ends(ok)
    BY <1>3 DEF Configure, Resets, Builds, Drains, Ends, LifecycleNext
  <1>4. CASE Branches
    BY <1>4 DEF Branches, BranchReads, BranchRetires, LifecycleNext
  <1>5. CASE Bridge
    BY <1>5 DEF Bridge, Adopt, Disown, RestFails, Completes, PartFails, Rejects, TimerFires
  <1>6. CASE UNCHANGED vars
    BY <1>6 DEF vars
  <1>7. QED  BY <1>1, <1>2, <1>3, <1>4, <1>5, <1>6 DEF Next

LEMMA SpentStep ==
  ASSUME TypeOK, [Next]_vars
  PROVE  SpentOK'
  <1>1. SpentOK
    BY TypeParts
  <1>2. CASE UNCHANGED spent
    BY <1>1, <1>2 DEF SpentOK
  <1>3. CASE Spends("edits", Edits)
    BY <1>1, <1>3, RetirementAssumption DEF SpentOK, Spends
  <1>4. CASE Spends("failures", Failures)
    BY <1>1, <1>4, RetirementAssumption DEF SpentOK, Spends
  <1>5. CASE Spends("flips", Flips)
    BY <1>1, <1>5, RetirementAssumption DEF SpentOK, Spends
  <1>6. QED
    BY <1>2, <1>3, <1>4, <1>5
    DEF Next, ReadsConfig, Route, Uses, Configure, Resets, Builds, Drains, Ends, Branches, Bridge,
        BranchReads, BranchRetires, Adopt, Disown, RestFails, Completes, PartFails, Rejects,
        TimerFires, vars

LEMMA AttemptsStep ==
  ASSUME TypeOK, [Next]_vars
  PROVE  AttemptsOK'
  <1>1. AttemptsOK
    BY TypeParts
  <1>2. ASSUME branches' \in Seq({"asks", "native", "drains", "gone", "kept", "failed"}),
               Len(branches') = Len(branches), UNCHANGED flight \/ flight' = 0
        PROVE  AttemptsOK'
    BY <1>1, <1>2 DEF AttemptsOK
  <1>3. CASE UNCHANGED branches /\ (UNCHANGED flight \/ flight' = 0)
    BY <1>1, <1>3 DEF AttemptsOK
  <1>4. CASE Attempt
    BY <1>1, <1>4 DEF AttemptsOK, Attempt
  <1>5. ASSUME NEW ok \in BOOLEAN, Ends(ok) PROVE AttemptsOK'
    BY <1>1, <1>2, <1>5 DEF AttemptsOK, Ends, Outcome, bridgeVars
  <1>6. ASSUME NEW k \in DOMAIN branches, BranchReads(k) \/ BranchRetires(k) PROVE AttemptsOK'
    BY <1>1, <1>2, <1>6 DEF AttemptsOK, BranchReads, BranchRetires, bridgeVars
  <1>7. QED
    BY <1>3, <1>4, <1>5, <1>6
    DEF Next, ReadsConfig, Route, Uses, Configure, Resets, Builds, Drains, Branches, Bridge, Adopt,
        Disown, RestFails, Completes, PartFails, Rejects, TimerFires, vars, bridgeVars

LEMMA TypeStep ==
  ASSUME IInv, LInv', [Next]_vars
  PROVE  TypeOK'
  <1>1. FlagsOK /\ AttemptsOK /\ CompleteOK
    BY TypeParts DEF IInv
  <1>2. FlagsOK'
    BY <1>1
    DEF FlagsOK, Kinds, Next, ReadsConfig, Route, Uses, Configure, Resets, Builds, Drains, Ends,
        Branches, Bridge, BranchReads, BranchRetires, Adopt, Disown, RestFails, Completes,
        PartFails, Rejects, Rearms, TimerFires, vars, bridgeVars
  <1>3. CompleteOK'
    BY <1>1
    DEF FlagsOK, AttemptsOK, CompleteOK, Next, ReadsConfig, Route, Uses, Configure, Resets, Builds,
        Drains, Ends, Branches, Bridge, BranchReads, BranchRetires, Adopt, Disown, RestFails,
        Completes, PartFails, Rejects, Rearms, TimerFires, vars, bridgeVars
  <1>4. (LifecycleTypeOK /\ FlagsOK /\ AttemptsOK /\ SpentOK /\ CompleteOK)'
    BY <1>2, <1>3, SpentStep, AttemptsStep DEF IInv, LInv
  <1>5. QED  BY <1>4 DEF TypeOK, FlagsOK, AttemptsOK, SpentOK, CompleteOK

LEMMA RoutedStep ==
  ASSUME IInv, [Next]_vars
  PROVE  RoutedOK'
  <1>1. ASSUME NEW r \in Request, ReadsConfig(r) \/ Route(r) PROVE RoutedOK'
    <2>1. \A q \in Request : asked'[q] # "routed" => asked[q] # "routed" /\ req'[q] = req[q]
      BY <1>1
      DEF ReadsConfig, Route, Current, Becomes, Build, lifecycleVars, IInv, TypeOK, LInv,
          LifecycleTypeOK, Kinds
    <2>2. QED  BY <2>1 DEF IInv, RoutedOK
  <1>2. ASSUME NEW r \in Request, Uses(r) PROVE RoutedOK'
    <2>1. req[r].at # "out" /\ UNCHANGED asked
          /\ \A q \in Request : q # r => req'[q] = req[q]
      BY <1>2
      DEF Uses, Retry, Operate, OperationEnds, Current, Becomes, Build, IInv, LInv,
          LifecycleTypeOK
    <2>2. QED  BY <2>1 DEF IInv, RoutedOK
  <1>3. ASSUME NEW ok \in BOOLEAN, Ends(ok) PROVE RoutedOK'
    <2>1. /\ UNCHANGED asked
          /\ \A q \in Request : req[q].at = "out" => req'[q] = req[q]
      BY <1>3 DEF Ends, DrainEnds, Answered
    <2>2. QED  BY <2>1 DEF IInv, RoutedOK
  <1>4. CASE UNCHANGED <<asked, req>>
    BY <1>4 DEF IInv, RoutedOK
  <1>5. QED
    BY <1>1, <1>2, <1>3, <1>4
    DEF Next, Configure, Resets, Reset, Builds, BuildEnds, Drains, DrainGoesOn, Branches, Bridge,
        BranchReads, BranchRetires, RetireForMachineBroker, Adopt, Disown, RestFails, Completes,
        PartFails, Rejects, TimerFires, vars, lifecycleVars

\* A retirement that is drained or done has been called for.
LEMMA RetiresStep ==
  ASSUME IInv, [Next]_vars
  PROVE  RetiresOK'
  <1>1. brokerRetired => brokerRetired'
    BY StepOfLifecycle, NoneStarts DEF IInv
  <1>2. CASE UNCHANGED branches
    BY <1>1, <1>2 DEF IInv, RetiresOK
  <1>3. CASE Attempt
    BY <1>1, <1>3, TypeParts DEF Attempt, IInv, RetiresOK, AttemptsOK
  <1>4. ASSUME NEW ok \in BOOLEAN, Ends(ok) PROVE RetiresOK'
    <2>1. \A k \in DOMAIN branches' :
            /\ k \in DOMAIN branches
            /\ branches'[k] \in {"drains", "gone"} => branches[k] \in {"drains", "gone"}
      BY <1>4 DEF Ends, Outcome
    <2>2. QED  BY <1>1, <2>1 DEF IInv, RetiresOK
  <1>5. ASSUME NEW k \in DOMAIN branches, BranchReads(k) PROVE RetiresOK'
    BY <1>1, <1>5, TypeParts DEF BranchReads, IInv, RetiresOK, AttemptsOK
  <1>6. ASSUME NEW k \in DOMAIN branches, BranchRetires(k) PROVE RetiresOK'
    BY <1>6 DEF BranchRetires, RetireForMachineBroker, RetiresOK
  <1>7. QED
    BY <1>2, <1>3, <1>4, <1>5, <1>6
    DEF Next, ReadsConfig, Route, Uses, Configure, Resets, Builds, Drains, Branches, Bridge, Adopt,
        Disown, RestFails, Completes, PartFails, Rejects, TimerFires, vars, bridgeVars

LEMMA GoneStep ==
  ASSUME IInv, LInv', RetiresOK', [Next]_vars
  PROVE  GoneForGood'
  <1> DEFINE Gone == \E k \in DOMAIN branches : branches[k] = "gone"
             NoneRuns == \A g \in Request : gens[g].native => ~Running(g)
  <1>1. Gone => brokerRetired
    BY DEF RetiresOK, IInv
  <1>2. CASE Gone
    <2>1. brokerRetired' /\ NoneRuns'
      BY <1>1, <1>2, StepOfLifecycle, NoneStarts DEF IInv, GoneForGood
    <2>2. QED  BY <2>1 DEF GoneForGood
  <1>3. ASSUME Gone', ~Gone PROVE brokerRetired' /\ NoneRuns'
    <2>1. CASE UNCHANGED branches
      BY <1>3, <2>1
    <2>2. CASE Attempt
      BY <1>3, <2>2, TypeParts DEF Attempt, IInv, AttemptsOK
    <2>3. ASSUME NEW ok \in BOOLEAN, Ends(ok) PROVE brokerRetired' /\ NoneRuns'
      <3>1. PICK k \in DOMAIN branches : branches[k] = "drains" /\ Outcome(ok) = "gone"
        BY <1>3, <2>3 DEF Ends
      <3>2. ok /\ brokerRetired /\ DrainEnds(ok)
        BY <2>3, <3>1 DEF Outcome, IInv, RetiresOK, Ends
      <3>3. QED  BY <3>2, DrainEndsWith DEF IInv, Running
    <2>4. ASSUME NEW k \in DOMAIN branches, BranchReads(k) PROVE brokerRetired' /\ NoneRuns'
      BY <1>3, <2>4, TypeParts DEF BranchReads, IInv, AttemptsOK
    <2>5. ASSUME NEW k \in DOMAIN branches, BranchRetires(k) PROVE brokerRetired' /\ NoneRuns'
      <3>1. Spared \/ cur = NoOne
        BY <1>3, <2>5, TypeParts DEF BranchRetires, IInv, AttemptsOK
      <3>2. \A g \in Request : Running(g) => ~gens[g].native
        BY <3>1, NoOneAssumption DEF IInv, LInv, RunsAsCurrent, Spared
      <3>3. brokerRetired' /\ UNCHANGED gens
        BY <2>5, <3>1 DEF BranchRetires, RetireForMachineBroker, Drain
      <3>4. QED  BY <3>2, <3>3 DEF Running
    <2>6. QED
      BY <2>1, <2>2, <2>3, <2>4, <2>5
      DEF Next, ReadsConfig, Route, Uses, Configure, Resets, Builds, Drains, Branches, Bridge, Adopt,
          Disown, RestFails, Completes, PartFails, Rejects, TimerFires, vars, bridgeVars
  <1>4. QED  BY <1>2, <1>3 DEF GoneForGood

LEMMA IInvStep ==
  ASSUME IInv, [Next]_vars PROVE IInv'
  <1>1. LInv'
    BY StepOfLifecycle, LifecycleKeeps DEF IInv
  <1>2. RoutedOK' /\ RetiresOK'
    BY RoutedStep, RetiresStep
  <1>3. QED  BY <1>1, <1>2, TypeStep, GoneStep DEF IInv

\* No step of the lifecycle or of an adoption breaks the inductive invariant.
THEOREM Invariance == Spec => []IInv
  <1>1. Init => IInv
    BY InitIInv
  <1>2. IInv /\ [Next]_vars => IInv'
    BY IInvStep
  <1>3. QED  BY <1>1, <1>2, PTL DEF Spec

\* The bridge, the image manager and the lifecycle are well typed, and the current
\* generation is one that is building or up.
THEOREM RetirementTyped == Spec => []TypeOK
  <1>1. IInv => TypeOK
    BY DEF IInv
  <1>2. QED  BY <1>1, Invariance, PTL

\* No replacement leaks past a provider that has not been shut down
\* (provider-lifecycle.ts:15-19).
THEOREM OneProviderAlways == Spec => []OneProvider
  <1>1. IInv => OneProvider
    BY DEF IInv, LInv, RunsAsCurrent, OneProvider
  <1>2. QED  BY <1>1, Invariance, PTL

\* A provider is never shut down under an operation (retirement-gate.ts).
THEOREM WorkAlwaysFinishes == Spec => []WorkFinishes
  <1>1. IInv => WorkFinishes
    BY DEF IInv, LInv
  <1>2. QED  BY <1>1, Invariance, PTL

\* After a retirement that succeeded there is no on-device engine (bridge.ts:92-99).
THEOREM GoneAlways == Spec => []GoneForGood
  <1>1. IInv => GoneForGood
    BY DEF IInv
  <1>2. QED  BY <1>1, Invariance, PTL

\* From the call of the retirement on, no operation of an on-device engine begins
\* and none is built (retirement-gate.ts:1-6).
THEOREM NeverStartsLocally == Spec => NoLocalStart
  <1> DEFINE Quiet ==
        brokerRetired =>
          \A r \in Request :
            /\ req[r].at # "runs" /\ req'[r].at = "runs" => ~gens[req[r].gen].native
            /\ gens[r].state = "none" /\ gens'[r].state # "none" => ~gens'[r].native
  <1>1. IInv /\ [Next]_vars => [Quiet]_lifecycleVars
    <2> SUFFICES ASSUME IInv, [Next]_vars, brokerRetired, NEW r \in Request
                 PROVE /\ req[r].at # "runs" /\ req'[r].at = "runs" => ~gens[req[r].gen].native
                       /\ gens[r].state = "none" /\ gens'[r].state # "none" => ~gens'[r].native
      OBVIOUS
    <2>1. [LifecycleNext]_lifecycleVars
      BY StepOfLifecycle
    <2>2. ASSUME req[r].at # "runs", req'[r].at = "runs" PROVE ~gens[req[r].gen].native
      <3>1. req[r].at = "has" /\ ~gens[req[r].gen].closed
            /\ gens[req[r].gen].state \notin {"building", "failed"}
        BY <2>1, <2>2, OnlyOperateStarts DEF IInv
      <3>2. req[r].gen \in Request /\ gens[req[r].gen].state # "none"
        BY <3>1 DEF IInv, LInv, HandlesOK
      <3>3. gens[req[r].gen].state = "up"
        BY <3>1, <3>2 DEF IInv, LInv, LifecycleTypeOK, DownIsClosed, Generation
      <3>4. QED  BY <3>1, <3>2, <3>3 DEF IInv, LInv, RetiredIsClosed, Running
    <2>3. ASSUME gens[r].state = "none", gens'[r].state # "none" PROVE ~gens'[r].native
      <3>1. Running(r)'
        BY <2>1, <2>3, OnlyBuildMakes DEF IInv, Running
      <3>2. QED  BY <2>1, <2>3, <3>1, NoneStarts DEF IInv, Running
    <2>4. QED  BY <2>2, <2>3
  <1>2. QED  BY <1>1, Invariance, PTL DEF Spec, NoLocalStart

===============================================================================
