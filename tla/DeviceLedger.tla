---------------------------- MODULE DeviceLedger ----------------------------
(***************************************************************************)
(* Machine-wide admission of native engine memory: the SQLite ledger       *)
(* (device-capacity-ledger.ts), the process identities it prunes by        *)
(* (process-identity.ts), the admission loop (device-capacity.ts) and the  *)
(* supervisor that spawns, binds and stops the engine (supervisor.ts).     *)
(*                                                                         *)
(* A command runs in three steps of its executor: Begin reads the sample   *)
(* and a snapshot of the table and consults the identity cache; Probe asks *)
(* the OS for the birth stamps the cache could not answer; the transaction *)
(* (Missing, Deny, Keep, Grant) then reads the table again and writes it.  *)
(* Other processes, engines and crashes run between the steps.             *)
(*                                                                         *)
(* A birth stamp is the number of the birth of its pid: 0 is "not running" *)
(* in proc and "not recorded / not readable" everywhere else.              *)
(***************************************************************************)
EXTENDS Naturals, FiniteSets, Functions

CONSTANTS
  Pid,          \* OS process numbers
  Home,         \* pids of the daemons (one per GEZEL_HOME, or the broker)
  NoPid,        \* "no child bound"
  Engine,       \* engine supervisors; each asks for one reservation at a time
  Owner,        \* [Engine -> Home]: the daemon a supervisor lives in
  Executor,     \* [Engine -> Home]: the daemon whose ledger code runs its commands
  Bytes,        \* [Engine -> Nat]: planned working set
  GpuBytes,     \* [Engine -> Nat]: its part on the accelerator
  Exclusive,    \* [Engine -> BOOLEAN]
  Priorities,   \* [Engine -> SUBSET Priority]: what options.priority() may answer
  Discrete,     \* a discrete GPU: RAM and GPU are checked apart
  Samples,      \* [Home -> SUBSET Sample]: what a daemon may read for a command
  Serialize,    \* sample.serializeLoads
  MaxBypasses,  \* 4 in the code
  ShortPolls,   \* polls in EXTERNAL_SHORTFALL_WAIT_MS (40 in the code)
  Births,       \* bound: how often one pid may be born
  InFlight,     \* bound: commands in flight at once
  Uncertain,    \* bound: the pids whose stamp may be unreadable or expire from a cache
  Crashable     \* bound: the daemons that may crash

Priority == {"interactive", "background"}
Stamp == 0 .. Births

\* sampleDeviceCapacity, read again for every command: the free memory, and the
\* limits, which follow the settings of the daemon that reads them.
Sample == [bytes : Nat, ram : Nat, gpu : Nat, budget : Nat, gpuBudget : Nat]

ASSUME ConstantsAssumption ==
  /\ Home \subseteq Pid /\ NoPid \notin Pid
  /\ Owner \in [Engine -> Home] /\ Executor \in [Engine -> Home]
  /\ Bytes \in [Engine -> Nat] /\ GpuBytes \in [Engine -> Nat]
  /\ Exclusive \in [Engine -> BOOLEAN]
  /\ Priorities \in [Engine -> SUBSET Priority]
  /\ Discrete \in BOOLEAN /\ Serialize \in BOOLEAN
  /\ Samples \in [Home -> SUBSET Sample] /\ Uncertain \subseteq Pid /\ Crashable \subseteq Home
  /\ MaxBypasses \in Nat /\ ShortPolls \in Nat /\ Births \in Nat \ {0} /\ InFlight \in Nat

VARIABLES
  proc,     \* [Pid -> Stamp]: the birth now running at a pid, 0 if none
  born,     \* [Pid -> Stamp]: the births a pid has had
  up,       \* the daemons running
  claims,   \* the ledger table
  ahead,    \* rowid order: the rows inserted before each row
  cache,    \* [Home -> [Pid -> Stamp]]: ProcessIdentityCache.verified
  cmd,      \* the command in flight of each supervisor
  eng       \* the supervisors

vars == <<proc, born, up, claims, ahead, cache, cmd, eng>>

-----------------------------------------------------------------------------
(* The table.                                                              *)

Phase == {"absent", "waiting", "loading", "ready"}

Claim == [phase : Phase, priority : Priority, bypasses : Nat,
          ownerStamp : Stamp, child : Pid \cup {NoPid}, childStamp : Stamp]

Absent == [phase |-> "absent", priority |-> "interactive", bypasses |-> 0,
           ownerStamp |-> 0, child |-> NoPid, childStamp |-> 0]

Present(T) == {i \in Engine : T[i].phase # "absent"}
Waiting(T) == {i \in Engine : T[i].phase = "waiting"}
Loading(T) == {i \in Engine : T[i].phase = "loading"}
Active(T)  == {i \in Engine : T[i].phase \in {"loading", "ready"}}

Action == {"acquire", "bind", "ready", "status"}

Command == [stage : {"idle", "probe", "decide"}, action : Action,
            child : Pid \cup {NoPid}, priority : Priority, sample : Sample,
            observed : [Engine -> Claim], unread : SUBSET Pid, ids : [Pid -> Stamp]]

NoCommand == [stage |-> "idle", action |-> "status", child |-> NoPid,
              priority |-> "interactive",
              sample |-> [bytes |-> 0, ram |-> 0, gpu |-> 0, budget |-> 0, gpuBudget |-> 0],
              observed |-> [i \in Engine |-> Absent], unread |-> {}, ids |-> [p \in Pid |-> 0]]

At == {"off", "asking", "cancelling", "granted", "starting", "bound", "running",
       "draining", "stopping", "closing", "gone"}

Supervisor == [at : At, child : Pid \cup {NoPid}, stamp : Stamp, short : Nat]

Off == [at |-> "off", child |-> NoPid, stamp |-> 0, short |-> 0]

TypeOK ==
  /\ proc \in [Pid -> Stamp] /\ born \in [Pid -> Stamp] /\ up \subseteq Home
  /\ claims \in [Engine -> Claim] /\ ahead \in [Engine -> SUBSET Engine]
  /\ cache \in [Home -> [Pid -> Stamp]]
  /\ cmd \in [Engine -> Command] /\ eng \in [Engine -> Supervisor]

Init ==
  /\ proc = [p \in Pid |-> IF p \in Home THEN 1 ELSE 0]
  /\ born = proc
  /\ up = Home
  /\ claims = [i \in Engine |-> Absent]
  /\ ahead = [i \in Engine |-> {}]
  /\ cache = [h \in Home |-> [p \in Pid |-> 0]]
  /\ cmd = [i \in Engine |-> NoCommand]
  /\ eng = [i \in Engine |-> Off]

\* The engine process a supervisor spawned still runs (its owner may be gone).
EngineAlive(i) == eng[i].child # NoPid /\ proc[eng[i].child] = eng[i].stamp

-----------------------------------------------------------------------------
(* Begin: the sample, the snapshot and the synchronous part of the cache    *)
(* lookup. The transaction decides on that sample, however old it is then.  *)

\* The stamps the claims recorded for a pid. They are gathered only while a
\* request waits (or arrives); an owner's only while its claim is queued.
Confirm(action, p) ==
  IF action = "acquire" \/ Waiting(claims) # {}
  THEN ({claims[j].childStamp : j \in {k \in Present(claims) : claims[k].child = p}}
         \cup {claims[j].ownerStamp : j \in {k \in Waiting(claims) : Owner[k] = p}}) \ {0}
  ELSE {}

\* The pids whose stamp is about to be written onto a claim.
Record(i, action) ==
  CASE action = "acquire" /\ claims[i].phase = "absent" -> {Owner[i]}
    [] action = "bind" -> {eng[i].child}
    [] OTHER -> {}

Asked(i, action) == Record(i, action) \cup {p \in Pid : Confirm(action, p) # {}}

\* The cache after the TTL and after forgetting what is seen dead.
Remembered(i, action, expired) ==
  [p \in Pid |-> IF p \in expired \/ (p \in Asked(i, action) /\ proc[p] = 0)
                 THEN 0 ELSE cache[Executor[i]][p]]

\* What the cache answers: a live pid, not about to be recorded, whose cached
\* stamp is the only one the claims recorded.
CacheAnswers(i, action, c, p) ==
  /\ p \notin Record(i, action) /\ proc[p] # 0 /\ Confirm(action, p) # {}
  /\ c[p] # 0 /\ Confirm(action, p) \subseteq {c[p]}

\* What is left for the OS probe.
Unread(i, action, c) ==
  {p \in Asked(i, action) : proc[p] # 0 /\ ~CacheAnswers(i, action, c, p)}

Issued(i, action, child, pr, s, c) ==
  [stage |-> IF Unread(i, action, c) = {} THEN "decide" ELSE "probe", action |-> action,
   child |-> child, priority |-> pr, sample |-> s, observed |-> claims,
   unread |-> Unread(i, action, c),
   ids |-> [p \in Pid |-> IF CacheAnswers(i, action, c, p) THEN c[p] ELSE 0]]

BeginCommand(i, action, child) ==
  \E pr \in IF action = "acquire" THEN Priorities[i] ELSE {"interactive"},
     s \in Samples[Executor[i]],
     expired \in SUBSET {p \in Uncertain : cache[Executor[i]][p] # 0} :
    LET c == Remembered(i, action, expired) IN
    /\ cache' = [cache EXCEPT ![Executor[i]] = c]
    /\ cmd' = [cmd EXCEPT ![i] = Issued(i, action, child, pr, s, c)]

Idle(i) ==
  /\ cmd[i].stage = "idle" /\ Executor[i] \in up
  /\ Cardinality({j \in Engine : cmd[j].stage # "idle"}) < InFlight

\* One turn of the poll loop of acquireNativeCapacity.
Ask(i) == /\ Idle(i) /\ eng[i].at = "asking"
          /\ BeginCommand(i, "acquire", NoPid)
          /\ UNCHANGED <<proc, born, up, claims, ahead, eng>>

\* lease.bind(child.pid), issued as soon as the child is spawned.
Bind(i) == /\ Idle(i) /\ eng[i].at = "starting"
           /\ BeginCommand(i, "bind", eng[i].child)
           /\ UNCHANGED <<proc, born, up, claims, ahead, eng>>

\* lease.ready(), once the child answers and the bind was granted.
Ready(i) == /\ Idle(i) /\ eng[i].at = "bound"
            /\ BeginCommand(i, "ready", NoPid)
            /\ UNCHANGED <<proc, born, up, claims, ahead, eng>>

\* lease.shouldYield(), before a request and from the pressure probe.
Status(i) == /\ Idle(i) /\ eng[i].at = "running"
             /\ BeginCommand(i, "status", NoPid)
             /\ UNCHANGED <<proc, born, up, claims, ahead, eng>>

\* The OS probe answers; a pid may be unreadable, a dead one always is.
Probe(i) ==
  /\ cmd[i].stage = "probe"
  /\ \E refused \in SUBSET (cmd[i].unread \cap Uncertain) :
       LET read == [p \in Pid |-> IF p \in refused THEN 0 ELSE proc[p]] IN
       /\ cmd' = [cmd EXCEPT ![i].stage = "decide", ![i].unread = {},
                             ![i].ids = [p \in Pid |-> IF p \in cmd[i].unread
                                                       THEN read[p] ELSE cmd[i].ids[p]]]
       /\ cache' = [cache EXCEPT ![Executor[i]] =
                      [p \in Pid |-> IF p \in cmd[i].unread THEN read[p] ELSE @[p]]]
  /\ UNCHANGED <<proc, born, up, claims, ahead, eng>>

-----------------------------------------------------------------------------
(* The transaction.                                                        *)

SameProcess(p, stamp, ids) ==
  proc[p] # 0 /\ (stamp = 0 \/ ids[p] = 0 \/ ids[p] = stamp)

Stale(j, c, ids) ==
  \/ c.child # NoPid /\ ~SameProcess(c.child, c.childStamp, ids)
  \/ c.phase = "waiting" /\ ~SameProcess(Owner[j], c.ownerStamp, ids)

\* Mutant: stamps read for one row are compared with whatever is there now.
PrunedUnobserved(k) == {j \in Present(claims) : Stale(j, claims[j], k.ids)}

\* A claim another coordinator changed since the snapshot is never compared
\* with stamps that are older than it.
Pruned(k) == {j \in Present(claims) : claims[j] = k.observed[j] /\ Stale(j, claims[j], k.ids)}

AfterPrune(k) == [j \in Engine |-> IF j \in Pruned(k) THEN Absent ELSE claims[j]]

Enters(i, k) == k.action = "acquire" /\ AfterPrune(k)[i].phase = "absent"

TooLarge(i, s) == Bytes[i] > s.budget \/ GpuBytes[i] > s.gpuBudget

NewClaim(i, k) ==
  [phase |-> "waiting", priority |-> k.priority, bypasses |-> 0,
   ownerStamp |-> k.ids[Owner[i]], child |-> NoPid, childStamp |-> 0]

\* What the command itself changes in its own claim.
Revise(c, k) ==
  LET binds == k.action = "bind" /\ c.phase # "waiting" IN
  [c EXCEPT !.priority = IF k.action = "acquire" /\ k.priority = "interactive"
                         THEN "interactive" ELSE @,
            !.child = IF binds THEN k.child ELSE @,
            !.childStamp = IF binds THEN k.ids[k.child] ELSE @,
            !.phase = IF k.action = "ready" /\ @ = "loading" THEN "ready" ELSE @]

\* The table the decision is taken on: pruned, own row inserted or revised.
Table(i, k) ==
  [AfterPrune(k) EXCEPT ![i] = IF Enters(i, k) THEN NewClaim(i, k)
                               ELSE IF @.phase = "absent" THEN @ ELSE Revise(@, k)]

\* Rows keep their order; a new row goes last.
Order(T, entered) ==
  [j \in Engine |-> IF T[j].phase = "absent" THEN {}
                    ELSE IF j \in entered THEN Present(T) \ {j}
                    ELSE (ahead[j] \cap Present(T)) \ entered]

Entered(i, k) == IF Enters(i, k) THEN {i} ELSE {}

\* The head of the queue: an over-bypassed claim, else the oldest that is not
\* background, else the oldest.
Due(T) == {w \in Waiting(T) : T[w].bypasses >= MaxBypasses}
Foreground(T) == {w \in Waiting(T) : T[w].priority # "background"}
\* Mutant: a claim passed over for long gets no precedence.
CandidatesNotDue(T) == IF Foreground(T) # {} THEN Foreground(T) ELSE Waiting(T)

Candidates(T) == IF Due(T) # {} THEN Due(T)
                 ELSE IF Foreground(T) # {} THEN Foreground(T) ELSE Waiting(T)

First(j, T, ah) == j \in Candidates(T) /\ ah[j] \cap Candidates(T) = {}

\* Mutants: ready engines are forgotten; only the newcomer's own flag counts.
FitsLoadingOnly(i, T, s) ==
  /\ Bytes[i] + SumFunctionOnSet(Bytes, Loading(T)) <= s.budget
  /\ GpuBytes[i] + SumFunctionOnSet(GpuBytes, Loading(T)) <= s.gpuBudget
  /\ ~(GpuBytes[i] > 0 /\ \E a \in Loading(T) : GpuBytes[a] > 0 /\ (Exclusive[a] \/ Exclusive[i]))
FitsOwnFlag(i, T, s) ==
  /\ Bytes[i] + SumFunctionOnSet(Bytes, Active(T)) <= s.budget
  /\ GpuBytes[i] + SumFunctionOnSet(GpuBytes, Active(T)) <= s.gpuBudget
  /\ ~(GpuBytes[i] > 0 /\ Exclusive[i] /\ \E a \in Active(T) : GpuBytes[a] > 0)

Fits(i, T, s) ==
  /\ Bytes[i] + SumFunctionOnSet(Bytes, Active(T)) <= s.budget
  /\ GpuBytes[i] + SumFunctionOnSet(GpuBytes, Active(T)) <= s.gpuBudget
  /\ ~(GpuBytes[i] > 0 /\ \E a \in Active(T) : GpuBytes[a] > 0 /\ (Exclusive[a] \/ Exclusive[i]))

RamNeed == [i \in Engine |-> IF Bytes[i] > GpuBytes[i] THEN Bytes[i] - GpuBytes[i] ELSE 0]

\* Claims still loading count against the live reading: their bytes are not
\* allocated yet.
HostHasRoom(i, T, s) ==
  IF Discrete
  THEN /\ RamNeed[i] + SumFunctionOnSet(RamNeed, Loading(T)) <= s.ram
       /\ GpuBytes[i] + SumFunctionOnSet(GpuBytes, Loading(T)) <= s.gpu
  ELSE Bytes[i] + SumFunctionOnSet(Bytes, Loading(T)) <= s.bytes

\* Mutant: waits for engines that are ready instead of those that load.
LoadSlotAfterReady(i, T) ==
  ~Serialize \/ GpuBytes[i] = 0 \/ ~\E l \in Active(T) \ Loading(T) : GpuBytes[l] > 0

LoadSlot(i, T) ==
  ~Serialize \/ GpuBytes[i] = 0 \/ ~\E l \in Loading(T) : GpuBytes[l] > 0

Admits(i, T, ah, s) ==
  First(i, T, ah) /\ Fits(i, T, s) /\ HostHasRoom(i, T, s) /\ LoadSlot(i, T)

\* The grant: own starts loading, every older waiter was bypassed once more.
Granted(i, T, ah) ==
  [j \in Engine |->
     IF j = i THEN [T[j] EXCEPT !.phase = "loading"]
     ELSE IF j \in Waiting(T) \cap ah[i] THEN [T[j] EXCEPT !.bypasses = @ + 1]
     ELSE T[j]]

\* Mutant: only the live reading can ask a holder to yield, not the budget.
ReleaseOnPressureOnly(i, T, ah, s) ==
  /\ i \in Active(T)
  /\ \E f \in Engine :
       First(f, T, ah) /\ (Bytes[f] > s.bytes \/ (Discrete /\ GpuBytes[f] > s.gpu))

ReleaseRequested(i, T, ah, s) ==
  /\ i \in Active(T)
  /\ \E f \in Engine :
       /\ First(f, T, ah)
       /\ ~Fits(f, T, s) \/ Bytes[f] > s.bytes \/ (Discrete /\ GpuBytes[f] > s.gpu)

ExternalShortfall(i, T, ah, s) ==
  First(i, T, ah) /\ Fits(i, T, s) /\ ~HostHasRoom(i, T, s) /\ Active(T) = {}

-----------------------------------------------------------------------------
(* The caller reads the reply: the poll loop, bind, ready, shouldYield.     *)

GivesUp(e, short) == short /\ e.short >= ShortPolls

\* Mutant: the reply is taken for the supervisor's own state.
NextAtIsReply(e, reply, yield, short) == reply

NextAt(e, reply, yield, short) ==
  CASE e.at = "asking" -> IF reply = "granted" THEN "granted"
                          ELSE IF reply = "denied" \/ GivesUp(e, short) THEN "closing"
                          ELSE "asking"
    [] e.at = "cancelling" -> "closing"
    [] e.at = "starting" -> IF reply = "granted" THEN "bound" ELSE "stopping"
    [] e.at = "bound" -> IF reply = "granted" THEN "running" ELSE "stopping"
    [] e.at = "running" -> IF reply # "granted" \/ yield THEN "draining" ELSE "running"
    [] OTHER -> e.at

Heard(e, reply, yield, short) ==
  [e EXCEPT !.at = NextAt(e, reply, yield, short),
            !.short = IF e.at = "asking" /\ short /\ ~GivesUp(e, short) THEN @ + 1 ELSE 0]

Commit(i, T, ah) ==
  /\ claims' = T /\ ahead' = ah
  /\ cmd' = [cmd EXCEPT ![i] = NoCommand]
  /\ UNCHANGED <<proc, born, up, cache>>

\* A new request larger than the device: the transaction rolls back.
Deny(i) ==
  /\ cmd[i].stage = "decide" /\ Enters(i, cmd[i]) /\ TooLarge(i, cmd[i].sample)
  /\ Commit(i, claims, ahead)
  /\ eng' = [eng EXCEPT ![i] = Heard(@, "denied", FALSE, FALSE)]

\* Any other command whose claim is gone.
Missing(i) ==
  LET k == cmd[i]  T == Table(i, k) IN
  /\ k.stage = "decide" /\ T[i].phase = "absent"
  /\ Commit(i, T, Order(T, {}))
  /\ eng' = [eng EXCEPT ![i] = Heard(@, "released", FALSE, FALSE)]

\* The claim at the head of the queue gets its memory.
Grant(i) ==
  LET k == cmd[i]  T == Table(i, k)  ah == Order(T, Entered(i, k)) IN
  /\ k.stage = "decide" /\ ~(Enters(i, k) /\ TooLarge(i, k.sample))
  /\ Admits(i, T, ah, k.sample)
  /\ Commit(i, Granted(i, T, ah), ah)
  /\ eng' = [eng EXCEPT ![i] = Heard(@, "granted", FALSE, FALSE)]

\* The claim stays as it is: still waiting, or granted before.
Keep(i) ==
  LET k == cmd[i]  T == Table(i, k)  ah == Order(T, Entered(i, k)) IN
  /\ k.stage = "decide" /\ ~(Enters(i, k) /\ TooLarge(i, k.sample))
  /\ T[i].phase # "absent" /\ ~Admits(i, T, ah, k.sample)
  /\ Commit(i, T, ah)
  /\ eng' = [eng EXCEPT ![i] =
       Heard(@, IF T[i].phase = "waiting" THEN "waiting" ELSE "granted",
             ReleaseRequested(i, T, ah, k.sample), ExternalShortfall(i, T, ah, k.sample))]

\* release reads no stamps: liveness alone prunes, then the own row goes.
Release(i) ==
  LET dead == {j \in Present(claims) : Stale(j, claims[j], [p \in Pid |-> 0])}
      T == [j \in Engine |-> IF j \in dead \cup {i} THEN Absent ELSE claims[j]]
  IN /\ eng[i].at = "closing" /\ Executor[i] \in up
     /\ claims' = T /\ ahead' = Order(T, {})
     /\ eng' = [eng EXCEPT ![i] = Off]
     /\ UNCHANGED <<proc, born, up, cache, cmd>>

-----------------------------------------------------------------------------
(* The supervisor and its child.                                           *)

\* A fresh UUID: no row and no snapshot in flight names it.
Start(i) ==
  /\ eng[i].at = "off" \/ (eng[i].at = "gone" /\ ~EngineAlive(i))
  /\ Owner[i] \in up /\ cmd[i].stage = "idle" /\ claims[i].phase = "absent"
  /\ \A j \in Engine : cmd[j].observed[i].phase = "absent"
  /\ eng' = [eng EXCEPT ![i] = [Off EXCEPT !.at = "asking"]]
  /\ UNCHANGED <<proc, born, up, claims, ahead, cache, cmd>>

\* stop() while the reservation is awaited: the abort is seen at once between
\* polls, and only after the reply of a command in flight.
Cancel(i) ==
  /\ eng[i].at = "asking"
  /\ eng' = [eng EXCEPT ![i].at = IF cmd[i].stage = "idle" THEN "closing" ELSE "cancelling",
                        ![i].short = 0]
  /\ UNCHANGED <<proc, born, up, claims, ahead, cache, cmd>>

Spawn(i) ==
  /\ eng[i].at = "granted"
  /\ \E p \in Pid :
       /\ proc[p] = 0 /\ born[p] < Births
       /\ proc' = [proc EXCEPT ![p] = born[p] + 1]
       /\ born' = [born EXCEPT ![p] = @ + 1]
       /\ eng' = [eng EXCEPT ![i].at = "starting", ![i].child = p, ![i].stamp = born[p] + 1]
  /\ UNCHANGED <<up, claims, ahead, cache, cmd>>

SpawnFails(i) ==
  /\ eng[i].at = "granted"
  /\ eng' = [eng EXCEPT ![i].at = "closing"]
  /\ UNCHANGED <<proc, born, up, claims, ahead, cache, cmd>>

\* stop(), idle timeout, memory pressure, a failed start: the child is killed.
Stop(i) ==
  /\ eng[i].at \in {"starting", "bound", "running"}
  /\ eng' = [eng EXCEPT ![i].at = "stopping"]
  /\ UNCHANGED <<proc, born, up, claims, ahead, cache, cmd>>

\* yieldForWaitingCapacity: the requests in flight ended, the engine may stop.
Drained(i) ==
  /\ eng[i].at = "draining"
  /\ eng' = [eng EXCEPT ![i].at = "stopping"]
  /\ UNCHANGED <<proc, born, up, claims, ahead, cache, cmd>>

\* It gives up waiting for them after five minutes, and runs on.
YieldTimesOut(i) ==
  /\ eng[i].at = "draining"
  /\ eng' = [eng EXCEPT ![i].at = "running"]
  /\ UNCHANGED <<proc, born, up, claims, ahead, cache, cmd>>

\* The child exits: killed, crashed, or an orphan ending by itself.
EngineExits(i) ==
  /\ EngineAlive(i)
  /\ proc' = [proc EXCEPT ![eng[i].child] = 0]
  /\ UNCHANGED <<born, up, claims, ahead, cache, cmd, eng>>

\* handleExit: the lease is released whatever call is still in flight.
HandleExit(i) ==
  /\ eng[i].at \in {"starting", "bound", "running", "draining", "stopping"}
  /\ ~EngineAlive(i)
  /\ eng' = [eng EXCEPT ![i] = [Off EXCEPT !.at = "closing"]]
  /\ UNCHANGED <<proc, born, up, claims, ahead, cache, cmd>>

-----------------------------------------------------------------------------
(* Crashes, and the wire to the broker.                                    *)

\* What a supervisor does when a command fails before it is answered.
Failed(e) ==
  CASE e.at \in {"asking", "cancelling"} -> [e EXCEPT !.at = "closing", !.short = 0]
    [] e.at \in {"starting", "bound"} -> [e EXCEPT !.at = "stopping"]
    [] OTHER -> e

\* A daemon dies: its commands vanish between two of their steps, its engines
\* may survive it, and the supervisors it served see their call fail.
HomeCrash(h) ==
  /\ h \in up \cap Crashable
  /\ up' = up \ {h} /\ proc' = [proc EXCEPT ![h] = 0]
  /\ cache' = [cache EXCEPT ![h] = [p \in Pid |-> 0]]
  /\ cmd' = [i \in Engine |-> IF Executor[i] = h THEN NoCommand ELSE cmd[i]]
  /\ eng' = [i \in Engine |->
       IF Owner[i] = h /\ eng[i].at # "off" THEN [eng[i] EXCEPT !.at = "gone", !.short = 0]
       ELSE IF Executor[i] = h /\ cmd[i].stage # "idle" THEN Failed(eng[i])
       ELSE eng[i]]
  /\ UNCHANGED <<born, claims, ahead>>

HomeRestart(h) ==
  /\ h \notin up /\ proc[h] = 0 /\ born[h] < Births
  /\ up' = up \cup {h}
  /\ proc' = [proc EXCEPT ![h] = born[h] + 1] /\ born' = [born EXCEPT ![h] = @ + 1]
  /\ UNCHANGED <<claims, ahead, cache, cmd, eng>>

Brokered(i) == Executor[i] # Owner[i]

\* AbortSignal.timeout(5_000): the caller gives up, the broker does not know.
TimeOut(i) ==
  /\ Brokered(i) /\ cmd[i].stage # "idle"
  /\ eng[i].at \in {"asking", "cancelling", "starting", "bound"}
  /\ eng' = [eng EXCEPT ![i] = Failed(@)]
  /\ UNCHANGED <<proc, born, up, claims, ahead, cache, cmd>>

\* The broker is down: the call fails; a failed release is only logged.
Unreachable(i) ==
  /\ Executor[i] \notin up /\ Owner[i] \in up /\ cmd[i].stage = "idle"
  /\ eng[i].at \in {"asking", "starting", "bound", "closing"}
  /\ eng' = [eng EXCEPT ![i] = IF @.at = "closing" THEN Off ELSE Failed(@)]
  /\ UNCHANGED <<proc, born, up, claims, ahead, cache, cmd>>

-----------------------------------------------------------------------------

Transact(i) == Deny(i) \/ Missing(i) \/ Grant(i) \/ Keep(i)

Next ==
  \/ \E i \in Engine :
       \/ Ask(i) \/ Bind(i) \/ Ready(i) \/ Status(i) \/ Probe(i)
       \/ Deny(i) \/ Missing(i) \/ Grant(i) \/ Keep(i) \/ Release(i)
       \/ Start(i) \/ Cancel(i) \/ Spawn(i) \/ SpawnFails(i) \/ Stop(i)
       \/ Drained(i) \/ YieldTimesOut(i) \/ EngineExits(i) \/ HandleExit(i)
       \/ TimeOut(i) \/ Unreachable(i)
  \/ \E h \in Home : HomeCrash(h) \/ HomeRestart(h)

Spec == Init /\ [][Next]_vars

-----------------------------------------------------------------------------
(* Fairness: timers poll, the OS answers, a killed child dies and its exit  *)
(* is handled. Nobody is obliged to start, to cancel or to crash.           *)

\* The next command of a supervisor; the bound on commands in flight may delay it
\* again and again, but starves no timer.
Commands(i) == Ask(i) \/ Bind(i) \/ Ready(i) \/ Status(i)

Answers(i) == Probe(i) \/ Transact(i)

Proceeds(i) ==
  \/ Spawn(i) \/ SpawnFails(i) \/ Release(i) \/ HandleExit(i)
  \/ eng[i].at = "stopping" /\ EngineExits(i)

\* Requests end and no new one is admitted while the engine is asked to yield,
\* so of many waits for them one succeeds.
FairSpec ==
  /\ Spec
  /\ \A i \in Engine :
       /\ SF_vars(Commands(i)) /\ WF_vars(Answers(i)) /\ WF_vars(Proceeds(i))
       /\ SF_vars(Drained(i))

-----------------------------------------------------------------------------
(* Properties.                                                             *)

\* An engine that declared itself exclusive never shares the accelerator with
\* another granted claim (fits, device-capacity-ledger.ts:213-219).
GpuExclusive ==
  \A i, j \in Active(claims) :
    i # j /\ GpuBytes[i] > 0 /\ GpuBytes[j] > 0 => ~Exclusive[i]

\* On macOS at most one claim loads on the GPU at a time, whatever order
\* grants, readiness and exits take (loadSlot, device-capacity-ledger.ts:234).
OneGpuLoad ==
  Serialize => \A i, j \in Loading(claims) : GpuBytes[i] > 0 /\ GpuBytes[j] > 0 => i = j

\* A limit can shrink under granted engines and differs between the daemons of one
\* table, so the sum of the grants may exceed it; but no step adds to them beyond the
\* limits its daemon read, whatever others were granted, bound, pruned or freed since
\* (device-capacity.ts:256, config.ts:540: "A shrink never evicts").
GrantsFit ==
  [][\A i \in Active(claims') \ Active(claims) :
       /\ SumFunctionOnSet(Bytes, Active(claims')) <= cmd[i].sample.budget
       /\ SumFunctionOnSet(GpuBytes, Active(claims')) <= cmd[i].sample.gpuBudget]_vars

\* The memory of an engine that runs is always accounted for: whatever was
\* cached, probed, pruned, crashed, restarted or reborn at its pid, the claim
\* of a live engine stays granted until the engine is dead.
LiveEngineReserved ==
  \A i \in Engine : EngineAlive(i) => i \in Active(claims)

\* A request is never overtaken more than MaxBypasses times
\* ("after four newer admissions bypass an older claim, that claim takes
\* precedence").
BypassBound == \A i \in Engine : claims[i].bypasses <= MaxBypasses

\* Two kinds of request can wait for ever at the head of the queue: one above a limit
\* that was lowered after it queued, since only a newcomer is denied for it
\* (device-capacity-ledger.ts:178); and one for which a resident engine finds room by
\* what its own daemon reads, since it is then not asked to yield (:259-265). The
\* daemons' limits may differ, and RAM apart from the card is not looked at there.
Unheeded(f) ==
  /\ First(f, claims, ahead)
  /\ \/ cmd[f].stage = "decide" /\ TooLarge(f, cmd[f].sample)
     \/ \E h \in Active(claims) :
          /\ cmd[h].stage = "decide" /\ cmd[h].action = "status" /\ Fits(f, claims, cmd[h].sample)
          /\ Bytes[f] <= cmd[h].sample.bytes
          /\ Discrete => GpuBytes[f] <= cmd[h].sample.gpu

\* A request that ends while it queues: another may have waited behind it, and only
\* grants count as bypasses.
Withdrawn(f) == eng[f].at = "closing" /\ claims[f].phase = "waiting"

\* Every request that waits for memory is settled (granted, refused or cancelled) when
\* the engines in its way finish their requests, however many grants to others come
\* before, unless over and over a request of those two kinds is met at the head or
\* requests are withdrawn.
RequestSettles ==
  \A i \in Engine :
    eng[i].at = "asking"
      ~> eng[i].at # "asking" \/ \E f \in Engine : Unheeded(f) \/ Withdrawn(f)

-----------------------------------------------------------------------------
(* The inductive invariant behind LiveEngineReserved. Stamps only grow, so  *)
(* whatever is remembered of a pid is at most its last birth; a stamp read  *)
(* for a claim of the snapshot is never older than the claim's own; hence a *)
(* stamp that disagrees proves the recorded process dead.                   *)

ProcOK == \A p \in Pid : proc[p] \in {0, born[p]}

RecordedOK(T) ==
  \A j \in Engine : T[j].child # NoPid => T[j].childStamp <= born[T[j].child]

RememberedOK ==
  /\ RecordedOK(claims) /\ \A i \in Engine : RecordedOK(cmd[i].observed)
  /\ \A i \in Engine, p \in Pid : cmd[i].ids[p] <= born[p]
  /\ \A h \in Home, p \in Pid : cache[h][p] <= born[p]

ChildlessAt == {"off", "asking", "cancelling", "granted", "closing"}

EngOK ==
  \A i \in Engine :
    /\ eng[i].at \in ChildlessAt => eng[i].child = NoPid
    /\ eng[i].at = "starting" => eng[i].child # NoPid
    /\ eng[i].child # NoPid => eng[i].stamp # 0 /\ eng[i].stamp <= born[eng[i].child]

ClaimOK ==
  \A i \in Engine :
    /\ claims[i].phase = "absent" => claims[i] = Absent
    /\ eng[i].at \in {"asking", "cancelling", "granted"} => claims[i].child = NoPid
    /\ eng[i].at = "granted" => i \in Active(claims)
    /\ EngineAlive(i) => /\ i \in Active(claims)
                         /\ claims[i].child \in {NoPid, eng[i].child}
                         /\ claims[i].child # NoPid => claims[i].childStamp \in {0, eng[i].stamp}

BindOK ==
  \A i \in Engine :
    cmd[i].action = "bind" =>
      /\ cmd[i].child \in Pid
      /\ eng[i].child # NoPid =>
           /\ cmd[i].child = eng[i].child
           /\ cmd[i].ids[cmd[i].child] = 0 \/ cmd[i].ids[cmd[i].child] >= eng[i].stamp

CommandFine(i) ==
  /\ cmd[i].stage = "idle" => cmd[i] = NoCommand
  /\ cmd[i].stage # "idle" => eng[i].at # "granted"
  /\ cmd[i].stage # "idle" /\ eng[i].at \in {"asking", "cancelling"} => cmd[i].action = "acquire"
  /\ \A j \in Engine :
       LET c == cmd[i].observed[j] IN
       c.child # NoPid /\ c.childStamp # 0 /\ cmd[i].ids[c.child] # 0
         => cmd[i].ids[c.child] >= c.childStamp

CommandOK == \A i \in Engine : CommandFine(i)

IInv == TypeOK /\ ProcOK /\ RememberedOK /\ EngOK /\ ClaimOK /\ BindOK /\ CommandOK

=============================================================================
