# Formal models of gezel

TLA+ models of the parts of gezel (the product daemon `gezeld`, the machine engine
broker and the code they share under `src/packages/`) in which several actors race:
the ledger that admits native engines to memory, the queue in front of an engine, the
turns of a conversation, the lock that keeps two daemons off one home, the runner that
starts task work, the handover of engines to a machine's engine service, and the arbiter
of the graphics card. TLC checks
them on small instances; TLAPS proves every safety property that holds for every value
of the constants, and TLC alone checks the liveness properties. Paths below are relative to `src/packages/` unless they start with
`src/`.

## 1. The system

A daemon per home (`GEZEL_HOME`) serves clients (desktop app, CLI, web UI) over
loopback HTTPS. It keeps sessions, tasks and configuration on disk, runs turns of
language models through providers, and starts native engines (llama.cpp and others) as
child processes. An optional machine-wide broker owns the engines for all daemons of a
machine (`src/docs/service-boundaries.md`). Everything in one daemon runs on one event
loop: code between two `await`s is atomic, everything else interleaves. Between
processes there are only the file system, a SQLite database, HTTP calls with timeouts,
and the process table of the operating system.

| component | state | operations | what is hard | what makes it correct |
|---|---|---|---|---|
| **Device capacity ledger** `inference/.../device-capacity-ledger.ts` | SQLite rows: phase, owner, child, birth stamps, bypass count | acquire, bind, ready, status, release; pruning | read, ask the OS, then read again; a row of a dead process; overtaking | no live engine unaccounted, limits kept at every grant, exclusivity, bounded overtaking |
| **Process identity cache** `process-identity.ts` | verified stamp per pid, with a time to live | lookup, probe, forget | pids are reused; a probe may fail | a reused pid never stands for its predecessor |
| **Admission loop and broker wire** `device-capacity.ts` | the lease of a supervisor | poll, bind, ready, yield check, release | caller times out while the broker commits; broker down | every wait settles; nothing is leaked |
| **Native engine supervisor** `supervisor.ts` | child process, state, lease | start, stop, yield, exit handling | exit during a call; crash of the daemon under its engine | engine and reservation live and die together |
| **Provider queue** `core/src/runtime/provider-queue.ts` | waiting and running turns, caps, clocks | acquire, release, cancel, move, pause, resume, narrow, yield, recheck | slot counting, lost wake-ups, starvation | counters agree, caps hold at every start, nobody idles or starves |
| **Session send queue** `core/src/runtime/session-send-queue.ts` | messages waiting for a conversation | admit, enqueueFront, dispatchNext, cancel, reject | two merge rules and an interrupt | order kept, senders not mixed, each caller answered once |
| **Turn slot of the chat manager** `service/src/chat/manager.ts` | who holds a session; stopped turns still unwinding | send, interrupt, stop, emergency stop, AI off, shutdown, adoption by a broker | late unwinds, awaits between two halves of an operation | one turn at a time; silence after a stop; no caller forgotten |
| **Runtime lock** `inference/src/runtime-lock.ts` | one file with an identity and an mtime | acquire, heartbeat, release | each file operation is separate; crashes, reused pids, containers | one daemon per home; a dead one is replaced |
| **Task runner** `service/src/tasks/runner.ts`, with the writes of `tasks/manager.ts` | handoffs that wait; which session serves which activation; tasks on disk | enqueue, tick (prune, snapshot, check, dispatch, leftovers), adopt an activation, rehydrate, restart | a pass over a snapshot across awaits; duplicates told by key; restart | no task falls out of all hands unnoticed, no dispatch is overwritten, a displaced worker stops |
| **Provider lifecycle, retirement gate** `inference/.../provider-lifecycle.ts`, `retirement-gate.ts` | one generation, its drain, its gate | lazy build, reset, retire, run an operation | builds, operations and failing shutdowns overlap | one provider at a time; work is not cut; nothing local once retired |
| **Machine engine bridge** `service/src/machine-engine/bridge.ts` with `providers/image/manager.ts` | adopted service, attempts to retire, retry timer | adopt, give up, retire, retry | attempts that fail in one part go on in the others | a retirement completes and is final |
| **GPU arbiter** `inference/.../gpu-arbiter.ts` | policy, one swap lease, who waits, evictors | acquire, acquireLease, release, break a stale lease, change the policy | returning through an await; leases told apart by kind of engine only | a lease ends for a reason and protects its holder; nobody waits for ever |
| Task manager and gates, scheduler, night shift | steps, schedules | gate, retry, fire | large; calendar | |
| Engine pool and router, device health, capacity planner | replicas, readings, sizes | route, cool down, plan | external readings | |
| Grants, diff packs, file store, Keurmeester, lookouts, connectors, memory | files and records | create, decide, apply, read | mostly data | |
| Keyed lock, bridge pool, CLI workers, terminal shells | promise chains, children | run, acquire, idle out | idle timer against a late call | |
| Pairing, desktop supervisor, HTTP routes, clients, UI | keys, windows, requests | | | |

How they interact: `chat/manager` takes the slot of a session, then a slot of the
provider queue, then a lease of the supervisor's engine; a supervisor asks the ledger,
in its own process or over HTTP in the broker. The broker's appearance makes the bridge
retire local engines, which waits for sessions to be torn down, which waits for turns.
An HTTP route changes the engagement mode and then empties the send queues. The ledger
tells a supervisor to yield, and the provider queue tells it when nothing runs. The task
runner starts sessions of the chat manager, asks the provider queue for room, and reads
what the task manager writes. A turn and a render each take a lease of the arbiter before
they launch or use an engine.

`PROJECT.json` lists each component with its files and status, and under `hazards`
each place in this code where something could go wrong that a test would hardly reach,
with the properties that cover it.

## 2. The modules

| module | models | checked by |
|---|---|---|
| `DeviceLedger` | ledger, identity cache, admission loop, supervisor, crashes, wire | `MCDeviceLedger` (3 runs), `DeviceLedgerProofs` |
| `ProviderQueue` | provider queue | `MCProviderQueue` (2 runs), `ProviderQueueProofs` |
| `SessionOrder` | the promise one conversation makes to its senders (abstract) | through `SessionTurns`, `SessionTurnsProofs` |
| `SessionTurns` | send queue, turn slot, teardown, engagement mode, shutdown | `MCSessionTurns`, `SessionTurnsProofs` |
| `RuntimeLock` | the lock file and the daemons around it | `MCRuntimeLock` (2 runs), `RuntimeLockProofs` |
| `TaskRunner` | the task runner and the writers of task state around it | `MCTaskRunner` (2 runs), `TaskRunnerProofs` |
| `ProviderLifecycle` | one lifecycle with its gate, used by anyone | through `EngineRetirement` |
| `EngineRetirement` | image manager, settings route and bridge around a lifecycle | `MCEngineRetirement`, `EngineRetirementProofs` |
| `GpuArbiter` | the arbiter and its callers | `MCGpuArbiter`, `GpuArbiterProofs` |
| `DataFacts` | nothing of the code: lemmas on sequences, flattening and sums over sets | its own proofs |

`DeviceLedger` composes four components in one module because their steps share the
process table and the ledger rows. Definitions named in a comment as mutants are
plausible bugs of the definition that follows; each shows that a property can fail.

### DeviceLedger

A command is three actions, because the code awaits twice: `Ask`, `Bind`, `Ready`,
`Status` read a snapshot of the table and consult the cache; `Probe` asks
the OS for the birth stamps; `Deny`, `Missing`, `Grant`, `Keep` are the transaction,
which reads the table again, prunes, inserts or revises the own row and decides.
`Release` is a single transaction. The supervisor is a little state machine (`At`):
`asking`, `granted`, `starting`, `bound`, `running`, `draining`, `stopping`, `closing`,
and `gone` when its daemon died under it. `HomeCrash` removes a daemon between any two
steps, its engines surviving it; `HomeRestart` starts it again; `TimeOut` and
`Unreachable` are the wire. Exits of children are separate from their handling.

Abstractions. A birth stamp is the number of the birth of its pid, so stamps are
compared as in the code but not formatted. A supervisor has one reservation at a time:
a new acquire that overlaps the previous, asynchronous release is sequentialised.
Readings always succeed. Every command takes its own reading, of the free memory and of
the limits, from the `Samples` of the daemon that serves it, and carries it to its
transaction, since `sampleDeviceCapacity` reads the measured budget and the setting
`localEngineMemoryGb` again each time: limits shrink and grow while engines run, and
daemons that share the ledger may have different ones. How large a working set is,
restart budgets, health checks and log parsing are left out. `Births`, `InFlight`,
`Uncertain` and `Crashable` bound the births of a pid, commands in flight, pids that may
be unreadable, and daemons that crash.

### ProviderQueue

Every method is synchronous, so every method is one action that changes the queue and
drains it (`Settle`, `Drained`). Waiting turns are kept per lane in the order of
`enqueuedAt`, the order the dispatcher reads; `movePending` swaps ages as the code does.
Time is counted in ticks, and each clock saturates where the code compares it.

Abstractions. Timestamps of a lane are distinct. The limit of 64 remembered contexts
is ignored. Ambient turns are background turns, as all callers make them. Read-only
methods (`describe`, `hasCapacity`, notices) have no action.

### SessionTurns and SessionOrder

One conversation; conversations share nothing but the mode and the shutdown. An action
is what runs between two awaits: `Send` with `admit` and the synchronous claim of the
slot; `Interrupt` and, after its cancel returned, `InterruptResumes`; `StopTurn`, which
gives the slot up at once while the turn unwinds; `TurnEnds` and `TurnEndsLate`, which
are `finishSessionTurn` with the slot free, or taken by a successor; the teardown asked
for by a broker adoption; the engagement switch, whose two halves (`TurnOff`,
`SweepQueue`) have an await between them; and the two halves of shutdown.

Abstractions. Text, its editing and events are left out; `update` changes text only.
Each message is sent once. Whether a merged entry has a bubble follows from its head.
`Solo` is empty in the runs, so the guards on file-turn intents are written but not
exercised. One request that turns AI off is under way at a time. A broker is adopted
once. Archive and delete are `RejectQueue`; a retry is another `Send`. Waiters are
answered in the step that ends their turn. `Reclaim` stutters unless the slot was lost.

`SessionOrder` states what that must amount to: senders stand in a line, one turn at a
time answers one or more from its head, only an interrupt goes first, a stopped turn
may unwind beside its successor, and senders who stand together may be taken out unserved. `Order` in `SessionTurns` is the refinement mapping:
the line is the flattened queue, those being answered are the messages of the turn
that holds the slot.

### RuntimeLock

Each file operation is an action: `Create` or `Exists` (open with `wx`), `Fill` (the
identity is written), `Judge` (the file is read and its holder judged), `Look`,
`FoundDead`, `FoundAlive` (the watch over the mtime of a holder in another pid
namespace), `Remove`, `BeatReads` and `BeatTouches` (the heartbeat), and the three
steps of `release`. `Crash` may happen anywhere; `PidReused` gives a dead holder's pid
to an unrelated process.

Abstractions. A process starts once: a restart is another member of `Daemon`. The
write of the identity is atomic (the file is seen empty or full), and goes to the file
that was created, so it is lost if that was replaced. The mtime is modelled by whether
it moved under a watcher's eyes. Timing assumption: a live daemon touches its file
within the stale bound (10 s against 40 s), so only a dead one's file ages out;
suspended processes and clocks that jump are outside the model. `Ticks` are the
namespaces whose processes have start ticks (Linux, `lock-identity.ts:50-67`); a reused
pid is told from the dead holder only where both the file and the reader have them. Read errors other than
a missing file, and records of old versions without an identity, are left out. A holder
whose pid equals the reader's own counts as stale in the code and here (reused pid).

### TaskRunner

A tick is many actions: `Tick` lists the tracked dispatches; `PruneReads` takes one of
them and waits for its task, `PruneJudges` judges the copy it took (`PruneFails` when the
task cannot be read); `Snapshot` copies the queue, `Check` reads the task of the next
handoff and drops it or lets it go on (`Unread` and `Unprepared` are its failures); the
dispatch loop goes over what was let through (`Hold`, `Defers`, `Unresolved`, `Dispatch`,
`DispatchFails`), and `PassEnds` replaces the queue by what the pass kept and what arrived
meanwhile. Between any two of them a person pauses (`Pause`), resumes (`Resume`, which
rereads the task later: `Rescan`), completes or rejects a step (`Reactivate`) or has tasks
looked at again (`Rehydrate`); the hook of an activation enqueues it (`Enqueue`) or returns
early (`Declines`), and so does a rehydration (`PassesOver`); a worker completes, moves on,
loops or is sent to another step by a gate (`Complete`, `Advance`, `Loop`, `Reroute`); the
daemon dies (`Crash`) and scans the disk at boot (`BootScan`). An activation timestamp is a
number, so two activations of a task never coincide.

A worker is a session, and sessions outlive steps. `Dispatch` opens a new one, or takes one
that serves or served the task (`Carriers`): the session of the step, which a resume binds
to the step's newest activation at once (`chat/manager.ts:4228-4257`, 4345), or that of
another step (4204-4227, 4258-4279). The first message is a send of its own (`sends`). One
that goes to the session of another step is parked until that session is idle, and binds it
when it starts (`repins`); `Starts` asks nobody whether the task is still to run. Which of
the possible sessions the code takes depends on transcripts and models and is left open, so
every choice it may make is among those of the model. `SendFails` is a session that is gone
by then.

`Loop` and `Reroute` take the write of the new activation and the hook that moves a dispatch
to it (`Adopts`) in one step: the hook runs in the continuation of the write
(`tasks/manager.ts:3681-3693`), while whoever wants to read the task waits for the same
lock and then for a `stat` of its file (`task-files-store.ts:221-280`,
`file-snapshot-cache.ts:21`), so nobody sees the one without the other. What they can
overtake is the pruning, which took its copy of the dispatch before. `Reroute` also has the
step handed off, and the handoff meets the dispatch it has just moved: `Mistaken`.
`Reactivate` adopts nothing, as the hook is only called for a turn that owns the recovery
(3684).

Abstractions. One provider serves all workers. Their turns count against its width, and
people's turns may take what is left at each look (`Hold`). The engagement mode is the
choice of `Rests`. Reading a task and enqueueing its step in a rehydration are one step, and
so are the check and the pause after a failed handoff. A session that nobody refers to any
more is as good as a new one, and two in use are never named by one activation. A step keeps
its gezel, so every dispatch of it is one that may be adopted; when several adopt one
activation the last wins, as in the code. Why a handoff waits (night shift, quota, siblings
of a fan-out, a provider that would not start) is the choice of `Defers`, and why a hook
returns early that of `Declines`. The night batch is not reordered. A turn is one turn,
however often its message is retried. Left out: deleted tasks, steps and gezels, and a
pause or a cancel that fails.

### ProviderLifecycle and EngineRetirement

`ProviderLifecycle` is the class with its gate and any callers: `Current` is one call up
to its first await, from which a request comes back with the provider (`has`) or to ask
again (`again`); `Operate` tries an operation through the gate at any later time; `Drain`
closes a generation, and `DrainGoesOn` and `DrainEnds` are the awaits of its shutdown. A
generation is named by the request whose call built it. `EngineRetirement` extends it:
the image manager reads the configuration, awaits, and then routes or calls `Current`;
the settings route writes the configuration and resets later; the bridge adopts the
engine service, starts attempts to retire, and retries them by timer.

Abstractions. The other parts of an attempt (chat, video, speech, the on-device image
lifecycle) are one that fails or settles. That chat's part always settles is assumed,
though section 3 describes a teardown that does not. `stop` of the bridge, discovery and
certificates are left out. `Edits`, `Failures` and `Flips` bound changes of the
settings, failures, and changes of the service's role.

### GpuArbiter

A caller is a job that calls once: a render takes a lease, a chat turn takes a lease and
then asks for the card, a cache warm-up only asks. Each action runs to the next await:
`Looks` evaluates the loop (`Parks`, `Takes`, `Coexists` or `Passes`), `TimerFires` is
the timed wake, `Evicts` stops one engine, `Admitted` and `Refused` are the health gate,
`Ends` is the release, or its loss. The code keeps of a lease the kind of engine and the
time; `granted`, `ahead` and `lost` are history, only there to state properties.

Abstractions. Whether an engine runs is not kept: evicting it ends the work of whoever
uses it. The health gate admits or refuses; how it judges is left out. The time of a
lease is whether it is older than the bound (`Ages`), which may come at any moment: the
lease is timed by the wall clock, the work by a clock that stops while the machine
sleeps. `Flips`, `Churn` and `Leaks` bound policy changes, engines that come or go, and
leases that are never released.

## 3. The runs

All bounds are in the `.cfg` files, all definitions in the `MC` modules.

| run | expected | instance | shows |
|---|---|---|---|
| `ledger_queue` | pass | two daemons with limits of their own, one of which shrinks below its engine and grows again; three engines (one large and exclusive, one in the background), readings that flicker, serialised loads, one overtaking | `GrantsFit`, `GpuExclusive`, `OneGpuLoad`, `BypassBound` |
| `ledger_processes` | pass | two daemons, one engine in each, one pid for all children, each pid born twice, the broker crashes, stamps unreadable, stale or expired | `LiveEngineReserved` |
| `ledger_live` | pass | a card apart from RAM, each of which may be short; a limit under which both engines fit, one under which they do not, and one under which the large engine never fits; that engine in the background, the small one asking again and again; fair | `RequestSettles` |
| `queue_slots` | pass | two people, a task step, housekeeping; three slots narrowed to two; overflow, pause | `SlotsAgree`, `StartsWithinCaps`, `NoIdleSlot`, `AmbientKeepsHeadroom`, `StarvedFirst` |
| `queue_fair` | pass | two turns of a warm conversation, one cold, housekeeping; yielding on | `InteractiveServed`, `AmbientWakes` |
| `turns_order` | pass | two nudges (one may interrupt), two notifications (one hidden) | `OneTurn`, `CallersAccounted`, `OneVoice`, `StaysQuiet`, `ImplementsOrder`, `SenderAnswered` |
| `lock_settled` | pass | three daemons, two namespaces, one with start ticks and one without, two attempts | `SettledKept`, `DeadReplaced` |
| `lock_exclusive` | violation | two daemons, three attempts | two daemons hold one home |
| `runner_handoffs` | pass | two tasks of two steps, one of them activated twice and in people's hands, one slot, one resume at boot, one upset (pause, reactivation, rehydration, failure or death) | `KeptInHand`, `DispatchKept`, `HandoffServed`, `DisplacedStops` |
| `runner_resume` | violation | two tasks, one of them in people's hands | a resume during a pass can leave an active task to nobody |
| `engine_adoption` | pass | two requests, one settings change, one failure, one change of role | `OneProvider`, `WorkFinishes`, `NoLocalStart`, `GoneForGood`, `RetirementCompletes` |
| `arbiter_swap` | pass | two turns on two models, one of them pooled, and a render; one policy change, one engine that comes or goes, one leak | `LeaseKept`, `LeaseProtects`, `Served` |

Why the bounds are enough for the interesting cases: overtaking needs three requests
and a bound of one bypass; every stale-stamp scenario needs one pid with two births,
two commands interleaved and one crash; a merge of messages needs two of a
kind, and a wrong merge a third of another kind; a queue of four covers an interrupt
ahead of waiting messages; an old daemon, a reader and an overtaker are three. The
thresholds (`MaxBypasses` 4, polls 40, windows in milliseconds) are shrunk to one or
two, since only the order of crossing them matters. `Attempts` is 2 instead of 3 in
`lock_settled` so that three daemons can exhaust them. For the runner, one task
activated twice has a displaced worker, its successor, a parked send and a handoff in the
queue at once, and the second task contends with it for the one slot. Checked once by hand,
to keep the runs short: one task activated three times (a gate that comes back
to a step whose dispatch is tracked) and one with two upsets, for all properties (51,000 and
38,000 states); two tasks with two upsets, and two with three activations, for the safety
properties (1.0 and 0.9 million states). For the lifecycle two requests are enough for a
late build, a caller that was sent back and a drain in between; one failure separates the
first attempt from its retry. For the arbiter two holders of one kind of engine and one
of the other are what the comparison by kind can confuse; three changes of the policy, a third
turn, and a warm-up were checked once by hand (1 to 5 million states).

`CHECK_DEADLOCK FALSE` is used only where the modelled system really stops: in
`ledger_processes` the bound on births ends it; a
conversation in which every message was sent, in a daemon that shut down, is over;
daemons that started once and left do not return; requests, jobs and tasks end
(`engine_adoption`, `arbiter_swap`). The queue, the runner and the other ledger runs are
checked for deadlock.

### Fairness

- Ledger: every supervisor issues its next command again and again although the bound on
  commands in flight may delay it (strong on `Commands`), the OS answers and transactions
  are decided (weak on `Answers`), a killed child dies, its exit is handled and a spawn
  returns (weak on `Proceeds`). `Drained` is strongly fair, because an engine that was
  asked to yield admits no new request, and the ones in flight have timeouts, while it
  can give up waiting and be asked again (`YieldTimesOut`). Nobody is obliged to start,
  cancel or crash.
- Queue: turns end (`Release`), the clock ticks, the timer fires (weak). Asking,
  yielding and cancelling are never due. The fair specification leaves out what a
  person does by hand (reordering, pausing) and narrowing: nobody is served for as
  long as a person holds the queue.
- Turns: turns end (they have timeouts), an awaited cancel and a teardown return (weak).
- Lock: file operations return and the heartbeat timer fires (weak); no crash is due.
- Runner: the ticker ticks and a pass goes on, reads and calls return, hooks run, a message
  starts its turn once its session is idle, and a turn ends, having timeouts (weak). Only a
  turn that `Lingers` need not end: its session serves a paused or displaced activation and
  nobody tracks a dispatch of it that is in place. The mode allows task work again and again
  (strong on `Snapshot`, which the mode gates), and so do the other conditions under which a
  handoff waits (strong on `Check` and `Progresses`, the step in which a handoff is first held or
  dispatched, or is dispatched past its bound). People, failures and deaths are never due, nor
  is the end of a displaced worker: that it stops is what `DisplacedStops` shows.
- Engine handover: builds, operations, drains and attempts settle, the retry timer fires
  (weak). Requests, settings changes and discoveries are never due.
- Arbiter: continuations run, timers fire, engines stop, the gate answers, work ends, and
  time passes (weak); a release may be lost. First calls and policy changes are never due.

### What the violations are

Each is described under `findings` with the line of the code and the text it contradicts.

1. `lock_exclusive`: the lock file is created empty and filled by a second call. A daemon
   that reads it in between finds no holder, takes it for stale and removes it; both hold
   the home. Two daemons that judged the same dead holder can also remove each other's
   fresh file. What does hold is `SettledKept`, and exclusivity as
   long as nobody removes the file of a live daemon (`ExclusiveWhileRightful`), both below.
2. `runner_resume`: a pass drops the handoff of a paused task but leaves it in the queue
   until it ends. A resume in between is taken for a duplicate of it and erased with it.
   The task is active, and nothing looks at it again until a restart, another resume, or
   the sweep for stuck steps. `KeptInHand` says in which other ways a task can fall out of
   all hands (`GivesUp`, `Mistaken`), each of them a line of the code.

### Divergences without a run

Met while modelling, and derivable from the modules; none is a run of its own.

- `src/docs/native-resource-admission.md:53-54` says that admission waits expire after
  five minutes. The poll loop gives up only on an external shortfall
  (`device-capacity.ts:523-529`, as its comment at 36 intends): behind an engine that
  stays busy a request waits for ever. `RequestSettles` needs the strong fairness of
  `Drained` for that reason.
- Two kinds of request wait at the head of the ledger's queue whatever the engines in their
  way do, the exceptions `Unheeded` of `RequestSettles`. A limit that is lowered denies a
  newcomer only (`device-capacity-ledger.ts:178-183`): who queued before keeps the head of the
  queue and is neither denied nor granted while the limit lasts. And an idle engine is asked to
  yield only for what is short by its own daemon's reading of the memory and the limits
  (256-265), while a grant also needs the RAM beside a discrete card (228-232), and the
  daemon of the waiter may have a lower limit than that of the engine.
- Only a grant counts as a bypass (239-243), so requests that enter and are withdrawn may hold
  the head again and again: `Withdrawn`.
- A pid that was reused keeps a home closed where there are no start ticks (macOS and Windows,
  `lock-identity.ts:40-41`): the next daemon is refused for as long as that process lives
  (`runtime-lock.ts:153-160`), although 113-115 say that a hard crash leaves a stale lock the
  next start reclaims. `DeadReplaced` holds but for `Masked`, which is this case.
- Line 59 of that document says that failed spawns release their reservations. A release
  that fails while the broker is down is logged and forgotten (`supervisor.ts:1539-1545`);
  the row stays granted while its owner lives.
- `provider-queue.ts:926-930` says that a yielding turn queues behind the waiter it
  yields to. When the waiter's lane is full, or affinity prefers another turn, it gets
  its own slot back first (`Yield` drains twice).
- An emergency stop clears `afterSessionIdle` (`manager.ts:3094`), and with it a teardown
  parked there together with the resolve that broker adoption awaits
  (`manager.ts:2091-2098`): `teardown` stays `dropped`, the adoption never finishes, and the
  bridge never refreshes again.
- A job that waited for a lease and is let in because the policy became coexist returns at
  `gpu-arbiter.ts:194` without asking the health gate, which lines 59-63 say is consulted
  for every slot regardless of the policy (`Coexists`).
- The breaker compares wall-clock times (`gpu-arbiter.ts:122`), while the timeouts of the
  work count awake time (`core/src/suspend-clock.ts`): a machine that sleeps for the length
  of the bound breaks the lease of a job that is alive, which lines 76-80 take for
  impossible. A late release then frees the lease of a successor of the same kind; the
  exceptions of `LeaseKept` and `LeaseProtects` are these.
- `image/manager.ts:144`: `current` may build from a configuration it read before the
  settings changed and the provider was reset. If the person moves from the local engine
  to a cloud while the shutdown of the old engine fails, an attempt to retire that reads
  the new configuration completes while the old engine is up until the next request.
- A task that is paused between its check and its dispatch, or while the first message is
  parked behind another turn, gets its worker all the same (`chat/manager.ts:4460-4530` never
  looks at the task); a later tick cancels the turn if the dispatch is still tracked then. If
  the tick pruned it while the message was parked, nothing does: `Lingers`.
- A gate that routes to another step whose earlier dispatch is still tracked moves that
  dispatch to the new activation (`product-service.ts:1008-1031`), then enqueues the handoff,
  which the check drops as dispatched already (`runner.ts:943`), though the session of that
  dispatch works elsewhere or not at all. The comment at `tasks/manager.ts:3705-3709` says that
  the target needs its own dispatch. `KeptInHand` and `HandoffServed` hold but for `Mistaken`.
- A dispatch is tracked under the activation of its handoff, but binds the session to the
  newest activation of the step (`chat/manager.ts:4154-4156`); and a parked message that binds
  its session anew takes with it what another handoff of the step left waiting there
  (`Overrides`).
- `runner.ts:1279-1283` lists whom the pruning stops: workers of tasks that were paused,
  canceled or deleted, or of a step that another dispatch serves now. It also stops others. It
  judges the copy of a dispatch that it took before it read the task (1261-1264): if the step
  looped meanwhile, the dispatch has moved to the new activation and the copy looks stale. A
  resumed session has two dispatches, the older of which is stale. And a task that cannot be
  read counts as deleted (1257). In each case a worker that drives its own task on is stopped
  and the task stays active; the model has all three, and no property denies them.

Two simplifications are known to differ from the code in an interleaving that no property
tells apart. The arbiter's loop over its evictors visits an engine that is registered again
while another is evicted (a live `Map`), where `GpuArbiter` skips what it has `seen`. And
`remote` of `ProviderLifecycle` is both the bridge's `current` and the registry's list, which
differ for one await when the service is given up (`machine-engine/bridge.ts:145-147`).

## 4. The proofs

`DeviceLedgerProofs`, for any engines, daemons, pids, readings and bounds
(`ConstantsAssumption`):

- `TypeCorrect`: `TypeOK` is an invariant.
- `EngineReserved`: `LiveEngineReserved` is an invariant. The inductive invariant `IInv`
  says: what runs at a pid is its last birth (`ProcOK`); whatever stamp is recorded,
  cached or carried by a command is at most the last birth of its pid (`RememberedOK`);
  a stamp a command carries for the child of a row in its snapshot is not older than
  that row's (`CommandFine`); a bind carries the stamp of the child it binds, or a later
  one or none (`BindOK`); and the engine's claim is granted while it lives (`ClaimOK`). The
  property alone is not inductive: a row may only be pruned when its stamp disagrees
  with the one the command read, so one has to know that disagreement means death.
- `GpuExclusiveHolds`, `OneGpuLoadHolds`, `BypassesBounded`: the three admission rules,
  inductive with the type invariant, since only a grant adds an active row.
- `GrantsAlwaysFit`: `GrantsFit`, with the sum over the granted claims taken as the code's
  `reduce` takes it. A grant adds the newcomer's bytes to the sum that it compared with its own
  reading (`SumSteps`); no other step makes a claim active. That the sum itself stays below a
  limit is no invariant, since the limit may shrink under granted engines.

`ProviderQueueProofs` (`QueueAssumption`): `TypeCorrect`, `CountersAgree`, `NoWakeUpLost`,
`StartsFit`, `StarvedGoFirst` and `HeadroomKept`, for any turns, caps and windows. `Agree`
holds between any two updates: the counters are the turns that run, in total and by lane,
nobody runs and waits, each lane holds its own turns once, one overflow at most. The
invariant of the queue at rest adds that nobody waits who could run (`Resting`). A drain is
a loop, and all that is proved of it goes through two facts: `LoopFacts`, that one turn of
the loop starts one waiting turn that fits (`Progress`) or changes nothing because nobody
can start, and `DrainStays`, that what every such turn of the loop keeps holds after the
drain. Since each turn of the loop that changes anything shortens the queue, the loop has
come to rest after as many as there were waiting. The three action properties relate the
queue before a call with the queue after it, with several starts in between, so each has an
invariant of the loop: `InTurn` (those that began fit, and passed nobody starved), `Calm`
(ambient work that began left room or waited out the window), and for a yield `Contended`,
since the turn that yields is counted out, others in, and perhaps itself again.

`SessionTurnsProofs` (`TurnsAssumption`): `TypeCorrect`, `OneTurnAlways`, `QuietAlways`,
`CallersAlwaysAccounted`, `OneVoiceAlways` and `ConversationImplementsOrder`.
`StaysQuiet` needs `OneTurn`: that after a sweep nothing is in the queue is kept because
only a send or a turn changes it, and that after shutdown no turn holds the slot is kept
because a turn that was not stopped would be the one in the slot. The other four are proved
together, helper by helper: each of admitting, putting first, dispatching, returning,
cancelling and rejecting takes a conversation in which every message is in one place and no
entry mixes senders (`Kept`) to another such, and what it does to the flattened queue, the
turn in the slot, the stopped turns and the answered ones is a step of `SessionOrder` or none
(`OrderStep`). The step simulation needs the accounting: `SessionOrder` lets only a message
join that is nowhere yet, and lets a turn take a head of the line only if nothing in it
stands anywhere else.

`RuntimeLockProofs` (`LockAssumption`): `LockTyped` (with the bound on attempts) and
`SettledKeeps`: a daemon whose identity is in the file while nobody is on the way to
remove it keeps the home until it leaves. The invariant adds `FileOK`: who is in the
file has started, and its pid counts as reused only once it is dead. From it, whoever
judges the file of a live holder finds it alive, by its pid or by its mtime.
`ExclusiveWhileRightful` says what `SingleDaemon` lacks: in every behaviour in which a
removal takes away a dead daemon's file or the remover's own, at most one daemon holds the
home, because who created the file and has not left is the one in it (`Owned`). So a lock
that tied each removal to the file that was judged would be exclusive.

`EngineRetirementProofs` (`NoOneAssumption`, `RetirementAssumption`): `RetirementTyped`,
`OneProviderAlways`, `WorkAlwaysFinishes`, `NeverStartsLocally` and `GoneAlways`, for any
number of requests, changes and failures. The lifecycle is proved on its own, for callers
that do as they please (`LInv`), and every step of the daemon is shown to be a step of such
callers (`StepOfLifecycle`). `LInv` says that what is being built or up is the current
generation; that what is down is closed; that a drain is of a closed generation which is the
current one or already gone, and past its build once it waits for work; and that no on-device
generation that is building or up is open once the broker is authoritative. `GoneForGood` is
inductive only with these: a settings reset and a retirement share one drain, and a request
that was sent back asks again, so one has to know who is barred and what the drain holds.

`GpuArbiterProofs` (`ArbiterAssumption`): `ArbiterTyped`, `LeaseAlwaysKept` and
`LeaseAlwaysProtects`. The invariant says that the active lease is that of a job which holds
one (`GrantedHolds`), that whoever holds one that is not the active one has lost it
(`HoldersLost`), and that a job past its wait beside the lease of another kind is in that
lease's `ahead` (`AheadKnown`). From the second follows that a late release is of a job that
had lost its own; from the third, that whoever evicts was recorded.

`TaskRunnerProofs` (`RunnerAssumption`): `RunnerTyped`, `AlwaysInHand` and
`DispatchesKept`, for any tasks, steps, widths and bounds. The inductive invariant
(`IInv`, checked with TLC before) says that the three lists of a pass share nothing and come
from the part of the queue it copied (`WalkApart`); that whoever names an activation, in the
queue, under way or dispatched, names one that was written (`ActsWritten`); that what is let
through to the dispatch loop is not tracked (`GoUntracked`); and that a session is bound to one
activation at a time, whatever waits in it (`OneBinding`). `DispatchKept` follows from
`GoUntracked`, which is inductive because a dispatch moves only to an activation that nobody
could name before it was written. `KeptInHand` needs the rest: a new activation is in nobody's
hands by accident; what a pass does not keep at its end, and did not decide about, arrived
after its snapshot; and a send that is bound anew by a dispatch of its step was bound to the
same activation, unless it is one of the losses `GivesUp` names.

The lemmas about data are in `DataFacts`: what appending, removing, exchanging and
flattening do to a sequence, and what adding or removing a member does to a sum. The
library's induction theorems take an operator as a parameter, which the provers cannot
instantiate; an induction over the natural numbers is done instead on the set of those for
which the claim holds: the complement has a least element if it has any (`LeastOf`, from the
well-foundedness of `<`), and neither zero nor a successor can be it (`NatSet`).
What a recursive function of the community modules or of the queue's drain computes is
pinned down by its own table: any two tables that follow the same rule agree (`PartsAgree`,
`AddsAgree`), and one exists.

Only model-checked: the liveness properties (`RequestSettles`, `InteractiveServed`,
`AmbientWakes`, `SenderAnswered`, `DeadReplaced`, `HandoffServed`, `DisplacedStops`,
`RetirementCompletes`, `Served`), since temporal properties under fairness, and `ENABLED`
with them, are beyond the prover. Every invariant and every action property of a passing run
is proved. The two violations are shown by TLC.

## 5. Not modelled, and the plan

The order followed: the ledger first, since a wrong grant takes down the machine; the
queue, the conversation and the lock; then the runner, the handover and the arbiter. What
would come next:

1. A failed write of the history entry at `config.ts:565`, after which the queues are not
   swept, in `SessionTurns`.
2. The parts of a retirement that `EngineRetirement` takes as the rest: the chat manager's
   teardown in `SessionTurns` composed with the bridge, and the drain of the engine pool.
3. Gates and retries of the task manager, and the scheduler that spawns tasks, as the
   environment of `TaskRunner`.
4. Proofs: with the last safety property proved, what the next components bring.

The runs are one per question; a module that asks a deeper question takes the place of a
narrower run.

Not planned: key agreement (arithmetic over a curve), retrieval and ranking, file
layouts and parsing, HTTP schemas, clients and UI (presentation), remote services, and
the numeric sizing of launches, whose sizes enter `DeviceLedger` as constants and whose limits as readings.

## 6. Running

    tlc -workers 2 -config MCDeviceLedger_queue.cfg MCDeviceLedger
    tlapm DeviceLedgerProofs.tla

and likewise for the other `MC` and `Proofs` modules.
