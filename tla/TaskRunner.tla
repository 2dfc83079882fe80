----------------------------- MODULE TaskRunner -----------------------------
(***************************************************************************)
(* The runner that turns activated task steps into worker sessions         *)
(* (service/src/tasks/runner.ts), with the writers of task state around it *)
(* (tasks/manager.ts, tasks/retry.ts and the hooks of product-service.ts)  *)
(* and the start of a worker in chat/manager.ts.                           *)
(*                                                                         *)
(* A tick walks the pending handoffs across many awaits, on a snapshot,    *)
(* while people pause and resume tasks, workers move them on, and new      *)
(* handoffs arrive. The tasks are on disk; everything else is lost when    *)
(* the daemon dies and is rebuilt from them.                               *)
(*                                                                         *)
(* An activation timestamp is a number, fresh for its task. A session that *)
(* rests is as good as a new one, so only those in use are told apart. One *)
(* provider serves all; people's turns may fill it at any time.            *)
(***************************************************************************)
EXTENDS Naturals, Sequences, FiniteSets, SequencesExt, Functions

CONSTANTS
  Task, Steps,     \* the tasks and how many steps each has
  Width,           \* background turns the provider runs at once
  MaxResumes,      \* MAX_RESTART_RESUMES, 3 in the code
  Restless,        \* bound: the tasks that are paused, looked at again or activated again
  Activations,     \* bound: activations of each task
  Upsets           \* bound: what people do, failures, and deaths of the daemon

ASSUME RunnerAssumption ==
  /\ Steps \in Nat \ {0} /\ Width \in Nat \ {0} /\ Activations \in Nat \ {0}
  /\ Restless \subseteq Task /\ MaxResumes \in Nat /\ Upsets \in Nat

VARIABLES
  disk,     \* the tasks: status, current step, newest activation of all, last of each step, resumes
  pending,  \* the handoffs that wait, oldest first
  held,     \* providerBusySince: which of them found no room
  scan,     \* rehydrations under way: tasks still to be read, after a restart or not
  due,      \* activations whose hook has not run yet
  pass,     \* the tick in flight
  tracked,  \* activeDispatches: the session that serves an activation
  sends,    \* first messages on their way to their session
  working,  \* the sessions in a turn, with the activation each is bound to
  given,    \* history: whose current activation got a worker in this life of the daemon
  upsets    \* how many of them there were

vars == <<disk, pending, held, scan, due, pass, tracked, sends, working, given, upsets>>

Step == 1 .. Steps
Act == 1 .. Activations
Handoff == [task : Task, step : Step, act : Act]

\* A session is named by the activation it was opened for; two of one activation are
\* not in use at once (bound).
Session == Handoff
Idle == [at |-> "idle", prune |-> {}, looks |-> {}, todo |-> <<>>, go |-> <<>>, keep |-> <<>>,
         size |-> 0, started |-> 0]

Statuses == {"active", "paused", "complete"}

\* A tick: what is left to prune, the entry being judged, the snapshot still to be
\* read, what is let through and what is kept, how long the queue was, and how many started.
Passes == [at : {"idle", "prune", "walk"}, prune : SUBSET Handoff,
           looks : SUBSET [key : Handoff, session : Session],
           todo : Seq(Handoff), go : Seq(Handoff), keep : Seq(Handoff),
           size : Nat, started : Nat]

\* A send binds its session to an activation when it starts, unless it went to a
\* session of the step, which was bound at once.
Sends == [session : Session, to : Handoff, repins : BOOLEAN]

Records == [status : Statuses, step : Step, newest : Act,
            last : [Step -> Act \cup {0}], resumes : 0 .. MaxResumes + 1]

TypeOK ==
  /\ disk \in [Task -> Records]
  /\ pending \in Seq(Handoff) /\ IsInjective(pending)
  /\ held \subseteq Handoff
  /\ scan \in [boot : SUBSET Task, live : SUBSET Task]
  /\ due \subseteq Handoff
  /\ pass \in Passes /\ pass.size <= Len(pending)
  /\ tracked \in [DOMAIN tracked -> Session] /\ DOMAIN tracked \subseteq Handoff
  /\ sends \subseteq Sends
  /\ working \in [DOMAIN working -> Handoff] /\ DOMAIN working \subseteq Session
  /\ given \subseteq Task /\ upsets \in 0 .. Upsets

-----------------------------------------------------------------------------
(* Tasks.                                                                  *)

Active(t) == disk[t].status = "active"

\* The activation of step s of t that is on disk.
At(t, s) == [task |-> t, step |-> s, act |-> disk[t].last[s]]
Current(t) == At(t, disk[t].step)

\* bumpStepActivation
Activated(t, s) ==
  [disk EXCEPT ![t].step = s, ![t].newest = @ + 1,
               ![t].last[s] = disk[t].newest + 1, ![t].resumes = 0]

\* The handoff of that activation.
Wakes(t, s) == [task |-> t, step |-> s, act |-> disk[t].newest + 1]

WithStatus(t, status) == [disk EXCEPT ![t].status = status]

Init ==
  /\ disk = [t \in Task |-> [status |-> "active", step |-> 1, newest |-> 1, resumes |-> 0,
                             last |-> [s \in Step |-> IF s = 1 THEN 1 ELSE 0]]]
  /\ pending = <<>> /\ held = {}
  /\ scan = [boot |-> {}, live |-> {}]
  /\ due = {Current(t) : t \in Task}
  /\ pass = Idle /\ tracked = <<>>
  /\ sends = {} /\ working = <<>> /\ given = {} /\ upsets = 0

-----------------------------------------------------------------------------
(* People, and the parts of the daemon that act for them.                  *)

\* A bounded step of the environment.
Upset == upsets < Upsets /\ upsets' = upsets + 1

\* setStatus writes; its hook only wakes the runner.
Pause(t) ==
  /\ Upset /\ t \in Restless /\ Active(t) /\ disk' = WithStatus(t, "paused")
  /\ UNCHANGED <<pending, held, scan, due, pass, tracked, sends, working, given>>

\* setStatus, then reconcileStatusChange reads the task again. A retry gives the
\* step a fresh budget first; the handoff it enqueues itself is the same one.
Resume(t) ==
  /\ disk[t].status = "paused"
  /\ \E fresh \in BOOLEAN :
       disk' = [WithStatus(t, "active") EXCEPT
                  ![t].resumes = IF fresh THEN 0 ELSE @]
  /\ scan' = [scan EXCEPT !.live = @ \cup {t}]
  /\ UNCHANGED <<pending, held, due, pass, tracked, sends, working, given, upsets>>

\* A person or the idle sweep completes a step or has it rejected: the same or another
\* step is activated, and no turn of the runner has the verdict.
Reactivate(t) ==
  /\ Upset /\ t \in Restless /\ Active(t) /\ disk[t].newest < Activations
  /\ \E s \in Step : disk' = Activated(t, s) /\ due' = due \cup {Wakes(t, s)}
  /\ given' = given \ {t}
  /\ UNCHANGED <<pending, held, scan, pass, tracked, sends, working>>

-----------------------------------------------------------------------------
(* enqueueHandoff and rehydrateFromStore.                                  *)

\* Mutant: a handoff that waits already is enqueued again.
AppendsAlways(h) == Append(pending, h)

Queued(h) == IF h \in Range(pending) THEN pending ELSE Append(pending, h)

\* The activation hook of product-service.
Enqueue(h) ==
  /\ h \in due /\ due' = due \ {h}
  /\ pending' = Queued(h)
  /\ UNCHANGED <<disk, held, scan, pass, tracked, sends, working, given, upsets>>

\* The hook returns: fan-out children are active, the step is the owner's or nobody's,
\* a gezel goes on to a step without a prompt, or the project allows no ambient work.
Declines(h) ==
  /\ h \in due /\ due' = due \ {h}
  /\ UNCHANGED <<disk, pending, held, scan, pass, tracked, sends, working, given, upsets>>

\* A rehydration reads the task and enqueues its step, if it is active.
Rescan(t) ==
  /\ t \in scan.live /\ scan' = [scan EXCEPT !.live = @ \ {t}]
  /\ pending' = IF Active(t) THEN Queued(Current(t)) ELSE pending
  /\ UNCHANGED <<disk, held, due, pass, tracked, sends, working, given, upsets>>

\* A parent resumes or Night Shift opens: whatever is active is looked at again.
Rehydrate(t) ==
  /\ Upset /\ t \in Restless /\ Active(t) /\ pending' = Queued(Current(t))
  /\ UNCHANGED <<disk, held, scan, due, pass, tracked, sends, working, given>>

\* A rehydration passes over the task, for the reasons of the hook, or cannot read.
PassesOver(t) ==
  /\ t \in scan.live \cup scan.boot
  /\ scan' = [live |-> scan.live \ {t}, boot |-> scan.boot \ {t}]
  /\ UNCHANGED <<disk, pending, held, due, pass, tracked, sends, working, given, upsets>>

\* noteRestartResume past the budget: the task pauses for help.
Exhausted(t) == [WithStatus(t, "paused") EXCEPT ![t].resumes = MaxResumes + 1]

\* At boot every resume is counted, on disk, but that of a task held for the night or
\* whose count cannot be written.
BootScan(t) ==
  /\ t \in scan.boot /\ scan' = [scan EXCEPT !.boot = @ \ {t}]
  /\ \/ ~Active(t) /\ UNCHANGED <<disk, pending>>
     \/ /\ Active(t) /\ disk[t].resumes >= MaxResumes
        /\ disk' = Exhausted(t) /\ UNCHANGED pending
     \/ /\ Active(t) /\ disk[t].resumes < MaxResumes
        /\ disk' = [disk EXCEPT ![t].resumes = @ + 1] /\ pending' = Queued(Current(t))
     \/ Active(t) /\ pending' = Queued(Current(t)) /\ UNCHANGED disk
  /\ UNCHANGED <<held, due, pass, tracked, sends, working, given, upsets>>

-----------------------------------------------------------------------------
(* pruneActiveDispatches.                                                  *)

Tick ==
  /\ pass.at = "idle"
  /\ pass' = [Idle EXCEPT !.at = "prune", !.prune = DOMAIN tracked]
  /\ UNCHANGED <<disk, pending, held, scan, due, tracked, sends, working, given, upsets>>

Untracked(h) == Restrict(tracked, DOMAIN tracked \ {h})

\* The worker's own progress made its dispatch stale.
SelfAdvanced(h) ==
  /\ disk[h.task].last[h.step] = h.act
  /\ \/ disk[h.task].status = "complete"
     \/ Active(h.task) /\ disk[h.task].step # h.step

Stale(h) == ~Active(h.task) \/ Current(h.task) # h

Displaced(h) == Stale(h) /\ ~SelfAdvanced(h)

\* cancelInflight; a send that has not started its turn is not cancelled by it.
Cancelled(x) == Restrict(working, DOMAIN working \ {x})

\* Mutant: nobody stops the displaced.
StopsNobody(c) == working

Stopped(c) == IF Displaced(c.key) THEN Cancelled(c.session) ELSE working

\* The loop over activeDispatches takes an entry and waits for its task to be read.
PruneReads(h) ==
  /\ pass.at = "prune" /\ pass.looks = {} /\ h \in pass.prune \cap DOMAIN tracked
  /\ pass' = [pass EXCEPT !.prune = @ \ {h}, !.looks = {[key |-> h, session |-> tracked[h]]}]
  /\ UNCHANGED <<disk, pending, held, scan, due, tracked, sends, working, given, upsets>>

\* The entry it took is judged by what was read, and its session asked for its turn
\* (isSessionTurnPending); meanwhile the entry itself may have moved.
PruneJudges(c) ==
  /\ c \in pass.looks /\ pass' = [pass EXCEPT !.looks = {}]
  /\ working' = Stopped(c)
  /\ tracked' = IF Displaced(c.key) \/ c.session \notin DOMAIN working
                THEN Untracked(c.key) ELSE tracked
  /\ UNCHANGED <<disk, pending, held, scan, due, sends, given, upsets>>

\* Its task cannot be read: that is taken for a deleted task, and the session is stopped.
PruneFails(c) ==
  /\ Upset /\ c \in pass.looks /\ pass' = [pass EXCEPT !.looks = {}]
  /\ working' = Cancelled(c.session) /\ tracked' = Untracked(c.key)
  /\ UNCHANGED <<disk, pending, held, scan, due, sends, given>>

-----------------------------------------------------------------------------
(* tickOnce.                                                               *)

Pruned == pass.at = "prune" /\ pass.looks = {} /\ pass.prune \cap DOMAIN tracked = {}

\* Nothing waits, or the engagement mode does not allow task work now.
Rests ==
  /\ Pruned /\ pass' = Idle
  /\ UNCHANGED <<disk, pending, held, scan, due, tracked, sends, working, given, upsets>>

Snapshot ==
  /\ Pruned /\ pending # <<>>
  /\ pass' = [Idle EXCEPT !.at = "walk", !.todo = pending, !.size = Len(pending)]
  /\ UNCHANGED <<disk, pending, held, scan, due, tracked, sends, working, given, upsets>>

\* Mutant: a handoff whose activation has its dispatch goes on.
DispatchedAgain(h) == Active(h.task) /\ Current(h.task) = h

Valid(h) == Active(h.task) /\ Current(h.task) = h /\ h \notin DOMAIN tracked

\* The pre-pass looks at the task of the next handoff h.
Checking(h) == pass.at = "walk" /\ pass.todo # <<>> /\ h = Head(pass.todo)

\* It drops h or lets it go on.
Check(h) ==
  /\ Checking(h)
  /\ pass' = [pass EXCEPT !.todo = Tail(@), !.go = IF Valid(h) THEN Append(@, h) ELSE @]
  /\ UNCHANGED <<disk, pending, held, scan, due, tracked, sends, working, given, upsets>>

\* The task cannot be read: h is dropped.
Unread(h) ==
  /\ Upset /\ Checking(h) /\ pass' = [pass EXCEPT !.todo = Tail(@)]
  /\ UNCHANGED <<disk, pending, held, scan, due, tracked, sends, working, given>>

\* Its entrance (onEnter) could not be prepared: h waits.
Unprepared(h) ==
  /\ Checking(h) /\ pass' = [pass EXCEPT !.todo = Tail(@), !.keep = Append(@, h)]
  /\ UNCHANGED <<disk, pending, held, scan, due, tracked, sends, working, given, upsets>>

\* All were read: the dispatch loop goes over those that were let through.
Dispatching == pass.at = "walk" /\ pass.todo = <<>>
Deciding(h) == Dispatching /\ pass.go # <<>> /\ h = Head(pass.go)

\* No provider is resolved for its gezel: h is dropped.
Unresolved(h) ==
  /\ Upset /\ Deciding(h) /\ pass' = [pass EXCEPT !.go = Tail(@)]
  /\ UNCHANGED <<disk, pending, held, scan, due, tracked, sends, working, given>>

\* h waits for the night or its quota, for a provider that would not start, or for
\* its siblings of a fan-out.
Defers(h) ==
  /\ Deciding(h) /\ pass' = [pass EXCEPT !.go = Tail(@), !.keep = Append(@, h)]
  /\ UNCHANGED <<disk, pending, held, scan, due, tracked, sends, working, given, upsets>>

\* queue.hasCapacity('background', inFlight), as far as the workers fill the lane.
HasRoom == Cardinality(DOMAIN working) + pass.started < Width

\* Mutant: the bound does not exist.
NeverStarved(h) == FALSE

\* starvedPastBound, if the time since h was held is past the bound: it may be so at
\* any later look.
Starved(h) == h \in held /\ pass.started = 0 /\ DOMAIN tracked = {}

\* holdProviderBusy: people's turns may take whatever room the workers leave.
Hold(h) ==
  /\ Deciding(h)
  /\ pass' = [pass EXCEPT !.go = Tail(@), !.keep = Append(@, h)]
  /\ held' = held \cup {h}
  /\ UNCHANGED <<disk, pending, scan, due, tracked, sends, working, given, upsets>>

Given(h) == IF h = Current(h.task) THEN given \cup {h.task} ELSE given

\* The sessions that somebody refers to.
InUse ==
  DOMAIN working \cup Range(tracked) \cup {c.session : c \in sends \cup pass.looks}

\* The activations that session x is bound to now: that of its turn or of its next.
Bindings(x) ==
  {working[y] : y \in DOMAIN working \cap {x}} \cup
  {c.to : c \in {d \in sends : d.session = x /\ ~d.repins}}

\* The sessions in use that serve or served t.
Carriers(t) ==
  {x \in DOMAIN working : working[x].task = t} \cup
  {c.session : c \in {d \in sends : d.to.task = t}} \cup
  {tracked[g] : g \in {k \in DOMAIN tracked : k.task = t}}

\* bindStepActivation: what waits in the session runs under its new binding.
Rebound(x, h) ==
  {IF c.session = x /\ ~c.repins THEN [c EXCEPT !.to = h] ELSE c : c \in sends}

\* startHandoffSession for h opens a session; or resumes the one of the step, bound
\* at once to the step's newest activation; or it carries a session on from another
\* step, which is bound when its turns are over. The first message starts later.
Dispatch(h) ==
  /\ Deciding(h) /\ (HasRoom \/ Starved(h))
  /\ \E x \in ({h} \ InUse) \cup Carriers(h.task) :
       LET to == At(h.task, h.step)
           repins == \A b \in Bindings(x) : b.task # h.task \/ b.step # h.step
       IN  /\ working' = [y \in DOMAIN working |-> IF y = x /\ ~repins THEN to ELSE working[y]]
           /\ sends' = (IF repins THEN sends ELSE Rebound(x, to)) \cup
                        {[session |-> x, to |-> to, repins |-> repins]}
           /\ tracked' = [g \in DOMAIN tracked \cup {h} |-> IF g = h THEN x ELSE tracked[g]]
  /\ pass' = [pass EXCEPT !.go = Tail(@), !.started = @ + 1]
  /\ held' = held \ {h}
  /\ UNCHANGED <<disk, pending, scan, due, given, upsets>>

\* pauseAfterFailedHandoff, which may fail in its turn.
PausesForHelp(t, s) ==
  \/ Active(t) /\ disk[t].step = s /\ disk' = WithStatus(t, "paused")
  \/ UNCHANGED disk

\* The session could not be started: there is no retry.
DispatchFails(h) ==
  /\ Upset /\ Deciding(h) /\ (HasRoom \/ Starved(h))
  /\ PausesForHelp(h.task, h.step)
  /\ pass' = [pass EXCEPT !.go = Tail(@)]
  /\ held' = held \ {h}
  /\ UNCHANGED <<pending, scan, due, tracked, sends, working, given>>

\* Mutant: the queue is replaced by what the pass kept.
LeftoversOnly == pass.keep

\* What the pass kept, then what arrived while it ran.
Leftovers == pass.keep \o SubSeq(pending, pass.size + 1, Len(pending))

PassEnds ==
  /\ Dispatching /\ pass.go = <<>>
  /\ pending' = Leftovers /\ pass' = Idle
  /\ held' = held \cap Range(Leftovers)
  /\ UNCHANGED <<disk, scan, due, tracked, sends, working, given, upsets>>

-----------------------------------------------------------------------------
(* Workers: their tool calls are fenced by the activation they serve.      *)

\* The background send of startHandoffSession begins its turn, once the session is
\* idle; nobody asks whether the task is still to run.
Starts(c) ==
  /\ c \in sends /\ c.session \notin DOMAIN working
  /\ sends' = Rebound(c.session, c.to) \ {c}
  /\ working' = [x \in DOMAIN working \cup {c.session} |->
                   IF x = c.session THEN c.to ELSE working[x]]
  /\ given' = Given(c.to)
  /\ UNCHANGED <<disk, pending, held, scan, due, pass, tracked, upsets>>

\* It fails first: the session that it was to carry on is gone or cannot be read.
SendFails(c) ==
  /\ Upset /\ c \in sends /\ sends' = sends \ {c}
  /\ PausesForHelp(c.to.task, c.to.step)
  /\ UNCHANGED <<pending, held, scan, due, pass, tracked, working, given>>

MayWrite(x) ==
  /\ x \in DOMAIN working
  /\ Active(working[x].task) /\ Current(working[x].task) = working[x]

Complete(x) ==
  /\ MayWrite(x) /\ disk' = WithStatus(working[x].task, "complete")
  /\ UNCHANGED <<pending, held, scan, due, pass, tracked, sends, working, given, upsets>>

\* A worker may have another step s, or its own once more, activated.
MaySend(x, s) ==
  /\ MayWrite(x) /\ working[x].task \in Restless
  /\ disk[working[x].task].newest < Activations /\ s \in Step

\* advance_task_step to another step; the turn goes on.
Advance(x, s) ==
  LET t == working[x].task
  IN  /\ MaySend(x, s) /\ s # working[x].step
      /\ disk' = Activated(t, s) /\ due' = due \cup {Wakes(t, s)} /\ given' = given \ {t}
      /\ UNCHANGED <<pending, held, scan, pass, tracked, sends, working, upsets>>

\* adoptActiveDispatchActivation: the dispatches of the step go on as one, under its
\* new activation; the last in the order of the map wins.
Adopts(next) ==
  LET moved == {g \in DOMAIN tracked : g.task = next.task /\ g.step = next.step}
  IN  \/ moved = {} /\ UNCHANGED <<tracked, pass>>
      \/ /\ \E last \in moved :
              tracked' = [g \in (DOMAIN tracked \ moved) \cup {next} |->
                            IF g = next THEN tracked[last] ELSE tracked[g]]
         /\ pass' = [pass EXCEPT !.prune = IF pass.at = "prune" THEN @ \cup {next} ELSE @]

\* A gate sends the worker back over its own step; the hook runs before anybody can
\* read the write. A loop over the dispatches visits an entry that is set again, but
\* what it took before the write keeps its key.
Loop(x, s) ==
  LET old == working[x]
      next == Wakes(old.task, s)
  IN  /\ MaySend(x, s) /\ s = old.step
      /\ disk' = Activated(old.task, s) /\ given' = given \cup {old.task}
      /\ working' = [y \in DOMAIN working |-> IF working[y] = old THEN next ELSE working[y]]
      /\ sends' = {IF c.session \in DOMAIN working /\ ~c.repins /\ c.to = old
                     THEN [c EXCEPT !.to = next] ELSE c : c \in sends}
      /\ Adopts(next)
      /\ UNCHANGED <<pending, held, scan, due, upsets>>

\* A gate sends the task to another step: a dispatch of that step is moved to its new
\* activation, whatever session it has, and the hook hands the step off all the same.
Reroute(x, s) ==
  LET t == working[x].task
  IN  /\ MaySend(x, s) /\ s # working[x].step
      /\ disk' = Activated(t, s) /\ due' = due \cup {Wakes(t, s)} /\ given' = given \ {t}
      /\ Adopts(Wakes(t, s))
      /\ UNCHANGED <<pending, held, scan, sends, working, upsets>>

Ends(x) ==
  /\ x \in DOMAIN working /\ working' = Cancelled(x)
  /\ UNCHANGED <<disk, pending, held, scan, due, pass, tracked, sends, given, upsets>>

-----------------------------------------------------------------------------
\* The daemon dies and starts again; the boot scans what is on disk.
Crash ==
  /\ Upset
  /\ pending' = <<>> /\ held' = {} /\ pass' = Idle
  /\ scan' = [boot |-> Task, live |-> {}] /\ due' = {}
  /\ tracked' = <<>> /\ sends' = {} /\ working' = <<>> /\ given' = {}
  /\ UNCHANGED disk

People == \E t \in Task : Pause(t) \/ Resume(t) \/ Rehydrate(t) \/ Reactivate(t)

Feeds ==
  \/ \E t \in Task : Rescan(t) \/ BootScan(t) \/ PassesOver(t)
  \/ \E h \in due : Enqueue(h) \/ Declines(h)

Prunes ==
  \/ \E h \in DOMAIN tracked : PruneReads(h)
  \/ \E c \in pass.looks : PruneJudges(c) \/ PruneFails(c)

Checks(h) == Check(h) \/ Unread(h) \/ Unprepared(h)
Decides(h) == Hold(h) \/ Defers(h) \/ Dispatch(h) \/ Unresolved(h) \/ DispatchFails(h)
Walks == PassEnds \/ \E h \in Range(pending) : Checks(h) \/ Decides(h)

Moves(x) ==
  Complete(x) \/ Ends(x) \/ \E s \in Step : Advance(x, s) \/ Loop(x, s) \/ Reroute(x, s)

Next ==
  \/ People \/ Feeds \/ Tick \/ Prunes \/ Rests \/ Snapshot \/ Walks
  \/ \E c \in sends : Starts(c) \/ SendFails(c)
  \/ \E x \in DOMAIN working : Moves(x)
  \/ Crash

Spec == Init /\ [][Next]_vars

\* The dispatches of session x, and those among them that are not displaced.
Dispatches(x) == {g \in DOMAIN tracked : tracked[g] = x}
InPlace(x) == {g \in Dispatches(x) : ~Displaced(g)}

\* A turn for a task that was paused, or for a step that was activated again, need not
\* end by itself. All others do.
Lingers(x) == x \in DOMAIN working /\ Displaced(working[x]) /\ InPlace(x) = {}
EndsInTime(x) == ~Lingers(x) /\ Ends(x)

\* h is held for room or finds some, or it is dispatched because it was held too long.
Progresses(h) ==
  \/ h \notin held /\ (Hold(h) \/ Dispatch(h))
  \/ Starved(h) /\ Dispatch(h)

\* The ticker ticks, calls return, time passes; the mode allows task work again and
\* again, and so do the other conditions of a handoff that was held past the bound.
\* People, failures and the death of the daemon are never due.
FairSpec ==
  /\ Spec
  /\ WF_vars(Tick \/ Prunes \/ (pending = <<>> /\ Rests) \/ Walks)
  /\ SF_vars(Snapshot) /\ WF_vars(Feeds)
  /\ WF_vars(\E c \in sends : Starts(c))
  /\ WF_vars(\E x \in DOMAIN working : EndsInTime(x))
  /\ SF_vars(\E h \in Range(pending) : Check(h))
  /\ SF_vars(\E h \in Range(pending) : Progresses(h))

-----------------------------------------------------------------------------
(* Properties.                                                             *)

\* The pass has decided about t's handoff, which stays in the queue until it ends:
\* whoever enqueues it again meanwhile is taken for a duplicate.
Doomed(h) ==
  /\ pass.at = "walk" /\ h \in Range(SubSeq(pending, 1, pass.size))
  /\ h \notin Range(pass.todo) \cup Range(pass.go) \cup Range(pass.keep)

\* The current step of t has its worker, or one is on its way, or somebody still
\* holds its handoff.
InHand(t) ==
  LET h == Current(t)
  IN  \/ t \in given \cup scan.live \cup scan.boot \/ h \in due
      \/ \E c \in sends : c.to = h
      \/ h \in Range(pending) /\ ~Doomed(h)

\* The rule that is not kept. runner.ts:1244-1247 says that handoffs enqueued while a
\* pass runs must remain behind the older work: so a task that was resumed meanwhile is
\* in somebody's hands once it was looked at again.
NoneForgotten == [][\A t \in Task : Rescan(t) /\ Active(t) => InHand(t)']_vars

\* The activation of t is tracked, but its dispatch was adopted by a gate of another
\* step: the session works elsewhere, and the handoff will be taken for dispatched.
Mistaken(t) == Current(t) \in DOMAIN tracked /\ t \notin given /\ \A c \in sends : c.to # Current(t)

\* A parked send takes over the session where t's own message waits.
Overrides(t) ==
  \E c, d \in sends : /\ Starts(c) /\ d.session = c.session /\ ~d.repins
                       /\ d.to = Current(t) /\ c.to # d.to

\* The code gives t's handoff up, by an early return or after a failure.
GivesUp(t) ==
  \/ Declines(Current(t)) \/ PassesOver(t) \/ Unread(Current(t))
  \/ Unresolved(Current(t)) \/ DispatchFails(Current(t)) \/ Overrides(t)
  \/ \E c \in sends : SendFails(c) /\ c.to = Current(t)

\* What is kept: whatever happens between the awaits of a pass, a restart included,
\* an active task does not fall out of all hands but where the code gives its handoff
\* up, it was resumed while a pass was about to erase its handoff, or its activation
\* was adopted for a session of another step.
KeptInHand ==
  [][\A t \in Task :
       Active(t)' /\ (Active(t) => InHand(t)) /\ ~Doomed(Current(t)) /\ ~Mistaken(t)
         => InHand(t)' \/ GivesUp(t)]_vars

\* runner.ts:789-795: chat that fills the provider forever does not starve task work,
\* nor does other task work. Nobody holds an active task's handoff for good: it gets
\* its worker, or is lost in one of the ways that KeptInHand names, or its message waits
\* behind a turn that lingers and whose dispatches were pruned before it began.
HandoffServed ==
  \A t \in Task :
    Active(t) /\ InHand(t)
      ~> \/ ~Active(t) \/ t \in given \/ ~InHand(t)
         \/ \E c \in sends : c.to = Current(t) /\ Lingers(c.session) /\ Dispatches(c.session) = {}

\* runner.ts:943: a step is not dispatched over its own worker. While an activation is
\* tracked its session stays the same, across the awaits between the check and the
\* dispatch: overwritten, a session in its turn would be out of the pruning's reach.
DispatchKept ==
  [][\A g \in DOMAIN tracked \cap DOMAIN tracked' : tracked'[g] = tracked[g]]_vars

\* runner.ts:1279-1283: a session in a turn that has a displaced dispatch, because its
\* task was paused or its step activated again, is stopped by a later pass even if it
\* would never end by itself; unless a dispatch of it is in place again, or that of
\* its step was adopted for another.
DisplacedStops ==
  \A x \in Session :
    x \in DOMAIN working /\ Dispatches(x) # InPlace(x)
      ~> \/ x \notin DOMAIN working \/ InPlace(x) # {}
         \/ \E g \in DOMAIN tracked : /\ g.task = working[x].task /\ g.step = working[x].step
                                        /\ tracked[g] # x

=============================================================================
