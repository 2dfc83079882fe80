---------------------------- MODULE SessionTurns ----------------------------
(***************************************************************************)
(* One conversation of the daemon: the messages that arrive while it is    *)
(* mid-turn (core/src/runtime/session-send-queue.ts) and the slot of the   *)
(* turn that answers them (service/src/chat/manager.ts: send,              *)
(* runSendAndDrain, cancelInflight, interruptWithMessage, emergencyStop,   *)
(* beginShutdown, and the teardown a machine broker asks for).             *)
(*                                                                         *)
(* An action is what runs between two awaits. A stopped turn gives its     *)
(* slot up at once and unwinds later, so turns may overlap; a turn is      *)
(* named by the first message it answers. The text of a message, its       *)
(* editing and the events published about it are left out.                 *)
(***************************************************************************)
EXTENDS Naturals, Sequences, SequencesExt, FiniteSetsExt

CONSTANTS
  Msg,      \* the sends made to this conversation, each made once
  Kind,     \* [Msg -> {"plain", "nudge", "coalescable"}]
  Bucket,   \* [Msg -> sender and origin]: only one bucket shares a turn
  Solo,     \* messages with a file-turn intent: they share no turn
  Urgent,   \* messages the person may send as an interrupt
  Hidden,   \* messages without a transcript bubble
  NoTurn

ASSUME TurnsAssumption ==
  /\ Kind \in [Msg -> {"plain", "nudge", "coalescable"}]
  /\ Solo \subseteq Msg /\ Urgent \subseteq Msg /\ Hidden \subseteq Msg /\ NoTurn \notin Msg

VARIABLES
  conv,     \* queue, the turn that holds the slot, the turns, the callers
  resuming, \* interrupts whose cancelInflight has not returned
  teardown, \* the session teardown a broker adoption asks for
  mode,     \* engagementMode: is AI on
  sweep,    \* AI was turned off and the queues are still to be rejected
  shutdown  \* shuttingDown is set at "closing", the queues are empty at "closed"

vars == <<conv, resuming, teardown, mode, sweep, shutdown>>

NotRun == [state |-> "none", msgs |-> <<>>]

Entry == [msgs : Seq(Msg) \ {<<>>}, kind : {"plain", "nudge", "coalescable"}]
Turn == {NotRun} \cup [state : {"running", "stopped"}, msgs : Seq(Msg) \ {<<>>}]
Conversation ==
  [queue : Seq(Entry), inflight : Msg \cup {NoTurn}, turn : [Msg -> Turn],
   caller : [Msg -> {"new", "waiting", "running", "settled"}]]

TypeOK ==
  /\ conv \in Conversation /\ resuming \subseteq Msg
  /\ teardown \in {"none", "parked", "closing", "done", "dropped"}
  /\ mode \in {"on", "off"} /\ sweep \in BOOLEAN /\ shutdown \in {"no", "closing", "closed"}

Init ==
  /\ conv = [queue |-> <<>>, inflight |-> NoTurn, turn |-> [m \in Msg |-> NotRun],
             caller |-> [m \in Msg |-> "new"]]
  /\ resuming = {} /\ teardown = "none"
  /\ mode = "on" /\ sweep = FALSE /\ shutdown = "no"

-----------------------------------------------------------------------------
(* The queue.                                                              *)

Sends(entries) == FlattenSeq([i \in DOMAIN entries |-> entries[i].msgs])

With(C, msgs, state) ==
  [C EXCEPT !.caller = [m \in Msg |-> IF m \in Range(msgs) THEN state ELSE @[m]]]

\* runSendAndDrain claims the slot before anything is awaited.
Run(C, msgs) ==
  [With(C, msgs, "running") EXCEPT
     !.inflight = Head(msgs), !.turn[Head(msgs)] = [state |-> "running", msgs |-> msgs]]

\* A notification joins the tail of the queue when both opted in.
Coalesces(tail, m) ==
  /\ tail.kind = "coalescable" /\ Kind[m] = "coalescable"
  /\ Bucket[Head(tail.msgs)] = Bucket[m]
  /\ m \notin Solo /\ Head(tail.msgs) \notin Solo

Enqueued(C, m) ==
  LET n == Len(C.queue)
      entries == IF n > 0 /\ Coalesces(C.queue[n], m)
                 THEN [C.queue EXCEPT ![n].msgs = Append(@, m)]
                 ELSE Append(C.queue, [msgs |-> <<m>>, kind |-> Kind[m]])
  IN With([C EXCEPT !.queue = entries], <<m>>, "waiting")

\* Mutant: whatever follows a nudge is answered with it.
JoinsAny(head, next) == head.kind = "nudge"

\* A nudge behind a nudge is answered by the same turn.
Joins(head, next) ==
  LET h == Head(head.msgs) n == Head(next.msgs) IN
  /\ head.kind = "nudge" /\ next.kind = "nudge"
  /\ Bucket[h] = Bucket[n] /\ (h \in Hidden <=> n \in Hidden)
  /\ h \notin Solo /\ n \notin Solo

\* Mutant: the absorbed nudges stay in the queue.
DispatchedKeeping(C) ==
  LET q == C.queue
      n == CHOOSE n \in 1 .. Len(q) :
             /\ \A i \in 2 .. n : Joins(q[1], q[i])
             /\ n < Len(q) => ~Joins(q[1], q[n + 1])
  IN Run([C EXCEPT !.queue = Tail(q)], Sends(SubSeq(q, 1, n)))

\* dispatchNext: the head, and the run of nudges behind it.
Dispatched(C) ==
  LET q == C.queue
      n == CHOOSE n \in 1 .. Len(q) :
             /\ \A i \in 2 .. n : Joins(q[1], q[i])
             /\ n < Len(q) => ~Joins(q[1], q[n + 1])
  IN Run([C EXCEPT !.queue = SubSeq(q, n + 1, Len(q))], Sends(SubSeq(q, 1, n)))

\* drainNextQueued; it waits while the old engine's bridges are torn down.
Drained(C, down) == IF C.queue = <<>> \/ down = "closing" THEN C ELSE Dispatched(C)

\* rejectSession
Rejected(C) == With([C EXCEPT !.queue = <<>>], Sends(C.queue), "settled")

\* cancelInflight up to its first await.
Stopped(C) ==
  IF C.inflight = NoTurn THEN C
  ELSE [C EXCEPT !.turn[C.inflight].state = "stopped", !.inflight = NoTurn]

\* Mutant: the messages of a turn that returned are kept.
ReturnedKeeping(C, t) ==
  [With(C, C.turn[t].msgs, "settled") EXCEPT
     !.turn[t].state = "none", !.inflight = IF @ = t THEN NoTurn ELSE @]

\* A turn returns and its callers hear of it; the slot is freed if it is its own.
Returned(C, t) ==
  [With(C, C.turn[t].msgs, "settled") EXCEPT
     !.turn[t] = NotRun, !.inflight = IF @ = t THEN NoTurn ELSE @]

-----------------------------------------------------------------------------
(* What clients do.                                                        *)

Admitting == shutdown = "no" /\ mode = "on"

\* Mutant: an idle session runs a send at once, whoever waits.
IdleNow == conv.inflight = NoTurn

Idle == conv.inflight = NoTurn /\ conv.queue = <<>>

Send(m) ==
  /\ Admitting /\ conv.caller[m] = "new"
  /\ conv' = IF Idle THEN Run(conv, <<m>>) ELSE Enqueued(conv, m)
  /\ UNCHANGED <<resuming, teardown, mode, sweep, shutdown>>

\* interruptWithMessage: to the front, and the current turn is stopped.
Interrupt(m) ==
  /\ Admitting /\ conv.caller[m] = "new" /\ m \in Urgent /\ ~Idle
  /\ conv' = With([Stopped(conv) EXCEPT !.queue = <<[msgs |-> <<m>>, kind |-> "plain"]>> \o @],
                  <<m>>, "waiting")
  /\ resuming' = resuming \cup {m}
  /\ UNCHANGED <<teardown, mode, sweep, shutdown>>

\* Mutant: the interrupt drains without looking at the slot.
InterruptDrains(m) ==
  /\ m \in resuming /\ resuming' = resuming \ {m}
  /\ conv' = Drained(conv, teardown)
  /\ UNCHANGED <<teardown, mode, sweep, shutdown>>

\* Its cancelInflight returned: it drains unless the slot is taken.
InterruptResumes(m) ==
  /\ m \in resuming /\ resuming' = resuming \ {m}
  /\ conv' = IF conv.inflight = NoTurn THEN Drained(conv, teardown) ELSE conv
  /\ UNCHANGED <<teardown, mode, sweep, shutdown>>

\* The person stops the turn; nothing drains until it unwinds.
StopTurn ==
  /\ conv.inflight # NoTurn /\ conv' = Stopped(conv)
  /\ UNCHANGED <<resuming, teardown, mode, sweep, shutdown>>

\* cancelQueuedMessage
Discard(i) ==
  /\ i \in DOMAIN conv.queue
  /\ conv' = With([conv EXCEPT !.queue = RemoveAt(@, i)], conv.queue[i].msgs, "settled")
  /\ UNCHANGED <<resuming, teardown, mode, sweep, shutdown>>

\* The session is archived or deleted.
RejectQueue ==
  /\ conv.queue # <<>> /\ conv' = Rejected(conv)
  /\ UNCHANGED <<resuming, teardown, mode, sweep, shutdown>>

-----------------------------------------------------------------------------
(* What turns do.                                                          *)

Runs(t) == conv.turn[t].state # "none"

\* runSend, past its awaits, takes the slot once more unless it was stopped.
Reclaim(t) ==
  /\ conv.turn[t].state = "running" /\ conv' = [conv EXCEPT !.inflight = t]
  /\ UNCHANGED <<resuming, teardown, mode, sweep, shutdown>>

\* finishSessionTurn of a stopped turn, after the next one has begun.
TurnEndsLate(t) ==
  /\ Runs(t) /\ conv.inflight \notin {t, NoTurn}
  /\ conv' = Returned(conv, t)
  /\ UNCHANGED <<resuming, teardown, mode, sweep, shutdown>>

\* finishSessionTurn: the parked callbacks run, then the queue is drained.
TurnEnds(t) ==
  /\ Runs(t) /\ conv.inflight \in {t, NoTurn}
  /\ teardown' = IF teardown = "parked" THEN "closing" ELSE teardown
  /\ \E C \in {Returned(conv, t)} : conv' = Drained(C, teardown')
  /\ UNCHANGED <<resuming, mode, sweep, shutdown>>

-----------------------------------------------------------------------------
(* What the daemon does.                                                   *)

\* retireMachineEngineSessions, once: now, or when the session is idle.
Retire ==
  /\ teardown = "none"
  /\ teardown' = IF conv.inflight = NoTurn THEN "closing" ELSE "parked"
  /\ UNCHANGED <<conv, resuming, mode, sweep, shutdown>>

\* Mutant: nobody looks at the queue once the bridges are closed.
TeardownForgets ==
  /\ teardown = "closing" /\ teardown' = "done"
  /\ UNCHANGED <<conv, resuming, mode, sweep, shutdown>>

TeardownEnds ==
  /\ teardown = "closing" /\ teardown' = "done"
  /\ conv' = IF conv.inflight = NoTurn THEN Drained(conv, "done") ELSE conv
  /\ UNCHANGED <<resuming, mode, sweep, shutdown>>

\* afterSessionIdle.clear()
Unparked == IF teardown = "parked" THEN "dropped" ELSE teardown

\* The mode becomes 'reactive', in which people may still send.
EmergencyStop ==
  /\ mode' = "on" /\ teardown' = Unparked
  /\ conv' = Stopped(Rejected(conv))
  /\ UNCHANGED <<resuming, sweep, shutdown>>

\* PUT /api/config: the mode changes first, the queues are rejected after the
\* history entry is written. One such request is under way at a time (bound).
TurnOff ==
  /\ mode = "on" /\ ~sweep /\ mode' = "off" /\ sweep' = TRUE
  /\ UNCHANGED <<conv, resuming, teardown, shutdown>>

SweepQueue ==
  /\ sweep /\ sweep' = FALSE /\ conv' = Rejected(conv)
  /\ UNCHANGED <<resuming, teardown, mode, shutdown>>

TurnOn == mode = "off" /\ mode' = "on" /\ UNCHANGED <<conv, resuming, teardown, sweep, shutdown>>

\* beginShutdown: no new sends; the one-shots settle; then everything stops.
ShutdownBegins ==
  /\ shutdown = "no" /\ shutdown' = "closing"
  /\ UNCHANGED <<conv, resuming, teardown, mode, sweep>>

\* Mutant: the turn is stopped, the queue is left to it.
ShutdownKeepsQueue ==
  /\ shutdown = "closing" /\ shutdown' = "closed" /\ teardown' = Unparked
  /\ conv' = Stopped(conv)
  /\ UNCHANGED <<resuming, mode, sweep>>

ShutdownSweeps ==
  /\ shutdown = "closing" /\ shutdown' = "closed" /\ teardown' = Unparked
  /\ conv' = Stopped(Rejected(conv))
  /\ UNCHANGED <<resuming, mode, sweep>>

-----------------------------------------------------------------------------

Next ==
  \/ \E m \in Msg :
       \/ Send(m) \/ Interrupt(m) \/ InterruptResumes(m)
       \/ Reclaim(m) \/ TurnEndsLate(m) \/ TurnEnds(m)
  \/ \E i \in DOMAIN conv.queue : Discard(i)
  \/ StopTurn \/ RejectQueue \/ Retire \/ TeardownEnds \/ EmergencyStop
  \/ TurnOff \/ SweepQueue \/ TurnOn \/ ShutdownBegins \/ ShutdownSweeps

Spec == Init /\ [][Next]_vars

\* Turns end (they have timeouts) and what was awaited returns. Each message is
\* sent once, so no turn is put off for ever by others.
FairSpec ==
  /\ Spec
  /\ WF_vars(\E m \in Msg : TurnEnds(m) \/ TurnEndsLate(m))
  /\ WF_vars(\E m \in Msg : InterruptResumes(m))
  /\ WF_vars(TeardownEnds)

-----------------------------------------------------------------------------
(* Properties.                                                             *)

\* One turn at a time: a turn that was not stopped holds the slot, whatever
\* unwinds, interrupts or is torn down beside it.
OneTurn == \A t \in Msg : conv.turn[t].state = "running" <=> conv.inflight = t

\* Every caller is owed one answer and gets one: who waits stands in the queue
\* once, who is being answered is carried by one turn, nobody else by any.
CallersAccounted ==
  /\ IsInjective(Sends(conv.queue))
  /\ \A m \in Msg : conv.caller[m] = "waiting" <=> m \in Range(Sends(conv.queue))
  /\ \A t \in Msg : \A m \in Range(conv.turn[t].msgs) :
       conv.caller[m] = "running" /\ \A u \in Msg \ {t} : m \notin Range(conv.turn[u].msgs)

\* A message is never put into the mouth of another sender: the messages one
\* turn answers come from one sender and origin, whichever of the two merge
\* rules brought them together and whatever interrupt or stop came between.
OneVoice ==
  \A t \in Msg : \A m, n \in Range(conv.turn[t].msgs) : Bucket[m] = Bucket[n]

\* Once AI is off, or the daemon is shutting down, and the queues were swept,
\* nothing waits that a returning turn, interrupt or teardown could start.
StaysQuiet ==
  /\ mode = "off" /\ ~sweep => conv.queue = <<>>
  /\ shutdown = "closed" => conv.queue = <<>> /\ conv.inflight = NoTurn

\* Every sender hears back: no wake-up of the queue is lost between stops,
\* late unwinds, interrupts and the teardown.
SenderAnswered ==
  \A m \in Msg : conv.caller[m] \in {"waiting", "running"} ~> conv.caller[m] = "settled"

\* The conversation keeps the promise of SessionOrder, FIFO included.
Order == INSTANCE SessionOrder WITH
  line <- Sends(conv.queue),
  active <- IF conv.inflight = NoTurn THEN {} ELSE Range(conv.turn[conv.inflight].msgs),
  unwinding <- UNION {Range(conv.turn[t].msgs) : t \in {u \in Msg : conv.turn[u].state = "stopped"}},
  over <- {m \in Msg : conv.caller[m] = "settled"}

ImplementsOrder == Order!Spec

=============================================================================
