------------------------- MODULE SessionTurnsProofs -------------------------
(***************************************************************************)
(* For any number of messages, senders and turns: one turn at a time;      *)
(* silence once AI is off or the daemon is closed; nobody's message is     *)
(* lost, answered twice or merged with another sender's; and the           *)
(* conversation implements SessionOrder. None stands alone: that a closed  *)
(* daemon stays silent rests on a stopped turn never taking the slot back, *)
(* which is what OneTurn says, and that a step is one of SessionOrder's    *)
(* rests on each message being in one place, which is CallersAccounted.    *)
(***************************************************************************)
EXTENDS SessionTurns, DataFacts, TLAPS

\* What the steps need to know of the fields of a conversation.
Shaped(C) ==
  /\ C = [queue |-> C.queue, inflight |-> C.inflight, turn |-> C.turn, caller |-> C.caller]
  /\ C.turn = [t \in Msg |-> [state |-> C.turn[t].state, msgs |-> C.turn[t].msgs]]

SlotHeld(C) == \A t \in Msg : C.turn[t].state = "running" <=> C.inflight = t

Sound(C) == Shaped(C) /\ SlotHeld(C)

IInv == Sound(conv) /\ StaysQuiet

-----------------------------------------------------------------------------
(* What the helpers preserve.                                              *)

\* Moving callers from one state to another touches neither queue nor turns.
LEMMA WithSound ==
  ASSUME NEW C, NEW msgs, NEW state, Sound(C)
  PROVE  LET D == With(C, msgs, state) IN
         Sound(D) /\ D.queue = C.queue /\ D.inflight = C.inflight /\ D.turn = C.turn
  <1>1. With(C, msgs, state) =
          [queue |-> C.queue, inflight |-> C.inflight, turn |-> C.turn,
           caller |-> With(C, msgs, state).caller]
    BY DEF With, Sound, Shaped
  <1>2. QED  BY <1>1 DEF Sound, Shaped, SlotHeld

\* An update of the slot and of one turn, written out as a record.
Placed(C, i, t, r) == [C EXCEPT !.inflight = i, !.turn[t] = r]

\* Placing a turn in the slot, field by field.
LEMMA SlotUpdate ==
  ASSUME NEW C, NEW i, NEW t, NEW r, Shaped(C)
  PROVE  Placed(C, i, t, r) =
           [queue |-> C.queue, inflight |-> i, turn |-> [C.turn EXCEPT ![t] = r],
            caller |-> C.caller]
  <1>1. PICK q, s, T, c : C = [queue |-> q, inflight |-> s, turn |-> T, caller |-> c]
    BY Zenon DEF Shaped
  <1>2. C.queue = q /\ C.turn = T /\ C.caller = c
    BY <1>1
  <1>3. [C EXCEPT !.inflight = i] = [queue |-> q, inflight |-> i, turn |-> T, caller |-> c]
    BY <1>1
  <1>4. [C EXCEPT !.inflight = i, !.turn[t] = r] = [[C EXCEPT !.inflight = i] EXCEPT !.turn[t] = r]
    OBVIOUS
  <1>5. [[queue |-> q, inflight |-> i, turn |-> T, caller |-> c] EXCEPT !.turn[t] = r] =
          [queue |-> q, inflight |-> i, turn |-> [T EXCEPT ![t] = r], caller |-> c]
    OBVIOUS
  <1>6. QED  BY <1>2, <1>3, <1>4, <1>5 DEF Placed

\* A turn may begin when nobody holds the slot.
LEMMA RunSound ==
  ASSUME NEW C, NEW msgs, Sound(C), C.inflight = NoTurn
  PROVE  Sound(Run(C, msgs)) /\ Run(C, msgs).queue = C.queue
  <1> DEFINE W == With(C, msgs, "running")
             h == Head(msgs)
             T == [W.turn EXCEPT ![h] = [state |-> "running", msgs |-> msgs]]
  <1>1. Sound(W) /\ W.queue = C.queue /\ W.inflight = NoTurn
    BY WithSound
  <1>2. Run(C, msgs) = [queue |-> W.queue, inflight |-> h, turn |-> T, caller |-> W.caller]
    <2> DEFINE r == [state |-> "running", msgs |-> msgs]
    <2>1. Run(C, msgs) = Placed(W, h, h, r)
      BY DEF Run, Placed
    <2>2. Shaped(W)
      BY <1>1 DEF Sound
    <2>3. T = [W.turn EXCEPT ![h] = r]
      OBVIOUS
    <2> HIDE DEF W, h, r, T
    <2>4. QED  BY <2>1, <2>2, <2>3, SlotUpdate
  <1>3. ASSUME NEW t \in Msg
        PROVE  T[t] = IF t = h THEN [state |-> "running", msgs |-> msgs] ELSE W.turn[t]
    BY <1>1 DEF Sound, Shaped
  <1>4. ASSUME NEW t \in Msg PROVE W.turn[t].state # "running"
    BY <1>1, TurnsAssumption DEF Sound, SlotHeld
  <1>5. T = [t \in Msg |-> [state |-> T[t].state, msgs |-> T[t].msgs]]
    BY <1>1, <1>3 DEF Sound, Shaped
  <1>6. \A t \in Msg : T[t].state = "running" <=> h = t
    BY <1>3, <1>4
  <1> HIDE DEF W, h, T
  <1>7. QED  BY <1>1, <1>2, <1>5, <1>6 DEF Sound, Shaped, SlotHeld

\* A stop frees the slot in the same step.
LEMMA StoppedSound ==
  ASSUME NEW C, Sound(C)
  PROVE  Sound(Stopped(C)) /\ Stopped(C).inflight = NoTurn /\ Stopped(C).queue = C.queue
  <1>1. CASE C.inflight = NoTurn  BY <1>1 DEF Stopped
  <1>2. CASE C.inflight # NoTurn
    <2> DEFINE T == [C.turn EXCEPT ![C.inflight].state = "stopped"]
    <2>1. Stopped(C) = [queue |-> C.queue, inflight |-> NoTurn, turn |-> T, caller |-> C.caller]
      BY <1>2 DEF Stopped, Sound, Shaped
    <2>2. ASSUME NEW t \in Msg
          PROVE  T[t] = IF t = C.inflight THEN [state |-> "stopped", msgs |-> C.turn[t].msgs]
                                          ELSE C.turn[t]
      BY DEF Sound, Shaped
    <2>3. T = [t \in Msg |-> [state |-> T[t].state, msgs |-> T[t].msgs]]
      BY <2>2 DEF Sound, Shaped
    <2> HIDE DEF T
    <2>4. ASSUME NEW t \in Msg PROVE T[t].state # "running"
      <3>1. CASE t = C.inflight
        <4>1. T[t] = [state |-> "stopped", msgs |-> C.turn[t].msgs]  BY <3>1, <2>2
        <4>2. QED  BY <4>1
      <3>2. CASE t # C.inflight  BY <3>2, <2>2 DEF Sound, SlotHeld
      <3>3. QED  BY <3>1, <3>2
    <2>5. QED  BY <2>1, <2>3, <2>4, TurnsAssumption DEF Sound, Shaped, SlotHeld
  <1>3. QED  BY <1>1, <1>2

\* A turn that returns frees the slot it holds, and no other's.
LEMMA ReturnedSound ==
  ASSUME NEW C, NEW t \in Msg, Sound(C)
  PROVE  LET D == Returned(C, t) IN
         /\ Sound(D) /\ D.queue = C.queue
         /\ D.inflight = IF C.inflight = t THEN NoTurn ELSE C.inflight
  <1> DEFINE W == With(C, C.turn[t].msgs, "settled")
             T == [W.turn EXCEPT ![t] = NotRun]
             i == IF W.inflight = t THEN NoTurn ELSE W.inflight
  <1>1. Sound(W) /\ W.queue = C.queue /\ W.inflight = C.inflight
    BY WithSound
  <1>2. Returned(C, t) = [queue |-> W.queue, inflight |-> i, turn |-> T, caller |-> W.caller]
    <2>1. Returned(C, t) = Placed(W, i, t, NotRun)
      BY DEF Returned, Placed
    <2>2. Shaped(W)
      BY <1>1 DEF Sound
    <2>3. T = [W.turn EXCEPT ![t] = NotRun]
      OBVIOUS
    <2> HIDE DEF W, i, T
    <2>4. QED  BY <2>1, <2>2, <2>3, SlotUpdate
  <1>3. ASSUME NEW u \in Msg PROVE T[u] = IF u = t THEN NotRun ELSE W.turn[u]
    BY <1>1 DEF Sound, Shaped
  <1>4. T = [u \in Msg |-> [state |-> T[u].state, msgs |-> T[u].msgs]]
    BY <1>1, <1>3 DEF Sound, Shaped, NotRun
  <1>5. ASSUME NEW u \in Msg PROVE T[u].state = "running" <=> i = u
    <2>1. CASE u = t  BY <2>1, <1>3, TurnsAssumption DEF NotRun
    <2>2. CASE u # t  BY <2>2, <1>1, <1>3, TurnsAssumption DEF Sound, SlotHeld
    <2>3. QED  BY <2>1, <2>2
  <1>6. i = IF C.inflight = t THEN NoTurn ELSE C.inflight  BY <1>1
  <1> HIDE DEF W, T, i
  <1>7. QED  BY <1>1, <1>2, <1>4, <1>5, <1>6 DEF Sound, Shaped, SlotHeld

\* Rejecting the queue empties it and leaves the slot alone.
LEMMA RejectedSound ==
  ASSUME NEW C, Sound(C)
  PROVE  LET D == Rejected(C) IN Sound(D) /\ D.queue = <<>> /\ D.inflight = C.inflight
  <1> DEFINE E == [C EXCEPT !.queue = <<>>]
  <1>1. E = [queue |-> <<>>, inflight |-> C.inflight, turn |-> C.turn, caller |-> C.caller]
    BY DEF Sound, Shaped
  <1>2. Sound(E) /\ E.queue = <<>> /\ E.inflight = C.inflight
    BY <1>1 DEF Sound, Shaped, SlotHeld
  <1> HIDE DEF E
  <1>3. Rejected(C) = With(E, Sends(C.queue), "settled")  BY DEF Rejected, E
  <1>4. QED  BY <1>2, <1>3, WithSound

\* A queue that is replaced, and callers who change state, leave the slot alone.
LEMMA RequeuedSound ==
  ASSUME NEW C, NEW q, NEW msgs, NEW state, Sound(C)
  PROVE  LET D == With([C EXCEPT !.queue = q], msgs, state) IN
         Sound(D) /\ D.queue = q /\ D.inflight = C.inflight
  <1> DEFINE E == [C EXCEPT !.queue = q]
  <1>1. E = [queue |-> q, inflight |-> C.inflight, turn |-> C.turn, caller |-> C.caller]
    BY DEF Sound, Shaped
  <1>2. Sound(E) /\ E.queue = q /\ E.inflight = C.inflight
    BY <1>1 DEF Sound, Shaped, SlotHeld
  <1> HIDE DEF E
  <1>3. With(E, msgs, state) = With([C EXCEPT !.queue = q], msgs, state)  BY DEF E
  <1>4. QED  BY <1>2, <1>3, WithSound

\* A message that has to wait leaves the slot alone, whether it coalesces or not.
LEMMA EnqueuedSound ==
  ASSUME NEW C, NEW m, Sound(C)
  PROVE  Sound(Enqueued(C, m)) /\ Enqueued(C, m).inflight = C.inflight
  <1>1. ASSUME NEW q
        PROVE  LET D == With([C EXCEPT !.queue = q], <<m>>, "waiting") IN
               Sound(D) /\ D.inflight = C.inflight
    BY RequeuedSound
  <1>2. PICK q : Enqueued(C, m) = With([C EXCEPT !.queue = q], <<m>>, "waiting")
    BY Zenon DEF Enqueued
  <1>3. QED  BY <1>1, <1>2

\* The merged head of the queue becomes a turn; the slot has to be free.
LEMMA DispatchedSound ==
  ASSUME NEW C, Sound(C), C.inflight = NoTurn
  PROVE  Sound(Dispatched(C))
  <1>1. ASSUME NEW q, NEW msgs PROVE Sound(Run([C EXCEPT !.queue = q], msgs))
    <2> DEFINE E == [C EXCEPT !.queue = q]
    <2>1. E = [queue |-> q, inflight |-> C.inflight, turn |-> C.turn, caller |-> C.caller]
      BY DEF Sound, Shaped
    <2>2. Sound(E) /\ E.inflight = NoTurn
      BY <2>1 DEF Sound, Shaped, SlotHeld
    <2> HIDE DEF E
    <2>3. Sound(Run(E, msgs))  BY <2>2, RunSound
    <2>4. QED  BY <2>3 DEF E
  <1>2. QED  BY <1>1 DEF Dispatched

\* Draining an idle conversation; with nothing in line it changes nothing.
LEMMA DrainedSound ==
  ASSUME NEW C, NEW down, Sound(C), C.inflight = NoTurn
  PROVE  Sound(Drained(C, down)) /\ (C.queue = <<>> => Drained(C, down) = C)
  BY DispatchedSound DEF Drained

-----------------------------------------------------------------------------
(* The steps.                                                              *)

\* An idle conversation with AI on: nothing runs, nothing waits.
LEMMA InitSound == Init => IInv
  <1> SUFFICES ASSUME Init PROVE IInv
    OBVIOUS
  <1>1. Shaped(conv)  BY DEF Init, Shaped, NotRun
  <1>2. SlotHeld(conv)  BY TurnsAssumption DEF Init, SlotHeld, NotRun
  <1>3. QED  BY <1>1, <1>2 DEF Init, IInv, Sound, StaysQuiet

\* A message that is sent, and one that interrupts.
LEMMA ClientStep ==
  ASSUME IInv, NEW m \in Msg, Send(m) \/ Interrupt(m) \/ InterruptResumes(m)
  PROVE  IInv'
  <1>1. CASE Send(m)
    <2>1. CASE Idle
      BY <1>1, <2>1, RunSound DEF Send, Idle, Admitting, IInv, StaysQuiet
    <2>2. CASE ~Idle
      BY <1>1, <2>2, EnqueuedSound DEF Send, Admitting, IInv, StaysQuiet
    <2>3. QED  BY <2>1, <2>2
  <1>2. CASE Interrupt(m)
    <2> DEFINE S == Stopped(conv)
    <2>1. Sound(S)
      BY StoppedSound DEF IInv
    <2>2. ASSUME NEW q PROVE Sound(With([S EXCEPT !.queue = q], <<m>>, "waiting"))
      <3> HIDE DEF S
      <3>1. QED  BY <2>1, RequeuedSound
    <2>3. PICK q : conv' = With([S EXCEPT !.queue = q], <<m>>, "waiting")
      BY <1>2, Zenon DEF Interrupt
    <2> HIDE DEF S
    <2>4. Sound(conv')  BY <2>2, <2>3
    <2>5. QED  BY <1>2, <2>4 DEF Interrupt, Admitting, IInv, StaysQuiet
  <1>3. CASE InterruptResumes(m)
    <2>1. CASE conv.inflight = NoTurn
      <3>1. conv' = Drained(conv, teardown) /\ UNCHANGED <<mode, sweep, shutdown>>
        BY <1>3, <2>1 DEF InterruptResumes
      <3>2. Sound(conv') /\ (conv.queue = <<>> => conv' = conv)
        BY <3>1, <2>1, DrainedSound DEF IInv
      <3>3. QED  BY <3>1, <3>2 DEF IInv, StaysQuiet
    <2>2. CASE conv.inflight # NoTurn
      BY <1>3, <2>2 DEF InterruptResumes, IInv, StaysQuiet
    <2>3. QED  BY <2>1, <2>2
  <1>4. QED  BY <1>1, <1>2, <1>3

\* A turn that takes its slot again, and turns that return, late or in time.
LEMMA TurnStep ==
  ASSUME IInv, NEW t \in Msg, Reclaim(t) \/ TurnEndsLate(t) \/ TurnEnds(t)
  PROVE  IInv'
  <1>1. CASE Reclaim(t)
    <2>1. conv.inflight = t
      BY <1>1 DEF Reclaim, IInv, Sound, SlotHeld
    <2>2. conv' = conv
      BY <1>1, <2>1 DEF Reclaim, IInv, Sound, Shaped
    <2>3. QED  BY <1>1, <2>2 DEF Reclaim, IInv, StaysQuiet
  <1>2. CASE TurnEndsLate(t)
    <2>1. conv' = Returned(conv, t) /\ UNCHANGED <<mode, sweep, shutdown>>
      BY <1>2 DEF TurnEndsLate
    <2>2. Sound(conv') /\ conv'.queue = conv.queue /\ conv'.inflight \in {NoTurn, conv.inflight}
      BY <2>1, ReturnedSound DEF IInv
    <2>3. QED  BY <2>1, <2>2 DEF IInv, StaysQuiet
  <1>3. CASE TurnEnds(t)
    <2> DEFINE R == Returned(conv, t)
    <2>1. conv' = Drained(R, teardown') /\ UNCHANGED <<mode, sweep, shutdown>>
      BY <1>3 DEF TurnEnds
    <2>2. Sound(R) /\ R.queue = conv.queue /\ R.inflight = NoTurn
      BY <1>3, ReturnedSound DEF TurnEnds, IInv
    <2> HIDE DEF R
    <2>3. Sound(conv') /\ (conv.queue = <<>> => conv'.queue = <<>> /\ conv'.inflight = NoTurn)
      BY <2>1, <2>2, DrainedSound
    <2>4. QED  BY <2>1, <2>3 DEF IInv, StaysQuiet
  <1>4. QED  BY <1>1, <1>2, <1>3

\* Stops, rejections, the teardown of a session, AI off and on, shutdown.
LEMMA DaemonStep ==
  ASSUME IInv, \/ StopTurn \/ RejectQueue \/ Retire \/ TeardownEnds \/ EmergencyStop
               \/ TurnOff \/ SweepQueue \/ TurnOn \/ ShutdownBegins \/ ShutdownSweeps
  PROVE  IInv'
  <1>1. CASE StopTurn
    BY <1>1, StoppedSound DEF StopTurn, IInv, StaysQuiet
  <1>2. CASE RejectQueue
    BY <1>2, RejectedSound DEF RejectQueue, IInv, StaysQuiet
  <1>3. CASE TeardownEnds
    <2>1. CASE conv.inflight = NoTurn
      <3>1. conv' = Drained(conv, "done") /\ UNCHANGED <<mode, sweep, shutdown>>
        BY <1>3, <2>1 DEF TeardownEnds
      <3>2. Sound(conv') /\ (conv.queue = <<>> => conv' = conv)
        BY <3>1, <2>1, DrainedSound DEF IInv
      <3>3. QED  BY <3>1, <3>2 DEF IInv, StaysQuiet
    <2>2. CASE conv.inflight # NoTurn
      BY <1>3, <2>2 DEF TeardownEnds, IInv, StaysQuiet
    <2>3. QED  BY <2>1, <2>2
  <1>4. Sound(Stopped(Rejected(conv))) /\ Stopped(Rejected(conv)).queue = <<>>
        /\ Stopped(Rejected(conv)).inflight = NoTurn
    BY RejectedSound, StoppedSound DEF IInv
  <1>5. CASE EmergencyStop
    BY <1>4, <1>5 DEF EmergencyStop, IInv, StaysQuiet
  <1>6. CASE ShutdownSweeps
    BY <1>4, <1>6 DEF ShutdownSweeps, IInv, StaysQuiet
  <1>7. CASE SweepQueue
    BY <1>7, RejectedSound DEF SweepQueue, IInv, StaysQuiet
  <1>8. CASE Retire \/ TurnOff \/ TurnOn \/ ShutdownBegins
    BY <1>8 DEF Retire, TurnOff, TurnOn, ShutdownBegins, IInv, StaysQuiet
  <1>9. QED  BY <1>1, <1>2, <1>3, <1>5, <1>6, <1>7, <1>8

\* Discarding a waiting message needs a queue that is not empty.
LEMMA DiscardStep ==
  ASSUME IInv, NEW i \in DOMAIN conv.queue, Discard(i)
  PROVE  IInv'
  <1>1. PICK q, msgs : conv' = With([conv EXCEPT !.queue = q], msgs, "settled")
    BY Zenon DEF Discard
  <1>2. Sound(conv') /\ conv'.inflight = conv.inflight
    BY <1>1, RequeuedSound DEF IInv
  <1>3. conv.queue # <<>>
    OBVIOUS
  <1>4. QED  BY <1>2, <1>3 DEF Discard, IInv, StaysQuiet

\* No step of the conversation breaks the invariant.
LEMMA StepSound == IInv /\ [Next]_vars => IInv'
  <1> SUFFICES ASSUME IInv, [Next]_vars PROVE IInv'
    OBVIOUS
  <1>1. ASSUME NEW m \in Msg, Send(m) \/ Interrupt(m) \/ InterruptResumes(m) PROVE IInv'
    BY <1>1, ClientStep
  <1>2. ASSUME NEW m \in Msg, Reclaim(m) \/ TurnEndsLate(m) \/ TurnEnds(m) PROVE IInv'
    BY <1>2, TurnStep
  <1>3. ASSUME NEW i \in DOMAIN conv.queue, Discard(i) PROVE IInv'
    BY <1>3, DiscardStep
  <1>4. CASE \/ StopTurn \/ RejectQueue \/ Retire \/ TeardownEnds \/ EmergencyStop
             \/ TurnOff \/ SweepQueue \/ TurnOn \/ ShutdownBegins \/ ShutdownSweeps
    BY <1>4, DaemonStep
  <1>5. CASE UNCHANGED vars
    BY <1>5 DEF vars, IInv, Sound, Shaped, SlotHeld, StaysQuiet
  <1>6. QED  BY <1>1, <1>2, <1>3, <1>4, <1>5 DEF Next

\* A turn that was not stopped holds the slot, and only it: at most one turn of
\* the conversation is under way (runSendAndDrain, finishSessionTurn).
THEOREM OneTurnAlways == Spec => []OneTurn
  <1>1. IInv => OneTurn
    BY DEF IInv, Sound, SlotHeld, OneTurn
  <1>2. QED  BY <1>1, InitSound, StepSound, PTL DEF Spec

\* After AI was turned off or the daemon shut down, and the queues were swept,
\* nothing waits that could start (onEngagementModeChangedToOff, beginShutdown).
THEOREM QuietAlways == Spec => []StaysQuiet
  <1>1. IInv => StaysQuiet
    BY DEF IInv
  <1>2. QED  BY <1>1, InitSound, StepSound, PTL DEF Spec

-----------------------------------------------------------------------------
(* Who waits, who is answered, and in whose voice.                         *)

\* The messages come from one sender and origin.
OneVoiced(msgs) == \A m, n \in Range(msgs) : Bucket[m] = Bucket[n]

Carried(C) ==
  \A t \in Msg : \A m \in Range(C.turn[t].msgs) :
    C.caller[m] = "running" /\ \A u \in Msg \ {t} : m \notin Range(C.turn[u].msgs)

\* What holds of a conversation between two steps, beside Sound.
Kept(C) ==
  /\ C \in Conversation
  /\ IsInjective(Sends(C.queue))
  /\ \A m \in Msg : C.caller[m] = "waiting" <=> m \in Range(Sends(C.queue))
  /\ \A t \in Msg : C.turn[t].state # "none" => t = Head(C.turn[t].msgs)
  /\ Carried(C)
  /\ \A i \in DOMAIN C.queue : OneVoiced(C.queue[i].msgs)
  /\ \A t \in Msg : OneVoiced(C.turn[t].msgs)

Whole(C) == Sound(C) /\ Kept(C)

\* The messages in line, as sequences of entries are cut and joined.
LEMMA SendsConcat ==
  ASSUME NEW p \in Seq(Entry), NEW q \in Seq(Entry)
  PROVE  Sends(p) \in Seq(Msg) /\ Sends(p \o q) = Sends(p) \o Sends(q)
  <1> DEFINE M(r) == [i \in DOMAIN r |-> r[i].msgs]
  <1>1. ASSUME NEW r \in Seq(Entry) PROVE M(r) \in Seq(Seq(Msg)) /\ Len(M(r)) = Len(r)
    <2>1. DOMAIN r = 1 .. Len(r) /\ Len(r) \in Nat /\ \A i \in 1 .. Len(r) : r[i] \in Entry
      OBVIOUS
    <2>2. \A i \in 1 .. Len(r) : r[i].msgs \in Seq(Msg)
      BY <2>1 DEF Entry
    <2>3. M(r) \in [1 .. Len(r) -> Seq(Msg)]
      BY <2>1, <2>2
    <2>4. QED  BY <2>1, <2>3
  <1>2. p \o q \in Seq(Entry) /\ Len(p \o q) = Len(p) + Len(q)
    BY ConcatProperties
  <1>3. M(p \o q) = M(p) \o M(q)
    <2>1. Len(p) \in Nat /\ Len(q) \in Nat
      OBVIOUS
    <2>2. \A i \in 1 .. Len(p) + Len(q) : (p \o q)[i] = IF i <= Len(p) THEN p[i] ELSE q[i - Len(p)]
      BY ConcatProperties
    <2>3. M(p) \in Seq(Seq(Msg)) /\ M(q) \in Seq(Seq(Msg)) /\ M(p \o q) \in Seq(Seq(Msg))
          /\ Len(M(p)) = Len(p) /\ Len(M(q)) = Len(q) /\ Len(M(p \o q)) = Len(p) + Len(q)
      BY <1>1, <1>2
    <2>4. /\ \A i \in 1 .. Len(p) : M(p)[i] = p[i].msgs
          /\ \A i \in 1 .. Len(q) : M(q)[i] = q[i].msgs
          /\ \A i \in 1 .. Len(p) + Len(q) : M(p \o q)[i] = (p \o q)[i].msgs
      BY <1>2
    <2> HIDE DEF M
    <2>5. /\ M(p) \o M(q) \in Seq(Seq(Msg)) /\ Len(M(p) \o M(q)) = Len(p) + Len(q)
          /\ \A i \in 1 .. Len(p) + Len(q) :
               (M(p) \o M(q))[i] = IF i <= Len(p) THEN M(p)[i] ELSE M(q)[i - Len(p)]
      <3> DEFINE a == M(p)  b == M(q)
      <3>1. a \in Seq(Seq(Msg)) /\ b \in Seq(Seq(Msg)) /\ Len(a) = Len(p) /\ Len(b) = Len(q)
        BY <2>3
      <3> HIDE DEF a, b
      <3>2. /\ a \o b \in Seq(Seq(Msg)) /\ Len(a \o b) = Len(a) + Len(b)
            /\ \A i \in 1 .. Len(a) + Len(b) :
                 (a \o b)[i] = IF i <= Len(a) THEN a[i] ELSE b[i - Len(a)]
        BY <3>1, ConcatProperties
      <3>3. QED  BY <3>1, <3>2 DEF a, b
    <2>6. ASSUME NEW i \in 1 .. Len(p) + Len(q) PROVE M(p \o q)[i] = (M(p) \o M(q))[i]
      <3>1. CASE i <= Len(p)
        <4>1. i \in 1 .. Len(p)
          BY <2>1, <3>1
        <4>2. QED  BY <2>2, <2>4, <2>5, <3>1, <4>1
      <3>2. CASE ~(i <= Len(p))
        <4>1. i - Len(p) \in 1 .. Len(q)
          BY <2>1, <3>2
        <4>2. QED  BY <2>2, <2>4, <2>5, <3>2, <4>1
      <3>3. QED  BY <3>1, <3>2
    <2>7. QED  BY <2>3, <2>5, <2>6, SeqEqual
  <1>4. M(p) \in Seq(Seq(Msg)) /\ M(q) \in Seq(Seq(Msg))
    BY <1>1
  <1>5. Sends(p) = FlattenSeq(M(p)) /\ Sends(q) = FlattenSeq(M(q)) /\ Sends(p \o q) = FlattenSeq(M(p \o q))
    BY DEF Sends
  <1> DEFINE a == M(p)  b == M(q)
  <1>6. /\ a \in Seq(Seq(Msg)) /\ b \in Seq(Seq(Msg))
        /\ Sends(p) = FlattenSeq(a) /\ Sends(q) = FlattenSeq(b) /\ Sends(p \o q) = FlattenSeq(a \o b)
    BY <1>3, <1>4, <1>5
  <1> HIDE DEF M, a, b
  <1>7. QED  BY <1>6, FlattenConcat, FlattenType

\* The senders of a single entry are those it carries.
LEMMA SendsOne ==
  ASSUME NEW e \in Entry
  PROVE  Sends(<<e>>) = e.msgs /\ Sends(<<>>) = <<>>
  <1>1. [i \in DOMAIN <<e>> |-> <<e>>[i].msgs] = <<e.msgs>>
    OBVIOUS
  <1>2. e.msgs \in Seq(Msg)
    BY DEF Entry
  <1>3. Sends(<<e>>) = e.msgs
    BY <1>1, <1>2, FlattenOne DEF Sends
  <1>4. [i \in DOMAIN <<>> |-> <<>>[i].msgs] = <<>>
    OBVIOUS
  <1>5. QED  BY <1>3, <1>4, FlattenEmpty DEF Sends

\* Somebody stands in line exactly if an entry carries him.
LEMMA SendsRange ==
  ASSUME NEW q \in Seq(Entry), NEW m
  PROVE  m \in Range(Sends(q)) <=> \E i \in 1 .. Len(q) : m \in Range(q[i].msgs)
  <1> DEFINE M == [i \in DOMAIN q |-> q[i].msgs]
  <1>1. DOMAIN q = 1 .. Len(q) /\ Len(q) \in Nat /\ \A i \in 1 .. Len(q) : q[i] \in Entry
    OBVIOUS
  <1>2. \A i \in 1 .. Len(q) : M[i] = q[i].msgs /\ M[i] \in Seq(Msg)
    BY <1>1 DEF Entry
  <1>3. M \in Seq(Seq(Msg)) /\ Len(M) = Len(q)
    <2>1. M \in [1 .. Len(q) -> Seq(Msg)]
      BY <1>1, <1>2
    <2>2. QED  BY <1>1, <2>1
  <1>4. Sends(q) = FlattenSeq(M)
    BY DEF Sends
  <1> HIDE DEF M
  <1>5. m \in Range(FlattenSeq(M)) <=> \E i \in 1 .. Len(M) : m \in Range(M[i])
    BY <1>3, FlattenRange
  <1>6. QED  BY <1>2, <1>3, <1>4, <1>5

\* Somebody stands behind every entry.
LEMMA SendsNonempty ==
  ASSUME NEW q \in Seq(Entry), q # <<>>
  PROVE  Sends(q) \in Seq(Msg) \ {<<>>}
  <1>1. Sends(q) \in Seq(Msg)
    BY SendsConcat
  <1>2. 1 \in 1 .. Len(q) /\ q[1] \in Entry
    OBVIOUS
  <1>3. q[1].msgs \in Seq(Msg) /\ q[1].msgs # <<>>
    BY <1>2 DEF Entry
  <1>4. q[1].msgs[1] \in Range(q[1].msgs)
    BY <1>3 DEF Range
  <1>5. q[1].msgs[1] \in Range(Sends(q))
    BY <1>2, <1>4, SendsRange
  <1>6. Range(<<>>) = {}
    BY DEF Range
  <1>7. QED  BY <1>1, <1>5, <1>6

\* The refinement mapping of Order, as functions of a conversation.
Line(C) == Sends(C.queue)
Active(C) == IF C.inflight = NoTurn THEN {} ELSE Range(C.turn[C.inflight].msgs)
Stalled(C) == {u \in Msg : C.turn[u].state = "stopped"}
Unwinding(C) == UNION {Range(C.turn[t].msgs) : t \in Stalled(C)}
Over(C) == {m \in Msg : C.caller[m] = "settled"}

\* What the type of a conversation says of its fields.
LEMMA ConversationFields ==
  ASSUME NEW C, C \in Conversation
  PROVE  /\ C.queue \in Seq(Entry) /\ C.inflight \in Msg \cup {NoTurn} /\ C.turn \in [Msg -> Turn]
         /\ C.caller \in [Msg -> {"new", "waiting", "running", "settled"}]
         /\ \A t \in Msg : /\ C.turn[t].state \in {"none", "running", "stopped"}
                           /\ C.turn[t].msgs \in Seq(Msg)
                           /\ C.turn[t].state # "none" => C.turn[t].msgs # <<>>
                           /\ C.turn[t].state = "none" => C.turn[t] = NotRun
                           /\ C.turn[t].msgs = <<>> => Range(C.turn[t].msgs) = {}
         /\ Sends(C.queue) \in Seq(Msg)
  <1>1. /\ C.queue \in Seq(Entry) /\ C.inflight \in Msg \cup {NoTurn} /\ C.turn \in [Msg -> Turn]
        /\ C.caller \in [Msg -> {"new", "waiting", "running", "settled"}]
    BY DEF Conversation
  <1>2. ASSUME NEW t \in Msg
        PROVE  /\ C.turn[t].state \in {"none", "running", "stopped"}
               /\ C.turn[t].msgs \in Seq(Msg)
               /\ C.turn[t].state # "none" => C.turn[t].msgs # <<>>
               /\ C.turn[t].state = "none" => C.turn[t] = NotRun
    <2>1. C.turn[t] \in Turn
      BY <1>1
    <2>2. CASE C.turn[t] = NotRun  BY <2>2 DEF NotRun
    <2>3. CASE C.turn[t] \in [state : {"running", "stopped"}, msgs : Seq(Msg) \ {<<>>}]
      BY <2>3
    <2>4. QED  BY <2>1, <2>2, <2>3 DEF Turn
  <1>3. Range(<<>>) = {}
    BY DEF Range
  <1>4. Sends(C.queue) \in Seq(Msg)
    BY <1>1, SendsConcat
  <1>5. QED  BY <1>1, <1>2, <1>3, <1>4

\* A turn that runs or unwinds carries the message it is named by.
LEMMA NamedBy ==
  ASSUME NEW C, Kept(C), NEW t \in Msg, C.turn[t].state # "none"
  PROVE  t \in Range(C.turn[t].msgs) /\ C.caller[t] = "running"
  <1>1. C.turn[t].msgs \in Seq(Msg) /\ C.turn[t].msgs # <<>>
    BY ConversationFields DEF Kept
  <1>2. t = Head(C.turn[t].msgs)
    BY DEF Kept
  <1>3. t \in Range(C.turn[t].msgs)
    BY <1>1, <1>2, TailFacts
  <1>4. QED  BY <1>3 DEF Kept, Carried

\* The active senders and those who unwind, by the state of their turns.
LEMMA ActiveIs ==
  ASSUME NEW C, Whole(C)
  PROVE  /\ C.inflight # NoTurn => /\ C.inflight \in Msg /\ C.turn[C.inflight].state = "running"
                                   /\ Active(C) = Range(C.turn[C.inflight].msgs)
         /\ C.inflight = NoTurn => Active(C) = {}
         /\ \A m \in Active(C) \cup Unwinding(C) : m \in Msg /\ C.caller[m] = "running"
  <1>1. C.inflight # NoTurn => C.inflight \in Msg /\ C.turn[C.inflight].state = "running"
    BY ConversationFields DEF Whole, Kept, Sound, SlotHeld
  <1>2. ASSUME NEW t \in Msg, NEW m \in Range(C.turn[t].msgs)
        PROVE  m \in Msg /\ C.caller[m] = "running"
    <2>1. C.turn[t].msgs \in Seq(Msg)
      BY ConversationFields DEF Whole, Kept
    <2>2. m \in Msg
      BY <2>1, RangeOfSeq
    <2>3. QED  BY <2>2 DEF Whole, Kept, Carried
  <1>3. ASSUME NEW m \in Active(C) PROVE m \in Msg /\ C.caller[m] = "running"
    BY <1>1, <1>2 DEF Active
  <1>4. ASSUME NEW m \in Unwinding(C) PROVE m \in Msg /\ C.caller[m] = "running"
    BY <1>2 DEF Unwinding, Stalled
  <1>5. QED  BY <1>1, <1>3, <1>4 DEF Active

-----------------------------------------------------------------------------
(* What the helpers do to who waits and who is answered.                   *)

\* The queue is replaced and callers change their state.
Requeued(C, q, msgs, state) == With([C EXCEPT !.queue = q], msgs, state)

\* The fields of a conversation whose queue and callers were replaced.
LEMMA RequeuedFields ==
  ASSUME NEW C, C \in Conversation, NEW q \in Seq(Entry), NEW msgs \in Seq(Msg),
         NEW state \in {"new", "waiting", "running", "settled"}
  PROVE  LET D == Requeued(C, q, msgs, state) IN
         /\ D \in Conversation /\ D.queue = q /\ D.inflight = C.inflight /\ D.turn = C.turn
         /\ \A m \in Msg : D.caller[m] = IF m \in Range(msgs) THEN state ELSE C.caller[m]
  <1> DEFINE E == [C EXCEPT !.queue = q]
             caller == [m \in Msg |-> IF m \in Range(msgs) THEN state ELSE C.caller[m]]
             D == With(E, msgs, state)
  <1>1. E \in Conversation /\ E.queue = q /\ E.inflight = C.inflight /\ E.turn = C.turn
        /\ E.caller = C.caller
    BY DEF Conversation
  <1> HIDE DEF E
  <1>2. caller \in [Msg -> {"new", "waiting", "running", "settled"}]
    BY DEF Conversation
  <1>3. D = [E EXCEPT !.caller = caller]
    BY <1>1 DEF With, Conversation
  <1> HIDE DEF D
  <1>4. /\ D \in Conversation /\ D.queue = E.queue /\ D.inflight = E.inflight /\ D.turn = E.turn
        /\ D.caller = caller
    BY <1>1, <1>2, <1>3 DEF Conversation
  <1>5. \A m \in Msg : D.caller[m] = IF m \in Range(msgs) THEN state ELSE C.caller[m]
    BY <1>4
  <1> HIDE DEF caller
  <1>6. QED  BY <1>1, <1>4, <1>5 DEF D, E, Requeued

\* D is C with another line and others to whom it is over.
Moved(C, D, line, over) ==
  /\ Kept(D) /\ Line(D) = line /\ Active(D) = Active(C) /\ Unwinding(D) = Unwinding(C)
  /\ Over(D) = over

Voiced(q) == \A i \in DOMAIN q : OneVoiced(q[i].msgs)

\* Who joins the line was new; who leaves it hears so.
LEMMA RequeuedKept ==
  ASSUME NEW C, Kept(C), NEW q \in Seq(Entry), NEW msgs \in Seq(Msg), NEW state,
         IsInjective(Sends(q)), Voiced(q),
         \/ /\ state = "waiting" /\ Range(Sends(q)) = Range(Line(C)) \cup Range(msgs)
            /\ \A m \in Range(msgs) : C.caller[m] = "new"
         \/ /\ state = "settled" /\ Range(Sends(q)) = Range(Line(C)) \ Range(msgs)
            /\ Range(msgs) \subseteq Range(Line(C))
  PROVE  Moved(C, Requeued(C, q, msgs, state), Sends(q),
               IF state = "settled" THEN Over(C) \cup Range(msgs) ELSE Over(C))
  <1> DEFINE D == Requeued(C, q, msgs, state)
  <1>1. /\ D \in Conversation /\ D.queue = q /\ D.inflight = C.inflight /\ D.turn = C.turn
        /\ \A m \in Msg : D.caller[m] = IF m \in Range(msgs) THEN state ELSE C.caller[m]
    <2>1. C \in Conversation
      BY DEF Kept
    <2>2. state \in {"new", "waiting", "running", "settled"}
      OBVIOUS
    <2>3. QED  BY <2>1, <2>2, RequeuedFields
  <1> HIDE DEF D
  <1>2. \A m \in Msg : D.caller[m] = IF m \in Range(msgs) THEN state ELSE C.caller[m]
    BY <1>1
  <1>3. Range(msgs) \subseteq Msg /\ \A m \in Range(msgs) : C.caller[m] # "running"
    <2>1. Range(msgs) \subseteq Msg
      BY RangeOfSeq
    <2>2. QED  BY <2>1 DEF Kept, Line
  <1>4. Carried(D)
    <2>1. ASSUME NEW t \in Msg, NEW m \in Range(D.turn[t].msgs)
          PROVE  D.caller[m] = "running" /\ \A u \in Msg \ {t} : m \notin Range(D.turn[u].msgs)
      <3>1. m \in Range(C.turn[t].msgs) /\ C.turn[t].msgs \in Seq(Msg)
        BY <1>1, <2>1, ConversationFields DEF Kept
      <3>2. m \in Msg
        BY <3>1, RangeOfSeq
      <3>3. C.caller[m] = "running" /\ \A u \in Msg \ {t} : m \notin Range(C.turn[u].msgs)
        BY <3>1 DEF Kept, Carried
      <3>4. QED  BY <1>1, <1>2, <1>3, <3>2, <3>3
    <2>2. QED  BY <2>1 DEF Carried
  <1>5. \A m \in Msg : D.caller[m] = "waiting" <=> m \in Range(Sends(q))
    BY <1>2, <1>3 DEF Kept, Line
  <1>6. Kept(D)
    BY <1>1, <1>4, <1>5 DEF Kept, Voiced
  <1>7. Active(D) = Active(C) /\ Unwinding(D) = Unwinding(C) /\ Line(D) = Sends(q)
    BY <1>1 DEF Active, Unwinding, Stalled, Line
  <1>8. Over(D) = IF state = "settled" THEN Over(C) \cup Range(msgs) ELSE Over(C)
    BY <1>2, <1>3 DEF Over
  <1>9. QED  BY <1>6, <1>7, <1>8 DEF D, Moved

\* The case of those who join the line.
LEMMA JoinedKept ==
  ASSUME NEW C, Kept(C), NEW q \in Seq(Entry), NEW msgs \in Seq(Msg), IsInjective(Sends(q)), Voiced(q),
         Range(Sends(q)) = Range(Line(C)) \cup Range(msgs), \A m \in Range(msgs) : C.caller[m] = "new"
  PROVE  Moved(C, Requeued(C, q, msgs, "waiting"), Sends(q), Over(C))
  <1> DEFINE st == "waiting"
  <1>1. Moved(C, Requeued(C, q, msgs, st), Sends(q),
              IF st = "settled" THEN Over(C) \cup Range(msgs) ELSE Over(C))
    <2>1. st = "waiting"
      OBVIOUS
    <2> HIDE DEF st
    <2>2. QED  BY <2>1, RequeuedKept
  <1>2. QED  BY <1>1

\* The case of those who leave it.
LEMMA LeftKept ==
  ASSUME NEW C, Kept(C), NEW q \in Seq(Entry), NEW msgs \in Seq(Msg), IsInjective(Sends(q)), Voiced(q),
         Range(Sends(q)) = Range(Line(C)) \ Range(msgs), Range(msgs) \subseteq Range(Line(C))
  PROVE  Moved(C, Requeued(C, q, msgs, "settled"), Sends(q), Over(C) \cup Range(msgs))
  <1> DEFINE st == "settled"
  <1>1. Moved(C, Requeued(C, q, msgs, st), Sends(q),
              IF st = "settled" THEN Over(C) \cup Range(msgs) ELSE Over(C))
    <2>1. st = "settled"
      OBVIOUS
    <2> HIDE DEF st
    <2>2. QED  BY <2>1, RequeuedKept
  <1>2. QED  BY <1>1

\* A turn begins for messages nobody is answering yet.
LEMMA RunKept ==
  ASSUME NEW C, Whole(C), C.inflight = NoTurn, NEW q \in Seq(Entry), NEW msgs \in Seq(Msg) \ {<<>>},
         IsInjective(Sends(q)), Voiced(q), OneVoiced(msgs),
         Range(Sends(q)) = Range(Line(C)) \ Range(msgs),
         \A m \in Range(msgs) : C.caller[m] \in {"new", "waiting"}
  PROVE  LET D == Run([C EXCEPT !.queue = q], msgs) IN
         /\ Kept(D) /\ Line(D) = Sends(q) /\ Active(D) = Range(msgs) /\ Unwinding(D) = Unwinding(C)
         /\ Over(D) = Over(C)
  <1> DEFINE W == Requeued(C, q, msgs, "running")
             D == Run([C EXCEPT !.queue = q], msgs)
             h == Head(msgs)
             r == [state |-> "running", msgs |-> msgs]
  <1>1. /\ W \in Conversation /\ W.queue = q /\ W.inflight = C.inflight /\ W.turn = C.turn
        /\ \A m \in Msg : W.caller[m] = IF m \in Range(msgs) THEN "running" ELSE C.caller[m]
    <2>1. C \in Conversation
      BY DEF Whole, Kept
    <2>2. QED  BY <2>1, RequeuedFields
  <1>2. h \in Msg /\ h \in Range(msgs) /\ Range(msgs) \subseteq Msg
    BY TailFacts, RangeOfSeq
  <1>3. r \in Turn /\ r.state = "running" /\ r.msgs = msgs
    BY DEF Turn
  <1>4. D = [W EXCEPT !.inflight = h, !.turn[h] = r]
    BY DEF Run, Requeued
  <1> HIDE DEF W, D, h, r
  <1>5. /\ D \in Conversation /\ D.queue = q /\ D.inflight = h
        /\ D.turn = [C.turn EXCEPT ![h] = r] /\ D.caller = W.caller
    <2>1. W.turn \in [Msg -> Turn] /\ [W.turn EXCEPT ![h] = r] \in [Msg -> Turn]
      BY <1>1, <1>2, <1>3 DEF Conversation
    <2>2. D = [queue |-> W.queue, inflight |-> h, turn |-> [W.turn EXCEPT ![h] = r],
               caller |-> W.caller]
      BY <1>1, <1>4 DEF Conversation
    <2>3. QED  BY <1>1, <1>2, <2>1, <2>2 DEF Conversation
  <1>6. \A m \in Msg : D.caller[m] = IF m \in Range(msgs) THEN "running" ELSE C.caller[m]
    BY <1>1, <1>5
  <1>7. \A t \in Msg : D.turn[t] = IF t = h THEN r ELSE C.turn[t]
    BY <1>2, <1>5, ConversationFields DEF Whole, Kept
  <1>8. C.turn[h].state = "none"
    BY <1>2, NamedBy DEF Whole
  <1>9. \A t \in Msg : \A m \in Range(C.turn[t].msgs) : m \in Msg /\ m \notin Range(msgs)
    BY ConversationFields, RangeOfSeq DEF Whole, Kept, Carried
  <1>10. Carried(D)
    <2>1. ASSUME NEW t \in Msg, NEW m \in Range(D.turn[t].msgs)
          PROVE  D.caller[m] = "running" /\ \A u \in Msg \ {t} : m \notin Range(D.turn[u].msgs)
      <3>1. CASE t = h
        <4>1. m \in Range(msgs) /\ m \in Msg
          BY <1>2, <1>3, <1>7, <2>1, <3>1
        <4>2. QED  BY <1>6, <1>7, <1>9, <3>1, <4>1
      <3>2. CASE t # h
        <4>1. m \in Range(C.turn[t].msgs)
          BY <1>7, <2>1, <3>2
        <4>2. m \in Msg /\ m \notin Range(msgs) /\ C.caller[m] = "running"
              /\ \A u \in Msg \ {t} : m \notin Range(C.turn[u].msgs)
          BY <1>9, <4>1 DEF Whole, Kept, Carried
        <4>3. QED  BY <1>3, <1>6, <1>7, <4>2
      <3>3. QED  BY <3>1, <3>2
    <2>2. QED  BY <2>1 DEF Carried
  <1>11. \A m \in Msg : D.caller[m] = "waiting" <=> m \in Range(Sends(q))
    BY <1>6 DEF Whole, Kept, Line
  <1>12. \A t \in Msg : /\ D.turn[t].state # "none" => t = Head(D.turn[t].msgs)
                        /\ OneVoiced(D.turn[t].msgs)
    BY <1>3, <1>7 DEF Whole, Kept, h
  <1>13. Kept(D)
    BY <1>5, <1>10, <1>11, <1>12 DEF Kept, Voiced
  <1>14. Active(D) = Range(msgs)
    BY <1>2, <1>3, <1>5, <1>7, TurnsAssumption DEF Active
  <1>15. Unwinding(D) = Unwinding(C)
    <2>1. Stalled(D) = Stalled(C) /\ \A t \in Stalled(C) : D.turn[t] = C.turn[t]
      BY <1>3, <1>7, <1>8 DEF Stalled
    <2>2. QED  BY <2>1 DEF Unwinding
  <1>16. Over(D) = Over(C)
    BY <1>6 DEF Over
  <1>17. QED  BY <1>5, <1>13, <1>14, <1>15, <1>16 DEF D, Line

\* A stop moves the active senders to those who unwind.
LEMMA StoppedKept ==
  ASSUME NEW C, Whole(C)
  PROVE  LET D == Stopped(C) IN
         /\ Kept(D) /\ Line(D) = Line(C) /\ Active(D) = {} /\ Over(D) = Over(C)
         /\ Unwinding(D) = Unwinding(C) \cup Active(C)
  <1>1. CASE C.inflight = NoTurn
    <2>1. Stopped(C) = C /\ Active(C) = {}
      BY <1>1, ActiveIs DEF Stopped
    <2>2. QED  BY <2>1 DEF Whole
  <1>2. CASE C.inflight # NoTurn
    <2> DEFINE D == Stopped(C)
               i == C.inflight
               r == [state |-> "stopped", msgs |-> C.turn[i].msgs]
               T == [C.turn EXCEPT ![i] = r]
    <2>1. i \in Msg /\ C.turn[i].state = "running" /\ Active(C) = Range(C.turn[i].msgs)
      BY <1>2, ActiveIs
    <2>2. C \in Conversation /\ C.turn[i].msgs \in Seq(Msg) /\ C.turn[i].msgs # <<>>
          /\ C.turn \in [Msg -> Turn]
      BY <2>1, ConversationFields DEF Whole, Kept
    <2>3. [C.turn[i] EXCEPT !.state = "stopped"] = r
      BY <2>1 DEF Whole, Sound, Shaped
    <2>4. D = [queue |-> C.queue, inflight |-> NoTurn, turn |-> T, caller |-> C.caller]
      <3>1. D = [queue |-> C.queue, inflight |-> NoTurn,
                 turn |-> [C.turn EXCEPT ![i].state = "stopped"], caller |-> C.caller]
        BY <1>2 DEF Stopped, Whole, Sound, Shaped
      <3>2. [C.turn EXCEPT ![i].state = "stopped"] = T
        BY <2>3
      <3>3. QED  BY <3>1, <3>2
    <2>5. r \in Turn /\ r.state = "stopped" /\ r.msgs = C.turn[i].msgs
      BY <2>2 DEF Turn
    <2> HIDE DEF D, r
    <2>6. \A t \in Msg : T[t] = IF t = i THEN r ELSE C.turn[t]
      BY <2>2
    <2>7. T \in [Msg -> Turn]
      BY <2>1, <2>2, <2>5
    <2> HIDE DEF T
    <2>8. /\ D \in Conversation /\ D.queue = C.queue /\ D.inflight = NoTurn /\ D.turn = T
          /\ D.caller = C.caller
      BY <2>2, <2>4, <2>7 DEF Conversation
    <2>9. \A t \in Msg : D.turn[t].msgs = C.turn[t].msgs
      BY <2>5, <2>6, <2>8
    <2>10. \A t \in Msg : D.turn[t].state # "none" => C.turn[t].state # "none"
      BY <2>1, <2>6, <2>8
    <2>11. Kept(D)
      <3>1. Carried(D)
        BY <2>8, <2>9 DEF Whole, Kept, Carried
      <3>2. QED  BY <2>8, <2>9, <2>10, <3>1 DEF Whole, Kept
    <2>12. Line(D) = Line(C) /\ Active(D) = {} /\ Over(D) = Over(C)
      BY <2>8 DEF Line, Active, Over
    <2>13. Stalled(D) = Stalled(C) \cup {i}
      BY <2>1, <2>5, <2>6, <2>8 DEF Stalled
    <2>14. Unwinding(D) = Unwinding(C) \cup Active(C)
      BY <2>1, <2>9, <2>13 DEF Unwinding, Stalled
    <2>15. QED  BY <2>11, <2>12, <2>14 DEF D
  <1>3. QED  BY <1>1, <1>2

\* A turn that returns takes its senders with it, and nobody else.
LEMMA ReturnedKept ==
  ASSUME NEW C, Whole(C), NEW t \in Msg, C.turn[t].state # "none"
  PROVE  LET D == Returned(C, t)
             S == Range(C.turn[t].msgs)
         IN
         /\ Kept(D) /\ Line(D) = Line(C) /\ Active(D) = Active(C) \ S /\ Over(D) = Over(C) \cup S
         /\ Unwinding(D) = Unwinding(C) \ S
         /\ t # C.inflight => S \subseteq Unwinding(C) /\ S \cap Active(C) = {}
         /\ t = C.inflight => S = Active(C)
  <1> DEFINE msgs == C.turn[t].msgs
             S == Range(msgs)
             W == Requeued(C, C.queue, msgs, "settled")
             D == Returned(C, t)
             T == [C.turn EXCEPT ![t] = NotRun]
             i == IF C.inflight = t THEN NoTurn ELSE C.inflight
  <1>1. /\ C \in Conversation /\ C.queue \in Seq(Entry) /\ msgs \in Seq(Msg) /\ C.turn \in [Msg -> Turn]
        /\ C.inflight \in Msg \cup {NoTurn}
    BY ConversationFields DEF Whole, Kept
  <1>2. /\ W \in Conversation /\ W.queue = C.queue /\ W.inflight = C.inflight /\ W.turn = C.turn
        /\ \A m \in Msg : W.caller[m] = IF m \in S THEN "settled" ELSE C.caller[m]
    <2> HIDE DEF msgs
    <2>1. QED  BY <1>1, RequeuedFields
  <1>3. W = With(C, msgs, "settled")
    <2>1. [C EXCEPT !.queue = C.queue] = C
      BY DEF Whole, Sound, Shaped
    <2>2. QED  BY <2>1 DEF Requeued
  <1>4. D = [queue |-> C.queue, inflight |-> i, turn |-> T, caller |-> W.caller]
    <2>1. D = Placed(W, i, t, NotRun)
      BY <1>2, <1>3 DEF Returned, Placed
    <2>2. Shaped(W)
      BY <1>3, WithSound DEF Whole, Sound
    <2> HIDE DEF W, D, i
    <2>3. QED  BY <1>2, <2>1, <2>2, SlotUpdate
  <1> HIDE DEF W, D
  <1>5. T \in [Msg -> Turn] /\ \A u \in Msg : T[u] = IF u = t THEN NotRun ELSE C.turn[u]
    BY <1>1 DEF Turn
  <1> HIDE DEF T
  <1>6. /\ D \in Conversation /\ D.queue = C.queue /\ D.inflight = i /\ D.turn = T
        /\ D.caller = W.caller
    BY <1>1, <1>2, <1>4, <1>5 DEF Conversation
  <1>7. \A m \in Msg : D.caller[m] = IF m \in S THEN "settled" ELSE C.caller[m]
    BY <1>2, <1>6
  <1>8. \A u \in Msg : D.turn[u] = IF u = t THEN NotRun ELSE C.turn[u]
    BY <1>5, <1>6
  <1>9. \A u \in Msg \ {t} : Range(C.turn[u].msgs) \cap S = {}
    BY DEF Whole, Kept, Carried
  <1>10. S \subseteq Msg /\ \A m \in S : C.caller[m] = "running"
    BY <1>1, RangeOfSeq DEF Whole, Kept, Carried
  <1>11. Range(NotRun.msgs) = {} /\ NotRun.state = "none"
    BY DEF Range, NotRun
  <1>12. Carried(D)
    <2>1. ASSUME NEW u \in Msg, NEW m \in Range(D.turn[u].msgs)
          PROVE  D.caller[m] = "running" /\ \A v \in Msg \ {u} : m \notin Range(D.turn[v].msgs)
      <3>1. u # t /\ m \in Range(C.turn[u].msgs) /\ C.turn[u].msgs \in Seq(Msg)
        BY <1>8, <1>11, <2>1, ConversationFields DEF Whole, Kept
      <3>2. m \in Msg /\ m \notin S
        BY <1>9, <3>1, RangeOfSeq
      <3>3. C.caller[m] = "running" /\ \A v \in Msg \ {u} : m \notin Range(C.turn[v].msgs)
        BY <3>1 DEF Whole, Kept, Carried
      <3>4. QED  BY <1>7, <1>8, <1>11, <3>2, <3>3
    <2>2. QED  BY <2>1 DEF Carried
  <1>13. \A m \in Msg : D.caller[m] = "waiting" <=> m \in Range(Sends(D.queue))
    BY <1>6, <1>7, <1>10 DEF Whole, Kept
  <1>14. \A u \in Msg : /\ D.turn[u].state # "none" => u = Head(D.turn[u].msgs)
                        /\ OneVoiced(D.turn[u].msgs)
    BY <1>8, <1>11 DEF Whole, Kept, OneVoiced
  <1>15. Kept(D)
    BY <1>6, <1>12, <1>13, <1>14 DEF Whole, Kept
  <1>16. Line(D) = Line(C) /\ Over(D) = Over(C) \cup S
    BY <1>6, <1>7, <1>10 DEF Line, Over
  <1>17. t # C.inflight => t \in Stalled(C) /\ S \subseteq Unwinding(C)
    <2>1. ASSUME t # C.inflight PROVE C.turn[t].state = "stopped"
      BY <2>1, ConversationFields DEF Whole, Kept, Sound, SlotHeld
    <2>2. QED  BY <2>1 DEF Unwinding, Stalled
  <1>18. Unwinding(D) = Unwinding(C) \ S
    <2>1. Stalled(D) = Stalled(C) \ {t} /\ \A u \in Stalled(D) : D.turn[u] = C.turn[u]
      BY <1>8, <1>11 DEF Stalled
    <2>2. \A u \in Stalled(D) : Range(C.turn[u].msgs) \cap S = {}
      BY <1>9, <2>1 DEF Stalled
    <2>3. QED  BY <2>1, <2>2 DEF Unwinding
  <1>19. CASE t = C.inflight
    <2>1. Active(C) = S /\ Active(D) = {}
      BY <1>6, <1>19, TurnsAssumption DEF Active
    <2>2. QED  BY <1>15, <1>16, <1>18, <1>19, <2>1 DEF D
  <1>20. CASE t # C.inflight
    <2>1. Active(D) = Active(C) /\ Active(C) \cap S = {}
      BY <1>1, <1>6, <1>8, <1>9, <1>20 DEF Active
    <2>2. QED  BY <1>15, <1>16, <1>17, <1>18, <1>20, <2>1 DEF D
  <1>21. QED  BY <1>19, <1>20

\* The queue is emptied and everybody in line is told.
LEMMA RejectedKept ==
  ASSUME NEW C, Kept(C)
  PROVE  Moved(C, Rejected(C), <<>>, Over(C) \cup Range(Line(C)))
  <1> DEFINE msgs == Sends(C.queue)
  <1>1. msgs \in Seq(Msg) /\ msgs = Line(C)
    BY ConversationFields DEF Kept, Line
  <1>2. <<>> \in Seq(Entry) /\ Sends(<<>>) = <<>>
    <2>1. [i \in DOMAIN <<>> |-> <<>>[i].msgs] = <<>>
      OBVIOUS
    <2>2. QED  BY <2>1, FlattenEmpty DEF Sends
  <1>3. IsInjective(Sends(<<>>)) /\ Voiced(<<>>) /\ Range(Sends(<<>>)) = {}
    BY <1>2 DEF IsInjective, Range, Voiced
  <1>4. Rejected(C) = Requeued(C, <<>>, msgs, "settled")
    BY DEF Rejected, Requeued
  <1> HIDE DEF msgs
  <1>5. Moved(C, Requeued(C, <<>>, msgs, "settled"), Sends(<<>>), Over(C) \cup Range(msgs))
    <2>1. Range(Sends(<<>>)) = Range(Line(C)) \ Range(msgs) /\ Range(msgs) \subseteq Range(Line(C))
      BY <1>1, <1>3
    <2>2. QED  BY <1>1, <1>2, <1>3, <2>1, LeftKept
  <1>6. QED  BY <1>1, <1>2, <1>4, <1>5

\* One entry is cut out of the line.
LEMMA DiscardedKept ==
  ASSUME NEW C, Kept(C), NEW i \in DOMAIN C.queue
  PROVE  LET D == With([C EXCEPT !.queue = RemoveAt(@, i)], C.queue[i].msgs, "settled") IN
         /\ Kept(D) /\ Active(D) = Active(C) /\ Unwinding(D) = Unwinding(C)
         /\ \E j, k \in 1 .. Len(Line(C)) :
              /\ j <= k /\ Over(D) = Over(C) \cup Range(SubSeq(Line(C), j, k))
              /\ Line(D) = SubSeq(Line(C), 1, j - 1) \o SubSeq(Line(C), k + 1, Len(Line(C)))
  <1> DEFINE q == C.queue
             front == SubSeq(q, 1, i - 1)
             rest == SubSeq(q, i + 1, Len(q))
             a == Sends(front)
             x == q[i].msgs
             b == Sends(rest)
             r == RemoveAt(q, i)
  <1>1. q \in Seq(Entry) /\ i \in 1 .. Len(q)
    BY ConversationFields DEF Kept
  <1>2. /\ front \in Seq(Entry) /\ rest \in Seq(Entry) /\ q[i] \in Entry /\ <<q[i]>> \in Seq(Entry)
        /\ q = front \o (<<q[i]>> \o rest) /\ r = front \o rest
        /\ Len(front) = i - 1
    <2> HIDE DEF q
    <2>1. QED  BY <1>1, SplitAt
  <1>3. x \in Seq(Msg) /\ x # <<>> /\ Sends(<<q[i]>>) = x
    BY <1>2, SendsOne DEF Entry
  <1>4. /\ a \in Seq(Msg) /\ b \in Seq(Msg) /\ Line(C) = a \o (x \o b)
        /\ Sends(r) = a \o b /\ r \in Seq(Entry)
    <2> DEFINE e == <<q[i]>>
    <2>1. e \in Seq(Entry) /\ Sends(e) = x
      BY <1>2, <1>3
    <2> HIDE DEF q, front, rest, x, r, e
    <2>2. a \in Seq(Msg) /\ b \in Seq(Msg) /\ Sends(front \o rest) = a \o b
      BY <1>2, SendsConcat
    <2>3. e \o rest \in Seq(Entry) /\ front \o rest \in Seq(Entry)
      BY <1>2, <2>1, ConcatProperties
    <2>4. Sends(e \o rest) = x \o b
      BY <1>2, <2>1, SendsConcat
    <2>5. Sends(front \o (e \o rest)) = a \o (x \o b)
      BY <1>2, <2>3, <2>4, SendsConcat
    <2>6. QED  BY <1>2, <2>2, <2>3, <2>5 DEF Line, q, e
  <1>5. Voiced(r)
    <2> DEFINE e == <<q[i]>>
    <2>1. /\ e \in Seq(Entry) /\ q = front \o (e \o rest) /\ r = front \o rest
          /\ front \in Seq(Entry) /\ rest \in Seq(Entry)
      BY <1>2
    <2> HIDE DEF q, front, rest, r, e
    <2>2. Range(r) \subseteq Range(q)
      <3>1. e \o rest \in Seq(Entry) /\ Range(e \o rest) = Range(e) \cup Range(rest)
        BY <2>1, JoinFacts
      <3> DEFINE y == e \o rest
      <3>2. Range(front \o (e \o rest)) = Range(front) \cup Range(e \o rest)
        <4>1. y \in Seq(Entry) /\ front \in Seq(Entry)
          BY <2>1, <3>1
        <4> HIDE DEF y
        <4>2. Range(front \o y) = Range(front) \cup Range(y)
          BY <4>1, JoinFacts
        <4>3. QED  BY <4>2 DEF y
      <3>3. Range(front \o rest) = Range(front) \cup Range(rest)
        BY <2>1, JoinFacts
      <3>4. QED  BY <2>1, <3>1, <3>2, <3>3
    <2>3. \A j \in DOMAIN r : \E k \in DOMAIN q : r[j] = q[k]
      BY <2>2 DEF Range
    <2>4. QED  BY <2>3 DEF Kept, Voiced, q
  <1>6. With([C EXCEPT !.queue = RemoveAt(@, i)], C.queue[i].msgs, "settled") = Requeued(C, r, x, "settled")
    BY DEF Requeued
  <1> HIDE DEF q, front, rest, a, b, x, r
  <1>7. /\ IsInjective(a) /\ IsInjective(b) /\ Range(a) \cap Range(b) = {}
        /\ Range(x) \cap (Range(a) \cup Range(b)) = {}
        /\ Range(Line(C)) = Range(a) \cup Range(x) \cup Range(b)
    <2>1. x \o b \in Seq(Msg) /\ Range(x \o b) = Range(x) \cup Range(b)
      BY <1>3, <1>4, JoinFacts
    <2> DEFINE y == x \o b
    <2>2. IsInjective(a \o y)
      BY <1>4 DEF Kept, Line
    <2>3. y \in Seq(Msg)
      BY <2>1
    <2> HIDE DEF y
    <2>4. /\ Range(a \o y) = Range(a) \cup Range(y)
          /\ IsInjective(a) /\ IsInjective(y) /\ Range(a) \cap Range(y) = {}
      BY <1>4, <2>2, <2>3, JoinFacts, HalvesFacts
    <2>5. IsInjective(b) /\ Range(x) \cap Range(b) = {}
      BY <1>3, <1>4, <2>4, HalvesFacts DEF y
    <2>6. QED  BY <1>4, <2>1, <2>4, <2>5 DEF y
  <1>8. IsInjective(a \o b) /\ Range(a \o b) = Range(a) \cup Range(b)
    BY <1>4, <1>7, JoinFacts
  <1>9. Moved(C, Requeued(C, r, x, "settled"), Sends(r), Over(C) \cup Range(x))
    <2>1. /\ IsInjective(Sends(r)) /\ Range(Sends(r)) = Range(Line(C)) \ Range(x)
          /\ Range(x) \subseteq Range(Line(C))
      BY <1>4, <1>7, <1>8
    <2>2. QED  BY <1>3, <1>4, <1>5, <2>1, LeftKept
  <1>10. LET s == a \o (x \o b) IN
         /\ Len(s) = Len(a) + Len(x) + Len(b)
         /\ SubSeq(s, 1, Len(a)) = a
         /\ SubSeq(s, Len(a) + 1, Len(a) + Len(x)) = x
         /\ SubSeq(s, Len(a) + Len(x) + 1, Len(s)) = b
    BY <1>3, <1>4, MiddleOf
  <1>11. /\ Len(a) \in Nat /\ Len(b) \in Nat /\ Len(x) \in Nat \ {0}
    BY <1>3, <1>4
  <1> DEFINE j == Len(a) + 1
             k == Len(a) + Len(x)
  <1>12. /\ j \in 1 .. Len(Line(C)) /\ k \in 1 .. Len(Line(C)) /\ j <= k
         /\ SubSeq(Line(C), j, k) = x
         /\ SubSeq(Line(C), 1, j - 1) = a /\ SubSeq(Line(C), k + 1, Len(Line(C))) = b
    <2>1. j - 1 = Len(a)
      BY <1>11
    <2>2. QED  BY <1>4, <1>10, <1>11, <2>1
  <1> HIDE DEF j, k
  <1>13. QED  BY <1>4, <1>6, <1>9, <1>12 DEF Moved

\* A message that has to wait goes to the end of the line, whether or not it
\* shares the entry of the one before it.
LEMMA EnqueuedKept ==
  ASSUME NEW C, Kept(C), NEW m \in Msg, C.caller[m] = "new"
  PROVE  Moved(C, Enqueued(C, m), Append(Line(C), m), Over(C))
  <1> DEFINE q == C.queue
             n == Len(q)
             one == [msgs |-> <<m>>, kind |-> Kind[m]]
  <1>1. q \in Seq(Entry) /\ n \in Nat /\ Sends(q) = Line(C) /\ Line(C) \in Seq(Msg)
    BY ConversationFields DEF Kept, Line
  <1>2. m \notin Range(Line(C)) /\ IsInjective(Line(C)) /\ \A i \in DOMAIN q : OneVoiced(q[i].msgs)
    BY DEF Kept, Line
  <1>3. <<m>> \in Seq(Msg) /\ Range(<<m>>) = {m} /\ one \in Entry
    BY TurnsAssumption DEF Range, Entry
  <1>4. /\ Append(Line(C), m) \in Seq(Msg) /\ Range(Append(Line(C), m)) = Range(Line(C)) \cup {m}
        /\ IsInjective(Append(Line(C), m))
    BY <1>1, <1>2, AppendFacts
  <1>5. ASSUME NEW r \in Seq(Entry), Sends(r) = Append(Line(C), m), Voiced(r)
        PROVE  Moved(C, Requeued(C, r, <<m>>, "waiting"), Append(Line(C), m), Over(C))
    <2> DEFINE ms == <<m>>
    <2>1. /\ Range(Sends(r)) = Range(Line(C)) \cup Range(ms) /\ IsInjective(Sends(r))
          /\ \A u \in Range(ms) : C.caller[u] = "new"
          /\ ms \in Seq(Msg)
      BY <1>3, <1>4, <1>5
    <2> HIDE DEF ms
    <2>2. Moved(C, Requeued(C, r, ms, "waiting"), Sends(r), Over(C))
      BY <1>5, <2>1, JoinedKept
    <2>3. QED  BY <1>5, <2>2 DEF ms
  <1>6. CASE n > 0 /\ Coalesces(q[n], m)
    <2> DEFINE e == [q[n] EXCEPT !.msgs = Append(@, m)]
               r == [q EXCEPT ![n] = e]
               front == SubSeq(q, 1, n - 1)
    <2>1. q[n] \in Entry /\ n \in 1 .. n
      BY <1>1, <1>6
    <2>2. /\ q[n].msgs \in Seq(Msg) /\ q[n].msgs # <<>>
          /\ Append(q[n].msgs, m) \in Seq(Msg) /\ Append(q[n].msgs, m) # <<>>
      BY <2>1, AppendProperties DEF Entry
    <2>3. e = [msgs |-> Append(q[n].msgs, m), kind |-> q[n].kind] /\ e \in Entry
      <3> DEFINE last == q[n]
      <3>1. last = [msgs |-> last.msgs, kind |-> last.kind] /\ last.kind \in {"plain", "nudge", "coalescable"}
        BY <2>1 DEF Entry
      <3> HIDE DEF last
      <3>2. [last EXCEPT !.msgs = Append(@, m)] = [msgs |-> Append(last.msgs, m), kind |-> last.kind]
        BY <3>1
      <3>3. e = [msgs |-> Append(q[n].msgs, m), kind |-> q[n].kind]
        BY <3>2 DEF last
      <3>4. QED  BY <2>2, <3>1, <3>3 DEF Entry, last
    <2>4. /\ front \in Seq(Entry) /\ q = front \o <<q[n]>>
          /\ r = front \o <<e>> /\ r \in Seq(Entry)
      <3>1. e \in Entry /\ q \in Seq(Entry) /\ Len(q) > 0
        BY <1>1, <1>6, <2>3
      <3> HIDE DEF q, e
      <3>2. QED  BY <3>1, ReplaceLast
    <2>5. e.msgs = Append(q[n].msgs, m)
      BY <2>3
    <2>6. Sends(r) = Append(Line(C), m)
      <3> DEFINE f == Sends(front)
                 x == q[n].msgs
                 old == q[n]
      <3>1. /\ <<old>> \in Seq(Entry) /\ <<e>> \in Seq(Entry) /\ old \in Entry
        BY <2>1, <2>3
      <3> HIDE DEF old, e, q, front, r
      <3>2. f \in Seq(Msg) /\ Sends(front \o <<e>>) = f \o e.msgs
        BY <2>3, <2>4, <3>1, SendsConcat, SendsOne
      <3>3. Sends(front \o <<old>>) = f \o old.msgs
        BY <2>4, <3>1, SendsConcat, SendsOne
      <3>4. Line(C) = f \o x
        BY <1>1, <2>4, <3>3 DEF old
      <3> HIDE DEF f, x
      <3>5. x \in Seq(Msg) /\ e.msgs = Append(x, m) /\ <<m>> \in Seq(Msg)
        BY <1>3, <2>2, <2>5 DEF x
      <3>6. Append(x, m) = x \o <<m>> /\ Append(Line(C), m) = Line(C) \o <<m>>
        BY <1>1, <3>5, AppendIsConcat
      <3>7. f \o (x \o <<m>>) = (f \o x) \o <<m>>
        BY <3>2, <3>5, ConcatAssociative DEF f
      <3>8. QED  BY <2>4, <3>2, <3>4, <3>5, <3>6, <3>7 DEF f
    <2>7. Voiced(r)
      <3>1. OneVoiced(Append(q[n].msgs, m))
        <4>1. Range(Append(q[n].msgs, m)) = Range(q[n].msgs) \cup {m} /\ Head(q[n].msgs) \in Range(q[n].msgs)
          BY <2>2, AppendFacts, TailFacts
        <4>2. OneVoiced(q[n].msgs)
          BY <1>1, <1>2, <2>1
        <4>3. Bucket[Head(q[n].msgs)] = Bucket[m]
          BY <1>6 DEF Coalesces
        <4>4. QED  BY <4>1, <4>2, <4>3 DEF OneVoiced
      <3>2. DOMAIN r = DOMAIN q /\ \A i \in DOMAIN q : r[i] = IF i = n THEN e ELSE q[i]
        BY <1>1
      <3> HIDE DEF r, e
      <3>3. QED  BY <1>2, <2>5, <3>1, <3>2 DEF Voiced
    <2>8. Enqueued(C, m) = Requeued(C, r, <<m>>, "waiting")
      BY <1>6 DEF Enqueued, Requeued
    <2> HIDE DEF r
    <2>9. QED  BY <1>5, <2>4, <2>6, <2>7, <2>8
  <1>7. CASE ~(n > 0 /\ Coalesces(q[n], m))
    <2> DEFINE r == Append(q, one)
    <2>1. r \in Seq(Entry) /\ r = q \o <<one>> /\ <<one>> \in Seq(Entry)
      <3> HIDE DEF q, one
      <3>1. QED  BY <1>1, <1>3, AppendIsConcat, AppendProperties
    <2>2. one.msgs = <<m>>
      OBVIOUS
    <2>3. Sends(r) = Append(Line(C), m)
      <3> HIDE DEF q, one, r
      <3>1. Sends(q \o <<one>>) = Sends(q) \o <<m>>
        BY <1>1, <1>3, <2>1, <2>2, SendsConcat, SendsOne
      <3>2. Append(Line(C), m) = Line(C) \o <<m>>
        BY <1>1, AppendIsConcat
      <3>3. QED  BY <1>1, <2>1, <3>1, <3>2
    <2>4. Voiced(r)
      <3>1. OneVoiced(<<m>>)
        BY <1>3 DEF OneVoiced
      <3>2. DOMAIN r = 1 .. n + 1 /\ r[n + 1] = one /\ \A i \in 1 .. n : r[i] = q[i]
        BY <1>1
      <3>3. DOMAIN q = 1 .. n /\ \A i \in 1 .. n + 1 : i \in 1 .. n \/ i = n + 1
        BY <1>1
      <3> HIDE DEF r, one
      <3>4. QED  BY <1>2, <2>2, <3>1, <3>2, <3>3 DEF Voiced
    <2>5. Enqueued(C, m) = Requeued(C, r, <<m>>, "waiting")
      BY <1>7 DEF Enqueued, Requeued
    <2> HIDE DEF r
    <2>6. QED  BY <1>5, <2>1, <2>3, <2>4, <2>5
  <1>8. QED  BY <1>6, <1>7

\* An interrupt goes to the head of the line.
LEMMA CutInKept ==
  ASSUME NEW C, Kept(C), NEW m \in Msg, C.caller[m] = "new"
  PROVE  LET D == With([C EXCEPT !.queue = <<[msgs |-> <<m>>, kind |-> "plain"]>> \o @], <<m>>, "waiting")
         IN  Moved(C, D, <<m>> \o Line(C), Over(C))
  <1> DEFINE one == [msgs |-> <<m>>, kind |-> "plain"]
             ones == <<one>>
             q == C.queue
             r == ones \o q
             ms == <<m>>
  <1>1. q \in Seq(Entry) /\ Sends(q) = Line(C) /\ Line(C) \in Seq(Msg)
    BY ConversationFields DEF Kept, Line
  <1>2. /\ ms \in Seq(Msg) /\ Range(ms) = {m} /\ one \in Entry /\ one.msgs = ms /\ IsInjective(ms)
        /\ ones \in Seq(Entry) /\ Range(ones) = {one}
    BY DEF Range, Entry, IsInjective
  <1>3. Sends(ones) = ms
    <2> HIDE DEF one, ms
    <2>1. QED  BY <1>2, SendsOne
  <1>4. m \notin Range(Line(C)) /\ IsInjective(Line(C)) /\ Voiced(q)
    BY DEF Kept, Line, Voiced
  <1>5. With([C EXCEPT !.queue = ones \o @], ms, "waiting") = Requeued(C, r, ms, "waiting")
    BY DEF Requeued
  <1>6. \A u \in Range(ms) : C.caller[u] = "new"
    BY <1>2
  <1> HIDE DEF ones, q, r, ms, one
  <1>7. /\ r \in Seq(Entry) /\ Sends(r) = ms \o Line(C) /\ Range(r) = {one} \cup Range(q)
    <2>1. Sends(ones \o q) = Sends(ones) \o Sends(q)
      BY <1>1, <1>2, SendsConcat
    <2>2. ones \o q \in Seq(Entry) /\ Range(ones \o q) = Range(ones) \cup Range(q)
      BY <1>1, <1>2, JoinFacts
    <2>3. QED  BY <1>1, <1>2, <1>3, <2>1, <2>2 DEF r
  <1>8. /\ IsInjective(ms \o Line(C)) /\ Range(ms \o Line(C)) = Range(Line(C)) \cup Range(ms)
    BY <1>1, <1>2, <1>4, JoinFacts
  <1>9. Voiced(r)
    <2>1. \A e \in Range(q) : OneVoiced(e.msgs)
      BY <1>4 DEF Voiced, Range
    <2>2. OneVoiced(one.msgs)
      BY <1>2 DEF OneVoiced
    <2>3. \A e \in Range(r) : OneVoiced(e.msgs)
      BY <1>7, <2>1, <2>2
    <2>4. QED  BY <2>3 DEF Voiced, Range
  <1>10. Moved(C, Requeued(C, r, ms, "waiting"), Sends(r), Over(C))
    BY <1>2, <1>6, <1>7, <1>8, <1>9, JoinedKept
  <1>11. QED  BY <1>5, <1>7, <1>10 DEF ones, r, ms, one

\* The number of entries a turn absorbs, as the loop of dispatchNext finds it.
Absorbs(q, n) ==
  /\ n \in 1 .. Len(q) /\ \A i \in 2 .. n : Joins(q[1], q[i])
  /\ n < Len(q) => ~Joins(q[1], q[n + 1])

\* The loop of dispatchNext stops somewhere.
LEMMA AbsorbsSome ==
  ASSUME NEW q \in Seq(Entry), q # <<>>
  PROVE  \E n \in 1 .. Len(q) : Absorbs(q, n)
  <1> DEFINE T == {n \in 1 .. Len(q) : n < Len(q) => ~Joins(q[1], q[n + 1])}
  <1>1. Len(q) \in T /\ T \subseteq Nat
    OBVIOUS
  <1>2. PICK n \in T : \A m \in T : n <= m
    BY <1>1, LeastOf
  <1>3. n \in 1 .. Len(q) /\ Len(q) \in Nat
    BY <1>2
  <1>4. ASSUME NEW i \in 2 .. n PROVE Joins(q[1], q[i])
    <2>1. i - 1 \in 1 .. Len(q) /\ ~(n <= i - 1) /\ (i - 1) + 1 = i
      BY <1>3
    <2>2. i - 1 \notin T
      BY <1>2, <2>1
    <2>3. QED  BY <2>1, <2>2
  <1>5. QED  BY <1>2, <1>3, <1>4 DEF Absorbs

\* The next turn takes the head of the line, all of it in one voice.
LEMMA DispatchedKept ==
  ASSUME NEW C, Whole(C), C.inflight = NoTurn, C.queue # <<>>
  PROVE  LET D == Dispatched(C) IN
         /\ Kept(D) /\ Unwinding(D) = Unwinding(C) /\ Over(D) = Over(C)
         /\ \E k \in 1 .. Len(Line(C)) : /\ Active(D) = Range(SubSeq(Line(C), 1, k))
                                         /\ Line(D) = SubSeq(Line(C), k + 1, Len(Line(C)))
  <1> DEFINE q == C.queue
             n == CHOOSE n \in 1 .. Len(q) :
                    /\ \A i \in 2 .. n : Joins(q[1], q[i])
                    /\ n < Len(q) => ~Joins(q[1], q[n + 1])
             front == SubSeq(q, 1, n)
             rest == SubSeq(q, n + 1, Len(q))
             a == Sends(front)
             b == Sends(rest)
  <1>1. q \in Seq(Entry) /\ q # <<>> /\ Sends(q) = Line(C) /\ Line(C) \in Seq(Msg)
    BY ConversationFields DEF Whole, Kept, Line
  <1>2. Absorbs(q, n)
    <2>1. \E k \in 1 .. Len(q) : /\ \A i \in 2 .. k : Joins(q[1], q[i])
                                 /\ k < Len(q) => ~Joins(q[1], q[k + 1])
      <3> HIDE DEF q
      <3>1. QED  BY <1>1, AbsorbsSome DEF Absorbs
    <2>2. QED  BY <2>1 DEF Absorbs
  <1>3. Dispatched(C) = Run([C EXCEPT !.queue = rest], a)
    BY DEF Dispatched
  <1> HIDE DEF q, n
  <1>4. n \in 1 .. Len(q) /\ n \in 0 .. Len(q) /\ Len(q) \in Nat /\ DOMAIN q = 1 .. Len(q)
    BY <1>1, <1>2 DEF Absorbs
  <1>5. front \in Seq(Entry) /\ rest \in Seq(Entry) /\ q = front \o rest
    BY <1>1, <1>4, CutJoin
  <1>6. Len(front) = n /\ \A i \in 1 .. n : front[i] = q[i]
    BY <1>1, <1>4
  <1> HIDE DEF front, rest
  <1>7. a \in Seq(Msg) \ {<<>>} /\ b \in Seq(Msg) /\ Line(C) = a \o b
    <2>1. front # <<>>
      BY <1>4, <1>6
    <2>2. a \in Seq(Msg) \ {<<>>}
      BY <1>5, <2>1, SendsNonempty
    <2>3. b \in Seq(Msg) /\ Sends(front \o rest) = a \o b
      BY <1>5, SendsConcat
    <2>4. QED  BY <1>1, <1>5, <2>2, <2>3
  <1>8. Voiced(rest)
    <2>1. Range(q) = Range(front) \cup Range(rest)
      BY <1>5, JoinFacts
    <2>2. \A e \in Range(q) : OneVoiced(e.msgs)
      BY DEF Whole, Kept, Range, q
    <2>3. \A e \in Range(rest) : OneVoiced(e.msgs)
      BY <2>1, <2>2
    <2>4. QED  BY <2>3 DEF Voiced, Range
  <1>9. OneVoiced(a)
    <2>1. ASSUME NEW m \in Range(a) PROVE Bucket[m] = Bucket[Head(q[1].msgs)]
      <3>1. PICK i \in 1 .. n : m \in Range(q[i].msgs)
        BY <1>5, <1>6, <2>1, SendsRange
      <3>2. q[i] \in Entry /\ OneVoiced(q[i].msgs)
        BY <1>1, <1>4 DEF Whole, Kept, q
      <3>3. q[i].msgs \in Seq(Msg) /\ q[i].msgs # <<>>
        BY <3>2 DEF Entry
      <3>4. Head(q[i].msgs) \in Range(q[i].msgs)
        BY <3>3, TailFacts
      <3>5. Bucket[m] = Bucket[Head(q[i].msgs)]
        BY <3>1, <3>2, <3>4 DEF OneVoiced
      <3>6. i # 1 => Joins(q[1], q[i])
        BY <1>2, <1>4 DEF Absorbs
      <3>7. QED  BY <3>5, <3>6 DEF Joins
    <2>2. QED  BY <2>1 DEF OneVoiced
  <1> HIDE DEF a, b
  <1>10. /\ IsInjective(b) /\ Range(a) \cap Range(b) = {} /\ Range(Line(C)) = Range(a) \cup Range(b)
    <2>1. IsInjective(a \o b)
      BY <1>7 DEF Whole, Kept, Line
    <2>2. QED  BY <1>7, <2>1, HalvesFacts, JoinFacts
  <1>11. \A m \in Range(a) : C.caller[m] \in {"new", "waiting"}
    <2>1. Range(a) \subseteq Msg
      BY <1>7, RangeOfSeq
    <2>2. QED  BY <1>10, <2>1 DEF Whole, Kept, Line
  <1>12. LET D == Run([C EXCEPT !.queue = rest], a) IN
         /\ Kept(D) /\ Line(D) = Sends(rest) /\ Active(D) = Range(a) /\ Unwinding(D) = Unwinding(C)
         /\ Over(D) = Over(C)
    <2>1. IsInjective(Sends(rest)) /\ Range(Sends(rest)) = Range(Line(C)) \ Range(a)
      BY <1>10 DEF b
    <2>2. QED  BY <1>5, <1>7, <1>8, <1>9, <1>11, <2>1, RunKept
  <1>13. /\ SubSeq(Line(C), 1, Len(a)) = a /\ SubSeq(Line(C), Len(a) + 1, Len(Line(C))) = b
         /\ Len(a) \in 1 .. Len(Line(C))
    <2> DEFINE none == <<>>
    <2>1. none \in Seq(Msg) /\ none \o b = b /\ Len(none) = 0
      BY <1>7, ConcatEmptySeq
    <2>2. Len(a) \in Nat \ {0} /\ Len(b) \in Nat
      BY <1>7
    <2> HIDE DEF none
    <2>3. LET s == a \o (none \o b) IN
          /\ Len(s) = Len(a) + Len(none) + Len(b) /\ SubSeq(s, 1, Len(a)) = a
          /\ SubSeq(s, Len(a) + Len(none) + 1, Len(s)) = b
      BY <1>7, <2>1, MiddleOf
    <2>4. QED  BY <1>7, <2>1, <2>2, <2>3
  <1>14. QED  BY <1>3, <1>12, <1>13 DEF b

-----------------------------------------------------------------------------
(* The steps, as steps of SessionOrder.                                    *)

\* A step of the order between two conversations, or none.
TakesHead(C, D) ==
  \E k \in 1 .. Len(Line(C)) : /\ Active(D) = Range(SubSeq(Line(C), 1, k))
                               /\ Line(D) = SubSeq(Line(C), k + 1, Len(Line(C)))

\* Draining an idle conversation begins the next turn or does nothing.
LEMMA DrainedKept ==
  ASSUME NEW C, NEW down, Whole(C), C.inflight = NoTurn
  PROVE  LET D == Drained(C, down) IN
         /\ Kept(D) /\ Unwinding(D) = Unwinding(C) /\ Over(D) = Over(C)
         /\ D = C \/ TakesHead(C, D)
  <1>1. CASE C.queue = <<>> \/ down = "closing"
    BY <1>1 DEF Drained, Whole
  <1>2. CASE ~(C.queue = <<>> \/ down = "closing")
    <2>1. Drained(C, down) = Dispatched(C) /\ C.queue # <<>>
      BY <1>2 DEF Drained
    <2>2. QED  BY <2>1, DispatchedKept DEF TakesHead
  <1>3. QED  BY <1>1, <1>2

\* The steps of SessionOrder, between two conversations.
Same(C, D) == Line(D) = Line(C) /\ Active(D) = Active(C) /\ Unwinding(D) = Unwinding(C) /\ Over(D) = Over(C)

Starts(C, D, m) ==
  /\ Active(C) = {} /\ Line(C) = <<>>
  /\ Active(D) = {m} /\ Line(D) = Line(C) /\ Unwinding(D) = Unwinding(C) /\ Over(D) = Over(C)

LinesUp(C, D, m) ==
  /\ Active(C) # {} \/ Line(C) # <<>>
  /\ Line(D) = Append(Line(C), m)
  /\ Active(D) = Active(C) /\ Unwinding(D) = Unwinding(C) /\ Over(D) = Over(C)

CutsIn(C, D, m) ==
  /\ Line(D) = <<m>> \o Line(C)
  /\ Active(D) = {} /\ Unwinding(D) = Unwinding(C) \cup Active(C) /\ Over(D) = Over(C)

Takes(C, D) == Active(C) = {} /\ TakesHead(C, D) /\ Unwinding(D) = Unwinding(C) /\ Over(D) = Over(C)

Finishes(C, D, S) ==
  /\ S \subseteq Active(C) \cup Unwinding(C) /\ (S = Active(C) \/ S \subseteq Unwinding(C))
  /\ Over(D) = Over(C) \cup S /\ Unwinding(D) = Unwinding(C) \ S
  /\ \/ Active(D) = Active(C) \ S /\ Line(D) = Line(C)
     \/ Active(C) \ S = {} /\ TakesHead(C, D)

Halts(C, D) ==
  Active(D) = {} /\ Unwinding(D) = Unwinding(C) \cup Active(C) /\ Line(D) = Line(C) /\ Over(D) = Over(C)

Leaves(C, D) ==
  /\ \E j, k \in 1 .. Len(Line(C)) :
       /\ j <= k /\ Over(D) = Over(C) \cup Range(SubSeq(Line(C), j, k))
       /\ Line(D) = SubSeq(Line(C), 1, j - 1) \o SubSeq(Line(C), k + 1, Len(Line(C)))
  /\ \/ Active(D) = Active(C) /\ Unwinding(D) = Unwinding(C)
     \/ Active(D) = {} /\ Unwinding(D) = Unwinding(C) \cup Active(C)

OrderStep(C, D) ==
  \/ \E m \in Msg : C.caller[m] = "new" /\ (Starts(C, D, m) \/ LinesUp(C, D, m) \/ CutsIn(C, D, m))
  \/ \E S : Finishes(C, D, S)
  \/ Takes(C, D) \/ Halts(C, D) \/ Leaves(C, D) \/ Same(C, D)

\* The invariant of the conversation, and what a step does to it.
Goal(C, D) == Kept(D) /\ OrderStep(C, D)

\* A conversation without a turn and without entries has nobody in it.
LEMMA IdleIs ==
  ASSUME NEW C, Whole(C)
  PROVE  /\ C.inflight = NoTurn <=> Active(C) = {}
         /\ C.queue = <<>> <=> Line(C) = <<>>
  <1>1. C.inflight # NoTurn => Active(C) # {}
    <2>1. ASSUME C.inflight # NoTurn PROVE Active(C) # {}
      <3>1. /\ C.inflight \in Msg /\ C.turn[C.inflight].state = "running"
            /\ Active(C) = Range(C.turn[C.inflight].msgs)
        BY <2>1, ActiveIs
      <3>2. C.inflight \in Range(C.turn[C.inflight].msgs)
        BY <3>1, NamedBy DEF Whole
      <3>3. QED  BY <3>1, <3>2
    <2>2. QED  BY <2>1
  <1>2. C.inflight = NoTurn => Active(C) = {}
    BY DEF Active
  <1>3. C.queue \in Seq(Entry)
    BY ConversationFields DEF Whole, Kept
  <1>4. C.queue # <<>> => Line(C) # <<>>
    BY <1>3, SendsNonempty DEF Line
  <1>5. Sends(<<>>) = <<>>
    <2>1. [i \in DOMAIN <<>> |-> <<>>[i].msgs] = <<>>
      OBVIOUS
    <2>2. QED  BY <2>1, FlattenEmpty DEF Sends
  <1>6. QED  BY <1>1, <1>2, <1>4, <1>5 DEF Line

\* A send to an idle conversation is answered at once.
LEMMA StartsAlone ==
  ASSUME NEW C, Whole(C), C.inflight = NoTurn, C.queue = <<>>, NEW m \in Msg, C.caller[m] = "new"
  PROVE  Goal(C, Run(C, <<m>>))
  <1> DEFINE q == C.queue
             ms == <<m>>
             D == Run([C EXCEPT !.queue = q], ms)
  <1>1. [C EXCEPT !.queue = q] = C
    BY DEF Whole, Sound, Shaped
  <1>2. Active(C) = {} /\ Line(C) = <<>>
    BY IdleIs
  <1>3. /\ ms \in Seq(Msg) \ {<<>>} /\ Range(ms) = {m} /\ OneVoiced(ms)
    BY DEF Range, OneVoiced
  <1>4. q \in Seq(Entry) /\ Sends(q) = Line(C) /\ IsInjective(Sends(q)) /\ Voiced(q)
    BY ConversationFields DEF Whole, Kept, Line, Voiced
  <1>5. Range(Sends(q)) = Range(Line(C)) \ Range(ms)
    BY <1>2, <1>4 DEF Range
  <1>6. \A u \in Range(ms) : C.caller[u] \in {"new", "waiting"}
    BY <1>3
  <1> HIDE DEF q, ms
  <1>7. /\ Kept(D) /\ Line(D) = Sends(q) /\ Active(D) = Range(ms) /\ Unwinding(D) = Unwinding(C)
        /\ Over(D) = Over(C)
    BY <1>3, <1>4, <1>5, <1>6, RunKept
  <1> HIDE DEF D
  <1>8. Starts(C, D, m)
    BY <1>2, <1>3, <1>4, <1>7 DEF Starts
  <1>9. Goal(C, D)
    BY <1>7, <1>8 DEF Goal, OrderStep
  <1>10. QED  BY <1>1, <1>9 DEF D, ms

\* A send to a busy conversation stands in line.
LEMMA JoinsLine ==
  ASSUME NEW C, Whole(C), C.inflight # NoTurn \/ C.queue # <<>>, NEW m \in Msg, C.caller[m] = "new"
  PROVE  Goal(C, Enqueued(C, m))
  <1> DEFINE D == Enqueued(C, m)
  <1>1. Moved(C, D, Append(Line(C), m), Over(C))
    BY EnqueuedKept DEF Whole
  <1>2. Active(C) # {} \/ Line(C) # <<>>
    BY IdleIs
  <1> HIDE DEF D
  <1>3. Kept(D) /\ LinesUp(C, D, m)
    BY <1>1, <1>2 DEF Moved, LinesUp
  <1>4. Goal(C, D)
    BY <1>3 DEF Goal, OrderStep
  <1>5. QED  BY <1>4 DEF D

\* An interrupt stops the turn and stands at the head.
LEMMA InterruptCutsIn ==
  ASSUME NEW C, Whole(C), NEW m \in Msg, C.caller[m] = "new"
  PROVE  Goal(C, With([Stopped(C) EXCEPT !.queue = <<[msgs |-> <<m>>, kind |-> "plain"]>> \o @],
                      <<m>>, "waiting"))
  <1> DEFINE R == Stopped(C)
             D == With([R EXCEPT !.queue = <<[msgs |-> <<m>>, kind |-> "plain"]>> \o @], <<m>>, "waiting")
  <1>1. /\ Kept(R) /\ Line(R) = Line(C) /\ Active(R) = {} /\ Over(R) = Over(C)
        /\ Unwinding(R) = Unwinding(C) \cup Active(C)
    BY StoppedKept
  <1>2. R.caller[m] = "new"
    <2>1. Stopped(C).caller = C.caller
      BY DEF Stopped, Whole, Sound, Shaped
    <2>2. QED  BY <2>1
  <1> HIDE DEF R
  <1>3. Moved(R, D, <<m>> \o Line(R), Over(R))
    BY <1>1, <1>2, CutInKept
  <1> HIDE DEF D
  <1>4. Kept(D) /\ CutsIn(C, D, m)
    BY <1>1, <1>3 DEF Moved, CutsIn
  <1>5. Goal(C, D)
    BY <1>4 DEF Goal, OrderStep
  <1>6. QED  BY <1>5 DEF D, R

\* An idle conversation is drained, or left as it is.
LEMMA DrainsIdle ==
  ASSUME NEW C, Whole(C), NEW down
  PROVE  Goal(C, IF C.inflight = NoTurn THEN Drained(C, down) ELSE C)
  <1>1. Goal(C, C)
    BY DEF Goal, OrderStep, Same, Whole
  <1>2. ASSUME C.inflight = NoTurn PROVE Goal(C, Drained(C, down))
    <2> DEFINE D == Drained(C, down)
    <2>1. /\ Kept(D) /\ Unwinding(D) = Unwinding(C) /\ Over(D) = Over(C)
          /\ D = C \/ TakesHead(C, D)
      BY <1>2, DrainedKept
    <2>2. Active(C) = {}
      BY <1>2, IdleIs
    <2> HIDE DEF D
    <2>3. Same(C, D) \/ Takes(C, D)
      BY <2>1, <2>2 DEF Same, Takes
    <2>4. Goal(C, D)
      BY <2>1, <2>3 DEF Goal, OrderStep
    <2>5. QED  BY <2>4 DEF D
  <1>3. QED  BY <1>1, <1>2

\* A turn returns, and when the slot is free the next begins.
LEMMA ReturnsThenDrains ==
  ASSUME NEW C, Whole(C), NEW t \in Msg, C.turn[t].state # "none", NEW down
  PROVE  /\ Goal(C, Returned(C, t))
         /\ C.inflight \in {t, NoTurn} => Goal(C, Drained(Returned(C, t), down))
  <1> DEFINE R == Returned(C, t)
             S == Range(C.turn[t].msgs)
  <1>1. /\ Kept(R) /\ Line(R) = Line(C) /\ Active(R) = Active(C) \ S /\ Over(R) = Over(C) \cup S
        /\ Unwinding(R) = Unwinding(C) \ S
        /\ t # C.inflight => S \subseteq Unwinding(C) /\ S \cap Active(C) = {}
        /\ t = C.inflight => S = Active(C)
    BY ReturnedKept
  <1>2. Sound(R) /\ R.inflight = IF C.inflight = t THEN NoTurn ELSE C.inflight
    BY ReturnedSound DEF Whole
  <1> HIDE DEF R, S
  <1>3. S \subseteq Active(C) \cup Unwinding(C) /\ (S = Active(C) \/ S \subseteq Unwinding(C))
    BY <1>1
  <1>4. Goal(C, R)
    <2>1. Finishes(C, R, S)
      BY <1>1, <1>3 DEF Finishes
    <2>2. QED  BY <1>1, <2>1 DEF Goal, OrderStep
  <1>5. ASSUME C.inflight \in {t, NoTurn} PROVE Goal(C, Drained(R, down))
    <2> DEFINE D == Drained(R, down)
    <2>1. Whole(R) /\ R.inflight = NoTurn
      BY <1>1, <1>2, <1>5 DEF Whole
    <2>2. /\ Kept(D) /\ Unwinding(D) = Unwinding(R) /\ Over(D) = Over(R)
          /\ D = R \/ TakesHead(R, D)
      BY <2>1, DrainedKept
    <2>3. Active(R) = {}
      BY <2>1, IdleIs
    <2> HIDE DEF D
    <2>4. CASE D = R
      BY <1>4, <2>4 DEF D
    <2>5. CASE TakesHead(R, D)
      <3>1. TakesHead(C, D)
        BY <1>1, <2>5 DEF TakesHead
      <3>2. Finishes(C, D, S)
        BY <1>1, <1>3, <2>2, <2>3, <3>1 DEF Finishes
      <3>3. Goal(C, D)
        BY <2>2, <3>2 DEF Goal, OrderStep
      <3>4. QED  BY <3>3 DEF D
    <2>6. QED  BY <2>2, <2>4, <2>5
  <1>6. QED  BY <1>4, <1>5 DEF R

\* The whole line is turned away, and perhaps the turn is stopped.
LEMMA LineRejected ==
  ASSUME NEW C, Whole(C)
  PROVE  Goal(C, Rejected(C)) /\ Goal(C, Stopped(Rejected(C)))
  <1> DEFINE l == Line(C)
             R == Rejected(C)
             D == Stopped(R)
  <1>1. Kept(R) /\ Line(R) = <<>> /\ Active(R) = Active(C) /\ Unwinding(R) = Unwinding(C)
        /\ Over(R) = Over(C) \cup Range(l)
    BY RejectedKept DEF Whole, Moved
  <1>2. Sound(R)
    BY RejectedSound DEF Whole
  <1> HIDE DEF R
  <1>3. /\ Kept(D) /\ Line(D) = <<>> /\ Active(D) = {} /\ Over(D) = Over(C) \cup Range(l)
        /\ Unwinding(D) = Unwinding(C) \cup Active(C)
    <2>1. Whole(R)
      BY <1>1, <1>2 DEF Whole
    <2>2. QED  BY <1>1, <2>1, StoppedKept
  <1> HIDE DEF D
  <1>4. CASE l = <<>>
    <2>1. Range(l) = {}
      BY <1>4 DEF Range
    <2>2. Same(C, R) /\ Halts(C, D)
      BY <1>1, <1>3, <1>4, <2>1 DEF Same, Halts
    <2>3. QED  BY <1>1, <1>3, <2>2 DEF Goal, OrderStep, R, D
  <1>5. CASE l # <<>>
    <2>1. l \in Seq(Msg)
      BY ConversationFields DEF Whole, Kept, Line
    <2> HIDE DEF l
    <2>2. /\ 1 \in 1 .. Len(l) /\ Len(l) \in 1 .. Len(l) /\ 1 <= Len(l)
          /\ SubSeq(l, 1, Len(l)) = l
      BY <1>5, <2>1
    <2>3. SubSeq(l, 1, 1 - 1) \o SubSeq(l, Len(l) + 1, Len(l)) = <<>>
      BY <1>5, <2>1
    <2>4. Leaves(C, R)
      BY <1>1, <2>2, <2>3 DEF Leaves, l
    <2>5. Leaves(C, D)
      BY <1>3, <2>2, <2>3 DEF Leaves, l
    <2>6. QED  BY <1>1, <1>3, <2>4, <2>5 DEF Goal, OrderStep, R, D
  <1>6. QED  BY <1>4, <1>5

\* The turn is stopped; the line stays.
LEMMA TurnHalts ==
  ASSUME NEW C, Whole(C)
  PROVE  Goal(C, Stopped(C))
  BY StoppedKept DEF Goal, OrderStep, Halts

\* One entry is withdrawn.
LEMMA EntryLeaves ==
  ASSUME NEW C, Whole(C), NEW i \in DOMAIN C.queue
  PROVE  Goal(C, With([C EXCEPT !.queue = RemoveAt(@, i)], C.queue[i].msgs, "settled"))
  <1> DEFINE D == With([C EXCEPT !.queue = RemoveAt(@, i)], C.queue[i].msgs, "settled")
  <1>1. /\ Kept(D) /\ Active(D) = Active(C) /\ Unwinding(D) = Unwinding(C)
        /\ \E j, k \in 1 .. Len(Line(C)) :
             /\ j <= k /\ Over(D) = Over(C) \cup Range(SubSeq(Line(C), j, k))
             /\ Line(D) = SubSeq(Line(C), 1, j - 1) \o SubSeq(Line(C), k + 1, Len(Line(C)))
    BY DiscardedKept DEF Whole
  <1> HIDE DEF D
  <1>2. Leaves(C, D)
    BY <1>1 DEF Leaves
  <1>3. Goal(C, D)
    BY <1>1, <1>2 DEF Goal, OrderStep
  <1>4. QED  BY <1>3 DEF D

-----------------------------------------------------------------------------
(* Every step of the conversation.                                         *)

KInv == IInv /\ Kept(conv)

\* Nobody waits, nobody is answered.
LEMMA InitKept == Init => KInv
  <1> SUFFICES ASSUME Init PROVE KInv
    OBVIOUS
  <1>1. conv \in Conversation
    BY DEF Init, Conversation, Turn
  <1>2. conv.queue = <<>> /\ Sends(<<>>) = <<>>
    <2>1. [i \in DOMAIN <<>> |-> <<>>[i].msgs] = <<>>
      OBVIOUS
    <2>2. QED  BY <2>1, FlattenEmpty DEF Sends, Init
  <1>3. Range(<<>>) = {} /\ IsInjective(<<>>) /\ DOMAIN <<>> = {}
    BY DEF Range, IsInjective
  <1>4. \A m \in Msg : conv.turn[m] = NotRun /\ conv.caller[m] = "new"
    BY DEF Init
  <1>5. NotRun.state = "none" /\ NotRun.msgs = <<>>
    BY DEF NotRun
  <1>6. Kept(conv)
    BY <1>1, <1>2, <1>3, <1>4, <1>5 DEF Kept, Carried, OneVoiced
  <1>7. QED  BY <1>6, InitSound DEF KInv

\* What a client does.
LEMMA ClientKept ==
  ASSUME KInv, NEW m \in Msg, Send(m) \/ Interrupt(m) \/ InterruptResumes(m)
  PROVE  Goal(conv, conv')
  <1>1. Whole(conv)
    BY DEF KInv, IInv, Whole
  <1>2. CASE Send(m)
    BY <1>1, <1>2, StartsAlone, JoinsLine DEF Send, Idle
  <1>3. CASE Interrupt(m)
    BY <1>1, <1>3, InterruptCutsIn DEF Interrupt
  <1>4. CASE InterruptResumes(m)
    BY <1>1, <1>4, DrainsIdle DEF InterruptResumes
  <1>5. QED  BY <1>2, <1>3, <1>4

\* What a turn does.
LEMMA TurnKept ==
  ASSUME KInv, NEW t \in Msg, Reclaim(t) \/ TurnEndsLate(t) \/ TurnEnds(t)
  PROVE  Goal(conv, conv')
  <1>1. Whole(conv)
    BY DEF KInv, IInv, Whole
  <1>2. CASE Reclaim(t)
    <2>1. conv.inflight = t
      BY <1>1, <1>2 DEF Reclaim, Whole, Sound, SlotHeld
    <2>2. conv' = conv
      BY <1>1, <1>2, <2>1 DEF Reclaim, Whole, Sound, Shaped
    <2>3. QED  BY <1>1, <2>2 DEF Goal, OrderStep, Same, Whole
  <1>3. CASE TurnEndsLate(t)
    BY <1>1, <1>3, ReturnsThenDrains DEF TurnEndsLate, Runs
  <1>4. CASE TurnEnds(t)
    BY <1>1, <1>4, ReturnsThenDrains DEF TurnEnds, Runs
  <1>5. QED  BY <1>2, <1>3, <1>4

\* What the daemon does.
LEMMA DaemonKept ==
  ASSUME KInv, \/ StopTurn \/ RejectQueue \/ Retire \/ TeardownEnds \/ EmergencyStop
               \/ TurnOff \/ SweepQueue \/ TurnOn \/ ShutdownBegins \/ ShutdownSweeps
  PROVE  Goal(conv, conv')
  <1>1. Whole(conv)
    BY DEF KInv, IInv, Whole
  <1>2. CASE StopTurn
    BY <1>1, <1>2, TurnHalts DEF StopTurn
  <1>3. CASE RejectQueue \/ SweepQueue \/ EmergencyStop \/ ShutdownSweeps
    BY <1>1, <1>3, LineRejected DEF RejectQueue, SweepQueue, EmergencyStop, ShutdownSweeps
  <1>4. CASE TeardownEnds
    BY <1>1, <1>4, DrainsIdle DEF TeardownEnds
  <1>5. CASE Retire \/ TurnOff \/ TurnOn \/ ShutdownBegins
    <2>1. conv' = conv
      BY <1>5 DEF Retire, TurnOff, TurnOn, ShutdownBegins
    <2>2. QED  BY <1>1, <2>1 DEF Goal, OrderStep, Same, Whole
  <1>6. QED  BY <1>2, <1>3, <1>4, <1>5

\* Every step keeps the account of the callers and is a step of SessionOrder.
LEMMA StepKept ==
  ASSUME KInv, [Next]_vars
  PROVE  KInv' /\ OrderStep(conv, conv')
  <1>1. IInv'
    BY StepSound DEF KInv
  <1>2. Goal(conv, conv')
    <2>1. ASSUME NEW m \in Msg, Send(m) \/ Interrupt(m) \/ InterruptResumes(m) PROVE Goal(conv, conv')
      BY <2>1, ClientKept
    <2>2. ASSUME NEW m \in Msg, Reclaim(m) \/ TurnEndsLate(m) \/ TurnEnds(m) PROVE Goal(conv, conv')
      BY <2>2, TurnKept
    <2>3. ASSUME NEW i \in DOMAIN conv.queue, Discard(i) PROVE Goal(conv, conv')
      <3>1. Whole(conv)
        BY DEF KInv, IInv, Whole
      <3>2. QED  BY <2>3, <3>1, EntryLeaves DEF Discard
    <2>4. CASE \/ StopTurn \/ RejectQueue \/ Retire \/ TeardownEnds \/ EmergencyStop
               \/ TurnOff \/ SweepQueue \/ TurnOn \/ ShutdownBegins \/ ShutdownSweeps
      BY <2>4, DaemonKept
    <2>5. CASE UNCHANGED vars
      <3>1. conv' = conv
        BY <2>5 DEF vars
      <3>2. QED  BY <3>1 DEF Goal, OrderStep, Same, KInv
    <2>6. QED  BY <2>1, <2>2, <2>3, <2>4, <2>5 DEF Next
  <1>3. Kept(conv')
    BY <1>2 DEF Goal
  <1>4. QED  BY <1>1, <1>2, <1>3 DEF Goal, KInv, Kept, Carried, OneVoiced

\* Every caller is owed one answer and gets one: who waits stands in the queue
\* once, and a message that is answered is carried by one turn (enqueue,
\* dispatchNext, rejectSession, finishSessionTurn).
THEOREM CallersAlwaysAccounted == Spec => []CallersAccounted
  <1>1. KInv => CallersAccounted
    BY DEF KInv, Kept, Carried, CallersAccounted
  <1>2. KInv /\ [Next]_vars => KInv'
    BY StepKept
  <1>3. QED  BY <1>1, <1>2, InitKept, PTL DEF Spec

\* The messages one turn answers come from one sender and origin, whichever
\* merge rule brought them together (canCoalesce, dispatchNext).
THEOREM OneVoiceAlways == Spec => []OneVoice
  <1>1. KInv => OneVoice
    BY DEF KInv, Kept, OneVoiced, OneVoice
  <1>2. KInv /\ [Next]_vars => KInv'
    BY StepKept
  <1>3. QED  BY <1>1, <1>2, InitKept, PTL DEF Spec

\* The state of a conversation stays well typed, the queue and its turns included.
THEOREM TypeCorrect == Spec => []TypeOK
  <1> DEFINE T == KInv /\ TypeOK
  <1>1. Init => T
    <2>1. Init => KInv /\ conv \in Conversation
      BY InitKept DEF KInv, Kept
    <2>2. QED  BY <2>1 DEF Init, TypeOK
  <1>2. T /\ [Next]_vars => T'
    <2> SUFFICES ASSUME T, [Next]_vars PROVE T'
      OBVIOUS
    <2>1. KInv' /\ (conv \in Conversation)'
      BY StepKept DEF KInv, Kept
    <2>2. /\ resuming' \subseteq Msg
          /\ teardown' \in {"none", "parked", "closing", "done", "dropped"}
          /\ mode' \in {"on", "off"} /\ sweep' \in BOOLEAN /\ shutdown' \in {"no", "closing", "closed"}
      <3> HIDE DEF T
      <3>1. /\ resuming \subseteq Msg
            /\ teardown \in {"none", "parked", "closing", "done", "dropped"}
            /\ mode \in {"on", "off"} /\ sweep \in BOOLEAN /\ shutdown \in {"no", "closing", "closed"}
        BY DEF T, TypeOK
      <3>2. ASSUME NEW m \in Msg, \/ Send(m) \/ Interrupt(m) \/ InterruptResumes(m)
                                  \/ Reclaim(m) \/ TurnEndsLate(m) \/ TurnEnds(m)
            PROVE  /\ resuming' \subseteq Msg
                   /\ teardown' \in {"none", "parked", "closing", "done", "dropped"}
                   /\ UNCHANGED <<mode, sweep, shutdown>>
        BY <3>1, <3>2 DEF Send, Interrupt, InterruptResumes, Reclaim, TurnEndsLate, TurnEnds
      <3>3. QED
        BY <3>1, <3>2 DEF Next, Discard, StopTurn, RejectQueue, Retire, TeardownEnds, EmergencyStop,
             TurnOff, SweepQueue, TurnOn, ShutdownBegins, ShutdownSweeps, Unparked, vars
    <2>3. QED  BY <2>1, <2>2 DEF TypeOK
  <1>3. QED  BY <1>1, <1>2, PTL DEF Spec

-----------------------------------------------------------------------------
(* The promise of SessionOrder.                                            *)

\* Who has not been sent yet is nowhere in the order.
LEMMA NewIsFresh ==
  ASSUME NEW C, Whole(C), NEW m \in Msg, C.caller[m] = "new"
  PROVE  m \notin Range(Line(C)) \cup Active(C) \cup Unwinding(C) \cup Over(C)
  <1>1. m \notin Range(Line(C)) /\ m \notin Over(C)
    BY DEF Whole, Kept, Line, Over
  <1>2. m \notin Active(C) \cup Unwinding(C)
    BY ActiveIs
  <1>3. QED  BY <1>1, <1>2

\* A step between two conversations is a step of the order they stand for.
LEMMA OrderSteps ==
  ASSUME KInv, OrderStep(conv, conv')
  PROVE  [Order!Next]_(Order!vars)
  <1>0. \A s : Order!Range(s) = Range(s)
    BY DEF Range, Order!Range
  <1>1. CASE \E m \in Msg : /\ conv.caller[m] = "new"
                            /\ \/ Starts(conv, conv', m) \/ LinesUp(conv, conv', m)
                               \/ CutsIn(conv, conv', m)
    <2>1. PICK m \in Msg : /\ conv.caller[m] = "new"
                           /\ \/ Starts(conv, conv', m) \/ LinesUp(conv, conv', m)
                              \/ CutsIn(conv, conv', m)
      BY <1>1
    <2>2. m \in Order!Fresh
      BY <1>0, <2>1, NewIsFresh DEF KInv, IInv, Whole, Order!Fresh, Line, Active, Unwinding, Stalled, Over
    <2>3. Order!Start(m) \/ Order!Join(m) \/ Order!CutIn(m)
      BY <2>1 DEF Starts, LinesUp, CutsIn, Order!Start, Order!Join, Order!CutIn,
           Line, Active, Unwinding, Stalled, Over
    <2>4. QED  BY <2>2, <2>3 DEF Order!Next
  <1>2. CASE \E S : Finishes(conv, conv', S)
    <2>1. PICK S : Finishes(conv, conv', S)
      BY <1>2
    <2>2. Order!Finish(S)
      BY <1>0, <2>1
      DEF Finishes, TakesHead, Order!Finish, Order!TakesFrom, Line, Active, Unwinding, Stalled, Over
    <2>3. QED  BY <2>1, <2>2 DEF Finishes, Order!Next, Active, Unwinding, Stalled
  <1>3. CASE Takes(conv, conv')
    <2>1. Order!Take
      BY <1>0, <1>3
      DEF Takes, TakesHead, Order!Take, Order!TakesFrom, Line, Active, Unwinding, Stalled, Over
    <2>2. QED  BY <2>1 DEF Order!Next
  <1>4. CASE Halts(conv, conv')
    BY <1>4 DEF Halts, Order!Next, Order!Stop, Line, Active, Unwinding, Stalled, Over
  <1>5. CASE Leaves(conv, conv')
    <2>1. PICK j, k \in 1 .. Len(Line(conv)) :
            /\ j <= k /\ Over(conv') = Over(conv) \cup Range(SubSeq(Line(conv), j, k))
            /\ Line(conv') = SubSeq(Line(conv), 1, j - 1) \o SubSeq(Line(conv), k + 1, Len(Line(conv)))
      BY <1>5 DEF Leaves
    <2>2. Order!Withdraw(j, k)
      BY <1>0, <1>5, <2>1 DEF Leaves, Order!Withdraw, Line, Active, Unwinding, Stalled, Over
    <2>3. QED  BY <2>1, <2>2 DEF Order!Next, Line
  <1>6. CASE Same(conv, conv')
    BY <1>6 DEF Same, Order!vars, Line, Active, Unwinding, Stalled, Over
  <1>7. QED  BY <1>1, <1>2, <1>3, <1>4, <1>5, <1>6 DEF OrderStep

\* A conversation keeps the promise of SessionOrder: its senders are answered by
\* one turn at a time, in the order they stand in line, and only an interrupt
\* goes to the head of it (session-send-queue.ts, runSendAndDrain).
THEOREM ConversationImplementsOrder == Spec => ImplementsOrder
  <1>1. Init => Order!Init
    <2> SUFFICES ASSUME Init PROVE Order!Init
      OBVIOUS
    <2>1. conv.queue = <<>> /\ conv.inflight = NoTurn /\ Sends(<<>>) = <<>>
      <3>1. [i \in DOMAIN <<>> |-> <<>>[i].msgs] = <<>>
        OBVIOUS
      <3>2. QED  BY <3>1, FlattenEmpty DEF Sends, Init
    <2>2. \A m \in Msg : conv.turn[m].state # "stopped" /\ conv.caller[m] # "settled"
      BY DEF Init, NotRun
    <2>3. QED  BY <2>1, <2>2 DEF Order!Init
  <1>2. KInv /\ [Next]_vars => [Order!Next]_(Order!vars)
    BY StepKept, OrderSteps
  <1>3. KInv /\ [Next]_vars => KInv'
    BY StepKept
  <1>4. QED  BY <1>1, <1>2, <1>3, InitKept, PTL DEF Spec, ImplementsOrder, Order!Spec

=============================================================================
