---------------------------- MODULE ProviderQueue ----------------------------
(***************************************************************************)
(* The admission queue in front of one language-model engine               *)
(* (core/src/runtime/provider-queue.ts): two lanes with their own caps,    *)
(* cache affinity with a starvation guard, ambient work held back while a  *)
(* person is engaged, an overflow slot for an engine that parks background *)
(* work, and turns that hand their slot over between tool-loop iterations. *)
(*                                                                         *)
(* Every method runs to its end on the event loop, so every method is one  *)
(* action: it changes the queue and drains it. Time is counted in ticks    *)
(* and every clock saturates at the threshold the code compares it with.   *)
(* pending is kept per lane in the order of enqueuedAt, the only order the *)
(* dispatcher reads; two entries of a lane never share a timestamp.        *)
(***************************************************************************)
EXTENDS Naturals, FiniteSets, Sequences, SequencesExt

CONSTANTS
  Turn,           \* callers of runInQueue; each holds or awaits one slot
  LaneOf,         \* [Turn -> Lane]
  Session,        \* [Turn -> session]
  Gezel,          \* [Turn -> gezel]
  Affine,         \* turns that did not opt out of affinity
  Ambient,        \* turns that are deferrable housekeeping
  Person,         \* turns with enginePriority 'interactive'
  Chore,          \* turns with enginePriority 'background'
  Concurrency,    \* constructor options, as clamped (388-400)
  InteractiveCap,
  BackgroundCap,
  EngineOverflow,
  MaxWait,        \* maxWaitMs, in ticks
  AffinityWindow, \* affinityWindowMs
  QuietWindow,    \* ambientQuietMs; 0 turns the gate off
  YieldQuantum,   \* yieldQuantumMs; 0 turns yielding off
  YieldMinWait,   \* yieldMinWaitMs
  Relaunch        \* caps an engine may be relaunched with: what narrow is given

Lane == {"interactive", "background"}

ASSUME QueueAssumption ==
  /\ IsFiniteSet(Turn) /\ LaneOf \in [Turn -> Lane]
  /\ Affine \subseteq Turn /\ Person \subseteq Turn /\ Chore \subseteq Turn
  /\ Ambient \subseteq {t \in Turn : LaneOf[t] = "background"}
  /\ Concurrency \in Nat \ {0}
  /\ InteractiveCap \in 1 .. Concurrency /\ BackgroundCap \in 1 .. Concurrency
  /\ EngineOverflow \in BOOLEAN
  /\ MaxWait \in Nat /\ AffinityWindow \in Nat /\ QuietWindow \in Nat
  /\ YieldQuantum \in Nat /\ YieldMinWait \in Nat
  /\ Relaunch \subseteq [Lane \cup {"total"} -> Nat \ {0}]

Patience == IF MaxWait > YieldMinWait THEN MaxWait ELSE YieldMinWait

VARIABLES
  q,      \* the ProviderQueue object
  waited, \* [Turn -> 0 .. Patience]: now - enqueuedAt of a pending turn
  held    \* [Turn -> 0 .. YieldQuantum]: now - heldSince of a running turn

vars == <<q, waited, held>>

\* slot says how a turn runs: not at all, in an ordinary slot or in the
\* overflow slot (runningContexts). recent counts down the affinity window of
\* the turn's last run, quiet counts up to the quiet window, and timer counts
\* down to the recheck: 0 is no timer, 1 is due.
Queue ==
  [cap : [Lane \cup {"total"} -> Nat], paused : BOOLEAN,
   pending : [Lane -> Seq(Turn)], slot : [Turn -> {"none", "own", "overflow"}],
   running : Nat, inLane : [Lane -> Nat], recent : [Turn -> 0 .. AffinityWindow + 1],
   quiet : 0 .. QuietWindow, timer : 0 .. QuietWindow + 1]

TypeOK ==
  /\ q \in Queue
  /\ waited \in [Turn -> 0 .. Patience] /\ held \in [Turn -> 0 .. YieldQuantum]

Init ==
  /\ q = [cap |-> [l \in Lane \cup {"total"} |->
                    CASE l = "total" -> Concurrency
                      [] l = "interactive" -> InteractiveCap
                      [] l = "background" -> BackgroundCap],
          paused |-> FALSE, pending |-> [l \in Lane |-> <<>>],
          slot |-> [t \in Turn |-> "none"], running |-> 0,
          inLane |-> [l \in Lane |-> 0], recent |-> [t \in Turn |-> 0],
          quiet |-> 0, timer |-> 0]
  /\ waited = [t \in Turn |-> 0] /\ held = [t \in Turn |-> 0]

Queued(Q) == Range(Q.pending["interactive"]) \cup Range(Q.pending["background"])
Running(Q) == {t \in Turn : Q.slot[t] # "none"}
Idle == Turn \ (Queued(q) \cup Running(q))

-----------------------------------------------------------------------------
(* Who may run next.                                                       *)

\* A turn that is not ambient is running or waiting.
Engaged(Q) == (Running(Q) \cup Queued(Q)) \ Ambient # {}

\* Mutant: the headroom is counted against all slots, not the interactive ones.
AmbientGateAnySlot(Q) ==
  \/ QuietWindow = 0
  \/ Q.cap["interactive"] > 1 /\ Q.running < Q.cap["total"] - 1
  \/ ~Engaged(Q) /\ Q.quiet = QuietWindow

\* Ambient work may use spare capacity while one interactive slot stays free;
\* otherwise it waits until nobody is engaged and the quiet window is over.
AmbientGateOpen(Q) ==
  \/ QuietWindow = 0
  \/ Q.cap["interactive"] > 1 /\ Q.running < Q.cap["interactive"] - 1
  \/ ~Engaged(Q) /\ Q.quiet = QuietWindow

\* Mutant: off by one.
AtCapPast(Q, lane) == Q.inLane[lane] > Q.cap[lane]

AtCap(Q, lane) == Q.inLane[lane] >= Q.cap[lane]

\* Turns of a lane the dispatcher may see at all.
Eligible(Q, lane) ==
  {t \in Range(Q.pending[lane]) : ~AtCap(Q, lane) /\ (t \in Ambient => AmbientGateOpen(Q))}

\* Mutant: no starvation guard over cache affinity.
StarvedNever(Q, W, lane) == {}

Starved(Q, W, lane) == {t \in Eligible(Q, lane) : W[t] >= MaxWait}

Position(Q, t) == CHOOSE n \in DOMAIN Q.pending[LaneOf[t]] : Q.pending[LaneOf[t]][n] = t

Oldest(Q, S) == CHOOSE t \in S : \A u \in S : Position(Q, t) <= Position(Q, u)

\* 2 for a session, 1 for a gezel that runs or ran within the window.
Warm(Q) == Running(Q) \cup {t \in Turn : Q.recent[t] > 0}
Affinity(Q, t) ==
  IF t \notin Affine THEN 0
  ELSE IF \E w \in Warm(Q) : Session[w] = Session[t] THEN 2
  ELSE IF \E w \in Warm(Q) : Gezel[w] = Gezel[t] THEN 1 ELSE 0

Warmest(Q, S) == {t \in S : \A u \in S : Affinity(Q, u) <= Affinity(Q, t)}

\* The candidates of pickNext; the oldest of them is dispatched.
Candidates(Q, W) ==
  IF Starved(Q, W, "interactive") # {} THEN Starved(Q, W, "interactive")
  ELSE IF Starved(Q, W, "background") # {} THEN Starved(Q, W, "background")
  ELSE IF Eligible(Q, "interactive") # {} THEN Warmest(Q, Eligible(Q, "interactive"))
  ELSE Warmest(Q, Eligible(Q, "background"))

\* The person an engine full of background work parks it for.
OverflowCandidates(Q) ==
  IF /\ EngineOverflow /\ Running(Q) # {}
     /\ \A t \in Running(Q) : t \in Chore /\ Q.slot[t] # "overflow"
  THEN Range(Q.pending["interactive"]) \cap Person
  ELSE {}

-----------------------------------------------------------------------------
(* Dispatching.                                                            *)

Dispatch(Q, t, slot) ==
  [Q EXCEPT !.pending[LaneOf[t]] = RemoveAt(@, Position(Q, t)), !.slot[t] = slot,
            !.running = @ + 1, !.inLane[LaneOf[t]] = @ + 1,
            !.quiet = IF t \in Ambient THEN @ ELSE 0]

\* One turn of drain's loop; it ends when neither pick finds anybody.
DrainOnce(Q, W) ==
  LET next == IF Q.running < Q.cap["total"] THEN Candidates(Q, W) ELSE {} IN
  CASE Q.paused -> Q
    [] ~Q.paused /\ next # {} -> Dispatch(Q, Oldest(Q, next), "own")
    [] ~Q.paused /\ next = {} /\ OverflowCandidates(Q) # {} ->
         Dispatch(Q, Oldest(Q, OverflowCandidates(Q)), "overflow")
    [] OTHER -> Q

\* Mutants: the timer is armed too late, or not at all.
RecheckedLate(Q) ==
  IF QuietWindow > 0 /\ Q.timer = 0 /\ Queued(Q) # {} /\ ~Engaged(Q) /\ Q.quiet < QuietWindow
  THEN [Q EXCEPT !.timer = QuietWindow - Q.quiet + 2]
  ELSE Q
RecheckedNever(Q) == Q

\* When only the clock holds ambient work back, a timer re-drains.
Rechecked(Q) ==
  IF QuietWindow > 0 /\ Q.timer = 0 /\ Queued(Q) # {} /\ ~Engaged(Q) /\ Q.quiet < QuietWindow
  THEN [Q EXCEPT !.timer = QuietWindow - Q.quiet + 1]
  ELSE Q

\* Mutant: one dispatch for each call, however many slots are free.
DrainedByOne(Q, W) == {Rechecked(R) : R \in {DrainOnce(Q, W)}}

\* What a drain leaves, as the set of one queue. Every turn of the loop but the
\* last takes an entry away, so Waiting(Q) turns are enough.
Waiting(Q) == Len(Q.pending["interactive"]) + Len(Q.pending["background"])

Drained(Q, W) ==
  LET drain[n \in 0 .. Waiting(Q)] ==
        IF n = 0 THEN {Q} ELSE {DrainOnce(R, W) : R \in drain[n - 1]}
  IN {Rechecked(R) : R \in drain[Waiting(Q)]}

\* A turn that came to run holds its slot from now on, one that came to wait
\* waits from now on; the others keep their clocks.
Settle(Q, W) ==
  \E Q2 \in Drained(Q, W) :
    /\ q' = Q2
    /\ waited' = [t \in Turn |-> IF t \in Queued(Q2) THEN W[t] ELSE 0]
    /\ held' = [t \in Turn |-> IF t \in Running(Q2) \cap Running(Q) THEN held[t] ELSE 0]

-----------------------------------------------------------------------------
(* The methods.                                                            *)

Enqueued(Q, t) == [Q EXCEPT !.pending[LaneOf[t]] = Append(@, t),
                            !.quiet = IF t \in Ambient THEN @ ELSE 0]

\* Mutant: the lane's counter is forgotten.
FreedLaneLeaks(Q, t) ==
  [Q EXCEPT !.slot[t] = "none", !.running = @ - 1,
            !.recent[t] = AffinityWindow + 1, !.quiet = IF t \in Ambient THEN @ ELSE 0]

\* release(): the slot goes back and the turn stays warm for a while.
Freed(Q, t) ==
  [Q EXCEPT !.slot[t] = "none", !.running = @ - 1, !.inLane[LaneOf[t]] = @ - 1,
            !.recent[t] = AffinityWindow + 1, !.quiet = IF t \in Ambient THEN @ ELSE 0]

Acquire(t) ==
  /\ t \in Idle
  /\ Settle(Enqueued(q, t), [waited EXCEPT ![t] = 0])

Release(t) ==
  /\ t \in Running(q)
  /\ Settle(Freed(q, t), waited)

\* cancelPending and an aborted signal: nobody drains.
Cancel(t) ==
  /\ t \in Queued(q)
  /\ q' = [q EXCEPT !.pending[LaneOf[t]] = RemoveAt(@, Position(q, t))]
  /\ waited' = [waited EXCEPT ![t] = 0]
  /\ UNCHANGED held

\* movePending: the entry takes the place, and the age, of its neighbour.
Move(t, to) ==
  LET lane == q.pending[LaneOf[t]] IN
  /\ to \in DOMAIN lane
  /\ q' = [q EXCEPT !.pending[LaneOf[t]] =
                    [lane EXCEPT ![Position(q, t)] = lane[to], ![to] = t]]
  /\ waited' = [waited EXCEPT ![t] = waited[lane[to]]]
  /\ UNCHANGED held

MoveUp(t)   == t \in Queued(q) /\ Move(t, Position(q, t) - 1)
MoveDown(t) == t \in Queued(q) /\ Move(t, Position(q, t) + 1)

Pause == ~q.paused /\ q' = [q EXCEPT !.paused = TRUE] /\ UNCHANGED <<waited, held>>

Resume == q.paused /\ Settle([q EXCEPT !.paused = FALSE], waited)

\* narrow: caps only ever fall, no lane above the total, running work stays.
Lower(current, next) == IF next < current THEN next ELSE current

Narrow(caps) ==
  LET total == Lower(q.cap["total"], caps["total"])
      cap == [l \in Lane \cup {"total"} |-> Lower(total, Lower(q.cap[l], caps[l]))]
  IN /\ cap # q.cap
     /\ q' = [q EXCEPT !.cap = cap]
     /\ UNCHANGED <<waited, held>>

\* hasYieldableWaiter
Yieldable(t) ==
  {w \in Queued(q) \ Ambient :
     /\ Session[w] # Session[t] /\ waited[w] >= YieldMinWait
     /\ LaneOf[w] = "interactive" \/ LaneOf[t] = "background"}

\* yieldIfContended: the slot is released and, in the same call, queued for
\* again; each of the two drains.
Yield(t) ==
  /\ t \in Running(q) /\ YieldQuantum > 0 /\ held[t] >= YieldQuantum
  /\ Yieldable(t) # {}
  /\ \E R \in Drained(Freed(q, t), waited) : Settle(Enqueued(R, t), waited)

RecheckFires == q.timer = 1 /\ Settle([q EXCEPT !.timer = 0], waited)

\* Time passes.
Upto(n, max) == IF n < max THEN n + 1 ELSE max
Down(n) == IF n > 0 THEN n - 1 ELSE 0

Tick ==
  /\ q' = [q EXCEPT !.recent = [t \in Turn |-> Down(q.recent[t])],
                    !.quiet = Upto(@, QuietWindow),
                    !.timer = IF @ > 1 THEN @ - 1 ELSE @]
  /\ waited' = [t \in Turn |-> IF t \in Queued(q) THEN Upto(waited[t], Patience) ELSE 0]
  /\ held' = [t \in Turn |-> IF t \in Running(q) THEN Upto(held[t], YieldQuantum) ELSE 0]

\* What the turns and the clock do.
Traffic ==
  \/ \E t \in Turn : Acquire(t) \/ Release(t) \/ Cancel(t) \/ Yield(t)
  \/ RecheckFires \/ Tick

\* What a person or an engine relaunch does to the queue.
Control ==
  \/ \E t \in Turn : MoveUp(t) \/ MoveDown(t)
  \/ \E caps \in Relaunch : Narrow(caps)
  \/ Pause \/ Resume

Next == Traffic \/ Control

Spec == Init /\ [][Next]_vars

\* Left to itself: turns end, time passes, the timer fires. Nobody is obliged
\* to ask for a slot, to yield or to cancel.
FairSpec ==
  /\ Init /\ [][Traffic]_vars
  /\ \A t \in Turn : WF_vars(Release(t))
  /\ WF_vars(RecheckFires) /\ WF_vars(Tick)

-----------------------------------------------------------------------------
(* Properties.                                                             *)

\* The counters drain and release keep (664-713) never drift from the turns
\* that run, no turn both runs and waits or waits twice, and at most one turn
\* runs past the caps.
SlotsAgree ==
  /\ q.running = Cardinality(Running(q))
  /\ \A l \in Lane : q.inLane[l] = Cardinality({t \in Running(q) : LaneOf[t] = l})
  /\ Running(q) \cap Queued(q) = {}
  /\ \A l \in Lane : IsInjective(q.pending[l])
  /\ Cardinality({t \in Turn : q.slot[t] = "overflow"}) <= 1

\* A turn that starts in an ordinary slot finds the total and its lane below
\* the caps of that moment, narrowed ones included ("nothing new starts past
\* the new caps"), whatever overflowed or yielded meanwhile.
Own(Q) == {t \in Turn : Q.slot[t] = "own"}
Started == {t \in Turn : q.slot[t] = "none" /\ q'.slot[t] # "none"}
StartsWithinCaps ==
  [][\A t \in Started \cap Own(q') :
       /\ Cardinality(Own(q')) <= q'.cap["total"]
       /\ Cardinality({u \in Own(q') : LaneOf[u] = LaneOf[t]}) <= q'.cap[LaneOf[t]]]_vars

\* No wake-up is lost: while the queue is not paused, a turn that is not
\* ambient waits only because every slot or its lane is full, and a person
\* never waits behind an engine that runs nothing but parkable work.
NoIdleSlot ==
  ~q.paused =>
    /\ \A t \in Queued(q) \ Ambient :
         q.running >= q.cap["total"] \/ AtCap(q, LaneOf[t])
    /\ OverflowCandidates(q) = {}

\* Ambient work that starts before the quiet window is over leaves one of the
\* engine's interactive slots free for a person who arrives.
AmbientKeepsHeadroom ==
  [][\A t \in Started \cap Ambient :
       q'.quiet < QuietWindow =>
         Cardinality(Running(q') \ (Started \ Ambient)) < q'.cap["interactive"]]_vars

\* Affinity is soft: once a turn has waited for MaxWait, nobody behind it in
\* its lane takes an ordinary slot first.
StarvedFirst ==
  [][\A t \in Started \cap Own(q') \cap Queued(q), u \in (Queued(q) \cap Queued(q')) \ Ambient :
       LaneOf[u] = LaneOf[t] /\ waited[u] >= MaxWait => Position(q, t) < Position(q, u)]_vars

\* Every interactive turn that waits is dispatched or cancelled, however many
\* turns of a warm conversation keep arriving.
InteractiveServed ==
  \A t \in Turn : LaneOf[t] = "interactive" =>
    (t \in Queued(q) ~> t \notin Queued(q))

\* Ambient work held back by the clock alone is woken by it: nothing else would.
AmbientWakes ==
  \A t \in Ambient : t \in Queued(q) ~> t \notin Queued(q) \/ Engaged(q)

=============================================================================
