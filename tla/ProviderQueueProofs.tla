------------------------- MODULE ProviderQueueProofs -------------------------
(***************************************************************************)
(* The admission queue, for any turns, lanes' caps and windows: its        *)
(* counters agree with the turns that run, no wake-up is lost, and what    *)
(* starts does so within the caps, in turn and with headroom for people.   *)
(***************************************************************************)
EXTENDS ProviderQueue, DataFacts, TLAPS

OfLane(S, l) == {t \in S : LaneOf[t] = l}

\* What holds of a queue between two primitive updates.
Agree(R) ==
  /\ R \in Queue
  /\ R.running = Cardinality(Running(R))
  /\ \A l \in Lane : R.inLane[l] = Cardinality(OfLane(Running(R), l))
  /\ Running(R) \cap Queued(R) = {}
  /\ \A l \in Lane : IsInjective(R.pending[l]) /\ \A t \in Range(R.pending[l]) : LaneOf[t] = l
  /\ \A t, u \in Turn : R.slot[t] = "overflow" /\ R.slot[u] = "overflow" => t = u
  /\ \A l \in Lane : R.cap[l] <= R.cap["total"]

-----------------------------------------------------------------------------
(* The fields of a queue, and what each update does to them.               *)

\* What the type of a queue says of its fields.
LEMMA QueueFields ==
  ASSUME NEW R, R \in Queue
  PROVE  /\ R.cap \in [Lane \cup {"total"} -> Nat] /\ R.paused \in BOOLEAN
         /\ R.pending \in [Lane -> Seq(Turn)] /\ R.slot \in [Turn -> {"none", "own", "overflow"}]
         /\ R.running \in Nat /\ R.inLane \in [Lane -> Nat]
         /\ R.recent \in [Turn -> 0 .. AffinityWindow + 1]
         /\ R.quiet \in 0 .. QuietWindow /\ R.timer \in 0 .. QuietWindow + 1
         /\ R = [cap |-> R.cap, paused |-> R.paused, pending |-> R.pending, slot |-> R.slot,
                 running |-> R.running, inLane |-> R.inLane, recent |-> R.recent,
                 quiet |-> R.quiet, timer |-> R.timer]
  BY DEF Queue

\* A queue put together from well-typed fields.
LEMMA QueueOf ==
  ASSUME NEW c \in [Lane \cup {"total"} -> Nat], NEW z \in BOOLEAN, NEW p \in [Lane -> Seq(Turn)],
         NEW s \in [Turn -> {"none", "own", "overflow"}], NEW n \in Nat, NEW i \in [Lane -> Nat],
         NEW r \in [Turn -> 0 .. AffinityWindow + 1], NEW k \in 0 .. QuietWindow,
         NEW h \in 0 .. QuietWindow + 1
  PROVE  [cap |-> c, paused |-> z, pending |-> p, slot |-> s, running |-> n, inLane |-> i,
          recent |-> r, quiet |-> k, timer |-> h] \in Queue
  BY DEF Queue

\* A turn has one lane, and its place is in that lane.
LEMMA LaneFacts ==
  ASSUME NEW R, Agree(R), NEW t \in Queued(R)
  PROVE  /\ t \in Turn /\ LaneOf[t] \in Lane /\ t \in Range(R.pending[LaneOf[t]])
         /\ Position(R, t) = PlaceOf(R.pending[LaneOf[t]], t)
         /\ Position(R, t) \in 1 .. Len(R.pending[LaneOf[t]])
         /\ R.pending[LaneOf[t]][Position(R, t)] = t
         /\ R.slot[t] = "none"
  <1>1. R \in Queue /\ R.pending \in [Lane -> Seq(Turn)]
    BY QueueFields DEF Agree
  <1>2. PICK l \in Lane : t \in Range(R.pending[l])
    BY DEF Queued, Lane
  <1>3. R.pending[l] \in Seq(Turn) /\ LaneOf[t] = l
    BY <1>1, <1>2 DEF Agree
  <1>4. t \in Turn
    BY <1>2, <1>3, RangeOfSeq
  <1>5. Position(R, t) = PlaceOf(R.pending[l], t)
    BY <1>3 DEF Position, PlaceOf
  <1>6. PlaceOf(R.pending[l], t) \in 1 .. Len(R.pending[l]) /\ R.pending[l][PlaceOf(R.pending[l], t)] = t
    BY <1>2, <1>3, AtFacts
  <1>7. t \notin Running(R)
    BY DEF Agree
  <1>8. QED  BY <1>2, <1>3, <1>4, <1>5, <1>6, <1>7 DEF Running

\* Who waits, by lane.
LEMMA QueuedOf ==
  ASSUME NEW R, Agree(R), NEW t \in Turn
  PROVE  t \in Queued(R) <=> t \in Range(R.pending[LaneOf[t]])
  <1>1. LaneOf[t] \in Lane
    BY QueueAssumption
  <1>2. QED  BY <1>1, LaneFacts DEF Queued, Lane

\* One entry leaves its lane.
Shorter(R, t) == [R.pending EXCEPT ![LaneOf[t]] = RemoveAt(@, Position(R, t))]

\* What a lane looks like once a turn of it is taken out: the others keep their
\* order.
LEMMA ShorterFacts ==
  ASSUME NEW R, Agree(R), NEW t \in Queued(R)
  PROVE  LET p == Shorter(R, t) IN
         /\ p \in [Lane -> Seq(Turn)]
         /\ \A l \in Lane : /\ IsInjective(p[l]) /\ Range(p[l]) = Range(R.pending[l]) \ {t}
                            /\ \A a, b \in Range(p[l]) :
                                 PlaceOf(p[l], a) < PlaceOf(p[l], b) => PlaceOf(R.pending[l], a) < PlaceOf(R.pending[l], b)
         /\ Len(p["interactive"]) + Len(p["background"]) = Waiting(R) - 1
         /\ Waiting(R) \in Nat \ {0}
  <1> DEFINE p == Shorter(R, t)
             k == LaneOf[t]
             s == R.pending[k]
             i == Position(R, t)
  <1>1. R.pending \in [Lane -> Seq(Turn)]
    BY QueueFields DEF Agree
  <1>2. k \in Lane /\ s \in Seq(Turn) /\ i \in 1 .. Len(s) /\ s[i] = t /\ IsInjective(s)
    BY <1>1, LaneFacts DEF Agree
  <1>3. p[k] = RemoveAt(s, i) /\ \A l \in Lane \ {k} : p[l] = R.pending[l]
    BY <1>1, <1>2 DEF Shorter
  <1> HIDE DEF s, i
  <1>4. /\ p[k] \in Seq(Turn) /\ Len(p[k]) = Len(s) - 1 /\ IsInjective(p[k]) /\ Range(p[k]) = Range(s) \ {t}
        /\ \A a, b \in Range(p[k]) : PlaceOf(p[k], a) < PlaceOf(p[k], b) => PlaceOf(s, a) < PlaceOf(s, b)
    BY <1>2, <1>3, RemovedFacts
  <1>5. p \in [Lane -> Seq(Turn)]
    BY <1>1, <1>2, <1>3, <1>4 DEF Shorter, s, i
  <1> HIDE DEF p, k
  <1>6. ASSUME NEW l \in Lane
        PROVE  /\ IsInjective(p[l]) /\ Range(p[l]) = Range(R.pending[l]) \ {t}
               /\ \A a, b \in Range(p[l]) :
                    PlaceOf(p[l], a) < PlaceOf(p[l], b) => PlaceOf(R.pending[l], a) < PlaceOf(R.pending[l], b)
    <2>1. CASE l = k
      BY <1>4, <2>1 DEF s
    <2>2. CASE l # k
      <3>1. p[l] = R.pending[l] /\ t \notin Range(R.pending[l])
        BY <1>3, <2>2 DEF Agree, k
      <3>2. QED  BY <3>1 DEF Agree
    <2>3. QED  BY <2>1, <2>2
  <1>7. /\ Len(p["interactive"]) + Len(p["background"]) = Waiting(R) - 1
        /\ Waiting(R) \in Nat \ {0}
    <2> DEFINE x == Len(R.pending["interactive"])  y == Len(R.pending["background"])
               xx == Len(p["interactive"])  yy == Len(p["background"])
    <2>1. x \in Nat /\ y \in Nat /\ k \in {"interactive", "background"} /\ Waiting(R) = x + y
      BY <1>1, <1>2 DEF Lane, Waiting
    <2>2. Len(s) >= 1 /\ Len(s) \in Nat
      BY <1>2
    <2>3. \/ xx = x - 1 /\ x >= 1 /\ yy = y
          \/ yy = y - 1 /\ y >= 1 /\ xx = x
      <3>1. CASE k = "interactive"
        BY <1>3, <1>4, <2>2, <3>1 DEF s, Lane
      <3>2. CASE k = "background"
        BY <1>3, <1>4, <2>2, <3>2 DEF s, Lane
      <3>3. QED  BY <2>1, <3>1, <3>2
    <2> HIDE DEF x, y, xx, yy
    <2>4. xx + yy = Waiting(R) - 1 /\ Waiting(R) \in Nat \ {0}
      BY <2>1, <2>3
    <2>5. QED  BY <2>4 DEF xx, yy
  <1>8. QED  BY <1>5, <1>6, <1>7 DEF p

\* The updates, field by field.
LEMMA DispatchIs ==
  ASSUME NEW R, R \in Queue, NEW t, NEW slot
  PROVE  Dispatch(R, t, slot) =
           [cap |-> R.cap, paused |-> R.paused, pending |-> Shorter(R, t),
            slot |-> [R.slot EXCEPT ![t] = slot], running |-> R.running + 1,
            inLane |-> [R.inLane EXCEPT ![LaneOf[t]] = @ + 1], recent |-> R.recent,
            quiet |-> IF t \in Ambient THEN R.quiet ELSE 0, timer |-> R.timer]
  <1> DEFINE k == LaneOf[t]
             i == Position(R, t)
             a == Ambient
  <1>1. R = [cap |-> R.cap, paused |-> R.paused, pending |-> R.pending, slot |-> R.slot,
                 running |-> R.running, inLane |-> R.inLane, recent |-> R.recent,
                 quiet |-> R.quiet, timer |-> R.timer]
    BY QueueFields
  <1>2. Dispatch(R, t, slot) =
          [R EXCEPT !.pending[k] = RemoveAt(@, i), !.slot[t] = slot,
                    !.running = @ + 1, !.inLane[k] = @ + 1,
                    !.quiet = IF t \in a THEN @ ELSE 0]
    BY DEF Dispatch
  <1>3. Shorter(R, t) = [R.pending EXCEPT ![k] = RemoveAt(@, i)]
    BY DEF Shorter
  <1> HIDE DEF k, i, a
  <1>4. QED  BY <1>1, <1>2, <1>3 DEF k, a

\* The queue after a turn joined its lane, field by field.
LEMMA EnqueuedIs ==
  ASSUME NEW R, R \in Queue, NEW t
  PROVE  Enqueued(R, t) =
           [cap |-> R.cap, paused |-> R.paused,
            pending |-> [R.pending EXCEPT ![LaneOf[t]] = Append(@, t)],
            slot |-> R.slot, running |-> R.running, inLane |-> R.inLane, recent |-> R.recent,
            quiet |-> IF t \in Ambient THEN R.quiet ELSE 0, timer |-> R.timer]
  <1> DEFINE k == LaneOf[t]
             a == Ambient
  <1>1. R = [cap |-> R.cap, paused |-> R.paused, pending |-> R.pending, slot |-> R.slot,
                 running |-> R.running, inLane |-> R.inLane, recent |-> R.recent,
                 quiet |-> R.quiet, timer |-> R.timer]
    BY QueueFields
  <1>2. Enqueued(R, t) = [R EXCEPT !.pending[k] = Append(@, t), !.quiet = IF t \in a THEN @ ELSE 0]
    BY DEF Enqueued
  <1> HIDE DEF k, a
  <1>3. QED  BY <1>1, <1>2 DEF k, a

\* The queue after a turn gave its slot back, field by field.
LEMMA FreedIs ==
  ASSUME NEW R, R \in Queue, NEW t
  PROVE  Freed(R, t) =
           [cap |-> R.cap, paused |-> R.paused, pending |-> R.pending,
            slot |-> [R.slot EXCEPT ![t] = "none"], running |-> R.running - 1,
            inLane |-> [R.inLane EXCEPT ![LaneOf[t]] = @ - 1],
            recent |-> [R.recent EXCEPT ![t] = AffinityWindow + 1],
            quiet |-> IF t \in Ambient THEN R.quiet ELSE 0, timer |-> R.timer]
  <1> DEFINE k == LaneOf[t]
             a == Ambient
             w == AffinityWindow + 1
  <1>1. R = [cap |-> R.cap, paused |-> R.paused, pending |-> R.pending, slot |-> R.slot,
                 running |-> R.running, inLane |-> R.inLane, recent |-> R.recent,
                 quiet |-> R.quiet, timer |-> R.timer]
    BY QueueFields
  <1>2. Freed(R, t) =
          [R EXCEPT !.slot[t] = "none", !.running = @ - 1, !.inLane[k] = @ - 1,
                    !.recent[t] = w, !.quiet = IF t \in a THEN @ ELSE 0]
    BY DEF Freed
  <1> HIDE DEF k, a, w
  <1>3. QED  BY <1>1, <1>2 DEF k, a, w

\* The order of two entries of a lane.
Before(R, a, b) ==
  LaneOf[a] = LaneOf[b] /\ PlaceOf(R.pending[LaneOf[a]], a) < PlaceOf(R.pending[LaneOf[a]], b)

SameOrder(R, D) == \A a, b \in Queued(R) \cap Queued(D) : Before(D, a, b) => Before(R, a, b)

\* D is R after t was given a slot.
Given(R, D, t, slot) ==
  /\ Agree(D) /\ D.cap = R.cap /\ D.paused = R.paused /\ D.timer = R.timer
  /\ D.running = R.running + 1
  /\ \A l \in Lane : D.inLane[l] = IF l = LaneOf[t] THEN R.inLane[l] + 1 ELSE R.inLane[l]
  /\ Queued(D) = Queued(R) \ {t} /\ Running(D) = Running(R) \cup {t}
  /\ \A u \in Turn : D.slot[u] = IF u = t THEN slot ELSE R.slot[u]
  /\ D.quiet = IF t \in Ambient THEN R.quiet ELSE 0
  /\ SameOrder(R, D)
  /\ Waiting(R) \in Nat \ {0} /\ Waiting(D) = Waiting(R) - 1

\* A turn that waits is given a slot.
LEMMA DispatchFacts ==
  ASSUME NEW R, Agree(R), NEW t \in Queued(R), NEW slot \in {"own", "overflow"},
         slot = "overflow" => \A u \in Turn : R.slot[u] # "overflow"
  PROVE  Given(R, Dispatch(R, t, slot), t, slot)
  <1> DEFINE D == Dispatch(R, t, slot)
             p == Shorter(R, t)
             s == [R.slot EXCEPT ![t] = slot]
             n == R.running + 1
             i == [R.inLane EXCEPT ![LaneOf[t]] = @ + 1]
             k == IF t \in Ambient THEN R.quiet ELSE 0
  <1>1. /\ R \in Queue /\ t \in Turn /\ LaneOf[t] \in Lane /\ R.slot[t] = "none" /\ t \notin Running(R)
    BY LaneFacts DEF Agree
  <1>2. /\ R.cap \in [Lane \cup {"total"} -> Nat] /\ R.paused \in BOOLEAN
        /\ R.slot \in [Turn -> {"none", "own", "overflow"}] /\ R.running \in Nat /\ R.inLane \in [Lane -> Nat]
        /\ R.recent \in [Turn -> 0 .. AffinityWindow + 1]
        /\ R.quiet \in 0 .. QuietWindow /\ R.timer \in 0 .. QuietWindow + 1
    BY <1>1, QueueFields
  <1>3. /\ p \in [Lane -> Seq(Turn)]
        /\ \A l \in Lane : /\ IsInjective(p[l]) /\ Range(p[l]) = Range(R.pending[l]) \ {t}
                           /\ \A a, b \in Range(p[l]) :
                                PlaceOf(p[l], a) < PlaceOf(p[l], b) => PlaceOf(R.pending[l], a) < PlaceOf(R.pending[l], b)
        /\ Len(p["interactive"]) + Len(p["background"]) = Waiting(R) - 1
        /\ Waiting(R) \in Nat \ {0}
    BY ShorterFacts
  <1>4. /\ s \in [Turn -> {"none", "own", "overflow"}] /\ \A u \in Turn : s[u] = IF u = t THEN slot ELSE R.slot[u]
        /\ i \in [Lane -> Nat] /\ \A l \in Lane : i[l] = IF l = LaneOf[t] THEN R.inLane[l] + 1 ELSE R.inLane[l]
        /\ n \in Nat /\ k \in 0 .. QuietWindow
    <2>1. QuietWindow \in Nat
      BY QueueAssumption
    <2>2. s \in [Turn -> {"none", "own", "overflow"}] /\ \A u \in Turn : s[u] = IF u = t THEN slot ELSE R.slot[u]
      BY <1>1, <1>2
    <2>3. /\ i \in [Lane -> Nat]
          /\ \A l \in Lane : i[l] = IF l = LaneOf[t] THEN R.inLane[l] + 1 ELSE R.inLane[l]
      BY <1>1, <1>2
    <2>4. n \in Nat /\ k \in 0 .. QuietWindow
      BY <1>2, <2>1
    <2>5. QED  BY <2>2, <2>3, <2>4
  <1>5. D = [cap |-> R.cap, paused |-> R.paused, pending |-> p, slot |-> s, running |-> n, inLane |-> i,
             recent |-> R.recent, quiet |-> k, timer |-> R.timer]
    BY <1>1, DispatchIs
  <1> HIDE DEF D, p, s, n, i, k
  <1>6. D \in Queue
    BY <1>2, <1>3, <1>4, <1>5, QueueOf
  <1>7. /\ D.cap = R.cap /\ D.paused = R.paused /\ D.pending = p /\ D.slot = s /\ D.running = n
        /\ D.inLane = i /\ D.quiet = k /\ D.timer = R.timer
    BY <1>5
  <1>8. Running(D) = Running(R) \cup {t}
    BY <1>1, <1>4, <1>7 DEF Running
  <1>9. \A l \in Lane : Range(D.pending[l]) = Range(R.pending[l]) \ {t}
    BY <1>3, <1>7
  <1>10. Queued(D) = Queued(R) \ {t}
    BY <1>9 DEF Queued, Lane
  <1>11. IsFiniteSet(Running(R)) /\ \A l \in Lane : IsFiniteSet(OfLane(Running(R), l))
    BY QueueAssumption, FS_Subset DEF Running, OfLane
  <1>12. n = Cardinality(Running(D))
    <2>1. Cardinality(Running(R) \cup {t}) = Cardinality(Running(R)) + 1
      BY <1>1, <1>11, FS_AddElement
    <2>2. QED  BY <1>8, <2>1 DEF Agree, n
  <1>13. \A l \in Lane : i[l] = Cardinality(OfLane(Running(D), l))
    <2>1. ASSUME NEW l \in Lane PROVE i[l] = Cardinality(OfLane(Running(D), l))
      <3>1. CASE l = LaneOf[t]
        <4>1. OfLane(Running(D), l) = OfLane(Running(R), l) \cup {t} /\ t \notin OfLane(Running(R), l)
          BY <1>1, <1>8, <3>1 DEF OfLane
        <4>2. Cardinality(OfLane(Running(R), l) \cup {t}) = Cardinality(OfLane(Running(R), l)) + 1
          BY <1>11, <4>1, FS_AddElement
        <4>3. QED  BY <1>4, <3>1, <4>1, <4>2 DEF Agree
      <3>2. CASE l # LaneOf[t]
        <4>1. OfLane(Running(D), l) = OfLane(Running(R), l)
          BY <1>8, <3>2 DEF OfLane
        <4>2. QED  BY <1>4, <3>2, <4>1 DEF Agree
      <3>3. QED  BY <3>1, <3>2
    <2>2. QED  BY <2>1
  <1>14. \A a, b \in Turn : D.slot[a] = "overflow" /\ D.slot[b] = "overflow" => a = b
    BY <1>4, <1>7 DEF Agree
  <1>15. Running(D) \cap Queued(D) = {}
    BY <1>8, <1>10 DEF Agree
  <1>16. Agree(D)
    BY <1>3, <1>6, <1>7, <1>9, <1>12, <1>13, <1>14, <1>15 DEF Agree
  <1>17. SameOrder(R, D)
    <2>1. ASSUME NEW a \in Queued(R) \cap Queued(D), NEW b \in Queued(R) \cap Queued(D), Before(D, a, b)
          PROVE  Before(R, a, b)
      <3>1. /\ LaneOf[a] \in Lane /\ LaneOf[a] = LaneOf[b]
            /\ a \in Range(D.pending[LaneOf[a]]) /\ b \in Range(D.pending[LaneOf[a]])
        BY <1>16, <2>1, LaneFacts DEF Before
      <3>2. QED  BY <1>3, <1>7, <2>1, <3>1 DEF Before
    <2>2. QED  BY <2>1 DEF SameOrder
  <1>18. Waiting(D) = Waiting(R) - 1
    BY <1>3, <1>7 DEF Waiting
  <1>19. QED  BY <1>3, <1>4, <1>7, <1>8, <1>10, <1>16, <1>17, <1>18 DEF Given, D, n, k


\* D is R after t asked for a slot.
Asked(R, D, t) ==
  /\ Agree(D) /\ D.cap = R.cap /\ D.paused = R.paused /\ D.timer = R.timer
  /\ D.slot = R.slot /\ D.running = R.running /\ D.inLane = R.inLane
  /\ Queued(D) = Queued(R) \cup {t} /\ Running(D) = Running(R)
  /\ D.quiet = IF t \in Ambient THEN R.quiet ELSE 0
  /\ \A a, b \in Queued(R) : Before(D, a, b) => Before(R, a, b)

\* A turn that neither runs nor waits joins its lane.
LEMMA EnqueuedFacts ==
  ASSUME NEW R, Agree(R), NEW t \in Turn, t \notin Queued(R), t \notin Running(R)
  PROVE  Asked(R, Enqueued(R, t), t)
  <1> DEFINE D == Enqueued(R, t)
             p == [R.pending EXCEPT ![LaneOf[t]] = Append(@, t)]
             k == IF t \in Ambient THEN R.quiet ELSE 0
             l0 == LaneOf[t]
  <1>1. R \in Queue /\ l0 \in Lane /\ QuietWindow \in Nat
    BY QueueAssumption DEF Agree
  <1>2. /\ R.cap \in [Lane \cup {"total"} -> Nat] /\ R.paused \in BOOLEAN
        /\ R.pending \in [Lane -> Seq(Turn)]
        /\ R.slot \in [Turn -> {"none", "own", "overflow"}] /\ R.running \in Nat /\ R.inLane \in [Lane -> Nat]
        /\ R.recent \in [Turn -> 0 .. AffinityWindow + 1]
        /\ R.quiet \in 0 .. QuietWindow /\ R.timer \in 0 .. QuietWindow + 1
    BY <1>1, QueueFields
  <1>3. D = [cap |-> R.cap, paused |-> R.paused, pending |-> p, slot |-> R.slot, running |-> R.running,
             inLane |-> R.inLane, recent |-> R.recent, quiet |-> k, timer |-> R.timer]
    BY <1>1, EnqueuedIs
  <1>4. k \in 0 .. QuietWindow
    BY <1>1, <1>2
  <1>5. \A l \in Lane : p[l] = IF l = l0 THEN Append(R.pending[l], t) ELSE R.pending[l]
    BY <1>1, <1>2
  <1> HIDE DEF k, l0
  <1>6. /\ R.pending[l0] \in Seq(Turn) /\ IsInjective(R.pending[l0])
        /\ t \notin Range(R.pending[l0])
    BY <1>1, <1>2 DEF Agree, Queued, Lane
  <1>7. /\ p[l0] \in Seq(Turn) /\ IsInjective(p[l0]) /\ Range(p[l0]) = Range(R.pending[l0]) \cup {t}
        /\ \A a \in Range(R.pending[l0]) : PlaceOf(p[l0], a) = PlaceOf(R.pending[l0], a)
    BY <1>1, <1>5, <1>6, AppendedFacts
  <1>8. p \in [Lane -> Seq(Turn)]
    BY <1>1, <1>2, <1>5, <1>7 DEF l0
  <1> HIDE DEF D, p
  <1>9. D \in Queue
    BY <1>2, <1>3, <1>4, <1>8, QueueOf
  <1>10. /\ D.cap = R.cap /\ D.paused = R.paused /\ D.pending = p /\ D.slot = R.slot /\ D.running = R.running
         /\ D.inLane = R.inLane /\ D.quiet = k /\ D.timer = R.timer
    BY <1>3
  <1>11. Running(D) = Running(R)
    BY <1>10 DEF Running
  <1>12. Queued(D) = Queued(R) \cup {t}
    <2>1. l0 = "interactive" \/ l0 = "background"
      BY <1>1 DEF Lane
    <2>2. Queued(D) = Range(p["interactive"]) \cup Range(p["background"])
      BY <1>10 DEF Queued
    <2>3. CASE l0 = "interactive"
      BY <1>5, <1>7, <2>2, <2>3 DEF Queued, Lane
    <2>4. CASE l0 = "background"
      BY <1>5, <1>7, <2>2, <2>4 DEF Queued, Lane
    <2>5. QED  BY <2>1, <2>3, <2>4
  <1>13. ASSUME NEW l \in Lane
         PROVE  IsInjective(p[l]) /\ \A u \in Range(p[l]) : LaneOf[u] = l
    BY <1>5, <1>7 DEF Agree, l0
  <1>14. Agree(D)
    BY <1>9, <1>10, <1>11, <1>12, <1>13 DEF Agree
  <1>15. ASSUME NEW a \in Queued(R), NEW b \in Queued(R), Before(D, a, b) PROVE Before(R, a, b)
    <2>1. LaneOf[a] \in Lane /\ LaneOf[a] = LaneOf[b] /\ a \in Range(R.pending[LaneOf[a]])
          /\ b \in Range(R.pending[LaneOf[a]])
      BY <1>15, LaneFacts DEF Before
    <2>2. PlaceOf(p[LaneOf[a]], a) = PlaceOf(R.pending[LaneOf[a]], a) /\ PlaceOf(p[LaneOf[a]], b) = PlaceOf(R.pending[LaneOf[a]], b)
      BY <1>5, <1>7, <2>1
    <2>3. QED  BY <1>10, <1>15, <2>2 DEF Before
  <1>16. QED  BY <1>10, <1>11, <1>12, <1>14, <1>15 DEF Asked, D, k

\* D is R after t gave its slot back.
GaveUp(R, D, t) ==
  /\ Agree(D) /\ D.cap = R.cap /\ D.paused = R.paused /\ D.timer = R.timer /\ D.pending = R.pending
  /\ R.running = D.running + 1
  /\ \A l \in Lane : R.inLane[l] = IF l = LaneOf[t] THEN D.inLane[l] + 1 ELSE D.inLane[l]
  /\ Queued(D) = Queued(R) /\ Running(D) = Running(R) \ {t}
  /\ \A u \in Turn : D.slot[u] = IF u = t THEN "none" ELSE R.slot[u]
  /\ D.quiet = IF t \in Ambient THEN R.quiet ELSE 0

\* A turn that runs gives its slot back.
LEMMA FreedFacts ==
  ASSUME NEW R, Agree(R), NEW t \in Running(R)
  PROVE  GaveUp(R, Freed(R, t), t)
  <1> DEFINE D == Freed(R, t)
             s == [R.slot EXCEPT ![t] = "none"]
             n == R.running - 1
             i == [R.inLane EXCEPT ![LaneOf[t]] = @ - 1]
             r == [R.recent EXCEPT ![t] = AffinityWindow + 1]
             k == IF t \in Ambient THEN R.quiet ELSE 0
  <1>1. R \in Queue /\ t \in Turn /\ LaneOf[t] \in Lane /\ QuietWindow \in Nat /\ AffinityWindow \in Nat
    BY QueueAssumption DEF Agree, Running
  <1>2. /\ R.cap \in [Lane \cup {"total"} -> Nat] /\ R.paused \in BOOLEAN
        /\ R.pending \in [Lane -> Seq(Turn)]
        /\ R.slot \in [Turn -> {"none", "own", "overflow"}] /\ R.running \in Nat /\ R.inLane \in [Lane -> Nat]
        /\ R.recent \in [Turn -> 0 .. AffinityWindow + 1]
        /\ R.quiet \in 0 .. QuietWindow /\ R.timer \in 0 .. QuietWindow + 1
    BY <1>1, QueueFields
  <1>3. IsFiniteSet(Running(R)) /\ \A l \in Lane : IsFiniteSet(OfLane(Running(R), l))
    BY QueueAssumption, FS_Subset DEF Running, OfLane
  <1>4. D = [cap |-> R.cap, paused |-> R.paused, pending |-> R.pending, slot |-> s, running |-> n,
             inLane |-> i, recent |-> r, quiet |-> k, timer |-> R.timer]
    BY <1>1, FreedIs
  <1>5. /\ s \in [Turn -> {"none", "own", "overflow"}]
        /\ \A u \in Turn : s[u] = IF u = t THEN "none" ELSE R.slot[u]
    BY <1>1, <1>2
  <1>6. r \in [Turn -> 0 .. AffinityWindow + 1] /\ k \in 0 .. QuietWindow
    BY <1>1, <1>2
  <1>7. \A l \in Lane : i[l] = IF l = LaneOf[t] THEN R.inLane[l] - 1 ELSE R.inLane[l]
    BY <1>1, <1>2
  <1>8. R.running = Cardinality(Running(R)) /\ Cardinality(Running(R) \ {t}) = Cardinality(Running(R)) - 1
        /\ Cardinality(Running(R) \ {t}) \in Nat
    BY <1>3, FS_RemoveElement, FS_CardinalityType, FS_Subset DEF Agree
  <1>9. n \in Nat /\ R.running = n + 1 /\ n = Cardinality(Running(R) \ {t})
    BY <1>2, <1>8
  <1>10. ASSUME NEW l \in Lane
         PROVE  /\ i[l] \in Nat /\ i[l] = Cardinality(OfLane(Running(R) \ {t}, l))
                /\ R.inLane[l] = IF l = LaneOf[t] THEN i[l] + 1 ELSE i[l]
    <2> DEFINE A == OfLane(Running(R), l)
    <2>1. R.inLane[l] = Cardinality(A) /\ IsFiniteSet(A) /\ R.inLane[l] \in Nat
      BY <1>2, <1>3 DEF Agree
    <2>2. CASE l = LaneOf[t]
      <3>1. OfLane(Running(R) \ {t}, l) = A \ {t} /\ t \in A
        BY <2>2 DEF OfLane
      <3> HIDE DEF A
      <3>2. Cardinality(A \ {t}) = Cardinality(A) - 1 /\ Cardinality(A \ {t}) \in Nat
        BY <2>1, <3>1, FS_RemoveElement, FS_CardinalityType, FS_Subset
      <3>3. i[l] = R.inLane[l] - 1
        BY <1>7, <2>2
      <3>4. i[l] = Cardinality(A \ {t}) /\ R.inLane[l] = i[l] + 1
        BY <2>1, <3>2, <3>3
      <3> HIDE DEF i
      <3>5. QED  BY <2>2, <3>1, <3>2, <3>4
    <2>3. CASE l # LaneOf[t]
      <3>1. OfLane(Running(R) \ {t}, l) = A
        BY <2>3 DEF OfLane
      <3>2. QED  BY <1>7, <2>1, <2>3, <3>1
    <2>4. QED  BY <2>2, <2>3
  <1>11. i \in [Lane -> Nat]
    BY <1>2, <1>10
  <1> HIDE DEF D, s, n, i, r, k
  <1>12. D \in Queue
    BY <1>2, <1>4, <1>5, <1>6, <1>9, <1>11, QueueOf
  <1>13. /\ D.cap = R.cap /\ D.paused = R.paused /\ D.pending = R.pending /\ D.slot = s /\ D.running = n
         /\ D.inLane = i /\ D.quiet = k /\ D.timer = R.timer
    BY <1>4
  <1>14. Running(D) = Running(R) \ {t} /\ Queued(D) = Queued(R)
    BY <1>5, <1>13 DEF Running, Queued
  <1>15. \A a, b \in Turn : D.slot[a] = "overflow" /\ D.slot[b] = "overflow" => a = b
    BY <1>5, <1>13 DEF Agree
  <1>16. Agree(D)
    BY <1>9, <1>10, <1>12, <1>13, <1>14, <1>15 DEF Agree
  <1>17. QED  BY <1>5, <1>9, <1>10, <1>13, <1>14, <1>16 DEF GaveUp, D, k


-----------------------------------------------------------------------------
(* Who is picked.                                                          *)

\* Two entries of a lane have different places.
LEMMA PlacesDiffer ==
  ASSUME NEW R, Agree(R), NEW t \in Queued(R), NEW u \in Queued(R), u # t, LaneOf[u] = LaneOf[t],
         Position(R, t) <= Position(R, u)
  PROVE  Before(R, t, u)
  <1>1. /\ Position(R, t) = PlaceOf(R.pending[LaneOf[t]], t) /\ R.pending[LaneOf[t]][Position(R, t)] = t
        /\ Position(R, u) = PlaceOf(R.pending[LaneOf[t]], u) /\ R.pending[LaneOf[t]][Position(R, u)] = u
        /\ Position(R, t) \in Nat /\ Position(R, u) \in Nat
    BY LaneFacts
  <1>2. Position(R, t) # Position(R, u)
    BY <1>1
  <1>3. QED  BY <1>1, <1>2 DEF Before

\* The oldest of some entries is one of them, and no other one is ahead of it.
LEMMA OldestFacts ==
  ASSUME NEW R, Agree(R), NEW S \in SUBSET Queued(R), S # {}
  PROVE  /\ Oldest(R, S) \in S
         /\ \A u \in S \ {Oldest(R, S)} : LaneOf[u] = LaneOf[Oldest(R, S)] => Before(R, Oldest(R, S), u)
  <1> DEFINE T == {Position(R, u) : u \in S}
             t == Oldest(R, S)
  <1>1. \A u \in S : Position(R, u) \in Nat
    BY LaneFacts
  <1>2. PICK n \in T : \A m \in T : n <= m
    <2>1. T \subseteq Nat /\ T # {}
      BY <1>1
    <2> HIDE DEF T
    <2>2. QED  BY <2>1, LeastOf
  <1>3. t \in S /\ \A u \in S : Position(R, t) <= Position(R, u)
    <2>1. \E v \in S : \A u \in S : Position(R, v) <= Position(R, u)
      BY <1>2
    <2>2. QED  BY <2>1 DEF Oldest
  <1> HIDE DEF t
  <1>4. \A u \in S \ {t} : LaneOf[u] = LaneOf[t] => Before(R, t, u)
    BY <1>3, PlacesDiffer
  <1>5. QED  BY <1>3, <1>4 DEF t

\* Of some turns, one is as warm as any.
LEMMA WarmestFacts ==
  ASSUME NEW R, NEW S
  PROVE  Warmest(R, S) \subseteq S /\ (S # {} => Warmest(R, S) # {})
  <1>1. \A t : Affinity(R, t) \in {0, 1, 2}
    BY DEF Affinity
  <1>2. ASSUME S # {} PROVE \E t \in S : \A u \in S : Affinity(R, u) <= Affinity(R, t)
    <2>1. CASE \E t \in S : Affinity(R, t) = 2
      BY <1>1, <2>1
    <2>2. CASE ~\E t \in S : Affinity(R, t) = 2
      <3>1. \A t \in S : Affinity(R, t) \in {0, 1}
        BY <1>1, <2>2
      <3>2. CASE \E t \in S : Affinity(R, t) = 1
        BY <3>1, <3>2
      <3>3. CASE ~\E t \in S : Affinity(R, t) = 1
        <4>1. \A t \in S : Affinity(R, t) = 0
          BY <3>1, <3>3
        <4>2. QED  BY <1>2, <4>1
      <3>4. QED  BY <3>2, <3>3
    <2>3. QED  BY <2>1, <2>2
  <1>3. QED  BY <1>2 DEF Warmest

\* What the dispatcher may choose from: turns the caps and the ambient gate
\* let through; nobody only if they let nobody through; and every turn of the
\* lane that has waited long enough.
LEMMA CandidatesFacts ==
  ASSUME NEW R, Agree(R), NEW W
  PROVE  /\ Candidates(R, W) \in SUBSET Queued(R)
         /\ \A t \in Candidates(R, W) : t \in Eligible(R, LaneOf[t])
         /\ Candidates(R, W) = {} => \A l \in Lane : Eligible(R, l) = {}
         /\ \A t \in Candidates(R, W) : \A u \in Eligible(R, LaneOf[t]) :
              W[u] >= MaxWait => u \in Candidates(R, W)
  <1> DEFINE I == Eligible(R, "interactive")
             B == Eligible(R, "background")
             SI == Starved(R, W, "interactive")
             SB == Starved(R, W, "background")
             C == Candidates(R, W)
  <1>1. /\ I \subseteq Queued(R) /\ \A t \in I : LaneOf[t] = "interactive"
        /\ B \subseteq Queued(R) /\ \A t \in B : LaneOf[t] = "background"
    BY DEF Agree, Eligible, Queued, Lane
  <1>2. /\ SI = {t \in I : W[t] >= MaxWait} /\ SB = {t \in B : W[t] >= MaxWait}
    BY DEF Starved
  <1>3. C = IF SI # {} THEN SI ELSE IF SB # {} THEN SB
            ELSE IF I # {} THEN Warmest(R, I) ELSE Warmest(R, B)
    BY DEF Candidates
  <1>4. /\ Warmest(R, I) \subseteq I /\ (I # {} => Warmest(R, I) # {})
        /\ Warmest(R, B) \subseteq B /\ (B # {} => Warmest(R, B) # {})
    BY WarmestFacts
  <1> HIDE DEF I, B, SI, SB, C
  <1>5. C \subseteq I \/ C \subseteq B
    BY <1>2, <1>3, <1>4
  <1>6. C \in SUBSET Queued(R) /\ \A t \in C : t \in Eligible(R, LaneOf[t])
    BY <1>1, <1>5 DEF I, B
  <1>7. C = {} => I = {} /\ B = {}
    BY <1>2, <1>3, <1>4
  <1>8. ASSUME NEW t \in C, NEW u \in Eligible(R, LaneOf[t]), W[u] >= MaxWait PROVE u \in C
    <2>1. CASE t \in I
      <3>1. u \in SI
        BY <1>1, <1>2, <1>8, <2>1 DEF I
      <3>2. QED  BY <1>3, <3>1
    <2>2. CASE t \in B
      <3>1. u \in SB
        BY <1>1, <1>2, <1>8, <2>2 DEF B
      <3>2. SI = {}
        BY <1>1, <1>2, <1>3, <1>8, <2>2
      <3>3. QED  BY <1>3, <3>1, <3>2
    <2>3. QED  BY <1>5, <1>8, <2>1, <2>2
  <1>9. QED  BY <1>6, <1>7, <1>8 DEF I, B, C, Lane

\* The person who may overflow waits in the interactive lane, and nobody has
\* overflowed yet.
LEMMA OverflowFacts ==
  ASSUME NEW R, Agree(R)
  PROVE  /\ OverflowCandidates(R) \in SUBSET Queued(R)
         /\ \A t \in OverflowCandidates(R) : LaneOf[t] = "interactive" /\ t \notin Ambient
         /\ OverflowCandidates(R) # {} => \A u \in Turn : R.slot[u] # "overflow"
  <1>1. OverflowCandidates(R) \subseteq Range(R.pending["interactive"])
    BY DEF OverflowCandidates
  <1>2. \A t \in OverflowCandidates(R) : LaneOf[t] = "interactive"
    BY <1>1 DEF Agree, Lane
  <1>3. OverflowCandidates(R) # {} => \A u \in Running(R) : R.slot[u] # "overflow"
    BY DEF OverflowCandidates
  <1>4. \A u \in Turn \ Running(R) : R.slot[u] # "overflow"
    BY DEF Running
  <1>5. QED  BY <1>1, <1>2, <1>3, <1>4, QueueAssumption DEF Queued

\* What one turn of the loop does, with W the ages of those who wait.
Progress(R, D, W) ==
  \/ \E t \in Queued(R) :
       /\ Given(R, D, t, "own")
       /\ ~R.paused /\ R.running < R.cap["total"] /\ ~AtCap(R, LaneOf[t])
       /\ t \in Ambient => AmbientGateOpen(R)
       /\ \A u \in Queued(R) \ ({t} \cup Ambient) :
            LaneOf[u] = LaneOf[t] /\ W[u] >= MaxWait => Before(R, t, u)
  \/ \E t \in Queued(R) :
       /\ Given(R, D, t, "overflow")
       /\ ~R.paused /\ LaneOf[t] = "interactive" /\ t \notin Ambient

\* Nobody who could run waits.
Resting(R) ==
  ~R.paused =>
    /\ \A t \in Queued(R) \ Ambient : R.running >= R.cap["total"] \/ AtCap(R, LaneOf[t])
    /\ OverflowCandidates(R) = {}

\* A turn of the loop either gives somebody a slot or has nobody to give one.
LEMMA DrainOnceFacts ==
  ASSUME NEW R, Agree(R), NEW W
  PROVE  Progress(R, DrainOnce(R, W), W) \/ (DrainOnce(R, W) = R /\ Resting(R))
  <1> DEFINE C == IF R.running < R.cap["total"] THEN Candidates(R, W) ELSE {}
             O == OverflowCandidates(R)
  <1>1. /\ C \in SUBSET Queued(R) /\ \A t \in C : t \in Eligible(R, LaneOf[t]) /\ R.running < R.cap["total"]
        /\ \A t \in C : \A u \in Eligible(R, LaneOf[t]) : W[u] >= MaxWait => u \in C
        /\ C = {} => ~(R.running < R.cap["total"]) \/ \A l \in Lane : Eligible(R, l) = {}
    BY CandidatesFacts
  <1>2. /\ O \in SUBSET Queued(R) /\ \A t \in O : LaneOf[t] = "interactive" /\ t \notin Ambient
        /\ O # {} => \A u \in Turn : R.slot[u] # "overflow"
    BY OverflowFacts
  <1>3. DrainOnce(R, W) =
          CASE R.paused -> R
            [] ~R.paused /\ C # {} -> Dispatch(R, Oldest(R, C), "own")
            [] ~R.paused /\ C = {} /\ O # {} -> Dispatch(R, Oldest(R, O), "overflow")
            [] OTHER -> R
    BY DEF DrainOnce
  <1> HIDE DEF C, O
  <1>4. CASE R.paused
    BY <1>3, <1>4 DEF Resting
  <1>5. CASE ~R.paused /\ C # {}
    <2> DEFINE t == Oldest(R, C)
               D == Dispatch(R, t, "own")
    <2>1. t \in C /\ \A u \in C \ {t} : LaneOf[u] = LaneOf[t] => Before(R, t, u)
      BY <1>1, <1>5, OldestFacts
    <2> HIDE DEF t
    <2>2. Given(R, D, t, "own")
      BY <1>1, <2>1, DispatchFacts
    <2>3. DrainOnce(R, W) = D
      BY <1>3, <1>5 DEF t
    <2>4. t \in Queued(R) /\ t \in Eligible(R, LaneOf[t]) /\ R.running < R.cap["total"]
      BY <1>1, <2>1
    <2>5. ~AtCap(R, LaneOf[t]) /\ (t \in Ambient => AmbientGateOpen(R))
      BY <2>4 DEF Eligible
    <2>6. ASSUME NEW u \in Queued(R) \ ({t} \cup Ambient), LaneOf[u] = LaneOf[t], W[u] >= MaxWait
          PROVE  Before(R, t, u)
      <3>1. u \in Eligible(R, LaneOf[t])
        BY <2>5, <2>6, LaneFacts DEF Eligible
      <3>2. u \in C
        BY <1>1, <2>1, <2>6, <3>1
      <3>3. QED  BY <2>1, <2>6, <3>2
    <2> HIDE DEF D
    <2>7. Progress(R, D, W)
      BY <1>5, <2>2, <2>4, <2>5, <2>6 DEF Progress
    <2>8. QED  BY <2>3, <2>7
  <1>6. CASE ~R.paused /\ C = {} /\ O # {}
    <2> DEFINE t == Oldest(R, O)
               D == Dispatch(R, t, "overflow")
    <2>1. t \in O
      BY <1>2, <1>6, OldestFacts
    <2> HIDE DEF t
    <2>2. Given(R, D, t, "overflow")
      BY <1>2, <2>1, DispatchFacts
    <2>3. DrainOnce(R, W) = D
      BY <1>3, <1>6 DEF t
    <2> HIDE DEF D
    <2>4. Progress(R, D, W)
      BY <1>2, <1>6, <2>1, <2>2 DEF Progress
    <2>5. QED  BY <2>3, <2>4
  <1>7. CASE ~R.paused /\ C = {} /\ O = {}
    <2>1. DrainOnce(R, W) = R
      BY <1>3, <1>7
    <2>2. ASSUME NEW t \in Queued(R) \ Ambient PROVE R.running >= R.cap["total"] \/ AtCap(R, LaneOf[t])
      <3>1. LaneOf[t] \in Lane /\ t \in Range(R.pending[LaneOf[t]])
        BY LaneFacts
      <3>2. CASE ~(R.running < R.cap["total"])
        BY <3>2, QueueFields DEF Agree
      <3>3. CASE \A l \in Lane : Eligible(R, l) = {}
        BY <3>1, <3>3 DEF Eligible
      <3>4. QED  BY <1>1, <1>7, <3>2, <3>3
    <2>3. QED  BY <1>7, <2>1, <2>2 DEF Resting, O
  <1>8. QED  BY <1>4, <1>5, <1>6, <1>7


-----------------------------------------------------------------------------
(* The loop.                                                               *)

\* f lists what the loop has made of Q after 0, ..., n turns.
Turns(Q, W, n, f) ==
  f = [i \in 0 .. n |-> IF i = 0 THEN {Q} ELSE {DrainOnce(R, W) : R \in f[i - 1]}]

\* The recursive function in the definition of Drained exists.
LEMMA TurnsExist ==
  ASSUME NEW Q, NEW W, NEW n \in Nat
  PROVE  \E f : Turns(Q, W, n, f)
  <1> DEFINE G == {k \in Nat : \E f : Turns(Q, W, k, f)}
  <1>1. 0 \in G
    <2> DEFINE f == [i \in 0 .. 0 |-> {Q}]
    <2>1. Turns(Q, W, 0, f)
      BY DEF Turns
    <2>2. QED  BY <2>1
  <1>2. ASSUME NEW k \in Nat, k \in G PROVE k + 1 \in G
    <2>1. PICK f : Turns(Q, W, k, f)
      BY <1>2
    <2> DEFINE Then(S) == {DrainOnce(R, W) : R \in S}
               g == [i \in 0 .. k + 1 |-> IF i = 0 THEN {Q} ELSE Then(f[i - 1])]
    <2>2. \A i \in 0 .. k : f[i] = IF i = 0 THEN {Q} ELSE Then(f[i - 1])
      BY <2>1 DEF Turns
    <2> HIDE DEF Then
    <2>3. ASSUME NEW i \in 0 .. k PROVE g[i] = f[i]
      <3>1. i \in 0 .. k + 1 /\ f[i] = IF i = 0 THEN {Q} ELSE Then(f[i - 1])
        BY <2>2
      <3>2. QED  BY <3>1
    <2>4. \A i \in 0 .. k + 1 : i # 0 => i - 1 \in 0 .. k
      OBVIOUS
    <2>5. g = [i \in 0 .. k + 1 |-> IF i = 0 THEN {Q} ELSE Then(g[i - 1])]
      <3> DEFINE h == [i \in 0 .. k + 1 |-> IF i = 0 THEN {Q} ELSE Then(g[i - 1])]
      <3>1. \A i \in 0 .. k + 1 : g[i] = h[i]
        BY <2>3, <2>4
      <3>2. QED  BY <3>1
    <2> HIDE DEF g
    <2>6. Turns(Q, W, k + 1, g)
      BY <2>5 DEF Turns, Then
    <2>7. QED  BY <2>6
  <1> HIDE DEF G
  <1>3. n \in G
    BY <1>1, <1>2, NatSet
  <1>4. QED  BY <1>3 DEF G

\* What a drain leaves is what the loop has made of the queue in the end.
LEMMA DrainedTurns ==
  ASSUME NEW Q, NEW W, Waiting(Q) \in Nat
  PROVE  \E f : Turns(Q, W, Waiting(Q), f) /\ Drained(Q, W) = {Rechecked(R) : R \in f[Waiting(Q)]}
  <1> DEFINE f == CHOOSE g : Turns(Q, W, Waiting(Q), g)
  <1>1. Drained(Q, W) = {Rechecked(R) : R \in f[Waiting(Q)]}
    BY DEF Drained, Turns
  <1>2. Turns(Q, W, Waiting(Q), f)
    BY TurnsExist
  <1> HIDE DEF f
  <1>3. QED  BY <1>1, <1>2

\* Waiting counts those who wait.
LEMMA WaitingFacts ==
  ASSUME NEW R, Agree(R)
  PROVE  Waiting(R) \in Nat /\ (Waiting(R) = 0 => Queued(R) = {})
  <1>1. R.pending["interactive"] \in Seq(Turn) /\ R.pending["background"] \in Seq(Turn)
    BY QueueFields DEF Agree, Lane
  <1> DEFINE x == R.pending["interactive"]
             y == R.pending["background"]
  <1>2. Waiting(R) = Len(x) + Len(y) /\ Queued(R) = Range(x) \cup Range(y)
    BY DEF Waiting, Queued
  <1> HIDE DEF x, y
  <1>3. /\ Len(x) \in Nat /\ DOMAIN x = 1 .. Len(x)
        /\ Len(y) \in Nat /\ DOMAIN y = 1 .. Len(y)
    BY <1>1 DEF x, y
  <1>4. Waiting(R) \in Nat /\ (Waiting(R) = 0 => Len(x) = 0 /\ Len(y) = 0)
    BY <1>2, <1>3
  <1>5. QED  BY <1>2, <1>3, <1>4 DEF Range

\* Whatever each turn of the loop preserves holds when it ends, and it ends
\* with nobody left who could run.
LEMMA LoopFacts ==
  ASSUME NEW Q, NEW W, NEW G, Q \in G,
         \A R \in G : Agree(R) /\ (Progress(R, DrainOnce(R, W), W) => DrainOnce(R, W) \in G),
         NEW E \in Drained(Q, W)
  PROVE  \E R \in G : Resting(R) /\ E = Rechecked(R)
  <1> DEFINE N == Waiting(Q)
             Done(R) == DrainOnce(R, W) = R /\ Resting(R)
             K(f) == {i \in Nat : i \in 0 .. N => \A R \in f[i] : R \in G /\ (Done(R) \/ Waiting(R) + i <= N)}
  <1>1. N \in Nat
    BY WaitingFacts
  <1>2. PICK f : Turns(Q, W, N, f) /\ Drained(Q, W) = {Rechecked(R) : R \in f[N]}
    BY <1>1, DrainedTurns
  <1>3. \A i \in 0 .. N : f[i] = IF i = 0 THEN {Q} ELSE {DrainOnce(R, W) : R \in f[i - 1]}
    BY <1>2 DEF Turns
  <1>4. 0 \in K(f)
    <2>1. 0 \in 0 .. N
      BY <1>1
    <2>2. f[0] = {Q}
      BY <1>3, <2>1
    <2>3. N + 0 <= N
      <3> HIDE DEF N
      <3>1. QED  BY <1>1
    <2>4. QED  BY <2>2, <2>3
  <1>5. ASSUME NEW i \in Nat, i \in K(f) PROVE i + 1 \in K(f)
    <2>1. CASE i + 1 \in 0 .. N
      <3>1. i \in 0 .. N /\ i + 1 # 0 /\ (i + 1) - 1 = i
        BY <1>1, <2>1
      <3>2. f[i + 1] = {DrainOnce(R, W) : R \in f[i]}
        BY <1>3, <2>1, <3>1
      <3>3. ASSUME NEW R \in f[i]
            PROVE  LET D == DrainOnce(R, W) IN D \in G /\ (Done(D) \/ Waiting(D) + (i + 1) <= N)
        <4> DEFINE D == DrainOnce(R, W)
        <4>1. R \in G /\ Agree(R) /\ (Done(R) \/ Waiting(R) + i <= N)
          BY <1>5, <3>1
        <4>2. CASE Done(R)
          BY <4>1, <4>2
        <4>3. CASE ~Done(R)
          <5>1. Progress(R, D, W) /\ D \in G
            BY <4>1, <4>3, DrainOnceFacts
          <5>2. Waiting(D) = Waiting(R) - 1 /\ Waiting(R) \in Nat
            BY <5>1 DEF Progress, Given
          <5> HIDE DEF D, N
          <5>3. Waiting(D) + (i + 1) <= N
            BY <1>1, <4>1, <4>3, <5>2
          <5>4. QED  BY <5>1, <5>3 DEF D
        <4>4. QED  BY <4>2, <4>3
      <3> HIDE DEF Done, N
      <3>4. QED  BY <3>2, <3>3
    <2>2. CASE i + 1 \notin 0 .. N  BY <2>2
    <2>3. QED  BY <2>1, <2>2
  <1> DEFINE H == K(f)
  <1> HIDE DEF H
  <1>6. N \in H
    <2>1. 0 \in H /\ \A i \in Nat : i \in H => i + 1 \in H
      BY <1>4, <1>5 DEF H
    <2>2. QED  BY <1>1, <2>1, NatSet
  <1>7. PICK R \in f[N] : E = Rechecked(R)
    BY <1>2
  <1>8. R \in G /\ (Done(R) \/ Waiting(R) + N <= N)
    BY <1>1, <1>6, <1>7 DEF H
  <1>9. Agree(R)
    BY <1>8
  <1>10. Resting(R)
    <2>1. CASE Done(R)  BY <2>1
    <2>2. CASE Waiting(R) + N <= N
      <3>1. Waiting(R) = 0
        BY <1>1, <1>9, <2>2, WaitingFacts
      <3>2. Queued(R) = {}
        BY <1>9, <3>1, WaitingFacts
      <3>3. ~Progress(R, DrainOnce(R, W), W)
        BY <3>2 DEF Progress
      <3>4. QED  BY <1>9, <3>3, DrainOnceFacts
    <2>3. QED  BY <1>8, <2>1, <2>2
  <1>11. QED  BY <1>7, <1>8, <1>10

\* E is R with another timer.
Retimed(R, E) ==
  /\ Agree(E) /\ E.cap = R.cap /\ E.paused = R.paused /\ E.pending = R.pending /\ E.slot = R.slot
  /\ E.running = R.running /\ E.inLane = R.inLane /\ E.quiet = R.quiet
  /\ Queued(E) = Queued(R) /\ Running(E) = Running(R)
  /\ Resting(R) => Resting(E)

\* Nothing but the timer and the warmth of past turns may change between two
\* queues that rest alike.
LEMMA SameQueue ==
  ASSUME NEW R, Agree(R), NEW E \in Queue, E.cap = R.cap, E.paused = R.paused, E.pending = R.pending,
         E.slot = R.slot, E.running = R.running, E.inLane = R.inLane
  PROVE  /\ Agree(E) /\ Queued(E) = Queued(R) /\ Running(E) = Running(R)
         /\ Resting(R) => Resting(E)
         /\ \A a, b : Before(E, a, b) <=> Before(R, a, b)
  <1>1. Queued(E) = Queued(R) /\ Running(E) = Running(R)
    BY DEF Queued, Running
  <1>2. Agree(E)
    BY <1>1 DEF Agree
  <1>3. OverflowCandidates(E) = OverflowCandidates(R)
    BY <1>1 DEF OverflowCandidates
  <1>4. Resting(R) => Resting(E)
    BY <1>1, <1>3 DEF Resting, AtCap
  <1>5. QED  BY <1>1, <1>2, <1>4 DEF Before

\* A queue with another timer.
LEMMA TimerFacts ==
  ASSUME NEW R, Agree(R), NEW n \in 0 .. QuietWindow + 1
  PROVE  Retimed(R, [R EXCEPT !.timer = n])
  <1> DEFINE E == [R EXCEPT !.timer = n]
  <1>1. R \in Queue
    BY DEF Agree
  <1>2. E \in Queue /\ E.cap = R.cap /\ E.paused = R.paused /\ E.pending = R.pending /\ E.slot = R.slot
        /\ E.running = R.running /\ E.inLane = R.inLane /\ E.quiet = R.quiet
    BY <1>1 DEF Queue
  <1> HIDE DEF E
  <1>3. Retimed(R, E)
    BY <1>2, SameQueue DEF Retimed
  <1>4. QED  BY <1>3 DEF E

\* Arming or clearing the recheck timer touches nothing else.
LEMMA RecheckedFacts ==
  ASSUME NEW R, Agree(R)
  PROVE  Retimed(R, Rechecked(R))
  <1>1. R \in Queue
    BY DEF Agree
  <1>2. CASE Rechecked(R) = R
    BY <1>1, <1>2, SameQueue DEF Retimed
  <1>3. CASE Rechecked(R) # R
    <2> DEFINE n == QuietWindow - R.quiet + 1
    <2>1. Rechecked(R) = [R EXCEPT !.timer = n] /\ QuietWindow > 0 /\ R.quiet < QuietWindow
      BY <1>3 DEF Rechecked
    <2>2. n \in 0 .. QuietWindow + 1
      BY <1>1, <2>1, QueueFields, QueueAssumption
    <2> HIDE DEF n
    <2>3. QED  BY <2>1, <2>2, TimerFacts
  <1>4. QED  BY <1>2, <1>3


-----------------------------------------------------------------------------
(* The invariant.                                                          *)

IInv == TypeOK /\ Agree(q) /\ NoIdleSlot

\* NoIdleSlot says that the queue rests.
LEMMA Rests == NoIdleSlot <=> Resting(q)
  BY DEF NoIdleSlot, Resting

\* An empty queue satisfies the invariant.
LEMMA InitHolds ==
  ASSUME Init
  PROVE  IInv
  <1> DEFINE c == [l \in Lane \cup {"total"} |->
                    CASE l = "total" -> Concurrency
                      [] l = "interactive" -> InteractiveCap
                      [] l = "background" -> BackgroundCap]
             p == [l \in Lane |-> <<>>]
             s == [t \in Turn |-> "none"]
             i == [l \in Lane |-> 0]
             r == [t \in Turn |-> 0]
  <1>1. q = [cap |-> c, paused |-> FALSE, pending |-> p, slot |-> s, running |-> 0, inLane |-> i,
             recent |-> r, quiet |-> 0, timer |-> 0]
        /\ waited = [t \in Turn |-> 0] /\ held = [t \in Turn |-> 0]
    BY DEF Init
  <1>2. AffinityWindow \in Nat /\ QuietWindow \in Nat /\ Patience \in Nat /\ YieldQuantum \in Nat
    BY QueueAssumption DEF Patience
  <1>3. c \in [Lane \cup {"total"} -> Nat] /\ \A l \in Lane : c[l] <= c["total"]
    BY QueueAssumption DEF Lane
  <1>4. p \in [Lane -> Seq(Turn)] /\ \A l \in Lane : p[l] = <<>>
    OBVIOUS
  <1>5. s \in [Turn -> {"none", "own", "overflow"}] /\ \A t \in Turn : s[t] = "none"
    OBVIOUS
  <1>6. i \in [Lane -> Nat] /\ \A l \in Lane : i[l] = 0
    OBVIOUS
  <1>7. r \in [Turn -> 0 .. AffinityWindow + 1] /\ 0 \in 0 .. QuietWindow /\ 0 \in 0 .. QuietWindow + 1
    BY <1>2
  <1>8. waited \in [Turn -> 0 .. Patience] /\ held \in [Turn -> 0 .. YieldQuantum]
    BY <1>1, <1>2
  <1> HIDE DEF c, p, s, i, r
  <1>9. q \in Queue
    BY <1>1, <1>3, <1>4, <1>5, <1>6, <1>7, QueueOf
  <1>10. q.cap = c /\ q.pending = p /\ q.slot = s /\ q.running = 0 /\ q.inLane = i
    BY <1>1
  <1>11. Running(q) = {} /\ \A l \in Lane : OfLane(Running(q), l) = {}
    BY <1>5, <1>10 DEF Running, OfLane
  <1>12. IsInjective(<<>>) /\ Range(<<>>) = {}
    BY DEF IsInjective, Range
  <1>13. Queued(q) = {}
    BY <1>4, <1>10, <1>12 DEF Queued, Lane
  <1>14. Cardinality({}) = 0
    BY FS_EmptySet
  <1>15. Agree(q)
    BY <1>3, <1>4, <1>5, <1>6, <1>9, <1>10, <1>11, <1>12, <1>13, <1>14 DEF Agree
  <1>16. Resting(q)
    BY <1>11, <1>13 DEF Resting, OverflowCandidates
  <1>17. QED  BY <1>8, <1>9, <1>15, <1>16, Rests DEF IInv, TypeOK

\* The ages and the clocks of those who hold slots.
Clocks(W, H) == W \in [Turn -> 0 .. Patience] /\ H \in [Turn -> 0 .. YieldQuantum]

\* A drain leaves a queue that rests.
LEMMA SettleFacts ==
  ASSUME NEW Q, Agree(Q), NEW W, Clocks(W, held), Settle(Q, W)
  PROVE  IInv'
  <1>1. q' \in Drained(Q, W)
        /\ waited' = [t \in Turn |-> IF t \in Queued(q') THEN W[t] ELSE 0]
        /\ held' = [t \in Turn |-> IF t \in Running(q') \cap Running(Q) THEN held[t] ELSE 0]
    BY DEF Settle
  <1> DEFINE G == {R \in Queue : Agree(R)}
  <1>2. Q \in G
    BY DEF Agree
  <1>3. \A R \in G : Agree(R) /\ (Progress(R, DrainOnce(R, W), W) => DrainOnce(R, W) \in G)
    BY DEF Progress, Given, Agree
  <1> HIDE DEF G
  <1>4. PICK R \in G : Resting(R) /\ q' = Rechecked(R)
    BY <1>1, <1>2, <1>3, LoopFacts
  <1>5. Agree(q') /\ Resting(q')
    BY <1>3, <1>4, RecheckedFacts DEF Retimed
  <1>6. Patience \in Nat /\ YieldQuantum \in Nat
    BY QueueAssumption DEF Patience
  <1>7. Clocks(waited', held')
    BY <1>1, <1>6 DEF Clocks
  <1>8. (q \in Queue)'
    BY <1>5 DEF Agree
  <1>9. NoIdleSlot'
    BY <1>5 DEF NoIdleSlot, Resting
  <1>10. QED  BY <1>5, <1>7, <1>8, <1>9 DEF IInv, TypeOK, Clocks

\* A turn that asks joins its lane, and the drain that follows settles.
LEMMA AcquireStep ==
  ASSUME IInv, NEW t \in Turn, Acquire(t)
  PROVE  IInv'
  <1> DEFINE W == [waited EXCEPT ![t] = 0]
  <1>1. t \notin Queued(q) /\ t \notin Running(q) /\ Settle(Enqueued(q, t), W)
    BY DEF Acquire, Idle
  <1>2. Agree(Enqueued(q, t))
    BY <1>1, EnqueuedFacts DEF IInv, Asked
  <1>3. Clocks(W, held)
    BY QueueAssumption DEF IInv, TypeOK, Clocks, Patience
  <1> HIDE DEF W
  <1>4. QED  BY <1>1, <1>2, <1>3, SettleFacts

\* A slot that comes back is given on by the drain that follows.
LEMMA ReleaseStep ==
  ASSUME IInv, NEW t \in Turn, Release(t)
  PROVE  IInv'
  <1>1. t \in Running(q) /\ Settle(Freed(q, t), waited)
    BY DEF Release
  <1>2. Agree(Freed(q, t))
    BY <1>1, FreedFacts DEF IInv, GaveUp
  <1>3. QED  BY <1>1, <1>2, SettleFacts DEF IInv, TypeOK, Clocks

\* What the first drain of a yield leaves, the yielding turn may queue for.
LEMMA YieldFacts ==
  ASSUME NEW t \in Running(q), Agree(q), NEW W, NEW R \in Drained(Freed(q, t), W)
  PROVE  /\ Agree(R) /\ t \in Turn /\ t \notin Queued(R) /\ t \notin Running(R)
         /\ Agree(Enqueued(R, t))
  <1> DEFINE G == {S \in Queue : Agree(S) /\ t \notin Queued(S) /\ t \notin Running(S)}
             F == Freed(q, t)
  <1>1. t \in Turn /\ t \notin Queued(q)
    BY DEF Agree, Running
  <1>2. Agree(F) /\ Queued(F) = Queued(q) /\ Running(F) = Running(q) \ {t}
    BY FreedFacts DEF GaveUp
  <1>3. F \in G
    BY <1>1, <1>2 DEF Agree
  <1>4. \A S \in G : Agree(S) /\ (Progress(S, DrainOnce(S, W), W) => DrainOnce(S, W) \in G)
    BY DEF Progress, Given, Agree
  <1> HIDE DEF G, F
  <1>5. PICK S \in G : R = Rechecked(S)
    BY <1>3, <1>4, LoopFacts DEF F
  <1>6. Agree(R) /\ t \notin Queued(R) /\ t \notin Running(R)
    BY <1>5, RecheckedFacts DEF Retimed, G
  <1>7. QED  BY <1>1, <1>6, EnqueuedFacts DEF Asked

\* A turn that yields is counted out, its successors in, and then itself again.
LEMMA YieldStep ==
  ASSUME IInv, NEW t \in Turn, Yield(t)
  PROVE  IInv'
  <1>1. PICK R \in Drained(Freed(q, t), waited) : Settle(Enqueued(R, t), waited)
    BY DEF Yield
  <1>2. Agree(Enqueued(R, t))
    BY YieldFacts DEF IInv, Yield
  <1>3. QED  BY <1>1, <1>2, SettleFacts DEF IInv, TypeOK, Clocks

\* The timer of ambient work ends in a drain.
LEMMA RecheckStep ==
  ASSUME IInv, RecheckFires
  PROVE  IInv'
  <1>1. Agree([q EXCEPT !.timer = 0])
    BY TimerFacts, QueueAssumption DEF IInv, Retimed
  <1>2. QED  BY <1>1, SettleFacts DEF IInv, TypeOK, Clocks, RecheckFires

\* A queue that is resumed drains what has piled up.
LEMMA ResumeStep ==
  ASSUME IInv, Resume
  PROVE  IInv'
  <1> DEFINE E == [q EXCEPT !.paused = FALSE]
  <1>1. q \in Queue /\ Agree(q)
    BY DEF IInv, Agree
  <1>2. E \in Queue /\ E.cap = q.cap /\ E.pending = q.pending /\ E.slot = q.slot
        /\ E.running = q.running /\ E.inLane = q.inLane
    BY <1>1 DEF Queue
  <1> HIDE DEF E
  <1>3. Agree(E)
    <2>1. Queued(E) = Queued(q) /\ Running(E) = Running(q)
      BY <1>2 DEF Queued, Running
    <2>2. QED  BY <1>1, <1>2, <2>1 DEF Agree
  <1>4. Settle(E, waited)
    BY DEF Resume, E
  <1>5. QED  BY <1>3, <1>4, SettleFacts DEF IInv, TypeOK, Clocks

\* Pausing changes no count; nobody has to be served meanwhile.
LEMMA PauseStep ==
  ASSUME IInv, Pause
  PROVE  IInv'
  <1>1. q \in Queue /\ Agree(q)
    BY DEF IInv, Agree
  <1>2. q' \in Queue /\ q'.cap = q.cap /\ q'.pending = q.pending /\ q'.slot = q.slot
        /\ q'.running = q.running /\ q'.inLane = q.inLane /\ q'.paused = TRUE
    BY <1>1 DEF Queue, Pause
  <1>3. Agree(q')
    <2>1. Queued(q') = Queued(q) /\ Running(q') = Running(q)
      BY <1>2 DEF Queued, Running
    <2>2. QED  BY <1>1, <1>2, <2>1 DEF Agree
  <1>4. NoIdleSlot' /\ TypeOK'
    BY <1>2 DEF NoIdleSlot, TypeOK, IInv, Pause
  <1>5. QED  BY <1>3, <1>4 DEF IInv


\* A queue in which the waiting entries are others or stand elsewhere.
LEMMA PendingFacts ==
  ASSUME NEW R, Agree(R), NEW p \in [Lane -> Seq(Turn)],
         \A l \in Lane : IsInjective(p[l]) /\ Range(p[l]) \subseteq Range(R.pending[l])
  PROVE  LET E == [R EXCEPT !.pending = p] IN
         Agree(E) /\ Queued(E) \subseteq Queued(R) /\ (Resting(R) => Resting(E)) /\ E.pending = p
  <1> DEFINE E == [R EXCEPT !.pending = p]
  <1>1. R \in Queue
    BY DEF Agree
  <1>2. E \in Queue /\ E.cap = R.cap /\ E.paused = R.paused /\ E.pending = p /\ E.slot = R.slot
        /\ E.running = R.running /\ E.inLane = R.inLane
    BY <1>1 DEF Queue
  <1> HIDE DEF E
  <1>3. Running(E) = Running(R)
    BY <1>2 DEF Running
  <1>4. Range(p["interactive"]) \subseteq Range(R.pending["interactive"])
        /\ Range(p["background"]) \subseteq Range(R.pending["background"])
    BY DEF Lane
  <1>5. Queued(E) \subseteq Queued(R)
    BY <1>2, <1>4 DEF Queued
  <1>6. Running(R) \cap Queued(R) = {}
    BY DEF Agree
  <1>7. Agree(E)
    BY <1>2, <1>3, <1>5, <1>6 DEF Agree
  <1>8. OverflowCandidates(E) \subseteq OverflowCandidates(R)
    BY <1>2, <1>3, <1>4 DEF OverflowCandidates
  <1>9. Resting(R) => Resting(E)
    BY <1>2, <1>5, <1>8 DEF Resting, AtCap
  <1>10. QED  BY <1>2, <1>5, <1>7, <1>9 DEF E

\* Taking a waiting turn away frees no slot and makes nobody runnable.
LEMMA CancelStep ==
  ASSUME IInv, NEW t \in Turn, Cancel(t)
  PROVE  IInv'
  <1> DEFINE p == Shorter(q, t)
  <1>1. q \in Queue /\ Agree(q) /\ t \in Queued(q)
    BY DEF IInv, Agree, Cancel
  <1>2. q' = [q EXCEPT !.pending = p]
    <2> DEFINE k == LaneOf[t]
               i == Position(q, t)
    <2>1. q' = [q EXCEPT !.pending[k] = RemoveAt(@, i)] /\ p = [q.pending EXCEPT ![k] = RemoveAt(@, i)]
      BY DEF Cancel, Shorter
    <2> HIDE DEF k, i, p
    <2>2. QED  BY <1>1, <2>1 DEF Queue
  <1>3. p \in [Lane -> Seq(Turn)] /\ \A l \in Lane : IsInjective(p[l]) /\ Range(p[l]) \subseteq Range(q.pending[l])
    <2>1. p \in [Lane -> Seq(Turn)] /\ \A l \in Lane : IsInjective(p[l]) /\ Range(p[l]) = Range(q.pending[l]) \ {t}
      BY <1>1, ShorterFacts
    <2> HIDE DEF p
    <2>2. QED  BY <2>1
  <1> HIDE DEF p
  <1>4. Agree(q') /\ (Resting(q) => Resting(q'))
    BY <1>1, <1>2, <1>3, PendingFacts
  <1>5. NoIdleSlot'
    BY <1>4 DEF IInv, NoIdleSlot, Resting
  <1>6. TypeOK'
    BY <1>4, QueueAssumption DEF IInv, TypeOK, Agree, Cancel, Patience
  <1>7. QED  BY <1>4, <1>5, <1>6 DEF IInv

\* Two turns of a lane that change places leave the lane's members alone.
LEMMA MoveStep ==
  ASSUME IInv, NEW t \in Queued(q), NEW to, Move(t, to)
  PROVE  IInv'
  <1> DEFINE k == LaneOf[t]
             s == q.pending[k]
             i == Position(q, t)
             r == [s EXCEPT ![i] = s[to], ![to] = s[i]]
             p == [q.pending EXCEPT ![k] = r]
  <1>1. q \in Queue /\ Agree(q) /\ q.pending \in [Lane -> Seq(Turn)]
    BY QueueFields DEF IInv, Agree
  <1>2. t \in Turn /\ k \in Lane /\ s \in Seq(Turn) /\ i \in 1 .. Len(s) /\ s[i] = t /\ IsInjective(s)
    BY <1>1, LaneFacts DEF Agree
  <1>3. to \in 1 .. Len(s) /\ q' = [q EXCEPT !.pending[k] = r] /\ waited' = [waited EXCEPT ![t] = waited[s[to]]]
        /\ held' = held
    BY <1>2 DEF Move
  <1> HIDE DEF k, i
  <1>4. r \in Seq(Turn) /\ IsInjective(r) /\ Range(r) = Range(s)
    <2> HIDE DEF s
    <2>1. QED  BY <1>2, <1>3, SwapFacts
  <1> HIDE DEF r
  <1>5. q' = [q EXCEPT !.pending = p]
    BY <1>1, <1>3 DEF Queue
  <1>6. p \in [Lane -> Seq(Turn)] /\ \A l \in Lane : p[l] = IF l = k THEN r ELSE q.pending[l]
    BY <1>1, <1>2, <1>4
  <1>7. \A l \in Lane : IsInjective(p[l]) /\ Range(p[l]) \subseteq Range(q.pending[l])
    BY <1>1, <1>4, <1>6 DEF Agree
  <1> HIDE DEF p
  <1>8. Agree(q') /\ (Resting(q) => Resting(q'))
    BY <1>1, <1>5, <1>6, <1>7, PendingFacts
  <1>9. NoIdleSlot'
    BY <1>8 DEF IInv, NoIdleSlot, Resting
  <1>10. s[to] \in Turn
    BY <1>2, <1>3
  <1> HIDE DEF s
  <1>11. TypeOK'
    BY <1>2, <1>3, <1>8, <1>10 DEF IInv, TypeOK, Agree
  <1>12. QED  BY <1>8, <1>9, <1>11 DEF IInv

\* Narrower caps make nobody runnable, and what runs keeps its slot.
LEMMA NarrowStep ==
  ASSUME IInv, NEW caps \in Relaunch, Narrow(caps)
  PROVE  IInv'
  <1> DEFINE total == Lower(q.cap["total"], caps["total"])
             c == [l \in Lane \cup {"total"} |-> Lower(total, Lower(q.cap[l], caps[l]))]
  <1>1. q \in Queue /\ Agree(q) /\ q.cap \in [Lane \cup {"total"} -> Nat] /\ Resting(q)
    BY QueueFields, Rests DEF IInv, Agree
  <1>2. caps \in [Lane \cup {"total"} -> Nat \ {0}]
    BY QueueAssumption
  <1>3. total \in Nat
    BY <1>1, <1>2 DEF Lower
  <1>4. /\ c \in [Lane \cup {"total"} -> Nat]
        /\ \A l \in Lane \cup {"total"} : c[l] <= q.cap[l] /\ c[l] <= total
        /\ c["total"] = total
    <2>1. \A l \in Lane \cup {"total"} : q.cap[l] \in Nat /\ caps[l] \in Nat
      BY <1>1, <1>2
    <2>2. ASSUME NEW l \in Lane \cup {"total"}
          PROVE  c[l] \in Nat /\ c[l] <= q.cap[l] /\ c[l] <= total
      <3> HIDE DEF total
      <3>1. QED  BY <1>3, <2>1 DEF Lower
    <2>3. c["total"] = total
      BY <1>3, <2>1 DEF Lower
    <2>4. c \in [Lane \cup {"total"} -> Nat]
      BY <2>2
    <2>5. QED  BY <2>2, <2>3, <2>4
  <1>5. q' = [q EXCEPT !.cap = c] /\ waited' = waited /\ held' = held
    BY DEF Narrow
  <1> HIDE DEF total, c
  <1>6. /\ q' \in Queue /\ q'.cap = c /\ q'.paused = q.paused /\ q'.pending = q.pending /\ q'.slot = q.slot
        /\ q'.running = q.running /\ q'.inLane = q.inLane
    BY <1>1, <1>4, <1>5 DEF Queue
  <1>7. Queued(q') = Queued(q) /\ Running(q') = Running(q)
    BY <1>6 DEF Queued, Running
  <1>8. \A l \in Lane : q'.cap[l] <= q'.cap["total"]
    BY <1>4, <1>6
  <1>9. Agree(q')
    BY <1>1, <1>6, <1>7, <1>8 DEF Agree
  <1>10. OverflowCandidates(q') = OverflowCandidates(q)
    BY <1>6, <1>7 DEF OverflowCandidates
  <1>11. ASSUME ~q.paused, NEW t \in Queued(q) \ Ambient
         PROVE  q'.running >= q'.cap["total"] \/ AtCap(q', LaneOf[t])
    <2>1. LaneOf[t] \in Lane
      BY <1>1, LaneFacts
    <2>2. q.running \in Nat /\ q.inLane[LaneOf[t]] \in Nat /\ q.cap[LaneOf[t]] \in Nat /\ q.cap["total"] \in Nat
          /\ c[LaneOf[t]] \in Nat /\ c["total"] \in Nat /\ c["total"] <= q.cap["total"]
          /\ c[LaneOf[t]] <= q.cap[LaneOf[t]]
      BY <1>1, <1>4, <2>1, QueueFields
    <2>3. q.running >= q.cap["total"] \/ q.inLane[LaneOf[t]] >= q.cap[LaneOf[t]]
      BY <1>1, <1>11 DEF Resting, AtCap
    <2>4. q.running >= c["total"] \/ q.inLane[LaneOf[t]] >= c[LaneOf[t]]
      BY <2>2, <2>3
    <2>5. QED  BY <1>6, <2>4 DEF AtCap
  <1>12. NoIdleSlot'
    BY <1>1, <1>6, <1>7, <1>10, <1>11 DEF NoIdleSlot, Resting
  <1>13. QED  BY <1>5, <1>6, <1>9, <1>12 DEF IInv, TypeOK

\* Time alone makes nobody runnable but ambient work, which its timer wakes.
LEMMA TickStep ==
  ASSUME IInv, Tick
  PROVE  IInv'
  <1> DEFINE r == [t \in Turn |-> Down(q.recent[t])]
             k == Upto(q.quiet, QuietWindow)
             h == IF q.timer > 1 THEN q.timer - 1 ELSE q.timer
  <1>1. q \in Queue /\ Agree(q) /\ Resting(q)
    BY Rests DEF IInv, Agree
  <1>2. AffinityWindow \in Nat /\ QuietWindow \in Nat /\ Patience \in Nat /\ YieldQuantum \in Nat
    BY QueueAssumption DEF Patience
  <1>3. /\ q.cap \in [Lane \cup {"total"} -> Nat] /\ q.paused \in BOOLEAN
        /\ q.pending \in [Lane -> Seq(Turn)]
        /\ q.slot \in [Turn -> {"none", "own", "overflow"}] /\ q.running \in Nat /\ q.inLane \in [Lane -> Nat]
        /\ q.recent \in [Turn -> 0 .. AffinityWindow + 1]
        /\ q.quiet \in 0 .. QuietWindow /\ q.timer \in 0 .. QuietWindow + 1
        /\ q = [cap |-> q.cap, paused |-> q.paused, pending |-> q.pending, slot |-> q.slot,
                running |-> q.running, inLane |-> q.inLane, recent |-> q.recent,
                quiet |-> q.quiet, timer |-> q.timer]
    BY <1>1, QueueFields
  <1>4. q' = [q EXCEPT !.recent = r, !.quiet = Upto(@, QuietWindow), !.timer = IF @ > 1 THEN @ - 1 ELSE @]
    BY DEF Tick
  <1>5. /\ waited' = [t \in Turn |-> IF t \in Queued(q) THEN Upto(waited[t], Patience) ELSE 0]
        /\ held' = [t \in Turn |-> IF t \in Running(q) THEN Upto(held[t], YieldQuantum) ELSE 0]
    BY DEF Tick
  <1>6. r \in [Turn -> 0 .. AffinityWindow + 1]
    <2>1. ASSUME NEW t \in Turn PROVE Down(q.recent[t]) \in 0 .. AffinityWindow + 1
      <3>1. q.recent[t] \in 0 .. AffinityWindow + 1
        BY <1>3
      <3>2. QED  BY <1>2, <3>1 DEF Down
    <2>2. QED  BY <2>1
  <1>7. k \in 0 .. QuietWindow /\ h \in 0 .. QuietWindow + 1
    BY <1>2, <1>3 DEF Upto
  <1>8. q' = [q EXCEPT !.recent = r, !.quiet = k, !.timer = h]
    <2> HIDE DEF r
    <2>1. QED  BY <1>3, <1>4
  <1> HIDE DEF r, k, h
  <1>9. /\ q' \in Queue /\ q'.cap = q.cap /\ q'.paused = q.paused /\ q'.pending = q.pending
        /\ q'.slot = q.slot /\ q'.running = q.running /\ q'.inLane = q.inLane
    BY <1>1, <1>6, <1>7, <1>8 DEF Queue
  <1>10. Agree(q') /\ Resting(q')
    BY <1>1, <1>9, SameQueue
  <1>11. ASSUME NEW t \in Turn
         PROVE  Upto(waited[t], Patience) \in 0 .. Patience /\ Upto(held[t], YieldQuantum) \in 0 .. YieldQuantum
    <2>1. waited[t] \in 0 .. Patience /\ held[t] \in 0 .. YieldQuantum
      BY DEF IInv, TypeOK
    <2>2. QED  BY <1>2, <2>1 DEF Upto
  <1>12. Clocks(waited', held')
    BY <1>2, <1>5, <1>11 DEF Clocks
  <1>13. NoIdleSlot'
    BY <1>10 DEF NoIdleSlot, Resting
  <1>14. QED  BY <1>9, <1>10, <1>12, <1>13 DEF IInv, TypeOK, Clocks

\* Every step keeps the counters, the lanes and the wake-ups in order.
LEMMA NextHolds ==
  ASSUME IInv, [Next]_vars
  PROVE  IInv'
  <1>1. CASE \E t \in Turn : Acquire(t) \/ Release(t) \/ Cancel(t) \/ Yield(t)
    BY <1>1, AcquireStep, ReleaseStep, CancelStep, YieldStep
  <1>2. CASE RecheckFires \/ Pause \/ Resume
    BY <1>2, RecheckStep, PauseStep, ResumeStep
  <1>3. CASE Tick
    BY <1>3, TickStep
  <1>4. CASE \E t \in Turn : MoveUp(t) \/ MoveDown(t)
    BY <1>4, MoveStep DEF MoveUp, MoveDown
  <1>5. CASE \E caps \in Relaunch : Narrow(caps)
    BY <1>5, NarrowStep
  <1>6. CASE UNCHANGED vars
    <2>1. q' = q /\ waited' = waited /\ held' = held
      BY <1>6 DEF vars
    <2>2. Agree(q') /\ Resting(q')
      BY <2>1, Rests DEF IInv
    <2>3. QED  BY <2>1, <2>2 DEF IInv, TypeOK, NoIdleSlot, Resting
  <1>7. QED  BY <1>1, <1>2, <1>3, <1>4, <1>5, <1>6 DEF Next, Traffic, Control

\* The queue's invariant: what drain and release count (664-713) is what runs,
\* each lane holds its own turns once, and nobody who could run waits.
THEOREM Invariance == Spec => []IInv
  <1>1. Init => IInv
    BY InitHolds
  <1>2. IInv /\ [Next]_vars => IInv'
    BY NextHolds
  <1>3. QED  BY <1>1, <1>2, PTL DEF Spec

\* Caps, lanes, clocks and timer keep their types.
THEOREM TypeCorrect == Spec => []TypeOK
  <1>1. IInv => TypeOK
    BY DEF IInv
  <1>2. QED  BY <1>1, Invariance, PTL

\* The counters never drift from the turns that run, no turn both runs and
\* waits or waits twice, and at most one turn runs past the caps.
THEOREM CountersAgree == Spec => []SlotsAgree
  <1>1. ASSUME Agree(q) PROVE SlotsAgree
    <2> DEFINE O == {t \in Turn : q.slot[t] = "overflow"}
    <2>1. Cardinality(O) <= 1
      <3>1. CASE O = {}
        BY <3>1, FS_EmptySet
      <3>2. CASE O # {}
        <4>1. PICK t \in O : TRUE
          BY <3>2
        <4>2. \A u \in O : u = t
          BY <1>1 DEF Agree
        <4>3. O = {t}
          BY <4>2
        <4> HIDE DEF O
        <4>4. Cardinality(O) = 1
          BY <4>3, FS_Singleton
        <4>5. QED  BY <4>4
      <3>3. QED  BY <3>1, <3>2
    <2>2. \A l \in Lane : q.inLane[l] = Cardinality({t \in Running(q) : LaneOf[t] = l})
      BY <1>1 DEF Agree, OfLane
    <2> HIDE DEF O
    <2>3. QED  BY <1>1, <2>1, <2>2 DEF Agree, SlotsAgree, O
  <1>2. IInv => SlotsAgree
    BY <1>1 DEF IInv
  <1>3. QED  BY <1>2, Invariance, PTL

\* No wake-up is lost: unless the queue is paused, nobody but ambient work
\* waits below the caps, and no person behind parkable work alone.
THEOREM NoWakeUpLost == Spec => []NoIdleSlot
  <1>1. IInv => NoIdleSlot
    BY DEF IInv
  <1>2. QED  BY <1>1, Invariance, PTL


-----------------------------------------------------------------------------
(* What starts in a step, and in which state it leaves the others.         *)

\* A set of queues that no turn of the loop and no timer leaves holds what a
\* drain of one of them leaves.
LEMMA DrainStays ==
  ASSUME NEW Q, NEW W, NEW G, Q \in G, \A R \in G : Agree(R),
         \A R \in G : \A D \in Queue : Progress(R, D, W) \/ Retimed(R, D) => D \in G,
         NEW E \in Drained(Q, W)
  PROVE  E \in G
  <1>1. \A R \in G : Agree(R) /\ (Progress(R, DrainOnce(R, W), W) => DrainOnce(R, W) \in G)
    BY DEF Progress, Given, Agree
  <1>2. PICK R \in G : E = Rechecked(R)
    BY <1>1, LoopFacts
  <1>3. Retimed(R, E) /\ E \in Queue
    BY <1>2, RecheckedFacts DEF Retimed, Agree
  <1>4. QED  BY <1>3

\* Turns that run in R and not in q.
Begun(R) == {t \in Turn : q.slot[t] = "none" /\ R.slot[t] # "none"}

\* What a step may have made of q on its way to R: those who began in an
\* ordinary slot fit the caps, the waiting keep their order, and nobody who
\* had waited for MaxWait was passed in its lane.
InTurn(R) ==
  /\ Agree(R) /\ R.cap = q.cap
  /\ \A t \in Begun(R) \cap Own(R) :
       /\ Cardinality(Own(R)) <= R.cap["total"]
       /\ Cardinality(OfLane(Own(R), LaneOf[t])) <= R.cap[LaneOf[t]]
  /\ \A a, b \in Queued(R) \cap Queued(q) : Before(R, a, b) => Before(q, a, b)
  /\ \A t \in Begun(R) \cap Own(R) \cap Queued(q), u \in (Queued(q) \cap Queued(R)) \ Ambient :
       LaneOf[u] = LaneOf[t] /\ waited[u] >= MaxWait => Before(q, t, u)

\* Ordinary slots are among the slots the counters count.
LEMMA OwnFacts ==
  ASSUME NEW R, Agree(R)
  PROVE  /\ IsFiniteSet(Own(R)) /\ Cardinality(Own(R)) \in Nat /\ Cardinality(Own(R)) <= R.running
         /\ \A l \in Lane : /\ IsFiniteSet(OfLane(Own(R), l)) /\ Cardinality(OfLane(Own(R), l)) \in Nat
                            /\ Cardinality(OfLane(Own(R), l)) <= R.inLane[l]
  <1>1. Own(R) \in SUBSET Running(R) /\ IsFiniteSet(Running(R))
    BY QueueAssumption, FS_Subset DEF Own, Running
  <1>2. IsFiniteSet(Own(R)) /\ Cardinality(Own(R)) <= Cardinality(Running(R))
    BY <1>1, FS_Subset
  <1>3. ASSUME NEW l \in Lane
        PROVE  /\ IsFiniteSet(OfLane(Own(R), l))
               /\ Cardinality(OfLane(Own(R), l)) <= Cardinality(OfLane(Running(R), l))
    <2>1. OfLane(Running(R), l) \in SUBSET Running(R) /\ OfLane(Own(R), l) \in SUBSET OfLane(Running(R), l)
      BY <1>1 DEF OfLane
    <2>2. QED  BY <1>1, <2>1, FS_Subset
  <1>4. QED  BY <1>2, <1>3, FS_CardinalityType DEF Agree

\* A turn of the loop keeps caps, order and the starved first.
LEMMA InTurnProgress ==
  ASSUME NEW R, InTurn(R), NEW W, \A u \in Queued(q) : W[u] = waited[u],
         NEW D, Progress(R, D, W)
  PROVE  InTurn(D)
  <1>1. PICK t \in Queued(R), slot \in {"own", "overflow"} :
          /\ Given(R, D, t, slot)
          /\ slot = "own" =>
               /\ R.running < R.cap["total"] /\ ~AtCap(R, LaneOf[t])
               /\ \A u \in Queued(R) \ ({t} \cup Ambient) :
                    LaneOf[u] = LaneOf[t] /\ W[u] >= MaxWait => Before(R, t, u)
    BY DEF Progress
  <1>2. /\ Agree(R) /\ R.cap = q.cap /\ Agree(D) /\ D.cap = R.cap /\ D.running = R.running + 1
        /\ \A l \in Lane : D.inLane[l] = IF l = LaneOf[t] THEN R.inLane[l] + 1 ELSE R.inLane[l]
        /\ Queued(D) = Queued(R) \ {t} /\ SameOrder(R, D)
        /\ \A u \in Turn : D.slot[u] = IF u = t THEN slot ELSE R.slot[u]
    BY <1>1 DEF Given, InTurn
  <1>3. t \in Turn /\ LaneOf[t] \in Lane /\ R.slot[t] = "none"
    BY <1>2, LaneFacts
  <1>4. Own(D) = (IF slot = "own" THEN Own(R) \cup {t} ELSE Own(R)) /\ t \notin Own(R)
    BY <1>2, <1>3 DEF Own
  <1>5. \A u \in Begun(D) \cap Own(D) : u \in Begun(R) \cap Own(R) \/ (u = t /\ slot = "own")
    BY <1>2, <1>3 DEF Begun, Own
  <1>6. ASSUME NEW a \in Queued(D) \cap Queued(q), NEW b \in Queued(D) \cap Queued(q), Before(D, a, b)
        PROVE  Before(q, a, b)
    <2>1. a \in Queued(R) \cap Queued(D) /\ b \in Queued(R) \cap Queued(D)
      BY <1>2
    <2>2. Before(R, a, b)
      BY <1>2, <1>6, <2>1 DEF SameOrder
    <2>3. QED  BY <2>1, <2>2 DEF InTurn
  <1>7. ASSUME NEW u \in Begun(D) \cap Own(D)
        PROVE  Cardinality(Own(D)) <= D.cap["total"] /\ Cardinality(OfLane(Own(D), LaneOf[u])) <= D.cap[LaneOf[u]]
    <2>1. u \in Turn /\ LaneOf[u] \in Lane
      BY QueueAssumption DEF Own
    <2>2. /\ Cardinality(Own(D)) \in Nat /\ Cardinality(Own(D)) <= D.running
          /\ \A l \in Lane : Cardinality(OfLane(Own(D), l)) \in Nat /\ Cardinality(OfLane(Own(D), l)) <= D.inLane[l]
      BY <1>2, OwnFacts
    <2>3. CASE slot = "own"
      <3>1. /\ R.running \in Nat /\ R.cap["total"] \in Nat
            /\ \A l \in Lane : R.inLane[l] \in Nat /\ R.cap[l] \in Nat
        BY <1>2, QueueFields DEF Agree
      <3>2. D.running <= R.cap["total"] /\ D.running \in Nat
        BY <1>1, <1>2, <2>3, <3>1
      <3>3. Cardinality(Own(D)) <= D.cap["total"]
        BY <1>2, <2>2, <3>1, <3>2
      <3>4. CASE LaneOf[u] = LaneOf[t]
        <4> DEFINE l == LaneOf[t]
        <4>1. R.inLane[l] < R.cap[l] /\ D.inLane[l] = R.inLane[l] + 1
          BY <1>1, <1>2, <1>3, <2>3, <3>1 DEF AtCap
        <4>2. Cardinality(OfLane(Own(D), l)) <= D.inLane[l] /\ Cardinality(OfLane(Own(D), l)) \in Nat
          BY <1>3, <2>2
        <4>3. R.inLane[l] \in Nat /\ R.cap[l] \in Nat
          BY <1>3, <3>1
        <4> HIDE DEF l
        <4>4. Cardinality(OfLane(Own(D), l)) <= R.cap[l]
          BY <4>1, <4>2, <4>3
        <4>5. QED  BY <1>2, <3>3, <3>4, <4>4 DEF l
      <3>5. CASE LaneOf[u] # LaneOf[t]
        <4>1. OfLane(Own(D), LaneOf[u]) = OfLane(Own(R), LaneOf[u])
          BY <1>4, <3>5 DEF OfLane
        <4>2. u \in Begun(R) \cap Own(R)
          BY <1>5, <3>5
        <4>3. QED  BY <1>2, <3>3, <4>1, <4>2 DEF InTurn
      <3>6. QED  BY <3>4, <3>5
    <2>4. CASE slot # "own"
      BY <1>2, <1>4, <1>5, <2>4 DEF InTurn
    <2>5. QED  BY <2>3, <2>4
  <1>8. ASSUME NEW v \in Begun(D) \cap Own(D) \cap Queued(q),
               NEW u \in (Queued(q) \cap Queued(D)) \ Ambient, LaneOf[u] = LaneOf[v], waited[u] >= MaxWait
        PROVE  Before(q, v, u)
    <2>1. u \in Queued(R) /\ u # t
      BY <1>2
    <2>2. CASE v \in Begun(R) \cap Own(R)
      BY <1>8, <2>1, <2>2 DEF InTurn
    <2>3. CASE v = t /\ slot = "own"
      <3>1. Before(R, t, u)
        BY <1>1, <1>8, <2>1, <2>3
      <3>2. t \in Queued(R) \cap Queued(q) /\ u \in Queued(R) \cap Queued(q)
        BY <2>1, <2>3
      <3>3. QED  BY <2>3, <3>1, <3>2 DEF InTurn
    <2>4. QED  BY <1>5, <2>2, <2>3
  <1>9. QED  BY <1>2, <1>6, <1>7, <1>8 DEF InTurn

\* So does another timer, and any change that gives nobody a slot.
LEMMA InTurnSame ==
  ASSUME NEW R, InTurn(R), NEW D, Agree(D), D.cap = R.cap, D.pending = R.pending,
         \A t \in Turn : D.slot[t] = R.slot[t]
  PROVE  InTurn(D)
  <1>1. Own(D) = Own(R) /\ Begun(D) = Begun(R) /\ Queued(D) = Queued(R)
    BY DEF Own, Begun, Queued
  <1>2. \A a, b : Before(D, a, b) <=> Before(R, a, b)
    BY DEF Before
  <1>3. QED  BY <1>1, <1>2 DEF InTurn

\* What a drain leaves of a queue in turn is in turn.
LEMMA InTurnDrained ==
  ASSUME NEW Q, InTurn(Q), NEW W, \A u \in Queued(q) : W[u] = waited[u], NEW E \in Drained(Q, W)
  PROVE  InTurn(E)
  <1> DEFINE G == {R \in Queue : InTurn(R)}
  <1>1. Q \in G /\ \A R \in G : Agree(R)
    BY DEF InTurn, Agree
  <1>2. ASSUME NEW R \in G, NEW D \in Queue, Progress(R, D, W) \/ Retimed(R, D) PROVE D \in G
    <2>1. CASE Progress(R, D, W)
      BY <2>1, InTurnProgress
    <2>2. CASE Retimed(R, D)
      BY <2>2, InTurnSame DEF Retimed
    <2>3. QED  BY <1>2, <2>1, <2>2
  <1> HIDE DEF G
  <1>3. E \in G
    BY <1>1, <1>2, DrainStays
  <1>4. QED  BY <1>3 DEF G

\* A newcomer at the end of its lane changes nothing of it.
LEMMA InTurnEnqueued ==
  ASSUME NEW R, InTurn(R), NEW t \in Turn, t \notin Queued(R), t \notin Running(R), t \notin Queued(q)
  PROVE  InTurn(Enqueued(R, t))
  <1> DEFINE D == Enqueued(R, t)
  <1>1. Asked(R, D, t)
    BY EnqueuedFacts DEF InTurn
  <1> HIDE DEF D
  <1>2. /\ Agree(D) /\ D.cap = R.cap /\ D.slot = R.slot /\ Queued(D) = Queued(R) \cup {t}
        /\ \A a, b \in Queued(R) : Before(D, a, b) => Before(R, a, b)
    BY <1>1 DEF Asked
  <1>3. Own(D) = Own(R) /\ Begun(D) = Begun(R) /\ Queued(D) \cap Queued(q) = Queued(R) \cap Queued(q)
    BY <1>2 DEF Own, Begun
  <1>4. InTurn(D)
    BY <1>2, <1>3 DEF InTurn
  <1>5. QED  BY <1>4 DEF D

\* The queue itself, with or without one of its running turns.
LEMMA InTurnStart ==
  ASSUME Agree(q)
  PROVE  InTurn(q) /\ \A t \in Running(q) : InTurn(Freed(q, t))
  <1>1. Begun(q) = {}
    BY DEF Begun
  <1>2. InTurn(q)
    BY <1>1 DEF InTurn
  <1>3. ASSUME NEW t \in Running(q) PROVE InTurn(Freed(q, t))
    <2> DEFINE D == Freed(q, t)
    <2>1. GaveUp(q, D, t)
      BY FreedFacts
    <2> HIDE DEF D
    <2>2. Begun(D) = {}
      BY <2>1 DEF GaveUp, Begun
    <2>3. \A a, b : Before(D, a, b) <=> Before(q, a, b)
      BY <2>1 DEF GaveUp, Before
    <2>4. InTurn(D)
      BY <2>1, <2>2, <2>3 DEF InTurn, GaveUp
    <2>5. QED  BY <2>4 DEF D
  <1>4. QED  BY <1>2, <1>3

\* A step that gives slots leaves the queue in turn; the others give none.
LEMMA InTurnStep ==
  ASSUME IInv, [Next]_vars
  PROVE  InTurn(q') \/ q'.slot = q.slot
  <1>1. Agree(q) /\ q \in Queue
    BY DEF IInv, Agree
  <1>2. ASSUME NEW t \in Turn, Acquire(t) PROVE InTurn(q')
    <2>1. t \notin Queued(q) /\ t \notin Running(q) /\ Settle(Enqueued(q, t), [waited EXCEPT ![t] = 0])
      BY <1>2 DEF Acquire, Idle
    <2>2. \A u \in Queued(q) : [waited EXCEPT ![t] = 0][u] = waited[u]
      BY <1>1, <2>1, LaneFacts DEF IInv, TypeOK
    <2>3. InTurn(Enqueued(q, t))
      BY <1>1, <2>1, InTurnStart, InTurnEnqueued
    <2>4. QED  BY <2>1, <2>2, <2>3, InTurnDrained DEF Settle
  <1>3. ASSUME NEW t \in Turn, Release(t) PROVE InTurn(q')
    BY <1>1, <1>3, InTurnStart, InTurnDrained DEF Release, Settle
  <1>4. ASSUME NEW t \in Turn, Yield(t) PROVE InTurn(q')
    <2>1. PICK R \in Drained(Freed(q, t), waited) : Settle(Enqueued(R, t), waited)
      BY <1>4 DEF Yield
    <2>2. t \in Running(q) /\ t \notin Queued(q)
      BY <1>1, <1>4 DEF Yield, Agree
    <2>3. InTurn(R)
      BY <1>1, <2>2, InTurnStart, InTurnDrained
    <2>4. InTurn(Enqueued(R, t))
      BY <1>1, <2>2, <2>3, YieldFacts, InTurnEnqueued
    <2>5. QED  BY <2>1, <2>4, InTurnDrained DEF Settle
  <1>5. ASSUME RecheckFires PROVE InTurn(q')
    <2>1. Retimed(q, [q EXCEPT !.timer = 0])
      BY <1>1, TimerFacts, QueueAssumption
    <2>2. InTurn([q EXCEPT !.timer = 0])
      BY <1>1, <2>1, InTurnStart, InTurnSame DEF Retimed
    <2>3. QED  BY <1>5, <2>2, InTurnDrained DEF RecheckFires, Settle
  <1>6. ASSUME Resume PROVE InTurn(q')
    <2> DEFINE E == [q EXCEPT !.paused = FALSE]
    <2>1. E \in Queue /\ E.cap = q.cap /\ E.pending = q.pending /\ E.slot = q.slot
          /\ E.running = q.running /\ E.inLane = q.inLane
      BY <1>1 DEF Queue
    <2> HIDE DEF E
    <2>2. Queued(E) = Queued(q) /\ Running(E) = Running(q)
      BY <2>1 DEF Queued, Running
    <2>3. Agree(E)
      BY <1>1, <2>1, <2>2 DEF Agree
    <2>4. InTurn(E)
      BY <1>1, <2>1, <2>3, InTurnStart, InTurnSame
    <2>5. QED  BY <1>6, <2>4, InTurnDrained DEF Resume, Settle, E
  <1>7. ASSUME \/ \E t \in Turn : Cancel(t) \/ MoveUp(t) \/ MoveDown(t)
               \/ \E caps \in Relaunch : Narrow(caps)
               \/ Pause \/ Tick \/ UNCHANGED vars
        PROVE  q'.slot = q.slot
    BY <1>1, <1>7 DEF Queue, Cancel, MoveUp, MoveDown, Move, Narrow, Pause, Tick, vars
  <1>8. QED  BY <1>2, <1>3, <1>4, <1>5, <1>6, <1>7 DEF Next, Traffic, Control

\* Nothing new starts past the caps of the moment, narrowed ones included.
THEOREM StartsFit == Spec => StartsWithinCaps
  <1> DEFINE A == \A t \in Started \cap Own(q') :
                    /\ Cardinality(Own(q')) <= q'.cap["total"]
                    /\ Cardinality({u \in Own(q') : LaneOf[u] = LaneOf[t]}) <= q'.cap[LaneOf[t]]
  <1>1. ASSUME IInv, [Next]_vars PROVE A
    <2>1. CASE InTurn(q')
      <3>1. Started = Begun(q')
        BY DEF Started, Begun
      <3>2. QED  BY <2>1, <3>1 DEF InTurn, OfLane
    <2>2. CASE q'.slot = q.slot
      BY <2>2 DEF Started
    <2>3. QED  BY <1>1, <2>1, <2>2, InTurnStep
  <1> HIDE DEF A
  <1>2. IInv /\ [Next]_vars => [A]_vars
    BY <1>1
  <1>3. Spec => [][A]_vars
    BY <1>2, Invariance, PTL DEF Spec
  <1>4. QED  BY <1>3, PTL DEF StartsWithinCaps, A

\* Affinity never lets a turn pass one of its lane that has waited for MaxWait.
THEOREM StarvedGoFirst == Spec => StarvedFirst
  <1> DEFINE A == \A t \in Started \cap Own(q') \cap Queued(q), u \in (Queued(q) \cap Queued(q')) \ Ambient :
                    LaneOf[u] = LaneOf[t] /\ waited[u] >= MaxWait => Position(q, t) < Position(q, u)
  <1>1. ASSUME IInv, [Next]_vars PROVE A
    <2>1. CASE InTurn(q')
      <3>1. Started = Begun(q')
        BY DEF Started, Begun
      <3>2. ASSUME NEW t \in Started \cap Own(q') \cap Queued(q), NEW u \in (Queued(q) \cap Queued(q')) \ Ambient,
                   LaneOf[u] = LaneOf[t], waited[u] >= MaxWait
            PROVE  Position(q, t) < Position(q, u)
        <4>1. Before(q, t, u)
          BY <2>1, <3>1, <3>2 DEF InTurn
        <4>2. /\ Position(q, t) = PlaceOf(q.pending[LaneOf[t]], t)
              /\ Position(q, u) = PlaceOf(q.pending[LaneOf[t]], u)
          BY <1>1, <3>2, LaneFacts DEF IInv
        <4>3. QED  BY <4>1, <4>2 DEF Before
      <3>3. QED  BY <3>2
    <2>2. CASE q'.slot = q.slot
      BY <2>2 DEF Started
    <2>3. QED  BY <1>1, <2>1, <2>2, InTurnStep
  <1> HIDE DEF A
  <1>2. IInv /\ [Next]_vars => [A]_vars
    BY <1>1
  <1>3. Spec => [][A]_vars
    BY <1>2, Invariance, PTL DEF Spec
  <1>4. QED  BY <1>3 DEF StarvedFirst, A


-----------------------------------------------------------------------------
(* Ambient work and the people it makes room for.                          *)

\* Those who run in R, without the people who began to since q.
Others(R) == Running(R) \ (Begun(R) \ Ambient)
Room(R) == Cardinality(Others(R)) < R.cap["interactive"]

\* What a turn of the loop does, by who is given a slot.
LEMMA ProgressIs ==
  ASSUME NEW R, Agree(R), NEW W, NEW D, Progress(R, D, W)
  PROVE  \E t \in Queued(R), slot \in {"own", "overflow"} :
           /\ t \in Turn /\ LaneOf[t] \in Lane /\ Given(R, D, t, slot)
           /\ slot = "own" => ~AtCap(R, LaneOf[t])
           /\ slot = "overflow" => LaneOf[t] = "interactive"
           /\ t \in Ambient => slot = "own" /\ LaneOf[t] = "background" /\ AmbientGateOpen(R)
           /\ ~R.paused
  <1>1. Ambient \subseteq {t \in Turn : LaneOf[t] = "background"}
    BY QueueAssumption
  <1>2. CASE \E t \in Queued(R) :
               /\ Given(R, D, t, "own")
               /\ ~R.paused /\ R.running < R.cap["total"] /\ ~AtCap(R, LaneOf[t])
               /\ t \in Ambient => AmbientGateOpen(R)
               /\ \A u \in Queued(R) \ ({t} \cup Ambient) :
                    LaneOf[u] = LaneOf[t] /\ W[u] >= MaxWait => Before(R, t, u)
    BY <1>1, <1>2, LaneFacts
  <1>3. CASE \E t \in Queued(R) :
               /\ Given(R, D, t, "overflow")
               /\ ~R.paused /\ LaneOf[t] = "interactive" /\ t \notin Ambient
    BY <1>3, LaneFacts
  <1>4. QED  BY <1>2, <1>3 DEF Progress

\* Ambient work that is let in by the headroom leaves it.
LEMMA RoomKept ==
  ASSUME NEW R, Agree(R), NEW D, NEW t \in Turn, NEW slot, Given(R, D, t, slot),
         R.cap["interactive"] > 1, R.running < R.cap["interactive"] - 1
  PROVE  Room(D)
  <1>1. /\ Agree(D) /\ D.cap = R.cap /\ D.running = R.running + 1
        /\ R.running \in Nat /\ R.cap["interactive"] \in Nat
    BY QueueFields DEF Given, Agree, Lane
  <1>2. IsFiniteSet(Running(D)) /\ Others(D) \in SUBSET Running(D)
    BY QueueAssumption, FS_Subset DEF Running, Others
  <1>3. Cardinality(Others(D)) <= Cardinality(Running(D)) /\ IsFiniteSet(Others(D))
    BY <1>2, FS_Subset
  <1>4. Cardinality(Others(D)) \in Nat
    BY <1>3, FS_CardinalityType
  <1>5. D.running = Cardinality(Running(D))
    BY <1>1 DEF Agree
  <1>6. Cardinality(Others(D)) < R.cap["interactive"]
    BY <1>1, <1>3, <1>4, <1>5
  <1>7. QED  BY <1>1, <1>6 DEF Room

\* Somebody who is given a slot begins, unless q ran it already.
LEMMA BegunThen ==
  ASSUME NEW R, Agree(R), NEW D, NEW t \in Queued(R), NEW slot \in {"own", "overflow"}, Given(R, D, t, slot)
  PROVE  /\ t \in Turn
         /\ q.slot[t] # "none" => Begun(D) = Begun(R)
         /\ q.slot[t] = "none" => Begun(D) = Begun(R) \cup {t}
         /\ q.slot[t] = "none" /\ t \notin Ambient => Others(D) = Others(R)
  <1>1. /\ Running(D) = Running(R) \cup {t} /\ t \in Turn /\ t \notin Running(R) /\ R.slot[t] = "none"
        /\ \A u \in Turn : D.slot[u] = IF u = t THEN slot ELSE R.slot[u]
    BY LaneFacts DEF Given, Agree
  <1>2. q.slot[t] # "none" => Begun(D) = Begun(R)
    BY <1>1 DEF Begun
  <1>3. q.slot[t] = "none" => Begun(D) = Begun(R) \cup {t}
    BY <1>1 DEF Begun
  <1>4. QED  BY <1>1, <1>2, <1>3 DEF Others

\* What a step other than a yield may have made of q on its way to R.
Calm(R) ==
  /\ Agree(R) /\ R.cap = q.cap /\ Queued(R) \cap Running(q) = {}
  /\ Begun(R) \cap Ambient # {} => Room(R) \/ (~Engaged(R) /\ R.quiet = QuietWindow)

\* One turn of the drain's loop keeps the headroom left by ambient work.
LEMMA CalmProgress ==
  ASSUME NEW R, Calm(R), NEW W, NEW D, Progress(R, D, W), QuietWindow # 0
  PROVE  Calm(D)
  <1>1. Agree(R) /\ R.cap = q.cap /\ Queued(R) \cap Running(q) = {}
    BY DEF Calm
  <1>2. PICK t \in Queued(R), slot \in {"own", "overflow"} :
          t \in Turn /\ Given(R, D, t, slot) /\ (t \in Ambient => AmbientGateOpen(R))
    BY <1>1, ProgressIs
  <1>3. /\ Agree(D) /\ D.cap = R.cap /\ Queued(D) = Queued(R) \ {t} /\ Running(D) = Running(R) \cup {t}
        /\ D.quiet = IF t \in Ambient THEN R.quiet ELSE 0
    BY <1>2 DEF Given
  <1>4. q.slot[t] = "none"
    BY <1>1, <1>2 DEF Running
  <1>5. Engaged(D) <=> Engaged(R)
    BY <1>2, <1>3 DEF Engaged
  <1>6. CASE t \in Ambient
    <2>1. CASE R.cap["interactive"] > 1 /\ R.running < R.cap["interactive"] - 1
      BY <1>1, <1>2, <1>3, <2>1, RoomKept DEF Calm
    <2>2. CASE ~Engaged(R) /\ R.quiet = QuietWindow
      BY <1>1, <1>3, <1>5, <1>6, <2>2 DEF Calm
    <2>3. QED  BY <1>2, <1>6, <2>1, <2>2 DEF AmbientGateOpen
  <1>7. CASE t \notin Ambient
    <2>1. Engaged(R)
      BY <1>7 DEF Engaged
    <2>2. Others(D) = Others(R) /\ Begun(D) = Begun(R) \cup {t}
      BY <1>1, <1>2, <1>4, <1>7, BegunThen
    <2>3. Begun(D) \cap Ambient # {} => Room(D)
      BY <1>3, <1>7, <2>1, <2>2 DEF Calm, Room
    <2>4. QED  BY <1>1, <1>3, <2>3 DEF Calm
  <1>8. QED  BY <1>6, <1>7

\* A drain keeps the headroom, however many turns it starts.
LEMMA CalmDrained ==
  ASSUME NEW Q, Calm(Q), NEW W, NEW E \in Drained(Q, W), QuietWindow # 0
  PROVE  Calm(E)
  <1> DEFINE G == {R \in Queue : Calm(R)}
  <1>1. Q \in G /\ \A R \in G : Agree(R)
    BY DEF Calm, Agree
  <1>2. ASSUME NEW R \in G, NEW D \in Queue, Progress(R, D, W) \/ Retimed(R, D) PROVE D \in G
    <2>1. CASE Progress(R, D, W)
      BY <2>1, CalmProgress
    <2>2. CASE Retimed(R, D)
      <3>1. Begun(D) = Begun(R) /\ Others(D) = Others(R) /\ (Engaged(D) <=> Engaged(R))
        BY <2>2 DEF Retimed, Begun, Others, Engaged
      <3>2. QED  BY <2>2, <3>1 DEF Calm, Room, Retimed
    <2>3. QED  BY <1>2, <2>1, <2>2
  <1> HIDE DEF G
  <1>3. E \in G
    BY <1>1, <1>2, DrainStays
  <1>4. QED  BY <1>3 DEF G

\* What a yield of t0 may have made of q on its way to R, while w waits or has
\* come to run: the gate is closed, or t0 left its lane one slot at most.
Contended(R, t0, w) ==
  /\ Agree(R) /\ R.cap = q.cap /\ R.paused = q.paused
  /\ Queued(R) \cap Running(q) \subseteq {t0}
  /\ w \in Queued(R) \cup Running(R)
  /\ ~R.paused =>
       \/ R.running >= R.cap["interactive"] - 1 /\ Begun(R) \cap Ambient = {}
       \/ /\ LaneOf[t0] = "background" /\ R.inLane["background"] + 1 >= R.cap["background"]
          /\ t0 \in Running(R) => R.inLane["background"] >= R.cap["background"]
          /\ Begun(R) \cap Ambient # {} =>
               R.inLane["background"] >= R.cap["background"] /\ t0 \notin Running(R) /\ Room(R)
  /\ R.paused => Begun(R) = {}

\* What makes a yield leave room is kept by one turn of the drain's loop.
LEMMA ContendedProgress ==
  ASSUME NEW t0 \in Running(q), NEW w, w \notin Ambient,
         NEW R, Contended(R, t0, w), NEW W, NEW D, Progress(R, D, W), QuietWindow # 0
  PROVE  Contended(D, t0, w)
  <1>1. Agree(R) /\ R.cap = q.cap /\ R.paused = q.paused /\ Queued(R) \cap Running(q) \subseteq {t0}
        /\ w \in Queued(R) \cup Running(R)
    BY DEF Contended
  <1>2. PICK t \in Queued(R), slot \in {"own", "overflow"} :
           /\ t \in Turn /\ LaneOf[t] \in Lane /\ Given(R, D, t, slot)
           /\ slot = "own" => ~AtCap(R, LaneOf[t])
           /\ slot = "overflow" => LaneOf[t] = "interactive"
           /\ t \in Ambient => slot = "own" /\ LaneOf[t] = "background" /\ AmbientGateOpen(R)
           /\ ~R.paused
    BY <1>1, ProgressIs
  <1>3. /\ Agree(D) /\ D.cap = R.cap /\ D.paused = R.paused
        /\ Queued(D) = Queued(R) \ {t} /\ Running(D) = Running(R) \cup {t}
        /\ D.running = R.running + 1
        /\ \A l \in Lane : D.inLane[l] = IF l = LaneOf[t] THEN R.inLane[l] + 1 ELSE R.inLane[l]
    BY <1>2 DEF Given
  <1>4. /\ R.running \in Nat /\ R.inLane["background"] \in Nat
        /\ R.cap["background"] \in Nat /\ R.cap["interactive"] \in Nat
    BY <1>1, QueueFields DEF Agree, Lane
  <1>5. /\ Queued(D) \cap Running(q) \subseteq {t0} /\ w \in Queued(D) \cup Running(D) /\ ~D.paused
    BY <1>1, <1>2, <1>3
  <1>6. Engaged(R)
    BY <1>1 DEF Engaged
  <1>7. t \in Ambient => R.cap["interactive"] > 1 /\ R.running < R.cap["interactive"] - 1
    BY <1>2, <1>6 DEF AmbientGateOpen
  <1>8. t # t0 => q.slot[t] = "none"
    BY <1>1, <1>2 DEF Running
  <1>9. q.slot[t0] # "none"
    BY DEF Running
  <1>10. D.inLane["background"] = IF LaneOf[t] = "background" THEN R.inLane["background"] + 1
                                  ELSE R.inLane["background"]
    BY <1>3 DEF Lane
  <1>11. CASE R.running >= R.cap["interactive"] - 1 /\ Begun(R) \cap Ambient = {}
    <2>1. t \notin Ambient
      BY <1>4, <1>7, <1>11
    <2>2. Begun(D) \cap Ambient = {}
      BY <1>1, <1>2, <1>11, <2>1, BegunThen
    <2>3. D.running >= D.cap["interactive"] - 1
      BY <1>3, <1>4, <1>11
    <2>4. QED  BY <1>1, <1>3, <1>5, <2>2, <2>3 DEF Contended
  <1>12. CASE /\ LaneOf[t0] = "background" /\ R.inLane["background"] + 1 >= R.cap["background"]
              /\ t0 \in Running(R) => R.inLane["background"] >= R.cap["background"]
              /\ Begun(R) \cap Ambient # {} =>
                   R.inLane["background"] >= R.cap["background"] /\ t0 \notin Running(R) /\ Room(R)
    <2> SUFFICES /\ D.inLane["background"] + 1 >= D.cap["background"]
                 /\ t0 \in Running(D) => D.inLane["background"] >= D.cap["background"]
                 /\ Begun(D) \cap Ambient # {} =>
                      D.inLane["background"] >= D.cap["background"] /\ t0 \notin Running(D) /\ Room(D)
      BY <1>1, <1>3, <1>5, <1>12 DEF Contended
    <2>1. CASE LaneOf[t] = "background"
      <3>1. R.inLane["background"] < R.cap["background"]
        BY <1>2, <1>4, <2>1 DEF AtCap
      <3>2. Begun(R) \cap Ambient = {} /\ t0 \notin Running(R)
        BY <1>4, <1>12, <3>1
      <3>3. D.inLane["background"] >= D.cap["background"] /\ D.inLane["background"] + 1 >= D.cap["background"]
        BY <1>3, <1>4, <1>10, <1>12, <2>1
      <3>4. Begun(D) \cap Ambient # {} => t \in Ambient /\ t # t0
        BY <1>1, <1>2, <1>9, <3>2, BegunThen
      <3>5. t \in Ambient => Room(D)
        BY <1>1, <1>2, <1>7, RoomKept
      <3>6. t # t0 => t0 \notin Running(D)
        BY <1>3, <3>2
      <3>7. QED  BY <3>3, <3>4, <3>5, <3>6
    <2>2. CASE LaneOf[t] # "background"
      <3>1. t \notin Ambient /\ t # t0
        BY <1>2, <1>12, <2>2
      <3>2. Others(D) = Others(R) /\ Begun(D) = Begun(R) \cup {t}
        BY <1>1, <1>2, <1>8, <3>1, BegunThen
      <3>3. t0 \in Running(D) <=> t0 \in Running(R)
        BY <1>3, <3>1
      <3>4. D.inLane["background"] = R.inLane["background"] /\ D.cap = R.cap
        BY <1>3, <1>10, <2>2
      <3>5. Begun(D) \cap Ambient = Begun(R) \cap Ambient /\ (Room(D) <=> Room(R))
        BY <3>1, <3>2, <3>4 DEF Room
      <3>6. QED  BY <1>12, <3>3, <3>4, <3>5
    <2>3. QED  BY <2>1, <2>2
  <1>13. QED  BY <1>2, <1>11, <1>12 DEF Contended

\* The drain of a yield keeps it, however many turns it starts.
LEMMA ContendedDrained ==
  ASSUME NEW t0 \in Running(q), NEW w, w \notin Ambient,
         NEW Q, Contended(Q, t0, w), NEW W, NEW E \in Drained(Q, W), QuietWindow # 0
  PROVE  Contended(E, t0, w)
  <1> DEFINE G == {R \in Queue : Contended(R, t0, w)}
  <1>1. Q \in G /\ \A R \in G : Agree(R)
    BY DEF Contended, Agree
  <1>2. ASSUME NEW R \in G, NEW D \in Queue, Progress(R, D, W) \/ Retimed(R, D) PROVE D \in G
    <2>1. CASE Progress(R, D, W)
      BY <2>1, ContendedProgress
    <2>2. CASE Retimed(R, D)
      <3>1. Begun(D) = Begun(R) /\ Others(D) = Others(R)
        BY <2>2 DEF Retimed, Begun, Others
      <3>2. QED  BY <2>2, <3>1 DEF Contended, Room, Retimed
    <2>3. QED  BY <1>2, <2>1, <2>2
  <1> HIDE DEF G
  <1>3. E \in G
    BY <1>1, <1>2, DrainStays
  <1>4. QED  BY <1>3 DEF G


\* A turn yields to somebody it kept from a slot.
LEMMA ContendedStart ==
  ASSUME IInv, NEW t0 \in Running(q), NEW w \in Yieldable(t0)
  PROVE  w \notin Ambient /\ Contended(Freed(q, t0), t0, w)
  <1> DEFINE D == Freed(q, t0)
  <1>1. /\ w \in Queued(q) /\ w \notin Ambient
        /\ LaneOf[w] = "interactive" \/ LaneOf[t0] = "background"
    BY DEF Yieldable
  <1>2. Agree(q) /\ Resting(q) /\ LaneOf[w] \in Lane /\ LaneOf[t0] \in Lane
    BY <1>1, Rests, LaneFacts, QueueAssumption DEF IInv, Running
  <1>3. GaveUp(q, D, t0)
    BY <1>2, FreedFacts
  <1> HIDE DEF D
  <1>4. /\ Agree(D) /\ D.cap = q.cap /\ D.paused = q.paused /\ q.running = D.running + 1
        /\ \A l \in Lane : q.inLane[l] = IF l = LaneOf[t0] THEN D.inLane[l] + 1 ELSE D.inLane[l]
        /\ Queued(D) = Queued(q) /\ Running(D) = Running(q) \ {t0}
        /\ \A u \in Turn : D.slot[u] = IF u = t0 THEN "none" ELSE q.slot[u]
    BY <1>3 DEF GaveUp
  <1>5. Begun(D) = {}
    BY <1>4 DEF Begun
  <1>6. /\ q.running \in Nat /\ D.running \in Nat /\ q.cap["total"] \in Nat /\ q.cap["interactive"] \in Nat
        /\ q.cap["interactive"] <= q.cap["total"]
        /\ q.inLane["interactive"] \in Nat
    BY <1>2, <1>4, QueueFields DEF Agree, Lane
  <1>7. q.inLane["interactive"] <= q.running
    <2>1. IsFiniteSet(Running(q)) /\ OfLane(Running(q), "interactive") \in SUBSET Running(q)
      BY QueueAssumption, FS_Subset DEF Running, OfLane
    <2>2. Cardinality(OfLane(Running(q), "interactive")) <= Cardinality(Running(q))
      BY <2>1, FS_Subset
    <2>3. QED  BY <1>2, <2>2 DEF Agree, Lane
  <1>8. ASSUME ~q.paused
        PROVE  \/ D.running >= D.cap["interactive"] - 1
               \/ LaneOf[t0] = "background" /\ D.inLane["background"] + 1 >= D.cap["background"]
    <2>1. q.running >= q.cap["total"] \/ q.inLane[LaneOf[w]] >= q.cap[LaneOf[w]]
      BY <1>1, <1>2, <1>8 DEF Resting, AtCap
    <2>2. CASE q.running >= q.cap["total"]
      BY <1>4, <1>6, <2>2
    <2>3. CASE q.inLane[LaneOf[w]] >= q.cap[LaneOf[w]] /\ LaneOf[w] = "interactive"
      BY <1>4, <1>6, <1>7, <2>3
    <2>4. CASE q.inLane[LaneOf[w]] >= q.cap[LaneOf[w]] /\ LaneOf[w] = "background"
      <3>1. LaneOf[t0] = "background" /\ q.inLane["background"] = D.inLane["background"] + 1
        BY <1>1, <1>4, <2>4 DEF Lane
      <3>2. QED  BY <1>4, <2>4, <3>1
    <2>5. QED  BY <1>2, <2>1, <2>2, <2>3, <2>4 DEF Lane
  <1>9. Queued(D) \cap Running(q) \subseteq {t0} /\ w \in Queued(D)
    BY <1>1, <1>2, <1>4 DEF Agree
  <1>10. Contended(D, t0, w)
    BY <1>4, <1>5, <1>8, <1>9 DEF Contended
  <1>11. QED  BY <1>1, <1>10 DEF D

\* A yield leaves a queue in which ambient work that began left room.
LEMMA ContendedYield ==
  ASSUME IInv, NEW t0 \in Turn, Yield(t0), QuietWindow # 0, Begun(q') \cap Ambient # {}
  PROVE  Room(q')
  <1>1. t0 \in Running(q) /\ Agree(q)
    BY DEF Yield, IInv
  <1>2. PICK w \in Yieldable(t0) : w \notin Ambient /\ Contended(Freed(q, t0), t0, w)
    BY <1>1, ContendedStart DEF Yield
  <1>3. PICK R \in Drained(Freed(q, t0), waited) : Settle(Enqueued(R, t0), waited)
    BY DEF Yield
  <1>4. Contended(R, t0, w)
    BY <1>1, <1>2, <1>3, ContendedDrained
  <1> DEFINE D == Enqueued(R, t0)
  <1>5. Asked(R, D, t0)
    BY <1>1, <1>3, YieldFacts, EnqueuedFacts
  <1> HIDE DEF D
  <1>6. Begun(D) = Begun(R) /\ Others(D) = Others(R)
    BY <1>5 DEF Asked, Begun, Others
  <1>7. Contended(D, t0, w)
    BY <1>4, <1>5, <1>6 DEF Contended, Asked, Room
  <1>8. Contended(q', t0, w)
    BY <1>1, <1>2, <1>3, <1>7, ContendedDrained DEF Settle, D
  <1>9. QED  BY <1>8 DEF Contended

\* Ambient work that starts before the quiet window is over leaves one of the
\* engine's interactive slots to those who may come, in a yield as elsewhere.
LEMMA AmbientStep ==
  ASSUME IInv, [Next]_vars, q'.quiet < QuietWindow, Begun(q') \cap Ambient # {}
  PROVE  Room(q')
  <1>1. Agree(q) /\ q \in Queue /\ Begun(q) = {} /\ q' \in Queue
    BY NextHolds DEF IInv, Agree, Begun, TypeOK
  <1>2. QuietWindow # 0
    BY <1>1, QueueFields, QueueAssumption
  <1>3. Queued(q) \cap Running(q) = {}
    BY <1>1 DEF Agree
  <1>4. ASSUME Calm(q') PROVE Room(q')
    <2>1. q'.quiet # QuietWindow
      BY <1>1, QueueFields, QueueAssumption
    <2>2. QED  BY <1>4, <2>1 DEF Calm
  <1>5. ASSUME NEW t \in Turn, Acquire(t) PROVE Calm(q')
    <2> DEFINE D == Enqueued(q, t)
    <2>1. t \notin Queued(q) /\ t \notin Running(q) /\ Settle(D, [waited EXCEPT ![t] = 0])
      BY <1>5 DEF Acquire, Idle
    <2>2. Asked(q, D, t)
      BY <1>1, <2>1, EnqueuedFacts
    <2> HIDE DEF D
    <2>3. Calm(D)
      BY <1>1, <1>3, <2>1, <2>2 DEF Calm, Asked, Begun
    <2>4. QED  BY <1>2, <2>1, <2>3, CalmDrained DEF Settle
  <1>6. ASSUME NEW t \in Turn, Release(t) PROVE Calm(q')
    <2> DEFINE D == Freed(q, t)
    <2>1. t \in Running(q) /\ Settle(D, waited)
      BY <1>6 DEF Release
    <2>2. GaveUp(q, D, t)
      BY <1>1, <2>1, FreedFacts
    <2> HIDE DEF D
    <2>3. Begun(D) = {}
      BY <2>2 DEF GaveUp, Begun
    <2>4. Calm(D)
      BY <1>3, <2>2, <2>3 DEF Calm, GaveUp
    <2>5. QED  BY <1>2, <2>1, <2>4, CalmDrained DEF Settle
  <1>7. ASSUME RecheckFires PROVE Calm(q')
    <2> DEFINE D == [q EXCEPT !.timer = 0]
    <2>1. Retimed(q, D)
      BY <1>1, TimerFacts, QueueAssumption
    <2>2. Settle(D, waited)
      BY <1>7 DEF RecheckFires
    <2> HIDE DEF D
    <2>3. Calm(D)
      BY <1>1, <1>3, <2>1 DEF Calm, Retimed, Begun
    <2>4. QED  BY <1>2, <2>2, <2>3, CalmDrained DEF Settle
  <1>8. ASSUME Resume PROVE Calm(q')
    <2> DEFINE E == [q EXCEPT !.paused = FALSE]
    <2>1. E \in Queue /\ E.cap = q.cap /\ E.pending = q.pending /\ E.slot = q.slot
          /\ E.running = q.running /\ E.inLane = q.inLane
      BY <1>1 DEF Queue
    <2>2. Settle(E, waited)
      BY <1>8 DEF Resume
    <2> HIDE DEF E
    <2>3. Queued(E) = Queued(q) /\ Running(E) = Running(q)
      BY <2>1 DEF Queued, Running
    <2>4. Calm(E)
      BY <1>1, <1>3, <2>1, <2>3 DEF Calm, Agree, Begun
    <2>5. QED  BY <1>2, <2>2, <2>4, CalmDrained DEF Settle
  <1>9. ASSUME NEW t \in Turn, Yield(t) PROVE Room(q')
    BY <1>2, <1>9, ContendedYield
  <1>10. ASSUME \/ \E t \in Turn : Cancel(t) \/ MoveUp(t) \/ MoveDown(t)
                \/ \E caps \in Relaunch : Narrow(caps)
                \/ Pause \/ Tick \/ UNCHANGED vars
         PROVE  FALSE
    <2>1. q'.slot = q.slot
      BY <1>1, <1>10 DEF Queue, Cancel, MoveUp, MoveDown, Move, Narrow, Pause, Tick, vars
    <2>2. QED  BY <2>1 DEF Begun
  <1>11. QED  BY <1>4, <1>5, <1>6, <1>7, <1>8, <1>9, <1>10 DEF Next, Traffic, Control

\* Ambient work that starts before the quiet window is over leaves one of the
\* engine's interactive slots free, also when a turn yields (747-757, 974-996).
THEOREM HeadroomKept == Spec => AmbientKeepsHeadroom
  <1> DEFINE A == \A t \in Started \cap Ambient :
                    q'.quiet < QuietWindow =>
                      Cardinality(Running(q') \ (Started \ Ambient)) < q'.cap["interactive"]
  <1>1. ASSUME IInv, [Next]_vars PROVE A
    <2>1. Started = Begun(q')
      BY DEF Started, Begun
    <2>2. QED  BY <1>1, <2>1, AmbientStep DEF Room, Others
  <1> HIDE DEF A
  <1>2. IInv /\ [Next]_vars => [A]_vars
    BY <1>1
  <1>3. Spec => [][A]_vars
    BY <1>2, Invariance, PTL DEF Spec
  <1>4. QED  BY <1>3, PTL DEF AmbientKeepsHeadroom, A

=============================================================================
