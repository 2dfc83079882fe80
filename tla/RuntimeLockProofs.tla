-------------------------- MODULE RuntimeLockProofs --------------------------
(***************************************************************************)
(* For any number of daemons and namespaces: a settled holder keeps its    *)
(* home. Two facts carry it: the pid in the file counts as reused only     *)
(* once the daemon that wrote it is dead, and nobody who is in the file    *)
(* has yet to start. So whoever judges the file of a live holder finds it  *)
(* alive, in its own namespace or by the mtime. And two come to hold one   *)
(* home only by a removal of the file of a live one.                       *)
(***************************************************************************)
EXTENDS RuntimeLock, TLAPS

FileOK == file # NoFile => at[file.by] # "new" /\ (file.reused => ~Live(file.by))

IInv == TypeOK /\ FileOK

\* A daemon that is alive after a step which is not its start was alive before.
LEMMA StaysDead ==
  ASSUME TypeOK, NEW d \in Daemon, at[d] # "new", [Next]_vars, Live(d)'
  PROVE  Live(d)
  <1> SUFFICES ASSUME ~Live(d) PROVE at'[d] = at[d]
    BY DEF Live
  <1>1. ASSUME NEW e \in Daemon, e # d, NEW place, To(e, place) PROVE at'[d] = at[d]
    BY <1>1 DEF To, TypeOK
  <1>2. ASSUME NEW e \in Daemon,
               \/ Start(e) \/ Acquires(e) \/ BeatReads(e) \/ BeatTouches(e)
               \/ Close(e) \/ Releases(e) \/ Crash(e)
        PROVE  at'[d] = at[d]
    <2>1. CASE e = d
      BY <1>2, <2>1 DEF Live, Start, Acquires, Create, Exists, Fill, Judge, Look, FoundDead,
           FoundAlive, Remove, BeatReads, BeatTouches, Close, Releases, CloseReads,
           CloseRemoves, Crash
    <2>2. CASE e # d
      BY <1>2, <2>2, <1>1 DEF Start, Acquires, Create, Exists, Fill, Judge, Look, FoundDead,
           FoundAlive, Remove, BeatReads, BeatTouches, Close, Releases, CloseReads,
           CloseRemoves, Crash
    <2>3. QED  BY <2>1, <2>2
  <1>3. CASE PidReused \/ UNCHANGED vars
    BY <1>3 DEF PidReused, vars
  <1>4. QED  BY <1>2, <1>3 DEF Next

\* No daemon goes back to before its start.
LEMMA StaysStarted ==
  ASSUME TypeOK, NEW d \in Daemon, at[d] # "new", [Next]_vars
  PROVE  at'[d] # "new"
  <1>1. ASSUME NEW e \in Daemon, NEW place, To(e, place), place # "new" PROVE at'[d] # "new"
    BY <1>1 DEF To, TypeOK
  <1>2. ASSUME NEW e \in Daemon,
               \/ Start(e) \/ Acquires(e) \/ BeatReads(e) \/ BeatTouches(e)
               \/ Close(e) \/ Releases(e) \/ Crash(e)
        PROVE  at'[d] # "new"
    BY <1>1, <1>2 DEF Start, Acquires, Create, Exists, Fill, Judge, Look, FoundDead,
         FoundAlive, Remove, BeatReads, BeatTouches, Close, Releases, CloseReads,
         CloseRemoves, Crash
  <1>3. CASE PidReused \/ UNCHANGED vars
    BY <1>3 DEF PidReused, vars
  <1>4. QED  BY <1>2, <1>3 DEF Next

\* What a step does to the file: nothing, a fresh one, its removal, the identity
\* of its creator, or the loss of a dead one's pid.
LEMMA FileChange ==
  ASSUME IInv, [Next]_vars
  PROVE  \/ file' = file \/ file' = NoFile
         \/ \E d \in Daemon :
              /\ file = NoFile /\ at'[d] = "fill"
              /\ file' = [by |-> d, filled |-> FALSE, reused |-> FALSE]
         \/ file # NoFile /\ file' = [file EXCEPT !.filled = TRUE]
         \/ file # NoFile /\ ~Live(file.by) /\ file' = [file EXCEPT !.reused = TRUE]
  <1>1. ASSUME NEW d \in Daemon, Create(d)
        PROVE  /\ file = NoFile /\ at'[d] = "fill"
               /\ file' = [by |-> d, filled |-> FALSE, reused |-> FALSE]
    BY <1>1 DEF Create, To, IInv, TypeOK
  <1>2. ASSUME NEW d \in Daemon, Fill(d)
        PROVE  file' = file \/ (file # NoFile /\ file' = [file EXCEPT !.filled = TRUE])
    BY <1>2 DEF Fill
  <1>3. ASSUME NEW d \in Daemon, Remove(d) \/ CloseRemoves(d)
        PROVE  file' = NoFile
    BY <1>3 DEF Remove, CloseRemoves
  <1>4. ASSUME NEW d \in Daemon,
               \/ Start(d) \/ Exists(d) \/ Judge(d) \/ Look(d) \/ FoundDead(d) \/ FoundAlive(d)
               \/ BeatReads(d) \/ BeatTouches(d) \/ Close(d) \/ CloseReads(d) \/ Crash(d)
        PROVE  file' = file
    BY <1>4 DEF Start, Exists, Judge, Look, FoundDead, FoundAlive, BeatReads, BeatTouches,
         Close, CloseReads, Crash
  <1>5. CASE PidReused
    BY <1>5 DEF PidReused, Named
  <1>6. CASE UNCHANGED vars
    BY <1>6 DEF vars
  <1>7. QED  BY <1>1, <1>2, <1>3, <1>4, <1>5, <1>6 DEF Next, Acquires, Releases

\* Types are kept, the count of attempts included.
LEMMA StepTyped == IInv /\ [Next]_vars => TypeOK'
  <1> SUFFICES ASSUME IInv, [Next]_vars PROVE TypeOK'
    OBVIOUS
  <1> USE LockAssumption
  <1>1. file' \in File
    <2>1. file \in File
      BY DEF IInv, TypeOK
    <2>2. CASE file' = file \/ file' = NoFile
      BY <2>1, <2>2 DEF File
    <2>3. CASE \E d \in Daemon : file' = [by |-> d, filled |-> FALSE, reused |-> FALSE]
      BY <2>3 DEF File
    <2>4. CASE file # NoFile /\ file' = [file EXCEPT !.filled = TRUE]
      BY <2>1, <2>4 DEF File
    <2>5. CASE file # NoFile /\ file' = [file EXCEPT !.reused = TRUE]
      BY <2>1, <2>5 DEF File
    <2>6. QED  BY <2>2, <2>3, <2>4, <2>5, FileChange
  <1> DEFINE Places == {"new", "open", "fill", "read", "stat", "watch", "remove", "held",
                        "closing", "unlink", "refused", "gone", "dead"}
  <1>2. ASSUME NEW d \in Daemon, NEW place \in Places, To(d, place)
        PROVE  at' \in [Daemon -> Places]
    BY <1>2 DEF To, IInv, TypeOK
  <1>3. ASSUME NEW d \in Daemon,
               \/ Start(d) \/ Acquires(d) \/ BeatReads(d) \/ BeatTouches(d)
               \/ Close(d) \/ Releases(d) \/ Crash(d)
        PROVE  at' \in [Daemon -> Places]
    <2> USE <1>2
    <2>1. CASE Start(d) \/ Close(d) \/ Releases(d) \/ Crash(d)
      BY <2>1 DEF Start, Close, Releases, CloseReads, CloseRemoves, Crash
    <2>2. CASE BeatReads(d) \/ BeatTouches(d)
      BY <2>2 DEF BeatReads, BeatTouches, IInv, TypeOK
    <2>3. CASE Create(d) \/ Exists(d) \/ Fill(d) \/ Judge(d)
      BY <2>3 DEF Create, Exists, Fill, Judge
    <2>4. CASE Look(d) \/ FoundDead(d) \/ FoundAlive(d) \/ Remove(d)
      BY <2>4 DEF Look, FoundDead, FoundAlive, Remove
    <2>5. QED  BY <1>3, <2>1, <2>2, <2>3, <2>4 DEF Acquires
  <1>4. ASSUME NEW d \in Daemon,
               \/ Start(d) \/ Acquires(d) \/ BeatReads(d) \/ BeatTouches(d)
               \/ Close(d) \/ Releases(d) \/ Crash(d)
        PROVE  /\ space' \in [Daemon -> Space \cup {Nobody}] /\ moved' \subseteq Daemon
               /\ beat' \in [Daemon -> {"off", "idle", "touch"}]
    <2> USE DEF IInv, TypeOK, Watching
    <2>1. CASE Start(d) \/ Close(d) \/ Releases(d) \/ Crash(d)
      BY <2>1 DEF Start, Close, Releases, CloseReads, CloseRemoves, Crash
    <2>2. CASE BeatReads(d) \/ BeatTouches(d)
      BY <2>2 DEF BeatReads, BeatTouches
    <2>3. CASE Create(d) \/ Exists(d) \/ Fill(d) \/ Judge(d)
      BY <2>3 DEF Create, Exists, Fill, Judge
    <2>4. CASE Look(d) \/ FoundDead(d) \/ FoundAlive(d) \/ Remove(d)
      BY <2>4 DEF Look, FoundDead, FoundAlive, Remove
    <2>5. QED  BY <1>4, <2>1, <2>2, <2>3, <2>4 DEF Acquires
  <1>5. ASSUME NEW d \in Daemon,
               \/ Start(d) \/ Acquires(d) \/ BeatReads(d) \/ BeatTouches(d)
               \/ Close(d) \/ Releases(d) \/ Crash(d)
        PROVE  tries' \in [Daemon -> 0 .. Attempts - 1]
    <2>1. CASE Remove(d)
      BY <2>1 DEF Remove, Exhausted, IInv, TypeOK
    <2>2. CASE Fill(d)
      BY <2>2 DEF Fill, IInv, TypeOK
    <2>3. CASE ~Remove(d) /\ ~Fill(d)
      BY <1>5, <2>3 DEF IInv, TypeOK, Start, Acquires, Create, Exists, Judge, Look, FoundDead,
           FoundAlive, BeatReads, BeatTouches, Close, Releases, CloseReads, CloseRemoves, Crash
    <2>4. QED  BY <2>1, <2>2, <2>3
  <1>6. CASE PidReused \/ UNCHANGED vars
    BY <1>6, <1>1 DEF PidReused, vars, IInv, TypeOK
  <1>7. QED  BY <1>1, <1>3, <1>4, <1>5, <1>6 DEF Next, TypeOK

\* The invariant holds from the start and every step keeps it.
LEMMA Inductive == Spec => []IInv
  <1>1. Init => IInv
    BY LockAssumption DEF Init, IInv, TypeOK, FileOK, File
  <1>2. IInv /\ [Next]_vars => IInv'
    <2> SUFFICES ASSUME IInv, [Next]_vars PROVE FileOK'
      BY StepTyped DEF IInv
    <2>1. TypeOK
      BY DEF IInv
    <2>2. CASE file' = file
      BY <2>1, <2>2, StaysDead, StaysStarted DEF IInv, TypeOK, File, FileOK, Live
    <2>3. CASE file # NoFile /\ file' = [file EXCEPT !.filled = TRUE]
      <3>1. file.by \in Daemon /\ file'.by = file.by /\ file'.reused = file.reused
        BY <2>1, <2>3 DEF TypeOK, File
      <3>2. QED  BY <2>1, <2>3, <3>1, StaysDead, StaysStarted DEF IInv, FileOK, Live
    <2>4. CASE file # NoFile /\ ~Live(file.by) /\ file' = [file EXCEPT !.reused = TRUE]
      <3>1. file.by \in Daemon /\ file'.by = file.by
        BY <2>1, <2>4 DEF TypeOK, File
      <3>2. QED  BY <2>1, <2>4, <3>1, StaysDead, StaysStarted DEF IInv, FileOK, Live
    <2>5. CASE \E d \in Daemon : /\ file = NoFile /\ at'[d] = "fill"
                                 /\ file' = [by |-> d, filled |-> FALSE, reused |-> FALSE]
      BY <2>5 DEF FileOK
    <2>6. CASE file' = NoFile
      BY <2>6 DEF FileOK
    <2>7. QED  BY <2>2, <2>3, <2>4, <2>5, <2>6, FileChange
  <1>3. QED  BY <1>1, <1>2, PTL DEF Spec

\* Every reachable state of the lock is well typed; in particular nobody makes
\* more attempts than allowed (acquireSingleInstanceLock).
THEOREM LockTyped == Spec => []TypeOK
  <1>1. IInv => TypeOK
    BY DEF IInv
  <1>2. QED  BY <1>1, Inductive, PTL

\* While a holder is settled nobody else comes on the way to remove its file.
LEMMA NobodyRemoves ==
  ASSUME IInv, [Next]_vars, NEW d \in Daemon, Settled(d), at'[d] = "held", NEW e \in Daemon
  PROVE  at'[e] \notin {"remove", "unlink"}
  <1>1. file # NoFile /\ file.filled /\ file.by = d /\ Live(d) /\ ~file.reused /\ Named
    BY DEF Settled, Ours, Named, Live, IInv, FileOK
  <1>2. at[e] \notin {"remove", "unlink"}
    BY DEF Settled
  <1>3. ASSUME NEW f \in Daemon, f # e, NEW place, To(f, place) PROVE at'[e] = at[e]
    BY <1>3 DEF To, IInv, TypeOK
  <1>4. ASSUME NEW place, To(e, place) PROVE at'[e] = place
    BY <1>4 DEF To, IInv, TypeOK
  <1>5. ASSUME NEW f \in Daemon, f # e,
               \/ Start(f) \/ Acquires(f) \/ BeatReads(f) \/ BeatTouches(f)
               \/ Close(f) \/ Releases(f) \/ Crash(f)
        PROVE  at'[e] = at[e]
    BY <1>3, <1>5 DEF Start, Acquires, Create, Exists, Fill, Judge, Look, FoundDead,
         FoundAlive, Remove, BeatReads, BeatTouches, Close, Releases, CloseReads,
         CloseRemoves, Crash
  <1>6. CASE Judge(e)
    BY <1>1, <1>4, <1>6 DEF Judge, Shares, PidAlive, Reused
  <1>7. CASE Look(e)
    BY <1>1, <1>4, <1>7 DEF Look
  <1>8. CASE FoundDead(e)
    BY <1>1, <1>8 DEF FoundDead, Outdated
  <1>9. CASE CloseReads(e)
    <2>1. e # d
      BY <1>9 DEF CloseReads, Settled
    <2>2. QED  BY <1>1, <1>4, <1>9, <2>1 DEF CloseReads, Ours
  <1>10. CASE Remove(e) \/ CloseRemoves(e)
    BY <1>2, <1>10 DEF Remove, CloseRemoves
  <1>11. CASE \/ Start(e) \/ Create(e) \/ Exists(e) \/ Fill(e) \/ FoundAlive(e)
              \/ BeatReads(e) \/ BeatTouches(e) \/ Close(e) \/ Crash(e)
    BY <1>2, <1>4, <1>11 DEF Start, Create, Exists, Fill, FoundAlive, BeatReads, BeatTouches,
         Close, Crash
  <1>12. CASE PidReused \/ UNCHANGED vars
    BY <1>2, <1>12 DEF PidReused, vars
  <1>13. QED
    BY <1>2, <1>5, <1>6, <1>7, <1>8, <1>9, <1>10, <1>11, <1>12 DEF Next, Acquires, Releases

\* A settled daemon keeps its home until it leaves it, however many others
\* start, watch, crash or release (acquireSingleInstanceLock, holdLock).
THEOREM SettledKeeps == Spec => SettledKept
  <1>1. ASSUME IInv, [Next]_vars, NEW d \in Daemon, Settled(d), at'[d] = "held"
        PROVE  Settled(d)'
    <2>1. \A e \in Daemon : at'[e] \notin {"remove", "unlink"}
      BY <1>1, NobodyRemoves
    <2>2. file # NoFile /\ file.filled /\ file.by = d /\ Live(d)
      BY <1>1 DEF Settled, Ours, Named, Live
    <2>3. file' # NoFile
      <3>1. ASSUME NEW e \in Daemon PROVE ~Remove(e) /\ ~CloseRemoves(e)
        BY <1>1, <3>1 DEF Settled, Remove, CloseRemoves
      <3>2. \/ file' = file
            \/ file' = [file EXCEPT !.filled = TRUE] \/ file' = [file EXCEPT !.reused = TRUE]
        BY <1>1, <2>2, <3>1 DEF Next, Acquires, Releases, Start, Create, Exists, Fill, Judge,
             Look, FoundDead, FoundAlive, BeatReads, BeatTouches, Close, CloseReads, Crash,
             PidReused, vars
      <3>3. file \in [by : Daemon, filled : BOOLEAN, reused : BOOLEAN]
        BY <1>1, <2>2 DEF IInv, TypeOK, File
      <3>4. file' \in [by : Daemon, filled : BOOLEAN, reused : BOOLEAN]
        BY <3>2, <3>3
      <3>5. QED  BY <3>4, LockAssumption
    <2>4. file'.filled /\ file'.by = d
      BY <1>1, <2>2, <2>3, FileChange DEF IInv, TypeOK, File
    <2>5. QED  BY <1>1, <2>1, <2>3, <2>4 DEF Settled, Ours, Named
  <1>2. IInv /\ [Next]_vars =>
          \A d \in Daemon : Settled(d) /\ at'[d] = "held" => Settled(d)'
    BY <1>1
  <1>3. QED  BY <1>2, Inductive, PTL DEF Spec, SettledKept


-----------------------------------------------------------------------------
(* When the lock is exclusive.                                             *)

\* A removal takes away the file of whoever removes it, or of a dead daemon.
Rightful ==
  \A e \in Daemon :
    Remove(e) \/ CloseRemoves(e) => file = NoFile \/ file.by = e \/ ~Live(file.by)

\* Who created the file and has not left is the one in it.
Owned ==
  \A d \in Daemon :
    at[d] \in {"fill", "held", "closing", "unlink"} => file # NoFile /\ file.by = d


\* Whoever is on the list in Owned after a step was on it before, or creates the
\* file with the step.
LEMMA CameFrom ==
  ASSUME IInv, [Next]_vars, NEW d \in Daemon,
         at'[d] \in {"fill", "held", "closing", "unlink"}
  PROVE  \/ at[d] \in {"fill", "held", "closing", "unlink"}
         \/ file = NoFile /\ file' = [by |-> d, filled |-> FALSE, reused |-> FALSE]
  <1>1. ASSUME NEW e \in Daemon, e # d, NEW place, To(e, place) PROVE at'[d] = at[d]
    BY <1>1 DEF To, IInv, TypeOK
  <1>2. ASSUME NEW place, To(d, place) PROVE at'[d] = place
    BY <1>2 DEF To, IInv, TypeOK
  <1>3. ASSUME NEW e \in Daemon, e # d,
               \/ Start(e) \/ Acquires(e) \/ BeatReads(e) \/ BeatTouches(e)
               \/ Close(e) \/ Releases(e) \/ Crash(e)
        PROVE  at'[d] = at[d]
    BY <1>1, <1>3 DEF Start, Acquires, Create, Exists, Fill, Judge, Look, FoundDead,
         FoundAlive, Remove, BeatReads, BeatTouches, Close, Releases, CloseReads,
         CloseRemoves, Crash
  <1>4. CASE Create(d)
    BY <1>4 DEF Create
  <1>5. CASE Fill(d) \/ Close(d) \/ CloseReads(d)
    BY <1>5 DEF Fill, Close, CloseReads
  <1>6. CASE BeatReads(d) \/ BeatTouches(d) \/ PidReused \/ UNCHANGED vars
    BY <1>6 DEF BeatReads, BeatTouches, PidReused, vars
  <1>7. CASE \/ Start(d) \/ Exists(d) \/ Judge(d) \/ Look(d) \/ FoundDead(d) \/ FoundAlive(d)
             \/ Remove(d) \/ CloseRemoves(d) \/ Crash(d)
    BY <1>2, <1>7 DEF Start, Exists, Judge, Look, FoundDead, FoundAlive, Remove, CloseRemoves,
         Crash
  <1>8. QED
    BY <1>3, <1>4, <1>5, <1>6, <1>7 DEF Next, Acquires, Releases

\* With rightful removals only, the file stays its creator's until that leaves.
LEMMA OwnedStays ==
  ASSUME IInv, Owned, [Next]_vars, Rightful \/ UNCHANGED vars
  PROVE  Owned'
  <1> SUFFICES ASSUME NEW d \in Daemon, at'[d] \in {"fill", "held", "closing", "unlink"}
               PROVE  file' # NoFile /\ file'.by = d
    BY DEF Owned
  <1>1. CASE file = NoFile /\ file' = [by |-> d, filled |-> FALSE, reused |-> FALSE]
    <2>1. file' \in [by : Daemon, filled : BOOLEAN, reused : BOOLEAN] /\ file'.by = d
      BY <1>1
    <2>2. QED  BY <2>1, LockAssumption
  <1>2. CASE at[d] \in {"fill", "held", "closing", "unlink"}
    <2>1. file # NoFile /\ file.by = d /\ Live(d)
      BY <1>2 DEF Owned, Live
    <2>2. file \in [by : Daemon, filled : BOOLEAN, reused : BOOLEAN]
      BY <2>1 DEF IInv, TypeOK, File
    <2>3. \/ file' = [file EXCEPT !.filled = TRUE] \/ file' = [file EXCEPT !.reused = TRUE]
          \/ file' = file
          => file' # NoFile /\ file'.by = d
      BY <2>1, <2>2, LockAssumption
    <2>4. ASSUME NEW e \in Daemon, Remove(e) \/ CloseRemoves(e) PROVE FALSE
      <3>1. CASE UNCHANGED vars
        BY <2>1, <2>4, <3>1 DEF Remove, CloseRemoves, vars
      <3>2. CASE Rightful
        <4>1. e = d
          BY <2>1, <2>4, <3>2 DEF Rightful
        <4>2. at[d] = "unlink" /\ at'[d] = "gone"
          BY <1>2, <2>4, <4>1 DEF Remove, CloseRemoves, To, IInv, TypeOK
        <4>3. QED  BY <4>2
      <3>3. QED  BY <3>1, <3>2
    <2>5. ASSUME NEW e \in Daemon PROVE ~Create(e)
      BY <2>1 DEF Create
    <2>6. \/ file' = [file EXCEPT !.filled = TRUE] \/ file' = [file EXCEPT !.reused = TRUE]
          \/ file' = file
      BY <2>4, <2>5 DEF Next, Acquires, Releases, Start, Exists, Fill, Judge, Look, FoundDead,
           FoundAlive, BeatReads, BeatTouches, Close, CloseReads, Crash, PidReused, vars
    <2>7. QED  BY <2>3, <2>6
  <1>3. QED  BY <1>1, <1>2, CameFrom

\* The one way two daemons come to hold a home is that the file of a live one is
\* removed under it: while every removal is rightful, at most one holds it
\* (rm after a judgement that has gone stale, acquireSingleInstanceLock).
THEOREM ExclusiveWhileRightful ==
  Spec /\ [][Rightful]_vars => []SingleDaemon
  <1>1. Init => Owned
    BY DEF Init, Owned
  <1>2. IInv /\ Owned /\ [Next]_vars /\ [Rightful]_vars => Owned'
    BY OwnedStays
  <1>3. Owned => SingleDaemon
    BY DEF Owned, SingleDaemon
  <1>4. QED  BY <1>1, <1>2, <1>3, Inductive, PTL DEF Spec

=============================================================================
