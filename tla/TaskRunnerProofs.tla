-------------------------- MODULE TaskRunnerProofs --------------------------
(***************************************************************************)
(* For any tasks, steps, widths and bounds: the runner is well typed and   *)
(* queues no handoff twice, no activation is dispatched over its own       *)
(* worker, and a task falls out of all hands only where KeptInHand says    *)
(* so.                                                                     *)
(*                                                                         *)
(* What carries it: the lists of a pass are apart and come from the queue  *)
(* it copied (WalkApart); whoever names an activation in a queue names one *)
(* that was written (ActsWritten), so a new one is new to all; what a pass *)
(* let through has no dispatch (GoUntracked); and whatever waits in a      *)
(* session runs under the binding of its turn (OneBinding).                *)
(***************************************************************************)
EXTENDS TaskRunner, DataFacts, TLAPS

Prefix == Range(SubSeq(pending, 1, pass.size))

WalkApart ==
  /\ IsInjective(pass.todo) /\ IsInjective(pass.go) /\ IsInjective(pass.keep)
  /\ Range(pass.todo) \cap Range(pass.go) = {}
  /\ (Range(pass.todo) \cup Range(pass.go)) \cap Range(pass.keep) = {}
  /\ Range(pass.todo) \cup Range(pass.go) \cup Range(pass.keep) \subseteq Prefix

Written(h) == h.act <= disk[h.task].last[h.step]

ActsWritten ==
  /\ \A t \in Task : disk[t].last[disk[t].step] # 0
  /\ \A t \in Task, s \in Step : disk[t].last[s] <= disk[t].newest
  /\ \A h \in due \cup Range(pending) \cup DOMAIN tracked : Written(h)

GoUntracked == Range(pass.go) \cap DOMAIN tracked = {}

OneBinding == \A x \in Session : \A a, b \in Bindings(x) : a = b

IInv == TypeOK /\ WalkApart /\ ActsWritten /\ GoUntracked /\ OneBinding

-----------------------------------------------------------------------------
(* What is on disk.                                                        *)

LEMMA CurrentTyped ==
  ASSUME TypeOK, ActsWritten, NEW t \in Task
  PROVE  Current(t) \in Handoff /\ Current(t).task = t /\ Written(Current(t))
  <1>1. disk[t] \in Records /\ disk[t].last[disk[t].step] # 0
    BY DEF TypeOK, ActsWritten
  <1>2. disk[t].step \in Step /\ disk[t].last[disk[t].step] \in Act
    BY <1>1 DEF Records
  <1>3. QED  BY <1>2 DEF Current, At, Handoff, Written, Act

\* A step that was activated has its newest activation on disk.
LEMMA AtTyped ==
  ASSUME TypeOK, NEW h \in Handoff, Written(h)
  PROVE  At(h.task, h.step) \in Handoff
  <1>1. /\ h.task \in Task /\ h.step \in Step /\ h.act \in Nat \ {0}
        /\ disk[h.task].last[h.step] \in Act \cup {0}
    BY DEF TypeOK, Handoff, Records, Act
  <1>2. disk[h.task].last[h.step] \in Act
    BY <1>1 DEF Written, Act
  <1>3. QED  BY <1>1, <1>2 DEF At, Handoff

\* A change of status or resumes alone.
SamePlaces ==
  \A t \in Task : /\ disk'[t].step = disk[t].step /\ disk'[t].last = disk[t].last
                  /\ disk'[t].newest = disk[t].newest

\* What depends on places and activations is unchanged when they are.
LEMMA SamePlacesFacts ==
  ASSUME TypeOK, ActsWritten, SamePlaces
  PROVE  /\ \A t \in Task : Current(t)' = Current(t)
         /\ \A h \in Handoff : Written(h)' = Written(h)
         /\ \A t \in Task : disk'[t].last[disk'[t].step] # 0
         /\ \A t \in Task, s \in Step : disk'[t].last[s] <= disk'[t].newest
  <1>1. \A t \in Task : Current(t)' = Current(t)
    BY DEF SamePlaces, Current, At
  <1>2. \A h \in Handoff : Written(h)' = Written(h)
    BY DEF SamePlaces, Written, Handoff
  <1>3. QED  BY <1>1, <1>2 DEF SamePlaces, ActsWritten

LEMMA StatusFacts ==
  ASSUME TypeOK, NEW t \in Task, NEW status \in Statuses
  PROVE  /\ WithStatus(t, status) \in [Task -> Records]
         /\ WithStatus(t, status)[t].status = status
         /\ WithStatus(t, status)[t].step = disk[t].step
         /\ WithStatus(t, status)[t].last = disk[t].last
         /\ WithStatus(t, status)[t].newest = disk[t].newest
         /\ \A u \in Task \ {t} : WithStatus(t, status)[u] = disk[u]
         /\ disk' = WithStatus(t, status) => SamePlaces
  <1> DEFINE new == [disk[t] EXCEPT !.status = status]
  <1>1. disk \in [Task -> Records] /\ disk[t] \in Records
    BY DEF TypeOK
  <1>2. WithStatus(t, status) = [disk EXCEPT ![t] = new]
    BY <1>1 DEF WithStatus, Records
  <1>3. /\ new \in Records /\ new.status = status /\ new.step = disk[t].step
        /\ new.last = disk[t].last /\ new.newest = disk[t].newest
    BY <1>1 DEF Records
  <1>4. QED  BY <1>1, <1>2, <1>3 DEF SamePlaces

LEMMA ActivatedFacts ==
  ASSUME TypeOK, NEW t \in Task, NEW s \in Step, disk[t].newest < Activations
  PROVE  LET d == Activated(t, s)
             n == disk[t].newest + 1
         IN  /\ d \in [Task -> Records] /\ Wakes(t, s) \in Handoff
             /\ \A u \in Task \ {t} : d[u] = disk[u]
             /\ d[t].step = s /\ d[t].newest = n /\ d[t].status = disk[t].status
             /\ d[t].last = [disk[t].last EXCEPT ![s] = n]
  <1> DEFINE n == disk[t].newest + 1
             new == [disk[t] EXCEPT !.step = s, !.newest = n,
                                    !.last = [disk[t].last EXCEPT ![s] = n], !.resumes = 0]
  <1>1. disk \in [Task -> Records] /\ disk[t] \in Records
    BY DEF TypeOK
  <1>2. n \in Act
    BY <1>1, RunnerAssumption DEF Records, Act
  <1>3. Activated(t, s) = [disk EXCEPT ![t] = new]
    BY <1>1 DEF Activated, Records
  <1>4. [disk[t].last EXCEPT ![s] = n] \in [Step -> Act \cup {0}]
    BY <1>1, <1>2 DEF Records
  <1>5. 0 \in 0 .. MaxResumes + 1
    BY RunnerAssumption
  <1>6. DOMAIN disk[t] = {"status", "step", "newest", "last", "resumes"}
    BY <1>1 DEF Records
  <1>7. /\ new.step = s /\ new.newest = n /\ new.status = disk[t].status
        /\ new.last = [disk[t].last EXCEPT ![s] = n] /\ new.resumes = 0
    BY <1>6
  <1>8. new \in Records
    BY <1>1, <1>2, <1>4, <1>5 DEF Records
  <1>9. Wakes(t, s) \in Handoff
    BY <1>2 DEF Wakes, Handoff
  <1>10. QED  BY <1>1, <1>3, <1>7, <1>8, <1>9

\* A new activation is written, and was named by nobody.
LEMMA MovedFacts ==
  ASSUME TypeOK, ActsWritten, NEW t \in Task, NEW s \in Step, disk[t].newest < Activations,
         disk' = Activated(t, s)
  PROVE  /\ Wakes(t, s) \in Handoff /\ ~Written(Wakes(t, s))
         /\ \A h : h = Wakes(t, s) => Written(h)'
         /\ Current(t)' = Wakes(t, s) /\ \A u \in Task \ {t} : Current(u)' = Current(u)
         /\ \A u \in Task : Active(u)' = Active(u)
         /\ \A h \in Handoff : Written(h) => Written(h)'
         /\ \A u \in Task : disk'[u].last[disk'[u].step] # 0
         /\ \A u \in Task, r \in Step : disk'[u].last[r] <= disk'[u].newest
  <1> DEFINE n == disk[t].newest + 1
  <1>1. /\ disk' \in [Task -> Records] /\ Wakes(t, s) \in Handoff
        /\ \A u \in Task \ {t} : disk'[u] = disk[u]
        /\ disk'[t].step = s /\ disk'[t].newest = n /\ disk'[t].status = disk[t].status
        /\ disk'[t].last = [disk[t].last EXCEPT ![s] = n]
    BY ActivatedFacts
  <1>2. /\ disk[t].newest \in Nat /\ disk[t].last \in [Step -> Nat]
        /\ \A r \in Step : disk[t].last[r] <= disk[t].newest
    BY DEF TypeOK, Records, Act, ActsWritten
  <1>3. Wakes(t, s).task = t /\ Wakes(t, s).step = s /\ Wakes(t, s).act = n
    BY DEF Wakes
  <1>4. disk'[t].last[s] = n /\ \A r \in Step \ {s} : disk'[t].last[r] = disk[t].last[r]
    BY <1>1, <1>2
  <1>5. ~Written(Wakes(t, s)) /\ \A h : h = Wakes(t, s) => Written(h)'
    BY <1>2, <1>3, <1>4 DEF Written
  <1>6. Current(t)' = Wakes(t, s) /\ \A u \in Task \ {t} : Current(u)' = Current(u)
    BY <1>1, <1>4 DEF Current, At, Wakes
  <1>7. \A h \in Handoff : Written(h) => Written(h)'
    BY <1>1, <1>2, <1>4 DEF Written, Handoff, Act
  <1>9. \A u \in Task : Active(u)' = Active(u)
    BY <1>1 DEF Active
  <1>10. \A u \in Task : disk'[u].last[disk'[u].step] # 0
    BY <1>1, <1>2, <1>4 DEF ActsWritten
  <1>11. \A u \in Task, r \in Step : disk'[u].last[r] <= disk'[u].newest
    <2>1. \A r \in Step : disk'[t].last[r] <= disk'[t].newest
      BY <1>1, <1>2, <1>4
    <2>2. QED  BY <2>1, <1>1 DEF ActsWritten
  <1>12. QED  BY <1>1, <1>5, <1>6, <1>7, <1>9, <1>10, <1>11

-----------------------------------------------------------------------------
(* Steps outside the pass.                                                 *)

LEMMA QueuedFacts ==
  ASSUME TypeOK, NEW h \in Handoff
  PROVE  /\ Queued(h) \in Seq(Handoff) /\ IsInjective(Queued(h))
         /\ Range(Queued(h)) = Range(pending) \cup {h}
         /\ pass.size <= Len(Queued(h))
         /\ SubSeq(Queued(h), 1, pass.size) = SubSeq(pending, 1, pass.size)
  <1>1. pending \in Seq(Handoff) /\ IsInjective(pending) /\ pass.size \in 0 .. Len(pending)
    BY DEF TypeOK, Passes
  <1>2. CASE h \in Range(pending)
    BY <1>1, <1>2 DEF Queued
  <1>3. CASE h \notin Range(pending)
    BY <1>1, <1>3, AppendFacts DEF Queued
  <1>4. QED  BY <1>2, <1>3

LEMMA UpsetTyped ==
  ASSUME TypeOK, Upset
  PROVE  upsets' \in 0 .. Upsets
  BY RunnerAssumption DEF TypeOK, Upset

\* A step that changes no task's place, dispatch or binding keeps the invariant
\* if it does so for the queue and the pass.
LEMMA PreservedElsewhere ==
  ASSUME IInv, TypeOK', WalkApart', SamePlaces, UNCHANGED <<tracked, working, sends>>,
         \A h \in due' \cup Range(pending') : Written(h), GoUntracked'
  PROVE  IInv'
  <1> USE DEF IInv
  <1>1. /\ \A h \in Handoff : Written(h)' = Written(h)
        /\ \A t \in Task : disk'[t].last[disk'[t].step] # 0
        /\ \A t \in Task, s \in Step : disk'[t].last[s] <= disk'[t].newest
    BY SamePlacesFacts
  <1>2. /\ due' \subseteq Handoff /\ pending' \in Seq(Handoff) /\ DOMAIN tracked \subseteq Handoff
    BY DEF TypeOK
  <1>3. Range(pending') \subseteq Handoff
    BY <1>2 DEF Range
  <1>4. ActsWritten'
    BY <1>1, <1>2, <1>3 DEF ActsWritten
  <1>5. OneBinding'
    BY DEF OneBinding, Bindings
  <1>6. QED  BY <1>4, <1>5

\* Steps that leave the pass alone and add to the queue at most.
LEMMA OutsidePass ==
  ASSUME IInv, SamePlaces, UNCHANGED <<held, pass, tracked, sends, working, given>>,
         disk' \in [Task -> Records], due' \subseteq due, upsets' \in 0 .. Upsets,
         scan' \in [boot : SUBSET Task, live : SUBSET Task],
         \/ pending' = pending
         \/ \E h \in Handoff : Written(h) /\ pending' = Queued(h)
  PROVE  IInv'
  <1> USE DEF IInv
  <1>1. /\ pending' \in Seq(Handoff) /\ IsInjective(pending')
        /\ \A h \in Range(pending') : h \in Range(pending) \/ Written(h)
        /\ pass.size <= Len(pending')
        /\ SubSeq(pending', 1, pass.size) = SubSeq(pending, 1, pass.size)
    <2>1. CASE pending' = pending
      BY <2>1 DEF TypeOK
    <2>2. CASE \E h \in Handoff : Written(h) /\ pending' = Queued(h)
      <3>1. PICK h \in Handoff : Written(h) /\ pending' = Queued(h)
        BY <2>2
      <3>2. QED  BY <3>1, QueuedFacts
    <2>3. QED  BY <2>1, <2>2
  <1>2. TypeOK'
    BY <1>1 DEF TypeOK
  <1>3. WalkApart' /\ GoUntracked'
    BY <1>1 DEF WalkApart, Prefix, GoUntracked
  <1>4. QED  BY <1>1, <1>2, <1>3, PreservedElsewhere DEF ActsWritten

LEMMA PeopleKeep ==
  ASSUME IInv, NEW t \in Task, Pause(t) \/ Resume(t) \/ Rehydrate(t)
  PROVE  IInv'
  <1> USE DEF IInv
  <1>1. /\ disk \in [Task -> Records] /\ scan \in [boot : SUBSET Task, live : SUBSET Task]
        /\ [scan EXCEPT !.live = @ \cup {t}] \in [boot : SUBSET Task, live : SUBSET Task]
        /\ upsets \in 0 .. Upsets
    BY DEF TypeOK
  <1>2. CASE Pause(t)
    <2>1. SamePlaces /\ disk' \in [Task -> Records]
      BY <1>2, StatusFacts DEF Pause, Statuses
    <2>2. upsets' \in 0 .. Upsets
      BY <1>2, UpsetTyped DEF Pause
    <2>3. QED  BY <1>1, <1>2, <2>1, <2>2, OutsidePass DEF Pause
  <1>3. CASE Resume(t)
    <2>1. PICK fresh \in BOOLEAN :
            disk' = [WithStatus(t, "active") EXCEPT ![t].resumes = IF fresh THEN 0 ELSE @]
      BY <1>3 DEF Resume
    <2>2. /\ WithStatus(t, "active") \in [Task -> Records] /\ 0 \in 0 .. MaxResumes + 1
          /\ \A u \in Task \ {t} : WithStatus(t, "active")[u] = disk[u]
          /\ WithStatus(t, "active")[t].step = disk[t].step
          /\ WithStatus(t, "active")[t].last = disk[t].last
          /\ WithStatus(t, "active")[t].newest = disk[t].newest
      BY StatusFacts, RunnerAssumption DEF Statuses
    <2>3. SamePlaces /\ disk' \in [Task -> Records]
      BY <2>1, <2>2 DEF SamePlaces, Records
    <2>4. QED  BY <1>1, <1>3, <2>3, OutsidePass DEF Resume
  <1>4. CASE Rehydrate(t)
    <2>1. SamePlaces
      BY <1>4 DEF Rehydrate, SamePlaces
    <2>2. Current(t) \in Handoff /\ Written(Current(t)) /\ pending' = Queued(Current(t))
      BY <1>4, CurrentTyped DEF Rehydrate
    <2>3. upsets' \in 0 .. Upsets
      BY <1>4, UpsetTyped DEF Rehydrate
    <2>4. QED  BY <1>1, <1>4, <2>1, <2>2, <2>3, OutsidePass DEF Rehydrate
  <1>5. QED  BY <1>2, <1>3, <1>4

LEMMA FeedsKeep ==
  ASSUME IInv, Feeds
  PROVE  IInv'
  <1> USE DEF IInv
  <1>1. /\ disk \in [Task -> Records] /\ due \subseteq Handoff /\ upsets \in 0 .. Upsets
        /\ scan \in [boot : SUBSET Task, live : SUBSET Task]
    BY DEF TypeOK
  <1>2. ASSUME NEW t \in Task, Rescan(t) PROVE IInv'
    <2>1. SamePlaces /\ [scan EXCEPT !.live = @ \ {t}] \in [boot : SUBSET Task, live : SUBSET Task]
      BY <1>1, <1>2 DEF Rescan, SamePlaces
    <2>2. Current(t) \in Handoff /\ Written(Current(t))
      BY CurrentTyped
    <2>3. pending' = pending \/ pending' = Queued(Current(t))
      BY <1>2 DEF Rescan
    <2>4. QED  BY <1>1, <1>2, <2>1, <2>2, <2>3, OutsidePass DEF Rescan
  <1>3. ASSUME NEW t \in Task, BootScan(t) PROVE IInv'
    <2>1. [scan EXCEPT !.boot = @ \ {t}] \in [boot : SUBSET Task, live : SUBSET Task]
      BY <1>1
    <2>2. Current(t) \in Handoff /\ Written(Current(t))
      BY CurrentTyped
    <2>3. SamePlaces /\ disk' \in [Task -> Records]
      <3>1. CASE UNCHANGED disk
        BY <1>1, <3>1 DEF SamePlaces
      <3>2. CASE disk' = Exhausted(t)
        <4>1. /\ WithStatus(t, "paused") \in [Task -> Records]
              /\ MaxResumes + 1 \in 0 .. MaxResumes + 1
              /\ \A u \in Task \ {t} : WithStatus(t, "paused")[u] = disk[u]
              /\ WithStatus(t, "paused")[t].step = disk[t].step
              /\ WithStatus(t, "paused")[t].last = disk[t].last
              /\ WithStatus(t, "paused")[t].newest = disk[t].newest
          BY StatusFacts, RunnerAssumption DEF Statuses
        <4>2. QED  BY <3>2, <4>1 DEF Exhausted, SamePlaces, Records
      <3>3. CASE disk[t].resumes < MaxResumes /\ disk' = [disk EXCEPT ![t].resumes = @ + 1]
        <4>1. disk[t].resumes + 1 \in 0 .. MaxResumes + 1
          BY <1>1, <3>3, RunnerAssumption DEF Records
        <4>2. QED  BY <1>1, <3>3, <4>1 DEF SamePlaces, Records
      <3>4. QED  BY <1>3, <3>1, <3>2, <3>3 DEF BootScan
    <2>4. pending' = pending \/ pending' = Queued(Current(t))
      BY <1>3 DEF BootScan
    <2>5. QED  BY <1>1, <1>3, <2>1, <2>2, <2>3, <2>4, OutsidePass DEF BootScan
  <1>4. ASSUME NEW h \in due, Enqueue(h) \/ Declines(h) PROVE IInv'
    <2>1. SamePlaces /\ Written(h) /\ h \in Handoff
      BY <1>1, <1>4 DEF Enqueue, Declines, SamePlaces, ActsWritten
    <2>2. CASE Enqueue(h)  BY <1>1, <2>1, <2>2, OutsidePass DEF Enqueue
    <2>3. CASE Declines(h)  BY <1>1, <2>1, <2>3, OutsidePass DEF Declines
    <2>4. QED  BY <1>4, <2>2, <2>3
  <1>5. ASSUME NEW t \in Task, PassesOver(t) PROVE IInv'
    <2>1. SamePlaces /\ scan' \in [boot : SUBSET Task, live : SUBSET Task]
      BY <1>1, <1>5 DEF PassesOver, SamePlaces
    <2>2. QED  BY <1>1, <1>5, <2>1, OutsidePass DEF PassesOver
  <1>6. QED  BY <1>2, <1>3, <1>4, <1>5 DEF Feeds

LEMMA CompleteKeeps ==
  ASSUME IInv, NEW x \in DOMAIN working, Complete(x)
  PROVE  IInv'
  <1> USE DEF IInv
  <1>1. /\ working[x].task \in Task /\ scan \in [boot : SUBSET Task, live : SUBSET Task]
        /\ upsets \in 0 .. Upsets
    BY DEF TypeOK, Handoff
  <1>2. SamePlaces /\ disk' \in [Task -> Records]
    BY <1>1, StatusFacts DEF Complete, Statuses
  <1>3. QED  BY <1>1, <1>2, OutsidePass DEF Complete

-----------------------------------------------------------------------------
(* The steps of a tick that dispatch nothing.                              *)

\* Steps of the pass alone.
LEMMA InsidePass ==
  ASSUME IInv, SamePlaces, UNCHANGED <<pending, scan, due, tracked, sends, working, given>>,
         disk' \in [Task -> Records], WalkApart', GoUntracked',
         held' \subseteq Handoff, upsets' \in 0 .. Upsets,
         pass' \in Passes, pass'.size <= Len(pending)
  PROVE  IInv'
  <1>1. TypeOK'
    BY DEF IInv, TypeOK
  <1>2. QED  BY <1>1, PreservedElsewhere DEF IInv, ActsWritten

LEMMA NothingInjective ==
  IsInjective(<<>>) /\ Range(<<>>) = {} /\ \A S : <<>> \in Seq(S)
  BY DEF IsInjective, Range

\* A pass that has no list yet.
LEMMA EmptyApart ==
  ASSUME pass'.todo = <<>>, pass'.go = <<>>, pass'.keep = <<>>
  PROVE  WalkApart' /\ GoUntracked'
  BY NothingInjective DEF WalkApart, GoUntracked

\* What a walk knows of its lists: they hold handoffs that wait, each once.
LEMMA WalkFacts ==
  ASSUME IInv
  PROVE  /\ pass.todo \in Seq(Handoff) /\ pass.go \in Seq(Handoff) /\ pass.keep \in Seq(Handoff)
         /\ Prefix \subseteq Range(pending) /\ \A h \in Prefix : h \in Handoff /\ Written(h)
         /\ pass.size \in 0 .. Len(pending) /\ pass \in Passes /\ disk \in [Task -> Records]
         /\ held \subseteq Handoff /\ upsets \in 0 .. Upsets
  <1>1. /\ pending \in Seq(Handoff) /\ pass.size \in 0 .. Len(pending) /\ pass \in Passes
        /\ disk \in [Task -> Records] /\ held \subseteq Handoff /\ upsets \in 0 .. Upsets
    BY DEF IInv, TypeOK, Passes
  <1>2. Prefix \subseteq Range(pending)
    BY <1>1, CutFacts DEF Prefix
  <1>3. Range(pending) \subseteq Handoff
    BY <1>1 DEF Range
  <1>4. QED  BY <1>1, <1>2, <1>3 DEF IInv, ActsWritten, Passes

LEMMA TickKeeps ==
  ASSUME IInv, Tick \/ Rests \/ (\E h \in DOMAIN tracked : PruneReads(h))
  PROVE  IInv'
  <1> USE DEF IInv
  <1>1. /\ disk \in [Task -> Records] /\ pass \in Passes /\ DOMAIN tracked \subseteq Handoff
        /\ held \subseteq Handoff /\ upsets \in 0 .. Upsets
        /\ tracked \in [DOMAIN tracked -> Session] /\ pass.size <= Len(pending)
        /\ Len(pending) \in Nat
    BY DEF TypeOK
  <1>2. Idle \in Passes
    BY NothingInjective DEF Idle, Passes
  <1>3. CASE Tick
    <2>1. /\ pass' \in Passes /\ pass'.size = 0
          /\ pass'.todo = <<>> /\ pass'.go = <<>> /\ pass'.keep = <<>>
      BY <1>1, <1>3, NothingInjective DEF Tick, Idle, Passes
    <2>2. SamePlaces
      BY <1>3 DEF Tick, SamePlaces
    <2>3. QED  BY <1>1, <1>3, <2>1, <2>2, EmptyApart, InsidePass DEF Tick
  <1>4. CASE Rests
    <2>1. /\ pass' \in Passes /\ pass'.size = 0
          /\ pass'.todo = <<>> /\ pass'.go = <<>> /\ pass'.keep = <<>>
      BY <1>2, <1>4 DEF Rests, Idle
    <2>2. SamePlaces
      BY <1>4 DEF Rests, SamePlaces
    <2>3. QED  BY <1>1, <1>4, <2>1, <2>2, EmptyApart, InsidePass DEF Rests
  <1>5. ASSUME NEW h \in DOMAIN tracked, PruneReads(h) PROVE IInv'
    <2>1. [key |-> h, session |-> tracked[h]] \in [key : Handoff, session : Session]
      BY <1>1
    <2>2. /\ pass' \in Passes /\ pass'.size = pass.size
          /\ pass'.todo = pass.todo /\ pass'.go = pass.go /\ pass'.keep = pass.keep
      BY <1>1, <1>5, <2>1 DEF PruneReads, Passes
    <2>3. SamePlaces
      BY <1>5 DEF PruneReads, SamePlaces
    <2>4. WalkApart' /\ GoUntracked'
      BY <1>5, <2>2 DEF PruneReads, WalkApart, Prefix, GoUntracked
    <2>5. QED  BY <1>1, <1>5, <2>2, <2>3, <2>4, InsidePass DEF PruneReads
  <1>6. QED  BY <1>3, <1>4, <1>5

LEMMA SnapshotKeeps ==
  ASSUME IInv, Snapshot
  PROVE  IInv'
  <1> USE DEF IInv
  <1>1. /\ disk \in [Task -> Records] /\ pending \in Seq(Handoff) /\ IsInjective(pending)
        /\ held \subseteq Handoff /\ upsets \in 0 .. Upsets /\ Len(pending) \in Nat
    BY DEF TypeOK
  <1>2. /\ pass' \in Passes /\ pass'.size = Len(pending)
        /\ pass'.todo = pending /\ pass'.go = <<>> /\ pass'.keep = <<>>
    BY <1>1, NothingInjective DEF Snapshot, Idle, Passes
  <1>3. UNCHANGED pending /\ SubSeq(pending, 1, Len(pending)) = pending
    BY <1>1 DEF Snapshot
  <1>4. WalkApart' /\ GoUntracked'
    BY <1>1, <1>2, <1>3, NothingInjective DEF WalkApart, Prefix, GoUntracked
  <1>5. SamePlaces
    BY DEF Snapshot, SamePlaces
  <1>6. QED  BY <1>1, <1>2, <1>4, <1>5, InsidePass DEF Snapshot

\* The next handoff of the pre-pass is dropped, let through or kept.
LEMMA CheckedOn ==
  ASSUME IInv, NEW h, Checking(h), UNCHANGED <<pending, tracked>>,
         \/ pass' = [pass EXCEPT !.todo = Tail(@)]
         \/ h \notin DOMAIN tracked
            /\ pass' = [pass EXCEPT !.todo = Tail(@), !.go = Append(@, h)]
         \/ pass' = [pass EXCEPT !.todo = Tail(@), !.keep = Append(@, h)]
  PROVE  /\ WalkApart' /\ GoUntracked' /\ pass' \in Passes
         /\ pass'.at = pass.at /\ pass'.size = pass.size
         /\ Range(pass'.todo) = Range(pass.todo) \ {h}
         /\ Range(pass.go) \subseteq Range(pass'.go) /\ Range(pass.keep) \subseteq Range(pass'.keep)
  <1>1. /\ h \in Handoff /\ Tail(pass.todo) \in Seq(Handoff) /\ IsInjective(Tail(pass.todo))
        /\ Range(pass.todo) = {h} \cup Range(Tail(pass.todo)) /\ h \notin Range(Tail(pass.todo))
    BY WalkFacts, TailFacts DEF Checking, IInv, WalkApart
  <1>2. /\ IsInjective(pass.todo) /\ IsInjective(pass.go) /\ IsInjective(pass.keep)
        /\ Range(pass.todo) \cap Range(pass.go) = {}
        /\ (Range(pass.todo) \cup Range(pass.go)) \cap Range(pass.keep) = {}
        /\ Range(pass.todo) \cup Range(pass.go) \cup Range(pass.keep) \subseteq Prefix
        /\ Range(pass.go) \cap DOMAIN tracked = {}
    BY DEF IInv, WalkApart, GoUntracked
  <1>3. /\ Append(pass.go, h) \in Seq(Handoff) /\ Range(Append(pass.go, h)) = Range(pass.go) \cup {h}
        /\ IsInjective(Append(pass.go, h))
    BY <1>1, <1>2, WalkFacts, AppendFacts
  <1>4. /\ Append(pass.keep, h) \in Seq(Handoff)
        /\ Range(Append(pass.keep, h)) = Range(pass.keep) \cup {h} /\ IsInjective(Append(pass.keep, h))
    BY <1>1, <1>2, WalkFacts, AppendFacts
  <1>5. /\ pass' \in Passes /\ pass'.at = pass.at /\ pass'.size = pass.size
        /\ pass'.todo = Tail(pass.todo)
        /\ \/ pass'.go = pass.go /\ pass'.keep = pass.keep
           \/ pass'.go = Append(pass.go, h) /\ pass'.keep = pass.keep /\ h \notin DOMAIN tracked
           \/ pass'.go = pass.go /\ pass'.keep = Append(pass.keep, h)
    BY <1>1, <1>3, <1>4, WalkFacts DEF Passes
  <1>6. Prefix' = Prefix
    BY <1>5 DEF Prefix
  <1>7. /\ IsInjective(pass'.todo) /\ IsInjective(pass'.go) /\ IsInjective(pass'.keep)
        /\ Range(pass'.todo) = Range(pass.todo) \ {h} /\ h \in Range(pass.todo)
        /\ \/ Range(pass'.go) = Range(pass.go) /\ Range(pass'.keep) = Range(pass.keep)
           \/ /\ Range(pass'.go) = Range(pass.go) \cup {h} /\ Range(pass'.keep) = Range(pass.keep)
              /\ h \notin DOMAIN tracked
           \/ Range(pass'.go) = Range(pass.go) /\ Range(pass'.keep) = Range(pass.keep) \cup {h}
    BY <1>1, <1>2, <1>3, <1>4, <1>5
  <1>8. WalkApart'
    BY <1>2, <1>6, <1>7 DEF WalkApart
  <1>9. GoUntracked'
    BY <1>2, <1>7 DEF GoUntracked
  <1>10. QED  BY <1>5, <1>7, <1>8, <1>9

LEMMA ChecksKeep ==
  ASSUME IInv, NEW h, Checks(h)
  PROVE  IInv'
  <1>1. /\ Checking(h) /\ UNCHANGED <<disk, pending, held, scan, due, tracked, sends, working, given>>
        /\ \/ pass' = [pass EXCEPT !.todo = Tail(@)]
           \/ h \notin DOMAIN tracked
              /\ pass' = [pass EXCEPT !.todo = Tail(@), !.go = Append(@, h)]
           \/ pass' = [pass EXCEPT !.todo = Tail(@), !.keep = Append(@, h)]
    <2>1. CASE Check(h)
      <3>1. CASE Valid(h)  BY <2>1, <3>1 DEF Check, Valid
      <3>2. CASE ~Valid(h)
        <4>1. pass' = [pass EXCEPT !.todo = Tail(@)]
          BY <2>1, <3>2, WalkFacts DEF Check, Passes
        <4>2. QED  BY <2>1, <4>1 DEF Check
      <3>3. QED  BY <3>1, <3>2
    <2>2. CASE Unread(h)  BY <2>2 DEF Unread
    <2>3. CASE Unprepared(h)  BY <2>3 DEF Unprepared
    <2>4. QED  BY <2>1, <2>2, <2>3 DEF Checks
  <1>2. upsets' \in 0 .. Upsets
    BY WalkFacts, UpsetTyped DEF Checks, Check, Unread, Unprepared, IInv
  <1>3. WalkApart' /\ GoUntracked' /\ pass' \in Passes /\ pass'.size = pass.size
    BY <1>1, CheckedOn
  <1>4. SamePlaces
    BY <1>1 DEF SamePlaces
  <1>5. QED  BY <1>1, <1>2, <1>3, <1>4, WalkFacts, InsidePass

\* The next handoff of the dispatch loop is dropped, dispatched or kept.
LEMMA DecidedOn ==
  ASSUME IInv, NEW h, Deciding(h), UNCHANGED pending,
         DOMAIN tracked' \subseteq DOMAIN tracked \cup {h},
         \/ pass' = [pass EXCEPT !.go = Tail(@)]
         \/ pass' = [pass EXCEPT !.go = Tail(@), !.started = @ + 1]
         \/ pass' = [pass EXCEPT !.go = Tail(@), !.keep = Append(@, h)]
  PROVE  /\ WalkApart' /\ GoUntracked' /\ pass' \in Passes /\ h \in Prefix /\ h \notin DOMAIN tracked
         /\ pass'.at = pass.at /\ pass'.size = pass.size /\ pass'.todo = pass.todo
         /\ Range(pass'.go) = Range(pass.go) \ {h}
         /\ Range(pass.keep) \subseteq Range(pass'.keep)
  <1>1. /\ h \in Handoff /\ Tail(pass.go) \in Seq(Handoff) /\ IsInjective(Tail(pass.go))
        /\ Range(pass.go) = {h} \cup Range(Tail(pass.go)) /\ h \notin Range(Tail(pass.go))
    BY WalkFacts, TailFacts DEF Deciding, IInv, WalkApart
  <1>2. /\ IsInjective(pass.todo) /\ IsInjective(pass.go) /\ IsInjective(pass.keep)
        /\ Range(pass.todo) \cap Range(pass.go) = {}
        /\ (Range(pass.todo) \cup Range(pass.go)) \cap Range(pass.keep) = {}
        /\ Range(pass.todo) \cup Range(pass.go) \cup Range(pass.keep) \subseteq Prefix
        /\ Range(pass.go) \cap DOMAIN tracked = {}
    BY DEF IInv, WalkApart, GoUntracked
  <1>3. /\ Append(pass.keep, h) \in Seq(Handoff)
        /\ Range(Append(pass.keep, h)) = Range(pass.keep) \cup {h} /\ IsInjective(Append(pass.keep, h))
    BY <1>1, <1>2, WalkFacts, AppendFacts
  <1>4. /\ pass' \in Passes /\ pass'.at = pass.at /\ pass'.size = pass.size
        /\ pass'.todo = pass.todo /\ pass'.go = Tail(pass.go)
        /\ pass'.keep = pass.keep \/ pass'.keep = Append(pass.keep, h)
    <2>1. pass \in Passes /\ pass.started + 1 \in Nat
      BY WalkFacts DEF Passes
    <2>2. CASE pass' = [pass EXCEPT !.go = Tail(@)]
      BY <1>1, <2>1, <2>2 DEF Passes
    <2>3. CASE pass' = [pass EXCEPT !.go = Tail(@), !.started = @ + 1]
      <3>1. pass' = [pass EXCEPT !.go = Tail(pass.go), !.started = pass.started + 1]
        BY <2>1, <2>3 DEF Passes
      <3>2. QED  BY <1>1, <2>1, <3>1 DEF Passes
    <2>4. CASE pass' = [pass EXCEPT !.go = Tail(@), !.keep = Append(@, h)]
      BY <1>1, <1>3, <2>1, <2>4 DEF Passes
    <2>5. QED  BY <2>2, <2>3, <2>4
  <1>5. Prefix' = Prefix
    BY <1>4 DEF Prefix
  <1>6. /\ IsInjective(pass'.todo) /\ IsInjective(pass'.go) /\ IsInjective(pass'.keep)
        /\ Range(pass'.go) = Range(pass.go) \ {h} /\ h \in Range(pass.go)
        /\ \/ Range(pass'.keep) = Range(pass.keep)
           \/ Range(pass'.keep) = Range(pass.keep) \cup {h}
    BY <1>1, <1>2, <1>3, <1>4
  <1>7. WalkApart'
    BY <1>2, <1>4, <1>5, <1>6 DEF WalkApart
  <1>8. GoUntracked'
    BY <1>2, <1>6 DEF GoUntracked
  <1>9. QED  BY <1>2, <1>4, <1>6, <1>7, <1>8

\* All that may be decided about a handoff but its dispatch.
LEMMA DecidesKeep ==
  ASSUME IInv, NEW h, Hold(h) \/ Defers(h) \/ Unresolved(h) \/ DispatchFails(h)
  PROVE  IInv'
  <1>1. /\ Deciding(h) /\ UNCHANGED <<pending, scan, due, tracked, sends, working, given>>
        /\ \/ pass' = [pass EXCEPT !.go = Tail(@)]
           \/ pass' = [pass EXCEPT !.go = Tail(@), !.keep = Append(@, h)]
    BY DEF Hold, Defers, Unresolved, DispatchFails
  <1>2. /\ WalkApart' /\ GoUntracked' /\ pass' \in Passes /\ pass'.size = pass.size
        /\ h \in Handoff
    BY <1>1, DecidedOn, WalkFacts
  <1>3. held' \subseteq Handoff
    BY <1>2, WalkFacts DEF Hold, Defers, Unresolved, DispatchFails
  <1>4. upsets' \in 0 .. Upsets
    BY WalkFacts, UpsetTyped DEF Hold, Defers, Unresolved, DispatchFails, IInv
  <1>5. SamePlaces /\ disk' \in [Task -> Records]
    <2>1. CASE disk' = WithStatus(h.task, "paused")
      <3>1. h.task \in Task  BY <1>2 DEF Handoff
      <3>2. QED  BY <2>1, <3>1, StatusFacts DEF IInv, Statuses
    <2>2. CASE disk' = disk
      BY <2>2, WalkFacts DEF SamePlaces
    <2>3. QED  BY <2>1, <2>2 DEF Hold, Defers, Unresolved, DispatchFails, PausesForHelp
  <1>6. QED  BY <1>1, <1>2, <1>3, <1>4, <1>5, WalkFacts, InsidePass

LEMMA PassEndsKeeps ==
  ASSUME IInv, PassEnds
  PROVE  IInv'
  <1> DEFINE rest == SubSeq(pending, pass.size + 1, Len(pending))
  <1>1. /\ rest \in Seq(Handoff) /\ Range(pending) = Prefix \cup Range(rest)
        /\ IsInjective(rest) /\ Prefix \cap Range(rest) = {}
    BY WalkFacts, CutFacts DEF IInv, TypeOK, Prefix
  <1>2. /\ Leftovers \in Seq(Handoff) /\ IsInjective(Leftovers)
        /\ Range(Leftovers) = Range(pass.keep) \cup Range(rest)
    <2>1. IsInjective(pass.keep) /\ Range(pass.keep) \cap Range(rest) = {}
      BY <1>1 DEF IInv, WalkApart
    <2>2. pass.keep \in Seq(Handoff)
      BY WalkFacts
    <2> HIDE DEF rest
    <2>3. rest \in Seq(Handoff) /\ IsInjective(rest)
      BY <1>1
    <2>4. /\ pass.keep \o rest \in Seq(Handoff)
          /\ Range(pass.keep \o rest) = Range(pass.keep) \cup Range(rest)
      BY <2>2, <2>3, JoinFacts
    <2>5. IsInjective(pass.keep \o rest)
      BY <2>1, <2>2, <2>3, JoinFacts
    <2>6. QED  BY <2>4, <2>5 DEF Leftovers, rest
  <1>3. Range(Leftovers) \subseteq Range(pending)
    BY <1>1, <1>2 DEF IInv, WalkApart
  <1>4. /\ pass' \in Passes /\ pass'.size = 0
        /\ pass'.todo = <<>> /\ pass'.go = <<>> /\ pass'.keep = <<>>
    BY NothingInjective DEF PassEnds, Idle, Passes
  <1>5. TypeOK'
    <2>1. held' \subseteq Handoff
      BY WalkFacts DEF PassEnds
    <2>2. pass'.size <= Len(pending')
      BY <1>2, <1>4 DEF PassEnds
    <2>3. QED  BY <1>2, <1>4, <2>1, <2>2 DEF PassEnds, IInv, TypeOK
  <1>6. SamePlaces
    BY DEF PassEnds, SamePlaces
  <1>7. \A h \in due' \cup Range(pending') : Written(h)
    BY <1>3 DEF PassEnds, IInv, ActsWritten
  <1>8. QED  BY <1>4, <1>5, <1>6, <1>7, EmptyApart, PreservedElsewhere DEF PassEnds

-----------------------------------------------------------------------------
(* Dispatches, bindings and turns.                                         *)

LEMMA PruneJudgesKeeps ==
  ASSUME IInv, NEW c \in pass.looks, PruneJudges(c) \/ PruneFails(c)
  PROVE  IInv'
  <1> USE DEF IInv
  <1>1. /\ pass' \in Passes /\ pass'.size = pass.size
        /\ pass'.todo = pass.todo /\ pass'.go = pass.go /\ pass'.keep = pass.keep
    BY WalkFacts DEF PruneJudges, PruneFails, Passes
  <1>2. /\ DOMAIN working' \subseteq DOMAIN working
        /\ \A y \in DOMAIN working' : working'[y] = working[y]
        /\ working' \in [DOMAIN working' -> Handoff]
    BY DEF PruneJudges, PruneFails, Stopped, Cancelled, Restrict, TypeOK
  <1>3. DOMAIN tracked' \subseteq DOMAIN tracked /\ tracked' \in [DOMAIN tracked' -> Session]
    BY DEF PruneJudges, PruneFails, Untracked, Restrict, TypeOK
  <1>4. TypeOK'
    BY <1>1, <1>2, <1>3, UpsetTyped DEF TypeOK, PruneJudges, PruneFails
  <1>5. WalkApart' /\ GoUntracked'
    BY <1>1, <1>3 DEF WalkApart, Prefix, PruneJudges, PruneFails, GoUntracked
  <1>6. ActsWritten'
    BY <1>3 DEF ActsWritten, Written, PruneJudges, PruneFails
  <1>7. OneBinding'
    BY <1>2 DEF OneBinding, Bindings, PruneJudges, PruneFails
  <1>8. QED  BY <1>4, <1>5, <1>6, <1>7

\* What is rebound, and what stays as it was.
LEMMA ReboundFacts ==
  ASSUME sends \subseteq Sends, NEW x, NEW h \in Handoff
  PROVE  /\ Rebound(x, h) \subseteq Sends
         /\ \A d \in Rebound(x, h) :
              \/ d.session = x /\ ~d.repins /\ d.to = h
              \/ d \in sends /\ ~(d.session = x /\ ~d.repins)
         /\ \A c \in sends :
              IF c.session = x /\ ~c.repins
                THEN \E d \in Rebound(x, h) : d.session = x /\ ~d.repins /\ d.to = h
                ELSE c \in Rebound(x, h)
  <1>1. ASSUME NEW c \in sends, c.session = x, ~c.repins
        PROVE  LET d == [c EXCEPT !.to = h]
               IN  d \in Rebound(x, h) /\ d \in Sends /\ d.session = x /\ ~d.repins /\ d.to = h
    BY <1>1 DEF Rebound, Sends
  <1>2. ASSUME NEW c \in sends, ~(c.session = x /\ ~c.repins) PROVE c \in Rebound(x, h)
    BY <1>2 DEF Rebound
  <1>3. ASSUME NEW d \in Rebound(x, h)
        PROVE  /\ d \in Sends
               /\ \/ d.session = x /\ ~d.repins /\ d.to = h
                  \/ d \in sends /\ ~(d.session = x /\ ~d.repins)
    <2>1. PICK c \in sends : d = (IF c.session = x /\ ~c.repins THEN [c EXCEPT !.to = h] ELSE c)
      BY DEF Rebound
    <2>2. QED  BY <2>1, <1>1
  <1>4. QED  BY <1>1, <1>2, <1>3

\* A dispatch, taken apart: the session it takes and how that is bound.
TakesUp(h, x, repins) ==
  LET to == At(h.task, h.step)
      new == [session |-> x, to |-> to, repins |-> repins]
  IN  /\ repins <=> \A b \in Bindings(x) : b.task # h.task \/ b.step # h.step
      /\ working' = [y \in DOMAIN working |-> IF y = x /\ ~repins THEN to ELSE working[y]]
      /\ sends' = (IF repins THEN sends ELSE Rebound(x, to)) \cup {new}
      /\ tracked' = [g \in DOMAIN tracked \cup {h} |-> IF g = h THEN x ELSE tracked[g]]

LEMMA DispatchFacts ==
  ASSUME IInv, NEW h, Dispatch(h)
  PROVE  /\ h \in Handoff /\ h \in Prefix /\ h \notin DOMAIN tracked
         /\ At(h.task, h.step) \in Handoff
         /\ \E x \in Session, repins \in BOOLEAN : TakesUp(h, x, repins)
  <1>1. PICK x \in ({h} \ InUse) \cup Carriers(h.task) :
          TakesUp(h, x, \A b \in Bindings(x) : b.task # h.task \/ b.step # h.step)
    BY DEF Dispatch, TakesUp
  <1>2. DOMAIN tracked' = DOMAIN tracked \cup {h}
    BY <1>1 DEF TakesUp
  <1>3. h \in Prefix /\ h \notin DOMAIN tracked
    BY <1>2, DecidedOn DEF Dispatch
  <1>4. h \in Handoff /\ Written(h)
    BY <1>3, WalkFacts
  <1>5. At(h.task, h.step) \in Handoff
    BY <1>4, AtTyped DEF IInv
  <1>6. x \in Session
    BY <1>1, <1>4 DEF Carriers, IInv, TypeOK, Session, Sends
  <1>7. QED  BY <1>1, <1>3, <1>4, <1>5, <1>6

LEMMA DispatchKeeps ==
  ASSUME IInv, NEW h, Dispatch(h)
  PROVE  IInv'
  <1> USE DEF IInv
  <1> DEFINE to == At(h.task, h.step)
  <1>1. PICK x \in Session, repins \in BOOLEAN : TakesUp(h, x, repins)
    BY DispatchFacts
  <1>2. h \in Handoff /\ h \in Prefix /\ h \notin DOMAIN tracked /\ to \in Handoff
    BY DispatchFacts
  <1> DEFINE new == [session |-> x, to |-> to, repins |-> repins]
  <1>3. /\ h \in Handoff /\ h \in Prefix /\ h \notin DOMAIN tracked
        /\ to \in Handoff /\ new \in Sends
        /\ working' = [y \in DOMAIN working |-> IF y = x /\ ~repins THEN to ELSE working[y]]
        /\ sends' = (IF repins THEN sends ELSE Rebound(x, to)) \cup {new}
        /\ tracked' = [g \in DOMAIN tracked \cup {h} |-> IF g = h THEN x ELSE tracked[g]]
    BY <1>1, <1>2 DEF TakesUp, Sends
  <1>4. new.session = x /\ new.to = to /\ new.repins = repins
    OBVIOUS
  <1> HIDE DEF to, new
  <1>5. /\ tracked \in [DOMAIN tracked -> Session] /\ DOMAIN tracked \subseteq Handoff
        /\ working \in [DOMAIN working -> Handoff] /\ DOMAIN working \subseteq Session
        /\ sends \subseteq Sends
    BY DEF TypeOK
  <1>6. DOMAIN tracked' = DOMAIN tracked \cup {h} /\ tracked' \in [DOMAIN tracked' -> Session]
    BY <1>3, <1>5
  <1>7. WalkApart' /\ GoUntracked' /\ pass' \in Passes /\ pass'.size = pass.size
    BY <1>6, DecidedOn DEF Dispatch
  <1>8. TypeOK'
    <2>1. held' \subseteq Handoff
      BY WalkFacts DEF Dispatch
    <2>2. sends' \subseteq Sends
      BY <1>3, <1>5, ReboundFacts
    <2>3. working' \in [DOMAIN working' -> Handoff] /\ DOMAIN working' \subseteq Session
      BY <1>3, <1>5
    <2>4. DOMAIN tracked' \subseteq Handoff
      BY <1>3, <1>5, <1>6
    <2>5. QED  BY <1>6, <1>7, <2>1, <2>2, <2>3, <2>4 DEF Dispatch, TypeOK
  <1>9. ActsWritten'
    <2>1. Written(h)
      BY <1>3, WalkFacts
    <2>2. QED  BY <1>6, <2>1 DEF Dispatch, ActsWritten, Written
  <1>10. OneBinding'
    <2>1. CASE repins
      <3>1. \A y \in Session : \A a \in Bindings(y)' : a \in Bindings(y)
        BY <1>3, <1>4, <2>1 DEF Bindings
      <3>2. QED  BY <3>1 DEF OneBinding
    <2>2. CASE ~repins
      <3>1. \A d \in Rebound(x, to) : \/ d.session = x /\ ~d.repins /\ d.to = to
                                      \/ d \in sends /\ ~(d.session = x /\ ~d.repins)
        BY <1>3, <1>5, ReboundFacts
      <3>2. ASSUME NEW y \in Session, NEW a \in Bindings(y)'
            PROVE  IF y = x THEN a = to ELSE a \in Bindings(y)
        BY <1>3, <1>4, <2>2, <3>1 DEF Bindings
      <3>3. QED  BY <3>2 DEF OneBinding
    <2>3. QED  BY <2>1, <2>2
  <1>11. QED  BY <1>7, <1>8, <1>9, <1>10

LEMMA StartsKeeps ==
  ASSUME IInv, NEW c \in sends, Starts(c)
  PROVE  IInv'
  <1> USE DEF IInv
  <1>1. /\ c.session \in Session /\ c.to \in Handoff /\ sends \subseteq Sends
        /\ working \in [DOMAIN working -> Handoff] /\ DOMAIN working \subseteq Session
    BY DEF TypeOK, Sends
  <1>2. /\ working' = [y \in DOMAIN working \cup {c.session} |->
                         IF y = c.session THEN c.to ELSE working[y]]
        /\ sends' \subseteq Rebound(c.session, c.to)
    BY DEF Starts
  <1>3. TypeOK'
    <2>1. working' \in [DOMAIN working' -> Handoff] /\ DOMAIN working' \subseteq Session
      BY <1>1, <1>2
    <2>2. sends' \subseteq Sends
      BY <1>1, <1>2, ReboundFacts
    <2>3. given' \subseteq Task
      BY <1>1 DEF Starts, Given, TypeOK, Handoff
    <2>4. QED  BY <2>1, <2>2, <2>3 DEF Starts, TypeOK
  <1>4. WalkApart' /\ GoUntracked'
    BY DEF Starts, WalkApart, Prefix, GoUntracked
  <1>5. ActsWritten'
    BY DEF Starts, ActsWritten, Written
  <1>6. OneBinding'
    <2>1. \A d \in sends' : \/ d.session = c.session /\ ~d.repins /\ d.to = c.to
                            \/ d \in sends /\ ~(d.session = c.session /\ ~d.repins)
      BY <1>1, <1>2, ReboundFacts
    <2>2. ASSUME NEW y \in Session, NEW a \in Bindings(y)'
          PROVE  IF y = c.session THEN a = c.to ELSE a \in Bindings(y)
      BY <1>2, <2>1 DEF Bindings
    <2>3. QED  BY <2>2 DEF OneBinding
  <1>7. QED  BY <1>3, <1>4, <1>5, <1>6

\* A message that is lost binds nothing any more.
LEMMA SendFailsKeeps ==
  ASSUME IInv, NEW c \in sends, SendFails(c)
  PROVE  IInv'
  <1> USE DEF IInv
  <1>1. /\ sends' \subseteq sends /\ c.to.task \in Task
        /\ UNCHANGED <<pending, held, scan, due, pass, tracked, working, given>>
    BY DEF SendFails, TypeOK, Sends, Handoff
  <1>2. SamePlaces /\ disk' \in [Task -> Records]
    <2>1. CASE disk' = WithStatus(c.to.task, "paused")
      BY <1>1, <2>1, StatusFacts DEF Statuses
    <2>2. CASE disk' = disk
      BY <2>2 DEF SamePlaces, TypeOK
    <2>3. QED  BY <2>1, <2>2 DEF SendFails, PausesForHelp
  <1>3. TypeOK'
    BY <1>1, <1>2, UpsetTyped DEF SendFails, TypeOK
  <1>4. WalkApart' /\ GoUntracked'
    BY <1>1 DEF WalkApart, Prefix, GoUntracked
  <1>5. /\ \A h \in Handoff : Written(h)' = Written(h)
        /\ \A t \in Task : disk'[t].last[disk'[t].step] # 0
        /\ \A t \in Task, s \in Step : disk'[t].last[s] <= disk'[t].newest
    BY <1>2, SamePlacesFacts
  <1>6. due \subseteq Handoff /\ Range(pending) \subseteq Handoff /\ DOMAIN tracked \subseteq Handoff
    BY DEF TypeOK, Range
  <1>7. ActsWritten'
    BY <1>1, <1>5, <1>6 DEF ActsWritten
  <1>8. OneBinding'
    BY <1>1 DEF OneBinding, Bindings
  <1>9. QED  BY <1>3, <1>4, <1>7, <1>8

LEMMA EndsKeeps ==
  ASSUME IInv, NEW x \in DOMAIN working, Ends(x)
  PROVE  IInv'
  <1> USE DEF IInv, Ends
  <1>1. /\ DOMAIN working' \subseteq DOMAIN working
        /\ \A y \in DOMAIN working' : working'[y] = working[y]
        /\ working' \in [DOMAIN working' -> Handoff]
    BY DEF Cancelled, Restrict, TypeOK
  <1>2. TypeOK'
    BY <1>1 DEF TypeOK
  <1>3. WalkApart' /\ GoUntracked' /\ ActsWritten'
    BY DEF WalkApart, Prefix, GoUntracked, ActsWritten, Written
  <1>4. OneBinding'
    BY <1>1 DEF OneBinding, Bindings
  <1>5. QED  BY <1>2, <1>3, <1>4

-----------------------------------------------------------------------------
(* Steps that move a task on, and the others.                              *)

\* Dispatches keep their sessions when those of a step go on as a new activation.
LEMMA AdoptsFacts ==
  ASSUME IInv, NEW next \in Handoff, ~Written(next), UNCHANGED <<tracked, pass>> \/ Adopts(next)
  PROVE  /\ DOMAIN tracked' \subseteq DOMAIN tracked \cup {next}
         /\ tracked' \in [DOMAIN tracked' -> Session]
         /\ \A g \in DOMAIN tracked \cap DOMAIN tracked' : tracked'[g] = tracked[g]
         /\ pass' \in Passes /\ pass'.at = pass.at /\ pass'.size = pass.size
         /\ pass'.todo = pass.todo /\ pass'.go = pass.go /\ pass'.keep = pass.keep
  <1>1. /\ tracked \in [DOMAIN tracked -> Session] /\ next \notin DOMAIN tracked /\ pass \in Passes
    BY DEF IInv, TypeOK, ActsWritten
  <1>2. CASE UNCHANGED <<tracked, pass>>
    BY <1>1, <1>2
  <1>3. CASE ~ UNCHANGED <<tracked, pass>>
    <2> DEFINE moved == {g \in DOMAIN tracked : g.task = next.task /\ g.step = next.step}
    <2>1. PICK last \in moved :
            /\ tracked' = [g \in (DOMAIN tracked \ moved) \cup {next} |->
                             IF g = next THEN tracked[last] ELSE tracked[g]]
            /\ pass' = [pass EXCEPT !.prune = IF pass.at = "prune" THEN @ \cup {next} ELSE @]
      BY <1>3 DEF Adopts
    <2>2. /\ pass' \in Passes /\ pass'.at = pass.at /\ pass'.size = pass.size
          /\ pass'.todo = pass.todo /\ pass'.go = pass.go /\ pass'.keep = pass.keep
      BY <1>1, <2>1 DEF Passes
    <2>3. QED  BY <1>1, <2>1, <2>2
  <1>4. QED  BY <1>2, <1>3

LEMMA MovesOn ==
  ASSUME IInv, NEW t \in Task, NEW s \in Step, disk[t].newest < Activations,
         disk' = Activated(t, s), due' \subseteq due \cup {Wakes(t, s)}, given' \subseteq Task,
         upsets' \in 0 .. Upsets, UNCHANGED <<pending, held, scan>>,
         UNCHANGED <<tracked, pass>> \/ Adopts(Wakes(t, s)),
         sends' \subseteq Sends, OneBinding',
         working' \in [DOMAIN working' -> Handoff], DOMAIN working' \subseteq Session
  PROVE  IInv'
  <1> USE DEF IInv
  <1>1. /\ Wakes(t, s) \in Handoff /\ ~Written(Wakes(t, s))
        /\ \A h : h = Wakes(t, s) => Written(h)'
        /\ \A h \in Handoff : Written(h) => Written(h)'
        /\ \A u \in Task : disk'[u].last[disk'[u].step] # 0
        /\ \A u \in Task, r \in Step : disk'[u].last[r] <= disk'[u].newest
    <2>1. TypeOK /\ ActsWritten
      OBVIOUS
    <2>2. QED  BY <2>1, MovedFacts
  <1>2. /\ DOMAIN tracked' \subseteq DOMAIN tracked \cup {Wakes(t, s)}
        /\ tracked' \in [DOMAIN tracked' -> Session]
        /\ pass' \in Passes /\ pass'.size = pass.size
        /\ pass'.todo = pass.todo /\ pass'.go = pass.go /\ pass'.keep = pass.keep
    BY <1>1, AdoptsFacts
  <1>3. /\ due \subseteq Handoff /\ Range(pending) \subseteq Handoff
        /\ DOMAIN tracked \subseteq Handoff
    BY DEF TypeOK, Range
  <1>4. TypeOK'
    <2>1. disk' \in [Task -> Records]
      BY ActivatedFacts
    <2>2. DOMAIN tracked' \subseteq Handoff /\ due' \subseteq Handoff
      BY <1>1, <1>2, <1>3
    <2>3. QED  BY <1>2, <2>1, <2>2 DEF TypeOK
  <1>5. WalkApart'
    BY <1>2 DEF WalkApart, Prefix
  <1>6. ActsWritten'
    <2>1. \A h \in due' \cup Range(pending') \cup DOMAIN tracked' : Written(h)'
      BY <1>1, <1>2, <1>3 DEF ActsWritten
    <2>2. QED  BY <1>1, <2>1 DEF ActsWritten
  <1>7. GoUntracked'
    <2>1. \A h \in Range(pass.go) : Written(h)
      BY WalkFacts DEF WalkApart
    <2>2. QED  BY <1>1, <1>2, <2>1 DEF GoUntracked
  <1>8. QED  BY <1>4, <1>5, <1>6, <1>7

LEMMA ReactivateKeeps ==
  ASSUME IInv, NEW t \in Task, Reactivate(t)
  PROVE  IInv'
  <1>1. PICK s \in Step : disk' = Activated(t, s) /\ due' = due \cup {Wakes(t, s)}
    BY DEF Reactivate
  <1>2. /\ upsets' \in 0 .. Upsets /\ given' \subseteq Task /\ sends' \subseteq Sends
        /\ working' \in [DOMAIN working' -> Handoff] /\ DOMAIN working' \subseteq Session
    BY UpsetTyped DEF Reactivate, IInv, TypeOK
  <1>3. OneBinding'
    BY DEF Reactivate, IInv, OneBinding, Bindings
  <1>4. QED  BY <1>1, <1>2, <1>3, MovesOn DEF Reactivate

\* The task of a worker that has a step activated.
LEMMA MaySendFacts ==
  ASSUME IInv, NEW x, NEW s, MaySend(x, s)
  PROVE  /\ x \in DOMAIN working /\ working[x] \in Handoff /\ s \in Step
         /\ working[x].task \in Task /\ disk[working[x].task].newest < Activations
  <1>1. /\ x \in DOMAIN working /\ working[x] \in Handoff
    BY DEF MaySend, MayWrite, IInv, TypeOK
  <1>2. working[x].task \in Task
    BY <1>1 DEF Handoff
  <1>3. QED  BY <1>1, <1>2 DEF MaySend

LEMMA AdvanceKeeps ==
  ASSUME IInv, NEW x, NEW s, Advance(x, s) \/ Reroute(x, s)
  PROVE  IInv'
  <1> DEFINE t == working[x].task
  <1>1. MaySend(x, s)
    BY DEF Advance, Reroute
  <1>2. t \in Task /\ disk[t].newest < Activations /\ s \in Step
    BY <1>1, MaySendFacts
  <1>3. /\ given' \subseteq Task /\ sends' \subseteq Sends /\ upsets' \in 0 .. Upsets
        /\ working' \in [DOMAIN working' -> Handoff] /\ DOMAIN working' \subseteq Session
    BY DEF Advance, Reroute, IInv, TypeOK
  <1>4. OneBinding'
    BY DEF Advance, Reroute, IInv, OneBinding, Bindings
  <1>5. CASE Advance(x, s)  BY <1>2, <1>3, <1>4, <1>5, MovesOn DEF Advance
  <1>6. CASE Reroute(x, s)  BY <1>2, <1>3, <1>4, <1>6, MovesOn DEF Reroute
  <1>7. QED  BY <1>5, <1>6

\* What a loop binds: every session that was bound to the old activation and is in
\* its turn goes on under the new one, with what waits in it.
LEMMA LoopBinds ==
  ASSUME IInv, NEW x, NEW s, Loop(x, s)
  PROVE  LET old == working[x]
             next == Wakes(old.task, s)
         IN  /\ sends' \subseteq Sends /\ OneBinding'
             /\ working' \in [DOMAIN working' -> Handoff] /\ DOMAIN working' = DOMAIN working
             /\ \A c \in sends : c.to # old => c \in sends'
  <1> USE DEF IInv
  <1> DEFINE old == working[x]
             next == Wakes(old.task, s)
  <1>1. old \in Handoff /\ next \in Handoff
    BY MaySendFacts, ActivatedFacts DEF Loop
  <1>2. /\ working' = [y \in DOMAIN working |-> IF working[y] = old THEN next ELSE working[y]]
        /\ sends' = {IF c.session \in DOMAIN working /\ ~c.repins /\ c.to = old
                       THEN [c EXCEPT !.to = next] ELSE c : c \in sends}
    BY DEF Loop
  <1> HIDE DEF next, old
  <1>3. /\ working \in [DOMAIN working -> Handoff] /\ sends \subseteq Sends
        /\ DOMAIN working \subseteq Session
    BY DEF TypeOK
  <1>4. ASSUME NEW d \in sends'
        PROVE  \E c \in sends :
                 /\ d \in Sends /\ d.session = c.session /\ d.repins = c.repins
                 /\ d.to = IF c.session \in DOMAIN working /\ ~c.repins /\ c.to = old
                             THEN next ELSE c.to
    <2>1. PICK c \in sends : d = (IF c.session \in DOMAIN working /\ ~c.repins /\ c.to = old
                                    THEN [c EXCEPT !.to = next] ELSE c)
      BY <1>2
    <2>2. c \in Sends
      BY <1>3
    <2>3. QED  BY <1>1, <2>1, <2>2 DEF Sends
  <1>5. ASSUME NEW y \in Session, NEW a \in Bindings(y)'
        PROVE  \E b \in Bindings(y) : a = IF y \in DOMAIN working /\ b = old THEN next ELSE b
    <2>1. CASE y \in DOMAIN working' /\ a = working'[y]
      <3>1. working[y] \in Bindings(y)
        BY <1>2, <2>1 DEF Bindings
      <3>2. QED  BY <1>2, <2>1, <3>1
    <2>2. CASE \E d \in sends' : d.session = y /\ ~d.repins /\ a = d.to
      <3>1. PICK d \in sends' : d.session = y /\ ~d.repins /\ a = d.to
        BY <2>2
      <3>2. PICK c \in sends :
              /\ d.session = c.session /\ d.repins = c.repins
              /\ d.to = IF c.session \in DOMAIN working /\ ~c.repins /\ c.to = old
                          THEN next ELSE c.to
        BY <1>4
      <3>3. c.to \in Bindings(y)
        BY <3>1, <3>2 DEF Bindings
      <3>4. QED  BY <3>1, <3>2, <3>3
    <2>3. QED  BY <2>1, <2>2 DEF Bindings
  <1>6. OneBinding'
    BY <1>5 DEF OneBinding
  <1>7. sends' \subseteq Sends
    BY <1>4
  <1>8. working' \in [DOMAIN working' -> Handoff] /\ DOMAIN working' = DOMAIN working
    BY <1>1, <1>2, <1>3
  <1>9. \A c \in sends : c.to # old => c \in sends'
    BY <1>2
  <1>10. QED  BY <1>6, <1>7, <1>8, <1>9 DEF old

LEMMA LoopKeeps ==
  ASSUME IInv, NEW x, NEW s, Loop(x, s)
  PROVE  IInv'
  <1> DEFINE t == working[x].task
  <1>1. t \in Task /\ disk[t].newest < Activations /\ s \in Step
    BY MaySendFacts DEF Loop
  <1>2. /\ sends' \subseteq Sends /\ OneBinding'
        /\ working' \in [DOMAIN working' -> Handoff] /\ DOMAIN working' \subseteq Session
    BY LoopBinds DEF IInv, TypeOK
  <1>3. given' \subseteq Task /\ upsets' \in 0 .. Upsets
    BY <1>1 DEF Loop, IInv, TypeOK
  <1>4. QED  BY <1>1, <1>2, <1>3, MovesOn DEF Loop

\* What the daemon has when it starts, the tasks aside.
LEMMA StartTyped ==
  /\ Idle \in Passes /\ Idle.size = 0
  /\ Idle.todo = <<>> /\ Idle.go = <<>> /\ Idle.keep = <<>>
  /\ DOMAIN <<>> = {} /\ (\A S : <<>> \in [{} -> S]) /\ Len(<<>>) = 0
  BY NothingInjective DEF Idle, Passes

LEMMA CrashKeeps ==
  ASSUME IInv, Crash
  PROVE  IInv'
  <1> USE DEF IInv
  <1>1. TypeOK'
    <2>1. upsets' \in 0 .. Upsets
      BY UpsetTyped DEF Crash
    <2>2. QED  BY <2>1, StartTyped, NothingInjective DEF Crash, TypeOK
  <1>2. WalkApart' /\ GoUntracked'
    BY StartTyped, EmptyApart DEF Crash
  <1>3. ActsWritten'
    BY StartTyped, NothingInjective DEF Crash, ActsWritten
  <1>4. OneBinding'
    BY StartTyped DEF Crash, OneBinding, Bindings
  <1>5. QED  BY <1>1, <1>2, <1>3, <1>4

LEMMA InitIInv ==
  ASSUME Init
  PROVE  IInv
  <1>1. /\ disk \in [Task -> Records] /\ 1 \in Step /\ 1 \in Act
        /\ \A t \in Task : /\ disk[t].step = 1 /\ disk[t].newest = 1
                           /\ disk[t].last = [s \in Step |-> IF s = 1 THEN 1 ELSE 0]
    BY RunnerAssumption DEF Init, Records, Statuses, Step, Act
  <1>2. ASSUME NEW t \in Task PROVE Current(t) \in Handoff /\ Written(Current(t))
    <2>1. disk[t].last[1] = 1
      BY <1>1
    <2>2. Current(t) = [task |-> t, step |-> 1, act |-> 1]
      BY <1>1, <2>1 DEF Current, At
    <2>3. QED  BY <1>1, <2>1, <2>2 DEF Handoff, Written
  <1>3. \A h \in due : h \in Handoff /\ Written(h)
    BY <1>2 DEF Init
  <1>4. TypeOK
    BY <1>1, <1>3, StartTyped, NothingInjective, RunnerAssumption DEF Init, TypeOK
  <1>5. WalkApart /\ GoUntracked
    BY StartTyped, NothingInjective DEF Init, WalkApart, GoUntracked
  <1>6. ActsWritten
    BY <1>1, <1>3, StartTyped, NothingInjective DEF Init, ActsWritten
  <1>7. OneBinding
    BY StartTyped DEF Init, OneBinding, Bindings
  <1>8. QED  BY <1>4, <1>5, <1>6, <1>7 DEF IInv

LEMMA StutterKeeps ==
  ASSUME IInv, UNCHANGED vars
  PROVE  IInv'
  BY DEF vars, IInv, TypeOK, WalkApart, Prefix, ActsWritten, Written, GoUntracked,
         OneBinding, Bindings

LEMMA StepKeeps ==
  ASSUME IInv, [Next]_vars
  PROVE  IInv'
  <1>1. CASE UNCHANGED vars  BY <1>1, StutterKeeps
  <1>2. CASE People
    BY <1>2, PeopleKeep, ReactivateKeeps DEF People
  <1>3. CASE Feeds  BY <1>3, FeedsKeep
  <1>4. CASE Tick \/ Rests  BY <1>4, TickKeeps
  <1>5. CASE Prunes  BY <1>5, TickKeeps, PruneJudgesKeeps DEF Prunes
  <1>6. CASE Snapshot  BY <1>6, SnapshotKeeps
  <1>7. CASE Walks
    BY <1>7, ChecksKeep, DecidesKeep, DispatchKeeps, PassEndsKeeps DEF Walks, Decides
  <1>8. CASE \E c \in sends : Starts(c) \/ SendFails(c)
    BY <1>8, StartsKeeps, SendFailsKeeps
  <1>9. CASE \E x \in DOMAIN working : Moves(x)
    BY <1>9, CompleteKeeps, AdvanceKeeps, LoopKeeps, EndsKeeps DEF Moves
  <1>10. CASE Crash  BY <1>10, CrashKeeps
  <1>11. QED
    BY <1>1, <1>2, <1>3, <1>4, <1>5, <1>6, <1>7, <1>8, <1>9, <1>10 DEF Next

LEMMA RunnerInvariant == Spec => []IInv
  <1>1. Init => IInv
    BY InitIInv
  <1>2. IInv /\ [Next]_vars => IInv'
    BY StepKeeps
  <1>3. QED  BY <1>1, <1>2, PTL DEF Spec

\* The runner is well typed: no handoff is queued twice, though activation hooks,
\* rehydrations and the end of a pass all write the queue, and a pass never copied more
\* of it than there is (runner.ts:502-550, 1244-1254).
THEOREM RunnerTyped == Spec => []TypeOK
  <1>1. IInv => TypeOK
    BY DEF IInv
  <1>2. QED  BY <1>1, RunnerInvariant, PTL

-----------------------------------------------------------------------------
(* No activation is dispatched over its own worker.                        *)

LEMMA KeptStep ==
  ASSUME IInv, [Next]_vars, NEW g \in DOMAIN tracked \cap DOMAIN tracked'
  PROVE  tracked'[g] = tracked[g]
  <1>1. CASE UNCHANGED vars
    BY <1>1 DEF vars
  <1>2. CASE People
    BY <1>2 DEF People, Pause, Resume, Rehydrate, Reactivate
  <1>3. CASE Feeds
    BY <1>3 DEF Feeds, Rescan, BootScan, PassesOver, Enqueue, Declines
  <1>4. CASE Tick \/ Rests \/ Snapshot
    BY <1>4 DEF Tick, Rests, Snapshot
  <1>5. CASE Prunes
    BY <1>5 DEF Prunes, PruneReads, PruneJudges, PruneFails, Untracked, Restrict
  <1>6. CASE Walks
    <2>1. CASE PassEnds  BY <2>1 DEF PassEnds
    <2>2. ASSUME NEW h, Checks(h) PROVE tracked'[g] = tracked[g]
      BY <2>2 DEF Checks, Check, Unread, Unprepared
    <2>3. ASSUME NEW h, Decides(h), ~Dispatch(h) PROVE tracked'[g] = tracked[g]
      BY <2>3 DEF Decides, Hold, Defers, Unresolved, DispatchFails
    <2>4. ASSUME NEW h, Dispatch(h) PROVE tracked'[g] = tracked[g]
      <3>1. g # h
        BY <2>4, DispatchFacts
      <3>2. QED  BY <2>4, <3>1, DispatchFacts DEF TakesUp
    <2>5. QED  BY <1>6, <2>1, <2>2, <2>3, <2>4 DEF Walks
  <1>7. CASE \E c \in sends : Starts(c) \/ SendFails(c)
    BY <1>7 DEF Starts, SendFails
  <1>8. ASSUME NEW x \in DOMAIN working, Moves(x) PROVE tracked'[g] = tracked[g]
    <2>1. CASE Complete(x) \/ Ends(x) \/ \E s \in Step : Advance(x, s)
      BY <2>1 DEF Complete, Ends, Advance
    <2>2. ASSUME NEW s \in Step, Loop(x, s) \/ Reroute(x, s) PROVE tracked'[g] = tracked[g]
      <3> DEFINE next == Wakes(working[x].task, s)
      <3>1. MaySend(x, s) /\ disk' = Activated(working[x].task, s) /\ Adopts(next)
        BY <2>2 DEF Loop, Reroute
      <3>2. next \in Handoff /\ ~Written(next)
        BY <3>1, MaySendFacts, MovedFacts DEF IInv
      <3>3. QED  BY <3>1, <3>2, AdoptsFacts
    <2>3. QED  BY <1>8, <2>1, <2>2 DEF Moves
  <1>9. CASE Crash
    BY <1>9, StartTyped DEF Crash
  <1>10. QED
    BY <1>1, <1>2, <1>3, <1>4, <1>5, <1>6, <1>7, <1>8, <1>9 DEF Next

\* No activation that has a session gets another one, though a dispatch happens awaits
\* after the check that it has none, and gates move dispatches from one activation to
\* the next meanwhile (runner.ts:481-505, 943, 1194-1204).
THEOREM DispatchesKept == Spec => DispatchKept
  <1>1. IInv /\ [Next]_vars => \A g \in DOMAIN tracked \cap DOMAIN tracked' : tracked'[g] = tracked[g]
    BY KeptStep
  <1>2. QED  BY <1>1, RunnerInvariant, PTL DEF Spec, DispatchKept

-----------------------------------------------------------------------------
(* No task falls out of all hands.                                         *)

Waits(t) == Current(t) \in Range(pending) /\ ~Doomed(Current(t))

Sent(t) == \E c \in sends : c.to = Current(t)

\* The handoffs a walk still has in one of its lists.
Listed == Range(pass.todo) \cup Range(pass.go) \cup Range(pass.keep)

\* A task stays in hand when each of the hands that may hold it stays.
LEMMA StaysInHand ==
  ASSUME NEW t \in Task, InHand(t), Current(t)' = Current(t), t \in given => t \in given',
         t \in scan.live \cup scan.boot => t \in scan'.live \cup scan'.boot,
         Current(t) \in due => Current(t) \in due', Waits(t) => Waits(t)',
         sends' = sends \/ (Sent(t) => Sent(t)' \/ t \in given')
  PROVE  InHand(t)'
  BY DEF InHand, Waits, Sent

\* What is enqueued waits, unless the pass has decided about it.
LEMMA EnqueuedWaits ==
  ASSUME IInv, NEW t \in Task, Current(t)' = Current(t), pass' = pass,
         ~Doomed(Current(t)), pending' = Queued(Current(t))
  PROVE  InHand(t)'
  <1>1. /\ Current(t) \in Range(pending')
        /\ SubSeq(pending', 1, pass.size) = SubSeq(pending, 1, pass.size)
    BY CurrentTyped, QueuedFacts DEF IInv
  <1>2. QED  BY <1>1 DEF InHand, Doomed

\* Another's entry in the queue changes nothing for a task.
LEMMA OthersEnqueued ==
  ASSUME IInv, NEW t \in Task, Current(t)' = Current(t), pass' = pass, Waits(t),
         \/ pending' = pending
         \/ \E h \in Handoff : pending' = Queued(h)
  PROVE  Waits(t)'
  <1>1. ASSUME NEW h \in Handoff, pending' = Queued(h)
        PROVE  /\ Range(pending) \subseteq Range(pending')
               /\ SubSeq(pending', 1, pass.size) = SubSeq(pending, 1, pass.size)
    <2>1. TypeOK
      BY DEF IInv
    <2>2. /\ Range(Queued(h)) = Range(pending) \cup {h}
          /\ SubSeq(Queued(h), 1, pass.size) = SubSeq(pending, 1, pass.size)
      BY <2>1, QueuedFacts
    <2>3. QED  BY <1>1, <2>2
  <1>2. /\ Range(pending) \subseteq Range(pending')
        /\ SubSeq(pending', 1, pass.size) = SubSeq(pending, 1, pass.size)
    BY <1>1
  <1>3. QED  BY <1>2 DEF Waits, Doomed

LEMMA PeopleHold ==
  ASSUME IInv, NEW u \in Task, Pause(u) \/ Resume(u) \/ Rehydrate(u) \/ Reactivate(u),
         NEW t \in Task, Active(t)', Active(t) => InHand(t), ~Doomed(Current(t))
  PROVE  InHand(t)'
  <1>1. TypeOK /\ ActsWritten /\ disk \in [Task -> Records]
    BY DEF IInv, TypeOK
  <1>2. CASE Pause(u)
    <2>1. SamePlaces /\ disk'[u].status = "paused" /\ \A v \in Task \ {u} : disk'[v] = disk[v]
      BY <1>1, <1>2, StatusFacts DEF Pause, Statuses
    <2>2. t # u /\ Active(t) /\ Current(t)' = Current(t)
      BY <1>1, <2>1, SamePlacesFacts DEF Active
    <2>3. Waits(t) => Waits(t)'
      BY <1>2, <2>2, OthersEnqueued DEF Pause
    <2>4. QED  BY <1>2, <2>2, <2>3, StaysInHand DEF Pause
  <1>3. CASE Resume(u)
    <2>1. CASE t = u  BY <1>3, <2>1 DEF Resume, InHand, IInv, TypeOK
    <2>2. CASE t # u
      <3>1. PICK fresh \in BOOLEAN :
              disk' = [WithStatus(u, "active") EXCEPT ![u].resumes = IF fresh THEN 0 ELSE @]
        BY <1>3 DEF Resume
      <3>2. disk'[t] = disk[t]
        BY <1>1, <2>2, <3>1, StatusFacts DEF Statuses
      <3>3. Active(t) /\ Current(t)' = Current(t)
        BY <3>2 DEF Active, Current, At
      <3>4. Waits(t) => Waits(t)'
        BY <1>3, <3>3, OthersEnqueued DEF Resume
      <3>5. t \in scan.live \cup scan.boot => t \in scan'.live \cup scan'.boot
        BY <1>3 DEF Resume, IInv, TypeOK
      <3>6. QED  BY <1>3, <3>3, <3>4, <3>5, StaysInHand DEF Resume
    <2>3. QED  BY <2>1, <2>2
  <1>4. CASE Rehydrate(u)
    <2>1. Active(t) /\ Current(t)' = Current(t) /\ Current(u) \in Handoff
      BY <1>1, <1>4, CurrentTyped DEF Rehydrate, Active, Current, At
    <2>2. Waits(t) => Waits(t)'
      BY <1>4, <2>1, OthersEnqueued DEF Rehydrate
    <2>3. QED  BY <1>4, <2>1, <2>2, StaysInHand DEF Rehydrate
  <1>5. CASE Reactivate(u)
    <2>1. PICK s \in Step : disk' = Activated(u, s) /\ due' = due \cup {Wakes(u, s)}
      BY <1>5 DEF Reactivate
    <2>2. /\ Current(u)' = Wakes(u, s) /\ \A v \in Task \ {u} : Current(v)' = Current(v)
          /\ \A v \in Task : Active(v)' = Active(v)
      BY <1>1, <1>5, <2>1, MovedFacts DEF Reactivate
    <2>3. CASE t = u  BY <2>1, <2>2, <2>3 DEF InHand
    <2>4. CASE t # u
      <3>1. Active(t) /\ Current(t)' = Current(t)
        BY <2>2, <2>4
      <3>2. Waits(t) => Waits(t)'
        BY <1>5, <3>1, OthersEnqueued DEF Reactivate
      <3>3. QED  BY <1>5, <2>1, <2>4, <3>1, <3>2, StaysInHand DEF Reactivate
    <2>5. QED  BY <2>3, <2>4
  <1>6. QED  BY <1>2, <1>3, <1>4, <1>5

LEMMA FeedsHold ==
  ASSUME IInv, Feeds,
         NEW t \in Task, Active(t)', Active(t) => InHand(t), ~Doomed(Current(t)), ~GivesUp(t)
  PROVE  InHand(t)'
  <1>1. TypeOK /\ ActsWritten /\ disk \in [Task -> Records]
    BY DEF IInv, TypeOK
  <1>2. ASSUME NEW u \in Task, Rescan(u) PROVE InHand(t)'
    <2>1. Active(t) /\ Current(t)' = Current(t) /\ \A v \in Task : Current(v) \in Handoff
      BY <1>1, <1>2, CurrentTyped DEF Rescan, Active, Current, At
    <2>2. CASE t = u  BY <1>2, <2>1, <2>2, EnqueuedWaits DEF Rescan
    <2>3. CASE t # u
      <3>1. Waits(t) => Waits(t)'
        BY <1>2, <2>1, OthersEnqueued DEF Rescan
      <3>2. t \in scan.live \cup scan.boot => t \in scan'.live \cup scan'.boot
        BY <1>2, <2>3 DEF Rescan, IInv, TypeOK
      <3>3. QED  BY <1>2, <2>1, <3>1, <3>2, StaysInHand DEF Rescan
    <2>4. QED  BY <2>2, <2>3
  <1>3. ASSUME NEW u \in Task, BootScan(u) PROVE InHand(t)'
    <2>1. /\ WithStatus(u, "paused") \in [Task -> Records]
          /\ WithStatus(u, "paused")[u].status = "paused"
          /\ \A v \in Task \ {u} : WithStatus(u, "paused")[v] = disk[v]
      BY <1>1, StatusFacts DEF Statuses
    <2>2. \A v \in Task : Current(v) \in Handoff
      BY <1>1, CurrentTyped
    <2>3. CASE t = u
      <3>1. CASE ~Active(u) /\ UNCHANGED <<disk, pending>>
        BY <2>3, <3>1 DEF Active
      <3>2. CASE disk' = Exhausted(u)
        <4>1. disk'[u].status = "paused"
          BY <2>1, <3>2 DEF Exhausted, Records
        <4>2. QED  BY <2>3, <4>1 DEF Active
      <3>3. CASE /\ disk' = [disk EXCEPT ![u].resumes = @ + 1] \/ UNCHANGED disk
                 /\ pending' = Queued(Current(u))
        <4>1. Current(t)' = Current(t)
          BY <1>1, <2>3, <3>3 DEF Current, At, Records
        <4>2. QED  BY <1>3, <2>3, <3>3, <4>1, EnqueuedWaits DEF BootScan
      <3>4. QED  BY <1>3, <3>1, <3>2, <3>3 DEF BootScan
    <2>4. CASE t # u
      <3>1. disk'[t] = disk[t]
        BY <1>1, <1>3, <2>1, <2>4 DEF BootScan, Exhausted
      <3>2. Active(t) /\ Current(t)' = Current(t)
        BY <3>1 DEF Active, Current, At
      <3>3. pending' = pending \/ pending' = Queued(Current(u))
        BY <1>3 DEF BootScan
      <3>4. Waits(t) => Waits(t)'
        BY <1>3, <2>2, <3>2, <3>3, OthersEnqueued DEF BootScan
      <3>5. t \in scan.live \cup scan.boot => t \in scan'.live \cup scan'.boot
        BY <1>3, <2>4 DEF BootScan, IInv, TypeOK
      <3>6. QED  BY <1>3, <3>2, <3>4, <3>5, StaysInHand DEF BootScan
    <2>5. QED  BY <2>3, <2>4
  <1>4. ASSUME NEW h \in due, Enqueue(h) PROVE InHand(t)'
    <2>1. Active(t) /\ Current(t)' = Current(t) /\ h \in Handoff
      BY <1>1, <1>4 DEF Enqueue, Active, Current, At, TypeOK
    <2>2. CASE h = Current(t)  BY <1>4, <2>1, <2>2, EnqueuedWaits DEF Enqueue
    <2>3. CASE h # Current(t)
      <3>1. Waits(t) => Waits(t)'
        BY <1>4, <2>1, OthersEnqueued DEF Enqueue
      <3>2. QED  BY <1>4, <2>1, <2>3, <3>1, StaysInHand DEF Enqueue
    <2>4. QED  BY <2>2, <2>3
  <1>5. ASSUME NEW h \in due, Declines(h) PROVE InHand(t)'
    <2>1. Active(t) /\ Current(t)' = Current(t) /\ h # Current(t)
      BY <1>5 DEF Declines, Active, Current, At, GivesUp
    <2>2. Waits(t) => Waits(t)'
      BY <1>5, <2>1, OthersEnqueued DEF Declines
    <2>3. QED  BY <1>5, <2>1, <2>2, StaysInHand DEF Declines
  <1>6. ASSUME NEW u \in Task, PassesOver(u) PROVE InHand(t)'
    <2>1. Active(t) /\ Current(t)' = Current(t) /\ t # u
      BY <1>6 DEF PassesOver, Active, Current, At, GivesUp
    <2>2. Waits(t) => Waits(t)'
      BY <1>6, <2>1, OthersEnqueued DEF PassesOver
    <2>3. t \in scan.live \cup scan.boot => t \in scan'.live \cup scan'.boot
      BY <1>6, <2>1 DEF PassesOver
    <2>4. QED  BY <1>6, <2>1, <2>2, <2>3, StaysInHand DEF PassesOver
  <1>7. QED  BY <1>2, <1>3, <1>4, <1>5, <1>6 DEF Feeds

LEMMA PassHolds ==
  ASSUME NEW t \in Task, InHand(t), Current(t)' = Current(t), t \in given => t \in given',
         UNCHANGED <<pending, scan, due>>, sends' = sends \/ (Sent(t) => Sent(t)'),
         \/ pass'.at # "walk" \/ Current(t) \in Listed'
         \/ /\ pass'.at = pass.at /\ pass'.size = pass.size
            /\ Current(t) \in Listed => Current(t) \in Listed'
  PROVE  InHand(t)'
  <1>1. Waits(t) => Waits(t)'
    BY DEF Waits, Doomed, Listed
  <1>2. QED  BY <1>1, StaysInHand

LEMMA PassStays ==
  ASSUME NEW t \in Task, InHand(t), Current(t)' = Current(t),
         UNCHANGED <<given, pending, scan, due, pass, sends>>
  PROVE  InHand(t)'
  <1>1. Listed' = Listed
    BY DEF Listed
  <1>2. QED  BY <1>1, PassHolds

LEMMA ChecksHold ==
  ASSUME IInv, NEW h, Checks(h), NEW t \in Task, Active(t), InHand(t),
         ~Mistaken(t), ~GivesUp(t)
  PROVE  InHand(t)'
  <1>1. Checking(h) /\ UNCHANGED <<disk, pending, held, scan, due, tracked, sends, working, given>>
    BY DEF Checks, Check, Unread, Unprepared
  <1>2. Current(t)' = Current(t)
    BY <1>1 DEF Current, At
  <1>3. h \in Handoff /\ pass.go \in Seq(Handoff) /\ pass.keep \in Seq(Handoff) /\ pass \in Passes
    BY <1>1, WalkFacts, TailFacts DEF Checking
  <1>4. /\ Range(Append(pass.go, h)) = Range(pass.go) \cup {h}
        /\ Range(Append(pass.keep, h)) = Range(pass.keep) \cup {h}
    BY <1>3, AppendFacts
  <1>5. CASE Current(t) # h
    <2>1. \/ pass' = [pass EXCEPT !.todo = Tail(@)]
          \/ h \notin DOMAIN tracked /\ pass' = [pass EXCEPT !.todo = Tail(@), !.go = Append(@, h)]
          \/ pass' = [pass EXCEPT !.todo = Tail(@), !.keep = Append(@, h)]
      <3>1. CASE Check(h)
        <4>1. CASE Valid(h)  BY <3>1, <4>1 DEF Check, Valid
        <4>2. CASE ~Valid(h)
          <5>1. pass' = [pass EXCEPT !.todo = Tail(@)]
            BY <3>1, <4>2, <1>3 DEF Check, Passes
          <5>2. QED  BY <5>1
        <4>3. QED  BY <4>1, <4>2
      <3>2. CASE Unread(h)  BY <3>2 DEF Unread
      <3>3. CASE Unprepared(h)  BY <3>3 DEF Unprepared
      <3>4. QED  BY <3>1, <3>2, <3>3 DEF Checks
    <2>2. /\ pass'.at = pass.at /\ pass'.size = pass.size
          /\ Range(pass'.todo) = Range(pass.todo) \ {h}
          /\ Range(pass.go) \subseteq Range(pass'.go) /\ Range(pass.keep) \subseteq Range(pass'.keep)
      BY <1>1, <2>1, CheckedOn
    <2>3. Current(t) \in Listed => Current(t) \in Listed'
      BY <1>5, <2>2 DEF Listed
    <2>4. QED  BY <1>1, <1>2, <2>2, <2>3, PassHolds
  <1>6. CASE Current(t) = h
    <2>1. h.task = t /\ ~Unread(h)
      BY <1>6, CurrentTyped DEF IInv, GivesUp
    <2>2. CASE Check(h) /\ Valid(h)
      <3>1. pass'.go = Append(pass.go, h)
        BY <1>3, <2>2 DEF Check, Passes
      <3>2. Current(t) \in Listed'
        BY <1>4, <1>6, <3>1 DEF Listed
      <3>3. QED  BY <1>1, <1>2, <3>2, PassHolds
    <2>3. CASE Unprepared(h)
      <3>1. pass'.keep = Append(pass.keep, h)
        BY <1>3, <2>3 DEF Unprepared, Passes
      <3>2. Current(t) \in Listed'
        BY <1>4, <1>6, <3>1 DEF Listed
      <3>3. QED  BY <1>1, <1>2, <3>2, PassHolds
    <2>4. CASE Check(h) /\ ~Valid(h)
      <3>1. Current(t) \in DOMAIN tracked
        BY <1>6, <2>1, <2>4 DEF Valid
      <3>2. t \in given \/ Sent(t)
        BY <3>1 DEF Mistaken, Sent
      <3>3. QED  BY <1>1, <1>2, <3>2 DEF InHand, Sent
    <2>5. QED  BY <2>1, <2>2, <2>3, <2>4 DEF Checks
  <1>7. QED  BY <1>5, <1>6

\* A dispatch loses no message: whatever is bound anew was bound to that step before.
LEMMA DispatchSends ==
  ASSUME IInv, NEW h, Dispatch(h), NEW t \in Task
  PROVE  Current(t) = h \/ Sent(t) => Sent(t)'
  <1> DEFINE to == At(h.task, h.step)
  <1>1. PICK x \in Session, repins \in BOOLEAN : TakesUp(h, x, repins)
    BY DispatchFacts
  <1>2. to \in Handoff /\ sends \subseteq Sends
    BY DispatchFacts DEF IInv, TypeOK
  <1>3. Current(t)' = Current(t)
    BY DEF Dispatch, Current, At
  <1> DEFINE new == [session |-> x, to |-> to, repins |-> repins]
  <1>4. new \in sends'
    BY <1>1 DEF TakesUp
  <1>5. new.to = to
    OBVIOUS
  <1>6. \E c \in sends' : c.to = to
    BY <1>4, <1>5
  <1>7. ASSUME Current(t) = h PROVE Sent(t)'
    <2>1. to = Current(t)
      BY <1>7 DEF Current, At
    <2>2. QED  BY <1>3, <1>6, <2>1 DEF Sent
  <1>8. ASSUME NEW c \in sends, c.to = Current(t) PROVE Sent(t)'
    <2>1. CASE c \in sends'
      BY <1>3, <1>8, <2>1 DEF Sent
    <2>2. CASE c \notin sends'
      <3>1. ~repins /\ c.session = x /\ ~c.repins
        BY <1>1, <1>2, <2>2, ReboundFacts DEF TakesUp
      <3>2. PICK b \in Bindings(x) : b.task = h.task /\ b.step = h.step
        BY <1>1, <3>1 DEF TakesUp
      <3>3. c.to \in Bindings(x)
        BY <3>1 DEF Bindings
      <3>4. c.to = b
        BY <3>2, <3>3 DEF IInv, OneBinding
      <3>5. to = Current(t)
        BY <1>8, <3>2, <3>4 DEF Current, At
      <3>6. QED  BY <1>3, <1>6, <3>5 DEF Sent
    <2>3. QED  BY <2>1, <2>2
  <1>9. QED  BY <1>7, <1>8 DEF Sent

LEMMA DecidesHold ==
  ASSUME IInv, NEW h, Decides(h),
         NEW t \in Task, Active(t)', Active(t) => InHand(t), ~GivesUp(t)
  PROVE  InHand(t)'
  <1>1. /\ Deciding(h) /\ UNCHANGED <<pending, scan, due, given>>
        /\ DOMAIN tracked' \subseteq DOMAIN tracked \cup {h}
        /\ \/ pass' = [pass EXCEPT !.go = Tail(@)]
           \/ pass' = [pass EXCEPT !.go = Tail(@), !.started = @ + 1]
           \/ pass' = [pass EXCEPT !.go = Tail(@), !.keep = Append(@, h)]
    <2>1. CASE Dispatch(h)
      <3>1. DOMAIN tracked' = DOMAIN tracked \cup {h}
        BY <2>1, DispatchFacts DEF TakesUp
      <3>2. QED  BY <2>1, <3>1 DEF Dispatch
    <2>2. CASE ~Dispatch(h)
      BY <2>2 DEF Decides, Hold, Defers, Unresolved, DispatchFails
    <2>3. QED  BY <2>1, <2>2
  <1>2. /\ h \in Handoff /\ pass'.at = pass.at /\ pass'.size = pass.size /\ pass'.todo = pass.todo
        /\ Range(pass'.go) = Range(pass.go) \ {h} /\ Range(pass.keep) \subseteq Range(pass'.keep)
    BY <1>1, DecidedOn, WalkFacts
  <1>3. Active(t) /\ InHand(t) /\ Current(t)' = Current(t)
    <2>1. CASE UNCHANGED disk  BY <2>1 DEF Active, Current, At
    <2>2. CASE disk' = WithStatus(h.task, "paused")
      <3>1. h.task \in Task
        BY <1>2 DEF Handoff
      <3>2. /\ WithStatus(h.task, "paused")[h.task].status = "paused"
            /\ \A u \in Task \ {h.task} : WithStatus(h.task, "paused")[u] = disk[u]
        BY <3>1, StatusFacts DEF IInv, Statuses
      <3>3. disk'[t] = disk[t]
        BY <2>2, <3>2 DEF Active
      <3>4. QED  BY <3>3 DEF Active, Current, At
    <2>3. QED
      BY <2>1, <2>2 DEF Decides, Hold, Defers, Dispatch, Unresolved, DispatchFails, PausesForHelp
  <1>4. sends' = sends \/ (Sent(t) => Sent(t)')
    <2>1. CASE Dispatch(h)  BY <2>1, DispatchSends
    <2>2. CASE ~Dispatch(h)
      BY <2>2 DEF Decides, Hold, Defers, Unresolved, DispatchFails
    <2>3. QED  BY <2>1, <2>2
  <1>5. CASE Current(t) # h
    <2>1. Current(t) \in Listed => Current(t) \in Listed'
      BY <1>2, <1>5 DEF Listed
    <2>2. QED  BY <1>1, <1>2, <1>3, <1>4, <2>1, PassHolds
  <1>6. CASE Current(t) = h
    <2>1. CASE Dispatch(h)
      <3>1. Sent(t)'
        BY <1>6, <2>1, DispatchSends
      <3>2. QED  BY <3>1 DEF Sent, InHand
    <2>2. CASE Hold(h) \/ Defers(h)
      <3>1. pass'.keep = Append(pass.keep, h)
        BY <2>2, WalkFacts DEF Hold, Defers, Passes
      <3>2. Range(pass'.keep) = Range(pass.keep) \cup {h}
        BY <1>2, <3>1, WalkFacts, AppendFacts
      <3>3. Current(t) \in Listed'
        BY <1>6, <3>2 DEF Listed
      <3>4. QED  BY <1>1, <1>3, <1>4, <3>3, PassHolds
    <2>3. ~Unresolved(h) /\ ~DispatchFails(h)
      BY <1>6 DEF GivesUp
    <2>4. QED  BY <2>1, <2>2, <2>3 DEF Decides
  <1>7. QED  BY <1>5, <1>6

\* The end of a pass keeps what it held back and what arrived meanwhile.
LEMMA PassEndsHolds ==
  ASSUME IInv, PassEnds, NEW t \in Task, InHand(t), Current(t)' = Current(t)
  PROVE  InHand(t)'
  <1> DEFINE rest == SubSeq(pending, pass.size + 1, Len(pending))
  <1>1. rest \in Seq(Handoff) /\ Range(pending) = Prefix \cup Range(rest)
    BY WalkFacts, CutFacts DEF IInv, TypeOK, Prefix
  <1>2. /\ pass.at = "walk" /\ Range(pass.todo) = {} /\ Range(pass.go) = {}
        /\ pass'.at = "idle" /\ pass.keep \in Seq(Handoff)
    BY WalkFacts, NothingInjective DEF PassEnds, Dispatching, Idle
  <1> HIDE DEF rest
  <1>3. Range(pass.keep \o rest) = Range(pass.keep) \cup Range(rest)
    BY <1>1, <1>2, JoinFacts
  <1>4. Range(pending') = Range(pass.keep) \cup Range(rest)
    BY <1>3 DEF PassEnds, Leftovers, rest
  <1>5. Waits(t) => Current(t) \in Range(pass.keep) \cup Range(rest)
    BY <1>1, <1>2 DEF Waits, Doomed, Prefix
  <1>6. Waits(t) => Waits(t)'
    BY <1>2, <1>4, <1>5 DEF Waits, Doomed
  <1>7. QED  BY <1>6, StaysInHand DEF PassEnds

LEMMA TicksHold ==
  ASSUME IInv, Tick \/ Rests \/ Snapshot \/ Prunes,
         NEW t \in Task, InHand(t), Current(t)' = Current(t)
  PROVE  InHand(t)'
  <1>1. CASE Tick
    <2>1. pass'.at = "prune"
      BY <1>1 DEF Tick, Idle
    <2>2. QED  BY <1>1, <2>1, PassHolds DEF Tick
  <1>2. CASE Rests
    <2>1. pass'.at = "idle"
      BY <1>2 DEF Rests, Idle
    <2>2. QED  BY <1>2, <2>1, PassHolds DEF Rests
  <1>3. CASE Snapshot
    <2>1. pass'.todo = pending /\ pass'.size = Len(pending) /\ pending \in Seq(Handoff)
      BY <1>3 DEF Snapshot, Idle, IInv, TypeOK
    <2>2. Waits(t) => Waits(t)'
      BY <1>3, <2>1 DEF Snapshot, Waits, Doomed
    <2>3. QED  BY <1>3, <2>2, StaysInHand DEF Snapshot
  <1>4. CASE Prunes
    <2>1. /\ pass'.at = pass.at /\ pass'.size = pass.size
          /\ pass'.todo = pass.todo /\ pass'.go = pass.go /\ pass'.keep = pass.keep
      BY <1>4, WalkFacts DEF Prunes, PruneReads, PruneJudges, PruneFails, Passes
    <2>2. Listed' = Listed
      BY <2>1 DEF Listed
    <2>3. QED  BY <1>4, <2>1, <2>2, PassHolds
      DEF Prunes, PruneReads, PruneJudges, PruneFails
  <1>5. QED  BY <1>1, <1>2, <1>3, <1>4

LEMMA StartsHold ==
  ASSUME IInv, NEW c \in sends, Starts(c), NEW t \in Task, InHand(t), ~GivesUp(t)
  PROVE  InHand(t)'
  <1>1. /\ Current(t)' = Current(t) /\ c.to \in Handoff /\ sends \subseteq Sends
        /\ UNCHANGED <<pending, scan, due, pass>>
    BY DEF Starts, Current, At, IInv, TypeOK, Sends
  <1>2. Listed' = Listed
    BY <1>1 DEF Listed
  <1>3. t \in given => t \in given'
    BY DEF Starts, Given
  <1>4. CASE c.to = Current(t)
    <2>1. c.to.task = t
      BY <1>4, CurrentTyped DEF IInv
    <2>2. QED  BY <1>4, <2>1 DEF Starts, Given, InHand
  <1>5. CASE c.to # Current(t)
    <2>1. ASSUME NEW d \in sends, d.to = Current(t) PROVE Sent(t)'
      <3>1. ~(d.session = c.session /\ ~d.repins)
        BY <1>5, <2>1 DEF GivesUp, Overrides
      <3>2. d \in Rebound(c.session, c.to) /\ d # c
        BY <1>1, <1>5, <2>1, <3>1, ReboundFacts
      <3>3. QED  BY <1>1, <2>1, <3>2 DEF Starts, Sent
    <2>2. Sent(t) => Sent(t)'
      BY <2>1 DEF Sent
    <2>3. QED  BY <1>1, <1>2, <1>3, <2>2, PassHolds
  <1>6. QED  BY <1>4, <1>5

LEMMA SendFailsHolds ==
  ASSUME IInv, NEW c \in sends, SendFails(c),
         NEW t \in Task, Active(t)', Active(t) => InHand(t), ~GivesUp(t)
  PROVE  InHand(t)'
  <1>1. c.to # Current(t)
    BY DEF GivesUp
  <1>2. c.to.task \in Task
    BY DEF IInv, TypeOK, Sends, Handoff
  <1>3. Active(t) /\ Current(t)' = Current(t)
    <2>1. CASE disk' = WithStatus(c.to.task, "paused")
      <3>1. /\ WithStatus(c.to.task, "paused")[c.to.task].status = "paused"
            /\ \A u \in Task \ {c.to.task} : WithStatus(c.to.task, "paused")[u] = disk[u]
        BY <1>2, StatusFacts DEF IInv, Statuses
      <3>2. disk'[t] = disk[t]
        BY <2>1, <3>1 DEF Active
      <3>3. QED  BY <3>2 DEF Active, Current, At
    <2>2. CASE disk' = disk
      BY <2>2 DEF Active, Current, At
    <2>3. QED  BY <2>1, <2>2 DEF SendFails, PausesForHelp
  <1>4. Sent(t) => Sent(t)'
    BY <1>1, <1>3 DEF SendFails, Sent
  <1>5. Listed' = Listed
    BY DEF SendFails, Listed
  <1>6. QED  BY <1>3, <1>4, <1>5, PassHolds DEF SendFails

LEMMA WorkersHold ==
  ASSUME IInv, NEW x \in DOMAIN working, Moves(x),
         NEW t \in Task, Active(t)', Active(t) => InHand(t)
  PROVE  InHand(t)'
  <1>0. TypeOK /\ ActsWritten /\ working[x].task \in Task
    BY DEF IInv, TypeOK, Handoff
  <1>1. PICK v \in Task : v = working[x].task
    BY <1>0
  <1>2. CASE Complete(x)
    <2>1. disk'[v].status = "complete" /\ \A u \in Task \ {v} : disk'[u] = disk[u]
      BY <1>0, <1>1, <1>2, StatusFacts DEF Complete, Statuses
    <2>2. t # v /\ Active(t) /\ Current(t)' = Current(t)
      BY <2>1 DEF Active, Current, At
    <2>3. QED  BY <1>2, <2>2, PassStays DEF Complete
  <1>3. ASSUME NEW s \in Step, Advance(x, s) \/ Loop(x, s) \/ Reroute(x, s) PROVE InHand(t)'
    <2>1. /\ MaySend(x, s) /\ disk' = Activated(v, s) /\ UNCHANGED <<pending, scan>>
          /\ UNCHANGED <<tracked, pass>> \/ Adopts(Wakes(v, s))
      BY <1>1, <1>3 DEF Advance, Loop, Reroute
    <2>2. /\ Wakes(v, s) \in Handoff /\ ~Written(Wakes(v, s)) /\ Current(v)' = Wakes(v, s)
          /\ \A u \in Task \ {v} : Current(u)' = Current(u)
          /\ \A u \in Task : Active(u)' = Active(u)
      <3>1. disk[v].newest < Activations /\ s \in Step
        BY <1>1, <2>1, MaySendFacts
      <3>2. QED  BY <1>0, <1>1, <2>1, <3>1, MovedFacts
    <2>3. CASE t = v
      BY <1>1, <1>3, <2>2, <2>3 DEF Advance, Loop, Reroute, InHand
    <2>4. CASE t # v
      <3>1. Active(t) /\ Current(t)' = Current(t)
        BY <2>2, <2>4
      <3>2. /\ pass'.at = pass.at /\ pass'.size = pass.size
            /\ pass'.todo = pass.todo /\ pass'.go = pass.go /\ pass'.keep = pass.keep
        BY <2>1, <2>2, AdoptsFacts
      <3>3. Waits(t) => Waits(t)'
        BY <2>1, <3>1, <3>2 DEF Waits, Doomed
      <3>4. sends' = sends \/ (Sent(t) => Sent(t)')
        <4>1. CASE Loop(x, s)
          <5>1. Current(t) # working[x]
            BY <1>1, <2>4, CurrentTyped DEF IInv
          <5>2. \A c \in sends : c.to # working[x] => c \in sends'
            BY <4>1, LoopBinds
          <5>3. QED  BY <3>1, <5>1, <5>2 DEF Sent
        <4>2. CASE Advance(x, s) \/ Reroute(x, s)
          BY <4>2 DEF Advance, Reroute
        <4>3. QED  BY <1>3, <4>1, <4>2
      <3>5. (t \in given => t \in given') /\ (Current(t) \in due => Current(t) \in due')
        BY <1>1, <1>3, <2>4 DEF Advance, Loop, Reroute
      <3>6. QED  BY <2>1, <3>1, <3>3, <3>4, <3>5, StaysInHand
    <2>5. QED  BY <2>3, <2>4
  <1>4. CASE Ends(x)
    <2>1. Active(t) /\ Current(t)' = Current(t)
      BY <1>4 DEF Ends, Active, Current, At
    <2>2. QED  BY <1>4, <2>1, PassStays DEF Ends
  <1>5. QED  BY <1>2, <1>3, <1>4 DEF Moves

LEMMA HeldStep ==
  ASSUME IInv, [Next]_vars, NEW t \in Task, Active(t)', Active(t) => InHand(t),
         ~Doomed(Current(t)), ~Mistaken(t), ~GivesUp(t)
  PROVE  InHand(t)'
  <1>1. disk' = disk => Active(t) /\ InHand(t) /\ Current(t)' = Current(t)
    BY DEF Active, Current, At
  <1>2. CASE UNCHANGED vars
    BY <1>1, <1>2, PassStays DEF vars
  <1>3. CASE People  BY <1>3, PeopleHold DEF People
  <1>4. CASE Feeds  BY <1>4, FeedsHold
  <1>5. CASE Tick \/ Rests \/ Snapshot \/ Prunes
    <2>1. disk' = disk
      BY <1>5 DEF Tick, Rests, Snapshot, Prunes, PruneReads, PruneJudges, PruneFails
    <2>2. QED  BY <1>1, <1>5, <2>1, TicksHold
  <1>6. CASE Walks
    <2>1. CASE PassEnds
      <3>1. disk' = disk
        BY <2>1 DEF PassEnds
      <3>2. QED  BY <1>1, <2>1, <3>1, PassEndsHolds
    <2>2. ASSUME NEW h, Checks(h) PROVE InHand(t)'
      <3>1. disk' = disk
        BY <2>2 DEF Checks, Check, Unread, Unprepared
      <3>2. QED  BY <1>1, <2>2, <3>1, ChecksHold
    <2>3. ASSUME NEW h, Decides(h) PROVE InHand(t)'
      BY <2>3, DecidesHold
    <2>4. QED  BY <1>6, <2>1, <2>2, <2>3 DEF Walks
  <1>7. ASSUME NEW c \in sends, Starts(c) \/ SendFails(c) PROVE InHand(t)'
    <2>1. Starts(c) => disk' = disk
      BY DEF Starts
    <2>2. QED  BY <1>1, <1>7, <2>1, StartsHold, SendFailsHolds
  <1>8. CASE \E x \in DOMAIN working : Moves(x)
    BY <1>8, WorkersHold
  <1>9. CASE Crash  BY <1>9 DEF Crash, InHand
  <1>10. QED
    BY <1>2, <1>3, <1>4, <1>5, <1>6, <1>7, <1>8, <1>9 DEF Next

\* No active task falls out of all hands, whatever happens between the awaits of a pass
\* and at whatever point the daemon dies, but where the code gives its handoff up
\* (GivesUp), it was resumed while a pass was about to erase its handoff
\* (runner.ts:1244-1254), or its activation was adopted for another session (Mistaken).
THEOREM AlwaysInHand == Spec => KeptInHand
  <1>1. IInv /\ [Next]_vars =>
          \A t \in Task :
            Active(t)' /\ (Active(t) => InHand(t)) /\ ~Doomed(Current(t)) /\ ~Mistaken(t)
              => InHand(t)' \/ GivesUp(t)
    BY HeldStep
  <1>2. QED  BY <1>1, RunnerInvariant, PTL DEF Spec, KeptInHand

=============================================================================
