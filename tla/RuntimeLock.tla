----------------------------- MODULE RuntimeLock -----------------------------
(***************************************************************************)
(* The lock file that keeps two daemons off one home                       *)
(* (inference/src/runtime-lock.ts, core/src/native/lock-identity.ts): the  *)
(* file is created, filled with the daemon's identity, judged by those who *)
(* find it, removed when stale and touched while held. Each of these is a  *)
(* call of its own, so daemons interleave between any two of them.         *)
(*                                                                         *)
(* A holder in the same pid namespace is judged by its pid, any other by   *)
(* the file's mtime, which is modelled by whether it moved under the eyes  *)
(* of a watcher. A process starts once; who starts again is another one.   *)
(***************************************************************************)
EXTENDS Naturals, FiniteSets

CONSTANTS
  Daemon,    \* the daemon processes ever started on this home
  Space,     \* pid namespaces (containers, boots, hosts)
  Ticks,     \* the spaces where process start times can be read (Linux)
  Attempts,  \* 3 in the code
  NoFile, Nobody

ASSUME LockAssumption ==
  /\ Ticks \subseteq Space /\ Attempts \in Nat \ {0}
  /\ \A s \in Space : s # Nobody
  /\ NoFile \notin [by : Daemon, filled : BOOLEAN, reused : BOOLEAN]

VARIABLES
  file,   \* the lock file: who created it, whether the identity is in it
  at,     \* where each daemon is in acquireSingleInstanceLock or after it
  space,  \* the namespace each daemon runs in
  tries,  \* the attempts it has used up, while it makes them
  moved,  \* the watchers under whose eyes the file's mtime changed
  beat    \* the heartbeat of each holder: between two beats, or about to touch

vars == <<file, at, space, tries, moved, beat>>

File == {NoFile} \cup [by : Daemon, filled : BOOLEAN, reused : BOOLEAN]

TypeOK ==
  /\ file \in File
  /\ at \in [Daemon -> {"new", "open", "fill", "read", "stat", "watch", "remove", "held",
                        "closing", "unlink", "refused", "gone", "dead"}]
  /\ space \in [Daemon -> Space \cup {Nobody}]
  /\ tries \in [Daemon -> 0 .. Attempts - 1]
  /\ moved \subseteq Daemon
  /\ beat \in [Daemon -> {"off", "idle", "touch"}]

Init ==
  /\ file = NoFile
  /\ at = [d \in Daemon |-> "new"] /\ space = [d \in Daemon |-> Nobody]
  /\ tries = [d \in Daemon |-> 0] /\ moved = {}
  /\ beat = [d \in Daemon |-> "off"]

Live(d) == at[d] \notin {"new", "refused", "gone", "dead"}

To(d, place) == at' = [at EXCEPT ![d] = place]

\* Whoever waits for the mtime to move sees it do so.
Watching == {d \in Daemon : at[d] = "watch"}

-----------------------------------------------------------------------------
(* What a daemon finds in the file.                                        *)

Named == file # NoFile /\ file.filled
Ours(d) == Named /\ file.by = d

\* Mutant: every pid is looked up in the reader's own namespace.
SharesAlways(d) == TRUE

\* sharesPidNamespace
Shares(d) == space[file.by] = space[d]

\* process.kill(pid, 0) in the reader's namespace.
PidAlive(d) == (space[file.by] = space[d] /\ Live(file.by)) \/ file.reused

\* Mutant: a pid that lives is the holder.
ReusedIgnored == FALSE

\* The start time at the pid is not the recorded one. Without start times (macOS,
\* Windows) whoever has the pid passes for the holder.
Reused == file.reused /\ space[file.by] \in Ticks

-----------------------------------------------------------------------------
(* acquireSingleInstanceLock.                                              *)

Start(d) ==
  /\ at[d] = "new" /\ To(d, "open")
  /\ \E s \in Space : space' = [space EXCEPT ![d] = s]
  /\ UNCHANGED <<file, tries, moved, beat>>

\* open(lockPath, 'wx'): creates the file, or fails because it exists.
Create(d) ==
  /\ at[d] = "open" /\ file = NoFile /\ To(d, "fill")
  /\ file' = [by |-> d, filled |-> FALSE, reused |-> FALSE]
  /\ moved' = Watching
  /\ UNCHANGED <<space, tries, beat>>

Exists(d) ==
  /\ at[d] = "open" /\ file # NoFile /\ To(d, "read")
  /\ UNCHANGED <<file, space, tries, moved, beat>>

\* The identity goes into the file that was created, wherever that is by now.
Fill(d) ==
  /\ at[d] = "fill" /\ To(d, "held")
  /\ IF file # NoFile /\ file.by = d
     THEN file' = [file EXCEPT !.filled = TRUE] /\ moved' = Watching
     ELSE UNCHANGED <<file, moved>>
  /\ beat' = [beat EXCEPT ![d] = "idle"] /\ tries' = [tries EXCEPT ![d] = 0]
  /\ UNCHANGED space

\* readHolder and the verdict on a holder of the same namespace; a file that is
\* gone, or has no identity yet, has no holder.
Judge(d) ==
  /\ at[d] = "read"
  /\ To(d, IF ~Named THEN "remove"
           ELSE IF ~Shares(d) THEN "stat"
           ELSE IF PidAlive(d) /\ ~Reused THEN "refused" ELSE "remove")
  /\ UNCHANGED <<file, space, tries, moved, beat>>

\* foreignHolderIsAlive: the mtime is read once, then again every second.
Look(d) ==
  /\ at[d] = "stat" /\ To(d, IF file = NoFile THEN "remove" ELSE "watch")
  /\ moved' = moved \ {d}
  /\ UNCHANGED <<file, space, tries, beat>>

\* It is dead when the file vanishes, or ages past the bound: a live holder
\* beats four times in that time.
Outdated == file # NoFile /\ ~Live(file.by)

FoundDead(d) ==
  /\ at[d] = "watch"
  /\ file = NoFile \/ (d \notin moved /\ Outdated)
  /\ To(d, "remove") /\ moved' = moved \ {d}
  /\ UNCHANGED <<file, space, tries, beat>>

FoundAlive(d) ==
  /\ at[d] = "watch" /\ file # NoFile /\ d \in moved
  /\ To(d, "refused") /\ moved' = moved \ {d}
  /\ UNCHANGED <<file, space, tries, beat>>

\* Mutant: one attempt too many.
ExhaustedLate(d) == tries[d] + 1 > Attempts

Exhausted(d) == tries[d] + 1 >= Attempts

\* rm(lockPath, { force: true }), whosever it is by now.
Remove(d) ==
  /\ at[d] = "remove" /\ file' = NoFile
  /\ tries' = [tries EXCEPT ![d] = IF Exhausted(d) THEN 0 ELSE @ + 1]
  /\ To(d, IF Exhausted(d) THEN "refused" ELSE "open")
  /\ UNCHANGED <<space, moved, beat>>

-----------------------------------------------------------------------------
(* The holder.                                                             *)

BeatReads(d) ==
  /\ at[d] = "held" /\ beat[d] = "idle"
  /\ beat' = [beat EXCEPT ![d] = IF Ours(d) THEN "touch" ELSE "off"]
  /\ UNCHANGED <<file, at, space, tries, moved>>

\* utimes goes to the path; a beat under way outlives the timer.
BeatTouches(d) ==
  /\ Live(d) /\ beat[d] = "touch"
  /\ moved' = IF file # NoFile THEN Watching ELSE moved
  /\ beat' = [beat EXCEPT ![d] = "idle"]
  /\ UNCHANGED <<file, at, space, tries>>

\* release(): the timer stops, the file is read, and removed if it is ours.
Close(d) ==
  /\ at[d] = "held" /\ To(d, "closing")
  /\ UNCHANGED <<file, space, tries, moved, beat>>

CloseReads(d) ==
  /\ at[d] = "closing" /\ To(d, IF ~Named \/ Ours(d) THEN "unlink" ELSE "gone")
  /\ UNCHANGED <<file, space, tries, moved, beat>>

CloseRemoves(d) ==
  /\ at[d] = "unlink" /\ file' = NoFile /\ To(d, "gone")
  /\ UNCHANGED <<space, tries, moved, beat>>

-----------------------------------------------------------------------------
(* The machine.                                                            *)

Crash(d) ==
  /\ Live(d) /\ To(d, "dead") /\ beat' = [beat EXCEPT ![d] = "off"]
  /\ UNCHANGED <<file, space, tries, moved>>

\* An unrelated process is given the pid of a holder that died.
PidReused ==
  /\ Named /\ ~Live(file.by) /\ ~file.reused
  /\ file' = [file EXCEPT !.reused = TRUE]
  /\ UNCHANGED <<at, space, tries, moved, beat>>

Acquires(d) ==
  \/ Create(d) \/ Exists(d) \/ Fill(d) \/ Judge(d) \/ Look(d)
  \/ FoundDead(d) \/ FoundAlive(d) \/ Remove(d)

Releases(d) == CloseReads(d) \/ CloseRemoves(d)

Next ==
  \/ \E d \in Daemon :
       \/ Start(d) \/ Acquires(d) \/ BeatReads(d) \/ BeatTouches(d)
       \/ Close(d) \/ Releases(d) \/ Crash(d)
  \/ PidReused

Spec == Init /\ [][Next]_vars

\* File operations return, the heartbeat timer fires, a crash is never due.
FairSpec ==
  /\ Spec
  /\ \A d \in Daemon :
       /\ WF_vars(Acquires(d)) /\ WF_vars(Releases(d))
       /\ WF_vars(BeatReads(d)) /\ WF_vars(BeatTouches(d))

-----------------------------------------------------------------------------
(* Properties.                                                             *)

\* runtime-lock.ts:103-105: the lock is exclusive, "so two daemons can't share
\* one" home "and race its on-disk state".
SingleDaemon == \A d, e \in Daemon : at[d] = "held" /\ at[e] = "held" => d = e

\* A daemon whose identity is in the file, while nobody is on the way to remove
\* it, is settled. From then on nobody takes the home from it until it leaves,
\* however many start, watch, crash or release around it.
Settled(d) ==
  /\ at[d] = "held" /\ Ours(d)
  /\ \A e \in Daemon : at[e] \notin {"remove", "unlink"}

SettledKept ==
  [][\A d \in Daemon : Settled(d) /\ at'[d] = "held" => Settled(d)']_vars

\* runtime-lock.ts:114-115: "A hard crash leaves a stale lock the next start
\* reclaims": who begins its first attempt while no other daemon lives comes to hold
\* the home, whatever the dead left behind and in whichever namespace, unless it
\* dies itself, another starts, or it is refused because a stranger runs under the
\* pid of the dead in a namespace that shows no start times (lock-identity.ts:41).
Alone(d) == \A e \in Daemon \ {d} : ~Live(e)
Masked(d) == Named /\ file.reused /\ Shares(d) /\ space[d] \notin Ticks
DeadReplaced ==
  \A d \in Daemon :
    at[d] = "open" /\ tries[d] = 0 /\ Alone(d)
      ~> \/ at[d] \in {"held", "dead"} \/ ~Alone(d)
         \/ at[d] = "refused" /\ Masked(d)

=============================================================================
