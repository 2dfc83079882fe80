------------------------- MODULE DeviceLedgerProofs -------------------------
(***************************************************************************)
(* What TLAPS proves of DeviceLedger for every set of daemons, engines,     *)
(* sizes, samples and bounds.                                               *)
(***************************************************************************)
EXTENDS DeviceLedger, DataFacts, TLAPS

(* Values of the helpers.                                                   *)

\* The constant records the supervisors and commands start from are well typed.
LEMMA RecordTypes ==
  /\ Absent \in Claim /\ NoCommand \in Command /\ Off \in Supervisor
BY ConstantsAssumption
   DEF Absent, Claim, NoCommand, Command, Off, Supervisor, Phase, Priority, Stamp,
       Action, Sample, At

\* Whatever is answered, the caller is left in a state of the supervisor.
LEMMA HeardType ==
  ASSUME NEW e \in Supervisor, NEW reply, NEW yield \in BOOLEAN, NEW short \in BOOLEAN
  PROVE  Heard(e, reply, yield, short) \in Supervisor
<1>0. e.at \in At
  BY DEF Supervisor
<1>1. NextAt(e, reply, yield, short) \in At
  <2>1. CASE e.at = "asking"
    BY <2>1 DEF NextAt, At
  <2>2. CASE e.at = "cancelling"
    BY <2>2 DEF NextAt, At
  <2>3. CASE e.at = "starting"
    BY <2>3 DEF NextAt, At
  <2>4. CASE e.at = "bound"
    BY <2>4 DEF NextAt, At
  <2>5. CASE e.at = "running"
    BY <2>5 DEF NextAt, At
  <2>6. CASE e.at \notin {"asking", "cancelling", "starting", "bound", "running"}
    BY <1>0, <2>6 DEF NextAt
  <2>. QED
    BY <2>1, <2>2, <2>3, <2>4, <2>5, <2>6
<1>2. (IF e.at = "asking" /\ short /\ ~GivesUp(e, short) THEN e.short + 1 ELSE 0) \in Nat
  <2>1. e.short \in Nat
    BY DEF Supervisor
  <2>. QED
    BY <2>1
<1>. QED
  BY <1>1, <1>2 DEF Heard, Supervisor

\* So it is after a call that failed.
LEMMA FailedType ==
  ASSUME NEW e \in Supervisor
  PROVE  Failed(e) \in Supervisor
BY DEF Failed, Supervisor, At

\* Pruning leaves a well-typed table.
LEMMA AfterPruneType ==
  ASSUME TypeOK, NEW k \in Command
  PROVE  AfterPrune(k) \in [Engine -> Claim]
BY RecordTypes DEF AfterPrune, TypeOK

\* So does the command's own change: an insertion, a revision or neither.
LEMMA TableType ==
  ASSUME TypeOK, NEW i \in Engine, NEW k \in Command, k.action = "bind" => k.child \in Pid
  PROVE  Table(i, k) \in [Engine -> Claim]
<1>1. AfterPrune(k) \in [Engine -> Claim]
  BY AfterPruneType
<1>2. /\ k.ids \in [Pid -> Stamp] /\ k.child \in Pid \cup {NoPid} /\ k.priority \in Priority
      /\ k.action = "bind" => k.ids[k.child] \in Stamp
      /\ k.ids[Owner[i]] \in Stamp
  BY ConstantsAssumption DEF Command
<1>3. NewClaim(i, k) \in Claim
  BY <1>2, ConstantsAssumption DEF NewClaim, Claim, Phase, Stamp
<1>4. ASSUME NEW c \in Claim PROVE Revise(c, k) \in Claim
  BY <1>2 DEF Revise, Claim, Phase, Priority
<1>. QED
  BY <1>1, <1>3, <1>4 DEF Table

-----------------------------------------------------------------------------
(* What a transaction does to the table.                                   *)

\* Each row of the table a decision is taken on: pruned, new, revised or as it was.
LEMMA RowsOfTable ==
  ASSUME NEW i \in Engine, NEW k
  PROVE  /\ \A j \in Engine \ {i} : Table(i, k)[j] = claims[j] \/ Table(i, k)[j] = Absent
         /\ \/ Table(i, k)[i] = Absent
            \/ Table(i, k)[i] = NewClaim(i, k) /\ k.action = "acquire"
            \/ Table(i, k)[i] = Revise(claims[i], k) /\ claims[i].phase # "absent"
            \/ Table(i, k)[i] = claims[i] /\ claims[i].phase = "absent"
BY DEF Table, AfterPrune, Enters, Absent

\* A claim whose engine lives, or which is granted and not bound yet, is never
\* pruned by the command of anybody.
LEMMA PruneSpares ==
  ASSUME IInv, NEW i \in Engine, NEW j \in Engine,
         EngineAlive(j) \/ eng[j].at = "granted"
  PROVE  j \notin Pruned(cmd[i])
<1>. DEFINE c == claims[j]  k == cmd[i]
<1>1. /\ c \in Claim /\ k.ids \in [Pid -> Stamp] /\ proc \in [Pid -> Stamp]
      /\ born \in [Pid -> Stamp] /\ eng[j] \in Supervisor
  BY DEF IInv, TypeOK, Command
<1>2. c.phase # "waiting"
  BY DEF IInv, ClaimOK, Active
<1>3. SUFFICES ASSUME c = k.observed[j] PROVE ~Stale(j, c, k.ids)
  BY DEF Pruned
<1>4. CASE c.child = NoPid
  BY <1>2, <1>4 DEF Stale
<1>5. CASE c.child # NoPid
  <2>1. EngineAlive(j) /\ c.child = eng[j].child /\ c.childStamp \in {0, eng[j].stamp}
    BY <1>5, <1>1 DEF IInv, ClaimOK, EngOK, ChildlessAt
  <2>2. c.child \in Pid
    BY <1>1, <1>5 DEF Claim
  <2>3. /\ proc[c.child] = eng[j].stamp /\ proc[c.child] # 0
        /\ proc[c.child] = born[c.child]
    BY <2>1, <2>2, <1>5 DEF EngineAlive, IInv, EngOK, ProcOK
  <2>4. k.ids[c.child] <= born[c.child]
    BY <2>2 DEF IInv, RememberedOK
  <2>5. c.childStamp # 0 /\ k.ids[c.child] # 0 => k.ids[c.child] >= c.childStamp
    BY <1>3, <1>5 DEF IInv, CommandOK, CommandFine
  <2>6. k.ids[c.child] \in Nat /\ born[c.child] \in Nat /\ c.childStamp \in Nat
    BY <1>1, <2>2 DEF Claim, Stamp
  <2>7. c.childStamp = 0 \/ k.ids[c.child] = 0 \/ k.ids[c.child] = c.childStamp
    BY <2>1, <2>3, <2>4, <2>5, <2>6
  <2>. QED
    BY <2>3, <2>7, <1>2 DEF Stale, SameProcess
<1>. QED
  BY <1>4, <1>5

\* A release reads no stamps and prunes by liveness alone; it spares the same claims.
LEMMA ReleaseSpares ==
  ASSUME IInv, NEW j \in Engine, EngineAlive(j) \/ eng[j].at = "granted"
  PROVE  ~Stale(j, claims[j], [p \in Pid |-> 0])
<1>1. claims[j] \in Claim /\ proc \in [Pid -> Stamp]
  BY DEF IInv, TypeOK
<1>2. claims[j].phase # "waiting"
  BY DEF IInv, ClaimOK, Active
<1>3. CASE claims[j].child = NoPid
  BY <1>2, <1>3 DEF Stale
<1>4. CASE claims[j].child # NoPid
  <2>1. claims[j].child \in Pid
    BY <1>1, <1>4 DEF Claim
  <2>2. proc[claims[j].child] # 0
    BY <1>4, <2>1 DEF IInv, ClaimOK, EngOK, ChildlessAt, EngineAlive
  <2>. QED
    BY <1>2, <2>1, <2>2 DEF Stale, SameProcess
<1>. QED
  BY <1>3, <1>4

-----------------------------------------------------------------------------
(* The invariant is inductive: one lemma per group of actions.              *)

\* No engine, no claim, no command: the invariant holds at the start.
LEMMA InitIInv == Init => IInv
<1>. SUFFICES ASSUME Init PROVE IInv
  OBVIOUS
<1>1. 1 \in Stamp /\ 0 \in Stamp
  BY ConstantsAssumption DEF Stamp
<1>2. TypeOK
  BY <1>1, RecordTypes, ConstantsAssumption DEF Init, TypeOK
<1>3. ProcOK /\ EngOK
  BY ConstantsAssumption DEF Init, ProcOK, EngOK, Off
<1>4. RememberedOK
  <2>1. \A i \in Engine : claims[i] = Absent /\ cmd[i].observed[i] = Absent
    BY DEF Init, NoCommand
  <2>2. born \in [Pid -> Nat]
    BY <1>2 DEF TypeOK, Stamp
  <2>. QED
    BY <2>1, <2>2 DEF Init, RememberedOK, RecordedOK, NoCommand, Absent
<1>5. ClaimOK /\ BindOK /\ CommandOK
  BY ConstantsAssumption
     DEF Init, ClaimOK, BindOK, CommandOK, CommandFine, NoCommand, Absent, Off, EngineAlive
<1>. QED
  BY <1>2, <1>3, <1>4, <1>5 DEF IInv

\* Begin reads the table and the cache; what it remembers is as old as either.
LEMMA BeginStep ==
  ASSUME IInv, NEW i \in Engine, NEW action \in Action, NEW child \in Pid \cup {NoPid},
         BeginCommand(i, action, child),
         eng[i].at # "granted",
         eng[i].at \in {"asking", "cancelling"} => action = "acquire",
         action = "bind" => child \in Pid /\ child = eng[i].child,
         UNCHANGED <<proc, born, up, claims, ahead, eng>>
  PROVE  IInv'
<1>. USE ConstantsAssumption
<1>1. PICK pr \in Priority, s \in Sample, expired \in SUBSET Pid :
        /\ cache' = [cache EXCEPT ![Executor[i]] = Remembered(i, action, expired)]
        /\ cmd' = [cmd EXCEPT ![i] =
                    Issued(i, action, child, pr, s, Remembered(i, action, expired))]
  BY DEF BeginCommand, Priority
<1>. DEFINE c == Remembered(i, action, expired)
            k == Issued(i, action, child, pr, s, c)
<1>2. c \in [Pid -> Stamp] /\ \A p \in Pid : c[p] <= born[p]
  BY DEF Remembered, IInv, TypeOK, RememberedOK, Stamp
<1>3. \A p \in Pid : \/ k.ids[p] = 0
                     \/ k.ids[p] = c[p] /\ CacheAnswers(i, action, c, p)
  BY DEF Issued
<1>4. /\ k.observed = claims /\ k.action = action /\ k.child = child
      /\ k.stage \in {"probe", "decide"}
  BY DEF Issued
<1>5. Record(i, action) \subseteq Pid /\ (action = "bind" => Record(i, action) = {child})
  BY DEF Record, Action
<1>6. k \in Command
  <2>1. claims \in [Engine -> Claim]
    BY DEF IInv, TypeOK
  <2>2. Unread(i, action, c) \subseteq Pid
    BY <1>5 DEF Unread, Asked
  <2>3. [p \in Pid |-> IF CacheAnswers(i, action, c, p) THEN c[p] ELSE 0] \in [Pid -> Stamp]
    BY <1>2 DEF Stamp
  <2>. QED
    BY <2>1, <2>2, <2>3 DEF Command, Issued
<1>. HIDE DEF c, k
<1>7. cache' = [cache EXCEPT ![Executor[i]] = c] /\ cmd' = [cmd EXCEPT ![i] = k]
  BY <1>1 DEF c, k
<1>8. TypeOK'
  BY <1>2, <1>6, <1>7 DEF IInv, TypeOK
<1>9. \A j \in Engine : cmd'[j] = IF j = i THEN k ELSE cmd[j]
  BY <1>7 DEF IInv, TypeOK
<1>10. ProcOK' /\ EngOK' /\ ClaimOK'
  BY DEF IInv, ProcOK, EngOK, ClaimOK, EngineAlive, Active
<1>11. RememberedOK'
  <2>1. \A p \in Pid : k.ids[p] <= born[p]
    <3>1. \A p \in Pid : k.ids[p] = 0 \/ k.ids[p] = c[p]
      BY <1>3
    <3>2. \A p \in Pid : born[p] \in Nat
      BY DEF IInv, TypeOK, Stamp
    <3>. QED
      BY <1>2, <3>1, <3>2
  <2>2. RecordedOK(k.observed)
    BY <1>4 DEF IInv, RememberedOK
  <2>3. \A h \in Home, p \in Pid : cache'[h][p] <= born[p]
    BY <1>2, <1>7 DEF IInv, RememberedOK, TypeOK
  <2>. QED
    BY <1>9, <2>1, <2>2, <2>3 DEF IInv, RememberedOK, RecordedOK
<1>12. BindOK'
  <2>1. action = "bind" => k.ids[child] = 0
    BY <1>3, <1>5 DEF CacheAnswers
  <2>. QED
    BY <1>4, <1>9, <2>1 DEF IInv, BindOK
<1>13. CommandOK'
  <2>1. ASSUME NEW j \in Engine, claims[j].child # NoPid, claims[j].childStamp # 0,
               k.ids[claims[j].child] # 0
        PROVE  k.ids[claims[j].child] >= claims[j].childStamp
    <3>. DEFINE p == claims[j].child
    <3>1. p \in Pid /\ claims[j].childStamp \in Stamp
      BY <2>1 DEF IInv, TypeOK, Claim
    <3>2. k.ids[p] = c[p] /\ Confirm(action, p) # {} /\ Confirm(action, p) \subseteq {c[p]}
      BY <1>3, <2>1, <3>1 DEF CacheAnswers
    <3>3. claims[j].phase # "absent"
      BY <2>1 DEF IInv, ClaimOK, Absent
    <3>4. claims[j].childStamp \in Confirm(action, p)
      BY <2>1, <3>2, <3>3 DEF Confirm, Present
    <3>. QED
      BY <3>1, <3>2, <3>4 DEF Stamp
  <2>2. ASSUME NEW m \in Engine, m # i
        PROVE  CommandFine(m)'
    BY <1>9, <2>2 DEF IInv, CommandOK, CommandFine
  <2>3. CommandFine(i)'
    BY <1>4, <1>9, <2>1 DEF CommandFine
  <2>. QED
    BY <2>2, <2>3 DEF CommandOK
<1>. QED
  BY <1>8, <1>10, <1>11, <1>12, <1>13 DEF IInv

\* The OS answers with the birth that runs, which no snapshot is younger than.
LEMMA ProbeStep ==
  ASSUME IInv, NEW i \in Engine, Probe(i)
  PROVE  IInv'
<1>. USE ConstantsAssumption
<1>1. PICK refused \in SUBSET (cmd[i].unread \cap Uncertain) :
        LET read == [p \in Pid |-> IF p \in refused THEN 0 ELSE proc[p]] IN
        /\ cmd' = [cmd EXCEPT ![i].stage = "decide", ![i].unread = {},
                              ![i].ids = [p \in Pid |-> IF p \in cmd[i].unread
                                                        THEN read[p] ELSE cmd[i].ids[p]]]
        /\ cache' = [cache EXCEPT ![Executor[i]] =
                       [p \in Pid |-> IF p \in cmd[i].unread THEN read[p] ELSE @[p]]]
  BY DEF Probe
<1>. DEFINE ids == [p \in Pid |-> IF p \in cmd[i].unread
                                 THEN IF p \in refused THEN 0 ELSE proc[p]
                                 ELSE cmd[i].ids[p]]
            c == [p \in Pid |-> IF p \in cmd[i].unread
                               THEN IF p \in refused THEN 0 ELSE proc[p]
                               ELSE cache[Executor[i]][p]]
<1>2. /\ cmd' = [cmd EXCEPT ![i].stage = "decide", ![i].unread = {}, ![i].ids = ids]
      /\ cache' = [cache EXCEPT ![Executor[i]] = c]
  BY <1>1
<1>3. /\ ids \in [Pid -> Stamp] /\ c \in [Pid -> Stamp]
      /\ \A p \in Pid : ids[p] \in {0, born[p], cmd[i].ids[p]}
      /\ \A p \in Pid : ids[p] <= born[p] /\ c[p] <= born[p]
  <2>1. /\ proc \in [Pid -> Stamp] /\ cmd[i].ids \in [Pid -> Stamp]
        /\ cache[Executor[i]] \in [Pid -> Stamp] /\ 0 \in Stamp
    BY DEF IInv, TypeOK, Stamp, Command
  <2>2. \A p \in Pid : /\ proc[p] \in {0, born[p]} /\ born[p] \in Nat
                       /\ cmd[i].ids[p] <= born[p] /\ cache[Executor[i]][p] <= born[p]
    BY DEF IInv, TypeOK, ProcOK, RememberedOK, Stamp
  <2>. QED
    BY <2>1, <2>2
<1>. HIDE DEF ids, c
<1>4. cmd[i].stage = "probe" /\ UNCHANGED <<proc, born, up, claims, ahead, eng>>
  BY DEF Probe
<1>5. TypeOK'
  <2>1. [cmd[i] EXCEPT !.stage = "decide", !.unread = {}, !.ids = ids] \in Command
    <3>1. cmd[i] \in Command
      BY DEF IInv, TypeOK
    <3>. QED
      BY <1>3, <3>1 DEF Command
  <2>2. cmd' = [cmd EXCEPT ![i] = [cmd[i] EXCEPT !.stage = "decide", !.unread = {}, !.ids = ids]]
    BY <1>2 DEF IInv, TypeOK
  <2>. QED
    BY <1>2, <1>3, <1>4, <2>1, <2>2 DEF IInv, TypeOK
<1>6. /\ \A j \in Engine \ {i} : cmd'[j] = cmd[j]
      /\ cmd'[i].ids = ids /\ cmd'[i].observed = cmd[i].observed
      /\ cmd'[i].action = cmd[i].action /\ cmd'[i].child = cmd[i].child
      /\ cmd'[i].stage = "decide"
  BY <1>2 DEF IInv, TypeOK, Command
<1>7. ProcOK' /\ EngOK' /\ ClaimOK'
  BY <1>4 DEF IInv, ProcOK, EngOK, ClaimOK, EngineAlive, Active
<1>8. RememberedOK'
  <2>1. \A j \in Engine, p \in Pid : cmd'[j].ids[p] <= born[p]
    BY <1>3, <1>6 DEF IInv, RememberedOK
  <2>2. \A j \in Engine : cmd'[j].observed = cmd[j].observed
    BY <1>6
  <2>3. \A h \in Home, p \in Pid : cache'[h][p] <= born[p]
    BY <1>2, <1>3 DEF IInv, RememberedOK, TypeOK
  <2>. QED
    BY <1>4, <2>1, <2>2, <2>3 DEF IInv, RememberedOK, RecordedOK
\* A stamp read now is the last birth of the pid: no record is newer.
<1>9. BindOK'
  <2>1. ASSUME cmd[i].action = "bind", eng[i].child # NoPid
        PROVE  ids[cmd[i].child] = 0 \/ ids[cmd[i].child] >= eng[i].stamp
    <3>1. /\ cmd[i].child \in Pid /\ cmd[i].child = eng[i].child
          /\ cmd[i].ids[cmd[i].child] = 0 \/ cmd[i].ids[cmd[i].child] >= eng[i].stamp
      BY <2>1 DEF IInv, BindOK
    <3>2. eng[i].stamp <= born[cmd[i].child]
      BY <2>1, <3>1 DEF IInv, EngOK
    <3>3. eng[i].stamp \in Nat /\ born[cmd[i].child] \in Nat
      BY <3>1 DEF IInv, TypeOK, Supervisor, Stamp
    <3>. QED
      BY <1>3, <3>1, <3>2, <3>3
  <2>. QED
    BY <1>4, <1>6, <2>1 DEF IInv, BindOK
<1>10. CommandOK'
  <2>1. ASSUME NEW j \in Engine, cmd[i].observed[j].child # NoPid,
               cmd[i].observed[j].childStamp # 0, ids[cmd[i].observed[j].child] # 0
        PROVE  ids[cmd[i].observed[j].child] >= cmd[i].observed[j].childStamp
    <3>. DEFINE o == cmd[i].observed[j]
    <3>1. o \in Claim /\ o.child \in Pid /\ o.childStamp \in Nat
      BY <2>1 DEF IInv, TypeOK, Command, Claim, Stamp
    <3>2. o.childStamp <= born[o.child] /\ born[o.child] \in Nat
      BY <2>1, <3>1 DEF IInv, RememberedOK, RecordedOK, TypeOK, Stamp
    <3>3. cmd[i].ids[o.child] # 0 => cmd[i].ids[o.child] >= o.childStamp
      BY <2>1 DEF IInv, CommandOK, CommandFine
    <3>. QED
      BY <1>3, <2>1, <3>1, <3>2, <3>3
  <2>2. ASSUME NEW m \in Engine, m # i
        PROVE  CommandFine(m)'
    BY <1>4, <1>6, <2>2 DEF IInv, CommandOK, CommandFine
  <2>3. CommandFine(i)'
    <3>1. cmd[i].stage # "idle" /\ cmd'[i].stage # "idle"
      BY <1>4, <1>6
    <3>2. eng[i].at # "granted" /\
          (eng[i].at \in {"asking", "cancelling"} => cmd[i].action = "acquire")
      BY <3>1 DEF IInv, CommandOK, CommandFine
    <3>. QED
      BY <1>4, <1>6, <2>1, <3>1, <3>2 DEF CommandFine
  <2>. QED
    BY <2>2, <2>3 DEF CommandOK
<1>. QED
  BY <1>5, <1>7, <1>8, <1>9, <1>10 DEF IInv

\* What the invariant needs to know of the table T a transaction of i leaves,
\* whatever it decided: no other row changes its binding, its own row is bound
\* as before or to the pid it asked for, and no live engine lost its claim.
SameRow(j, T) == /\ T[j].phase = claims[j].phase
                 /\ T[j].child = claims[j].child
                 /\ T[j].childStamp = claims[j].childStamp

OwnRow(i, T) ==
  \/ T[i] = Absent
  \/ /\ T[i].phase # "absent"
     /\ \/ T[i].child = NoPid
        \/ /\ cmd[i].action = "bind" /\ T[i].child = cmd[i].child
           /\ T[i].childStamp = cmd[i].ids[cmd[i].child]
        \/ /\ T[i].child = claims[i].child
           /\ T[i].childStamp = claims[i].childStamp

Settled(i, T) ==
  /\ T \in [Engine -> Claim]
  /\ \A j \in Engine \ {i} : T[j] = Absent \/ T[j] = claims[j] \/ SameRow(j, T)
  /\ \A j \in Engine : T[j].phase = "absent" => T[j] = Absent
  /\ OwnRow(i, T)
  /\ \A j \in Engine : EngineAlive(j) \/ eng[j].at = "granted" => j \in Active(T)

\* A stamp between two equal bounds is that stamp.
LEMMA Squeeze ==
  ASSUME NEW m \in Nat, NEW n \in Nat, m = 0 \/ m >= n, m <= n
  PROVE  m = 0 \/ m = n
OBVIOUS

\* What a reply does to the caller: only a grant makes it granted or bound.
LEMMA HeardFacts ==
  ASSUME NEW e \in Supervisor, NEW reply, NEW yield \in BOOLEAN, NEW short \in BOOLEAN,
         NEW n, n = Heard(e, reply, yield, short)
  PROVE  /\ n \in Supervisor /\ n.child = e.child /\ n.stamp = e.stamp
         /\ n.at \in ChildlessAt => e.at \in ChildlessAt
         /\ n.at # "starting"
         /\ n.at \in {"asking", "cancelling"} => e.at = "asking"
         /\ n.at = "granted" => e.at = "granted" \/ (e.at = "asking" /\ reply = "granted")
<1>1. n \in Supervisor
  BY HeardType
<1>2. n.child = e.child /\ n.stamp = e.stamp /\ n.at = NextAt(e, reply, yield, short)
  BY DEF Heard, Supervisor
<1>3. e.at \in At
  BY DEF Supervisor
<1>4. CASE e.at = "asking"
  BY <1>1, <1>2, <1>4 DEF NextAt, ChildlessAt
<1>5. CASE e.at = "cancelling"
  BY <1>1, <1>2, <1>5 DEF NextAt, ChildlessAt
<1>6. CASE e.at = "starting"
  BY <1>1, <1>2, <1>6 DEF NextAt, ChildlessAt
<1>7. CASE e.at = "bound"
  BY <1>1, <1>2, <1>7 DEF NextAt, ChildlessAt
<1>8. CASE e.at = "running"
  BY <1>1, <1>2, <1>8 DEF NextAt, ChildlessAt
<1>9. CASE e.at \notin {"asking", "cancelling", "starting", "bound", "running"}
  <2>1. n.at = e.at
    BY <1>2, <1>9 DEF NextAt
  <2>. QED
    BY <1>1, <1>2, <1>9, <2>1
<1>. QED
  BY <1>4, <1>5, <1>6, <1>7, <1>8, <1>9

\* Any transaction that writes a well-typed table, spares the live and leaves rows alone.
LEMMA SettleStep ==
  ASSUME IInv, NEW i \in Engine, cmd[i].stage = "decide",
         Settled(i, claims'), ahead' \in [Engine -> SUBSET Engine],
         cmd' = [cmd EXCEPT ![i] = NoCommand],
         UNCHANGED <<proc, born, up, cache>>,
         NEW reply, NEW yield \in BOOLEAN, NEW short \in BOOLEAN,
         eng' = [eng EXCEPT ![i] = Heard(@, reply, yield, short)],
         reply = "granted" => i \in Active(claims')
  PROVE  IInv'
<1>. USE ConstantsAssumption DEF Settled
<1>1. eng[i] \in Supervisor /\ cmd[i] \in Command /\ claims[i] \in Claim
  BY DEF IInv, TypeOK
<1>2. eng'[i] = Heard(eng[i], reply, yield, short) /\ cmd'[i] = NoCommand
  BY DEF IInv, TypeOK
<1>3. \A j \in Engine \ {i} : eng'[j] = eng[j] /\ cmd'[j] = cmd[j]
  BY DEF IInv, TypeOK
<1>4. /\ eng'[i] \in Supervisor /\ eng'[i].child = eng[i].child /\ eng'[i].stamp = eng[i].stamp
      /\ eng'[i].at \in ChildlessAt => eng[i].at \in ChildlessAt
      /\ eng'[i].at # "starting"
      /\ eng'[i].at \in {"asking", "cancelling"} => eng[i].at = "asking"
      /\ eng'[i].at = "granted" =>
           eng[i].at = "granted" \/ (eng[i].at = "asking" /\ reply = "granted")
  BY <1>1, <1>2, HeardFacts
<1>5. TypeOK'
  BY <1>4, <1>2, RecordTypes DEF IInv, TypeOK
<1>6. ProcOK'
  BY DEF IInv, ProcOK
<1>7. EngOK'
  BY <1>3, <1>4 DEF IInv, EngOK
<1>8. Absent.child = NoPid /\ Absent.phase = "absent"
  BY DEF Absent
<1>9. RecordedOK(claims)'
  <2>1. ASSUME NEW j \in Engine, j # i, claims'[j].child # NoPid
        PROVE  claims'[j].childStamp <= born[claims'[j].child]
    BY <1>8, <2>1 DEF SameRow, IInv, RememberedOK, RecordedOK
  <2>2. ASSUME claims'[i].child # NoPid
        PROVE  claims'[i].childStamp <= born[claims'[i].child]
    BY <1>8, <2>2 DEF OwnRow, IInv, RememberedOK, RecordedOK, BindOK
  <2>. QED
    BY <2>1, <2>2 DEF RecordedOK
<1>10. RememberedOK'
  <2>1. RecordedOK(NoCommand.observed)
    BY <1>8 DEF RecordedOK, NoCommand
  <2>2. \A p \in Pid : NoCommand.ids[p] <= born[p]
    BY DEF NoCommand, IInv, TypeOK, Stamp
  <2>. QED
    BY <1>2, <1>3, <1>9, <2>1, <2>2 DEF IInv, RememberedOK, RecordedOK
<1>11. BindOK'
  BY <1>2, <1>3 DEF IInv, BindOK, NoCommand
<1>12. CommandOK'
  <2>1. CommandFine(i)'
    BY <1>2, <1>8 DEF CommandFine, NoCommand
  <2>2. ASSUME NEW j \in Engine, j # i PROVE CommandFine(j)'
    BY <1>3, <2>2 DEF IInv, CommandOK, CommandFine
  <2>. QED
    BY <2>1, <2>2 DEF CommandOK
<1>13. ClaimOK'
  <2>1. \A j \in Engine : EngineAlive(j)' <=> EngineAlive(j)
    BY <1>3, <1>4 DEF EngineAlive
  <2>2. ASSUME NEW j \in Engine, eng'[j].at \in {"asking", "cancelling", "granted"}
        PROVE  claims'[j].child = NoPid
    <3>1. CASE j # i
      BY <1>3, <1>8, <2>2, <3>1 DEF SameRow, IInv, ClaimOK
    <3>2. CASE j = i
      <4>1. eng[i].at # "granted" /\ eng[i].at = "asking"
        BY <1>4, <2>2, <3>2 DEF IInv, CommandOK, CommandFine
      <4>2. cmd[i].action = "acquire" /\ claims[i].child = NoPid
        BY <4>1 DEF IInv, CommandOK, CommandFine, ClaimOK
      <4>. QED
        BY <1>8, <3>2, <4>2 DEF OwnRow
    <3>. QED
      BY <3>1, <3>2
  <2>3. ASSUME NEW j \in Engine, eng'[j].at = "granted" PROVE j \in Active(claims')
    <3>1. CASE j # i
      BY <1>3, <2>3, <3>1
    <3>2. CASE j = i
      BY <1>4, <2>3, <3>2 DEF IInv, CommandOK, CommandFine
    <3>. QED
      BY <3>1, <3>2
  <2>4. ASSUME NEW j \in Engine, EngineAlive(j)
        PROVE  /\ claims'[j].child \in {NoPid, eng[j].child}
               /\ claims'[j].child # NoPid => claims'[j].childStamp \in {0, eng[j].stamp}
    <3>1. CASE j # i
      BY <1>8, <2>4, <3>1 DEF SameRow, IInv, ClaimOK
    <3>2. CASE j = i /\ cmd[i].action # "bind"
      BY <1>8, <2>4, <3>2 DEF OwnRow, IInv, ClaimOK
    <3>3. CASE j = i /\ cmd[i].action = "bind"
      <4>1. eng[i].child # NoPid /\ cmd[i].child = eng[i].child /\ cmd[i].child \in Pid
        BY <2>4, <3>3 DEF EngineAlive, IInv, BindOK
      <4>2. cmd[i].ids[cmd[i].child] = 0 \/ cmd[i].ids[cmd[i].child] >= eng[i].stamp
        BY <4>1, <3>3 DEF IInv, BindOK
      <4>3. cmd[i].ids[cmd[i].child] <= eng[i].stamp
        <5>1. proc[eng[i].child] = eng[i].stamp /\ eng[i].stamp # 0
          BY <2>4, <3>3, <4>1 DEF EngineAlive, IInv, EngOK
        <5>2. born[cmd[i].child] = eng[i].stamp
          BY <4>1, <5>1 DEF IInv, ProcOK
        <5>. QED
          BY <4>1, <5>2 DEF IInv, RememberedOK
      <4>4. cmd[i].ids[cmd[i].child] \in Nat /\ eng[i].stamp \in Nat
        BY <1>1, <4>1 DEF Command, Supervisor, Stamp
      <4>5. cmd[i].ids[cmd[i].child] = 0 \/ cmd[i].ids[cmd[i].child] = eng[i].stamp
        BY <4>2, <4>3, <4>4, Squeeze
      <4>. QED
        BY <1>8, <2>4, <3>3, <4>1, <4>5 DEF OwnRow, IInv, ClaimOK
    <3>. QED
      BY <3>1, <3>2, <3>3
  <2>. QED
    BY <1>3, <1>4, <2>1, <2>2, <2>3, <2>4 DEF ClaimOK
<1>. QED
  BY <1>5, <1>6, <1>7, <1>10, <1>11, <1>12, <1>13 DEF IInv

\* The pruned table with the own row inserted or revised is such a table.
LEMMA TableSettles ==
  ASSUME IInv, NEW i \in Engine
  PROVE  Settled(i, Table(i, cmd[i]))
<1>. DEFINE k == cmd[i]  T == Table(i, k)
<1>1. k \in Command /\ (k.action = "bind" => k.child \in Pid) /\ TypeOK
  BY DEF IInv, TypeOK, BindOK
<1>2. T \in [Engine -> Claim]
  BY <1>1, TableType
<1>3. /\ \A j \in Engine \ {i} : T[j] = claims[j] \/ T[j] = Absent
      /\ \/ T[i] = Absent
         \/ T[i] = NewClaim(i, k) /\ k.action = "acquire"
         \/ T[i] = Revise(claims[i], k) /\ claims[i].phase # "absent"
         \/ T[i] = claims[i] /\ claims[i].phase = "absent"
  BY RowsOfTable
<1>4. claims[i] \in Claim /\ \A j \in Engine : claims[j].phase = "absent" => claims[j] = Absent
  BY <1>1 DEF TypeOK, IInv, ClaimOK
<1>5. OwnRow(i, T)
  <2>1. CASE T[i] = NewClaim(i, k)
    BY <2>1 DEF NewClaim, OwnRow
  <2>2. CASE T[i] = Revise(claims[i], k) /\ claims[i].phase # "absent"
    BY <1>4, <2>2 DEF Revise, OwnRow, Claim
  <2>. QED
    BY <1>3, <1>4, <2>1, <2>2 DEF OwnRow
<1>6. ASSUME NEW j \in Engine, T[j].phase = "absent" PROVE T[j] = Absent
  BY <1>3, <1>4, <1>5, <1>6 DEF OwnRow
<1>7. ASSUME NEW j \in Engine, EngineAlive(j) \/ eng[j].at = "granted" PROVE j \in Active(T)
  <2>1. j \notin Pruned(k)
    BY <1>7, PruneSpares
  <2>2. claims[j].phase \in {"loading", "ready"}
    BY <1>7 DEF IInv, ClaimOK, Active
  <2>3. AfterPrune(k)[j] = claims[j]
    BY <2>1 DEF AfterPrune
  <2>4. T[j] = claims[j] \/ (j = i /\ T[j] = Revise(claims[j], k))
    BY <2>2, <2>3 DEF Table, Enters, AfterPrune
  <2>5. j = i => Revise(claims[j], k).phase \in {"loading", "ready"}
    BY <1>4, <2>2 DEF Revise, Claim
  <2>. QED
    BY <2>2, <2>4, <2>5 DEF Active
<1>. HIDE DEF T
<1>8. Settled(i, T)
  BY <1>2, <1>3, <1>5, <1>6, <1>7 DEF Settled
<1>. QED
  BY <1>8 DEF T

\* It stays one when a claim is granted and those behind count a bypass.
LEMMA GrantSettles ==
  ASSUME NEW i \in Engine, NEW T, Settled(i, T), T[i].phase = "waiting", NEW ah
  PROVE  Settled(i, Granted(i, T, ah)) /\ i \in Active(Granted(i, T, ah))
<1>. DEFINE G == Granted(i, T, ah)
<1>1. T \in [Engine -> Claim]
  BY DEF Settled
<1>2. ASSUME NEW j \in Engine
      PROVE  /\ G[j] \in Claim /\ G[j].child = T[j].child /\ G[j].childStamp = T[j].childStamp
             /\ G[j].phase = IF j = i THEN "loading" ELSE T[j].phase
             /\ T[j].phase = "absent" => G[j] = T[j]
  <2>1. T[j] \in Claim /\ G[j] = IF j = i THEN [T[j] EXCEPT !.phase = "loading"]
                                ELSE IF j \in Waiting(T) \cap ah[i]
                                     THEN [T[j] EXCEPT !.bypasses = @ + 1] ELSE T[j]
    BY <1>1 DEF Granted
  <2>. QED
    BY <2>1 DEF Claim, Phase, Waiting
<1>3. G = [j \in Engine |-> G[j]]
  BY DEF Granted
<1>. HIDE DEF G
<1>4. G \in [Engine -> Claim]
  BY <1>2, <1>3
<1>5. \A j \in Engine \ {i} : G[j] = Absent \/ SameRow(j, G)
  BY <1>2 DEF Settled, SameRow, Absent
<1>6. \A j \in Engine : G[j].phase = "absent" => G[j] = Absent
  BY <1>2 DEF Settled
<1>7. OwnRow(i, G)
  BY <1>2 DEF Settled, OwnRow, Absent
<1>8. i \in Active(G) /\ \A j \in Active(T) : j \in Active(G)
  BY <1>2 DEF Active
<1>9. Settled(i, G)
  BY <1>4, <1>5, <1>6, <1>7, <1>8 DEF Settled
<1>. QED
  BY <1>8, <1>9 DEF G

\* The insertion order is a set of rows for each row.
LEMMA OrderType ==
  ASSUME TypeOK, NEW T, NEW entered
  PROVE  Order(T, entered) \in [Engine -> SUBSET Engine]
BY DEF Order, TypeOK, Present

\* The head of the queue waits.
LEMMA FirstWaits ==
  ASSUME NEW i, NEW T, NEW ah, First(i, T, ah)
  PROVE  i \in Waiting(T)
BY DEF First, Candidates, Due, Foreground

\* The four outcomes of the transaction.
LEMMA TransactStep ==
  ASSUME IInv, NEW i \in Engine, Transact(i)
  PROVE  IInv'
<1>. DEFINE T == Table(i, cmd[i])  ah == Order(T, Entered(i, cmd[i]))
<1>1. TypeOK /\ cmd[i].stage = "decide"
  BY DEF IInv, Transact, Deny, Missing, Grant, Keep
<1>2. Settled(i, T)
  BY TableSettles
<1>3. CASE Deny(i)
  <2>. DEFINE reply == "denied"
  <2>1. /\ claims' = claims /\ ahead' = ahead /\ cmd' = [cmd EXCEPT ![i] = NoCommand]
        /\ UNCHANGED <<proc, born, up, cache>>
        /\ eng' = [eng EXCEPT ![i] = Heard(@, reply, FALSE, FALSE)]
        /\ reply # "granted"
    BY <1>3 DEF Deny, Commit
  <2>2. Settled(i, claims')
    BY <2>1 DEF Settled, OwnRow, IInv, TypeOK, ClaimOK
  <2>3. ahead' \in [Engine -> SUBSET Engine]
    BY <1>1, <2>1 DEF TypeOK
  <2>. HIDE DEF reply
  <2>. QED
    BY <1>1, <2>1, <2>2, <2>3, SettleStep
<1>4. CASE Missing(i)
  <2>. DEFINE reply == "released"
  <2>1. /\ claims' = T /\ ahead' = Order(T, {}) /\ cmd' = [cmd EXCEPT ![i] = NoCommand]
        /\ UNCHANGED <<proc, born, up, cache>>
        /\ eng' = [eng EXCEPT ![i] = Heard(@, reply, FALSE, FALSE)]
        /\ reply # "granted"
    BY <1>4 DEF Missing, Commit
  <2>2. ahead' \in [Engine -> SUBSET Engine]
    BY <1>1, <2>1, OrderType
  <2>. HIDE DEF T, reply
  <2>. QED
    BY <1>1, <1>2, <2>1, <2>2, SettleStep
<1>5. CASE Grant(i)
  <2>1. /\ claims' = Granted(i, T, ah) /\ ahead' = ah /\ cmd' = [cmd EXCEPT ![i] = NoCommand]
        /\ UNCHANGED <<proc, born, up, cache>>
        /\ eng' = [eng EXCEPT ![i] = Heard(@, "granted", FALSE, FALSE)]
        /\ First(i, T, ah)
    BY <1>5 DEF Grant, Commit, Admits
  <2>2. ahead' \in [Engine -> SUBSET Engine]
    BY <1>1, <2>1, OrderType
  <2>. HIDE DEF T, ah
  <2>3. T[i].phase = "waiting"
    BY <2>1, FirstWaits DEF Waiting
  <2>4. Settled(i, claims') /\ i \in Active(claims')
    BY <1>2, <2>1, <2>3, GrantSettles
  <2>. QED
    BY <1>1, <2>1, <2>2, <2>4, SettleStep
<1>6. CASE Keep(i)
  <2>. DEFINE reply == IF T[i].phase = "waiting" THEN "waiting" ELSE "granted"
              yield == ReleaseRequested(i, T, ah, cmd[i].sample)
              short == ExternalShortfall(i, T, ah, cmd[i].sample)
  <2>1. /\ claims' = T /\ ahead' = ah /\ cmd' = [cmd EXCEPT ![i] = NoCommand]
        /\ UNCHANGED <<proc, born, up, cache>>
        /\ eng' = [eng EXCEPT ![i] = Heard(@, reply, yield, short)]
        /\ T[i].phase # "absent"
    BY <1>6 DEF Keep, Commit
  <2>2. ahead' \in [Engine -> SUBSET Engine]
    BY <1>1, <2>1, OrderType
  <2>3. yield \in BOOLEAN /\ short \in BOOLEAN
    BY DEF ReleaseRequested, ExternalShortfall
  <2>4. reply = "granted" => i \in Active(T)
    <3>1. T[i].phase \in Phase
      BY <1>2 DEF Settled, Claim
    <3>. QED
      BY <2>1, <3>1 DEF Active, Phase
  <2>. HIDE DEF T, ah, reply, yield, short
  <2>. QED
    BY <1>1, <1>2, <2>1, <2>2, <2>3, <2>4, SettleStep
<1>. QED
  BY <1>3, <1>4, <1>5, <1>6 DEF Transact

\* The own row and the rows of the dead go.
LEMMA ReleaseStep ==
  ASSUME IInv, NEW i \in Engine, Release(i)
  PROVE  IInv'
<1>. USE ConstantsAssumption
<1>. DEFINE dead == {j \in Present(claims) : Stale(j, claims[j], [p \in Pid |-> 0])}
<1>1. /\ claims' = [j \in Engine |-> IF j \in dead \cup {i} THEN Absent ELSE claims[j]]
      /\ ahead' = Order(claims', {})
  BY DEF Release
<1>2. eng' = [eng EXCEPT ![i] = Off] /\ UNCHANGED <<proc, born, up, cache, cmd>>
      /\ eng[i].at = "closing"
  BY DEF Release
<1>3. TypeOK'
  BY <1>1, <1>2, RecordTypes, OrderType DEF IInv, TypeOK
<1>4. eng'[i] = Off /\ eng[i].child = NoPid /\ \A j \in Engine \ {i} : eng'[j] = eng[j]
  BY <1>2 DEF IInv, TypeOK, EngOK, ChildlessAt
<1>5. Absent.child = NoPid /\ Absent.phase = "absent" /\ Off.child = NoPid /\ Off.at = "off"
  BY DEF Absent, Off
<1>6. ProcOK'
  BY <1>2 DEF IInv, ProcOK
<1>7. EngOK'
  BY <1>2, <1>4, <1>5 DEF IInv, EngOK
<1>8. RememberedOK'
  BY <1>1, <1>2, <1>5 DEF IInv, RememberedOK, RecordedOK
<1>9. BindOK' /\ CommandOK'
  BY <1>2, <1>4, <1>5 DEF IInv, BindOK, CommandOK, CommandFine
<1>10. ClaimOK'
  <2>1. ASSUME NEW j \in Engine, j # i, EngineAlive(j) \/ eng[j].at = "granted"
        PROVE  claims'[j] = claims[j]
    BY <1>1, <2>1, ReleaseSpares
  <2>2. \A j \in Engine : EngineAlive(j)' <=> EngineAlive(j) /\ j # i
    BY <1>2, <1>4, <1>5 DEF EngineAlive
  <2>3. \A j \in Engine : claims'[j] = Absent \/ claims'[j] = claims[j]
    BY <1>1
  <2>. QED
    BY <1>4, <1>5, <2>1, <2>2, <2>3 DEF IInv, ClaimOK, Active
<1>. QED
  BY <1>3, <1>6, <1>7, <1>8, <1>9, <1>10 DEF IInv

\* A step of one supervisor alone, its child kept or let go.
LEMMA SupervisorStep ==
  ASSUME IInv, NEW i \in Engine, NEW n \in Supervisor,
         eng' = [eng EXCEPT ![i] = n],
         UNCHANGED <<proc, born, up, claims, ahead, cache, cmd>>,
         n.child = NoPid \/ (n.child = eng[i].child /\ n.stamp = eng[i].stamp),
         n.at \in ChildlessAt => n.child = NoPid,
         n.at # "starting",
         n.at # "granted",
         n.at \in {"asking", "cancelling"} =>
           claims[i].child = NoPid /\ (cmd[i].stage # "idle" => cmd[i].action = "acquire")
  PROVE  IInv'
<1>1. eng'[i] = n /\ \A j \in Engine \ {i} : eng'[j] = eng[j]
  BY DEF IInv, TypeOK
<1>2. TypeOK' /\ ProcOK' /\ RememberedOK'
  BY DEF IInv, TypeOK, ProcOK, RememberedOK, RecordedOK
<1>3. EngOK'
  BY <1>1 DEF IInv, EngOK
<1>4. \A j \in Engine : EngineAlive(j)' => EngineAlive(j) /\ eng'[j].child = eng[j].child
                                        /\ eng'[j].stamp = eng[j].stamp
  BY <1>1 DEF EngineAlive
<1>5. ClaimOK'
  BY <1>1, <1>4 DEF IInv, ClaimOK, Active
<1>6. BindOK'
  BY <1>1 DEF IInv, BindOK
<1>7. CommandOK'
  <2>1. CommandFine(i)'
    BY <1>1 DEF IInv, CommandOK, CommandFine
  <2>2. ASSUME NEW j \in Engine, j # i PROVE CommandFine(j)'
    BY <1>1, <2>2 DEF IInv, CommandOK, CommandFine
  <2>. QED
    BY <2>1, <2>2 DEF CommandOK
<1>. QED
  BY <1>2, <1>3, <1>5, <1>6, <1>7 DEF IInv

\* A failed call never leaves a supervisor granted, nor invents a child.
LEMMA FailedFacts ==
  ASSUME NEW e \in Supervisor
  PROVE  /\ Failed(e) \in Supervisor
         /\ Failed(e).child = e.child /\ Failed(e).stamp = e.stamp
         /\ Failed(e).at = e.at \/ (Failed(e).at = "closing" /\ e.at \in {"asking", "cancelling"})
              \/ (Failed(e).at = "stopping" /\ e.at \in {"starting", "bound"})
         /\ Failed(e).at \notin {"starting", "bound", "asking", "cancelling"}
<1>0. e.at \in At
  BY DEF Supervisor
<1>1. CASE e.at \in {"asking", "cancelling"}
  BY <1>1, FailedType DEF Failed, Supervisor
<1>2. CASE e.at \in {"starting", "bound"}
  BY <1>2, FailedType DEF Failed, Supervisor
<1>3. CASE e.at \notin {"asking", "cancelling", "starting", "bound"}
  <2>1. Failed(e) = e
    BY <1>3 DEF Failed
  <2>. QED
    BY <1>3, <2>1
<1>. QED
  BY <1>1, <1>2, <1>3

\* Start, cancel, stop, drain, exit handling, timeouts and a broker out of reach.
LEMMA SupervisorSteps ==
  ASSUME IInv, NEW i \in Engine,
         \/ Start(i) \/ Cancel(i) \/ SpawnFails(i) \/ Stop(i) \/ Drained(i)
         \/ YieldTimesOut(i) \/ HandleExit(i) \/ TimeOut(i) \/ Unreachable(i)
  PROVE  IInv'
<1>. USE ConstantsAssumption
<1>1. UNCHANGED <<proc, born, up, claims, ahead, cache, cmd>>
  BY DEF Start, Cancel, SpawnFails, Stop, Drained, YieldTimesOut, HandleExit, TimeOut, Unreachable
<1>2. eng[i] \in Supervisor /\ eng \in [Engine -> Supervisor] /\ 0 \in Stamp
  BY DEF IInv, TypeOK, Stamp
<1>3. eng[i].at \in ChildlessAt => eng[i].child = NoPid
  BY DEF IInv, EngOK
<1>4. CASE Start(i)
  <2>. DEFINE n == [Off EXCEPT !.at = "asking"]
  <2>1. n \in Supervisor /\ n.child = NoPid /\ n.at = "asking"
    BY <1>2 DEF Off, Supervisor, At
  <2>2. claims[i].child = NoPid /\ cmd[i].stage = "idle"
    BY <1>4 DEF Start, IInv, ClaimOK, Absent
  <2>3. eng' = [eng EXCEPT ![i] = n]
    BY <1>4 DEF Start
  <2>. HIDE DEF n
  <2>. QED
    BY <1>1, <2>1, <2>2, <2>3, SupervisorStep DEF ChildlessAt
<1>5. CASE Cancel(i)
  <2>. DEFINE n == [eng[i] EXCEPT !.at = IF cmd[i].stage = "idle" THEN "closing" ELSE "cancelling",
                                  !.short = 0]
  <2>1. /\ n \in Supervisor /\ n.child = eng[i].child /\ n.at \in {"closing", "cancelling"}
        /\ n.stamp = eng[i].stamp
    BY <1>2 DEF Supervisor, At
  <2>2. eng' = [eng EXCEPT ![i] = n] /\ eng[i].at = "asking"
    BY <1>2, <1>5 DEF Cancel
  <2>3. claims[i].child = NoPid /\ (cmd[i].stage # "idle" => cmd[i].action = "acquire")
    BY <2>2 DEF IInv, ClaimOK, CommandOK, CommandFine
  <2>. HIDE DEF n
  <2>. QED
    BY <1>1, <1>3, <2>1, <2>2, <2>3, SupervisorStep DEF ChildlessAt
<1>6. CASE SpawnFails(i) \/ Stop(i) \/ Drained(i) \/ YieldTimesOut(i)
  <2>1. PICK at \in {"closing", "stopping", "running"} :
          /\ eng' = [eng EXCEPT ![i].at = at]
          /\ at = "closing" => eng[i].at = "granted"
    BY <1>6 DEF SpawnFails, Stop, Drained, YieldTimesOut
  <2>. DEFINE n == [eng[i] EXCEPT !.at = at]
  <2>2. n \in Supervisor /\ n.child = eng[i].child /\ n.stamp = eng[i].stamp /\ n.at = at
    BY <1>2 DEF Supervisor, At
  <2>3. eng' = [eng EXCEPT ![i] = n]
    BY <1>2, <2>1
  <2>. HIDE DEF n
  <2>. QED
    BY <1>1, <1>3, <2>1, <2>2, <2>3, SupervisorStep DEF ChildlessAt
<1>7. CASE HandleExit(i)
  <2>. DEFINE n == [Off EXCEPT !.at = "closing"]
  <2>1. n \in Supervisor /\ n.child = NoPid /\ n.at = "closing"
    BY <1>2 DEF Off, Supervisor, At
  <2>2. eng' = [eng EXCEPT ![i] = n]
    BY <1>7 DEF HandleExit
  <2>. HIDE DEF n
  <2>. QED
    BY <1>1, <2>1, <2>2, SupervisorStep
<1>8. CASE eng' = [eng EXCEPT ![i] = Failed(@)] /\ (TimeOut(i) \/ Unreachable(i))
  <2>1. eng[i].at \in {"asking", "cancelling", "starting", "bound", "closing"}
    BY <1>8 DEF TimeOut, Unreachable
  <2>. DEFINE n == Failed(eng[i])
  <2>2. /\ n \in Supervisor /\ n.child = eng[i].child /\ n.stamp = eng[i].stamp
        /\ n.at = "closing" => eng[i].at \in {"asking", "cancelling", "closing"}
        /\ n.at \in {"closing", "stopping"}
    BY <1>2, <2>1, FailedFacts
  <2>3. eng' = [eng EXCEPT ![i] = n]
    BY <1>8
  <2>. HIDE DEF n
  <2>. QED
    BY <1>1, <1>3, <2>2, <2>3, SupervisorStep DEF ChildlessAt
<1>9. CASE eng' = [eng EXCEPT ![i] = Off]
  BY <1>1, <1>9, RecordTypes, SupervisorStep DEF Off
<1>. QED
  BY <1>4, <1>5, <1>6, <1>7, <1>8, <1>9 DEF TimeOut, Unreachable

\* A step that gives birth at most once per pid, or ends processes, and
\* touches no claim: no engine comes alive but a fresh child.
LEMMA BirthStep ==
  ASSUME IInv, proc' \in [Pid -> Stamp], born' \in [Pid -> Stamp], up' \subseteq Home,
         UNCHANGED <<claims, ahead>>,
         \A p \in Pid : born[p] <= born'[p],
         \A p \in Pid : \/ proc'[p] = 0
                        \/ proc'[p] = proc[p] /\ born'[p] = born[p]
                        \/ proc'[p] = born'[p] /\ born'[p] = born[p] + 1
  PROVE  /\ ProcOK'
         /\ RecordedOK(claims)'
         /\ \A j \in Engine : eng'[j].child = eng[j].child /\ eng'[j].stamp = eng[j].stamp
              /\ EngineAlive(j)' => EngineAlive(j)
<1>1. \A p \in Pid : proc[p] \in {0, born[p]} /\ born[p] \in Nat /\ born'[p] \in Nat
  BY DEF IInv, TypeOK, ProcOK, Stamp
<1>2. ProcOK'
  BY <1>1 DEF ProcOK
<1>3. RecordedOK(claims)'
  <2>1. ASSUME NEW j \in Engine, claims[j].child # NoPid
        PROVE  claims[j].childStamp <= born'[claims[j].child]
    <3>1. /\ claims[j].child \in Pid /\ claims[j].childStamp \in Nat
          /\ claims[j].childStamp <= born[claims[j].child]
      BY <2>1 DEF IInv, TypeOK, Claim, RememberedOK, RecordedOK, Stamp
    <3>. QED
      BY <1>1, <3>1
  <2>. QED
    BY <2>1 DEF RecordedOK
<1>4. ASSUME NEW j \in Engine, eng'[j].child = eng[j].child, eng'[j].stamp = eng[j].stamp,
             EngineAlive(j)'
      PROVE  EngineAlive(j)
  <2>1. /\ eng[j].child \in Pid /\ eng[j].stamp \in Nat /\ eng[j].stamp # 0
        /\ eng[j].stamp <= born[eng[j].child] /\ proc'[eng[j].child] = eng[j].stamp
        /\ eng[j].child # NoPid
    BY <1>4 DEF EngineAlive, IInv, TypeOK, Supervisor, EngOK, Stamp
  <2>2. proc'[eng[j].child] = proc[eng[j].child]
    BY <1>1, <2>1
  <2>. QED
    BY <2>1, <2>2 DEF EngineAlive
<1>. QED
  BY <1>2, <1>3, <1>4

\* More births never make a remembered stamp too new.
LEMMA RememberedGrows ==
  ASSUME IInv, \A p \in Pid : born[p] <= born'[p] /\ born'[p] \in Nat,
         RecordedOK(claims)', UNCHANGED cache, UNCHANGED cmd
  PROVE  RememberedOK'
<1>1. \A p \in Pid : born[p] \in Nat
  BY DEF IInv, TypeOK, Stamp
<1>2. ASSUME NEW i \in Engine, NEW j \in Engine, cmd[i].observed[j].child # NoPid
      PROVE  cmd[i].observed[j].childStamp <= born'[cmd[i].observed[j].child]
  <2>. DEFINE o == cmd[i].observed[j]
  <2>1. o.child \in Pid /\ o.childStamp \in Nat /\ o.childStamp <= born[o.child]
    BY <1>2 DEF IInv, TypeOK, Command, Claim, RememberedOK, RecordedOK, Stamp
  <2>. QED
    BY <1>1, <2>1
<1>3. ASSUME NEW i \in Engine, NEW p \in Pid PROVE cmd[i].ids[p] <= born'[p]
  <2>1. cmd[i].ids[p] \in Nat /\ cmd[i].ids[p] <= born[p]
    BY DEF IInv, TypeOK, Command, RememberedOK, Stamp
  <2>. QED
    BY <1>1, <2>1
<1>4. ASSUME NEW h \in Home, NEW p \in Pid PROVE cache[h][p] <= born'[p]
  <2>1. cache[h][p] \in Nat /\ cache[h][p] <= born[p]
    BY DEF IInv, TypeOK, RememberedOK, Stamp
  <2>. QED
    BY <1>1, <2>1
<1>. QED
  BY <1>2, <1>3, <1>4 DEF RememberedOK, RecordedOK

\* A child that exits stops needing its claim.
LEMMA EngineExitsStep ==
  ASSUME IInv, NEW i \in Engine, EngineExits(i)
  PROVE  IInv'
<1>1. UNCHANGED <<born, up, claims, ahead, cache, cmd, eng>>
  BY DEF EngineExits
<1>2. /\ proc' \in [Pid -> Stamp] /\ born' \in [Pid -> Stamp] /\ up' \subseteq Home
      /\ \A p \in Pid : proc'[p] = 0 \/ proc'[p] = proc[p]
      /\ \A p \in Pid : born[p] <= born'[p]
  <2>1. /\ proc' = [proc EXCEPT ![eng[i].child] = 0] /\ born' = born /\ up' = up
        /\ 0 \in Stamp
    BY ConstantsAssumption DEF EngineExits, Stamp
  <2>2. proc \in [Pid -> Stamp] /\ born \in [Pid -> Stamp] /\ up \subseteq Home
    BY DEF IInv, TypeOK
  <2>3. \A p \in Pid : born[p] \in Nat
    BY <2>2 DEF Stamp
  <2>4. \A p \in Pid : proc'[p] = 0 \/ proc'[p] = proc[p]
    BY <2>1, <2>2
  <2>5. proc' \in [Pid -> Stamp]
    BY <2>1, <2>2
  <2>. QED
    BY <2>1, <2>2, <2>3, <2>4, <2>5
<1>3. ProcOK' /\ \A j \in Engine : EngineAlive(j)' => EngineAlive(j)
  BY <1>1, <1>2, BirthStep
<1>4. TypeOK' /\ RememberedOK' /\ EngOK' /\ BindOK' /\ CommandOK'
  BY <1>1, <1>2 DEF IInv, TypeOK, RememberedOK, RecordedOK, EngOK, BindOK, CommandOK, CommandFine
<1>5. ClaimOK'
  BY <1>1, <1>3 DEF IInv, ClaimOK, Active
<1>. QED
  BY <1>3, <1>4, <1>5 DEF IInv

\* A daemon is reborn, at a stamp nobody remembers.
LEMMA HomeRestartStep ==
  ASSUME IInv, NEW h \in Home, HomeRestart(h)
  PROVE  IInv'
<1>. USE ConstantsAssumption
<1>1. UNCHANGED <<claims, ahead, cache, cmd, eng>> /\ h \in Pid
  BY DEF HomeRestart
<1>2. \A p \in Pid : born[p] \in Nat
  BY DEF IInv, TypeOK, Stamp
<1>3. /\ proc' = [proc EXCEPT ![h] = born[h] + 1] /\ born' = [born EXCEPT ![h] = born[h] + 1]
      /\ born[h] + 1 \in Stamp /\ up' = up \cup {h}
  BY <1>1, <1>2 DEF HomeRestart, IInv, TypeOK, Stamp
<1>4. /\ proc' \in [Pid -> Stamp] /\ born' \in [Pid -> Stamp] /\ up' \subseteq Home
      /\ \A p \in Pid : born[p] <= born'[p] /\ born'[p] \in Nat
      /\ \A p \in Pid : \/ proc'[p] = 0
                        \/ proc'[p] = proc[p] /\ born'[p] = born[p]
                        \/ proc'[p] = born'[p] /\ born'[p] = born[p] + 1
  BY <1>1, <1>2, <1>3 DEF IInv, TypeOK
<1>5. ProcOK' /\ RecordedOK(claims)' /\ \A j \in Engine : EngineAlive(j)' => EngineAlive(j)
  BY <1>1, <1>4, BirthStep
<1>6. TypeOK' /\ BindOK' /\ CommandOK'
  BY <1>1, <1>4 DEF IInv, TypeOK, BindOK, CommandOK, CommandFine
<1>7. EngOK'
  <2>1. ASSUME NEW j \in Engine, eng[j].child # NoPid
        PROVE  eng[j].stamp # 0 /\ eng[j].stamp <= born'[eng[j].child]
    <3>1. /\ eng[j].child \in Pid /\ eng[j].stamp \in Nat
          /\ eng[j].stamp # 0 /\ eng[j].stamp <= born[eng[j].child]
      BY <2>1 DEF IInv, TypeOK, Supervisor, EngOK, Stamp
    <3>. QED
      BY <1>2, <1>4, <3>1
  <2>. QED
    BY <1>1, <2>1 DEF IInv, EngOK
<1>8. RememberedOK'
  BY <1>1, <1>2, <1>4, <1>5, RememberedGrows
<1>9. ClaimOK'
  BY <1>1, <1>5 DEF IInv, ClaimOK, Active
<1>. QED
  BY <1>5, <1>6, <1>7, <1>8, <1>9 DEF IInv

\* A child is born at a pid whose earlier births are older, and its claim is granted.
LEMMA SpawnStep ==
  ASSUME IInv, NEW i \in Engine, Spawn(i)
  PROVE  IInv'
<1>. USE ConstantsAssumption
<1>1. PICK p \in Pid :
        /\ proc[p] = 0 /\ born[p] < Births
        /\ proc' = [proc EXCEPT ![p] = born[p] + 1]
        /\ born' = [born EXCEPT ![p] = @ + 1]
        /\ eng' = [eng EXCEPT ![i].at = "starting", ![i].child = p, ![i].stamp = born[p] + 1]
  BY DEF Spawn
<1>2. UNCHANGED <<up, claims, ahead, cache, cmd>> /\ eng[i].at = "granted"
  BY DEF Spawn
<1>3. \A q \in Pid : born[q] \in Nat
  BY DEF IInv, TypeOK, Stamp
<1>4. born[p] + 1 \in Stamp /\ p # NoPid
  BY <1>1, <1>3 DEF Stamp
<1>5. /\ proc' \in [Pid -> Stamp] /\ born' \in [Pid -> Stamp] /\ up' \subseteq Home
      /\ \A q \in Pid : born[q] <= born'[q] /\ born'[q] \in Nat
      /\ \A q \in Pid : \/ proc'[q] = 0
                        \/ proc'[q] = proc[q] /\ born'[q] = born[q]
                        \/ proc'[q] = born'[q] /\ born'[q] = born[q] + 1
      /\ born'[p] = born[p] + 1
  BY <1>1, <1>2, <1>3, <1>4 DEF IInv, TypeOK
<1>6. ProcOK' /\ RecordedOK(claims)'
      /\ \A j \in Engine : eng'[j].child = eng[j].child /\ eng'[j].stamp = eng[j].stamp
           /\ EngineAlive(j)' => EngineAlive(j)
  BY <1>2, <1>5, BirthStep
<1>7. /\ \A j \in Engine \ {i} : eng'[j] = eng[j]
      /\ eng'[i].at = "starting" /\ eng'[i].child = p /\ eng'[i].stamp = born[p] + 1
      /\ eng' \in [Engine -> Supervisor]
  <2>. DEFINE n == [eng[i] EXCEPT !.at = "starting", !.child = p, !.stamp = born[p] + 1]
  <2>1. eng \in [Engine -> Supervisor] /\ eng' = [eng EXCEPT ![i] = n]
    BY <1>1 DEF IInv, TypeOK
  <2>2. n \in Supervisor /\ n.at = "starting" /\ n.child = p /\ n.stamp = born[p] + 1
    BY <1>4, <2>1 DEF Supervisor, At
  <2>. HIDE DEF n
  <2>. QED
    BY <2>1, <2>2
<1>8. TypeOK'
  BY <1>2, <1>5, <1>7 DEF IInv, TypeOK
<1>9. EngOK'
  <2>1. ASSUME NEW j \in Engine, j # i, eng[j].child # NoPid
        PROVE  eng[j].stamp # 0 /\ eng[j].stamp <= born'[eng[j].child]
    <3>1. /\ eng[j].child \in Pid /\ eng[j].stamp \in Nat
          /\ eng[j].stamp # 0 /\ eng[j].stamp <= born[eng[j].child]
      BY <2>1 DEF IInv, TypeOK, Supervisor, EngOK, Stamp
    <3>. QED
      BY <1>3, <1>5, <3>1
  <2>2. born[p] + 1 # 0 /\ born[p] + 1 <= born'[p]
    BY <1>3, <1>5
  <2>. QED
    BY <1>4, <1>7, <2>1, <2>2 DEF IInv, EngOK, ChildlessAt
<1>10. RememberedOK'
  BY <1>2, <1>5, <1>6, RememberedGrows
<1>11. cmd[i] = NoCommand
  BY <1>2 DEF IInv, CommandOK, CommandFine
<1>12. BindOK'
  BY <1>2, <1>7, <1>11 DEF IInv, BindOK, NoCommand
<1>13. CommandOK'
  <2>1. CommandFine(i)'
    BY <1>2, <1>7 DEF IInv, CommandOK, CommandFine
  <2>2. ASSUME NEW j \in Engine, j # i PROVE CommandFine(j)'
    BY <1>2, <1>7, <2>2 DEF IInv, CommandOK, CommandFine
  <2>. QED
    BY <2>1, <2>2 DEF CommandOK
<1>14. ClaimOK'
  <2>1. claims[i].child = NoPid /\ i \in Active(claims)
    BY <1>2 DEF IInv, ClaimOK
  <2>. QED
    BY <1>2, <1>6, <1>7, <2>1 DEF IInv, ClaimOK, Active
<1>. QED
  BY <1>6, <1>8, <1>9, <1>10, <1>12, <1>13, <1>14 DEF IInv

\* A daemon dies: its commands and cache vanish, claims and children stay.
LEMMA HomeCrashStep ==
  ASSUME IInv, NEW h \in Home, HomeCrash(h)
  PROVE  IInv'
<1>. USE ConstantsAssumption
<1>1. /\ up' = up \ {h} /\ proc' = [proc EXCEPT ![h] = 0]
      /\ cache' = [cache EXCEPT ![h] = [p \in Pid |-> 0]]
      /\ cmd' = [i \in Engine |-> IF Executor[i] = h THEN NoCommand ELSE cmd[i]]
      /\ UNCHANGED <<born, claims, ahead>>
  BY DEF HomeCrash
<1>2. \A p \in Pid : born[p] \in Nat
  BY DEF IInv, TypeOK, Stamp
<1>3. /\ proc' \in [Pid -> Stamp] /\ born' \in [Pid -> Stamp] /\ up' \subseteq Home
      /\ \A p \in Pid : proc'[p] = 0 \/ proc'[p] = proc[p]
      /\ \A p \in Pid : born[p] <= born'[p]
  BY <1>1, <1>2 DEF IInv, TypeOK, Stamp
<1>4. ASSUME NEW i \in Engine
      PROVE  /\ eng'[i] \in Supervisor /\ eng'[i].child = eng[i].child
             /\ eng'[i].stamp = eng[i].stamp
             /\ \/ eng'[i] = eng[i]
                \/ eng'[i].at = "gone"
                \/ eng'[i].at = "closing" /\ eng[i].at \in {"asking", "cancelling"}
                \/ eng'[i].at = "stopping" /\ eng[i].at \in {"starting", "bound"}
                \/ eng'[i].at = eng[i].at
             /\ eng'[i].at \in {"asking", "cancelling"} => eng[i].at = eng'[i].at
  <2>1. eng[i] \in Supervisor
    BY DEF IInv, TypeOK
  <2>2. CASE Owner[i] = h /\ eng[i].at # "off"
    <3>. DEFINE n == [eng[i] EXCEPT !.at = "gone", !.short = 0]
    <3>1. eng'[i] = n
      BY <2>2 DEF HomeCrash
    <3>2. n \in Supervisor /\ n.child = eng[i].child /\ n.stamp = eng[i].stamp /\ n.at = "gone"
      BY <2>1 DEF Supervisor, At
    <3>. HIDE DEF n
    <3>. QED
      BY <3>1, <3>2
  <2>3. CASE ~(Owner[i] = h /\ eng[i].at # "off") /\ Executor[i] = h /\ cmd[i].stage # "idle"
    <3>1. eng'[i] = Failed(eng[i])
      BY <2>3 DEF HomeCrash
    <3>. QED
      BY <2>1, <3>1, FailedFacts
  <2>4. CASE eng'[i] = eng[i]
    BY <2>1, <2>4
  <2>. QED
    BY <2>2, <2>3, <2>4 DEF HomeCrash
<1>5. eng' \in [Engine -> Supervisor]
  <2>1. eng' = [i \in Engine |-> eng'[i]]
    BY DEF HomeCrash
  <2>. QED
    BY <1>4, <2>1
<1>6. ProcOK' /\ RecordedOK(claims)' /\ \A j \in Engine : EngineAlive(j)' => EngineAlive(j)
  BY <1>1, <1>3, <1>4, BirthStep
<1>7. \A i \in Engine : cmd'[i] = cmd[i] \/ cmd'[i] = NoCommand
  BY <1>1
<1>8. TypeOK'
  <2>1. cmd' \in [Engine -> Command] /\ cache' \in [Home -> [Pid -> Stamp]]
    BY <1>1, RecordTypes DEF IInv, TypeOK, Stamp
  <2>. QED
    BY <1>1, <1>3, <1>5, <2>1 DEF IInv, TypeOK
<1>9. EngOK'
  <2>1. \A i \in Engine : eng'[i].at \in ChildlessAt => eng[i].at \in ChildlessAt
    BY <1>4 DEF ChildlessAt
  <2>2. \A i \in Engine : eng'[i].at = "starting" => eng[i].at = "starting"
    BY <1>4
  <2>. QED
    BY <1>1, <1>4, <2>1, <2>2 DEF IInv, EngOK
<1>10. RememberedOK'
  <2>1. RecordedOK(NoCommand.observed) /\ \A p \in Pid : NoCommand.ids[p] <= born[p]
    BY <1>2 DEF NoCommand, RecordedOK, Absent
  <2>2. \A g \in Home, p \in Pid : cache'[g][p] <= born[p]
    BY <1>1, <1>2 DEF IInv, RememberedOK, TypeOK
  <2>. QED
    BY <1>1, <1>6, <1>7, <2>1, <2>2 DEF IInv, RememberedOK, RecordedOK
<1>11. BindOK'
  BY <1>4, <1>7 DEF IInv, BindOK, NoCommand
<1>12. CommandOK'
  <2>1. ASSUME NEW i \in Engine PROVE CommandFine(i)'
    <3>1. CASE cmd'[i] = NoCommand
      BY <3>1 DEF CommandFine, NoCommand, Absent
    <3>2. CASE cmd'[i] = cmd[i]
      BY <1>4, <3>2 DEF IInv, CommandOK, CommandFine
    <3>. QED
      BY <1>7, <3>1, <3>2
  <2>. QED
    BY <2>1 DEF CommandOK
<1>13. ClaimOK'
  <2>1. \A i \in Engine : eng'[i].at = "granted" => eng[i].at = "granted"
    BY <1>4
  <2>. QED
    BY <1>1, <1>4, <1>6, <2>1 DEF IInv, ClaimOK, Active
<1>. QED
  BY <1>6, <1>8, <1>9, <1>10, <1>11, <1>12, <1>13 DEF IInv

\* No step of the system breaks the invariant.
LEMMA NextStep ==
  ASSUME IInv, [Next]_vars
  PROVE  IInv'
<1>. USE ConstantsAssumption
<1>1. CASE UNCHANGED vars
  <2>1. TypeOK' /\ ProcOK' /\ RememberedOK' /\ EngOK'
    BY <1>1 DEF vars, IInv, TypeOK, ProcOK, RememberedOK, RecordedOK, EngOK
  <2>2. ClaimOK' /\ BindOK' /\ CommandOK'
    BY <1>1 DEF vars, IInv, ClaimOK, Active, EngineAlive, BindOK, CommandOK, CommandFine
  <2>. QED
    BY <2>1, <2>2 DEF IInv
<1>2. ASSUME NEW i \in Engine, Ask(i) \/ Bind(i) \/ Ready(i) \/ Status(i)
      PROVE  IInv'
  <2>1. eng[i].child \in Pid \cup {NoPid} /\ (eng[i].at = "starting" => eng[i].child # NoPid)
    BY DEF IInv, TypeOK, Supervisor, EngOK
  <2>2. CASE Ask(i)
    BY <2>2, BeginStep DEF Ask, Action
  <2>3. CASE Bind(i)
    BY <2>1, <2>3, BeginStep DEF Bind, Action
  <2>4. CASE Ready(i)
    BY <2>4, BeginStep DEF Ready, Action
  <2>5. CASE Status(i)
    BY <2>5, BeginStep DEF Status, Action
  <2>. QED
    BY <1>2, <2>2, <2>3, <2>4, <2>5
<1>3. ASSUME NEW i \in Engine, Deny(i) \/ Missing(i) \/ Grant(i) \/ Keep(i)
      PROVE  IInv'
  BY <1>3, TransactStep DEF Transact
<1>4. CASE Next
  BY <1>2, <1>3, <1>4, ProbeStep, ReleaseStep, SupervisorSteps, SpawnStep, EngineExitsStep,
     HomeCrashStep, HomeRestartStep DEF Next
<1>. QED
  BY <1>1, <1>4

\* The invariant holds in every reachable state.
THEOREM Inductive == Spec => []IInv
<1>1. Init => IInv
  BY InitIInv
<1>2. IInv /\ [Next]_vars => IInv'
  BY NextStep
<1>. QED
  BY <1>1, <1>2, PTL DEF Spec

\* Every reachable state is well typed.
THEOREM TypeCorrect == Spec => []TypeOK
<1>1. IInv => TypeOK
  BY DEF IInv
<1>. QED
  BY <1>1, Inductive, PTL

\* The claim of a live engine is never pruned, released or handed on: its
\* memory stays reserved until it is dead (the OOM hazard of pruning by
\* process identity, device-capacity-ledger.ts:151-172).
THEOREM EngineReserved == Spec => []LiveEngineReserved
<1>1. IInv => LiveEngineReserved
  BY DEF IInv, ClaimOK, LiveEngineReserved
<1>. QED
  BY <1>1, Inductive, PTL

-----------------------------------------------------------------------------
(* What admission promises. A step either only shrinks the granted claims   *)
(* and keeps the bypasses, or grants one claim after that.                  *)

Shrunk(T) ==
  \A j \in Engine :
    /\ T[j].phase = "loading" => claims[j].phase = "loading"
    /\ T[j].phase = "ready" => claims[j].phase \in {"loading", "ready"}
    /\ T[j].bypasses \in {0, claims[j].bypasses}

GrantsOne(i, T, ah) ==
  Shrunk(T) /\ Admits(i, T, ah, cmd[i].sample) /\ claims' = Granted(i, T, ah)

\* Apart from the own grant, a command can only take claims out of the granted set.
LEMMA TableShrinks ==
  ASSUME TypeOK, NEW i \in Engine, NEW k
  PROVE  Shrunk(Table(i, k))
<1>. DEFINE T == Table(i, k)
<1>1. /\ \A j \in Engine \ {i} : T[j] = claims[j] \/ T[j] = Absent
      /\ \/ T[i] = Absent
         \/ T[i] = NewClaim(i, k) /\ k.action = "acquire"
         \/ T[i] = Revise(claims[i], k) /\ claims[i].phase # "absent"
         \/ T[i] = claims[i] /\ claims[i].phase = "absent"
  BY RowsOfTable
<1>2. claims[i] \in Claim
  BY DEF TypeOK
<1>3. /\ Revise(claims[i], k).bypasses = claims[i].bypasses
      /\ Revise(claims[i], k).phase = "loading" => claims[i].phase = "loading"
      /\ Revise(claims[i], k).phase = "ready" => claims[i].phase \in {"loading", "ready"}
  BY <1>2 DEF Revise, Claim
<1>4. NewClaim(i, k).bypasses = 0 /\ NewClaim(i, k).phase = "waiting"
  BY DEF NewClaim
<1>5. Absent.bypasses = 0 /\ Absent.phase = "absent"
  BY DEF Absent
<1>. HIDE DEF T
<1>6. Shrunk(T)
  BY <1>1, <1>3, <1>4, <1>5 DEF Shrunk
<1>. QED
  BY <1>6 DEF T

\* So every step either grants one claim or grants none.
LEMMA ClaimsChange ==
  ASSUME IInv, [Next]_vars
  PROVE  \/ Shrunk(claims')
         \/ \E i \in Engine, T \in [Engine -> Claim] : \E ah : GrantsOne(i, T, ah)
<1>1. CASE claims' = claims
  BY <1>1 DEF Shrunk
<1>2. ASSUME NEW i \in Engine, Missing(i) \/ Keep(i)
      PROVE  Shrunk(claims')
  <2>1. claims' = Table(i, cmd[i])
    BY <1>2 DEF Missing, Keep, Commit
  <2>2. Shrunk(Table(i, cmd[i]))
    BY TableShrinks DEF IInv
  <2>. QED
    BY <2>1, <2>2
<1>3. ASSUME NEW i \in Engine, Grant(i)
      PROVE  \E T \in [Engine -> Claim] : \E ah : GrantsOne(i, T, ah)
  <2>. DEFINE T == Table(i, cmd[i])  ah == Order(T, Entered(i, cmd[i]))
  <2>1. Admits(i, T, ah, cmd[i].sample) /\ claims' = Granted(i, T, ah)
    BY <1>3 DEF Grant, Commit
  <2>2. Shrunk(T)
    BY TableShrinks DEF IInv
  <2>3. T \in [Engine -> Claim]
    BY TableSettles DEF Settled
  <2>. HIDE DEF T, ah
  <2>. QED
    BY <2>1, <2>2, <2>3 DEF GrantsOne
<1>4. ASSUME NEW i \in Engine, Release(i)
      PROVE  Shrunk(claims')
  <2>1. \A j \in Engine : claims'[j] = claims[j] \/ claims'[j] = Absent
    BY <1>4 DEF Release
  <2>. QED
    BY <2>1 DEF Shrunk, Absent
<1>5. CASE \E i \in Engine : Ask(i) \/ Bind(i) \/ Ready(i) \/ Status(i) \/ Probe(i) \/ Deny(i)
  BY <1>1, <1>5 DEF Ask, Bind, Ready, Status, Probe, Deny, Commit
<1>6. CASE \E i \in Engine : Start(i) \/ Cancel(i) \/ Spawn(i) \/ SpawnFails(i) \/ Stop(i)
                            \/ Drained(i) \/ YieldTimesOut(i) \/ EngineExits(i) \/ HandleExit(i)
                            \/ TimeOut(i) \/ Unreachable(i)
  BY <1>1, <1>6 DEF Start, Cancel, Spawn, SpawnFails, Stop, Drained, YieldTimesOut,
                    EngineExits, HandleExit, TimeOut, Unreachable
<1>7. CASE \E h \in Home : HomeCrash(h) \/ HomeRestart(h)
  BY <1>1, <1>7 DEF HomeCrash, HomeRestart
<1>8. CASE UNCHANGED vars
  BY <1>1, <1>8 DEF vars
<1>. QED
  BY <1>2, <1>3, <1>4, <1>5, <1>6, <1>7, <1>8 DEF Next

\* What a grant writes into each row.
LEMMA GrantedRows ==
  ASSUME NEW i \in Engine, NEW T \in [Engine -> Claim], NEW ah, First(i, T, ah)
  PROVE  /\ Active(Granted(i, T, ah)) = Active(T) \cup {i}
         /\ Loading(Granted(i, T, ah)) = Loading(T) \cup {i}
         /\ \A j \in Engine :
              \/ Granted(i, T, ah)[j].bypasses = T[j].bypasses
              \/ /\ j \in Waiting(T) \cap ah[i]
                 /\ Granted(i, T, ah)[j].bypasses = T[j].bypasses + 1
<1>. DEFINE G == Granted(i, T, ah)
<1>1. ASSUME NEW j \in Engine
      PROVE  /\ G[j].phase = IF j = i THEN "loading" ELSE T[j].phase
             /\ \/ G[j].bypasses = T[j].bypasses
                \/ /\ j \in Waiting(T) \cap ah[i]
                   /\ G[j].bypasses = T[j].bypasses + 1
  <2>1. T[j] \in Claim /\ G[j] = IF j = i THEN [T[j] EXCEPT !.phase = "loading"]
                                ELSE IF j \in Waiting(T) \cap ah[i]
                                     THEN [T[j] EXCEPT !.bypasses = @ + 1] ELSE T[j]
    BY DEF Granted
  <2>. QED
    BY <2>1 DEF Claim
<1>. HIDE DEF G
<1>2. Active(G) = Active(T) \cup {i} /\ Loading(G) = Loading(T) \cup {i}
  BY <1>1 DEF Active, Loading
<1>. QED
  BY <1>1, <1>2 DEF G

\* An exclusive engine never shares the accelerator with another granted
\* claim, in whatever order grants, binds, exits and crashes come
\* (fits, device-capacity-ledger.ts:213-219).
THEOREM GpuExclusiveHolds == Spec => []GpuExclusive
<1>. USE ConstantsAssumption
<1>1. Init => GpuExclusive
  BY DEF Init, GpuExclusive, Active, Absent
<1>2. ASSUME IInv, GpuExclusive, [Next]_vars PROVE GpuExclusive'
  <2>1. CASE Shrunk(claims')
    BY <1>2, <2>1 DEF Shrunk, GpuExclusive, Active
  <2>2. ASSUME NEW i \in Engine, NEW T \in [Engine -> Claim], NEW ah, GrantsOne(i, T, ah)
        PROVE  GpuExclusive'
    <3>1. First(i, T, ah) /\ Fits(i, T, cmd[i].sample) /\ Shrunk(T) /\ claims' = Granted(i, T, ah)
      BY <2>2 DEF GrantsOne, Admits
    <3>2. Active(claims') = Active(T) \cup {i}
      BY <3>1, GrantedRows
    <3>3. Active(T) \subseteq Active(claims)
      BY <3>1 DEF Shrunk, Active
    <3>4. \A a \in Active(T) : GpuBytes[i] > 0 /\ GpuBytes[a] > 0 => ~Exclusive[a] /\ ~Exclusive[i]
      BY <3>1 DEF Fits
    <3>. QED
      BY <1>2, <3>2, <3>3, <3>4 DEF GpuExclusive
  <2>. QED
    BY <1>2, <2>1, <2>2, ClaimsChange
<1>. QED
  BY <1>1, <1>2, Inductive, PTL DEF Spec

\* Where loads are serialized, two claims never load on the accelerator at
\* once (loadSlot, device-capacity-ledger.ts:234).
THEOREM OneGpuLoadHolds == Spec => []OneGpuLoad
<1>. USE ConstantsAssumption
<1>1. Init => OneGpuLoad
  BY DEF Init, OneGpuLoad, Loading, Absent
<1>2. ASSUME IInv, OneGpuLoad, [Next]_vars PROVE OneGpuLoad'
  <2>1. CASE Shrunk(claims')
    BY <1>2, <2>1 DEF Shrunk, OneGpuLoad, Loading
  <2>2. ASSUME NEW i \in Engine, NEW T \in [Engine -> Claim], NEW ah, GrantsOne(i, T, ah)
        PROVE  OneGpuLoad'
    <3>1. First(i, T, ah) /\ LoadSlot(i, T) /\ Shrunk(T) /\ claims' = Granted(i, T, ah)
      BY <2>2 DEF GrantsOne, Admits
    <3>2. Loading(claims') = Loading(T) \cup {i}
      BY <3>1, GrantedRows
    <3>3. Loading(T) \subseteq Loading(claims)
      BY <3>1 DEF Shrunk, Loading
    <3>4. Serialize /\ GpuBytes[i] > 0 => \A l \in Loading(T) : ~(GpuBytes[l] > 0)
      BY <3>1 DEF LoadSlot
    <3>. QED
      BY <1>2, <3>2, <3>3, <3>4 DEF OneGpuLoad
  <2>. QED
    BY <1>2, <2>1, <2>2, ClaimsChange
<1>. QED
  BY <1>1, <1>2, Inductive, PTL DEF Spec

\* No request is overtaken more than MaxBypasses times: an overdue claim is the
\* only candidate, so nobody behind it is granted
\* (first and the bypass count, device-capacity-ledger.ts:207-243).
THEOREM BypassesBounded == Spec => []BypassBound
<1>. USE ConstantsAssumption
<1>1. Init => BypassBound
  BY DEF Init, BypassBound, Absent
<1>2. ASSUME IInv, BypassBound, [Next]_vars PROVE BypassBound'
  <2>0. \A j \in Engine : claims[j].bypasses \in Nat
    BY <1>2 DEF IInv, TypeOK, Claim
  <2>1. CASE Shrunk(claims')
    BY <1>2, <2>0, <2>1 DEF Shrunk, BypassBound
  <2>2. ASSUME NEW i \in Engine, NEW T \in [Engine -> Claim], NEW ah, GrantsOne(i, T, ah), NEW j \in Engine
        PROVE  claims'[j].bypasses <= MaxBypasses
    <3>1. First(i, T, ah) /\ Shrunk(T) /\ claims' = Granted(i, T, ah)
      BY <2>2 DEF GrantsOne, Admits
    <3>2. T[j].bypasses \in Nat /\ T[j].bypasses <= MaxBypasses
      BY <1>2, <2>0, <3>1 DEF Shrunk, BypassBound
    <3>3. j \in Waiting(T) \cap ah[i] => T[j].bypasses < MaxBypasses
      <4>1. ASSUME j \in Waiting(T) \cap ah[i], T[j].bypasses >= MaxBypasses
            PROVE  FALSE
        <5>1. j \in Due(T)
          BY <4>1 DEF Due
        <5>2. Candidates(T) = Due(T)
          BY <5>1 DEF Candidates
        <5>. QED
          BY <3>1, <4>1, <5>1, <5>2 DEF First
      <4>. QED
        BY <3>2, <4>1
    <3>4. \/ claims'[j].bypasses = T[j].bypasses
          \/ j \in Waiting(T) \cap ah[i] /\ claims'[j].bypasses = T[j].bypasses + 1
      BY <3>1, GrantedRows
    <3>. QED
      BY <3>2, <3>3, <3>4
  <2>. QED
    BY <1>2, <2>1, <2>2, ClaimsChange DEF BypassBound
<1>. QED
  BY <1>1, <1>2, Inductive, PTL DEF Spec

\* A step adds to the granted claims only what fits beside all of them under the limits
\* its daemon read: a newcomer is added only if it fits (fits,
\* device-capacity-ledger.ts:213-219), and every other step only takes out, so a limit
\* that shrank stays exceeded by old grants alone.
THEOREM GrantsAlwaysFit == Spec => GrantsFit
<1>. DEFINE Finite == IsFiniteSet(Active(claims))
            Fit(i) ==
              /\ SumFunctionOnSet(Bytes, Active(claims')) <= cmd[i].sample.budget
              /\ SumFunctionOnSet(GpuBytes, Active(claims')) <= cmd[i].sample.gpuBudget
<1>1. Bytes \in [Engine -> Nat] /\ GpuBytes \in [Engine -> Nat]
  BY ConstantsAssumption
<1>2. Init => Finite
  <2>1. Init => Active(claims) = {}
    BY DEF Init, Active, Absent
  <2>. QED
    BY <2>1, FS_EmptySet
<1>3. ASSUME IInv, Finite, NEW e \in Engine, NEW T \in [Engine -> Claim], NEW ah,
             GrantsOne(e, T, ah)
      PROVE  Finite' /\ \A i \in Active(claims') \ Active(claims) : Fit(i)
  <2>. DEFINE SumB(S) == SumFunctionOnSet(Bytes, S)
              SumG(S) == SumFunctionOnSet(GpuBytes, S)
              A == Active(T)
              B == A \cup {e}
  <2>1. First(e, T, ah) /\ Fits(e, T, cmd[e].sample) /\ Shrunk(T) /\ claims' = Granted(e, T, ah)
    BY <1>3 DEF GrantsOne, Admits
  <2>2. Active(claims') = B /\ A \in SUBSET Active(claims) /\ A \in SUBSET Engine
    BY <2>1, GrantedRows DEF Shrunk, Active
  <2>3. \A i \in Active(claims') \ Active(claims) : i = e
    BY <2>2
  <2>4. e \notin A
    BY <2>1 DEF First, Candidates, Due, Foreground, Waiting, Active
  <2>5. /\ Bytes[e] + SumB(A) <= cmd[e].sample.budget
        /\ GpuBytes[e] + SumG(A) <= cmd[e].sample.gpuBudget
    BY <2>1 DEF Fits
  <2>. HIDE DEF A
  <2>6. IsFiniteSet(B) /\ B \in SUBSET Engine /\ B \ {e} = A /\ e \in B
    BY <1>3, <2>2, <2>4, FS_AddElement, FS_Subset
  <2>7. SumB(B) = Bytes[e] + SumB(A) /\ SumG(B) = GpuBytes[e] + SumG(A)
    <3>. HIDE DEF B
    <3>1. SumB(B) = Bytes[e] + SumB(B \ {e}) /\ SumG(B) = GpuBytes[e] + SumG(B \ {e})
      BY <1>1, <2>6, SumWithout
    <3>. QED
      BY <2>6, <3>1
  <2>8. Fit(e)
    BY <2>2, <2>5, <2>7
  <2>. HIDE DEF Fit
  <2>. QED
    BY <2>2, <2>3, <2>6, <2>8
<1>4. ASSUME IInv, Finite, Shrunk(claims') PROVE Finite' /\ Active(claims') \subseteq Active(claims)
  <2>1. Active(claims') \subseteq Active(claims)
    BY <1>4 DEF Shrunk, Active
  <2>. QED
    BY <1>4, <2>1, FS_Subset
<1>5. ASSUME IInv, Finite, [Next]_vars
      PROVE  Finite' /\ \A i \in Active(claims') \ Active(claims) : Fit(i)
  <2>. HIDE DEF Fit, Finite
  <2>. QED
    BY <1>3, <1>4, <1>5, ClaimsChange
<1>. HIDE DEF Finite
<1>6. Spec => []Finite
  BY <1>2, <1>5, Inductive, PTL DEF Spec
<1>7. IInv /\ Finite /\ [Next]_vars =>
        [\A i \in Active(claims') \ Active(claims) : Fit(i)]_vars
  BY <1>5
<1>. QED
  BY <1>6, <1>7, Inductive, PTL DEF Spec, GrantsFit

=============================================================================
