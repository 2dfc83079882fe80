---------------------------- MODULE SessionOrder ----------------------------
(***************************************************************************)
(* What one conversation promises to those who send to it: they are        *)
(* answered by one turn at a time, in the order they stand in line, and    *)
(* only an interrupt goes to the head of it. A turn answers one or more    *)
(* senders from the head of the line. A turn that was stopped may go on    *)
(* unwinding after the next has begun.                                     *)
(***************************************************************************)
EXTENDS Naturals, Sequences, SequencesExt

CONSTANT Msg

VARIABLES
  line,      \* the senders who wait, in order
  active,    \* those the current turn answers
  unwinding, \* those whose turn was stopped and has not returned
  over       \* those who were answered or turned away

vars == <<line, active, unwinding, over>>

Init == line = <<>> /\ active = {} /\ unwinding = {} /\ over = {}

Fresh == Msg \ (Range(line) \cup active \cup unwinding \cup over)

\* The next turn takes the first senders of the line l.
TakesFrom(l) ==
  \E k \in 1 .. Len(l) :
    active' = Range(SubSeq(l, 1, k)) /\ line' = SubSeq(l, k + 1, Len(l))

Start(m) ==
  /\ active = {} /\ line = <<>>
  /\ active' = {m} /\ UNCHANGED <<line, unwinding, over>>

Join(m) ==
  /\ active # {} \/ line # <<>>
  /\ line' = Append(line, m) /\ UNCHANGED <<active, unwinding, over>>

\* The current turn, if there is one, is stopped for the newcomer.
CutIn(m) ==
  /\ line' = <<m>> \o line
  /\ active' = {} /\ unwinding' = unwinding \cup active /\ UNCHANGED over

Take == active = {} /\ TakesFrom(line) /\ UNCHANGED <<unwinding, over>>

\* A turn returns; when nobody is being answered then, the next may begin.
Finish(S) ==
  /\ S = active \/ S \subseteq unwinding
  /\ over' = over \cup S /\ unwinding' = unwinding \ S
  /\ \/ active' = active \ S /\ line' = line
     \/ active \ S = {} /\ TakesFrom(line)

Stop == active' = {} /\ unwinding' = unwinding \cup active /\ UNCHANGED <<line, over>>

\* Senders who stand together, those at i to j, are turned away, and perhaps
\* the current turn is stopped with them.
Withdraw(i, j) ==
  /\ line' = SubSeq(line, 1, i - 1) \o SubSeq(line, j + 1, Len(line))
  /\ over' = over \cup Range(SubSeq(line, i, j))
  /\ \/ UNCHANGED <<active, unwinding>>
     \/ active' = {} /\ unwinding' = unwinding \cup active

Next ==
  \/ \E m \in Fresh : Start(m) \/ Join(m) \/ CutIn(m)
  \/ \E S \in SUBSET (active \cup unwinding) : Finish(S)
  \/ \E i, j \in 1 .. Len(line) : i <= j /\ Withdraw(i, j)
  \/ Take \/ Stop

Spec == Init /\ [][Next]_vars

=============================================================================
