------------------------------ MODULE DataFacts ------------------------------
(***************************************************************************)
(* What the proofs use of sequences, of sums over sets and of the          *)
(* recursive operators of the community modules. An induction is done by   *)
(* taking the least counterexample: the natural numbers are well founded   *)
(* (WFMin).                                                                *)
(***************************************************************************)
EXTENDS SequencesExt, SequenceTheorems, FiniteSetTheorems, WellFoundedInduction, TLAPS

-----------------------------------------------------------------------------
(* Induction.                                                              *)

\* A set of natural numbers has a least element.
LEMMA LeastOf ==
  ASSUME NEW T, T \subseteq Nat, T # {}
  PROVE  \E n \in T : \A m \in T : n <= m
  <1> DEFINE R == OpToRel(<, Nat)
  <1>1. IsWellFoundedOn(R, Nat)
    BY NatLessThanWellFounded
  <1> HIDE DEF R
  <1>2. PICK n \in T : \A m \in T : ~(<<m, n>> \in R)
    BY <1>1, WFMin
  <1>3. \A m \in T : ~ (m < n)
    BY <1>2 DEF R, OpToRel
  <1>4. QED  BY <1>2, <1>3

\* A set that holds 0 and the successor of each of its numbers holds them all.
LEMMA NatSet ==
  ASSUME NEW G, 0 \in G, \A n \in Nat : n \in G => n + 1 \in G
  PROVE  Nat \subseteq G
  <1> DEFINE T == {n \in Nat : n \notin G}
  <1> SUFFICES ASSUME T # {} PROVE FALSE
    OBVIOUS
  <1>1. PICK n \in T : \A m \in T : n <= m
    BY LeastOf
  <1>2. n # 0 /\ n - 1 \in Nat /\ n - 1 \notin T
    BY <1>1
  <1>3. n - 1 \in G
    BY <1>2
  <1>4. (n - 1) + 1 \in G /\ (n - 1) + 1 = n
    BY <1>2, <1>3
  <1>5. QED  BY <1>4

-----------------------------------------------------------------------------
(* Ranges, and sequences without repetition.                               *)

\* What appending a member does to a sequence.
LEMMA AppendFacts ==
  ASSUME NEW S, NEW s \in Seq(S), NEW e \in S
  PROVE  /\ Append(s, e) \in Seq(S) /\ Range(Append(s, e)) = Range(s) \cup {e}
         /\ IsInjective(s) /\ e \notin Range(s) => IsInjective(Append(s, e))
         /\ \A n \in 0 .. Len(s) : n <= Len(Append(s, e))
                                  /\ SubSeq(Append(s, e), 1, n) = SubSeq(s, 1, n)
  <1>1. /\ Append(s, e) \in Seq(S) /\ Len(Append(s, e)) = Len(s) + 1
        /\ \A i \in 1 .. Len(s) : Append(s, e)[i] = s[i]
        /\ Append(s, e)[Len(s) + 1] = e
    OBVIOUS
  <1>2. Len(s) \in Nat /\ DOMAIN s = 1 .. Len(s) /\ DOMAIN Append(s, e) = 1 .. Len(s) + 1
    BY <1>1
  <1>3. Range(Append(s, e)) = Range(s) \cup {e}
    BY <1>1, <1>2 DEF Range
  <1>4. IsInjective(s) /\ e \notin Range(s) => IsInjective(Append(s, e))
    BY <1>1, <1>2 DEF Range, IsInjective
  <1>5. ASSUME NEW n \in 0 .. Len(s)
        PROVE  n <= Len(Append(s, e)) /\ SubSeq(Append(s, e), 1, n) = SubSeq(s, 1, n)
    BY <1>1, <1>2
  <1>6. QED  BY <1>1, <1>3, <1>4, <1>5

\* A sequence that is not empty is its head and its tail.
LEMMA TailFacts ==
  ASSUME NEW S, NEW s \in Seq(S), s # <<>>
  PROVE  /\ Head(s) \in S /\ Tail(s) \in Seq(S) /\ Range(s) = {Head(s)} \cup Range(Tail(s))
         /\ IsInjective(s) => IsInjective(Tail(s)) /\ Head(s) \notin Range(Tail(s))
  <1>1. /\ Len(s) \in Nat \ {0} /\ DOMAIN s = 1 .. Len(s) /\ Head(s) = s[1] /\ Head(s) \in S
        /\ Tail(s) \in Seq(S) /\ DOMAIN Tail(s) = 1 .. Len(s) - 1
        /\ \A i \in 1 .. Len(s) - 1 : Tail(s)[i] = s[i + 1]
    OBVIOUS
  <1>2. \A i \in 1 .. Len(s) : i = 1 \/ (i - 1 \in 1 .. Len(s) - 1 /\ s[i] = Tail(s)[i - 1])
    BY <1>1
  <1>3. Range(s) = {Head(s)} \cup Range(Tail(s))
    <2>1. Head(s) \in Range(s) /\ Range(Tail(s)) \subseteq Range(s)
      BY <1>1 DEF Range
    <2>2. ASSUME NEW i \in 1 .. Len(s) PROVE s[i] \in {Head(s)} \cup Range(Tail(s))
      <3>1. CASE i = 1  BY <3>1, <1>1
      <3>2. CASE i # 1
        <4>1. i - 1 \in DOMAIN Tail(s) /\ s[i] = Tail(s)[i - 1]
          BY <3>2, <1>1, <1>2
        <4>2. QED  BY <4>1 DEF Range
      <3>3. QED  BY <3>1, <3>2
    <2>3. Range(s) \subseteq {Head(s)} \cup Range(Tail(s))
      BY <2>2, <1>1 DEF Range
    <2>4. QED  BY <2>1, <2>3
  <1>4. IsInjective(s) => IsInjective(Tail(s)) /\ Head(s) \notin Range(Tail(s))
    BY <1>1 DEF Range, IsInjective
  <1>5. QED  BY <1>1, <1>3, <1>4

\* What is left of a sequence when its first n members are taken.
LEMMA CutFacts ==
  ASSUME NEW S, NEW s \in Seq(S), NEW n \in 0 .. Len(s)
  PROVE  LET front == SubSeq(s, 1, n)
             rest == SubSeq(s, n + 1, Len(s))
         IN  /\ rest \in Seq(S) /\ Range(s) = Range(front) \cup Range(rest)
             /\ IsInjective(s) => IsInjective(rest) /\ Range(front) \cap Range(rest) = {}
  <1> DEFINE front == SubSeq(s, 1, n)
             rest == SubSeq(s, n + 1, Len(s))
  <1>1. Len(s) \in Nat /\ n \in Nat /\ DOMAIN s = 1 .. Len(s)
    OBVIOUS
  <1>2. DOMAIN front = 1 .. n /\ \A i \in 1 .. n : front[i] = s[i]
    BY <1>1
  <1>3. /\ rest \in Seq(S) /\ DOMAIN rest = 1 .. Len(s) - n
        /\ \A i \in 1 .. Len(s) - n : rest[i] = s[n + i]
    BY <1>1
  <1>4. Range(front) \subseteq Range(s) /\ Range(rest) \subseteq Range(s)
    BY <1>1, <1>2, <1>3 DEF Range
  <1>5. ASSUME NEW i \in 1 .. Len(s) PROVE s[i] \in Range(front) \cup Range(rest)
    <2>1. CASE i <= n  BY <2>1, <1>1, <1>2 DEF Range
    <2>2. CASE i > n
      <3>1. i - n \in 1 .. Len(s) - n /\ rest[i - n] = s[i]
        BY <2>2, <1>1, <1>3
      <3>2. QED  BY <3>1, <1>3 DEF Range
    <2>3. QED  BY <2>1, <2>2, <1>1
  <1>6. Range(s) \subseteq Range(front) \cup Range(rest)
    <2>1. \A x \in Range(s) : \E i \in 1 .. Len(s) : x = s[i]
      BY <1>1 DEF Range
    <2>2. QED  BY <2>1, <1>5
  <1>7. ASSUME IsInjective(s) PROVE IsInjective(rest)
    <2>1. \A i, j \in 1 .. Len(s) - n : s[n + i] = s[n + j] => n + i = n + j
      BY <1>7, <1>1 DEF IsInjective
    <2>2. \A i, j \in DOMAIN rest : rest[i] = rest[j] => i = j
      <3>1. ASSUME NEW i \in DOMAIN rest, NEW j \in DOMAIN rest, rest[i] = rest[j] PROVE i = j
        <4>1. s[n + i] = s[n + j]  BY <3>1, <1>3
        <4>2. i \in 1 .. Len(s) - n /\ j \in 1 .. Len(s) - n  BY <1>3
        <4>3. n + i = n + j  BY <4>1, <4>2, <2>1
        <4>4. QED  BY <4>2, <4>3, <1>1
      <3>2. QED  BY <3>1
    <2>3. QED  BY <2>2 DEF IsInjective
  <1>8. ASSUME IsInjective(s) PROVE Range(front) \cap Range(rest) = {}
    <2>1. \A i \in 1 .. n, j \in 1 .. Len(s) - n : s[i] # s[n + j]
      BY <1>8, <1>1 DEF IsInjective
    <2>2. ASSUME NEW x \in Range(front), NEW y \in Range(rest) PROVE x # y
      <3>1. PICK i \in 1 .. n : x = s[i]  BY <1>2 DEF Range
      <3>2. PICK j \in 1 .. Len(s) - n : y = s[n + j]  BY <1>3 DEF Range
      <3>3. QED  BY <2>1, <3>1, <3>2
    <2>3. QED  BY <2>2
  <1>9. QED  BY <1>3, <1>4, <1>6, <1>7, <1>8

\* The range of a concatenation, and when it has no repetition.
LEMMA JoinFacts ==
  ASSUME NEW S, NEW s \in Seq(S), NEW r \in Seq(S)
  PROVE  /\ s \o r \in Seq(S) /\ Range(s \o r) = Range(s) \cup Range(r)
         /\ IsInjective(s) /\ IsInjective(r) /\ Range(s) \cap Range(r) = {} => IsInjective(s \o r)
  <1> DEFINE b == s \o r
  <1>1. /\ b \in Seq(S) /\ Len(s) \in Nat /\ Len(r) \in Nat /\ DOMAIN b = 1 .. Len(s) + Len(r)
        /\ DOMAIN s = 1 .. Len(s) /\ DOMAIN r = 1 .. Len(r)
    OBVIOUS
  <1>2. /\ \A i \in 1 .. Len(s) : b[i] = s[i] /\ i \in DOMAIN b
        /\ \A i \in 1 .. Len(r) : b[Len(s) + i] = r[i] /\ Len(s) + i \in DOMAIN b
    BY <1>1
  <1>3. \A i \in DOMAIN b : \/ i \in DOMAIN s /\ b[i] = s[i]
                            \/ i - Len(s) \in DOMAIN r /\ b[i] = r[i - Len(s)]
    BY <1>1
  <1>4. Range(s) \cup Range(r) \subseteq Range(b)
    BY <1>1, <1>2 DEF Range
  <1>5. Range(b) \subseteq Range(s) \cup Range(r)
    BY <1>3 DEF Range
  <1>6. ASSUME IsInjective(s), IsInjective(r), Range(s) \cap Range(r) = {},
               NEW i \in DOMAIN b, NEW j \in DOMAIN b, b[i] = b[j]
        PROVE  i = j
    <2>1. \A x \in DOMAIN s, y \in DOMAIN r : s[x] # r[y]
      BY <1>6 DEF Range
    <2>2. CASE i \in DOMAIN s /\ b[i] = s[i]
      <3>1. j \in DOMAIN s /\ b[j] = s[j]
        BY <2>1, <2>2, <1>3, <1>6
      <3>2. QED  BY <2>2, <3>1, <1>6 DEF IsInjective
    <2>3. CASE i - Len(s) \in DOMAIN r /\ b[i] = r[i - Len(s)]
      <3>1. j - Len(s) \in DOMAIN r /\ b[j] = r[j - Len(s)]
        BY <2>1, <2>3, <1>3, <1>6
      <3>2. i - Len(s) = j - Len(s)
        BY <2>3, <3>1, <1>6 DEF IsInjective
      <3>3. QED  BY <3>2, <1>1
    <2>4. QED  BY <2>2, <2>3, <1>3
  <1>7. QED  BY <1>1, <1>4, <1>5, <1>6 DEF IsInjective

\* What has no repetition as a whole has none in its two halves.
LEMMA HalvesFacts ==
  ASSUME NEW S, NEW s \in Seq(S), NEW r \in Seq(S), IsInjective(s \o r)
  PROVE  IsInjective(s) /\ IsInjective(r) /\ Range(s) \cap Range(r) = {}
  <1> DEFINE b == s \o r
  <1>1. /\ Len(s) \in Nat /\ Len(r) \in Nat /\ DOMAIN b = 1 .. Len(s) + Len(r)
        /\ DOMAIN s = 1 .. Len(s) /\ DOMAIN r = 1 .. Len(r)
    OBVIOUS
  <1>2. /\ \A i \in 1 .. Len(s) : b[i] = s[i] /\ i \in DOMAIN b
        /\ \A i \in 1 .. Len(r) : b[Len(s) + i] = r[i] /\ Len(s) + i \in DOMAIN b
    BY <1>1
  <1>3. \A i, j \in DOMAIN b : b[i] = b[j] => i = j
    BY DEF IsInjective
  <1> HIDE DEF b
  <1>4. IsInjective(s)
    BY <1>1, <1>2, <1>3 DEF IsInjective
  <1>5. ASSUME NEW i \in DOMAIN r, NEW j \in DOMAIN r, r[i] = r[j] PROVE i = j
    <2>1. b[Len(s) + i] = b[Len(s) + j] /\ Len(s) + i \in DOMAIN b /\ Len(s) + j \in DOMAIN b
      BY <1>1, <1>2, <1>5
    <2>2. Len(s) + i = Len(s) + j
      BY <1>3, <2>1
    <2>3. QED  BY <1>1, <2>2
  <1>6. ASSUME NEW i \in DOMAIN s, NEW j \in DOMAIN r PROVE s[i] # r[j]
    <2>1. b[i] = s[i] /\ b[Len(s) + j] = r[j] /\ i \in DOMAIN b /\ Len(s) + j \in DOMAIN b
      BY <1>1, <1>2
    <2>2. i # Len(s) + j
      BY <1>1
    <2>3. QED  BY <1>3, <2>1, <2>2
  <1>7. Range(s) \cap Range(r) = {}
    BY <1>6 DEF Range
  <1>8. QED  BY <1>4, <1>5, <1>7 DEF IsInjective

\* A sequence cut in two, and a sequence with one member singled out.
LEMMA CutJoin ==
  ASSUME NEW S, NEW s \in Seq(S), NEW n \in 0 .. Len(s)
  PROVE  /\ SubSeq(s, 1, n) \in Seq(S) /\ SubSeq(s, n + 1, Len(s)) \in Seq(S)
         /\ s = SubSeq(s, 1, n) \o SubSeq(s, n + 1, Len(s))
  <1>1. SubSeq(s, 1, n) \in Seq(S) /\ SubSeq(s, n + 1, Len(s)) \in Seq(S)
    OBVIOUS
  <1>2. SubSeq(s, 1, n) \o SubSeq(s, n + 1, Len(s)) = SubSeq(s, 1, Len(s))
    <2>1. 1 \in 1 .. Len(s) + 1 /\ n \in 1 - 1 .. Len(s) /\ Len(s) \in n .. Len(s)
      OBVIOUS
    <2>2. QED  BY <2>1, ConcatAdjacentSubSeq
  <1>3. SubSeq(s, 1, Len(s)) = s
    BY SubSeqFull
  <1>4. QED  BY <1>1, <1>2, <1>3

\* A sequence around its i-th member, and what RemoveAt leaves of it.
LEMMA SplitAt ==
  ASSUME NEW S, NEW s \in Seq(S), NEW i \in 1 .. Len(s)
  PROVE  LET front == SubSeq(s, 1, i - 1)
             rest == SubSeq(s, i + 1, Len(s))
         IN  /\ front \in Seq(S) /\ rest \in Seq(S) /\ s[i] \in S /\ <<s[i]>> \in Seq(S)
             /\ s = front \o (<<s[i]>> \o rest)
             /\ RemoveAt(s, i) = front \o rest
             /\ Len(front) = i - 1
  <1> DEFINE front == SubSeq(s, 1, i - 1)
             rest == SubSeq(s, i + 1, Len(s))
  <1>1. i - 1 \in 0 .. Len(s) /\ (i - 1) + 1 = i /\ Len(s) \in Nat
    OBVIOUS
  <1>2. front \in Seq(S) /\ SubSeq(s, i, Len(s)) \in Seq(S) /\ s = front \o SubSeq(s, i, Len(s))
    BY <1>1, CutJoin
  <1>3. SubSeq(s, i, Len(s)) = <<s[i]>> \o rest
    BY <1>1, SubSeqRecursiveFirst
  <1>4. rest \in Seq(S) /\ Len(front) = i - 1 /\ s[i] \in S
    BY <1>1
  <1>5. RemoveAt(s, i) = front \o rest
    BY DEF RemoveAt
  <1> HIDE DEF front, rest
  <1>6. <<s[i]>> \in Seq(S)
    BY <1>4
  <1>7. QED  BY <1>2, <1>3, <1>4, <1>5, <1>6 DEF front, rest

\* Replacing the last member.
LEMMA ReplaceLast ==
  ASSUME NEW S, NEW s \in Seq(S), Len(s) > 0, NEW e \in S
  PROVE  LET front == SubSeq(s, 1, Len(s) - 1) IN
         /\ front \in Seq(S) /\ s = front \o <<s[Len(s)]>> /\ s[Len(s)] \in S
         /\ [s EXCEPT ![Len(s)] = e] = front \o <<e>>
         /\ [s EXCEPT ![Len(s)] = e] \in Seq(S)
  <1> DEFINE n == Len(s)
             front == SubSeq(s, 1, n - 1)
             t == [s EXCEPT ![n] = e]
  <1>1. n \in Nat /\ n \in 1 .. n /\ n - 1 \in 0 .. n /\ s[n] \in S
    OBVIOUS
  <1>2. front \in Seq(S) /\ Len(front) = n - 1 /\ \A i \in 1 .. n - 1 : front[i] = s[i]
    <2>1. 1 \in Int /\ n - 1 \in Int /\ \A i \in 1 .. n - 1 : s[i] \in S
      BY <1>1
    <2>2. /\ front \in Seq(S) /\ Len(front) = IF 1 <= n - 1 THEN (n - 1) - 1 + 1 ELSE 0
          /\ \A i \in 1 .. (n - 1) - 1 + 1 : front[i] = s[1 + i - 1]
      BY <2>1, SubSeqProperties
    <2>3. (n - 1) - 1 + 1 = n - 1 /\ \A i \in 1 .. n - 1 : 1 + i - 1 = i
      BY <1>1
    <2>4. QED  BY <1>1, <2>2, <2>3
  <1>3. t \in Seq(S) /\ Len(t) = n /\ \A i \in 1 .. n : t[i] = IF i = n THEN e ELSE s[i]
    BY <1>1, ExceptSeq
  <1>4. ASSUME NEW x \in S
        PROVE  /\ front \o <<x>> \in Seq(S) /\ Len(front \o <<x>>) = n
               /\ \A i \in 1 .. n : (front \o <<x>>)[i] = IF i = n THEN x ELSE s[i]
    <2>1. <<x>> \in Seq(S) /\ Len(<<x>>) = 1 /\ <<x>>[1] = x
      OBVIOUS
    <2> HIDE DEF front, n
    <2>2. /\ front \o <<x>> \in Seq(S) /\ Len(front \o <<x>>) = (n - 1) + 1
          /\ \A i \in 1 .. (n - 1) + 1 : (front \o <<x>>)[i] =
                 IF i <= n - 1 THEN front[i] ELSE <<x>>[i - (n - 1)]
      BY <1>2, <2>1, ConcatProperties
    <2>3. (n - 1) + 1 = n /\ n - (n - 1) = 1 /\ \A i \in 1 .. n : i <= n - 1 <=> i # n
      BY <1>1
    <2>4. QED  BY <1>1, <1>2, <2>1, <2>2, <2>3
  <1> HIDE DEF front, t
  <1>5. t = front \o <<e>>
    BY <1>3, <1>4, SeqEqual
  <1>6. s = front \o <<s[n]>>
    BY <1>1, <1>4, SeqEqual
  <1>7. QED  BY <1>1, <1>2, <1>3, <1>5, <1>6 DEF front, t

\* The middle of three sequences, and what stays when it is cut out.
LEMMA MiddleOf ==
  ASSUME NEW S, NEW a \in Seq(S), NEW x \in Seq(S), NEW b \in Seq(S)
  PROVE  LET s == a \o (x \o b) IN
         /\ s \in Seq(S) /\ Len(s) = Len(a) + Len(x) + Len(b)
         /\ SubSeq(s, 1, Len(a)) = a
         /\ SubSeq(s, Len(a) + 1, Len(a) + Len(x)) = x
         /\ SubSeq(s, Len(a) + Len(x) + 1, Len(s)) = b
  <1> DEFINE s == a \o (x \o b)
             la == Len(a)
             lx == Len(x)
             lb == Len(b)
  <1>1. la \in Nat /\ lx \in Nat /\ lb \in Nat
    OBVIOUS
  <1>2. /\ x \o b \in Seq(S) /\ Len(x \o b) = lx + lb
        /\ \A i \in 1 .. lx + lb : (x \o b)[i] = IF i <= lx THEN x[i] ELSE b[i - lx]
    BY ConcatProperties
  <1>3. /\ s \in Seq(S) /\ Len(s) = la + (lx + lb)
        /\ \A i \in 1 .. la + (lx + lb) : s[i] = IF i <= la THEN a[i] ELSE (x \o b)[i - la]
    BY <1>2, ConcatProperties
  <1> HIDE DEF s
  <1>4. SubSeq(s, 1, la) = a
    <2>1. \A i \in 1 .. la : s[i] = a[i] /\ s[i] \in S
      BY <1>1, <1>3
    <2>2. /\ SubSeq(s, 1, la) \in Seq(S) /\ Len(SubSeq(s, 1, la)) = la
          /\ \A i \in 1 .. la : SubSeq(s, 1, la)[i] = s[i]
      BY <1>1, <1>3
    <2>3. QED  BY <2>1, <2>2, SeqEqual
  <1>5. SubSeq(s, la + 1, la + lx) = x
    <2>1. \A i \in 1 .. lx : s[la + i] = x[i]
      <3>1. ASSUME NEW i \in 1 .. lx PROVE s[la + i] = x[i]
        <4>1. la + i \in 1 .. la + (lx + lb) /\ ~(la + i <= la) /\ (la + i) - la = i
          BY <1>1
        <4>2. i \in 1 .. lx + lb /\ i <= lx
          BY <1>1
        <4>3. s[la + i] = (x \o b)[i]
          BY <1>3, <4>1
        <4>4. QED  BY <1>2, <4>2, <4>3
      <3>2. QED  BY <3>1
    <2>2. /\ SubSeq(s, la + 1, la + lx) \in Seq(S) /\ Len(SubSeq(s, la + 1, la + lx)) = lx
          /\ \A i \in 1 .. lx : SubSeq(s, la + 1, la + lx)[i] = s[la + i]
      BY <1>1, <1>3
    <2>3. QED  BY <2>1, <2>2, SeqEqual
  <1>6. SubSeq(s, la + lx + 1, Len(s)) = b
    <2>1. \A i \in 1 .. lb : s[la + lx + i] = b[i]
      <3>1. ASSUME NEW i \in 1 .. lb PROVE s[la + lx + i] = b[i]
        <4>1. /\ la + lx + i \in 1 .. la + (lx + lb) /\ ~(la + lx + i <= la)
              /\ (la + lx + i) - la = lx + i
          BY <1>1
        <4>2. lx + i \in 1 .. lx + lb /\ ~(lx + i <= lx) /\ (lx + i) - lx = i
          BY <1>1
        <4>3. s[la + lx + i] = (x \o b)[lx + i]
          BY <1>3, <4>1
        <4>4. QED  BY <1>2, <4>2, <4>3
      <3>2. QED  BY <3>1
    <2>2. /\ SubSeq(s, la + lx + 1, Len(s)) \in Seq(S) /\ Len(SubSeq(s, la + lx + 1, Len(s))) = lb
          /\ \A i \in 1 .. lb : SubSeq(s, la + lx + 1, Len(s))[i] = s[la + lx + i]
      BY <1>1, <1>3
    <2>3. QED  BY <2>1, <2>2, SeqEqual
  <1>7. Len(s) = la + lx + lb
    BY <1>1, <1>3
  <1>8. QED  BY <1>3, <1>4, <1>5, <1>6, <1>7 DEF s

-----------------------------------------------------------------------------
(* Flattening.                                                             *)

\* f lists the concatenations of the first 1, ..., n members of seqs.
Parts(seqs, n, f) ==
  f = [i \in 1 .. n |-> IF i = 1 THEN seqs[i] ELSE f[i - 1] \o seqs[i]]

\* The recursive function in the definition of FlattenSeq exists.
LEMMA PartsExist ==
  ASSUME NEW seqs, NEW n \in Nat
  PROVE  \E f : Parts(seqs, n, f)
  <1> DEFINE G == {k \in Nat : \E f : Parts(seqs, k, f)}
  <1>1. 0 \in G
    <2>1. Parts(seqs, 0, <<>>)
      BY DEF Parts
    <2>2. QED  BY <2>1
  <1>2. ASSUME NEW k \in Nat, k \in G PROVE k + 1 \in G
    <2>1. PICK f : Parts(seqs, k, f)
      BY <1>2
    <2> DEFINE g == [i \in 1 .. k + 1 |-> IF i = 1 THEN seqs[i] ELSE f[i - 1] \o seqs[i]]
    <2>2. ASSUME NEW i \in 1 .. k PROVE g[i] = f[i]
      <3>1. f[i] = IF i = 1 THEN seqs[i] ELSE f[i - 1] \o seqs[i]
        BY <2>1 DEF Parts
      <3>2. QED  BY <3>1
    <2>3. \A i \in 1 .. k + 1 : i # 1 => i - 1 \in 1 .. k
      OBVIOUS
    <2>4. g = [i \in 1 .. k + 1 |-> IF i = 1 THEN seqs[i] ELSE g[i - 1] \o seqs[i]]
      <3>1. \A i \in 1 .. k + 1 : i # 1 => g[i - 1] = f[i - 1]
        BY <2>2, <2>3
      <3> DEFINE h == [i \in 1 .. k + 1 |-> IF i = 1 THEN seqs[i] ELSE g[i - 1] \o seqs[i]]
      <3>2. \A i \in 1 .. k + 1 : g[i] = h[i]
        BY <3>1
      <3>3. QED  BY <3>2
    <2>5. Parts(seqs, k + 1, g)
      BY <2>4 DEF Parts
    <2> HIDE DEF g
    <2>6. k + 1 \in Nat /\ \E h : Parts(seqs, k + 1, h)
      BY <2>5
    <2>7. QED  BY <2>6
  <1> HIDE DEF G
  <1>3. n \in G
    BY <1>1, <1>2, NatSet
  <1>4. QED  BY <1>3 DEF G

\* s and t agree on their first k members.
Alike(s, t, k) == \A i \in 1 .. k : s[i] = t[i]

\* Parts of sequences that begin alike begin alike.
LEMMA PartsAgree ==
  ASSUME NEW s, NEW t, NEW k \in Nat, NEW n \in Nat, k <= n, NEW f, NEW g,
         Parts(s, k, f), Parts(t, n, g), Alike(s, t, k)
  PROVE  Alike(f, g, k)
  <1> DEFINE G == {i \in Nat : i \in 1 .. k => f[i] = g[i]}
  <1>1. \A i \in 1 .. k : f[i] = IF i = 1 THEN s[i] ELSE f[i - 1] \o s[i]
    BY DEF Parts
  <1>2. \A i \in 1 .. k : g[i] = IF i = 1 THEN s[i] ELSE g[i - 1] \o s[i]
    <2>1. \A i \in 1 .. n : g[i] = IF i = 1 THEN t[i] ELSE g[i - 1] \o t[i]
      BY DEF Parts
    <2>2. \A i \in 1 .. k : i \in 1 .. n
      OBVIOUS
    <2>3. QED  BY <2>1, <2>2 DEF Alike
  <1>3. 0 \in G
    OBVIOUS
  <1>4. ASSUME NEW i \in Nat, i \in G PROVE i + 1 \in G
    <2>1. CASE i + 1 \in 1 .. k
      <3>1. CASE i = 0  BY <1>1, <1>2, <2>1, <3>1
      <3>2. CASE i # 0
        <4>1. f[i] = g[i] /\ i + 1 # 1 /\ (i + 1) - 1 = i
          BY <1>4, <2>1, <3>2
        <4>2. f[i + 1] = f[i] \o s[i + 1] /\ g[i + 1] = g[i] \o s[i + 1]
          BY <1>1, <1>2, <2>1, <4>1
        <4>3. f[i + 1] = g[i + 1]
          BY <4>1, <4>2
        <4>4. QED  BY <4>3
      <3>3. QED  BY <3>1, <3>2
    <2>2. CASE i + 1 \notin 1 .. k  BY <2>2
    <2>3. QED  BY <2>1, <2>2
  <1> HIDE DEF G
  <1>5. Nat \subseteq G
    BY <1>3, <1>4, NatSet
  <1>6. QED  BY <1>5 DEF G, Alike

\* The parts of a sequence of sequences over S are sequences over S.
LEMMA PartsTyped ==
  ASSUME NEW S, NEW seqs \in Seq(Seq(S)), NEW f, Parts(seqs, Len(seqs), f)
  PROVE  \A i \in 1 .. Len(seqs) : f[i] \in Seq(S)
  <1> DEFINE G == {i \in Nat : i \in 1 .. Len(seqs) => f[i] \in Seq(S)}
  <1>1. \A i \in 1 .. Len(seqs) : f[i] = IF i = 1 THEN seqs[i] ELSE f[i - 1] \o seqs[i]
    BY DEF Parts
  <1>2. Len(seqs) \in Nat /\ \A i \in 1 .. Len(seqs) : seqs[i] \in Seq(S)
    OBVIOUS
  <1>3. 0 \in G
    OBVIOUS
  <1>4. ASSUME NEW i \in Nat, i \in G PROVE i + 1 \in G
    <2>1. CASE i + 1 \in 1 .. Len(seqs)
      <3>1. CASE i = 0  BY <1>1, <1>2, <2>1, <3>1
      <3>2. CASE i # 0
        <4>1. f[i] \in Seq(S) /\ i + 1 # 1 /\ (i + 1) - 1 = i
          BY <1>2, <1>4, <2>1, <3>2
        <4>2. f[i + 1] = f[i] \o seqs[i + 1]
          BY <1>1, <2>1, <4>1
        <4>3. seqs[i + 1] \in Seq(S)
          BY <1>2, <2>1
        <4>4. f[i] \o seqs[i + 1] \in Seq(S)
          BY <4>1, <4>3, ConcatProperties
        <4>5. f[i + 1] \in Seq(S)
          BY <4>2, <4>4
        <4>6. QED  BY <4>5
      <3>3. QED  BY <3>1, <3>2
    <2>2. CASE i + 1 \notin 1 .. Len(seqs)  BY <2>2
    <2>3. QED  BY <2>1, <2>2
  <1> HIDE DEF G
  <1>5. Nat \subseteq G
    BY <1>3, <1>4, NatSet
  <1>6. QED  BY <1>2, <1>5 DEF G

\* FlattenSeq is the last of its parts.
LEMMA FlattenParts ==
  ASSUME NEW S, NEW seqs \in Seq(Seq(S)), Len(seqs) # 0
  PROVE  \E f : Parts(seqs, Len(seqs), f) /\ FlattenSeq(seqs) = f[Len(seqs)]
  <1> DEFINE f == CHOOSE g : Parts(seqs, Len(seqs), g)
  <1>1. FlattenSeq(seqs) = f[Len(seqs)]
    BY DEF FlattenSeq, Parts
  <1>2. Len(seqs) \in Nat
    OBVIOUS
  <1>3. Parts(seqs, Len(seqs), f)
    BY <1>2, PartsExist
  <1> HIDE DEF f
  <1>4. QED  BY <1>1, <1>3

\* FlattenSeq of a sequence of sequences over S is a sequence over S.
LEMMA FlattenType ==
  ASSUME NEW S, NEW seqs \in Seq(Seq(S))
  PROVE  FlattenSeq(seqs) \in Seq(S)
  <1>1. CASE Len(seqs) = 0
    <2>1. seqs = <<>>
      BY <1>1
    <2>2. FlattenSeq(seqs) = <<>>
      BY <1>1, <2>1 DEF FlattenSeq
    <2>3. QED  BY <2>2
  <1>2. CASE Len(seqs) # 0
    <2>1. PICK f : Parts(seqs, Len(seqs), f) /\ FlattenSeq(seqs) = f[Len(seqs)]
      BY <1>2, FlattenParts
    <2>2. Len(seqs) \in 1 .. Len(seqs)
      BY <1>2
    <2>3. QED  BY <2>1, <2>2, PartsTyped
  <1>3. QED  BY <1>1, <1>2

\* Nothing flattened is nothing.
LEMMA FlattenEmpty == FlattenSeq(<<>>) = <<>>
  BY DEF FlattenSeq

\* One more sequence at the end comes last in the flattening.
LEMMA FlattenAppend ==
  ASSUME NEW S, NEW seqs \in Seq(Seq(S)), NEW s \in Seq(S)
  PROVE  FlattenSeq(Append(seqs, s)) = FlattenSeq(seqs) \o s
  <1> DEFINE more == Append(seqs, s)
             n == Len(seqs)
  <1>1. /\ more \in Seq(Seq(S)) /\ Len(more) = n + 1 /\ n \in Nat
        /\ \A i \in 1 .. n : more[i] = seqs[i]
        /\ more[n + 1] = s
    OBVIOUS
  <1> HIDE DEF more
  <1>2. PICK g : Parts(more, n + 1, g) /\ FlattenSeq(more) = g[n + 1]
    BY <1>1, FlattenParts
  <1>3. g[n + 1] = IF n + 1 = 1 THEN s ELSE g[n] \o s
    <2>1. \A i \in 1 .. n + 1 : g[i] = IF i = 1 THEN more[i] ELSE g[i - 1] \o more[i]
      BY <1>2 DEF Parts
    <2>2. n + 1 \in 1 .. n + 1 /\ (n + 1) - 1 = n
      BY <1>1
    <2>3. QED  BY <1>1, <2>1, <2>2
  <1>4. CASE n = 0
    <2>1. seqs = <<>> /\ FlattenSeq(seqs) = <<>>
      BY <1>4 DEF FlattenSeq
    <2>2. QED  BY <1>2, <1>3, <1>4, <2>1, ConcatEmptySeq DEF more
  <1>5. CASE n # 0
    <2>1. PICK f : Parts(seqs, n, f) /\ FlattenSeq(seqs) = f[n]
      BY <1>5, FlattenParts
    <2>2. \A i \in 1 .. n : f[i] = g[i]
      <3>1. n <= n + 1 /\ n + 1 \in Nat /\ Alike(seqs, more, n)
        BY <1>1 DEF Alike
      <3>2. Parts(seqs, n, f) /\ Parts(more, n + 1, g) /\ n \in Nat
        BY <1>1, <1>2, <2>1
      <3>3. Alike(f, g, n)
        BY <3>1, <3>2, PartsAgree
      <3>4. QED  BY <3>3 DEF Alike
    <2>3. f[n] = g[n]
      BY <1>1, <1>5, <2>2
    <2>4. QED  BY <1>1, <1>2, <1>3, <1>5, <2>1, <2>3 DEF more
  <1>6. QED  BY <1>4, <1>5

\* A single sequence is its own flattening.
LEMMA FlattenOne ==
  ASSUME NEW S, NEW s \in Seq(S)
  PROVE  FlattenSeq(<<s>>) = s
  <1>1. <<>> \in Seq(Seq(S)) /\ <<s>> = Append(<<>>, s)
    OBVIOUS
  <1>2. FlattenSeq(<<s>>) = <<>> \o s
    BY <1>1, FlattenAppend, FlattenEmpty
  <1>3. QED  BY <1>2, ConcatEmptySeq

\* Concatenation is associative, for the sequences over one set.
LEMMA Regroup ==
  ASSUME NEW S
  PROVE  \A x, y, z \in Seq(S) : (x \o y) \o z = x \o (y \o z)
  <1>1. ASSUME NEW x \in Seq(S), NEW y \in Seq(S), NEW z \in Seq(S)
        PROVE  (x \o y) \o z = x \o (y \o z)
    BY ConcatAssociative
  <1>2. QED  BY <1>1

\* Two flattenings and a last sequence may be joined in either order.
LEMMA FlattenRegroup ==
  ASSUME NEW S, NEW a \in Seq(Seq(S)), NEW d \in Seq(Seq(S)), NEW last \in Seq(S)
  PROVE  (FlattenSeq(a) \o FlattenSeq(d)) \o last = FlattenSeq(a) \o (FlattenSeq(d) \o last)
  <1>1. FlattenSeq(a) \in Seq(S) /\ FlattenSeq(d) \in Seq(S)
    BY FlattenType
  <1>2. QED  BY <1>1, Regroup

\* The flattening of a concatenation is the concatenation of the flattenings.
LEMMA FlattenConcat ==
  ASSUME NEW S, NEW a \in Seq(Seq(S)), NEW b \in Seq(Seq(S))
  PROVE  FlattenSeq(a \o b) = FlattenSeq(a) \o FlattenSeq(b)
  <1> DEFINE G == {n \in Nat : \A c \in Seq(Seq(S)) :
                     Len(c) = n => FlattenSeq(a \o c) = FlattenSeq(a) \o FlattenSeq(c)}
  <1>0. FlattenSeq(a) \in Seq(S)
    BY FlattenType
  <1>1. 0 \in G
    <2>1. ASSUME NEW c \in Seq(Seq(S)), Len(c) = 0
          PROVE  FlattenSeq(a \o c) = FlattenSeq(a) \o FlattenSeq(c)
      <3>1. c = <<>>
        BY <2>1
      <3>2. a \o c = a
        BY <3>1, ConcatEmptySeq
      <3>3. QED  BY <1>0, <3>1, <3>2, FlattenEmpty, ConcatEmptySeq
    <2>2. QED  BY <2>1
  <1>2. ASSUME NEW n \in Nat, n \in G PROVE n + 1 \in G
    <2>1. ASSUME NEW c \in Seq(Seq(S)), Len(c) = n + 1
          PROVE  FlattenSeq(a \o c) = FlattenSeq(a) \o FlattenSeq(c)
      <3>1. c # <<>>
        BY <2>1
      <3>2. PICK d \in Seq(Seq(S)), s \in Seq(S) : c = Append(d, s)
        BY <3>1, SequenceEmptyOrAppend
      <3>3. Len(d) = n
        BY <2>1, <3>2, AppendProperties
      <3>4. a \o d \in Seq(Seq(S)) /\ a \o c = Append(a \o d, s)
        <4>1. a \o d \in Seq(Seq(S)) /\ c = d \o <<s>> /\ <<s>> \in Seq(Seq(S))
          BY <3>2, AppendIsConcat, ConcatProperties
        <4>2. a \o (d \o <<s>>) = (a \o d) \o <<s>>
          BY <4>1, ConcatAssociative
        <4>3. Append(a \o d, s) = (a \o d) \o <<s>>
          BY <4>1, AppendIsConcat
        <4>4. QED  BY <4>1, <4>2, <4>3
      <3>5. FlattenSeq(a \o d) = FlattenSeq(a) \o FlattenSeq(d)
        BY <1>2, <3>3
      <3>6. /\ FlattenSeq(a \o c) = FlattenSeq(a \o d) \o s
            /\ FlattenSeq(c) = FlattenSeq(d) \o s
        BY <3>2, <3>4, FlattenAppend
      <3>7. (FlattenSeq(a) \o FlattenSeq(d)) \o s = FlattenSeq(a) \o (FlattenSeq(d) \o s)
        BY FlattenRegroup
      <3>8. QED  BY <3>5, <3>6, <3>7
    <2>2. QED  BY <2>1
  <1> HIDE DEF G
  <1>3. Len(b) \in G
    BY <1>1, <1>2, NatSet, LenProperties
  <1>4. QED  BY <1>3 DEF G

\* What a flattening holds is what its members hold.
LEMMA FlattenRange ==
  ASSUME NEW S, NEW seqs \in Seq(Seq(S)), NEW x
  PROVE  x \in Range(FlattenSeq(seqs)) <=> \E i \in 1 .. Len(seqs) : x \in Range(seqs[i])
  <1> DEFINE Held(c) == x \in Range(FlattenSeq(c)) <=> \E i \in 1 .. Len(c) : x \in Range(c[i])
             G == {n \in Nat : \A c \in Seq(Seq(S)) : Len(c) = n => Held(c)}
  <1>1. 0 \in G
    <2>1. ASSUME NEW c \in Seq(Seq(S)), Len(c) = 0 PROVE Held(c)
      <3>1. c = <<>>
        BY <2>1
      <3>2. Range(FlattenSeq(c)) = {}
        BY <3>1, FlattenEmpty DEF Range
      <3>3. QED  BY <2>1, <3>2
    <2> HIDE DEF Held
    <2>2. QED  BY <2>1
  <1>2. ASSUME NEW n \in Nat, n \in G PROVE n + 1 \in G
    <2>1. ASSUME NEW c \in Seq(Seq(S)), Len(c) = n + 1 PROVE Held(c)
      <3>1. c # <<>>
        BY <2>1
      <3>2. PICK d \in Seq(Seq(S)), s \in Seq(S) : c = Append(d, s)
        BY <3>1, SequenceEmptyOrAppend
      <3>3. /\ Len(d) = n /\ \A i \in 1 .. n : c[i] = d[i]
            /\ c[n + 1] = s
        BY <2>1, <3>2, AppendProperties
      <3>4. Range(FlattenSeq(c)) = Range(FlattenSeq(d)) \cup Range(s)
        <4>1. FlattenSeq(c) = FlattenSeq(d) \o s /\ FlattenSeq(d) \in Seq(S)
          BY <3>2, FlattenAppend, FlattenType
        <4> DEFINE fd == FlattenSeq(d)
        <4>2. fd \in Seq(S)  BY <4>1
        <4> HIDE DEF fd
        <4>3. Range(fd \o s) = Range(fd) \cup Range(s)
          BY <4>2, RangeConcatenation
        <4>4. QED  BY <4>1, <4>3 DEF fd
      <3>5. x \in Range(FlattenSeq(d)) <=> \E i \in 1 .. n : x \in Range(d[i])
        BY <1>2, <3>3
      <3>6. (\E i \in 1 .. n + 1 : x \in Range(c[i])) <=>
               (\E i \in 1 .. n : x \in Range(d[i])) \/ x \in Range(s)
        <4>1. \A i \in 1 .. n + 1 : i \in 1 .. n \/ i = n + 1
          OBVIOUS
        <4>2. n + 1 \in 1 .. n + 1 /\ \A i \in 1 .. n : i \in 1 .. n + 1
          OBVIOUS
        <4>3. QED  BY <3>3, <4>1, <4>2
      <3>7. QED  BY <2>1, <3>4, <3>5, <3>6
    <2> HIDE DEF Held
    <2>2. QED  BY <2>1
  <1> HIDE DEF G, Held
  <1>3. Len(seqs) \in G
    BY <1>1, <1>2, NatSet, LenProperties
  <1>4. Held(seqs)
    BY <1>3 DEF G
  <1>5. QED  BY <1>4 DEF Held

-----------------------------------------------------------------------------
(* The place of a member in a sequence without repetition.                 *)

PlaceOf(s, e) == CHOOSE n \in DOMAIN s : s[n] = e

\* The place of a member is its place, and its only one.
LEMMA AtFacts ==
  ASSUME NEW S, NEW s \in Seq(S), NEW e \in Range(s)
  PROVE  /\ PlaceOf(s, e) \in 1 .. Len(s) /\ s[PlaceOf(s, e)] = e
         /\ IsInjective(s) => \A n \in 1 .. Len(s) : s[n] = e => n = PlaceOf(s, e)
  <1>1. DOMAIN s = 1 .. Len(s) /\ \E n \in DOMAIN s : s[n] = e
    BY DEF Range
  <1>2. PlaceOf(s, e) \in DOMAIN s /\ s[PlaceOf(s, e)] = e
    BY <1>1 DEF PlaceOf
  <1>3. QED  BY <1>1, <1>2 DEF IsInjective

\* Removing a member moves those behind it one place up and nobody else.
LEMMA RemovedFacts ==
  ASSUME NEW S, NEW s \in Seq(S), IsInjective(s), NEW i \in 1 .. Len(s)
  PROVE  LET r == RemoveAt(s, i) IN
         /\ r \in Seq(S) /\ Len(r) = Len(s) - 1 /\ IsInjective(r) /\ Range(r) = Range(s) \ {s[i]}
         /\ \A t, u \in Range(r) : PlaceOf(r, t) < PlaceOf(r, u) => PlaceOf(s, t) < PlaceOf(s, u)
  <1> DEFINE front == SubSeq(s, 1, i - 1)
             rest == SubSeq(s, i + 1, Len(s))
             r == RemoveAt(s, i)
             Up(k) == IF k < i THEN k ELSE k + 1
  <1>1. /\ Len(s) \in Nat /\ i \in Nat /\ DOMAIN s = 1 .. Len(s)
        /\ front \in Seq(S) /\ Len(front) = i - 1 /\ \A k \in 1 .. i - 1 : front[k] = s[k]
        /\ rest \in Seq(S) /\ Len(rest) = Len(s) - i /\ \A k \in 1 .. Len(s) - i : rest[k] = s[i + k]
    OBVIOUS
  <1>2. r = front \o rest
    BY DEF RemoveAt
  <1> HIDE DEF front, rest, r
  <1>3. /\ r \in Seq(S) /\ Len(r) = Len(s) - 1 /\ DOMAIN r = 1 .. Len(s) - 1
        /\ \A k \in 1 .. Len(s) - 1 : r[k] = IF k <= i - 1 THEN front[k] ELSE rest[k - (i - 1)]
    <2>1. /\ r \in Seq(S) /\ Len(r) = Len(front) + Len(rest)
          /\ \A k \in 1 .. Len(front) + Len(rest) :
               r[k] = IF k <= Len(front) THEN front[k] ELSE rest[k - Len(front)]
      BY <1>1, <1>2, ConcatProperties
    <2>2. Len(front) + Len(rest) = Len(s) - 1 /\ Len(front) = i - 1
      BY <1>1
    <2>3. QED  BY <2>1, <2>2
  <1>4. ASSUME NEW k \in 1 .. Len(s) - 1 PROVE r[k] = s[Up(k)] /\ Up(k) \in 1 .. Len(s) /\ Up(k) # i
    <2>1. CASE k < i
      <3>1. k \in 1 .. i - 1 /\ k <= i - 1 /\ k \in 1 .. Len(s) /\ Up(k) = k
        BY <1>1, <2>1
      <3>2. front[k] = s[k] /\ r[k] = front[k] /\ k # i
        BY <1>1, <1>3, <2>1, <3>1
      <3> HIDE DEF Up
      <3>3. QED  BY <3>1, <3>2
    <2>2. CASE ~(k < i)
      <3>1. k - (i - 1) \in 1 .. Len(s) - i /\ i + (k - (i - 1)) = k + 1 /\ ~(k <= i - 1)
        BY <1>1, <2>2
      <3>2. QED  BY <1>1, <1>3, <2>2, <3>1
    <2>3. QED  BY <2>1, <2>2
  <1>5. ASSUME NEW n \in 1 .. Len(s), n # i PROVE \E k \in 1 .. Len(s) - 1 : Up(k) = n
    <2>1. CASE n < i
      <3>1. n \in 1 .. Len(s) - 1 /\ Up(n) = n
        BY <1>1, <2>1
      <3>2. QED  BY <3>1
    <2>2. CASE ~(n < i)
      <3>1. n - 1 \in 1 .. Len(s) - 1 /\ ~(n - 1 < i) /\ (n - 1) + 1 = n
        BY <1>1, <1>5, <2>2
      <3>2. QED  BY <3>1
    <2>3. QED  BY <2>1, <2>2
  <1>6. \A k, n \in 1 .. Len(s) - 1 : (Up(k) = Up(n) => k = n) /\ (k < n => Up(k) < Up(n))
    BY <1>1
  <1> HIDE DEF Up
  <1>7. IsInjective(r)
    <2>1. ASSUME NEW k \in 1 .. Len(s) - 1, NEW n \in 1 .. Len(s) - 1, r[k] = r[n] PROVE k = n
      <3>1. /\ r[k] = s[Up(k)] /\ Up(k) \in 1 .. Len(s)
            /\ r[n] = s[Up(n)] /\ Up(n) \in 1 .. Len(s)
        BY <1>4
      <3>2. Up(k) = Up(n)
        BY <1>1, <2>1, <3>1 DEF IsInjective
      <3>3. QED  BY <1>6, <3>2
    <2>2. QED  BY <1>3, <2>1 DEF IsInjective
  <1>8. Range(r) = Range(s) \ {s[i]}
    <2>1. ASSUME NEW x \in Range(r) PROVE x \in Range(s) /\ x # s[i]
      <3>1. PICK k \in 1 .. Len(s) - 1 : x = r[k]
        BY <1>3 DEF Range
      <3>2. QED  BY <1>1, <1>4, <3>1 DEF Range, IsInjective
    <2>2. ASSUME NEW x \in Range(s), x # s[i] PROVE x \in Range(r)
      <3>1. PICK n \in 1 .. Len(s) : x = s[n]
        BY <1>1 DEF Range
      <3>2. PICK k \in 1 .. Len(s) - 1 : Up(k) = n
        BY <1>5, <2>2, <3>1
      <3>3. QED  BY <1>3, <1>4, <3>1, <3>2 DEF Range
    <2>3. QED  BY <2>1, <2>2
  <1>9. ASSUME NEW t \in Range(r), NEW u \in Range(r), PlaceOf(r, t) < PlaceOf(r, u)
        PROVE  PlaceOf(s, t) < PlaceOf(s, u)
    <2>1. PlaceOf(r, t) \in 1 .. Len(s) - 1 /\ r[PlaceOf(r, t)] = t /\ PlaceOf(r, u) \in 1 .. Len(s) - 1 /\ r[PlaceOf(r, u)] = u
      BY <1>3, AtFacts
    <2>2. /\ Up(PlaceOf(r, t)) \in 1 .. Len(s) /\ s[Up(PlaceOf(r, t))] = t
          /\ Up(PlaceOf(r, u)) \in 1 .. Len(s) /\ s[Up(PlaceOf(r, u))] = u
      BY <1>4, <2>1
    <2>3. t \in Range(s) /\ u \in Range(s)
      BY <1>8
    <2>4. PlaceOf(s, t) = Up(PlaceOf(r, t)) /\ PlaceOf(s, u) = Up(PlaceOf(r, u))
      BY <2>2, <2>3, AtFacts
    <2>5. QED  BY <1>6, <1>9, <2>1, <2>4
  <1>10. QED  BY <1>3, <1>7, <1>8, <1>9 DEF r

\* A newcomer at the end moves nobody.
LEMMA AppendedFacts ==
  ASSUME NEW S, NEW s \in Seq(S), IsInjective(s), NEW e \in S, e \notin Range(s)
  PROVE  /\ Append(s, e) \in Seq(S) /\ Len(Append(s, e)) = Len(s) + 1 /\ IsInjective(Append(s, e))
         /\ Range(Append(s, e)) = Range(s) \cup {e}
         /\ \A t \in Range(s) : PlaceOf(Append(s, e), t) = PlaceOf(s, t)
  <1> DEFINE r == Append(s, e)
  <1>1. r \in Seq(S) /\ IsInjective(r) /\ Range(r) = Range(s) \cup {e}
    BY AppendFacts
  <1>2. Len(s) \in Nat /\ Len(r) = Len(s) + 1 /\ \A n \in 1 .. Len(s) : r[n] = s[n] /\ n \in 1 .. Len(s) + 1
    OBVIOUS
  <1> HIDE DEF r
  <1>3. ASSUME NEW t \in Range(s) PROVE PlaceOf(r, t) = PlaceOf(s, t)
    <2>1. PlaceOf(s, t) \in 1 .. Len(s) /\ s[PlaceOf(s, t)] = t
      BY AtFacts
    <2>2. t \in Range(r) /\ PlaceOf(s, t) \in 1 .. Len(r) /\ r[PlaceOf(s, t)] = t
      BY <1>1, <1>2, <2>1
    <2>3. QED  BY <1>1, <2>2, AtFacts
  <1>4. QED  BY <1>1, <1>2, <1>3 DEF r


\* Two members that change places leave the same members.
LEMMA SwapFacts ==
  ASSUME NEW S, NEW s \in Seq(S), IsInjective(s), NEW i \in 1 .. Len(s), NEW j \in 1 .. Len(s)
  PROVE  LET r == [s EXCEPT ![i] = s[j], ![j] = s[i]] IN
         /\ r \in Seq(S) /\ Len(r) = Len(s) /\ IsInjective(r) /\ Range(r) = Range(s)
  <1> DEFINE r == [s EXCEPT ![i] = s[j], ![j] = s[i]]
             Other(k) == IF k = j THEN i ELSE IF k = i THEN j ELSE k
  <1>1. DOMAIN s = 1 .. Len(s) /\ DOMAIN r = 1 .. Len(s) /\ Len(s) \in Nat
    OBVIOUS
  <1>2. \A k \in 1 .. Len(s) : r[k] = s[Other(k)] /\ Other(k) \in 1 .. Len(s)
    BY <1>1
  <1>3. r \in Seq(S) /\ Len(r) = Len(s)
    OBVIOUS
  <1> HIDE DEF r
  <1>4. \A k, n \in 1 .. Len(s) : (Other(k) = Other(n) => k = n) /\ Other(Other(k)) = k
    OBVIOUS
  <1> HIDE DEF Other
  <1>5. IsInjective(r)
    BY <1>1, <1>2, <1>4 DEF IsInjective
  <1>6. Range(r) = Range(s)
    BY <1>1, <1>2, <1>4 DEF Range
  <1>7. QED  BY <1>3, <1>5, <1>6 DEF r


-----------------------------------------------------------------------------
(* Sums over finite sets.                                                  *)

\* g gives the sum of f over every subset of S, as SumFunctionOnSet takes it.
Adds(f, S, g) ==
  g = [s \in SUBSET S |-> IF s = {} THEN 0 ELSE LET x == CHOOSE y \in s : TRUE IN f[x] + g[s \ {x}]]

\* The sum over a set is what such a function gives for it.
LEMMA SumAdds ==
  ASSUME NEW f, NEW S
  PROVE  SumFunctionOnSet(f, S) = (CHOOSE g : Adds(f, S, g))[S]
  BY DEF SumFunctionOnSet, FoldFunctionOnSet, MapThenFoldSet, Adds

\* One element less.
LEMMA OneLess ==
  ASSUME NEW s, IsFiniteSet(s), NEW n \in Nat, Cardinality(s) = n + 1
  PROVE  /\ s # {} /\ (CHOOSE y \in s : TRUE) \in s
         /\ \A x \in s : IsFiniteSet(s \ {x}) /\ Cardinality(s \ {x}) = n
  <1>1. s # {}
    BY FS_EmptySet
  <1>2. ASSUME NEW x \in s PROVE IsFiniteSet(s \ {x}) /\ Cardinality(s \ {x}) = n
    BY FS_RemoveElement
  <1>3. QED  BY <1>1, <1>2

\* Two such functions, for a set and for a larger one, agree on it.
LEMMA AddsAgree ==
  ASSUME NEW f, NEW S, NEW T, T \subseteq S, IsFiniteSet(T), NEW g, NEW h, Adds(f, S, g), Adds(f, T, h)
  PROVE  g[T] = h[T]
  <1> DEFINE K == {n \in Nat : \A s \in SUBSET T : Cardinality(s) = n => g[s] = h[s]}
             C(s) == CHOOSE y \in s : TRUE
  <1>1. /\ \A s \in SUBSET S : g[s] = IF s = {} THEN 0 ELSE f[C(s)] + g[s \ {C(s)}]
        /\ \A s \in SUBSET T : h[s] = IF s = {} THEN 0 ELSE f[C(s)] + h[s \ {C(s)}]
    BY DEF Adds
  <1>2. \A s \in SUBSET T : IsFiniteSet(s)
    BY FS_Subset
  <1>3. 0 \in K
    <2>1. ASSUME NEW s \in SUBSET T, Cardinality(s) = 0 PROVE g[s] = h[s]
      <3>1. s = {}
        BY <1>2, <2>1, FS_EmptySet
      <3>2. QED  BY <1>1, <3>1
    <2>2. QED  BY <2>1
  <1>4. ASSUME NEW n \in Nat, n \in K PROVE n + 1 \in K
    <2>1. ASSUME NEW s \in SUBSET T, Cardinality(s) = n + 1 PROVE g[s] = h[s]
      <3>1. s # {} /\ C(s) \in s /\ \A x \in s : Cardinality(s \ {x}) = n
        BY <1>2, <2>1, OneLess
      <3> DEFINE c == C(s)
      <3>2. c \in s /\ s \in SUBSET S /\ s \ {c} \in SUBSET T
        BY <3>1
      <3>3. g[s] = f[c] + g[s \ {c}] /\ h[s] = f[c] + h[s \ {c}]
        BY <1>1, <3>1, <3>2
      <3>4. g[s \ {c}] = h[s \ {c}]
        BY <1>4, <3>1, <3>2
      <3>5. QED  BY <3>3, <3>4
    <2>2. QED  BY <2>1
  <1> HIDE DEF K
  <1>5. Cardinality(T) \in K
    BY <1>3, <1>4, NatSet, FS_CardinalityType
  <1>6. QED  BY <1>5 DEF K

\* The recursive function in the definition of a sum exists.
LEMMA AddsExist ==
  ASSUME NEW f, NEW S, IsFiniteSet(S)
  PROVE  \E g : Adds(f, S, g)
  <1> DEFINE C(s) == CHOOSE y \in s : TRUE
             Sum(s) == SumFunctionOnSet(f, s)
             K == {n \in Nat : \A s \in SUBSET S : Cardinality(s) <= n => \E g : Adds(f, s, g)}
  <1>1. \A s \in SUBSET S : IsFiniteSet(s) /\ Cardinality(s) \in Nat
    BY FS_Subset, FS_CardinalityType
  <1>2. 0 \in K
    <2>1. ASSUME NEW s \in SUBSET S, Cardinality(s) <= 0 PROVE \E g : Adds(f, s, g)
      <3>1. s = {}
        BY <1>1, <2>1, FS_EmptySet
      <3> DEFINE g == [r \in SUBSET {} |-> 0]
      <3>2. g = [r \in SUBSET {} |-> IF r = {} THEN 0 ELSE f[C(r)] + g[r \ {C(r)}]]
        OBVIOUS
      <3> HIDE DEF g
      <3>3. Adds(f, s, g)
        BY <3>1, <3>2 DEF Adds
      <3>4. QED  BY <3>3
    <2>2. QED  BY <2>1
  <1>3. ASSUME NEW n \in Nat, n \in K PROVE n + 1 \in K
    <2>1. ASSUME NEW s \in SUBSET S, Cardinality(s) <= n, s # {}
          PROVE  Sum(s) = f[C(s)] + Sum(s \ {C(s)})
      <3> DEFINE c == C(s)
                 r == s \ {c}
      <3>1. c \in s /\ r \in SUBSET S /\ r \subseteq s
        BY <2>1
      <3>2. Cardinality(r) <= n
        <4>1. Cardinality(r) <= Cardinality(s) /\ Cardinality(r) \in Nat /\ Cardinality(s) \in Nat
          BY <1>1, <3>1, FS_Subset
        <4> HIDE DEF r
        <4>2. QED  BY <2>1, <4>1
      <3> DEFINE g == CHOOSE x : Adds(f, s, x)
                 h == CHOOSE x : Adds(f, r, x)
      <3>3. Adds(f, s, g) /\ Adds(f, r, h)
        BY <1>3, <2>1, <3>1, <3>2
      <3>4. Sum(s) = g[s] /\ Sum(r) = h[r]
        BY SumAdds
      <3> HIDE DEF g, h
      <3>5. g[s] = f[c] + g[r]
        BY <2>1, <3>3 DEF Adds
      <3>6. g[r] = h[r]
        BY <1>1, <3>1, <3>3, AddsAgree
      <3> HIDE DEF Sum
      <3>7. QED  BY <3>4, <3>5, <3>6
    <2>2. ASSUME NEW s \in SUBSET S, Cardinality(s) <= n, s = {}
          PROVE  Sum(s) = 0
      <3> DEFINE g == CHOOSE x : Adds(f, s, x)
      <3>1. Adds(f, s, g) /\ Sum(s) = g[s]
        BY <1>3, <2>2, SumAdds
      <3> HIDE DEF g
      <3>2. g[s] = 0
        BY <2>2, <3>1 DEF Adds
      <3>3. QED  BY <3>1, <3>2
    <2>3. ASSUME NEW s \in SUBSET S, Cardinality(s) <= n + 1 PROVE \E g : Adds(f, s, g)
      <3>1. CASE Cardinality(s) <= n
        BY <1>3, <3>1
      <3>2. CASE ~(Cardinality(s) <= n)
        <4>1. Cardinality(s) = n + 1
          BY <1>1, <2>3, <3>2
        <4>2. s # {} /\ \A r \in SUBSET s : r # s => r \in SUBSET S /\ Cardinality(r) <= n
          <5>1. s # {}
            BY <1>1, <4>1, OneLess
          <5>2. ASSUME NEW r \in SUBSET s, r # s PROVE r \in SUBSET S /\ Cardinality(r) <= n
            <6>1. PICK x \in s : x \notin r
              BY <5>2
            <6>2. r \in SUBSET (s \ {x}) /\ IsFiniteSet(s \ {x}) /\ Cardinality(s \ {x}) = n
              BY <1>1, <4>1, <6>1, OneLess
            <6>3. QED  BY <6>2, FS_Subset
          <5>3. QED  BY <5>1, <5>2
        <4> HIDE DEF Sum
        <4> DEFINE V(r) == IF r = s THEN f[C(s)] + Sum(s \ {C(s)}) ELSE Sum(r)
                   g == [r \in SUBSET s |-> V(r)]
        <4>3. ASSUME NEW r \in SUBSET s
              PROVE  g[r] = IF r = {} THEN 0 ELSE f[C(r)] + g[r \ {C(r)}]
          <5>1. r # {} => C(r) \in r /\ r \ {C(r)} \in SUBSET s /\ r \ {C(r)} # s
            OBVIOUS
          <5>2. r # {} => g[r \ {C(r)}] = Sum(r \ {C(r)})
            BY <5>1
          <5>3. g[r] = V(r)
            OBVIOUS
          <5> HIDE DEF g, C
          <5>4. CASE r = s
            BY <4>2, <5>2, <5>3, <5>4
          <5>5. CASE r # s
            BY <2>1, <2>2, <4>2, <5>2, <5>3, <5>5
          <5>6. QED  BY <5>4, <5>5
        <4>4. g = [r \in SUBSET s |-> IF r = {} THEN 0 ELSE f[C(r)] + g[r \ {C(r)}]]
          <5> DEFINE h == [r \in SUBSET s |-> IF r = {} THEN 0 ELSE f[C(r)] + g[r \ {C(r)}]]
          <5>1. \A r \in SUBSET s : g[r] = h[r]
            BY <4>3
          <5>2. QED  BY <5>1
        <4> HIDE DEF g
        <4>5. Adds(f, s, g)
          BY <4>4 DEF Adds
        <4>6. QED  BY <4>5
      <3>3. QED  BY <3>1, <3>2
    <2>4. QED  BY <2>3
  <1> HIDE DEF K
  <1>4. Cardinality(S) \in K
    BY <1>1, <1>2, <1>3, NatSet
  <1>5. QED  BY <1>1, <1>4 DEF K

\* The sum over nothing, and over a set its CHOOSE starts with.
LEMMA SumSteps ==
  ASSUME NEW f, NEW S, IsFiniteSet(S)
  PROVE  /\ SumFunctionOnSet(f, {}) = 0
         /\ S # {} => LET x == CHOOSE y \in S : TRUE IN
                      SumFunctionOnSet(f, S) = f[x] + SumFunctionOnSet(f, S \ {x})
  <1> DEFINE c == CHOOSE y \in S : TRUE
             r == S \ {c}
             g == CHOOSE x : Adds(f, S, x)
             h == CHOOSE x : Adds(f, r, x)
             z == CHOOSE x : Adds(f, {}, x)
  <1>1. IsFiniteSet(r) /\ IsFiniteSet({})
    BY FS_Subset, FS_EmptySet
  <1>2. Adds(f, S, g) /\ Adds(f, r, h) /\ Adds(f, {}, z)
    BY <1>1, AddsExist
  <1>3. SumFunctionOnSet(f, S) = g[S] /\ SumFunctionOnSet(f, r) = h[r] /\ SumFunctionOnSet(f, {}) = z[{}]
    BY SumAdds
  <1> HIDE DEF g, h, z
  <1>4. z[{}] = 0
    BY <1>2 DEF Adds
  <1>5. S # {} => g[S] = f[c] + g[r]
    BY <1>2 DEF Adds
  <1>6. g[r] = h[r]
    BY <1>1, <1>2, AddsAgree
  <1>7. QED  BY <1>3, <1>4, <1>5, <1>6

\* A sum of natural numbers is one, and any element can be taken out first.
LEMMA SumWithout ==
  ASSUME NEW D, NEW f \in [D -> Nat], NEW S \in SUBSET D, IsFiniteSet(S)
  PROVE  /\ SumFunctionOnSet(f, S) \in Nat
         /\ \A x \in S : SumFunctionOnSet(f, S) = f[x] + SumFunctionOnSet(f, S \ {x})
  <1> DEFINE Sum(s) == SumFunctionOnSet(f, s)
             C(s) == CHOOSE y \in s : TRUE
             Fine(s) == Sum(s) \in Nat /\ \A x \in s : Sum(s) = f[x] + Sum(s \ {x})
             K == {n \in Nat : \A s \in SUBSET S : Cardinality(s) <= n => Fine(s)}
  <1>1. \A s \in SUBSET S : IsFiniteSet(s)
    BY FS_Subset
  <1>2. 0 \in K
    <2>1. ASSUME NEW s \in SUBSET S, Cardinality(s) <= 0 PROVE Fine(s)
      <3>1. IsFiniteSet(s) /\ Cardinality(s) \in Nat
        BY <1>1, FS_CardinalityType
      <3>2. s = {}
        BY <2>1, <3>1, FS_EmptySet
      <3>3. Sum({}) = 0
        BY <1>1, SumSteps
      <3> HIDE DEF Sum
      <3>4. QED  BY <3>2, <3>3
    <2>2. QED  BY <2>1
  <1>3. ASSUME NEW n \in Nat, n \in K PROVE n + 1 \in K
    <2>1. ASSUME NEW s \in SUBSET S, Cardinality(s) = n + 1 PROVE Fine(s)
      <3> DEFINE c == C(s)
      <3>1. s # {} /\ c \in s /\ \A x \in s : Cardinality(s \ {x}) = n
        BY <1>1, <2>1, OneLess
      <3>2. Sum(s) = f[c] + Sum(s \ {c})
        BY <1>1, <3>1, SumSteps
      <3> HIDE DEF Sum, c
      <3>3. \A x \in s : f[x] \in Nat
        OBVIOUS
      <3>4. ASSUME NEW r \in SUBSET s, r # s
            PROVE  Sum(r) \in Nat /\ \A x \in r : Sum(r) = f[x] + Sum(r \ {x})
        <4>1. PICK x \in s : x \notin r
          BY <3>4
        <4>2. r \in SUBSET (s \ {x}) /\ IsFiniteSet(s \ {x}) /\ Cardinality(s \ {x}) = n
          BY <1>1, <2>1, <4>1, OneLess
        <4>3. Cardinality(r) <= n /\ r \in SUBSET S
          BY <4>2, FS_Subset
        <4>4. QED  BY <1>3, <4>3
      <3>5. ASSUME NEW x \in s PROVE Sum(s) = f[x] + Sum(s \ {x})
        <4>1. CASE x = c
          BY <3>2, <4>1
        <4>2. CASE x # c
          <5> DEFINE r == (s \ {c}) \ {x}
          <5>1. x \in s \ {c} /\ c \in s \ {x} /\ r = (s \ {x}) \ {c} /\ r # s
            BY <3>1, <4>2
          <5>2. Sum(s \ {c}) = f[x] + Sum(r)
            BY <3>1, <3>4, <5>1
          <5>3. Sum(s \ {x}) = f[c] + Sum(r)
            BY <3>4, <5>1
          <5>4. Sum(r) \in Nat /\ f[x] \in Nat /\ f[c] \in Nat
            BY <3>1, <3>3, <3>4, <5>1
          <5> HIDE DEF r
          <5>5. f[c] + (f[x] + Sum(r)) = f[x] + (f[c] + Sum(r))
            BY <5>4
          <5>6. QED  BY <3>2, <5>2, <5>3, <5>5
        <4>3. QED  BY <4>1, <4>2
      <3>6. Sum(s) \in Nat
        <4>1. s \ {c} \in SUBSET s /\ s \ {c} # s
          BY <3>1
        <4>2. Sum(s \ {c}) \in Nat /\ f[c] \in Nat
          BY <3>1, <3>3, <3>4, <4>1
        <4>3. QED  BY <3>2, <4>2
      <3>7. QED  BY <3>5, <3>6
    <2>2. ASSUME NEW s \in SUBSET S, Cardinality(s) <= n + 1 PROVE Fine(s)
      <3>1. Cardinality(s) \in Nat
        BY <1>1, FS_CardinalityType
      <3> HIDE DEF Fine
      <3>2. QED  BY <1>3, <2>1, <2>2, <3>1
    <2>3. QED  BY <2>2
  <1> HIDE DEF K
  <1>4. Cardinality(S) \in K
    BY <1>2, <1>3, NatSet, FS_CardinalityType
  <1>5. Cardinality(S) <= Cardinality(S)
    BY FS_CardinalityType
  <1>6. QED  BY <1>4, <1>5 DEF K

=============================================================================
