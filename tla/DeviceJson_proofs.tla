--------------------------- MODULE DeviceJson_proofs ---------------------------
(***************************************************************************)
(* What is read back is what was written, for each object of a file.       *)
(***************************************************************************)
EXTENDS DeviceJson, SequenceLemmas, TLAPS

\* The value that stands for "none" is no function and no number, and says of no event
\* how it ended.
NullIsNone ==
  /\ \A f : f = [x \in DOMAIN f |-> f[x]] => f # Null
  /\ Null \notin Int /\ Null \notin {"COMPLETED", "SUCCESS"}

-----------------------------------------------------------------------------
(* The elements of a sequence that are in a set.                           *)

\* What Select builds up, element by element.
Selection(sel, s, T) ==
  sel = [n \in 0 .. Len(s) |->
          IF n = 0 THEN <<>>
          ELSE IF s[n] \in T THEN Append(sel[n - 1], s[n]) ELSE sel[n - 1]]

LEMMA SelectionExists ==
  ASSUME NEW s, IsSeq(s), NEW T
  PROVE  \E sel : Selection(sel, s, T) /\ Select(s, T) = sel[Len(s)]
<1> DEFINE N == Len(s)
           Step(f, n) == IF n = 0 THEN <<>>
                         ELSE IF s[n] \in T THEN Append(f[n - 1], s[n]) ELSE f[n - 1]
           Defined == {m \in Nat : \E f : f = [n \in 0 .. m |-> Step(f, n)]}
           sel == CHOOSE f : f = [n \in 0 .. N |-> Step(f, n)]
<1>1. N \in Nat
  BY DEF IsSeq
<1>2. Select(s, T) = sel[N]
  BY DEF Select
<1>3. Nat \subseteq Defined
  <2>1. 0 \in Defined
    <3> DEFINE f == [n \in 0 .. 0 |-> <<>>]
    <3>1. f = [n \in 0 .. 0 |-> Step(f, n)]
      OBVIOUS
    <3> QED
      BY <3>1
  <2>2. ASSUME NEW m \in Nat, m \in Defined
        PROVE  m + 1 \in Defined
    <3>1. PICK f : f = [n \in 0 .. m |-> Step(f, n)]
      BY <2>2
    <3> DEFINE last == IF s[m + 1] \in T THEN Append(f[m], s[m + 1]) ELSE f[m]
               g == [n \in 0 .. m + 1 |-> IF n = m + 1 THEN last ELSE f[n]]
    <3>2. ASSUME NEW n \in 0 .. m + 1
          PROVE  g[n] = Step(g, n)
      <4>1. CASE n = m + 1
        <5>1. n # 0 /\ n - 1 \in 0 .. m + 1 /\ n - 1 = m /\ n - 1 # m + 1
          BY <4>1
        <5>2. g[n - 1] = f[m] /\ g[n] = last
          BY <4>1, <5>1
        <5> HIDE DEF g
        <5> QED
          BY <4>1, <5>1, <5>2
      <4>2. CASE n # m + 1
        <5>1. n \in 0 .. m
          BY <4>2
        <5>2. f[n] = Step(f, n) /\ g[n] = f[n]
          BY <3>1, <4>2, <5>1
        <5>3. n # 0 => n - 1 \in 0 .. m /\ n - 1 \in 0 .. m + 1 /\ n - 1 # m + 1
          BY <5>1
        <5>4. n # 0 => g[n - 1] = f[n - 1]
          BY <5>3
        <5> HIDE DEF g
        <5> QED
          BY <5>2, <5>4
      <4> QED
        BY <4>1, <4>2
    <3>3. g = [n \in 0 .. m + 1 |-> Step(g, n)]
      <4> DEFINE h == [n \in 0 .. m + 1 |-> Step(g, n)]
      <4>1. \A n \in 0 .. m + 1 : g[n] = h[n]
        BY <3>2
      <4> QED
        BY <4>1
    <3> HIDE DEF g
    <3>4. \E h : h = [n \in 0 .. m + 1 |-> Step(h, n)]
      BY <3>3, Zenon
    <3>5. m + 1 \in Nat
      OBVIOUS
    <3> QED
      BY <3>4, <3>5, Zenon
  <2> HIDE DEF Defined
  <2> QED
    BY <2>1, <2>2, NatSetInduction
<1>4. \E f : f = [n \in 0 .. N |-> Step(f, n)]
  BY <1>1, <1>3
<1>5. sel = [n \in 0 .. N |-> Step(sel, n)]
  BY <1>4, Zenon
<1> HIDE DEF sel
<1> QED
  BY <1>2, <1>5, Zenon DEF Selection

\* Two selections agree as far as their sequences do.
LEMMA SelectionUnique ==
  ASSUME NEW s, IsSeq(s), NEW t, IsSeq(t), NEW T, NEW f, Selection(f, s, T),
         NEW g, Selection(g, t, T), Len(s) <= Len(t), \A i \in 1 .. Len(s) : s[i] = t[i]
  PROVE  \A n \in 0 .. Len(s) : f[n] = g[n]
<1> DEFINE Same == {n \in Nat : n <= Len(s) => f[n] = g[n]}
<1>0. Len(s) \in Nat /\ Len(t) \in Nat
  BY DEF IsSeq
<1>1. 0 \in Same
  BY <1>0 DEF Selection
<1>2. ASSUME NEW n \in Nat, n \in Same
      PROVE  n + 1 \in Same
  <2>1. CASE n + 1 <= Len(s)
    <3>1. n + 1 \in 1 .. Len(s) /\ n + 1 \in 0 .. Len(s) /\ n + 1 \in 0 .. Len(t) /\ n + 1 # 0
          /\ (n + 1) - 1 = n
      BY <1>0, <2>1
    <3>2. /\ f[n + 1] = IF s[n + 1] \in T THEN Append(f[(n + 1) - 1], s[n + 1]) ELSE f[(n + 1) - 1]
          /\ g[n + 1] = IF t[n + 1] \in T THEN Append(g[(n + 1) - 1], t[n + 1]) ELSE g[(n + 1) - 1]
      BY <3>1 DEF Selection
    <3>3. f[n] = g[n] /\ s[n + 1] = t[n + 1]
      BY <1>0, <1>2, <2>1, <3>1
    <3>4. (n + 1) - 1 = n
      BY <3>1
    <3>5. f[(n + 1) - 1] = f[n] /\ g[(n + 1) - 1] = g[n]
      BY <3>4
    <3>6. f[n + 1] = g[n + 1]
      BY <3>2, <3>3, <3>5
    <3> QED
      BY <3>6
  <2> QED
    BY <2>1
<1> HIDE DEF Same
<1>3. Nat \subseteq Same
  BY <1>1, <1>2, NatSetInduction
<1> QED
  BY <1>0, <1>3 DEF Same

LEMMA SelectEmpty ==
  ASSUME NEW T
  PROVE  Select(<<>>, T) = <<>>
<1>1. IsSeq(<<>>) /\ Len(<<>>) = 0
  BY DEF IsSeq
<1>2. PICK sel : Selection(sel, <<>>, T) /\ Select(<<>>, T) = sel[Len(<<>>)]
  BY <1>1, SelectionExists
<1> QED
  BY <1>1, <1>2 DEF Selection

\* An element at the end is selected or not.
LEMMA SelectAppend ==
  ASSUME NEW s, IsSeq(s), NEW x, NEW T
  PROVE  Select(Append(s, x), T) = IF x \in T THEN Append(Select(s, T), x) ELSE Select(s, T)
<1> DEFINE t == Append(s, x)
<1>1. /\ IsSeq(t) /\ Len(t) = Len(s) + 1 /\ Len(s) \in Nat
      /\ \A i \in 1 .. Len(s) : t[i] = s[i]
      /\ t[Len(s) + 1] = x
  BY AppendIsSeq DEF IsSeq
<1> HIDE DEF t
<1>2. PICK f : Selection(f, s, T) /\ Select(s, T) = f[Len(s)]
  BY SelectionExists
<1>3. PICK g : Selection(g, t, T) /\ Select(t, T) = g[Len(t)]
  BY <1>1, SelectionExists
<1>4. f[Len(s)] = g[Len(s)]
  BY <1>1, <1>2, <1>3, SelectionUnique
<1>5. g[Len(t)] = IF t[Len(t)] \in T THEN Append(g[Len(t) - 1], t[Len(t)]) ELSE g[Len(t) - 1]
  <2>1. Len(t) \in 0 .. Len(t) /\ Len(t) # 0
    BY <1>1
  <2> QED
    BY <1>3, <2>1 DEF Selection
<1>6. Len(t) - 1 = Len(s) /\ t[Len(t)] = x
  BY <1>1
<1>7. Select(t, T) = IF x \in T THEN Append(Select(s, T), x) ELSE Select(s, T)
  BY <1>2, <1>3, <1>4, <1>5, <1>6, Zenon
<1> QED
  BY <1>7 DEF t

\* All elements are selected.
LEMMA SelectAll ==
  ASSUME NEW s, IsSeq(s), NEW T, \A i \in 1 .. Len(s) : s[i] \in T
  PROVE  Select(s, T) = s
<1> DEFINE part(n) == [i \in 1 .. n |-> s[i]]
           All == {n \in Nat : n <= Len(s) => Select(part(n), T) = part(n)}
<1>0. Len(s) \in Nat
  BY DEF IsSeq
<1>1. 0 \in All
  <2>1. part(0) = <<>>
    OBVIOUS
  <2> QED
    BY <2>1, SelectEmpty
<1>2. ASSUME NEW n \in Nat, n \in All
      PROVE  n + 1 \in All
  <2>1. CASE n + 1 <= Len(s)
    <3>1. IsSeq(part(n)) /\ Len(part(n)) = n
      <4> DEFINE p == part(n)
      <4>1. p = [i \in 1 .. n |-> p[i]]
        OBVIOUS
      <4> HIDE DEF p
      <4>2. IsSeq(p) /\ Len(p) = n
        BY <4>1, FunctionIsSeq
      <4> QED
        BY <4>2 DEF p
    <3>2. part(n + 1) = Append(part(n), s[n + 1])
      BY <3>1, AppendIsPart
    <3>3. n <= Len(s) /\ n + 1 \in 1 .. Len(s)
      BY <1>0, <2>1
    <3>4. Select(part(n), T) = part(n) /\ s[n + 1] \in T
      BY <1>2, <3>3
    <3> HIDE DEF part
    <3>5. Select(Append(part(n), s[n + 1]), T) = Append(part(n), s[n + 1])
      BY <3>1, <3>4, SelectAppend
    <3>6. Select(part(n + 1), T) = part(n + 1)
      BY <3>2, <3>5, Zenon
    <3> QED
      BY <3>6
  <2> QED
    BY <2>1
<1> HIDE DEF All
<1>3. Nat \subseteq All
  BY <1>1, <1>2, NatSetInduction
<1>4. Select(part(Len(s)), T) = part(Len(s))
  BY <1>0, <1>3 DEF All
<1> QED
  BY <1>4 DEF IsSeq

LEMMA EmptyList == IsSeq(<<>>) /\ DOMAIN <<>> = {} /\ (NullIsNone => <<>> # Null)
<1>1. IsSeq(<<>>) /\ DOMAIN <<>> = {}
  BY DEF IsSeq
<1>2. <<>> = [i \in DOMAIN <<>> |-> <<>>[i]]
  OBVIOUS
<1> QED
  BY <1>1, <1>2 DEF NullIsNone

\* What is selected.
LEMMA SelectIsSeq ==
  ASSUME NEW s, IsSeq(s), NEW T
  PROVE  /\ IsSeq(Select(s, T)) /\ Range(Select(s, T)) = Range(s) \cap T
         /\ IsInjective(s) => IsInjective(Select(s, T))
<1> DEFINE E == Range(s)
           Good(p) == /\ IsSeq(Select(p, T)) /\ Range(Select(p, T)) = Range(p) \cap T
                      /\ IsInjective(p) => IsInjective(Select(p, T))
           I == {p \in Seq(E) : Good(p)}
<1>1. s \in Seq(E)
  BY ElementsAreRange
<1> HIDE DEF E
<1>2. <<>> \in I
  <2>1. Select(<<>>, T) = <<>> /\ IsSeq(<<>>) /\ Range(<<>>) = {}
    BY SelectEmpty, EmptyList DEF Range
  <2> QED
    BY <2>1
<1>3. ASSUME NEW p \in Seq(E), NEW x \in E, p \in I
      PROVE  Append(p, x) \in I
  <2> DEFINE q == Select(p, T)
             r == Append(p, x)
  <2>1. IsSeq(p) /\ r \in Seq(E)
    BY SeqIsSeq
  <2>2. IsSeq(q) /\ Range(q) = Range(p) \cap T /\ (IsInjective(p) => IsInjective(q))
    BY <1>3
  <2>3. Select(r, T) = IF x \in T THEN Append(q, x) ELSE q
    BY <2>1, SelectAppend
  <2>4. Range(r) = Range(p) \cup {x} /\ (IsInjective(r) <=> IsInjective(p) /\ x \notin Range(p))
    BY <2>1, RangeAppend
  <2> HIDE DEF q, r
  <2>5. /\ IsSeq(Append(q, x)) /\ Range(Append(q, x)) = Range(q) \cup {x}
        /\ IsInjective(Append(q, x)) <=> IsInjective(q) /\ x \notin Range(q)
    BY <2>2, RangeAppend, AppendIsSeq
  <2>6. Good(r)
    <3>1. CASE x \in T
      BY <2>2, <2>3, <2>4, <2>5, <3>1
    <3>2. CASE x \notin T
      BY <2>2, <2>3, <2>4, <3>2
    <3> QED
      BY <3>1, <3>2
  <2> QED
    BY <2>1, <2>6 DEF r
<1> HIDE DEF I
<1>4. Seq(E) \subseteq I
  BY <1>2, <1>3, SeqInduction
<1> QED
  BY <1>1, <1>4 DEF I

\* Only the elements of the sequence matter.
LEMMA SelectSame ==
  ASSUME NEW s, IsSeq(s), NEW A, NEW B, Range(s) \cap A = Range(s) \cap B
  PROVE  Select(s, A) = Select(s, B)
<1> DEFINE E == Range(s)
           I == {p \in Seq(E) : Select(p, A) = Select(p, B)}
<1>1. s \in Seq(E) /\ \A x \in E : x \in A <=> x \in B
  BY ElementsAreRange
<1> HIDE DEF E
<1>2. <<>> \in I
  BY SelectEmpty
<1>3. ASSUME NEW p \in Seq(E), NEW x \in E, p \in I
      PROVE  Append(p, x) \in I
  <2>1. IsSeq(p) /\ Append(p, x) \in Seq(E)
    BY SeqIsSeq
  <2>2. /\ Select(Append(p, x), A) = IF x \in A THEN Append(Select(p, A), x) ELSE Select(p, A)
        /\ Select(Append(p, x), B) = IF x \in B THEN Append(Select(p, B), x) ELSE Select(p, B)
    BY <2>1, SelectAppend
  <2> QED
    BY <1>1, <1>3, <2>1, <2>2
<1> HIDE DEF I
<1>4. Seq(E) \subseteq I
  BY <1>2, <1>3, SeqInduction
<1> QED
  BY <1>1, <1>4 DEF I

\* What is selected from a selection.
LEMMA SelectTwice ==
  ASSUME NEW s, IsSeq(s), NEW A, NEW B
  PROVE  Select(Select(s, A), B) = Select(s, A \cap B)
<1> DEFINE E == Range(s)
           I == {p \in Seq(E) : Select(Select(p, A), B) = Select(p, A \cap B)}
<1>1. s \in Seq(E)
  BY ElementsAreRange
<1> HIDE DEF E
<1>2. <<>> \in I
  BY SelectEmpty
<1>3. ASSUME NEW p \in Seq(E), NEW x \in E, p \in I
      PROVE  Append(p, x) \in I
  <2> DEFINE q == Select(p, A)
  <2>1. IsSeq(p) /\ Append(p, x) \in Seq(E) /\ IsSeq(q)
    BY SeqIsSeq, SelectIsSeq
  <2>2. /\ Select(Append(p, x), A) = IF x \in A THEN Append(q, x) ELSE q
        /\ Select(Append(p, x), A \cap B) =
             IF x \in A \cap B THEN Append(Select(p, A \cap B), x) ELSE Select(p, A \cap B)
        /\ Select(Append(q, x), B) = IF x \in B THEN Append(Select(q, B), x) ELSE Select(q, B)
    BY <2>1, SelectAppend
  <2>3. Select(q, B) = Select(p, A \cap B)
    BY <1>3
  <2> HIDE DEF q
  <2>4. Select(Select(Append(p, x), A), B) = Select(Append(p, x), A \cap B)
    <3>1. CASE x \in A /\ x \in B
      BY <2>2, <2>3, <3>1, Zenon
    <3>3. CASE x \in A /\ x \notin B
      BY <2>2, <2>3, <3>3
    <3>2. CASE x \notin A
      BY <2>2, <2>3, <3>2
    <3> QED
      BY <3>1, <3>2, <3>3
  <2> QED
    BY <2>1, <2>4
<1> HIDE DEF I
<1>4. Seq(E) \subseteq I
  BY <1>2, <1>3, SeqInduction
<1> QED
  BY <1>1, <1>4 DEF I

\* Where the elements that are selected come from.
LEMMA SelectPlaces ==
  ASSUME NEW s, IsSeq(s), NEW T
  PROVE  \A m, n \in DOMAIN s : m # n /\ s[m] \in T /\ s[n] \in T =>
           \E i, j \in DOMAIN Select(s, T) :
             i # j /\ Select(s, T)[i] = s[m] /\ Select(s, T)[j] = s[n]
<1> DEFINE E == Range(s)
           Both(p, m, n) ==
             \E i, j \in DOMAIN Select(p, T) :
               i # j /\ Select(p, T)[i] = p[m] /\ Select(p, T)[j] = p[n]
           Good(p) == \A m, n \in DOMAIN p : m # n /\ p[m] \in T /\ p[n] \in T => Both(p, m, n)
           I == {p \in Seq(E) : Good(p)}
<1>1. s \in Seq(E)
  BY ElementsAreRange
<1> HIDE DEF E
<1>2. <<>> \in I
  <2>1. DOMAIN <<>> = {} /\ <<>> \in Seq(E)
    BY EmptyList
  <2> QED
    BY <2>1
<1>3. ASSUME NEW p \in Seq(E), NEW x \in E, p \in I
      PROVE  Append(p, x) \in I
  <2> DEFINE q == Append(p, x)
             N == Len(p)
             sp == Select(p, T)
             sq == Select(q, T)
             K == Len(sp)
  <2>1. IsSeq(p) /\ DOMAIN p = 1 .. N /\ N \in Nat /\ q \in Seq(E)
    BY SeqIsSeq, LenProperties
  <2>2. /\ IsSeq(q) /\ DOMAIN q = 1 .. N + 1 /\ q[N + 1] = x
        /\ \A i \in 1 .. N : q[i] = p[i]
    BY <2>1, AppendIsSeq, IsSeqOfElements
  <2>3. sq = IF x \in T THEN Append(sp, x) ELSE sp
    BY <2>1, SelectAppend
  <2>4. IsSeq(sp) /\ Range(sp) = Range(p) \cap T /\ DOMAIN sp = 1 .. K /\ K \in Nat
    BY <2>1, SelectIsSeq, ElementsAreRange
  <2>5. x \in T => /\ IsSeq(sq) /\ DOMAIN sq = 1 .. K + 1 /\ sq[K + 1] = x
                   /\ \A i \in 1 .. K : sq[i] = sp[i]
    BY <2>3, <2>4, AppendIsSeq, IsSeqOfElements
  <2>6. Good(p)
    BY <1>3
  <2>7. \A m \in 1 .. N : p[m] \in T => \E i \in 1 .. K : sp[i] = p[m]
    BY <2>1, <2>4 DEF Range
  <2> HIDE DEF q, N, sp, sq, K
  <2>8. ASSUME NEW m \in 1 .. N, NEW n \in 1 .. N, m # n, q[m] \in T, q[n] \in T
        PROVE  \E i, j \in DOMAIN sq : i # j /\ sq[i] = q[m] /\ sq[j] = q[n]
    <3>1. PICK i, j \in DOMAIN sp : i # j /\ sp[i] = p[m] /\ sp[j] = p[n]
      BY <2>1, <2>2, <2>6, <2>8 DEF sp
    <3>2. i \in DOMAIN sq /\ j \in DOMAIN sq /\ sq[i] = sp[i] /\ sq[j] = sp[j]
      <4>1. CASE x \in T
        BY <2>4, <2>5, <4>1
      <4>2. CASE x \notin T
        BY <2>3, <4>2
      <4> QED
        BY <4>1, <4>2
    <3> QED
      BY <2>2, <3>1, <3>2
  <2>9. ASSUME NEW m \in 1 .. N, q[m] \in T, q[N + 1] \in T
        PROVE  \E i, j \in DOMAIN sq : i # j /\ sq[i] = q[m] /\ sq[j] = q[N + 1]
    <3>1. PICK i \in 1 .. K : sp[i] = p[m]
      BY <2>2, <2>7, <2>9
    <3>2. x \in T
      BY <2>2, <2>9
    <3>3. i \in 1 .. K + 1 /\ K + 1 \in 1 .. K + 1 /\ i # K + 1
      BY <2>4
    <3>4. i \in DOMAIN sq /\ K + 1 \in DOMAIN sq /\ sq[i] = q[m] /\ sq[K + 1] = q[N + 1]
      BY <2>2, <2>5, <3>1, <3>2, <3>3
    <3> QED
      BY <3>3, <3>4
  <2>10. \A m \in 1 .. N + 1 : m \in 1 .. N \/ m = N + 1
    BY <2>1
  <2>11. ASSUME NEW m \in 1 .. N + 1, NEW n \in 1 .. N + 1, m # n, q[m] \in T, q[n] \in T
         PROVE  \E i, j \in DOMAIN sq : i # j /\ sq[i] = q[m] /\ sq[j] = q[n]
    <3>1. CASE m \in 1 .. N /\ n \in 1 .. N
      BY <2>8, <2>11, <3>1
    <3>2. CASE m \in 1 .. N /\ n = N + 1
      BY <2>9, <2>11, <3>2
    <3>3. CASE m = N + 1 /\ n \in 1 .. N
      BY <2>9, <2>11, <3>3
    <3> QED
      BY <2>10, <2>11, <3>1, <3>2, <3>3
  <2>12. Good(q)
    BY <2>2, <2>11 DEF sq
  <2> QED
    BY <2>1, <2>12 DEF q
<1>4. Seq(E) \subseteq I
  <2> HIDE DEF I
  <2> QED
    BY <1>2, <1>3, SeqInduction
<1> QED
  BY <1>1, <1>4

-----------------------------------------------------------------------------
(* Members.                                                                *)

\* A member that was written is read back.
LEMMA GetMember ==
  ASSUME NEW f, NEW g, NEW k \in DOMAIN f, NEW default
  PROVE  Get(Object(With(f, g)), k, default) = IF f[k] = Null THEN default ELSE f[k]
BY DEF Get, Object, With

\* The integer members of a descriptor are read back.
LEMMA LoadSavedDesc ==
  ASSUME NullIsNone, NEW members, \A m \in DOMAIN members : members[m] \in Nat \ {0},
         NEW desc \in Desc(members), NEW f, \A m \in DOMAIN members : m \notin DOMAIN f
  PROVE  LoadDesc(Object(With(f, SaveDesc(desc))), members) = desc
<1> DEFINE json == Object(With(f, SaveDesc(desc)))
<1>1. /\ DOMAIN desc = DOMAIN members /\ desc = [m \in DOMAIN members |-> desc[m]]
      /\ \A m \in DOMAIN members : desc[m] \in Nat /\ desc[m] < members[m] /\ desc[m] # Null
  <2>1. /\ desc \in [DOMAIN members -> 0 .. Word - 1]
        /\ \A m \in DOMAIN members : desc[m] < members[m]
    BY DEF Desc
  <2>2. ASSUME NEW m \in DOMAIN members
        PROVE  desc[m] \in Nat
    <3>1. desc[m] \in 0 .. Word - 1
      BY <2>1
    <3>2. Word - 1 \in Int
      BY DEF Word
    <3> QED
      BY <3>1, <3>2
  <2>3. \A n \in Nat : n # Null
    BY DEF NullIsNone
  <2> QED
    BY <2>1, <2>2, <2>3
<1>2. ASSUME NEW m \in DOMAIN members
      PROVE  Get(json, m, 0) = desc[m]
  <2> DEFINE w == With(f, SaveDesc(desc))
  <2>1. m \in DOMAIN w /\ w[m] = NonZero(desc[m])
    BY <1>1 DEF With, SaveDesc
  <2> HIDE DEF w
  <2>2. Get(Object(w), m, 0) = IF w[m] = Null THEN 0 ELSE w[m]
    BY <2>1 DEF Get, Object
  <2>3. Get(Object(w), m, 0) = desc[m]
    BY <1>1, <2>1, <2>2 DEF NonZero
  <2> QED
    BY <2>3 DEF w
<1> HIDE DEF json
<1>3. ASSUME NEW m \in DOMAIN members
      PROVE  Get(json, m, 0) % members[m] = desc[m]
  BY <1>1, <1>2
<1> QED
  BY <1>1, <1>3 DEF LoadDesc, json

\* No bytes are read back as none, others as they are.
LEMMA SaveLoadedExtra ==
  ASSUME NullIsNone, NEW extra, NEW f, NEW g, "ExtraData" \in DOMAIN f,
         f["ExtraData"] = SaveExtra(extra)
  PROVE  SaveExtra(LoadExtra(Object(With(f, g)))) = SaveExtra(extra)
<1>1. Get(Object(With(f, g)), "ExtraData", Null) = SaveExtra(extra)
  BY GetMember
<1>2. LoadExtra(Object(With(f, g))) = Decode(SaveExtra(extra))
  BY <1>1 DEF LoadExtra
<1>3. CASE extra = Null \/ extra = <<>>
  BY <1>2, <1>3 DEF SaveExtra, Encode, Decode
<1>4. CASE extra # Null /\ extra # <<>>
  <2>1. SaveExtra(extra) = [base64 |-> extra] /\ [base64 |-> extra] # Null
    BY <1>4 DEF SaveExtra, Encode, NullIsNone
  <2>2. Decode(SaveExtra(extra)) = extra
    BY <2>1 DEF Decode
  <2> QED
    BY <1>2, <2>2
<1> QED
  BY <1>3, <1>4

-----------------------------------------------------------------------------
(* The objects.                                                            *)

IsEndpoint(e) == e.desc \in Desc(EndpointMembers)
IsBos(b) == b.desc \in Desc(BosMembers)
IsEndpoints(s) == s = Null \/ (IsSeq(s) /\ \A i \in DOMAIN s : IsEndpoint(s[i]))
IsInterface(f) == f.desc \in Desc(InterfaceMembers) /\ IsEndpoints(f.endpoints)
IsEvent(e) ==
  /\ e = [id |-> e.id, status |-> e.status, rc |-> e.rc, bytes |-> e.bytes]
  /\ e.id # Null /\ e.status # Null /\ e.rc # Null

\* A list that could not be queried is Null.
IsBosList(s) == s = Null \/ (IsSeq(s) /\ \A i \in DOMAIN s : IsBos(s[i]))
IsInterfaceList(s) == s = Null \/ (IsSeq(s) /\ \A i \in DOMAIN s : IsInterface(s[i]))
IsReportList(s) == s = Null \/ (IsSeq(s) /\ \A i \in DOMAIN s : s[i] # Null)
IsEventList(s) == IsSeq(s) /\ \A i \in DOMAIN s : IsEvent(s[i])

LEMMA LoadSavedEndpoint ==
  ASSUME NullIsNone, NEW e, IsEndpoint(e)
  PROVE  IsEndpoint(LoadEndpoint(SaveEndpoint(e)))
         /\ SaveEndpoint(LoadEndpoint(SaveEndpoint(e))) = SaveEndpoint(e)
<1> DEFINE f == [ExtraData |-> SaveExtra(e.extra)]
           l == LoadEndpoint(SaveEndpoint(e))
<1>1. LoadDesc(SaveEndpoint(e), EndpointMembers) = e.desc
  BY LoadSavedDesc DEF IsEndpoint, SaveEndpoint, EndpointMembers, Byte, Word
<1>2. SaveExtra(LoadExtra(SaveEndpoint(e))) = SaveExtra(e.extra)
  BY SaveLoadedExtra DEF SaveEndpoint
<1>3. l.desc = e.desc /\ SaveExtra(l.extra) = SaveExtra(e.extra)
  BY <1>1, <1>2 DEF LoadEndpoint
<1> HIDE DEF l
<1>4. IsEndpoint(l) /\ SaveEndpoint(l) = SaveEndpoint(e)
  BY <1>3 DEF IsEndpoint, SaveEndpoint
<1> QED
  BY <1>4 DEF l

LEMMA LoadSavedBos ==
  ASSUME NullIsNone, NEW b, IsBos(b)
  PROVE  IsBos(LoadBos(SaveBos(b))) /\ SaveBos(LoadBos(SaveBos(b))) = SaveBos(b)
<1> DEFINE l == LoadBos(SaveBos(b))
<1>1. LoadDesc(SaveBos(b), BosMembers) = b.desc
  BY LoadSavedDesc DEF IsBos, SaveBos, BosMembers, Byte
<1>2. SaveExtra(LoadExtra(SaveBos(b))) = SaveExtra(b.extra)
  BY SaveLoadedExtra DEF SaveBos
<1>3. l.desc = b.desc /\ SaveExtra(l.extra) = SaveExtra(b.extra)
  BY <1>1, <1>2 DEF LoadBos
<1> HIDE DEF l
<1>4. IsBos(l) /\ SaveBos(l) = SaveBos(b)
  BY <1>3 DEF IsBos, SaveBos
<1> QED
  BY <1>4 DEF l

LEMMA LoadSavedEvent ==
  ASSUME NullIsNone, NEW e, IsEvent(e)
  PROVE  LoadEvent(SaveEvent(e)) = e
<1> DEFINE m == [Id |-> e.id,
                 Status |-> IF e.status = "COMPLETED" THEN Null ELSE e.status,
                 Error |-> IF e.rc = "SUCCESS" THEN Null ELSE e.rc,
                 Data |-> Encode(e.bytes)]
           json == Object(m)
<1>1. /\ Get(json, "Id", Null) = e.id
      /\ Get(json, "Status", "COMPLETED") = e.status
      /\ Get(json, "Error", "SUCCESS") = e.rc
      /\ Get(json, "Data", Null) = Encode(e.bytes)
  BY DEF Get, Object, IsEvent
<1>2. Decode(Encode(e.bytes)) = e.bytes
  <2>1. [base64 |-> e.bytes] # Null
    BY DEF NullIsNone
  <2> QED
    BY <2>1 DEF Encode, Decode
<1>3. SaveEvent(e) = json
  BY DEF SaveEvent
<1> HIDE DEF json
<1> QED
  BY <1>1, <1>2, <1>3 DEF LoadEvent, IsEvent
\* The endpoints of an interface, which need not have any.
LEMMA LoadSavedEndpoints ==
  ASSUME NullIsNone, NEW s, IsEndpoints(s)
  PROVE  LET a == Array(SaveEndpoint, s)
             l == IF a = Null THEN Null ELSE Elements(LoadEndpoint, a)
         IN IsEndpoints(l) /\ Array(SaveEndpoint, l) = a
<1> DEFINE a == Array(SaveEndpoint, s)
           l == IF a = Null THEN Null ELSE Elements(LoadEndpoint, a)
<1>1. CASE a = Null
  BY <1>1 DEF IsEndpoints, Array
<1>2. CASE a # Null
  <2> DEFINE g == [i \in DOMAIN s |-> SaveEndpoint(s[i])]
  <2>1. s # Null /\ IsSeq(s) /\ \A i \in DOMAIN s : IsEndpoint(s[i])
    BY <1>2 DEF Array, IsEndpoints
  <2>2. a = g /\ g # <<>>
    BY <1>2, <2>1 DEF Array, NonEmpty
  <2>3. l = [i \in DOMAIN s |-> LoadEndpoint(SaveEndpoint(s[i]))]
    BY <1>2, <2>2 DEF Elements
  <2>4. l # Null /\ DOMAIN l = DOMAIN s
    BY <2>3 DEF NullIsNone
  <2>5. \A i \in DOMAIN s : IsEndpoint(l[i]) /\ SaveEndpoint(l[i]) = g[i]
    BY <2>1, <2>3, LoadSavedEndpoint
  <2>6. IsSeq(l)
    <3>1. Len(s) \in Nat /\ DOMAIN s = 1 .. Len(s)
      BY <2>1, IsSeqOfElements DEF IsSeq
    <3> HIDE DEF l
    <3>2. l = [i \in 1 .. Len(s) |-> l[i]]
      BY <2>3, <3>1
    <3> QED
      BY <3>1, <3>2, FunctionIsSeq
  <2> HIDE DEF l
  <2>7. [i \in DOMAIN l |-> SaveEndpoint(l[i])] = g
    BY <2>4, <2>5
  <2>8. Array(SaveEndpoint, l) = a
    BY <2>2, <2>4, <2>7 DEF Array, NonEmpty
  <2>9. IsEndpoints(l)
    BY <2>4, <2>5, <2>6 DEF IsEndpoints
  <2> QED
    BY <2>8, <2>9 DEF l
<1> QED
  BY <1>1, <1>2

LEMMA LoadSavedInterface ==
  ASSUME NullIsNone, NEW f, IsInterface(f)
  PROVE  IsInterface(LoadInterface(SaveInterface(f)))
         /\ SaveInterface(LoadInterface(SaveInterface(f))) = SaveInterface(f)
<1> DEFINE a == Array(SaveEndpoint, f.endpoints)
           m == [UsbEndpoints |-> a, ExtraData |-> SaveExtra(f.extra)]
           json == SaveInterface(f)
           l == LoadInterface(json)
           eps == IF a = Null THEN Null ELSE Elements(LoadEndpoint, a)
<1>1. json = Object(With(m, SaveDesc(f.desc)))
  BY DEF SaveInterface
<1>2. LoadDesc(json, InterfaceMembers) = f.desc
  BY <1>1, LoadSavedDesc DEF IsInterface, InterfaceMembers, Byte
<1>3. SaveExtra(LoadExtra(json)) = SaveExtra(f.extra)
  BY <1>1, SaveLoadedExtra
<1>4. IsEndpoints(eps) /\ Array(SaveEndpoint, eps) = a
  BY LoadSavedEndpoints DEF IsInterface
<1>5. l.endpoints = eps
  <2>1. "UsbEndpoints" \in DOMAIN json <=> a # Null
    BY <1>1 DEF Object, With
  <2>2. a # Null => json["UsbEndpoints"] = a
    BY <1>1 DEF Object, With
  <2> QED
    BY <2>1, <2>2 DEF LoadInterface
<1>6. l.desc = f.desc /\ SaveExtra(l.extra) = SaveExtra(f.extra)
  BY <1>2, <1>3 DEF LoadInterface
<1> HIDE DEF l, json, a, eps
<1>7. IsInterface(l)
  BY <1>4, <1>5, <1>6 DEF IsInterface
<1>8. SaveInterface(l) = SaveInterface(f)
  BY <1>4, <1>5, <1>6 DEF SaveInterface, a
<1> QED
  BY <1>7, <1>8 DEF l, json

-----------------------------------------------------------------------------
(* The lists.                                                              *)

\* Element by element, a list is made into another list.
LEMMA ListIsSeq ==
  ASSUME NullIsNone, NEW s, IsSeq(s), NEW l, l = [i \in DOMAIN s |-> l[i]]
  PROVE  IsSeq(l) /\ DOMAIN l = DOMAIN s /\ Len(l) = Len(s) /\ l # Null
<1>1. Len(s) \in Nat /\ DOMAIN s = 1 .. Len(s)
  BY IsSeqOfElements DEF IsSeq
<1>2. l = [i \in 1 .. Len(s) |-> l[i]]
  BY <1>1
<1>3. IsSeq(l) /\ DOMAIN l = 1 .. Len(s) /\ Len(l) = Len(s)
  BY <1>1, <1>2, FunctionIsSeq
<1> QED
  BY <1>1, <1>2, <1>3 DEF NullIsNone

LEMMA SeqIsNotNull ==
  ASSUME NullIsNone, NEW s, IsSeq(s)
  PROVE  s # Null
<1>1. s = [i \in DOMAIN s |-> s[i]]
  BY IsSeqOfElements DEF IsSeq
<1> QED
  BY <1>1 DEF NullIsNone

LEMMA LoadSavedBosList ==
  ASSUME NullIsNone, NEW s, IsBosList(s), NEW l, l = Elements(LoadBos, Array(SaveBos, s))
  PROVE  l # Null /\ IsBosList(l) /\ Array(SaveBos, l) = Array(SaveBos, s)
<1> DEFINE a == Array(SaveBos, s)
<1>1. CASE a = Null
  <2>1. l = <<>>
    BY <1>1 DEF Elements
  <2>2. Array(SaveBos, <<>>) = Null
    BY EmptyList DEF Array, NonEmpty
  <2> QED
    BY <1>1, <2>1, <2>2, EmptyList DEF IsBosList
<1>2. CASE a # Null
  <2> DEFINE g == [i \in DOMAIN s |-> SaveBos(s[i])]
  <2>1. s # Null /\ IsSeq(s) /\ \A i \in DOMAIN s : IsBos(s[i])
    BY <1>2 DEF Array, IsBosList
  <2>2. a = g /\ g # <<>>
    BY <1>2, <2>1 DEF Array, NonEmpty
  <2>3. l = [i \in DOMAIN s |-> LoadBos(SaveBos(s[i]))]
    BY <1>2, <2>2 DEF Elements
  <2>4. l = [i \in DOMAIN s |-> l[i]]
    BY <2>3
  <2>5. l # Null /\ DOMAIN l = DOMAIN s /\ IsSeq(l)
    BY <2>1, <2>4, ListIsSeq
  <2>6. \A i \in DOMAIN s : IsBos(l[i]) /\ SaveBos(l[i]) = g[i]
    BY <2>1, <2>3, LoadSavedBos
  <2>7. [i \in DOMAIN l |-> SaveBos(l[i])] = g
    BY <2>5, <2>6
  <2>8. Array(SaveBos, l) = a
    BY <2>2, <2>5, <2>7 DEF Array, NonEmpty
  <2> QED
    BY <2>5, <2>6, <2>8 DEF IsBosList
<1> QED
  BY <1>1, <1>2

LEMMA LoadSavedInterfaceList ==
  ASSUME NullIsNone, NEW s, IsInterfaceList(s),
         NEW l, l = Elements(LoadInterface, Array(SaveInterface, s))
  PROVE  l # Null /\ IsInterfaceList(l) /\ Array(SaveInterface, l) = Array(SaveInterface, s)
<1> DEFINE a == Array(SaveInterface, s)
<1>1. CASE a = Null
  <2>1. l = <<>>
    BY <1>1 DEF Elements
  <2>2. Array(SaveInterface, <<>>) = Null
    BY EmptyList DEF Array, NonEmpty
  <2> QED
    BY <1>1, <2>1, <2>2, EmptyList DEF IsInterfaceList
<1>2. CASE a # Null
  <2> DEFINE g == [i \in DOMAIN s |-> SaveInterface(s[i])]
  <2>1. s # Null /\ IsSeq(s) /\ \A i \in DOMAIN s : IsInterface(s[i])
    BY <1>2 DEF Array, IsInterfaceList
  <2>2. a = g /\ g # <<>>
    BY <1>2, <2>1 DEF Array, NonEmpty
  <2>3. l = [i \in DOMAIN s |-> LoadInterface(SaveInterface(s[i]))]
    BY <1>2, <2>2 DEF Elements
  <2>4. l = [i \in DOMAIN s |-> l[i]]
    BY <2>3
  <2>5. l # Null /\ DOMAIN l = DOMAIN s /\ IsSeq(l)
    BY <2>1, <2>4, ListIsSeq
  <2>6. \A i \in DOMAIN s : IsInterface(l[i]) /\ SaveInterface(l[i]) = g[i]
    BY <2>1, <2>3, LoadSavedInterface
  <2>7. [i \in DOMAIN l |-> SaveInterface(l[i])] = g
    BY <2>5, <2>6
  <2>8. Array(SaveInterface, l) = a
    BY <2>2, <2>5, <2>7 DEF Array, NonEmpty
  <2> QED
    BY <2>5, <2>6, <2>8 DEF IsInterfaceList
<1> QED
  BY <1>1, <1>2

\* The events are read back as they were.
LEMMA LoadSavedEventList ==
  ASSUME NullIsNone, NEW s, IsEventList(s)
  PROVE  Elements(LoadEvent, Array(SaveEvent, s)) = s
<1> DEFINE a == Array(SaveEvent, s)
           g == [i \in DOMAIN s |-> SaveEvent(s[i])]
<1>1. IsSeq(s) /\ s # Null /\ s = [i \in DOMAIN s |-> s[i]]
  <2>1. IsSeq(s) /\ DOMAIN s = 1 .. Len(s)
    BY IsSeqOfElements DEF IsEventList
  <2>2. s = [i \in DOMAIN s |-> s[i]]
    BY <2>1 DEF IsSeq
  <2> QED
    BY <2>1, <2>2 DEF NullIsNone
<1>2. a = NonEmpty(g)
  BY <1>1 DEF Array
<1>3. CASE g = <<>>
  <2>1. DOMAIN s = {}
    BY <1>3, EmptyList
  <2>2. s = <<>>
    BY <1>1, <2>1
  <2> QED
    BY <1>2, <1>3, <2>2 DEF NonEmpty, Elements
<1>4. CASE g # <<>>
  <2>1. g # Null
    BY DEF NullIsNone
  <2>2. \A i \in DOMAIN s : LoadEvent(SaveEvent(s[i])) = s[i]
    BY LoadSavedEvent DEF IsEventList
  <2>3. Elements(LoadEvent, g) = [i \in DOMAIN s |-> LoadEvent(SaveEvent(s[i]))]
    BY <2>1 DEF Elements
  <2> QED
    BY <1>1, <1>2, <1>4, <2>2, <2>3 DEF NonEmpty
<1> QED
  BY <1>3, <1>4

\* So are the HID descriptors.
LEMMA LoadSavedReportList ==
  ASSUME NullIsNone, NEW s, IsReportList(s), NEW f, NEW g, "UsbHidDescriptors" \in DOMAIN f,
         f["UsbHidDescriptors"] = Array(Encode, s)
  PROVE  LET strs == Get(Object(With(f, g)), "UsbHidDescriptors", <<>>)
             l == Elements(Decode, Select(strs, Range(strs) \ {Null}))
         IN l = IF s = Null THEN <<>> ELSE s
<1> DEFINE a == Array(Encode, s)
           strs == Get(Object(With(f, g)), "UsbHidDescriptors", <<>>)
           kept == Select(strs, Range(strs) \ {Null})
           codes == [i \in DOMAIN s |-> Encode(s[i])]
<1>1. strs = IF a = Null THEN <<>> ELSE a
  BY GetMember
<1> HIDE DEF strs
<1>2. CASE s = Null \/ (s # Null /\ codes = <<>>)
  <2>1. a = Null
    BY <1>2 DEF Array, NonEmpty
  <2>2. kept = <<>>
    BY <1>1, <2>1, SelectEmpty
  <2>3. Elements(Decode, <<>>) = <<>>
    <3>1. [i \in DOMAIN <<>> |-> Decode(<<>>[i])] = <<>>
      BY EmptyList
    <3> QED
      BY <3>1, Zenon DEF Elements
  <2>4. s # Null => s = <<>>
    <3>1. ASSUME s # Null
          PROVE  IsSeq(s) /\ DOMAIN s = {}
      BY <1>2, <3>1, EmptyList DEF IsReportList
    <3>2. ASSUME s # Null
          PROVE  Len(s) = 0
      BY <3>1, <3>2, IsSeqOfElements DEF IsSeq
    <3> QED
      BY <3>1, <3>2 DEF IsSeq
  <2>5. (IF s = Null THEN <<>> ELSE s) = <<>>
    BY <2>4
  <2> QED
    BY <2>2, <2>3, <2>5, Zenon DEF strs
<1>3. CASE s # Null /\ codes # <<>>
  <2>1. IsSeq(s) /\ (\A i \in DOMAIN s : s[i] # Null) /\ DOMAIN s = 1 .. Len(s)
    BY <1>3, IsSeqOfElements DEF IsReportList
  <2>2. \A i \in DOMAIN s : codes[i] # Null /\ Decode(codes[i]) = s[i]
    BY <2>1 DEF Encode, Decode, NullIsNone
  <2>3. codes = [i \in DOMAIN s |-> codes[i]]
    OBVIOUS
  <2>4. a = codes
    BY <1>3 DEF Array, NonEmpty
  <2> HIDE DEF codes
  <2>5. IsSeq(codes) /\ DOMAIN codes = DOMAIN s /\ Len(codes) = Len(s) /\ codes # Null
    BY <2>1, <2>3, ListIsSeq
  <2>6. strs = codes
    BY <1>1, <2>4, <2>5
  <2>7. \A i \in 1 .. Len(codes) : codes[i] \in Range(codes) \ {Null}
    BY <2>1, <2>2, <2>5 DEF Range
  <2>8. kept = codes
    BY <2>5, <2>6, <2>7, SelectAll
  <2>9. Elements(Decode, codes) = s
    BY <2>1, <2>2, <2>5 DEF Elements, IsSeq
  <2> QED
    BY <1>3, <2>8, <2>9 DEF strs
<1> QED
  BY <1>2, <1>3

-----------------------------------------------------------------------------
(* The device.                                                             *)

IsDevice(d) ==
  /\ d.desc \in Desc(DeviceMembers)
  /\ IsSeq(d.tags) /\ \A i \in DOMAIN d.tags : d.tags[i] # ""
  /\ IsEventList(d.events)

\* The members of a device that are no integers.
Members(d, b, h, l) ==
  [PlatformId |-> d.platform_id,
   Created |-> [iso8601 |-> d.created],
   Tags |-> NonEmpty(d.tags),
   UsbBosDescriptors |-> Array(SaveBos, b),
   UsbHidDescriptors |-> Array(Encode, h),
   UsbInterfaces |-> Array(SaveInterface, l),
   UsbEvents |-> Array(SaveEvent, d.events)]

\* What is loaded from a device that was saved.
LEMMA LoadSavedDevice ==
  ASSUME NullIsNone, NEW d, IsDevice(d), NEW b, IsBosList(b), NEW h, IsReportList(h),
         NEW l, IsInterfaceList(l), NEW json, json = SaveDevice(d, b, h, l), NEW now,
         NEW e, e = LoadDevice(json, now)
  PROVE  /\ Loadable(json)
         /\ e.platform_id = d.platform_id /\ e.created = d.created /\ e.tags = d.tags
         /\ e.desc = d.desc /\ e.events = d.events
         /\ IsDevice(e)
         /\ e.bos # Null /\ IsBosList(e.bos) /\ Array(SaveBos, e.bos) = Array(SaveBos, b)
         /\ e.hid = IF h = Null THEN <<>> ELSE h
         /\ e.interfaces # Null /\ IsInterfaceList(e.interfaces)
         /\ Array(SaveInterface, e.interfaces) = Array(SaveInterface, l)
<1> DEFINE m == Members(d, b, h, l)
<1>1. json = Object(With(m, SaveDesc(d.desc)))
  BY DEF SaveDevice, Members
<1>2. DOMAIN m = {"PlatformId", "Created", "Tags", "UsbBosDescriptors", "UsbHidDescriptors",
                  "UsbInterfaces", "UsbEvents"}
  BY DEF Members
<1>3. /\ m["PlatformId"] = d.platform_id
      /\ m["Created"] = [iso8601 |-> d.created]
      /\ m["Tags"] = NonEmpty(d.tags)
      /\ m["UsbBosDescriptors"] = Array(SaveBos, b)
      /\ m["UsbHidDescriptors"] = Array(Encode, h)
      /\ m["UsbInterfaces"] = Array(SaveInterface, l)
      /\ m["UsbEvents"] = Array(SaveEvent, d.events)
  BY DEF Members
<1> HIDE DEF m
<1>4. \A k \in DOMAIN m : \A x : Get(json, k, x) = IF m[k] = Null THEN x ELSE m[k]
  BY <1>1, GetMember
<1>5. "Created" \in DOMAIN json /\ json["Created"] = [iso8601 |-> d.created]
  <2>1. m["Created"] # Null
    BY <1>3 DEF NullIsNone
  <2> QED
    BY <1>1, <1>2, <1>3, <2>1 DEF Object, With
<1>6. Loadable(json) /\ e.created = d.created
  <2>1. e.created = json["Created"].iso8601
    BY <1>5 DEF LoadDevice
  <2> QED
    BY <1>5, <2>1 DEF Loadable
<1>7. e.platform_id = d.platform_id
  BY <1>2, <1>3, <1>4 DEF LoadDevice
<1>8. e.tags = d.tags
  <2> DEFINE tags == Get(json, "Tags", <<>>)
  <2>1. tags = IF NonEmpty(d.tags) = Null THEN <<>> ELSE NonEmpty(d.tags)
    BY <1>2, <1>3, <1>4
  <2>2. tags = d.tags
    <3>1. d.tags # Null
      BY SeqIsNotNull DEF IsDevice
    <3> QED
      BY <2>1, <3>1 DEF NonEmpty
  <2>3. e.tags = Select(tags, Range(tags) \ {""})
    BY DEF LoadDevice
  <2> HIDE DEF tags
  <2>4. IsSeq(d.tags) /\ \A i \in DOMAIN d.tags : d.tags[i] # ""
    BY DEF IsDevice
  <2>5. \A i \in 1 .. Len(d.tags) : d.tags[i] \in Range(d.tags) \ {""}
    BY <2>4, IsSeqOfElements DEF Range
  <2> QED
    BY <2>2, <2>3, <2>4, <2>5, SelectAll
<1>9. e.desc = d.desc
  <2>1. \A x \in DOMAIN DeviceMembers : DeviceMembers[x] \in Nat \ {0} /\ x \notin DOMAIN m
    BY <1>2 DEF DeviceMembers, Word, Byte
  <2>2. LoadDesc(json, DeviceMembers) = d.desc
    BY <1>1, <2>1, LoadSavedDesc DEF IsDevice
  <2> QED
    BY <2>2 DEF LoadDevice
<1>10. /\ e.bos = Elements(LoadBos, Array(SaveBos, b))
       /\ e.interfaces = Elements(LoadInterface, Array(SaveInterface, l))
       /\ e.events = Elements(LoadEvent, Array(SaveEvent, d.events))
  <2>1. /\ Get(json, "UsbBosDescriptors", Null) = Array(SaveBos, b)
        /\ Get(json, "UsbInterfaces", Null) = Array(SaveInterface, l)
        /\ Get(json, "UsbEvents", Null) = Array(SaveEvent, d.events)
    BY <1>2, <1>3, <1>4
  <2> QED
    BY <2>1 DEF LoadDevice
<1>11. e.bos # Null /\ IsBosList(e.bos) /\ Array(SaveBos, e.bos) = Array(SaveBos, b)
  BY <1>10, LoadSavedBosList
<1>12. /\ e.interfaces # Null /\ IsInterfaceList(e.interfaces)
       /\ Array(SaveInterface, e.interfaces) = Array(SaveInterface, l)
  BY <1>10, LoadSavedInterfaceList
<1>13. e.events = d.events
  BY <1>10, LoadSavedEventList DEF IsDevice
<1>14. e.hid = IF h = Null THEN <<>> ELSE h
  <2> DEFINE strs == Get(json, "UsbHidDescriptors", <<>>)
  <2>1. e.hid = Elements(Decode, Select(strs, Range(strs) \ {Null}))
    BY DEF LoadDevice
  <2>2. Elements(Decode, Select(strs, Range(strs) \ {Null})) = IF h = Null THEN <<>> ELSE h
    BY <1>1, <1>2, <1>3, LoadSavedReportList
  <2> QED
    BY <2>1, <2>2
<1>15. IsDevice(e)
  BY <1>8, <1>9, <1>13 DEF IsDevice
<1> QED
  BY <1>6, <1>7, <1>8, <1>9, <1>11, <1>12, <1>13, <1>14, <1>15

\* And it is saved as it was.
LEMMA SaveLoadedDevice ==
  ASSUME NullIsNone, NEW d, IsDevice(d), NEW b, IsBosList(b), NEW h, IsReportList(h),
         NEW l, IsInterfaceList(l), NEW json, json = SaveDevice(d, b, h, l), NEW now,
         NEW e, e = LoadDevice(json, now)
  PROVE  SaveDevice(e, e.bos, e.hid, e.interfaces) = json
<1>1. /\ e.platform_id = d.platform_id /\ e.created = d.created /\ e.tags = d.tags
      /\ e.desc = d.desc /\ e.events = d.events
      /\ Array(SaveBos, e.bos) = Array(SaveBos, b)
      /\ e.hid = IF h = Null THEN <<>> ELSE h
      /\ Array(SaveInterface, e.interfaces) = Array(SaveInterface, l)
  BY LoadSavedDevice
<1>2. Array(Encode, e.hid) = Array(Encode, h)
  <2>1. Array(Encode, <<>>) = Null
    BY EmptyList DEF Array, NonEmpty
  <2>2. Array(Encode, Null) = Null
    BY DEF Array
  <2> QED
    BY <1>1, <2>1, <2>2
<1> QED
  BY <1>1, <1>2 DEF SaveDevice

===============================================================================
