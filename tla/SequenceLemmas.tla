--------------------------- MODULE SequenceLemmas ---------------------------
(***************************************************************************)
(* Facts about the sequence operators of SequencesExt that the proofs use. *)
(***************************************************************************)
EXTENDS SequencesExt, SequenceTheorems, WellFoundedInduction, TLAPS

LEMMA RangeLength ==
  ASSUME NEW x \in Nat \ {0}
  PROVE  (IF 1 <= x - 1 THEN x - 1 - 1 + 1 ELSE 0) = x - 1
OBVIOUS

LEMMA FrontIsSeq ==
  ASSUME NEW S, NEW s \in Seq(S), s # <<>>
  PROVE  /\ Front(s) \in Seq(S)
         /\ Len(Front(s)) = Len(s) - 1
         /\ \A i \in 1..(Len(s) - 1) : Front(s)[i] = s[i]
<1> DEFINE m == 1
           n == Len(s) - 1
<1>1. Len(s) \in Nat \ {0} /\ \A i \in m..n : s[i] \in S
  BY EmptySeq, LenProperties
<1>2. m \in Int /\ n \in Int
  BY <1>1
<1>3. Front(s) = SubSeq(s, m, n)
  BY DEF Front
<1> HIDE DEF m, n
<1>4. /\ SubSeq(s, m, n) \in Seq(S)
      /\ Len(SubSeq(s, m, n)) = IF m <= n THEN n - m + 1 ELSE 0
      /\ \A i \in 1..(n - m + 1) : SubSeq(s, m, n)[i] = s[m + i - 1]
  BY <1>1, <1>2, SubSeqProperties
<1>5. \A i \in 1..(Len(s) - 1) : i \in 1..(n - m + 1) /\ m + i - 1 = i
  BY <1>1 DEF m, n
<1>6. (IF m <= n THEN n - m + 1 ELSE 0) = Len(s) - 1
  BY <1>1, RangeLength DEF m, n
<1>7. ASSUME NEW i \in 1..(Len(s) - 1)
      PROVE  Front(s)[i] = s[i]
  <2>1. i \in 1..(n - m + 1) /\ m + i - 1 = i
    BY <1>5
  <2>2. SubSeq(s, m, n)[i] = s[m + i - 1]
    BY <1>4, <2>1
  <2> QED
    BY <1>3, <2>1, <2>2, Zenon
<1> QED
  BY <1>3, <1>4, <1>6, <1>7, Zenon

LEMMA RemoveAtIsSeq ==
  ASSUME NEW S, NEW s \in Seq(S), NEW i \in DOMAIN s
  PROVE  /\ RemoveAt(s, i) \in Seq(S)
         /\ Len(RemoveAt(s, i)) = Len(s) - 1
         /\ \A j \in 1..(Len(s) - 1) : RemoveAt(s, i)[j] = s[IF j < i THEN j ELSE j + 1]
<1> DEFINE a == SubSeq(s, 1, i - 1)
           b == SubSeq(s, i + 1, Len(s))
<1>1. Len(s) \in Nat /\ i \in 1..Len(s) /\ \A j \in 1..Len(s) : s[j] \in S
  BY LenProperties
<1>2. a \in Seq(S) /\ Len(a) = i - 1 /\ \A j \in 1..(i - 1) : a[j] = s[j]
  BY <1>1, SubSeqProperties
<1>3. b \in Seq(S) /\ Len(b) = Len(s) - i /\ \A j \in 1..(Len(s) - i) : b[j] = s[i + j]
  <2> DEFINE m == i + 1
             n == Len(s)
  <2>1. m \in Int /\ n \in Int /\ \A j \in m..n : s[j] \in S
    BY <1>1
  <2> HIDE DEF m, n
  <2>2. /\ SubSeq(s, m, n) \in Seq(S)
        /\ Len(SubSeq(s, m, n)) = IF m <= n THEN n - m + 1 ELSE 0
        /\ \A j \in 1..(n - m + 1) : SubSeq(s, m, n)[j] = s[m + j - 1]
    BY <2>1, SubSeqProperties
  <2> QED
    BY <1>1, <2>2 DEF m, n
<1>4. RemoveAt(s, i) = a \o b
  BY DEF RemoveAt
<1> HIDE DEF a, b
<1>5. /\ a \o b \in Seq(S)
      /\ Len(a \o b) = Len(a) + Len(b)
      /\ \A j \in 1..(Len(a) + Len(b)) :
           (a \o b)[j] = IF j <= Len(a) THEN a[j] ELSE b[j - Len(a)]
  BY <1>2, <1>3, ConcatProperties
<1>6. Len(a) + Len(b) = Len(s) - 1
  BY <1>1, <1>2, <1>3
<1>7. ASSUME NEW j \in 1..(Len(s) - 1)
      PROVE  (a \o b)[j] = s[IF j < i THEN j ELSE j + 1]
  <2>1. CASE j < i
    <3>1. j \in 1..(i - 1) /\ j <= Len(a) /\ j \in 1..(Len(a) + Len(b))
      BY <1>1, <1>2, <1>6, <2>1
    <3>2. (a \o b)[j] = a[j]
      BY <1>5, <3>1, Zenon
    <3>3. a[j] = s[j]
      BY <1>2, <3>1, Zenon
    <3> QED
      BY <2>1, <3>2, <3>3, Zenon
  <2>2. CASE ~(j < i)
    <3>0. /\ Len(s) \in Nat /\ i \in 1..Len(s) /\ Len(a) = i - 1
          /\ Len(a) + Len(b) = Len(s) - 1
      BY <1>1, <1>2, <1>6
    <3>1. /\ j - Len(a) \in 1..(Len(s) - i) /\ ~(j <= Len(a))
          /\ i + (j - Len(a)) = j + 1 /\ j \in 1..(Len(a) + Len(b))
      BY <3>0, <2>2
    <3>2. (a \o b)[j] = b[j - Len(a)]
      BY <1>5, <3>1, Zenon
    <3>3. b[j - Len(a)] = s[i + (j - Len(a))]
      BY <1>3, <3>1, Zenon
    <3> QED
      BY <2>2, <3>1, <3>2, <3>3, Zenon
  <2> QED
    BY <2>1, <2>2
<1> QED
  BY <1>4, <1>5, <1>6, <1>7, Zenon

LEMMA ReverseIsSeq ==
  ASSUME NEW S, NEW s \in Seq(S)
  PROVE  /\ Reverse(s) \in Seq(S)
         /\ Len(Reverse(s)) = Len(s)
         /\ \A i \in 1..Len(s) : Reverse(s)[i] = s[Len(s) - i + 1]
BY DEF Reverse
-----------------------------------------------------------------------------
(* The least of a set of natural numbers is one of them.                   *)

Less == {ss \in Nat \X Nat : ss[1] < ss[2]}

\* There is no infinite descent in Nat.
LEMMA LessIsWellFounded == IsWellFoundedOn(Less, Nat)
<1>1. OpToRel(<, Nat) = Less
  BY Zenon DEF OpToRel, Less
<1> QED
  BY <1>1, NatLessThanWellFounded, Zenon

\* What Min chooses.
LEMMA MinIsLeast ==
  ASSUME NEW S, S \subseteq Nat, S # {}
  PROVE  Min(S) \in S /\ \A y \in S : Min(S) <= y
<1>1. PICK x \in S : \A y \in S : ~(<<y, x>> \in Less)
  BY LessIsWellFounded, WFMin
<1>2. ASSUME NEW y \in S, y < x
      PROVE  FALSE
  <2>1. <<y, x>> \in Less
    BY <1>2 DEF Less
  <2> QED
    BY <1>1, <2>1
<1>3. x \in S /\ \A y \in S : x <= y
  BY <1>1, <1>2
<1> QED
  BY <1>3, Zenon DEF Min

\* Induction with a set in place of a predicate.
LEMMA NatSetInduction ==
  ASSUME NEW S, 0 \in S, \A n \in Nat : n \in S => n + 1 \in S
  PROVE  Nat \subseteq S
<1> SUFFICES ASSUME Nat \ S # {}
             PROVE  FALSE
  OBVIOUS
<1> DEFINE m == Min(Nat \ S)
<1>1. m \in Nat \ S /\ \A y \in Nat \ S : m <= y
  BY MinIsLeast
<1> HIDE DEF m
<1>2. m # 0 /\ m \in Nat
  BY <1>1
<1>3. m - 1 \in Nat /\ ~(m <= m - 1) /\ (m - 1) + 1 = m
  BY <1>2
<1>4. m - 1 \in S
  BY <1>1, <1>3
<1>5. (m - 1) + 1 \in S
  BY <1>3, <1>4
<1> QED
  BY <1>1, <1>3, <1>5

-----------------------------------------------------------------------------
(* Sequences of anything.                                                  *)

IsSeq(s) == Len(s) \in Nat /\ s = [i \in 1 .. Len(s) |-> s[i]]

\* A sequence of anything is one of its elements.
LEMMA IsSeqOfElements ==
  ASSUME NEW s, IsSeq(s)
  PROVE  s \in Seq({s[i] : i \in 1 .. Len(s)}) /\ DOMAIN s = 1 .. Len(s)
BY DEF IsSeq

\* A sequence over a set is a sequence.
LEMMA SeqIsSeq ==
  ASSUME NEW S, NEW s \in Seq(S)
  PROVE  IsSeq(s) /\ DOMAIN s = 1 .. Len(s)
BY LenProperties, SeqDef DEF IsSeq

\* A function on the first numbers is a sequence.
LEMMA FunctionIsSeq ==
  ASSUME NEW s, NEW n \in Nat, s = [i \in 1 .. n |-> s[i]]
  PROVE  IsSeq(s) /\ Len(s) = n /\ DOMAIN s = 1 .. n
<1> DEFINE S == {s[i] : i \in 1 .. n}
<1>1. s \in Seq(S)
  BY SeqDef
<1>2. Len(s) = n /\ DOMAIN s = 1 .. n
  BY <1>1, LenProperties
<1> QED
  BY <1>2 DEF IsSeq

\* What Append makes of a sequence.
LEMMA AppendIsSeq ==
  ASSUME NEW s, IsSeq(s), NEW e
  PROVE  /\ IsSeq(Append(s, e)) /\ Len(Append(s, e)) = Len(s) + 1
         /\ \A i \in 1 .. Len(s) : Append(s, e)[i] = s[i]
         /\ Append(s, e)[Len(s) + 1] = e
<1> DEFINE T == {s[i] : i \in 1 .. Len(s)}
           S == T \cup {e}
<1>1. s \in Seq(T)
  BY IsSeqOfElements
<1> HIDE DEF T
<1>2. s \in Seq(S) /\ e \in S
  BY <1>1
<1> HIDE DEF S
<1>3. /\ Append(s, e) \in Seq(S) /\ Len(Append(s, e)) = Len(s) + 1
      /\ \A i \in 1 .. Len(s) : Append(s, e)[i] = s[i]
      /\ Append(s, e)[Len(s) + 1] = e
  BY <1>2, AppendProperties
<1> QED
  BY <1>3, SeqIsSeq

\* A sequence of one with another element behind it.
LEMMA AppendToOne ==
  ASSUME NEW s, IsSeq(s), Len(s) = 1, NEW e
  PROVE  Len(Append(s, e)) = 2 /\ Append(s, e)[1] = s[1] /\ Append(s, e)[2] = e
<1>1. /\ IsSeq(Append(s, e)) /\ Len(Append(s, e)) = Len(s) + 1
      /\ \A i \in 1 .. Len(s) : Append(s, e)[i] = s[i]
      /\ Append(s, e)[Len(s) + 1] = e
  BY AppendIsSeq, Zenon
<1>2. Len(s) + 1 = 2 /\ 1 \in 1 .. Len(s)
  OBVIOUS
<1> QED
  BY <1>1, <1>2

\* A sequence with one element more.
LEMMA AppendIsPart ==
  ASSUME NEW s, NEW n \in Nat
  PROVE  [i \in 1 .. n + 1 |-> s[i]] = Append([i \in 1 .. n |-> s[i]], s[n + 1])
<1> DEFINE p == [i \in 1 .. n |-> s[i]]
           q == [i \in 1 .. n + 1 |-> s[i]]
           a == Append(p, s[n + 1])
<1>1. p = [i \in 1 .. n |-> p[i]] /\ \A i \in 1 .. n : p[i] = s[i]
  OBVIOUS
<1> HIDE DEF p
<1>2. IsSeq(p) /\ Len(p) = n
  BY <1>1, FunctionIsSeq
<1>3. /\ IsSeq(a) /\ Len(a) = n + 1
      /\ \A i \in 1 .. n : a[i] = s[i]
      /\ a[n + 1] = s[n + 1]
  BY <1>1, <1>2, AppendIsSeq
<1> HIDE DEF a
<1>4. \A i \in 1 .. n + 1 : a[i] = s[i]
  BY <1>3
<1>5. a = [i \in 1 .. n + 1 |-> a[i]]
  BY <1>3 DEF IsSeq
<1>6. a = q
  BY <1>4, <1>5
<1> QED
  BY <1>6 DEF a, p

\* The elements of a flattened sequence are those of its parts.
LEMMA FlattenIsSeq ==
  ASSUME NEW S, NEW ss \in Seq(Seq(S))
  PROVE  FlattenSeq(ss) \in Seq(S)
<1> DEFINE N == Len(ss)
           flat == CHOOSE f : f = [i \in 1 .. N |-> IF i = 1 THEN ss[i] ELSE f[i - 1] \o ss[i]]
           Defined == {m \in Nat : \E f : f = [i \in 1 .. m |-> IF i = 1 THEN ss[i]
                                                               ELSE f[i - 1] \o ss[i]]}
<1>1. N \in Nat /\ \A i \in 1 .. N : ss[i] \in Seq(S)
  BY LenProperties
<1>2. FlattenSeq(ss) = IF N = 0 THEN ss ELSE flat[N]
  BY DEF FlattenSeq
<1>3. Nat \subseteq Defined
  <2>1. 0 \in Defined
    <3> DEFINE f == [i \in 1 .. 0 |-> 0]
    <3>1. f = [i \in 1 .. 0 |-> IF i = 1 THEN ss[i] ELSE f[i - 1] \o ss[i]]
      OBVIOUS
    <3> QED
      BY <3>1
  <2>2. ASSUME NEW m \in Nat, m \in Defined
        PROVE  m + 1 \in Defined
    <3>1. PICK f : f = [i \in 1 .. m |-> IF i = 1 THEN ss[i] ELSE f[i - 1] \o ss[i]]
      BY <2>2
    <3> DEFINE g == [i \in 1 .. m + 1 |->
                      IF i = m + 1 THEN IF i = 1 THEN ss[i] ELSE f[m] \o ss[i] ELSE f[i]]
    <3>2. ASSUME NEW i \in 1 .. m + 1
          PROVE  g[i] = IF i = 1 THEN ss[i] ELSE g[i - 1] \o ss[i]
      <4>1. CASE i = m + 1
        <5>1. i # 1 => i - 1 \in 1 .. m + 1 /\ i - 1 = m
          BY <4>1
        <5>2. i # 1 => g[i - 1] = f[m]
          BY <5>1
        <5> QED
          BY <4>1, <5>2
      <4>2. CASE i # m + 1
        <5>1. i \in 1 .. m
          BY <4>2
        <5>2. f[i] = IF i = 1 THEN ss[i] ELSE f[i - 1] \o ss[i]
          BY <3>1, <5>1
        <5>3. i # 1 => i - 1 \in 1 .. m /\ i - 1 \in 1 .. m + 1 /\ i - 1 # m + 1
          BY <5>1
        <5>4. i # 1 => g[i - 1] = f[i - 1]
          BY <5>3
        <5> QED
          BY <4>2, <5>2, <5>4
      <4> QED
        BY <4>1, <4>2
    <3>3. g = [i \in 1 .. m + 1 |-> IF i = 1 THEN ss[i] ELSE g[i - 1] \o ss[i]]
      <4> DEFINE h == [i \in 1 .. m + 1 |-> IF i = 1 THEN ss[i] ELSE g[i - 1] \o ss[i]]
      <4>1. \A i \in 1 .. m + 1 : g[i] = h[i]
        BY <3>2
      <4> QED
        BY <4>1
    <3> HIDE DEF g
    <3>4. \E h : h = [i \in 1 .. m + 1 |-> IF i = 1 THEN ss[i] ELSE h[i - 1] \o ss[i]]
      BY <3>3, Zenon
    <3>5. m + 1 \in Nat
      OBVIOUS
    <3> QED
      BY <3>4, <3>5, Zenon
  <2> HIDE DEF Defined
  <2> QED
    BY <2>1, <2>2, NatSetInduction
<1>4. \E f : f = [i \in 1 .. N |-> IF i = 1 THEN ss[i] ELSE f[i - 1] \o ss[i]]
  BY <1>1, <1>3
<1>5. flat = [i \in 1 .. N |-> IF i = 1 THEN ss[i] ELSE flat[i - 1] \o ss[i]]
  BY <1>4, Zenon
<1> HIDE DEF flat, Defined
<1> DEFINE Flat == {i \in Nat : i \in 1 .. N => flat[i] \in Seq(S)}
<1>6. Nat \subseteq Flat
  <2>1. 0 \in Flat
    OBVIOUS
  <2>2. ASSUME NEW i \in Nat, i \in Flat
        PROVE  i + 1 \in Flat
    <3>1. CASE i + 1 \in 1 .. N
      <4>1. flat[i + 1] = IF i + 1 = 1 THEN ss[i + 1] ELSE flat[(i + 1) - 1] \o ss[i + 1]
        BY <1>5, <3>1
      <4>2. ss[i + 1] \in Seq(S)
        BY <1>1, <3>1
      <4>3. CASE i = 0
        BY <4>1, <4>2, <4>3
      <4>4. CASE i # 0
        <5>1. (i + 1) - 1 = i /\ i \in 1 .. N /\ i + 1 # 1
          BY <1>1, <3>1, <4>4
        <5>2. flat[i] \in Seq(S)
          BY <2>2, <5>1
        <5>3. flat[i] \o ss[i + 1] \in Seq(S)
          BY <4>2, <5>2, ConcatProperties
        <5>4. flat[i + 1] = flat[i] \o ss[i + 1]
          BY <4>1, <5>1, Zenon
        <5>5. flat[i + 1] \in Seq(S)
          BY <5>3, <5>4, Zenon
        <5> QED
          BY <5>5
      <4> QED
        BY <4>3, <4>4
    <3> QED
      BY <3>1
  <2> HIDE DEF Flat
  <2> QED
    BY <2>1, <2>2, NatSetInduction
<1>7. CASE N = 0
  <2>1. ss = <<>>
    BY <1>7, EmptySeq
  <2> QED
    BY <1>2, <1>7, <2>1, EmptySeq
<1>8. CASE N # 0
  BY <1>1, <1>2, <1>6, <1>8
<1> QED
  BY <1>7, <1>8

\* r is made of the elements of s but the one at i, in their order.
LeftOf(s, i, r) ==
  \E at \in [1 .. Len(s) - 1 -> DOMAIN s \ {i}] :
    /\ \A j, k \in 1 .. Len(s) - 1 : j < k => at[j] < at[k]
    /\ \A j \in 1 .. Len(s) - 1 : r[j] = s[at[j]]

\* What is left of a sequence of anything without one of its elements.
LEMMA RemoveAtOfSeq ==
  ASSUME NEW s, IsSeq(s), NEW i \in DOMAIN s
  PROVE  /\ IsSeq(RemoveAt(s, i)) /\ DOMAIN RemoveAt(s, i) = 1 .. Len(s) - 1
         /\ LeftOf(s, i, RemoveAt(s, i))
<1> DEFINE n == Len(s)
           S == {s[j] : j \in 1 .. n}
           r == RemoveAt(s, i)
           at == [j \in 1 .. n - 1 |-> IF j < i THEN j ELSE j + 1]
<1>1. n \in Nat /\ DOMAIN s = 1 .. n /\ s \in Seq(S)
  BY IsSeqOfElements DEF IsSeq
<1> HIDE DEF S
<1>2. r \in Seq(S) /\ Len(r) = n - 1 /\ \A j \in 1 .. n - 1 : r[j] = s[IF j < i THEN j ELSE j + 1]
  BY <1>1, RemoveAtIsSeq
<1> HIDE DEF r
<1>3. IsSeq(r) /\ DOMAIN r = 1 .. n - 1
  BY <1>2, SeqIsSeq
<1>4. at \in [1 .. n - 1 -> DOMAIN s \ {i}]
  BY <1>1
<1>5. \A j, k \in 1 .. n - 1 : j < k => at[j] < at[k]
  BY <1>1
<1>6. \A j \in 1 .. n - 1 : r[j] = s[at[j]]
  BY <1>2
<1> HIDE DEF at
<1>7. LeftOf(s, i, r)
  BY <1>4, <1>5, <1>6 DEF LeftOf
<1> QED
  BY <1>3, <1>7 DEF r

\* What is in front of the last element.
LEMMA FrontOfSeq ==
  ASSUME NEW s, IsSeq(s), s # <<>>
  PROVE  /\ IsSeq(Front(s)) /\ DOMAIN Front(s) = 1 .. Len(s) - 1
         /\ Len(s) \in Nat /\ Len(s) # 0 /\ DOMAIN s = 1 .. Len(s)
         /\ \A i \in 1 .. Len(s) - 1 : Front(s)[i] = s[i]
<1> DEFINE S == {s[j] : j \in 1 .. Len(s)}
<1>1. Len(s) \in Nat /\ DOMAIN s = 1 .. Len(s) /\ s \in Seq(S)
  BY IsSeqOfElements DEF IsSeq
<1>2. Len(s) # 0
  BY DEF IsSeq
<1> HIDE DEF S
<1>3. /\ Front(s) \in Seq(S) /\ Len(Front(s)) = Len(s) - 1
      /\ \A i \in 1 .. Len(s) - 1 : Front(s)[i] = s[i]
  BY <1>1, FrontIsSeq
<1> QED
  BY <1>1, <1>2, <1>3, SeqIsSeq

\* The elements of a sequence over a set, and their places.
LEMMA SeqOfSet ==
  ASSUME NEW S, NEW s \in Seq(S)
  PROVE  /\ IsSeq(s) /\ DOMAIN s \subseteq Nat \ {0}
         /\ \A i \in DOMAIN s : s[i] \in S
<1>1. IsSeq(s) /\ DOMAIN s = 1 .. Len(s) /\ Len(s) \in Nat
  BY SeqIsSeq, LenProperties
<1>2. \A i \in 1 .. Len(s) : s[i] \in S
  BY ElementOfSeq
<1> QED
  BY <1>1, <1>2

\* One element, and two.
LEMMA SingleIsSeq ==
  ASSUME NEW x, NEW s, s = <<x>>
  PROVE  IsSeq(s) /\ Len(s) = 1 /\ s[1] = x
<1>1. s = [i \in 1 .. 1 |-> s[i]] /\ s[1] = x
  OBVIOUS
<1> QED
  BY <1>1, FunctionIsSeq

LEMMA PairIsSeq ==
  ASSUME NEW x, NEW y, NEW s, s = <<x, y>>
  PROVE  IsSeq(s) /\ s[1] = x
<1>1. s = [i \in 1 .. 2 |-> s[i]] /\ s[1] = x
  OBVIOUS
<1> QED
  BY <1>1, FunctionIsSeq

-----------------------------------------------------------------------------
(* Sequences, from their beginnings.                                       *)

\* Every sequence is made by appending.
LEMMA SeqInduction ==
  ASSUME NEW E, NEW I, <<>> \in I, \A p \in Seq(E), x \in E : p \in I => Append(p, x) \in I
  PROVE  Seq(E) \subseteq I
<1> DEFINE L == {n \in Nat : \A p \in Seq(E) : Len(p) = n => p \in I}
<1>1. 0 \in L
  <2>1. \A p \in Seq(E) : Len(p) = 0 => p = <<>>
    OBVIOUS
  <2> QED
    BY <2>1
<1>2. ASSUME NEW n \in Nat, n \in L
      PROVE  n + 1 \in L
  <2>1. ASSUME NEW p \in Seq(E), Len(p) = n + 1
        PROVE  p \in I
    <3> DEFINE f == Front(p)
    <3>1. p # <<>> /\ n + 1 \in DOMAIN p
      BY <2>1
    <3>2. f \in Seq(E) /\ Len(f) = n /\ \A i \in 1 .. n : f[i] = p[i]
      <4>1. Len(p) - 1 = n
        BY <2>1
      <4> QED
        BY <3>1, <4>1, FrontIsSeq
    <3>3. f \in I /\ p[n + 1] \in E
      BY <1>2, <3>1, <3>2
    <3> HIDE DEF f
    <3>4. p = Append(f, p[n + 1])
      <4> DEFINE q == Append(f, p[n + 1])
      <4>1. q \in Seq(E) /\ Len(q) = n + 1
        BY <3>2, <3>3
      <4>2. \A i \in 1 .. n + 1 : q[i] = p[i]
        BY <3>2
      <4> HIDE DEF q
      <4>3. q = p
        BY <2>1, <4>1, <4>2
      <4> QED
        BY <4>3 DEF q
    <3>5. Append(f, p[n + 1]) \in I
      BY <3>2, <3>3
    <3> QED
      BY <3>4, <3>5
  <2> QED
    BY <2>1
<1> HIDE DEF L
<1>3. Nat \subseteq L
  BY <1>1, <1>2, NatSetInduction
<1> QED
  BY <1>3 DEF L

LEMMA ElementsAreRange ==
  ASSUME NEW s, IsSeq(s)
  PROVE  s \in Seq(Range(s)) /\ DOMAIN s = 1 .. Len(s) /\ Len(s) \in Nat
<1>1. s \in Seq({s[i] : i \in 1 .. Len(s)}) /\ DOMAIN s = 1 .. Len(s) /\ Len(s) \in Nat
  BY IsSeqOfElements DEF IsSeq
<1> QED
  BY <1>1 DEF Range

\* The elements after one more was appended.
LEMMA RangeAppend ==
  ASSUME NEW s, IsSeq(s), NEW x
  PROVE  /\ Range(Append(s, x)) = Range(s) \cup {x}
         /\ IsInjective(Append(s, x)) <=> IsInjective(s) /\ x \notin Range(s)
<1> DEFINE t == Append(s, x)
           N == Len(s)
<1>1. /\ IsSeq(t) /\ Len(t) = N + 1
      /\ \A i \in 1 .. N : t[i] = s[i]
      /\ t[N + 1] = x
  BY AppendIsSeq
<1> HIDE DEF t
<1>2. N \in Nat /\ DOMAIN s = 1 .. N /\ DOMAIN t = 1 .. N + 1
  BY <1>1, IsSeqOfElements DEF IsSeq
<1> HIDE DEF N
<1>3. 1 .. N + 1 = 1 .. N \cup {N + 1} /\ N + 1 \notin 1 .. N
  BY <1>2
<1>4. Range(t) = Range(s) \cup {x}
  BY <1>1, <1>2, <1>3 DEF Range
<1>5. IsInjective(t) <=> IsInjective(s) /\ x \notin Range(s)
  BY <1>1, <1>2, <1>3 DEF Range, IsInjective
<1> QED
  BY <1>4, <1>5 DEF t

\* Two sequences, one behind the other.
LEMMA ConcatIsSeq ==
  ASSUME NEW s, IsSeq(s), NEW t, IsSeq(t)
  PROVE  /\ IsSeq(s \o t) /\ Len(s \o t) = Len(s) + Len(t)
         /\ \A i \in 1 .. Len(s) : (s \o t)[i] = s[i]
         /\ \A i \in 1 .. Len(t) : (s \o t)[Len(s) + i] = t[i]
<1> DEFINE E == Range(s) \cup Range(t)
<1>1. s \in Seq(Range(s)) /\ t \in Seq(Range(t))
  BY ElementsAreRange
<1>2. s \in Seq(E) /\ t \in Seq(E)
  BY <1>1
<1> HIDE DEF E
<1>3. s \o t \in Seq(E)
  BY <1>2
<1>4. IsSeq(s \o t)
  BY <1>3, SeqIsSeq
<1>5. /\ Len(s \o t) = Len(s) + Len(t)
      /\ \A i \in 1 .. Len(s) : (s \o t)[i] = s[i]
      /\ \A i \in 1 .. Len(t) : (s \o t)[Len(s) + i] = t[i]
  BY <1>2
<1> QED
  BY <1>4, <1>5

\* Their elements.
LEMMA RangeConcat ==
  ASSUME NEW s, IsSeq(s), NEW t, IsSeq(t)
  PROVE  /\ Range(s \o t) = Range(s) \cup Range(t)
         /\ IsInjective(s) /\ IsInjective(t) /\ Range(s) \cap Range(t) = {} => IsInjective(s \o t)
<1> DEFINE u == s \o t
           M == Len(s)
           N == Len(t)
<1>1. /\ IsSeq(u) /\ Len(u) = M + N
      /\ \A i \in 1 .. M : u[i] = s[i]
      /\ \A i \in 1 .. N : u[M + i] = t[i]
  BY ConcatIsSeq
<1> HIDE DEF u
<1>2. /\ M \in Nat /\ DOMAIN s = 1 .. M /\ N \in Nat /\ DOMAIN t = 1 .. N
      /\ DOMAIN u = 1 .. M + N
  BY <1>1, IsSeqOfElements DEF IsSeq
<1> HIDE DEF M, N
<1>3. /\ \A i \in 1 .. M + N : i \in 1 .. M \/ (i - M \in 1 .. N /\ i = M + (i - M))
      /\ \A i \in 1 .. M : i \in 1 .. M + N
      /\ \A i \in 1 .. N : M + i \in 1 .. M + N
  BY <1>2
<1>4. \A i \in 1 .. M + N : i \in 1 .. M \/ (i - M \in 1 .. N /\ u[i] = t[i - M])
  BY <1>1, <1>3
<1>5. Range(u) = Range(s) \cup Range(t)
  <2>1. Range(u) \subseteq Range(s) \cup Range(t)
    BY <1>1, <1>2, <1>4 DEF Range
  <2>2. Range(s) \subseteq Range(u)
    BY <1>1, <1>2, <1>3 DEF Range
  <2>3. Range(t) \subseteq Range(u)
    BY <1>1, <1>2, <1>3 DEF Range
  <2> QED
    BY <2>1, <2>2, <2>3
<1>6. ASSUME IsInjective(s), IsInjective(t), Range(s) \cap Range(t) = {}
      PROVE  IsInjective(u)
  <2>1. ASSUME NEW i \in 1 .. M + N, NEW j \in 1 .. M + N, u[i] = u[j]
        PROVE  i = j
    <3>1. CASE i \in 1 .. M /\ j \in 1 .. M
      BY <1>1, <1>2, <1>6, <2>1, <3>1 DEF IsInjective
    <3>2. CASE i \notin 1 .. M /\ j \notin 1 .. M
      <4>1. i - M = j - M
        BY <1>2, <1>4, <1>6, <2>1, <3>2 DEF IsInjective
      <4> QED
        BY <1>2, <4>1
    <3>3. CASE (i \in 1 .. M /\ j \notin 1 .. M) \/ (i \notin 1 .. M /\ j \in 1 .. M)
      BY <1>1, <1>2, <1>4, <1>6, <2>1, <3>3 DEF Range
    <3> QED
      BY <3>1, <3>2, <3>3
  <2> QED
    BY <1>2, <2>1 DEF IsInjective
<1> QED
  BY <1>5, <1>6 DEF u

\* The first element and the others.
LEMMA HeadAndTail ==
  ASSUME NEW s, IsSeq(s), s # <<>>
  PROVE  /\ IsSeq(Tail(s)) /\ Len(Tail(s)) = Len(s) - 1
         /\ \A i \in 1 .. Len(s) - 1 : Tail(s)[i] = s[i + 1]
         /\ Head(s) = s[1] /\ 1 \in DOMAIN s
<1>1. s \in Seq(Range(s)) /\ DOMAIN s = 1 .. Len(s) /\ Len(s) \in Nat
  BY ElementsAreRange
<1>2. Tail(s) \in Seq(Range(s))
  BY <1>1
<1>3. IsSeq(Tail(s))
  BY <1>2, SeqIsSeq
<1>4. /\ Len(Tail(s)) = Len(s) - 1 /\ 1 \in DOMAIN s
      /\ \A i \in 1 .. Len(s) - 1 : Tail(s)[i] = s[i + 1]
  BY <1>1
<1> QED
  BY <1>3, <1>4

LEMMA RangeTail ==
  ASSUME NEW s, IsSeq(s), s # <<>>
  PROVE  /\ Range(s) = {Head(s)} \cup Range(Tail(s))
         /\ IsInjective(s) => IsInjective(Tail(s)) /\ Head(s) \notin Range(Tail(s))
<1> DEFINE t == Tail(s)
           N == Len(s)
<1>1. /\ IsSeq(t) /\ Len(t) = N - 1
      /\ \A i \in 1 .. N - 1 : t[i] = s[i + 1]
      /\ Head(s) = s[1] /\ 1 \in DOMAIN s
  BY HeadAndTail
<1> HIDE DEF t
<1>2. N \in Nat /\ DOMAIN s = 1 .. N /\ DOMAIN t = 1 .. N - 1
  BY <1>1, IsSeqOfElements DEF IsSeq
<1> HIDE DEF N
<1>3. /\ \A i \in 1 .. N : i = 1 \/ (i - 1 \in 1 .. N - 1 /\ t[i - 1] = s[i])
      /\ \A i \in 1 .. N - 1 : i + 1 \in 1 .. N /\ i + 1 # 1
  <2>1. \A i \in 1 .. N : i = 1 \/ (i - 1 \in 1 .. N - 1 /\ (i - 1) + 1 = i)
    BY <1>2
  <2> QED
    BY <1>1, <1>2, <2>1
<1>4. Range(s) = {Head(s)} \cup Range(t)
  <2>1. \A i \in DOMAIN s : s[i] = Head(s) \/ \E j \in DOMAIN t : s[i] = t[j]
    BY <1>1, <1>2, <1>3
  <2>2. {Head(s)} \cup Range(t) \subseteq Range(s)
    BY <1>1, <1>2, <1>3 DEF Range
  <2> QED
    BY <2>1, <2>2 DEF Range
<1>5. ASSUME IsInjective(s)
      PROVE  IsInjective(t) /\ Head(s) \notin Range(t)
  <2>1. \A i \in 1 .. N - 1 : s[i + 1] # s[1]
    BY <1>1, <1>2, <1>3, <1>5 DEF IsInjective
  <2>2. \A i, j \in 1 .. N - 1 : s[i + 1] = s[j + 1] => i + 1 = j + 1
    BY <1>2, <1>3, <1>5 DEF IsInjective
  <2>3. \A i, j \in 1 .. N - 1 : i + 1 = j + 1 => i = j
    BY <1>2
  <2> QED
    BY <1>1, <1>2, <2>1, <2>2, <2>3 DEF IsInjective, Range
<1> QED
  BY <1>4, <1>5 DEF t
===============================================================================
