-------------------------- MODULE ContextLoad_proofs --------------------------
(***************************************************************************)
(* Proofs about ContextLoad, for any number of devices and objects and any *)
(* files: the list and the signals agree, a load that succeeds leaves with *)
(* the tag what the file has and the rest alone, the same file once more   *)
(* only changes events, and a bad file is refused.                         *)
(***************************************************************************)
EXTENDS ContextLoad, DeviceJson_proofs, FiniteSetTheorems, TLAPS

-----------------------------------------------------------------------------
(* The types.                                                              *)

ObjectOK(o) ==
  /\ o = [device |-> o.device, platform_id |-> o.platform_id, created |-> o.created,
          tags |-> o.tags, events |-> o.events]
  /\ IsSeq(o.tags) /\ (o.device # Null => IsInjective(o.tags))

ObjectsOK(objs) == IsSeq(objs) /\ \A i \in DOMAIN objs : ObjectOK(objs[i])

\* Different objects.
ListOK(is, objs) == IsSeq(is) /\ IsInjective(is) /\ Range(is) \subseteq DOMAIN objs

HeapOK ==
  /\ ObjectsOK(objects) /\ ListOK(devices, objects)
  /\ IsSeq(devices_removed) /\ Range(devices_removed) \subseteq DOMAIN objects

\* What the signals add up to.
Balance(objs, is) == [i \in DOMAIN objs |-> IF i \in Range(is) THEN 1 ELSE 0]
BalanceOK == balance = Balance(objects, devices)

FileOK(f) == IsSeq(f) /\ \A n \in DOMAIN f : IsSeq(TagsOf(f[n]))
FilesOK == file # Null => FileOK(file)

IsLoad(l) ==
  /\ l = [file |-> l.file, tag |-> l.tag, at |-> l.at, remove |-> l.remove,
          added |-> l.added, signals |-> l.signals, before |-> l.before, again |-> l.again]
  /\ FileOK(l.file) /\ l.at \in 0 .. Len(l.file)

LoadOK(l, objs, devs) ==
  /\ IsLoad(l)
  /\ ListOK(l.remove, objs) /\ Range(l.remove) \subseteq Range(devs)
  /\ ListOK(l.added, objs) /\ Range(l.added) \cap Range(devs) = {}

CallOK == ~Idle => reply = Null /\ LoadOK(load, objects, devices)

TypeInv ==
  /\ {polling, done_enumerate, hotplug_poll_id} \subseteq BOOLEAN
  /\ bus \subseteq Devices
  /\ HeapOK /\ BalanceOK /\ FilesOK /\ CallOK

-----------------------------------------------------------------------------
(* Signals.                                                                *)

\* An element that is in a sequence once.
LEMMA CountOnce ==
  ASSUME NEW s, IsSeq(s), IsInjective(s), NEW x
  PROVE  Cardinality({n \in DOMAIN s : s[n] = x}) = IF x \in Range(s) THEN 1 ELSE 0
<1> DEFINE C == {n \in DOMAIN s : s[n] = x}
<1>1. CASE x \in Range(s)
  <2>1. PICK n \in DOMAIN s : s[n] = x
    BY <1>1 DEF Range
  <2>2. C = {n}
    BY <2>1 DEF IsInjective
  <2> QED
    BY <1>1, <2>2, FS_Singleton
<1>2. CASE x \notin Range(s)
  <2>1. C = {}
    BY <1>2 DEF Range
  <2> QED
    BY <1>2, <2>1, FS_EmptySet
<1> QED
  BY <1>1, <1>2

\* The signals s say which objects are listed next.
Says(s, before, after, n) ==
  /\ IsSeq(s) /\ IsInjective(s)
  /\ \A i \in 1 .. n :
       /\ <<"device-added", i>> \in Range(s) => i \notin before /\ i \in after
       /\ <<"device-removed", i>> \in Range(s) => i \in before /\ i \notin after
       /\ i \in before /\ i \notin after => <<"device-removed", i>> \in Range(s)
       /\ i \notin before /\ i \in after => <<"device-added", i>> \in Range(s)

LEMMA EmitAddsUp ==
  ASSUME HeapOK, BalanceOK, NEW n \in Nat, Len(objects) <= n, NEW s, NEW after,
         Says(s, Range(devices), after, n)
  PROVE  Emit(n, s) = [i \in 1 .. n |-> IF i \in after THEN 1 ELSE 0]
<1> DEFINE was(i) == IF i \in DOMAIN balance THEN balance[i] ELSE 0
           come(i) == Cardinality({k \in DOMAIN s : s[k] = <<"device-added", i>>})
           go(i) == Cardinality({k \in DOMAIN s : s[k] = <<"device-removed", i>>})
<1>1. Emit(n, s) = [i \in 1 .. n |-> was(i) + come(i) - go(i)]
  BY DEF Emit
<1>2. ASSUME NEW i \in 1 .. n
      PROVE  was(i) + come(i) - go(i) = IF i \in after THEN 1 ELSE 0
  <2>1. was(i) = IF i \in Range(devices) THEN 1 ELSE 0
    BY DEF HeapOK, ListOK, BalanceOK, Balance
  <2>2. come(i) = IF <<"device-added", i>> \in Range(s) THEN 1 ELSE 0
    BY CountOnce DEF Says
  <2>3. go(i) = IF <<"device-removed", i>> \in Range(s) THEN 1 ELSE 0
    BY CountOnce DEF Says
  <2> HIDE DEF was, come, go
  <2>4. /\ <<"device-added", i>> \in Range(s) => i \notin Range(devices) /\ i \in after
        /\ <<"device-removed", i>> \in Range(s) => i \in Range(devices) /\ i \notin after
        /\ i \in Range(devices) /\ i \notin after => <<"device-removed", i>> \in Range(s)
        /\ i \notin Range(devices) /\ i \in after => <<"device-added", i>> \in Range(s)
    BY DEF Says
  <2>5. CASE i \in Range(devices) /\ i \in after
    <3>1. was(i) = 1 /\ come(i) = 0 /\ go(i) = 0
      BY <2>1, <2>2, <2>3, <2>4, <2>5
    <3> QED
      BY <2>5, <3>1
  <2>6. CASE i \in Range(devices) /\ i \notin after
    <3>1. was(i) = 1 /\ come(i) = 0 /\ go(i) = 1
      BY <2>1, <2>2, <2>3, <2>4, <2>6
    <3> QED
      BY <2>6, <3>1
  <2>7. CASE i \notin Range(devices) /\ i \in after
    <3>1. was(i) = 0 /\ come(i) = 1 /\ go(i) = 0
      BY <2>1, <2>2, <2>3, <2>4, <2>7
    <3> QED
      BY <2>7, <3>1
  <2>8. CASE i \notin Range(devices) /\ i \notin after
    <3>1. was(i) = 0 /\ come(i) = 0 /\ go(i) = 0
      BY <2>1, <2>2, <2>3, <2>4, <2>8
    <3> QED
      BY <2>8, <3>1
  <2> QED
    BY <2>5, <2>6, <2>7, <2>8
<1> HIDE DEF was, come, go
<1> QED
  BY <1>1, <1>2

\* No signal, and one.
LEMMA OneSignal ==
  ASSUME NEW x
  PROVE  /\ IsSeq(<<>>) /\ IsInjective(<<>>) /\ Range(<<>>) = {} /\ Len(<<>>) = 0
         /\ IsSeq(<<x>>) /\ IsInjective(<<x>>) /\ Range(<<x>>) = {x} /\ Len(<<x>>) = 1
<1> DEFINE e == <<>>
           s == Append(e, x)
<1>1. IsSeq(e) /\ IsInjective(e) /\ Range(e) = {} /\ Len(e) = 0
  BY DEF IsSeq, IsInjective, Range
<1>2. <<x>> = s
  OBVIOUS
<1> HIDE DEF e
<1>3. IsSeq(s) /\ Len(s) = Len(e) + 1
  BY <1>1, AppendIsSeq
<1>4. Range(s) = Range(e) \cup {x} /\ (IsInjective(s) <=> IsInjective(e) /\ x \notin Range(e))
  BY <1>1, RangeAppend
<1> HIDE DEF s
<1> QED
  BY <1>1, <1>2, <1>3, <1>4 DEF e

\* The signals s say k of some objects.
Signalled(s, k, is) ==
  /\ IsSeq(s) /\ IsInjective(s)
  /\ \A i : <<k, i>> \in Range(s) <=> i \in Range(is)
  /\ \A l, i : <<l, i>> \in Range(s) => l = k
  /\ \A x \in Range(s) : x = <<x[1], x[2]>>

LEMMA SignalsOf ==
  ASSUME NEW is, IsSeq(is), IsInjective(is), NEW k, NEW s,
         s = [n \in DOMAIN is |-> s[n]], \A n \in DOMAIN is : s[n] = <<k, is[n]>>
  PROVE  Signalled(s, k, is)
<1>1. DOMAIN is = 1 .. Len(is) /\ Len(is) \in Nat
  BY IsSeqOfElements DEF IsSeq
<1>2. s = [n \in 1 .. Len(is) |-> s[n]]
  BY <1>1
<1>3. IsSeq(s) /\ DOMAIN s = DOMAIN is
  BY <1>1, <1>2, FunctionIsSeq
<1>4. IsInjective(s)
  BY <1>3 DEF IsInjective
<1>5. \A i : <<k, i>> \in Range(s) <=> i \in Range(is)
  BY <1>3 DEF Range
<1>6. \A l, i : <<l, i>> \in Range(s) => l = k
  BY <1>3 DEF Range
<1>7. \A x \in Range(s) : x = <<x[1], x[2]>>
  BY <1>3 DEF Range
<1> QED
  BY <1>3, <1>4, <1>5, <1>6, <1>7 DEF Signalled

-----------------------------------------------------------------------------
(* Objects.                                                                *)

LEMMA NewObjectOK ==
  ASSUME NEW d, NEW id, NEW created, NEW events
  PROVE  ObjectOK(NewDevice(d, id, created, <<>>, events))
<1>1. IsSeq(<<>>) /\ IsInjective(<<>>)
  BY OneSignal
<1> QED
  BY <1>1 DEF ObjectOK, NewDevice

\* Objects that come behind those that are there.
LEMMA MoreObjects ==
  ASSUME HeapOK, NEW new, IsSeq(new), \A n \in DOMAIN new : ObjectOK(new[n]),
         NEW objs, objs = objects \o new, NEW is, is = [n \in DOMAIN new |-> Len(objects) + n]
  PROVE  /\ Len(objects) \in Nat /\ DOMAIN objects = 1 .. Len(objects)
         /\ ObjectsOK(objs) /\ DOMAIN objs = 1 .. Len(objects) + Len(new)
         /\ DOMAIN objects \subseteq DOMAIN objs
         /\ \A i \in DOMAIN objects : objs[i] = objects[i]
         /\ IsSeq(is) /\ IsInjective(is) /\ Len(is) = Len(new)
         /\ Range(is) = DOMAIN objs \ DOMAIN objects
<1> DEFINE M == Len(objects)
           N == Len(new)
<1>1. /\ M \in Nat /\ DOMAIN objects = 1 .. M /\ IsSeq(objects)
      /\ \A i \in 1 .. M : ObjectOK(objects[i])
  BY IsSeqOfElements DEF HeapOK, ObjectsOK, IsSeq
<1>2. N \in Nat /\ DOMAIN new = 1 .. N
  BY IsSeqOfElements DEF IsSeq
<1>3. /\ IsSeq(objs) /\ Len(objs) = M + N
      /\ \A i \in 1 .. M : objs[i] = objects[i]
      /\ \A i \in 1 .. N : objs[M + i] = new[i]
  BY <1>1, ConcatIsSeq
<1>4. DOMAIN objs = 1 .. M + N
  BY <1>3, IsSeqOfElements
<1>5. is = [n \in 1 .. N |-> is[n]] /\ \A n \in 1 .. N : is[n] = M + n
  BY <1>2
<1>6. IsSeq(is) /\ Len(is) = N /\ DOMAIN is = 1 .. N
  BY <1>2, <1>5, FunctionIsSeq
<1> HIDE DEF M, N
<1>7. \A i \in 1 .. M + N : i \in 1 .. M \/ (i - M \in 1 .. N /\ M + (i - M) = i)
  BY <1>1, <1>2
<1>8. \A i \in 1 .. M + N : ObjectOK(objs[i])
  <2>1. \A i \in 1 .. M : ObjectOK(objs[i])
    BY <1>1, <1>3
  <2>2. \A n \in 1 .. N : ObjectOK(objs[M + n])
    BY <1>2, <1>3
  <2> QED
    BY <1>7, <2>1, <2>2
<1>9. \A i, j \in 1 .. N : M + i = M + j => i = j
  BY <1>1
<1>10. IsInjective(is)
  BY <1>5, <1>6, <1>9 DEF IsInjective
<1>11. Range(is) = (1 .. M + N) \ 1 .. M
  <2>1. \A n \in 1 .. N : is[n] \in (1 .. M + N) \ 1 .. M
    BY <1>1, <1>2, <1>5
  <2>2. \A i \in (1 .. M + N) \ 1 .. M : i - M \in 1 .. N /\ is[i - M] = i
    BY <1>5, <1>7
  <2>3. Range(is) \subseteq (1 .. M + N) \ 1 .. M
    BY <1>6, <2>1 DEF Range
  <2>4. (1 .. M + N) \ 1 .. M \subseteq Range(is)
    BY <1>6, <2>2 DEF Range
  <2> QED
    BY <2>3, <2>4
<1>12. 1 .. M \subseteq 1 .. M + N
  BY <1>1, <1>2
<1> QED
  BY <1>1, <1>2, <1>3, <1>4, <1>6, <1>8, <1>10, <1>11, <1>12 DEF M, N, ObjectsOK

\* The devices ds become objects.
Made(ds) ==
  [n \in DOMAIN ds |-> NewDevice(ds[n], Port[ds[n]], Len(objects) + n, <<>>, <<>>)]

LEMMA MadeOK ==
  ASSUME NEW ds, IsSeq(ds)
  PROVE  /\ IsSeq(Made(ds)) /\ DOMAIN Made(ds) = DOMAIN ds /\ Len(Made(ds)) = Len(ds)
         /\ \A n \in DOMAIN ds : ObjectOK(Made(ds)[n])
<1> DEFINE m == Made(ds)
<1>1. DOMAIN ds = 1 .. Len(ds) /\ Len(ds) \in Nat
  BY IsSeqOfElements DEF IsSeq
<1>2. \A n \in DOMAIN ds : ObjectOK(m[n])
  BY NewObjectOK DEF Made
<1>3. m = [n \in 1 .. Len(ds) |-> m[n]]
  BY <1>1 DEF Made
<1> HIDE DEF m
<1>4. IsSeq(m) /\ Len(m) = Len(ds) /\ DOMAIN m = 1 .. Len(ds)
  BY <1>1, <1>3, FunctionIsSeq
<1> QED
  BY <1>1, <1>2, <1>4 DEF m

\* The list loses some objects and gets others.
LEMMA ListChanges ==
  ASSUME HeapOK, BalanceOK, NEW ds, IsSeq(ds), NEW kept, kept \subseteq Range(devices),
         NEW is, is = [n \in DOMAIN ds |-> Len(objects) + n],
         NEW gone, gone = Select(devices, Range(devices) \ kept),
         objects' = objects \o Made(ds), devices' = Select(devices, kept) \o is,
         balance' = Emit(Len(objects) + Len(is),
                         [n \in DOMAIN gone |-> <<"device-removed", gone[n]>>]
                         \o [n \in DOMAIN is |-> <<"device-added", is[n]>>]),
         UNCHANGED devices_removed
  PROVE  HeapOK' /\ BalanceOK'
<1> DEFINE N == Len(objects)
           left == Select(devices, kept)
           r == [n \in DOMAIN gone |-> <<"device-removed", gone[n]>>]
           a == [n \in DOMAIN is |-> <<"device-added", is[n]>>]
<1>1. /\ IsSeq(devices) /\ IsInjective(devices) /\ Range(devices) \subseteq DOMAIN objects
      /\ IsSeq(devices_removed) /\ Range(devices_removed) \subseteq DOMAIN objects
  BY DEF HeapOK, ListOK
<1>2. /\ IsSeq(Made(ds)) /\ DOMAIN Made(ds) = DOMAIN ds /\ Len(Made(ds)) = Len(ds)
      /\ \A n \in DOMAIN ds : ObjectOK(Made(ds)[n])
  BY MadeOK
<1>3. /\ N \in Nat /\ DOMAIN objects = 1 .. N
      /\ ObjectsOK(objects') /\ DOMAIN objects' = 1 .. N + Len(ds)
      /\ DOMAIN objects \subseteq DOMAIN objects'
      /\ IsSeq(is) /\ IsInjective(is) /\ Len(is) = Len(ds)
      /\ Range(is) = DOMAIN objects' \ DOMAIN objects
  BY <1>2, MoreObjects
<1>4. /\ IsSeq(gone) /\ IsInjective(gone) /\ Range(gone) = Range(devices) \ kept
      /\ IsSeq(left) /\ IsInjective(left) /\ Range(left) = kept
  <2>1. IsSeq(left) /\ IsInjective(left) /\ Range(left) = Range(devices) \cap kept
    BY <1>1, SelectIsSeq
  <2> DEFINE others == Range(devices) \ kept
  <2>2. Range(devices) \cap others = others /\ gone = Select(devices, others)
    OBVIOUS
  <2> HIDE DEF others
  <2>3. IsSeq(gone) /\ IsInjective(gone) /\ Range(gone) = others
    BY <1>1, <2>2, SelectIsSeq
  <2> HIDE DEF left
  <2> QED
    BY <2>1, <2>3 DEF others
<1>5. Signalled(r, "device-removed", gone) /\ Signalled(a, "device-added", is)
  <2>1. /\ r = [n \in DOMAIN gone |-> r[n]]
        /\ \A n \in DOMAIN gone : r[n] = <<"device-removed", gone[n]>>
        /\ a = [n \in DOMAIN is |-> a[n]]
        /\ \A n \in DOMAIN is : a[n] = <<"device-added", is[n]>>
    OBVIOUS
  <2> HIDE DEF r, a
  <2> QED
    BY <1>3, <1>4, <2>1, SignalsOf
<1> HIDE DEF r, a, left
<1>6. IsSeq(r \o a) /\ Range(r \o a) = Range(r) \cup Range(a) /\ IsInjective(r \o a)
  <2>1. Range(r) \cap Range(a) = {}
    BY <1>5 DEF Signalled
  <2> QED
    BY <1>5, <2>1, RangeConcat, ConcatIsSeq DEF Signalled
<1>7. /\ IsSeq(left \o is) /\ Range(left \o is) = kept \cup Range(is)
      /\ IsInjective(left \o is)
  <2>1. Range(left) \cap Range(is) = {}
    BY <1>1, <1>3, <1>4
  <2> QED
    BY <1>3, <1>4, <2>1, RangeConcat, ConcatIsSeq
<1>8. devices' = left \o is
  BY DEF left
<1>9. Says(r \o a, Range(devices), Range(devices'), N + Len(is))
  <2>1. \A i : <<"device-removed", i>> \in Range(r \o a) <=> i \in Range(devices) \ kept
    BY <1>4, <1>5, <1>6 DEF Signalled
  <2>2. \A i : <<"device-added", i>> \in Range(r \o a) <=> i \in Range(is)
    BY <1>5, <1>6 DEF Signalled
  <2>3. \A i \in Range(is) : i \notin Range(devices)
    BY <1>1, <1>3
  <2>4. Range(devices') = kept \cup Range(is)
    BY <1>7, <1>8
  <2> QED
    BY <1>6, <2>1, <2>2, <2>3, <2>4 DEF Says
<1>10. N + Len(is) \in Nat /\ N <= N + Len(is) /\ 1 .. N + Len(is) = DOMAIN objects'
  BY <1>3 DEF IsSeq
<1>11. balance' = Emit(N + Len(is), r \o a)
  BY DEF r, a
<1> HIDE DEF N
<1>12. balance' = [i \in DOMAIN objects' |-> IF i \in Range(devices') THEN 1 ELSE 0]
  <2> DEFINE n == N + Len(is)
             s == r \o a
             after == Range(devices')
  <2>1. n \in Nat /\ Len(objects) <= n /\ Says(s, Range(devices), after, n)
    BY <1>9, <1>10 DEF N
  <2> HIDE DEF n, s, after
  <2>2. Emit(n, s) = [i \in 1 .. n |-> IF i \in after THEN 1 ELSE 0]
    BY <2>1, EmitAddsUp
  <2> QED
    BY <1>10, <1>11, <2>2 DEF n, s, after
<1>13. HeapOK'
  <2>1. ListOK(devices', objects')
    BY <1>1, <1>3, <1>7, <1>8 DEF ListOK
  <2> QED
    BY <1>1, <1>3, <2>1 DEF HeapOK
<1> QED
  BY <1>12, <1>13 DEF BalanceOK, Balance
\* What was selected from all.
LEMMA SelectRange ==
  ASSUME NEW s, IsSeq(s)
  PROVE  Select(s, Range(s)) = s
<1>1. DOMAIN s = 1 .. Len(s)
  BY IsSeqOfElements
<1>2. \A i \in 1 .. Len(s) : s[i] \in Range(s)
  BY <1>1 DEF Range
<1> QED
  BY <1>2, SelectAll

\* Devices come.
LEMMA ListGrows ==
  ASSUME HeapOK, BalanceOK, NEW ds, IsSeq(ds), AddDevices(ds), UNCHANGED devices_removed
  PROVE  HeapOK' /\ BalanceOK'
<1> DEFINE is == [n \in DOMAIN ds |-> Len(objects) + n]
           R == Range(devices)
           gone == Select(devices, R \ R)
           left == Select(devices, R)
           r == [n \in DOMAIN gone |-> <<"device-removed", gone[n]>>]
           a == [n \in DOMAIN is |-> <<"device-added", is[n]>>]
<1>1. IsSeq(devices)
  BY DEF HeapOK, ListOK
<1>2. left = devices
  BY <1>1, SelectRange
<1>3. gone = <<>>
  <2>1. IsSeq(gone) /\ Range(gone) = R \cap (R \ R)
    BY <1>1, SelectIsSeq
  <2> HIDE DEF gone
  <2>2. Range(gone) = {} /\ DOMAIN gone = 1 .. Len(gone) /\ Len(gone) \in Nat
    BY <2>1, IsSeqOfElements DEF IsSeq
  <2>3. DOMAIN gone = {}
    BY <2>2 DEF Range
  <2> QED
    BY <2>1, <2>2, <2>3 DEF IsSeq
<1>4. r \o a = a
  <2>1. IsSeq(ds)
    OBVIOUS
  <2>2. DOMAIN ds = 1 .. Len(ds) /\ Len(ds) \in Nat
    BY IsSeqOfElements DEF IsSeq
  <2>3. DOMAIN is = 1 .. Len(ds) /\ DOMAIN a = 1 .. Len(ds) /\ a = [n \in 1 .. Len(ds) |-> a[n]]
    BY <2>2
  <2>4. r = <<>>
    BY <1>3
  <2> HIDE DEF a, r, is
  <2>5. IsSeq(a)
    BY <2>2, <2>3, FunctionIsSeq
  <2>6. a \in Seq(Range(a))
    BY <2>5, ElementsAreRange
  <2> QED
    BY <2>4, <2>6
<1>5. /\ objects' = objects \o Made(ds) /\ devices' = devices \o is
      /\ balance' = Emit(Len(objects) + Len(is), a)
  BY DEF AddDevices, Made
<1>6. /\ devices' = left \o is
      /\ balance' = Emit(Len(objects) + Len(is), r \o a)
  BY <1>2, <1>4, <1>5, Zenon
<1> HIDE DEF left
<1>7. R \subseteq Range(devices)
  OBVIOUS
<1> QED
  BY <1>5, <1>6, <1>7, ListChanges DEF left

-----------------------------------------------------------------------------
(* The steps outside a load.                                               *)

Flags == {polling, done_enumerate, hotplug_poll_id}

\* No load is under way, and none starts.
LEMMA StillIdle ==
  ASSUME TypeInv, Idle, UNCHANGED load, Flags' \subseteq BOOLEAN, bus' \subseteq Devices,
         HeapOK', BalanceOK', FilesOK'
  PROVE  TypeInv'
BY DEF TypeInv, Idle, CallOK, Flags

LEMMA HeapKept ==
  ASSUME HeapOK, BalanceOK, UNCHANGED <<objects, devices, devices_removed, balance>>
  PROVE  HeapOK' /\ BalanceOK'
BY DEF HeapOK, BalanceOK

\* The order in which libusb gives the devices.
LEMMA MissingInOrder ==
  ASSUME LoadAssumption, TypeInv, NEW ds \in SetToSeqs(Missing)
  PROVE  /\ IsSeq(ds) /\ DOMAIN ds = 1 .. Cardinality(Missing)
         /\ Cardinality(Missing) \in Nat
<1>1. Missing \in SUBSET Devices /\ IsFiniteSet(Devices)
  BY DEF Missing, TypeInv, LoadAssumption
<1>2. Cardinality(Missing) \in Nat
  BY <1>1, FS_Subset, FS_CardinalityType
<1>3. ds = [n \in 1 .. Cardinality(Missing) |-> ds[n]]
  BY DEF SetToSeqs
<1> QED
  BY <1>2, <1>3, FunctionIsSeq

LEMMA PlugTypes ==
  ASSUME TypeInv, NEW d \in Devices, Plug(d)
  PROVE  TypeInv'
<1>1. /\ Idle /\ UNCHANGED <<devices_removed, load, file>> /\ bus' \subseteq Devices
      /\ Flags' \subseteq BOOLEAN /\ FilesOK'
  BY DEF Plug, TypeInv, Flags, FilesOK
<1>2. HeapOK' /\ BalanceOK'
  <2>1. CASE done_enumerate /\ ~polling /\ ListedAs(d) = <<>>
    <3>1. AddDevices(<<d>>)
      BY <2>1 DEF Plug
    <3>2. IsSeq(<<d>>)
      BY OneSignal
    <3> QED
      BY <1>1, <3>1, <3>2, ListGrows DEF TypeInv
  <2>2. CASE ~(done_enumerate /\ ~polling /\ ListedAs(d) = <<>>)
    BY <1>1, <2>2, HeapKept DEF Plug, TypeInv
  <2> QED
    BY <2>1, <2>2
<1> QED
  BY <1>1, <1>2, StillIdle

\* One device goes, with the signal before or after it.
LEMMA ListShrinks ==
  ASSUME HeapOK, BalanceOK, NEW e \in Range(devices), UNCHANGED objects,
         devices' = Without(devices, e),
         balance' = Emit(Len(objects), << <<"device-removed", e>> >>),
         IsSeq(devices_removed'), Range(devices_removed') \subseteq DOMAIN objects
  PROVE  HeapOK' /\ BalanceOK' /\ Range(devices') = Range(devices) \ {e}
<1> DEFINE s == << <<"device-removed", e>> >>
           N == Len(objects)
<1>1. IsSeq(s) /\ IsInjective(s) /\ Range(s) = {<<"device-removed", e>>}
  BY OneSignal
<1>2. /\ IsSeq(devices) /\ IsInjective(devices) /\ Range(devices) \subseteq DOMAIN objects
      /\ N \in Nat /\ DOMAIN objects = 1 .. N
  BY IsSeqOfElements DEF HeapOK, ListOK, ObjectsOK, IsSeq
<1>3. /\ IsSeq(devices') /\ IsInjective(devices') /\ Range(devices') = Range(devices) \ {e}
  <2> DEFINE T == Range(devices) \ {e}
  <2>1. devices' = Select(devices, T) /\ Range(devices) \cap T = T
    BY DEF Without
  <2> HIDE DEF T
  <2>2. IsSeq(devices') /\ IsInjective(devices') /\ Range(devices') = T
    BY <1>2, <2>1, SelectIsSeq
  <2> QED
    BY <2>2 DEF T
<1>4. Says(s, Range(devices), Range(devices'), N)
  <2> HIDE DEF s, N
  <2>1. \A i : <<"device-added", i>> \notin Range(s)
    BY <1>1
  <2>2. \A i : <<"device-removed", i>> \in Range(s) <=> i = e
    BY <1>1
  <2> QED
    BY <1>1, <1>3, <2>1, <2>2 DEF Says
<1>5. balance' = [i \in DOMAIN objects |-> IF i \in Range(devices') THEN 1 ELSE 0]
  <2> DEFINE after == Range(devices')
  <2>1. N \in Nat /\ Len(objects) <= N /\ Says(s, Range(devices), after, N)
    BY <1>2, <1>4
  <2> HIDE DEF s, after
  <2>2. Emit(N, s) = [i \in 1 .. N |-> IF i \in after THEN 1 ELSE 0]
    BY <2>1, EmitAddsUp
  <2> QED
    BY <1>2, <2>2 DEF s, after
<1>6. HeapOK' /\ BalanceOK'
  BY <1>2, <1>3, <1>5 DEF HeapOK, BalanceOK, Balance, ListOK
<1> QED
  BY <1>3, <1>6

LEMMA UnplugTypes ==
  ASSUME TypeInv, NEW d \in Devices, Unplug(d)
  PROVE  TypeInv'
<1>1. /\ Idle /\ UNCHANGED <<objects, load, file>> /\ bus' \subseteq Devices
      /\ Flags' \subseteq BOOLEAN /\ FilesOK' /\ HeapOK /\ BalanceOK
  BY DEF Unplug, TypeInv, Flags, FilesOK
<1>2. CASE UNCHANGED <<devices, devices_removed, balance>>
  BY <1>1, <1>2, HeapKept, StillIdle
<1>3. CASE ~UNCHANGED <<devices, devices_removed, balance>>
  <2> DEFINE found == ListedAs(d)
             e == found[1]
  <2>1. /\ found # <<>> /\ devices' = Without(devices, e)
        /\ devices_removed' = IF SaveEvents THEN Append(devices_removed, e) ELSE devices_removed
        /\ balance' = Emit(Len(objects), << <<"device-removed", e>> >>)
    BY <1>3 DEF Unplug, RemoveDevice
  <2>2. IsSeq(found) /\ Range(found) \subseteq Range(devices)
    BY <1>1, SelectIsSeq DEF HeapOK, ListOK, ListedAs
  <2> HIDE DEF found
  <2>3. 1 \in DOMAIN found
    BY <2>1, <2>2, HeadAndTail
  <2>4. e \in Range(devices) /\ e \in DOMAIN objects
    BY <1>1, <2>2, <2>3 DEF Range, HeapOK, ListOK
  <2> HIDE DEF e
  <2>5. IsSeq(devices_removed) /\ Range(devices_removed) \subseteq DOMAIN objects
    BY <1>1 DEF HeapOK
  <2>6. IsSeq(devices_removed') /\ Range(devices_removed') \subseteq DOMAIN objects
    <3>1. CASE SaveEvents
      <4>1. devices_removed' = Append(devices_removed, e)
        BY <2>1, <3>1
      <4>2. /\ IsSeq(Append(devices_removed, e))
            /\ Range(Append(devices_removed, e)) = Range(devices_removed) \cup {e}
        BY <2>5, AppendIsSeq, RangeAppend
      <4> QED
        BY <2>4, <2>5, <4>1, <4>2
    <3>2. CASE ~SaveEvents
      BY <2>1, <2>5, <3>2
    <3> QED
      BY <3>1, <3>2
  <2>7. HeapOK' /\ BalanceOK'
    BY <1>1, <2>1, <2>4, <2>6, ListShrinks
  <2> QED
    BY <1>1, <2>7, StillIdle
<1> QED
  BY <1>2, <1>3

LEMMA RescanTypes ==
  ASSUME LoadAssumption, TypeInv, Rescan
  PROVE  TypeInv'
<1> DEFINE kept == {i \in Range(devices) : objects[i].device \in bus}
           gone == Select(devices, Range(devices) \ kept)
           is == [n \in 1 .. Cardinality(Missing) |-> Len(objects) + n]
<1>1. /\ Idle /\ UNCHANGED <<devices_removed, load, file>> /\ bus' \subseteq Devices
      /\ Flags' \subseteq BOOLEAN /\ FilesOK' /\ HeapOK /\ BalanceOK
  BY DEF Rescan, TypeInv, Flags, FilesOK
<1>2. PICK ds \in SetToSeqs(Missing) :
        /\ objects' = objects \o Made(ds)
        /\ devices' = Select(devices, kept) \o is
        /\ balance' = Emit(Len(objects) + Len(is),
                           [n \in DOMAIN gone |-> <<"device-removed", gone[n]>>]
                           \o [n \in DOMAIN is |-> <<"device-added", is[n]>>])
  BY DEF Rescan, Made
<1>3. IsSeq(ds) /\ DOMAIN ds = 1 .. Cardinality(Missing)
  BY MissingInOrder
<1>4. is = [n \in DOMAIN ds |-> Len(objects) + n]
  BY <1>3
<1>5. kept \subseteq Range(devices) /\ gone = Select(devices, Range(devices) \ kept)
  OBVIOUS
<1> HIDE DEF kept, gone, is
<1>6. HeapOK' /\ BalanceOK'
  BY <1>1, <1>2, <1>3, <1>4, <1>5, ListChanges
<1> QED
  BY <1>1, <1>6, StillIdle

LEMMA ScanHeap ==
  ASSUME LoadAssumption, TypeInv, Scan, UNCHANGED <<polling, devices_removed>>
  PROVE  HeapOK' /\ BalanceOK' /\ Flags' \subseteq BOOLEAN
<1>1. HeapOK /\ BalanceOK /\ {polling, done_enumerate, hotplug_poll_id} \subseteq BOOLEAN
  BY DEF TypeInv
<1>2. CASE done_enumerate
  <2>1. UNCHANGED <<objects, devices, devices_removed, balance>>
    BY <1>2 DEF Scan
  <2>2. HeapOK' /\ BalanceOK'
    BY <1>1, <2>1, HeapKept
  <2> QED
    BY <1>1, <1>2, <2>2 DEF Scan, Flags
<1>3. CASE ~done_enumerate
  <2>1. PICK ds \in SetToSeqs(Missing) : AddDevices(ds)
    BY <1>3 DEF Scan
  <2>2. IsSeq(ds)
    BY MissingInOrder
  <2>3. HeapOK' /\ BalanceOK'
    BY <1>1, <2>1, <2>2, ListGrows
  <2> QED
    BY <1>1, <1>3, <2>3 DEF Scan, Flags
<1> QED
  BY <1>2, <1>3

LEMMA EnumerateTypes ==
  ASSUME LoadAssumption, TypeInv, Enumerate
  PROVE  TypeInv'
<1>1. /\ Idle /\ UNCHANGED <<polling, devices_removed, load, file>> /\ bus' \subseteq Devices
      /\ FilesOK' /\ Scan
  BY DEF Enumerate, TypeInv, FilesOK
<1>2. HeapOK' /\ BalanceOK' /\ Flags' \subseteq BOOLEAN
  BY <1>1, ScanHeap
<1> QED
  BY <1>1, <1>2, StillIdle

\* The tags of what is saved.
LEMMA SavedTags ==
  ASSUME NEW o, ObjectOK(o)
  PROVE  IsSeq(TagsOf(ToJson(o)))
<1> DEFINE d == With(o, [desc |-> [m \in DOMAIN DeviceMembers |-> 0]])
<1>1. d.tags = o.tags
  BY DEF ObjectOK, With
<1>2. ToJson(o) = Object(With(Members(d, Null, Null, Null), SaveDesc(d.desc)))
  BY DEF ToJson, SaveDevice, Members
<1> HIDE DEF d
<1> DEFINE f == Members(d, Null, Null, Null)
<1>3. "Tags" \in DOMAIN f /\ f["Tags"] = NonEmpty(o.tags)
  BY <1>1 DEF Members
<1> HIDE DEF f
<1>4. TagsOf(ToJson(o)) = IF NonEmpty(o.tags) = Null THEN <<>> ELSE NonEmpty(o.tags)
  BY <1>2, <1>3, GetMember DEF TagsOf, f
<1>5. IsSeq(o.tags) /\ IsSeq(<<>>)
  BY OneSignal DEF ObjectOK
<1> QED
  BY <1>4, <1>5 DEF NonEmpty

LEMMA SaveTypes ==
  ASSUME LoadAssumption, TypeInv, NEW tag, Save(tag)
  PROVE  TypeInv'
<1> DEFINE rem == IF SaveRemoved THEN devices_removed ELSE <<>>
           T == {i \in Range(devices') : Tagged(objects'[i].tags, tag)}
           is == rem \o Select(devices', T)
<1>1. /\ Idle /\ UNCHANGED <<polling, devices_removed, load>> /\ bus' \subseteq Devices /\ Scan
      /\ file' = [n \in DOMAIN is |-> ToJson(objects'[is[n]])]
  BY DEF Save, TypeInv, TaggedDevices
<1>2. HeapOK' /\ BalanceOK' /\ Flags' \subseteq BOOLEAN
  BY <1>1, ScanHeap
<1>3. IsSeq(rem) /\ Range(rem) \subseteq DOMAIN objects'
  <2>1. IsSeq(devices_removed) /\ Range(devices_removed) \subseteq DOMAIN objects'
    BY <1>1, <1>2 DEF HeapOK
  <2>2. IsSeq(<<>>) /\ Range(<<>>) = {}
    BY OneSignal
  <2> QED
    BY <2>1, <2>2
<1>4. IsSeq(devices') /\ Range(devices') \subseteq DOMAIN objects' /\ ObjectsOK(objects')
  BY <1>2 DEF HeapOK, ListOK
<1> HIDE DEF rem, T
<1>5. IsSeq(Select(devices', T)) /\ Range(Select(devices', T)) \subseteq DOMAIN objects'
  BY <1>4, SelectIsSeq
<1>6. IsSeq(is) /\ Range(is) \subseteq DOMAIN objects'
  BY <1>3, <1>5, ConcatIsSeq, RangeConcat
<1> HIDE DEF is
<1>7. FileOK(file')
  <2>1. DOMAIN is = 1 .. Len(is) /\ Len(is) \in Nat
    BY <1>6, IsSeqOfElements DEF IsSeq
  <2>2. file' = [n \in 1 .. Len(is) |-> file'[n]] /\ DOMAIN file' = DOMAIN is
    BY <1>1, <2>1
  <2>3. IsSeq(file')
    BY <2>1, <2>2, FunctionIsSeq
  <2>4. \A n \in DOMAIN is : ObjectOK(objects'[is[n]])
    BY <1>4, <1>6 DEF Range, ObjectsOK
  <2>5. \A n \in DOMAIN is : IsSeq(TagsOf(file'[n]))
    BY <1>1, <2>4, SavedTags
  <2> QED
    BY <2>2, <2>3, <2>5 DEF FileOK
<1>8. FilesOK'
  BY <1>7 DEF FilesOK
<1> QED
  BY <1>1, <1>2, <1>8, StillIdle
\* An object is changed.
LEMMA ChangeTypes ==
  ASSUME TypeInv, NEW i \in Range(devices), NEW o, Change(i, o), ObjectOK(o)
  PROVE  TypeInv'
<1>1. /\ Idle /\ UNCHANGED <<devices, devices_removed, load, file, balance>> /\ bus' \subseteq Devices
      /\ Flags' \subseteq BOOLEAN /\ FilesOK' /\ HeapOK /\ BalanceOK
      /\ objects' = [objects EXCEPT ![i] = o]
  BY DEF Change, TypeInv, Flags, FilesOK
<1>2. IsSeq(objects) /\ DOMAIN objects = 1 .. Len(objects) /\ Len(objects) \in Nat
  BY <1>1, IsSeqOfElements DEF HeapOK, ObjectsOK, IsSeq
<1>3. DOMAIN objects' = DOMAIN objects /\ objects' = [k \in 1 .. Len(objects) |-> objects'[k]]
  BY <1>1, <1>2
<1>4. IsSeq(objects') /\ \A k \in DOMAIN objects : ObjectOK(objects'[k])
  BY <1>1, <1>2, <1>3, FunctionIsSeq DEF HeapOK, ObjectsOK
<1>5. HeapOK' /\ BalanceOK'
  BY <1>1, <1>3, <1>4 DEF HeapOK, ObjectsOK, ListOK, BalanceOK, Balance
<1> QED
  BY <1>1, <1>5, StillIdle

LEMMA ListedIsOK ==
  ASSUME TypeInv, NEW i \in Range(devices)
  PROVE  i \in DOMAIN objects /\ ObjectOK(objects[i])
BY DEF TypeInv, HeapOK, ObjectsOK, ListOK

LEMMA RequestTypes ==
  ASSUME TypeInv, NEW i \in Range(devices), NEW key, Request(i, key)
  PROVE  TypeInv'
<1> DEFINE o == [objects[i] EXCEPT !.events =
                   Append(@, [id |-> key, status |-> "COMPLETED", rc |-> "SUCCESS", bytes |-> Null])]
<1>1. ObjectOK(objects[i])
  BY ListedIsOK
<1>2. ObjectOK(o)
  BY <1>1 DEF ObjectOK
<1>3. Change(i, o)
  BY DEF Request
<1> QED
  BY <1>2, <1>3, ChangeTypes

LEMMA AddTagTypes ==
  ASSUME TypeInv, NEW i \in Range(devices), NEW tag \in Tags, AddTag(i, tag), LoadAssumption
  PROVE  TypeInv'
<1> DEFINE tags == Append(objects[i].tags, tag)
           o == [objects[i] EXCEPT !.tags = tags]
<1>1. ObjectOK(objects[i])
  BY ListedIsOK
<1>2. IsSeq(objects[i].tags) /\ (objects[i].device # Null => IsInjective(objects[i].tags))
  BY <1>1 DEF ObjectOK
<1>3. tag \notin Range(objects[i].tags)
  BY DEF AddTag, Tagged, Range, LoadAssumption
<1>4. IsSeq(tags) /\ (objects[i].device # Null => IsInjective(tags))
  BY <1>2, <1>3, AppendIsSeq, RangeAppend
<1>5. Change(i, o)
  BY DEF AddTag
<1> HIDE DEF tags
<1>6. ObjectOK(o)
  BY <1>1, <1>4 DEF ObjectOK
<1> QED
  BY <1>5, <1>6, ChangeTypes

LEMMA RemoveTagTypes ==
  ASSUME TypeInv, NEW i \in Range(devices), NEW tag, RemoveTag(i, tag)
  PROVE  TypeInv'
<1> DEFINE was == objects[i].tags
           places == {n \in DOMAIN was : was[n] = tag}
           tags == RemoveAt(was, Min(places))
           o == [objects[i] EXCEPT !.tags = tags]
<1>1. ObjectOK(objects[i])
  BY ListedIsOK
<1>2. IsSeq(was) /\ DOMAIN was = 1 .. Len(was) /\ Len(was) \in Nat
  BY <1>1, IsSeqOfElements DEF ObjectOK, IsSeq
<1>3. places # {} /\ Change(i, o)
  BY DEF RemoveTag
<1>4. Min(places) \in DOMAIN was
  <2>1. places \subseteq Nat
    BY <1>2
  <2> QED
    BY <1>3, <2>1, MinIsLeast
<1>5. IsSeq(tags) /\ DOMAIN tags = 1 .. Len(was) - 1 /\ LeftOf(was, Min(places), tags)
  BY <1>2, <1>4, RemoveAtOfSeq
<1>6. objects[i].device # Null => IsInjective(was)
  BY <1>1 DEF ObjectOK
<1> HIDE DEF tags, was, places
<1>7. ASSUME IsInjective(was)
      PROVE  IsInjective(tags)
  <2>1. PICK at \in [1 .. Len(was) - 1 -> DOMAIN was \ {Min(places)}] :
          /\ \A j, k \in 1 .. Len(was) - 1 : j < k => at[j] < at[k]
          /\ \A j \in 1 .. Len(was) - 1 : tags[j] = was[at[j]]
    BY <1>5 DEF LeftOf
  <2>2. ASSUME NEW j \in 1 .. Len(was) - 1, NEW k \in 1 .. Len(was) - 1, tags[j] = tags[k]
        PROVE  j = k
    <3>1. at[j] = at[k]
      BY <1>7, <2>1, <2>2 DEF IsInjective
    <3>2. at[j] \in Nat /\ at[k] \in Nat
      BY <1>2, <2>1
    <3>3. ~(at[j] < at[k]) /\ ~(at[k] < at[j])
      BY <3>1, <3>2
    <3>4. ~(j < k) /\ ~(k < j)
      BY <2>1, <3>3
    <3> QED
      BY <1>2, <3>4
  <2> QED
    BY <1>5, <2>2 DEF IsInjective
<1>8. ObjectOK(o)
  BY <1>1, <1>5, <1>6, <1>7 DEF ObjectOK, was
<1> QED
  BY <1>3, <1>8, ChangeTypes DEF was, places, tags

-----------------------------------------------------------------------------
(* The steps of a load.                                                    *)

\* A load goes on, or ends.
LEMMA LoadGoesOn ==
  ASSUME TypeInv, UNCHANGED <<polling, bus, hotplug_poll_id, file>>, done_enumerate' \in BOOLEAN,
         HeapOK', BalanceOK', CallOK'
  PROVE  TypeInv'
BY DEF TypeInv, FilesOK

LEMMA LoadStartTypes ==
  ASSUME LoadAssumption, TypeInv, NEW f \in Files, NEW tag, LoadStart(f, tag)
  PROVE  TypeInv'
<1>1. HeapOK /\ BalanceOK /\ UNCHANGED <<objects, devices, devices_removed, balance>>
  BY DEF TypeInv, LoadStart, heap
<1>2. HeapOK' /\ BalanceOK'
  BY <1>1, HeapKept
<1>3. FileOK(f)
  <2>1. CASE f \in Foreign
    <3>1. /\ f \in Seq(Range(f))
          /\ \A json \in Range(f) : TagsOf(json) \in Seq(Range(TagsOf(json)))
      BY <2>1 DEF LoadAssumption
    <3>2. IsSeq(f)
      BY <3>1, SeqIsSeq
    <3>3. \A n \in DOMAIN f : IsSeq(TagsOf(f[n]))
      BY <3>1, SeqIsSeq DEF Range
    <3> QED
      BY <3>2, <3>3 DEF FileOK
  <2>2. CASE file # Null /\ f = file
    BY <2>2 DEF TypeInv, FilesOK
  <2> QED
    BY <2>1, <2>2 DEF Files
<1>4. LoadOK(load', objects', devices')
  <2> DEFINE T == {i \in Range(devices) : Tagged(objects[i].tags, tag)}
  <2>1. IsSeq(devices) /\ IsInjective(devices) /\ Range(devices) \subseteq DOMAIN objects
    BY <1>1 DEF HeapOK, ListOK
  <2>2. load'.remove = Select(devices, T) /\ load'.added = <<>>
    BY DEF LoadStart, TaggedDevices
  <2> HIDE DEF T
  <2>3. ListOK(load'.remove, objects) /\ Range(load'.remove) \subseteq Range(devices)
    BY <2>1, <2>2, SelectIsSeq DEF ListOK
  <2>4. ListOK(load'.added, objects) /\ Range(load'.added) = {}
    BY <2>2, OneSignal DEF ListOK
  <2>5. IsLoad(load')
    <3>1. Len(f) \in Nat
      BY <1>3 DEF FileOK, IsSeq
    <3> QED
      BY <1>3, <3>1 DEF LoadStart, IsLoad
  <2> QED
    BY <1>1, <2>3, <2>4, <2>5 DEF LoadOK
<1>5. CallOK'
  BY <1>4 DEF CallOK, LoadStart
<1> QED
  BY <1>2, <1>5, LoadGoesOn DEF LoadStart

LEMMA LoadNothingTypes ==
  ASSUME TypeInv, LoadNothing
  PROVE  TypeInv'
<1>1. HeapOK' /\ BalanceOK'
  BY HeapKept DEF TypeInv, LoadNothing, heap
<1> QED
  BY <1>1, StillIdle DEF TypeInv, LoadNothing, Flags, FilesOK

\* What a load under way knows.
LEMMA LoadUnderWay ==
  ASSUME TypeInv, ~Idle
  PROVE  /\ LoadOK(load, objects, devices) /\ IsLoad(load) /\ reply = Null
         /\ HeapOK /\ BalanceOK /\ done_enumerate \in BOOLEAN
         /\ IsSeq(load.file) /\ load.at \in Nat /\ Len(load.file) \in Nat /\ load.at <= Len(load.file)
BY DEF TypeInv, CallOK, LoadOK, IsLoad, FileOK, IsSeq

LEMMA LoadEnds ==
  ASSUME TypeInv, NEW ok, Return(ok),
         UNCHANGED <<polling, bus, hotplug_poll_id, file, objects, devices, devices_removed, balance,
                     done_enumerate>>
  PROVE  TypeInv'
<1>1. HeapOK' /\ BalanceOK'
  BY HeapKept DEF TypeInv
<1>2. CallOK'
  BY DEF CallOK, Return, Idle
<1> QED
  BY <1>1, <1>2, LoadGoesOn DEF TypeInv

\* The signal of a change leaves the balance.
LEMMA ChangeIsBalanced ==
  ASSUME HeapOK, BalanceOK, NEW i, NEW b, b = Emit(Len(objects), << <<"device-changed", i>> >>)
  PROVE  b = balance
<1> DEFINE s == << <<"device-changed", i>> >>
           N == Len(objects)
           after == Range(devices)
<1>1. IsSeq(s) /\ IsInjective(s) /\ Range(s) = {<<"device-changed", i>>}
  BY OneSignal
<1>2. N \in Nat /\ DOMAIN objects = 1 .. N
  BY IsSeqOfElements DEF HeapOK, ObjectsOK, IsSeq
<1> HIDE DEF s
<1>3. \A k : <<"device-added", k>> \notin Range(s) /\ <<"device-removed", k>> \notin Range(s)
  BY <1>1
<1>4. Says(s, after, after, N)
  BY <1>1, <1>3 DEF Says
<1>5. Len(objects) <= N
  BY <1>2
<1> HIDE DEF N, after
<1>6. Emit(N, s) = [k \in 1 .. N |-> IF k \in after THEN 1 ELSE 0]
  BY <1>2, <1>4, <1>5, EmitAddsUp DEF after
<1> QED
  BY <1>2, <1>6 DEF s, N, after, BalanceOK, Balance

LEMMA ExistingIsListed ==
  ASSUME HeapOK, NEW d, Existing(d) # 0
  PROVE  /\ Existing(d) \in Range(devices) /\ Existing(d) \in DOMAIN objects
         /\ objects[Existing(d)].platform_id = d.platform_id
         /\ objects[Existing(d)].created = d.created
<1> DEFINE found == {n \in DOMAIN devices : objects[devices[n]].platform_id = d.platform_id}
           i == FindByPlatformId(d.platform_id)
<1>1. Existing(d) = i /\ i # 0 /\ objects[i].created = d.created
  BY DEF Existing
<1>2. found # {} /\ i = devices[Min(found)]
  BY <1>1 DEF FindByPlatformId
<1>3. found \subseteq Nat
  <2>1. DOMAIN devices = 1 .. Len(devices)
    BY IsSeqOfElements DEF HeapOK, ListOK
  <2> QED
    BY <2>1
<1>4. Min(found) \in found
  BY <1>2, <1>3, MinIsLeast
<1> HIDE DEF i
<1>5. i \in Range(devices) /\ objects[i].platform_id = d.platform_id
  BY <1>2, <1>4 DEF Range
<1>6. i \in DOMAIN objects
  BY <1>5 DEF HeapOK, ListOK
<1> QED
  BY <1>1, <1>5, <1>6
LEMMA LoadChangesTypes ==
  ASSUME TypeInv, ~Idle, NEW json, load.at < Len(load.file), LoadChanges(json),
         UNCHANGED <<polling, bus, devices, devices_removed, done_enumerate, hotplug_poll_id, file>>
  PROVE  TypeInv'
<1> DEFINE d == LoadDevice(json, Now)
           i == Existing(d)
           o == [objects[i] EXCEPT !.events = d.events]
<1>1. /\ LoadOK(load, objects, devices) /\ IsLoad(load) /\ reply = Null
      /\ HeapOK /\ BalanceOK /\ done_enumerate \in BOOLEAN
      /\ load.at \in Nat /\ Len(load.file) \in Nat
  BY LoadUnderWay
<1>2. /\ i # 0 /\ objects' = [objects EXCEPT ![i].events = d.events] /\ reply' = Null
      /\ load' = [[load EXCEPT !.at = @ + 1, !.remove = Without(@, i)]
                  EXCEPT !.signals = Append(@, <<"device-changed", i>>)]
      /\ balance' = Emit(Len(objects'), << <<"device-changed", i>> >>)
  BY <1>1 DEF LoadChanges, Signal
<1>3. i \in DOMAIN objects
  BY <1>1, <1>2, ExistingIsListed
<1> HIDE DEF i, d
<1>4. IsSeq(objects) /\ DOMAIN objects = 1 .. Len(objects) /\ Len(objects) \in Nat /\ ObjectOK(objects[i])
  BY <1>1, <1>3, IsSeqOfElements DEF HeapOK, ObjectsOK, IsSeq
<1>5. ObjectOK(o) /\ objects' = [objects EXCEPT ![i] = o]
  BY <1>2, <1>4 DEF ObjectOK
<1>6. DOMAIN objects' = DOMAIN objects /\ objects' = [k \in 1 .. Len(objects) |-> objects'[k]]
  BY <1>4, <1>5
<1>7. /\ IsSeq(objects') /\ Len(objects') = Len(objects)
      /\ \A k \in DOMAIN objects : ObjectOK(objects'[k])
  BY <1>1, <1>4, <1>5, <1>6, FunctionIsSeq DEF HeapOK, ObjectsOK
<1>8. balance' = balance
  BY <1>1, <1>2, <1>7, ChangeIsBalanced
<1>9. HeapOK' /\ BalanceOK'
  BY <1>1, <1>6, <1>7, <1>8 DEF HeapOK, ObjectsOK, ListOK, BalanceOK, Balance
<1>10. LoadOK(load', objects', devices')
  <2> DEFINE T == Range(load.remove) \ {i}
  <2>1. IsSeq(load.remove) /\ IsInjective(load.remove)
    BY <1>1 DEF LoadOK, ListOK
  <2>2. load'.remove = Select(load.remove, T) /\ load'.added = load.added
    BY <1>1, <1>2 DEF Without, IsLoad
  <2> HIDE DEF T
  <2>3. /\ IsSeq(load'.remove) /\ IsInjective(load'.remove)
        /\ Range(load'.remove) \subseteq Range(load.remove)
    BY <2>1, <2>2, SelectIsSeq
  <2>4. IsLoad(load')
    <3>1. load.at + 1 \in 0 .. Len(load.file)
      BY <1>1
    <3> QED
      BY <1>1, <1>2, <3>1 DEF IsLoad
  <2> QED
    BY <1>1, <1>6, <2>2, <2>3, <2>4 DEF LoadOK, ListOK
<1>11. CallOK'
  BY <1>2, <1>10 DEF CallOK
<1> QED
  BY <1>1, <1>9, <1>11, LoadGoesOn

LEMMA LoadKeepsTypes ==
  ASSUME TypeInv, ~Idle, load.at < Len(load.file), NEW json, IsSeq(TagsOf(json)), LoadKeeps(json),
         UNCHANGED <<polling, bus, devices, devices_removed, done_enumerate, hotplug_poll_id, file>>
  PROVE  TypeInv'
<1> DEFINE d == LoadDevice(json, Now)
           o == NewDevice(Null, d.platform_id, d.created, d.tags, d.events)
           N == Len(objects)
<1>1. /\ LoadOK(load, objects, devices) /\ IsLoad(load) /\ reply = Null
      /\ HeapOK /\ BalanceOK /\ done_enumerate \in BOOLEAN
      /\ load.at \in Nat /\ Len(load.file) \in Nat
  BY LoadUnderWay
<1>2. /\ objects' = Append(objects, o) /\ reply' = Null
      /\ load' = [load EXCEPT !.at = @ + 1, !.added = Append(@, N + 1)]
      /\ balance' = Emit(N + 1, <<>>)
  BY <1>1 DEF LoadKeeps, Now
<1>3. IsSeq(d.tags)
  <2> DEFINE tags == TagsOf(json)
             T == Range(tags) \ {""}
  <2>1. d.tags = Select(tags, T)
    BY DEF LoadDevice, TagsOf
  <2>2. IsSeq(tags)
    OBVIOUS
  <2> HIDE DEF d, T, tags
  <2>3. IsSeq(Select(tags, T))
    BY <2>2, SelectIsSeq
  <2> QED
    BY <2>1, <2>3
<1>4. ObjectOK(o)
  <2> HIDE DEF d
  <2> QED
    BY <1>3 DEF ObjectOK, NewDevice
<1> HIDE DEF o
<1>5. IsSeq(objects) /\ N \in Nat /\ DOMAIN objects = 1 .. N
  BY <1>1, IsSeqOfElements DEF HeapOK, ObjectsOK, IsSeq
<1>6. /\ IsSeq(objects') /\ DOMAIN objects' = 1 .. N + 1 /\ objects'[N + 1] = o
      /\ \A k \in 1 .. N : objects'[k] = objects[k]
  BY <1>2, <1>5, AppendIsSeq, IsSeqOfElements
<1> HIDE DEF N
<1>7. DOMAIN objects \subseteq DOMAIN objects' /\ N + 1 \in DOMAIN objects' /\ N + 1 \notin DOMAIN objects
  BY <1>5, <1>6
<1>8. ObjectsOK(objects')
  <2>1. \A k \in 1 .. N + 1 : k \in 1 .. N \/ k = N + 1
    BY <1>5
  <2> QED
    BY <1>1, <1>4, <1>5, <1>6, <2>1 DEF HeapOK, ObjectsOK
<1>9. HeapOK'
  BY <1>1, <1>7, <1>8 DEF HeapOK, ListOK
<1>10. BalanceOK'
  <2> DEFINE none == <<>>
             n == N + 1
             after == Range(devices)
  <2>1. IsSeq(none) /\ IsInjective(none) /\ Range(none) = {}
    BY OneSignal
  <2>2. n \in Nat /\ Len(objects) <= n /\ n = N + 1
    BY <1>5 DEF N
  <2> HIDE DEF none, n, after
  <2>3. Says(none, after, after, n)
    BY <2>1 DEF Says
  <2>4. Emit(n, none) = [k \in 1 .. n |-> IF k \in after THEN 1 ELSE 0]
    BY <1>1, <2>2, <2>3, EmitAddsUp DEF after
  <2> QED
    BY <1>2, <1>6, <2>2, <2>4 DEF none, after, BalanceOK, Balance
<1>11. LoadOK(load', objects', devices')
  <2> DEFINE added == Append(load.added, N + 1)
  <2>1. load'.remove = load.remove /\ load'.added = added
    BY <1>1, <1>2 DEF IsLoad
  <2>2. /\ IsSeq(load.added) /\ IsInjective(load.added) /\ Range(load.added) \subseteq DOMAIN objects
        /\ Range(load.added) \cap Range(devices) = {} /\ Range(devices) \subseteq DOMAIN objects
    BY <1>1 DEF LoadOK, ListOK, HeapOK
  <2>3. IsSeq(added) /\ Range(added) = Range(load.added) \cup {N + 1} /\ IsInjective(added)
    BY <1>7, <2>2, AppendIsSeq, RangeAppend
  <2> HIDE DEF added
  <2>4. IsLoad(load')
    <3>1. load.at + 1 \in 0 .. Len(load.file)
      BY <1>1
    <3> QED
      BY <1>1, <1>2, <3>1 DEF IsLoad
  <2> QED
    BY <1>1, <1>7, <2>1, <2>2, <2>3, <2>4 DEF LoadOK, ListOK
<1>12. CallOK'
  BY <1>2, <1>11 DEF CallOK
<1> QED
  BY <1>1, <1>9, <1>10, <1>12, LoadGoesOn

LEMMA LoadEntryTypes ==
  ASSUME TypeInv, LoadEntry
  PROVE  TypeInv'
<1> DEFINE json == load.file[load.at + 1]
<1>1. /\ LoadOK(load, objects, devices) /\ IsLoad(load) /\ reply = Null
      /\ HeapOK /\ BalanceOK /\ done_enumerate \in BOOLEAN
      /\ load.at \in Nat /\ Len(load.file) \in Nat /\ IsSeq(load.file)
  BY LoadUnderWay DEF LoadEntry
<1>2. /\ ~Idle /\ load.at < Len(load.file)
      /\ UNCHANGED <<polling, bus, devices, devices_removed, done_enumerate, hotplug_poll_id, file>>
  BY DEF LoadEntry
<1>3. load.at + 1 \in DOMAIN load.file
  <2>1. DOMAIN load.file = 1 .. Len(load.file)
    BY <1>1, IsSeqOfElements
  <2> QED
    BY <1>1, <1>2, <2>1
<1>4. IsSeq(TagsOf(json))
  BY <1>1, <1>3 DEF IsLoad, FileOK
<1> HIDE DEF json
<1>5. CASE LoadFails(json)
  BY <1>2, <1>5, LoadEnds DEF LoadFails
<1>6. CASE LoadSkips(json)
  <2>1. load' = [load EXCEPT !.at = @ + 1] /\ UNCHANGED <<objects, balance, reply>>
    BY <1>6 DEF LoadSkips
  <2>2. HeapOK' /\ BalanceOK'
    BY <1>1, <1>2, <2>1, HeapKept
  <2>3. load.at + 1 \in 0 .. Len(load.file)
    BY <1>1, <1>2
  <2>4. LoadOK(load', objects', devices')
    BY <1>1, <1>2, <2>1, <2>3 DEF LoadOK, IsLoad
  <2> QED
    BY <1>1, <1>2, <2>1, <2>2, <2>4, LoadGoesOn DEF CallOK
<1>7. CASE LoadChanges(json)
  BY <1>2, <1>7, LoadChangesTypes
<1>8. CASE LoadKeeps(json)
  BY <1>2, <1>4, <1>8, LoadKeepsTypes
<1> QED
  BY <1>5, <1>6, <1>7, <1>8 DEF LoadEntry, json

LEMMA LoadRemoveTypes ==
  ASSUME TypeInv, LoadRemove
  PROVE  TypeInv'
<1> DEFINE e == Head(load.remove)
<1>1. /\ LoadOK(load, objects, devices) /\ IsLoad(load) /\ reply = Null
      /\ HeapOK /\ BalanceOK /\ done_enumerate \in BOOLEAN
  BY LoadUnderWay DEF LoadRemove, Read
<1>2. /\ load.remove # <<>>
      /\ UNCHANGED <<polling, bus, objects, devices_removed, done_enumerate, hotplug_poll_id, file, reply>>
      /\ devices' = Without(devices, e)
      /\ load' = [[load EXCEPT !.remove = Tail(@)] EXCEPT !.signals = Append(@, <<"device-removed", e>>)]
      /\ balance' = Emit(Len(objects'), << <<"device-removed", e>> >>)
  BY <1>1 DEF LoadRemove, Signal
<1>3. /\ IsSeq(load.remove) /\ IsInjective(load.remove)
      /\ Range(load.remove) \subseteq Range(devices) /\ Range(devices) \subseteq DOMAIN objects
  BY <1>1 DEF LoadOK, ListOK, HeapOK
<1> DEFINE t == Tail(load.remove)
<1>4. /\ IsSeq(t) /\ IsInjective(t) /\ e \notin Range(t)
      /\ Range(load.remove) = {e} \cup Range(t)
  BY <1>2, <1>3, HeadAndTail, RangeTail
<1> HIDE DEF e, t
<1>5. /\ IsSeq(devices_removed') /\ Range(devices_removed') \subseteq DOMAIN objects
      /\ Len(objects') = Len(objects)
  BY <1>1, <1>2 DEF HeapOK
<1>6. HeapOK' /\ BalanceOK' /\ Range(devices') = Range(devices) \ {e}
  BY <1>1, <1>2, <1>3, <1>4, <1>5, ListShrinks
<1>7. LoadOK(load', objects', devices')
  <2>1. load'.remove = t /\ load'.added = load.added /\ IsLoad(load')
    BY <1>1, <1>2 DEF IsLoad, t
  <2> QED
    BY <1>1, <1>2, <1>3, <1>4, <1>6, <2>1 DEF LoadOK, ListOK
<1> QED
  BY <1>1, <1>2, <1>6, <1>7, LoadGoesOn DEF CallOK

LEMMA LoadAddTypes ==
  ASSUME TypeInv, LoadAdd
  PROVE  TypeInv'
<1> DEFINE e == Head(load.added)
           t == Tail(load.added)
           s == << <<"device-added", e>> >>
           N == Len(objects)
<1>1. /\ LoadOK(load, objects, devices) /\ IsLoad(load) /\ reply = Null
      /\ HeapOK /\ BalanceOK /\ done_enumerate \in BOOLEAN
  BY LoadUnderWay DEF LoadAdd, Read
<1>2. /\ load.added # <<>> /\ load.remove = <<>>
      /\ UNCHANGED <<polling, bus, objects, devices_removed, done_enumerate, hotplug_poll_id, file, reply>>
      /\ devices' = Append(devices, e)
      /\ load' = [[load EXCEPT !.added = Tail(@)] EXCEPT !.signals = Append(@, <<"device-added", e>>)]
      /\ balance' = Emit(N, s)
  BY <1>1 DEF LoadAdd, Signal
<1>3. /\ IsSeq(load.added) /\ IsInjective(load.added) /\ Range(load.added) \cap Range(devices) = {}
      /\ Range(load.added) \subseteq DOMAIN objects
      /\ IsSeq(devices) /\ IsInjective(devices) /\ Range(devices) \subseteq DOMAIN objects
  BY <1>1 DEF LoadOK, ListOK, HeapOK
<1>4. /\ IsSeq(t) /\ IsInjective(t) /\ e \notin Range(t)
      /\ Range(load.added) = {e} \cup Range(t)
  BY <1>2, <1>3, HeadAndTail, RangeTail
<1>5. IsSeq(s) /\ IsInjective(s) /\ Range(s) = {<<"device-added", e>>}
  BY OneSignal
<1>6. N \in Nat /\ DOMAIN objects = 1 .. N
  BY <1>1, IsSeqOfElements DEF HeapOK, ObjectsOK, IsSeq
<1> HIDE DEF e, t, s, N
<1>7. e \in DOMAIN objects /\ e \notin Range(devices)
  BY <1>3, <1>4
<1>8. IsSeq(devices') /\ IsInjective(devices') /\ Range(devices') = Range(devices) \cup {e}
  BY <1>2, <1>3, <1>7, AppendIsSeq, RangeAppend
<1>9. \A k : /\ <<"device-added", k>> \in Range(s) <=> k = e
             /\ <<"device-removed", k>> \notin Range(s)
  BY <1>5
<1> DEFINE after == Range(devices')
<1>10. N \in Nat /\ Len(objects) <= N /\ Says(s, Range(devices), after, N)
  <2>1. Says(s, Range(devices), after, N)
    BY <1>5, <1>7, <1>8, <1>9 DEF Says
  <2>2. Len(objects) <= N
    BY <1>6 DEF N
  <2> QED
    BY <1>6, <2>1, <2>2
<1> HIDE DEF after
<1>11. Emit(N, s) = [k \in 1 .. N |-> IF k \in after THEN 1 ELSE 0]
  BY <1>1, <1>10, EmitAddsUp
<1>12. HeapOK' /\ BalanceOK'
  BY <1>1, <1>2, <1>3, <1>6, <1>7, <1>8, <1>11 DEF after, HeapOK, ListOK, BalanceOK, Balance
<1>13. LoadOK(load', objects', devices')
  <2>1. load'.remove = load.remove /\ load'.added = t /\ IsLoad(load')
    BY <1>1, <1>2 DEF IsLoad, t
  <2> QED
    BY <1>1, <1>2, <1>3, <1>4, <1>8, <2>1 DEF LoadOK, ListOK
<1> QED
  BY <1>1, <1>2, <1>12, <1>13, LoadGoesOn DEF CallOK

LEMMA RestartTypes ==
  ASSUME TypeInv, Restart
  PROVE  TypeInv'
<1>1. /\ Idle /\ UNCHANGED <<polling, bus, objects, file>> /\ load' = Null
      /\ devices' = <<>> /\ devices_removed' = <<>> /\ done_enumerate' = FALSE
      /\ hotplug_poll_id' = FALSE /\ balance' = [i \in DOMAIN objects |-> 0]
  BY DEF Restart, Start
<1>2. IsSeq(<<>>) /\ IsInjective(<<>>) /\ Range(<<>>) = {}
  BY OneSignal
<1>3. HeapOK'
  BY <1>1, <1>2 DEF TypeInv, HeapOK, ListOK
<1>4. BalanceOK'
  BY <1>1, <1>2 DEF BalanceOK, Balance
<1> QED
  BY <1>1, <1>3, <1>4, StillIdle DEF TypeInv, FilesOK, Flags, Idle

-----------------------------------------------------------------------------
(* The types hold.                                                         *)

LEMMA InitTypes ==
  ASSUME Init
  PROVE  TypeInv
<1>1. IsSeq(<<>>) /\ IsInjective(<<>>) /\ Range(<<>>) = {} /\ DOMAIN <<>> = {}
  BY OneSignal, EmptyList
<1>2. HeapOK
  BY <1>1 DEF Init, HeapOK, ObjectsOK, ListOK
<1>3. BalanceOK
  BY <1>1 DEF Init, BalanceOK, Balance
<1> QED
  BY <1>2, <1>3 DEF Init, TypeInv, FilesOK, CallOK, Idle

LEMMA NextTypes ==
  ASSUME LoadAssumption, TypeInv, [Next]_vars
  PROVE  TypeInv'
<1>1. ASSUME NEW d \in Devices, Plug(d)
      PROVE  TypeInv'
  BY <1>1, PlugTypes
<1>2. ASSUME NEW d \in Devices, Unplug(d)
      PROVE  TypeInv'
  BY <1>2, UnplugTypes
<1>3. CASE Rescan
  BY <1>3, RescanTypes
<1>4. CASE Enumerate
  BY <1>4, EnumerateTypes
<1>5. ASSUME NEW i \in Range(devices), NEW key \in Keys, Request(i, key)
      PROVE  TypeInv'
  BY <1>5, RequestTypes
<1>6. ASSUME NEW i \in Range(devices), NEW tag \in Tags, AddTag(i, tag)
      PROVE  TypeInv'
  BY <1>6, AddTagTypes
<1>7. ASSUME NEW i \in Range(devices), NEW tag \in Tags, RemoveTag(i, tag)
      PROVE  TypeInv'
  BY <1>7, RemoveTagTypes
<1>8. ASSUME NEW tag \in Tags \cup {Null}, Save(tag)
      PROVE  TypeInv'
  BY <1>8, SaveTypes
<1>9. ASSUME NEW tag \in Tags \cup {Null}, NEW f \in Files, LoadStart(f, tag)
      PROVE  TypeInv'
  BY <1>9, LoadStartTypes
<1>10. CASE LoadNothing
  BY <1>10, LoadNothingTypes
<1>11. CASE LoadEntry
  BY <1>11, LoadEntryTypes
<1>12. CASE LoadRemove
  BY <1>12, LoadRemoveTypes
<1>13. CASE LoadAdd
  BY <1>13, LoadAddTypes
<1>14. CASE LoadReturn
  BY <1>14, LoadEnds DEF LoadReturn, heap
<1>15. CASE Restart
  BY <1>15, RestartTypes
<1>16. CASE UNCHANGED vars
  <2>1. HeapOK' /\ BalanceOK'
    BY <1>16, HeapKept DEF TypeInv, vars, heap
  <2> QED
    BY <1>16, <2>1 DEF vars, heap, calls, TypeInv, FilesOK, CallOK, Idle
<1> QED
  BY <1>1, <1>2, <1>3, <1>4, <1>5, <1>6, <1>7, <1>8, <1>9, <1>10, <1>11, <1>12, <1>13, <1>14, <1>15,
     <1>16 DEF Next

LEMMA SpecTypes == Spec => []TypeInv
<1>1. Init => TypeInv
  BY InitTypes
<1>2. TypeInv /\ [Next]_vars => TypeInv'
  BY NextTypes, LoadAssumption
<1> QED
  BY <1>1, <1>2, PTL DEF Spec

LEMMA TypesHold ==
  ASSUME TypeInv
  PROVE  TypeOK
<1>1. /\ Range(devices) \cup Range(devices_removed) \subseteq DOMAIN objects
      /\ \A i \in DOMAIN objects : objects[i].device # Null => IsInjective(objects[i].tags)
  BY DEF TypeInv, HeapOK, ListOK, ObjectsOK, ObjectOK
<1>2. balance \in [DOMAIN objects -> {0, 1}]
  BY DEF TypeInv, BalanceOK, Balance
<1>3. ~Idle => /\ Range(load.remove) \subseteq Range(devices)
               /\ Range(load.added) \subseteq DOMAIN objects \ Range(devices)
  BY DEF TypeInv, CallOK, LoadOK, ListOK
<1> QED
  BY <1>1, <1>2, <1>3 DEF TypeInv, TypeOK

\* The types hold: every number is the place of an object, no device has a tag twice
\* but one of a file, and a load removes what is listed and adds what is not.
THEOREM LoadTypes == Spec => []TypeOK
BY SpecTypes, TypesHold, PTL

LEMMA BalanceHolds ==
  ASSUME TypeInv
  PROVE  SignalsBalance
<1> SUFFICES ASSUME NEW i \in DOMAIN balance
             PROVE  Cardinality({n \in DOMAIN devices : devices[n] = i}) = balance[i]
  BY DEF SignalsBalance
<1>1. IsSeq(devices) /\ IsInjective(devices)
  BY DEF TypeInv, HeapOK, ListOK
<1>2. Cardinality({n \in DOMAIN devices : devices[n] = i}) = IF i \in Range(devices) THEN 1 ELSE 0
  BY <1>1, CountOnce
<1> QED
  BY <1>2 DEF TypeInv, BalanceOK, Balance

\* An object is on the list once if its last signal was device-added, and is not on it
\* otherwise: loads, scans, hotplug events and polls all keep the books.
THEOREM SignalsBalanced == Spec => []SignalsBalance
BY SpecTypes, BalanceHolds, PTL

-----------------------------------------------------------------------------
(* What a load under way has done so far.                                  *)

\* The device of the n-th object of a file, which may be meant.
Entry(f, n) == LoadDevice(f[n], Null)
IsMeant(f, n, tag) == Tagged(Entry(f, n).tags, tag)

\* The devices among the first k that are meant.
MeantUpTo(f, k, tag) ==
  Select([n \in 1 .. k |-> Entry(f, n)], {d \in {Entry(f, n) : n \in 1 .. k} : Tagged(d.tags, tag)})

\* A file that can be read and has no two of the devices that are meant alike.
Orderly(f, tag) == (\A n \in DOMAIN f : Loadable(f[n])) /\ Plain(Meant(f, tag))

\* What will be listed once those to be removed are gone and those to be added there.
Rest(l, devs) == (Range(devs) \ Range(l.remove)) \cup Range(l.added)

\* An object that was there before has at most new events, from one of the first k
\* objects of the file.
Rewritten(o, was, f, k) ==
  \/ o = was
  \/ \E n \in 1 .. k :
       LET d == LoadDevice(f[n], o.created)
       IN Loadable(f[n]) /\ Key(d) = Key(o) /\ o = [was EXCEPT !.events = d.events]

\* The objects that were there before, and what has become of the list.
Kept(l, objs, devs) ==
  LET b == l.before
  IN /\ b = [devices |-> b.devices, objects |-> b.objects]
     /\ ObjectsOK(b.objects) /\ ListOK(b.devices, b.objects)
     /\ DOMAIN b.objects \subseteq DOMAIN objs
     /\ \A i \in DOMAIN b.objects : Rewritten(objs[i], b.objects[i], l.file, l.at)
     /\ \A n \in 1 .. l.at : Loadable(l.file[n])
     /\ l.at < Len(l.file) => devs = b.devices
     /\ Untagged(devs, objs, l.tag) = Untagged(b.devices, b.objects, l.tag)
     /\ \A i \in Range(l.remove) \cup Range(l.added) : Tagged(objs[i].tags, l.tag)

\* The rest is what the first k objects of the file say, if the file is orderly.
Outcome(rest, objs, f, k, tag) ==
  Orderly(f, tag) =>
    /\ \A i \in rest : Tagged(objs[i].tags, tag) =>
         \E n \in 1 .. k : IsMeant(f, n, tag) /\ Content(objs[i]) = Content(Entry(f, n))
    /\ \A n \in 1 .. k : IsMeant(f, n, tag) =>
         \E i \in rest : Content(objs[i]) = Content(Entry(f, n))
    /\ \A i, j \in rest :
         /\ Tagged(objs[i].tags, tag) /\ Tagged(objs[j].tags, tag)
         /\ Key(objs[i]) = Key(objs[j])
         => i = j

\* Nothing was added or removed, and what will be removed is still to come in the file.
Quiet(l, devs) ==
  LET b == l.before
      ids == [n \in DOMAIN b.devices |-> b.objects[b.devices[n]].platform_id]
  IN l.again /\ Orderly(l.file, l.tag) /\ IsInjective(ids) =>
       /\ devs = b.devices /\ l.added = <<>>
       /\ \A n \in DOMAIN l.file : IsMeant(l.file, n, l.tag) =>
            \E i \in Range(b.devices) : Key(b.objects[i]) = Key(Entry(l.file, n))
       /\ \A i \in Range(l.remove) : \E n \in l.at + 1 .. Len(l.file) :
            IsMeant(l.file, n, l.tag) /\ Key(b.objects[i]) = Key(Entry(l.file, n))
       /\ Len(l.signals) = Len(MeantUpTo(l.file, l.at, l.tag))
       /\ \A n \in DOMAIN l.signals : l.signals[n][1] = "device-changed"

\* What a load under way knows.
LoadInv(l, objs, devs) ==
  /\ Kept(l, objs, devs) /\ IsSeq(l.signals)
  /\ Outcome(Rest(l, devs), objs, l.file, l.at, l.tag)
  /\ Quiet(l, devs)

\* What a load that succeeded left.
Done(r) ==
  r.ok => /\ FileOK(r.file)
          /\ Outcome(Range(devices), objects, r.file, Len(r.file), r.tag)

KeptInv ==
  /\ ~Idle => LoadInv(load, objects, devices)
  /\ Loaded => Done(reply)
  /\ LoadReplaces /\ ReloadIsQuiet /\ UntaggedStay /\ BadFileRefused

-----------------------------------------------------------------------------
(* The devices of a file that are meant.                                   *)

\* Sequences of the same elements, each once, are equally long.
LEMMA SameLength ==
  ASSUME NEW s, IsSeq(s), IsInjective(s), NEW t, IsSeq(t), IsInjective(t), Range(s) = Range(t)
  PROVE  Len(s) = Len(t)
<1>1. ASSUME NEW u, IsSeq(u), IsInjective(u)
      PROVE  Cardinality(Range(u)) = Len(u)
  <2>1. u = [i \in 1 .. Len(u) |-> u[i]] /\ Len(u) \in Nat /\ DOMAIN u = 1 .. Len(u)
    BY <1>1, ElementsAreRange DEF IsSeq
  <2> DEFINE N == Len(u)
  <2>2. \A i, j \in 1 .. N : u[i] = u[j] => i = j
    BY <1>1, <2>1 DEF IsInjective
  <2>3. \A y \in Range(u) : \E i \in 1 .. N : u[i] = y
    BY <2>1 DEF Range
  <2>4. u \in [1 .. N -> Range(u)]
    BY <2>1 DEF Range
  <2> HIDE DEF N
  <2>5. u \in Bijection(1 .. N, Range(u))
    BY <2>2, <2>3, <2>4 DEF Bijection, Injection, Surjection, IsInjective
  <2>6. ExistsBijection(1 .. N, Range(u))
    BY <2>5 DEF ExistsBijection
  <2>7. N \in Nat
    BY <2>1 DEF N
  <2>8. Cardinality(Range(u)) = N
    BY <2>6, <2>7, FS_CountingElements
  <2> QED
    BY <2>8 DEF N
<1> QED
  BY <1>1

LEMMA FileIsSeq ==
  ASSUME NEW f, FileOK(f)
  PROVE  DOMAIN f = 1 .. Len(f) /\ Len(f) \in Nat
BY ElementsAreRange DEF FileOK

\* The devices that are meant, and where they come from.
LEMMA MeantElements ==
  ASSUME NEW f, FileOK(f), NEW tag
  PROVE  /\ IsSeq(Meant(f, tag))
         /\ Range(Meant(f, tag)) = {Entry(f, n) : n \in {m \in DOMAIN f : IsMeant(f, m, tag)}}
         /\ \A m, n \in DOMAIN f : m # n /\ IsMeant(f, m, tag) /\ IsMeant(f, n, tag) =>
              \E i, j \in DOMAIN Meant(f, tag) :
                i # j /\ Meant(f, tag)[i] = Entry(f, m) /\ Meant(f, tag)[j] = Entry(f, n)
         /\ Meant(f, tag) = MeantUpTo(f, Len(f), tag)
<1> DEFINE ds == [n \in DOMAIN f |-> Entry(f, n)]
           T == {d \in Range(ds) : Tagged(d.tags, tag)}
<1>1. Meant(f, tag) = Select(ds, T)
  BY DEF Meant, Entry
<1>2. DOMAIN f = 1 .. Len(f) /\ Len(f) \in Nat
  BY FileIsSeq
<1>3. /\ Range(ds) = {Entry(f, n) : n \in DOMAIN f}
      /\ DOMAIN ds = DOMAIN f /\ \A n \in DOMAIN f : ds[n] = Entry(f, n)
  BY DEF Range
<1>4. Meant(f, tag) = MeantUpTo(f, Len(f), tag)
  BY <1>1, <1>2, <1>3 DEF MeantUpTo
<1>5. IsSeq(ds)
  <2>1. ds = [n \in 1 .. Len(f) |-> ds[n]]
    BY <1>2
  <2> HIDE DEF ds
  <2> QED
    BY <1>2, <2>1, FunctionIsSeq
<1>6. \A d : d \in T <=> d \in Range(ds) /\ Tagged(d.tags, tag)
  OBVIOUS
<1> HIDE DEF ds, T
<1>7. IsSeq(Meant(f, tag)) /\ Range(Meant(f, tag)) = Range(ds) \cap T
  BY <1>1, <1>5, SelectIsSeq
<1>8. \A m \in DOMAIN f : IsMeant(f, m, tag) <=> Entry(f, m) \in T
  BY <1>3, <1>6 DEF IsMeant
<1>9. \A m, n \in DOMAIN ds : m # n /\ ds[m] \in T /\ ds[n] \in T =>
        \E i, j \in DOMAIN Select(ds, T) :
          i # j /\ Select(ds, T)[i] = ds[m] /\ Select(ds, T)[j] = ds[n]
  BY <1>5, SelectPlaces
<1>10. \A m, n \in DOMAIN f : m # n /\ IsMeant(f, m, tag) /\ IsMeant(f, n, tag) =>
         \E i, j \in DOMAIN Meant(f, tag) :
           i # j /\ Meant(f, tag)[i] = Entry(f, m) /\ Meant(f, tag)[j] = Entry(f, n)
  BY <1>1, <1>3, <1>8, <1>9
<1>11. Range(Meant(f, tag)) = {Entry(f, n) : n \in {m \in DOMAIN f : IsMeant(f, m, tag)}}
  BY <1>3, <1>7, <1>8
<1> QED
  BY <1>4, <1>7, <1>10, <1>11

\* One more object of the file.
LEMMA MeantGrows ==
  ASSUME NEW f, NEW tag, NEW k \in Nat
  PROVE  /\ MeantUpTo(f, 0, tag) = <<>> /\ IsSeq(MeantUpTo(f, k, tag))
         /\ MeantUpTo(f, k + 1, tag) =
              IF IsMeant(f, k + 1, tag) THEN Append(MeantUpTo(f, k, tag), Entry(f, k + 1))
              ELSE MeantUpTo(f, k, tag)
<1> DEFINE p(n) == [m \in 1 .. n |-> Entry(f, m)]
           T(n) == {d \in {Entry(f, m) : m \in 1 .. n} : Tagged(d.tags, tag)}
           e == Entry(f, k + 1)
<1>1. \A n : MeantUpTo(f, n, tag) = Select(p(n), T(n))
  BY DEF MeantUpTo
<1>2. MeantUpTo(f, 0, tag) = <<>>
  <2>1. p(0) = <<>>
    OBVIOUS
  <2> HIDE DEF p, T
  <2>2. Select(<<>>, T(0)) = <<>>
    BY SelectEmpty
  <2> QED
    BY <1>1, <2>1, <2>2
<1>3. IsSeq(p(k)) /\ DOMAIN p(k) = 1 .. k
  <2> DEFINE q == p(k)
  <2>1. q = [m \in 1 .. k |-> q[m]]
    OBVIOUS
  <2> HIDE DEF q
  <2>2. IsSeq(q) /\ DOMAIN q = 1 .. k
    BY <2>1, FunctionIsSeq
  <2> QED
    BY <2>2 DEF q
<1>4. p(k + 1) = Append(p(k), e)
  <2> DEFINE q == p(k + 1)
  <2>1. q = [m \in 1 .. k + 1 |-> q[m]] /\ p(k) = [m \in 1 .. k |-> q[m]] /\ q[k + 1] = e
    OBVIOUS
  <2>2. [m \in 1 .. k + 1 |-> q[m]] = Append([m \in 1 .. k |-> q[m]], q[k + 1])
    <3> HIDE DEF q
    <3> QED
      BY AppendIsPart
  <2> HIDE DEF q, p, e
  <2>3. q = Append(p(k), e)
    BY <2>1, <2>2
  <2> QED
    BY <2>3 DEF q
<1>5. /\ \A x : x \in Range(p(k)) => (x \in T(k + 1) <=> x \in T(k))
      /\ e \in T(k + 1) <=> IsMeant(f, k + 1, tag)
  <2>1. \A m \in 1 .. k : m \in 1 .. k + 1
    OBVIOUS
  <2>2. k + 1 \in 1 .. k + 1
    OBVIOUS
  <2>3. Range(p(k)) = {Entry(f, m) : m \in 1 .. k}
    BY DEF Range
  <2> QED
    BY <2>1, <2>2, <2>3 DEF IsMeant
<1> HIDE DEF p, T, e
<1>6. Select(p(k), T(k + 1)) = Select(p(k), T(k))
  <2>1. Range(p(k)) \cap T(k + 1) = Range(p(k)) \cap T(k)
    BY <1>5
  <2> QED
    BY <1>3, <2>1, SelectSame
<1>7. Select(Append(p(k), e), T(k + 1)) =
        IF e \in T(k + 1) THEN Append(Select(p(k), T(k + 1)), e) ELSE Select(p(k), T(k + 1))
  <2> DEFINE q == p(k)
             S == T(k + 1)
  <2>1. IsSeq(q)
    BY <1>3
  <2> HIDE DEF q, S
  <2>2. Select(Append(q, e), S) = IF e \in S THEN Append(Select(q, S), e) ELSE Select(q, S)
    BY <2>1, SelectAppend
  <2> QED
    BY <2>2 DEF q, S
<1>8. IsSeq(MeantUpTo(f, k, tag))
  BY <1>1, <1>3, SelectIsSeq
<1>9. MeantUpTo(f, k + 1, tag) =
        IF IsMeant(f, k + 1, tag) THEN Append(MeantUpTo(f, k, tag), e) ELSE MeantUpTo(f, k, tag)
  BY <1>1, <1>4, <1>5, <1>6, <1>7
<1> QED
  BY <1>2, <1>8, <1>9 DEF e

\* In an orderly file those that are meant have their dates and are no two alike.
LEMMA MeantApart ==
  ASSUME NEW f, FileOK(f), NEW tag, Orderly(f, tag), NEW n \in DOMAIN f, IsMeant(f, n, tag)
  PROVE  /\ \A now : LoadDevice(f[n], now) = Entry(f, n)
         /\ \A m \in DOMAIN f : m # n /\ IsMeant(f, m, tag) => Key(Entry(f, m)) # Key(Entry(f, n))
<1> DEFINE ds == Meant(f, tag)
           keys == [i \in DOMAIN ds |-> Key(ds[i])]
<1>1. IsInjective(keys) /\ \A i \in DOMAIN ds : ds[i].created # Null
  BY DEF Orderly, Plain
<1>2. Entry(f, n).created # Null
  <2>1. Entry(f, n) \in Range(ds)
    BY MeantElements
  <2> HIDE DEF ds
  <2> QED
    BY <1>1, <2>1 DEF Range
<1>3. "Created" \in DOMAIN f[n]
  BY <1>2 DEF Entry, LoadDevice
<1>4. \A now : LoadDevice(f[n], now) = Entry(f, n)
  BY <1>3 DEF Entry, LoadDevice
<1>5. ASSUME NEW m \in DOMAIN f, m # n, IsMeant(f, m, tag)
      PROVE  Key(Entry(f, m)) # Key(Entry(f, n))
  <2>1. PICK i, j \in DOMAIN ds : i # j /\ ds[i] = Entry(f, m) /\ ds[j] = Entry(f, n)
    BY <1>5, MeantElements
  <2> HIDE DEF ds
  <2>2. keys[i] # keys[j]
    BY <1>1, <2>1 DEF IsInjective
  <2> QED
    BY <2>1, <2>2
<1> QED
  BY <1>4, <1>5

-----------------------------------------------------------------------------
(* One object of the file.                                                 *)

LEMMA WithoutRange ==
  ASSUME NEW s, IsSeq(s), NEW e
  PROVE  IsSeq(Without(s, e)) /\ Range(Without(s, e)) = Range(s) \ {e}
<1> DEFINE T == Range(s) \ {e}
<1>1. Without(s, e) = Select(s, T)
  BY DEF Without
<1> HIDE DEF T
<1>2. IsSeq(Select(s, T)) /\ Range(Select(s, T)) = Range(s) \cap T
  BY SelectIsSeq
<1> QED
  BY <1>1, <1>2 DEF T

\* New events are all that is new.
LEMMA RewrittenSame ==
  ASSUME NEW o, NEW was, ObjectOK(was), NEW f, NEW k, Rewritten(o, was, f, k)
  PROVE  o.tags = was.tags /\ o.platform_id = was.platform_id /\ o.created = was.created
         /\ o = [was EXCEPT !.events = o.events]
<1>1. CASE o = was
  BY <1>1 DEF ObjectOK
<1>2. CASE o # was
  <2>1. PICK e : o = [was EXCEPT !.events = e]
    BY <1>2 DEF Rewritten
  <2> QED
    BY <2>1 DEF ObjectOK
<1> QED
  BY <1>1, <1>2

LEMMA RewrittenMore ==
  ASSUME NEW o, NEW was, NEW f, NEW k \in Nat, Rewritten(o, was, f, k)
  PROVE  Rewritten(o, was, f, k + 1)
<1>1. \A n \in 1 .. k : n \in 1 .. k + 1
  OBVIOUS
<1> QED
  BY <1>1 DEF Rewritten

\* The date that an object is made with if the file has none changes nothing else.
LEMMA LoadAtAnyTime ==
  ASSUME NEW json, NEW now, NEW then
  PROVE  /\ LoadDevice(json, now).tags = LoadDevice(json, then).tags
         /\ LoadDevice(json, now).platform_id = LoadDevice(json, then).platform_id
         /\ LoadDevice(json, now).events = LoadDevice(json, then).events
         /\ LoadDevice(json, LoadDevice(json, now).created).created = LoadDevice(json, now).created
BY DEF LoadDevice

\* An object of the file that is not meant, and one that is.
LEMMA OutcomeSkips ==
  ASSUME NEW f, NEW tag, NEW k \in Nat, ~IsMeant(f, k + 1, tag), NEW objs, NEW rest,
         Outcome(rest, objs, f, k, tag)
  PROVE  Outcome(rest, objs, f, k + 1, tag)
<1>1. \A n : n \in 1 .. k + 1 <=> n \in 1 .. k \/ n = k + 1
  OBVIOUS
<1> QED
  BY <1>1 DEF Outcome

LEMMA SameContent ==
  ASSUME NEW o, NEW d, Content(o) = Content(d)
  PROVE  Key(o) = Key(d)
BY DEF Content, Key

LEMMA OutcomeGrows ==
  ASSUME NEW f, FileOK(f), NEW tag, NEW k \in Nat, k + 1 \in DOMAIN f, IsMeant(f, k + 1, tag),
         NEW rest, NEW i, NEW objs, Outcome(rest, objs, f, k, tag),
         NEW new, \A j \in rest : j # i => new[j] = objs[j],
         i \in rest => Key(new[i]) = Key(objs[i]),
         Orderly(f, tag) => Content(new[i]) = Content(Entry(f, k + 1))
  PROVE  Outcome(rest \cup {i}, new, f, k + 1, tag)
<1> SUFFICES ASSUME Orderly(f, tag)
             PROVE  Outcome(rest \cup {i}, new, f, k + 1, tag)
  BY DEF Outcome
<1> DEFINE n == k + 1
<1>1. \A m : m \in 1 .. n <=> m \in 1 .. k \/ m = n
  OBVIOUS
<1>2. \A m \in 1 .. k : m \in DOMAIN f /\ m # n
  <2>1. DOMAIN f = 1 .. Len(f) /\ Len(f) \in Nat
    BY FileIsSeq
  <2> QED
    BY <2>1
<1> HIDE DEF n
<1>3. n \in DOMAIN f /\ IsMeant(f, n, tag) /\ Content(new[i]) = Content(Entry(f, n))
  BY DEF n
<1>4. Key(new[i]) = Key(Entry(f, n))
  BY <1>3, SameContent
<1>5. \A m \in 1 .. k : IsMeant(f, m, tag) => Key(Entry(f, m)) # Key(new[i])
  BY <1>2, <1>3, <1>4, MeantApart
<1>6. /\ \A j \in rest : Tagged(objs[j].tags, tag) =>
           \E m \in 1 .. k : IsMeant(f, m, tag) /\ Content(objs[j]) = Content(Entry(f, m))
      /\ \A m \in 1 .. k : IsMeant(f, m, tag) =>
           \E j \in rest : Content(objs[j]) = Content(Entry(f, m))
      /\ \A j, h \in rest :
           /\ Tagged(objs[j].tags, tag) /\ Tagged(objs[h].tags, tag)
           /\ Key(objs[j]) = Key(objs[h])
           => j = h
  BY DEF Outcome
<1>7. ASSUME NEW j \in rest \cup {i}, Tagged(new[j].tags, tag)
      PROVE  \E m \in 1 .. n : IsMeant(f, m, tag) /\ Content(new[j]) = Content(Entry(f, m))
  <2>1. CASE j = i
    BY <1>1, <1>3, <2>1
  <2>2. CASE j # i
    BY <1>1, <1>6, <1>7, <2>2
  <2> QED
    BY <2>1, <2>2
<1>8. ASSUME NEW m \in 1 .. n, IsMeant(f, m, tag)
      PROVE  \E j \in rest \cup {i} : Content(new[j]) = Content(Entry(f, m))
  <2>1. CASE m = n
    BY <1>3, <2>1
  <2>2. CASE m \in 1 .. k
    <3>1. PICK j \in rest : Content(objs[j]) = Content(Entry(f, m))
      BY <1>6, <1>8, <2>2
    <3>2. Key(objs[j]) # Key(new[i])
      BY <1>5, <1>8, <2>2, <3>1, SameContent
    <3>3. j # i
      BY <3>1, <3>2
    <3> QED
      BY <3>1, <3>3
  <2> QED
    BY <1>1, <2>1, <2>2
<1>9. ASSUME NEW j \in rest, j # i, Tagged(new[j].tags, tag)
      PROVE  Key(new[j]) # Key(new[i])
  <2>1. new[j] = objs[j]
    BY <1>9
  <2>2. PICK m \in 1 .. k : IsMeant(f, m, tag) /\ Content(objs[j]) = Content(Entry(f, m))
    BY <1>6, <1>9, <2>1
  <2> QED
    BY <1>5, <2>1, <2>2, SameContent
<1>10. ASSUME NEW j \in rest \cup {i}, NEW h \in rest \cup {i},
              Tagged(new[j].tags, tag), Tagged(new[h].tags, tag), Key(new[j]) = Key(new[h])
       PROVE  j = h
  <2>1. CASE j = i \/ h = i
    BY <1>9, <1>10, <2>1
  <2>2. CASE j # i /\ h # i
    BY <1>6, <1>10, <2>2
  <2> QED
    BY <2>1, <2>2
<1> QED
  BY <1>7, <1>8, <1>10 DEF Outcome, n

\* The platform ids of the devices that were listed before.
Ids(b) == [n \in DOMAIN b.devices |-> b.objects[b.devices[n]].platform_id]

\* Devices that have the same id are one.
LEMMA IdsApart ==
  ASSUME NEW b, IsInjective(Ids(b)), NEW i \in Range(b.devices), NEW j \in Range(b.devices),
         b.objects[i].platform_id = b.objects[j].platform_id
  PROVE  i = j
<1>1. PICK m \in DOMAIN b.devices : b.devices[m] = i
  BY DEF Range
<1>2. PICK n \in DOMAIN b.devices : b.devices[n] = j
  BY DEF Range
<1>3. Ids(b)[m] = Ids(b)[n]
  BY <1>1, <1>2 DEF Ids
<1>4. m = n
  BY <1>3 DEF IsInjective, Ids
<1> QED
  BY <1>1, <1>2, <1>4

\* What a load that is quiet knows.
LEMMA QuietKnows ==
  ASSUME NEW l, NEW devs, Quiet(l, devs), l.again, Orderly(l.file, l.tag),
         IsInjective(Ids(l.before))
  PROVE  /\ devs = l.before.devices /\ l.added = <<>>
         /\ \A n \in DOMAIN l.file : IsMeant(l.file, n, l.tag) =>
              \E i \in Range(l.before.devices) :
                Key(l.before.objects[i]) = Key(Entry(l.file, n))
         /\ \A i \in Range(l.remove) : \E n \in l.at + 1 .. Len(l.file) :
              IsMeant(l.file, n, l.tag) /\ Key(l.before.objects[i]) = Key(Entry(l.file, n))
         /\ Len(l.signals) = Len(MeantUpTo(l.file, l.at, l.tag))
         /\ \A n \in DOMAIN l.signals : l.signals[n][1] = "device-changed"
BY DEF Quiet, Ids

\* An object of the file that is not meant.
LEMMA QuietSkips ==
  ASSUME NEW l, IsLoad(l), NEW devs, Quiet(l, devs), ~IsMeant(l.file, l.at + 1, l.tag),
         NEW new, new = [l EXCEPT !.at = @ + 1]
  PROVE  Quiet(new, devs)
<1>1. /\ new.file = l.file /\ new.tag = l.tag /\ new.before = l.before /\ new.again = l.again
      /\ new.remove = l.remove /\ new.added = l.added /\ new.signals = l.signals
      /\ new.at = l.at + 1
  BY DEF IsLoad
<1>2. l.at \in Nat
  BY FileIsSeq DEF IsLoad
<1> SUFFICES ASSUME l.again, Orderly(l.file, l.tag), IsInjective(Ids(l.before))
             PROVE  Quiet(new, devs)
  BY <1>1 DEF Quiet, Ids
<1> DEFINE k == l.at
           N == Len(l.file)
<1>3. \A n \in k + 1 .. N : n = k + 1 \/ n \in (k + 1) + 1 .. N
  BY <1>2, FileIsSeq DEF IsLoad
<1>4. MeantUpTo(l.file, k + 1, l.tag) = MeantUpTo(l.file, k, l.tag)
  BY <1>2, MeantGrows
<1> HIDE DEF k, N
<1>5. /\ devs = l.before.devices /\ l.added = <<>>
      /\ \A n \in DOMAIN l.file : IsMeant(l.file, n, l.tag) =>
           \E i \in Range(l.before.devices) :
             Key(l.before.objects[i]) = Key(Entry(l.file, n))
      /\ \A i \in Range(l.remove) : \E n \in k + 1 .. N :
           IsMeant(l.file, n, l.tag) /\ Key(l.before.objects[i]) = Key(Entry(l.file, n))
      /\ Len(l.signals) = Len(MeantUpTo(l.file, k, l.tag))
      /\ \A n \in DOMAIN l.signals : l.signals[n][1] = "device-changed"
  BY QuietKnows DEF k, N
<1>6. ~IsMeant(l.file, k + 1, l.tag) /\ new.at = k + 1
  BY <1>1 DEF k
<1>7. \A i \in Range(l.remove) : \E n \in (k + 1) + 1 .. N :
        IsMeant(l.file, n, l.tag) /\ Key(l.before.objects[i]) = Key(Entry(l.file, n))
  BY <1>3, <1>5, <1>6
<1> QED
  BY <1>1, <1>4, <1>5, <1>6, <1>7 DEF Quiet, N

\* One that is and changes device i.
LEMMA QuietChanges ==
  ASSUME NEW l, IsLoad(l), IsSeq(l.signals), IsSeq(l.remove), NEW devs, Quiet(l, devs),
         IsMeant(l.file, l.at + 1, l.tag),
         Range(l.remove) \subseteq Range(devs), NEW i \in Range(devs),
         Orderly(l.file, l.tag) => Key(l.before.objects[i]) = Key(Entry(l.file, l.at + 1)),
         NEW new, new = [[l EXCEPT !.at = @ + 1, !.remove = Without(@, i)]
                         EXCEPT !.signals = Append(@, <<"device-changed", i>>)]
  PROVE  Quiet(new, devs)
<1> DEFINE s == <<"device-changed", i>>
           k == l.at
           N == Len(l.file)
           K == Len(l.signals)
<1>1. /\ new.file = l.file /\ new.tag = l.tag /\ new.before = l.before /\ new.again = l.again
      /\ new.remove = Without(l.remove, i) /\ new.added = l.added
      /\ new.signals = Append(l.signals, s) /\ new.at = k + 1
  BY DEF IsLoad
<1>2. k \in Nat /\ N \in Nat
  BY FileIsSeq DEF IsLoad
<1> SUFFICES ASSUME l.again, Orderly(l.file, l.tag), IsInjective(Ids(l.before))
             PROVE  Quiet(new, devs)
  BY <1>1 DEF Quiet, Ids
<1>3. \A n \in k + 1 .. N : n = k + 1 \/ n \in (k + 1) + 1 .. N
  BY <1>2
<1>4. /\ MeantUpTo(l.file, k + 1, l.tag) = Append(MeantUpTo(l.file, k, l.tag), Entry(l.file, k + 1))
      /\ IsSeq(MeantUpTo(l.file, k, l.tag))
  BY <1>2, MeantGrows
<1>5. Range(Without(l.remove, i)) = Range(l.remove) \ {i}
  BY WithoutRange
<1> HIDE DEF k, N, s
<1>6. /\ devs = l.before.devices /\ l.added = <<>>
      /\ \A n \in DOMAIN l.file : IsMeant(l.file, n, l.tag) =>
           \E j \in Range(l.before.devices) :
             Key(l.before.objects[j]) = Key(Entry(l.file, n))
      /\ \A j \in Range(l.remove) : \E n \in k + 1 .. N :
           IsMeant(l.file, n, l.tag) /\ Key(l.before.objects[j]) = Key(Entry(l.file, n))
      /\ Len(l.signals) = Len(MeantUpTo(l.file, k, l.tag))
      /\ \A n \in DOMAIN l.signals : l.signals[n][1] = "device-changed"
  BY QuietKnows DEF k, N
<1>7. Key(l.before.objects[i]) = Key(Entry(l.file, k + 1))
  BY DEF k
<1>8. ASSUME NEW j \in Range(l.remove) \ {i}
      PROVE  \E n \in (k + 1) + 1 .. N :
               IsMeant(l.file, n, l.tag) /\ Key(l.before.objects[j]) = Key(Entry(l.file, n))
  <2>1. PICK n \in k + 1 .. N :
          IsMeant(l.file, n, l.tag) /\ Key(l.before.objects[j]) = Key(Entry(l.file, n))
    BY <1>6
  <2>2. n # k + 1
    <3>1. j \in Range(l.before.devices) /\ i \in Range(l.before.devices) /\ j # i
      BY <1>6
    <3>2. Key(l.before.objects[j]) # Key(l.before.objects[i])
      BY <3>1, IdsApart DEF Key
    <3> QED
      BY <1>7, <2>1, <3>2
  <2> QED
    BY <1>3, <2>1, <2>2
<1>9. Len(Append(l.signals, s)) = Len(MeantUpTo(l.file, k + 1, l.tag))
  <2>1. Len(Append(l.signals, s)) = Len(l.signals) + 1
    BY AppendIsSeq
  <2>2. Len(MeantUpTo(l.file, k + 1, l.tag)) = Len(MeantUpTo(l.file, k, l.tag)) + 1
    BY <1>4, AppendIsSeq
  <2> QED
    BY <1>6, <2>1, <2>2
<1>10. \A n \in DOMAIN Append(l.signals, s) : Append(l.signals, s)[n][1] = "device-changed"
  <2>1. /\ IsSeq(Append(l.signals, s)) /\ Len(Append(l.signals, s)) = K + 1
        /\ \A n \in 1 .. K : Append(l.signals, s)[n] = l.signals[n]
        /\ Append(l.signals, s)[K + 1] = s
    BY AppendIsSeq
  <2>2. K \in Nat /\ DOMAIN l.signals = 1 .. K /\ DOMAIN Append(l.signals, s) = 1 .. K + 1
    BY <2>1, ElementsAreRange
  <2> HIDE DEF K
  <2>3. \A n \in 1 .. K + 1 : n \in 1 .. K \/ n = K + 1
    BY <2>2
  <2>4. s[1] = "device-changed"
    BY DEF s
  <2> QED
    BY <1>6, <2>1, <2>2, <2>3, <2>4
<1> QED
  BY <1>1, <1>4, <1>5, <1>6, <1>8, <1>9, <1>10 DEF Quiet, N

\* What is known when an object of the file is read.
LEMMA LoadReads ==
  ASSUME TypeInv, KeptInv, ~Idle, load.at < Len(load.file), NEW json, json = load.file[load.at + 1]
  PROVE  /\ IsLoad(load) /\ FileOK(load.file) /\ load.at \in Nat /\ load.at + 1 \in DOMAIN load.file
         /\ load.at + 1 <= Len(load.file)
         /\ LoadInv(load, objects, devices) /\ LoadOK(load, objects, devices) /\ HeapOK
         /\ reply = Null
         /\ devices = load.before.devices
         /\ \A now : LET d == LoadDevice(json, now)
                     IN /\ Tagged(d.tags, load.tag) <=> IsMeant(load.file, load.at + 1, load.tag)
                        /\ Orderly(load.file, load.tag)
                           /\ IsMeant(load.file, load.at + 1, load.tag) =>
                             d = Entry(load.file, load.at + 1)
<1>1. /\ LoadOK(load, objects, devices) /\ IsLoad(load) /\ reply = Null /\ HeapOK
  BY LoadUnderWay
<1>2. FileOK(load.file) /\ load.at \in Nat /\ Len(load.file) \in Nat
      /\ DOMAIN load.file = 1 .. Len(load.file)
  BY <1>1, FileIsSeq DEF IsLoad
<1>3. load.at + 1 \in DOMAIN load.file /\ load.at + 1 <= Len(load.file)
  BY <1>2
<1>4. LoadInv(load, objects, devices)
  BY DEF KeptInv
<1>5. devices = load.before.devices
  BY <1>4 DEF LoadInv, Kept
<1>6. ASSUME NEW now
      PROVE  LET d == LoadDevice(json, now)
             IN /\ Tagged(d.tags, load.tag) <=> IsMeant(load.file, load.at + 1, load.tag)
                /\ Orderly(load.file, load.tag) /\ IsMeant(load.file, load.at + 1, load.tag) =>
                     d = Entry(load.file, load.at + 1)
  <2>1. LoadDevice(json, now).tags = Entry(load.file, load.at + 1).tags
    BY LoadAtAnyTime DEF Entry
  <2>2. Orderly(load.file, load.tag) /\ IsMeant(load.file, load.at + 1, load.tag) =>
          LoadDevice(json, now) = Entry(load.file, load.at + 1)
    BY <1>2, <1>3, MeantApart
  <2> QED
    BY <2>1, <2>2 DEF IsMeant
<1> QED
  BY <1>1, <1>2, <1>3, <1>4, <1>5, <1>6

LEMMA LoadSkipsKept ==
  ASSUME TypeInv, KeptInv, ~Idle, load.at < Len(load.file), NEW json, json = load.file[load.at + 1],
         LoadSkips(json), UNCHANGED devices
  PROVE  LoadInv(load', objects', devices')
<1> DEFINE f == load.file
           k == load.at
           tag == load.tag
           b == load.before
<1>1. /\ IsLoad(load) /\ FileOK(f) /\ k \in Nat /\ k + 1 \in DOMAIN f /\ k + 1 <= Len(f)
      /\ LoadInv(load, objects, devices) /\ HeapOK /\ devices = b.devices
  BY LoadReads
<1>2. /\ Loadable(json) /\ load' = [load EXCEPT !.at = @ + 1] /\ UNCHANGED <<objects, devices>>
  BY DEF LoadSkips
<1>3. ~IsMeant(f, k + 1, tag)
  BY LoadReads DEF LoadSkips
<1>4. /\ load'.file = f /\ load'.tag = tag /\ load'.before = b /\ load'.again = load.again
      /\ load'.remove = load.remove /\ load'.added = load.added /\ load'.signals = load.signals
      /\ load'.at = k + 1
  BY <1>1, <1>2 DEF IsLoad
<1>5. Kept(load', objects', devices')
  <2>1. \A n \in 1 .. k + 1 : n \in 1 .. k \/ n = k + 1
    BY <1>1
  <2>2. \A n \in 1 .. k + 1 : Loadable(f[n])
    BY <1>1, <1>2, <2>1 DEF LoadInv, Kept
  <2>3. \A i \in DOMAIN b.objects : Rewritten(objects[i], b.objects[i], f, k + 1)
    BY <1>1, RewrittenMore DEF LoadInv, Kept
  <2> QED
    BY <1>1, <1>2, <1>4, <2>2, <2>3 DEF LoadInv, Kept
<1>6. Outcome(Rest(load', devices'), objects', f, k + 1, tag)
  <2>1. Rest(load', devices') = Rest(load, devices)
    BY <1>2, <1>4 DEF Rest
  <2> QED
    BY <1>1, <1>2, <1>3, <2>1, OutcomeSkips DEF LoadInv
<1>7. Quiet(load', devices')
  BY <1>1, <1>2, <1>3, QuietSkips DEF LoadInv
<1> QED
  BY <1>1, <1>4, <1>5, <1>6, <1>7 DEF LoadInv

LEMMA LoadChangesKept ==
  ASSUME TypeInv, KeptInv, ~Idle, load.at < Len(load.file), NEW json, json = load.file[load.at + 1],
         LoadChanges(json), UNCHANGED devices
  PROVE  LoadInv(load', objects', devices')
<1> DEFINE f == load.file
           k == load.at
           tag == load.tag
           b == load.before
           d == LoadDevice(json, Now)
           i == Existing(d)
<1>1. /\ IsLoad(load) /\ FileOK(f) /\ k \in Nat /\ k + 1 \in DOMAIN f /\ k + 1 <= Len(f)
      /\ LoadInv(load, objects, devices) /\ LoadOK(load, objects, devices) /\ HeapOK
      /\ devices = b.devices
  BY LoadReads
<1>2. /\ Loadable(json) /\ i # 0 /\ objects' = [objects EXCEPT ![i].events = d.events]
      /\ load' = [[load EXCEPT !.at = @ + 1, !.remove = Without(@, i)]
                  EXCEPT !.signals = Append(@, <<"device-changed", i>>)]
      /\ UNCHANGED devices
  BY DEF LoadChanges, Signal
<1>3. IsMeant(f, k + 1, tag) /\ (Orderly(f, tag) => d = Entry(f, k + 1))
  BY LoadReads DEF LoadChanges
<1>4. /\ i \in Range(devices) /\ i \in DOMAIN objects
      /\ objects[i].platform_id = d.platform_id /\ objects[i].created = d.created
  BY <1>1, <1>2, ExistingIsListed
<1>5. /\ load'.file = f /\ load'.tag = tag /\ load'.before = b /\ load'.again = load.again
      /\ load'.remove = Without(load.remove, i) /\ load'.added = load.added
      /\ load'.signals = Append(load.signals, <<"device-changed", i>>) /\ load'.at = k + 1
  BY <1>1, <1>2 DEF IsLoad
<1>6. /\ d.events = LoadDevice(json, d.created).events
      /\ d.platform_id = LoadDevice(json, d.created).platform_id
      /\ d.created = LoadDevice(json, d.created).created
  BY LoadAtAnyTime
<1> HIDE DEF d, i
<1>7. /\ DOMAIN objects' = DOMAIN objects
      /\ \A j \in DOMAIN objects : j # i => objects'[j] = objects[j]
      /\ objects'[i] = [objects[i] EXCEPT !.events = d.events]
  BY <1>2, <1>4
<1>8. /\ objects'[i].platform_id = d.platform_id /\ objects'[i].created = d.created
      /\ objects'[i].tags = objects[i].tags /\ objects'[i].events = d.events
  <2>1. ObjectOK(objects[i])
    BY <1>1, <1>4 DEF HeapOK, ObjectsOK
  <2> QED
    BY <1>4, <1>7, <2>1 DEF ObjectOK
<1>9. \A j \in DOMAIN objects : objects'[j].tags = objects[j].tags
  BY <1>7, <1>8
<1>10. /\ IsSeq(load.remove) /\ Range(load.remove) \subseteq Range(devices)
       /\ Range(load.remove) \subseteq DOMAIN objects /\ Range(load.added) \subseteq DOMAIN objects
       /\ Range(devices) \subseteq DOMAIN objects
  BY <1>1 DEF LoadOK, ListOK, HeapOK
<1>11. IsSeq(load'.remove) /\ Range(load'.remove) = Range(load.remove) \ {i}
  BY <1>5, <1>10, WithoutRange
<1>12. /\ ObjectsOK(b.objects) /\ DOMAIN b.objects \subseteq DOMAIN objects
       /\ ListOK(b.devices, b.objects) /\ IsSeq(load.signals)
       /\ \A j \in DOMAIN b.objects : Rewritten(objects[j], b.objects[j], f, k)
  BY <1>1 DEF LoadInv, Kept
<1>13. i \in DOMAIN b.objects /\ Key(b.objects[i]) = Key(d)
  <2>1. i \in DOMAIN b.objects
    BY <1>1, <1>4, <1>12 DEF ListOK
  <2>2. ObjectOK(b.objects[i]) /\ Rewritten(objects[i], b.objects[i], f, k)
    BY <1>12, <2>1 DEF ObjectsOK
  <2> QED
    BY <1>4, <2>1, <2>2, RewrittenSame DEF Key
<1>14. Kept(load', objects', devices')
  <2>1. \A n \in 1 .. k + 1 : n \in 1 .. k \/ n = k + 1
    BY <1>1
  <2>2. \A n \in 1 .. k + 1 : Loadable(f[n])
    BY <1>1, <1>2, <2>1 DEF LoadInv, Kept
  <2>3. ASSUME NEW j \in DOMAIN b.objects
        PROVE  Rewritten(objects'[j], b.objects[j], f, k + 1)
    <3>1. CASE j # i
      <4>1. objects'[j] = objects[j]
        BY <1>7, <1>12, <3>1
      <4> QED
        BY <1>1, <1>12, <4>1, RewrittenMore
    <3>2. CASE j = i
      <4>1. ObjectOK(b.objects[i]) /\ Rewritten(objects[i], b.objects[i], f, k)
        BY <1>12, <1>13 DEF ObjectsOK
      <4>2. objects[i] = [b.objects[i] EXCEPT !.events = objects[i].events]
        BY <4>1, RewrittenSame
      <4>3. objects'[i] = [b.objects[i] EXCEPT !.events = d.events]
        BY <1>7, <4>1, <4>2 DEF ObjectOK
      <4>4. k + 1 \in 1 .. k + 1
        BY <1>1
      <4>5. LET e == LoadDevice(f[k + 1], objects'[i].created)
            IN /\ Loadable(f[k + 1]) /\ Key(e) = Key(objects'[i])
               /\ objects'[i] = [b.objects[i] EXCEPT !.events = e.events]
        BY <1>2, <1>6, <1>8, <4>3 DEF Key
      <4> QED
        BY <3>2, <4>4, <4>5 DEF Rewritten
    <3> QED
      BY <3>1, <3>2
  <2>4. Untagged(devices', objects', tag) = Untagged(b.devices, b.objects, tag)
    <3>1. {j \in Range(devices) : ~Tagged(objects'[j].tags, tag)} =
          {j \in Range(devices) : ~Tagged(objects[j].tags, tag)}
      BY <1>9, <1>10
    <3>2. Untagged(devices', objects', tag) = Untagged(devices, objects, tag)
      BY <1>2, <3>1 DEF Untagged
    <3> QED
      BY <1>1, <3>2 DEF LoadInv, Kept
  <2>5. \A j \in Range(load'.remove) \cup Range(load'.added) : Tagged(objects'[j].tags, tag)
    BY <1>1, <1>5, <1>9, <1>10, <1>11 DEF LoadInv, Kept
  <2>6. b = [devices |-> b.devices, objects |-> b.objects]
    BY <1>1 DEF LoadInv, Kept
  <2> QED
    BY <1>1, <1>2, <1>5, <1>7, <1>12, <2>2, <2>3, <2>4, <2>5, <2>6 DEF Kept
<1>15. Outcome(Rest(load', devices'), objects', f, k + 1, tag)
  <2> DEFINE rest == Rest(load, devices)
  <2>1. Rest(load', devices') = rest \cup {i}
    BY <1>2, <1>4, <1>5, <1>11 DEF Rest
  <2>2. \A j \in rest : j # i => objects'[j] = objects[j]
    BY <1>7, <1>10 DEF Rest
  <2>3. Key(objects'[i]) = Key(objects[i]) /\ Content(objects'[i]) = Content(d)
    BY <1>4, <1>8 DEF Key, Content
  <2>4. Outcome(rest, objects, f, k, tag)
    BY <1>1 DEF LoadInv
  <2> HIDE DEF rest
  <2>5. Outcome(rest \cup {i}, objects', f, k + 1, tag)
    BY <1>1, <1>3, <2>2, <2>3, <2>4, OutcomeGrows
  <2> QED
    BY <2>1, <2>5
<1>16. Quiet(load', devices')
  <2>1. Orderly(f, tag) => Key(b.objects[i]) = Key(Entry(f, k + 1))
    BY <1>3, <1>13
  <2>2. Quiet(load, devices)
    BY <1>1 DEF LoadInv
  <2> DEFINE new == load'
             devs == devices
  <2>3. /\ IsLoad(load) /\ IsSeq(load.signals) /\ IsSeq(load.remove) /\ Quiet(load, devs)
        /\ IsMeant(load.file, load.at + 1, load.tag)
        /\ Range(load.remove) \subseteq Range(devs) /\ i \in Range(devs)
        /\ Orderly(load.file, load.tag) =>
             Key(load.before.objects[i]) = Key(Entry(load.file, load.at + 1))
        /\ new = [[load EXCEPT !.at = @ + 1, !.remove = Without(@, i)]
                  EXCEPT !.signals = Append(@, <<"device-changed", i>>)]
    BY <1>1, <1>2, <1>3, <1>4, <1>10, <1>12, <2>1, <2>2
  <2> HIDE DEF new, devs
  <2>4. Quiet(new, devs)
    BY <2>3, QuietChanges
  <2> QED
    BY <1>2, <2>4 DEF new, devs
<1>17. IsSeq(load'.signals)
  BY <1>5, <1>12, AppendIsSeq
<1> QED
  BY <1>5, <1>14, <1>15, <1>16, <1>17 DEF LoadInv

\* A device that is listed under a platform id of its own is found.
LEMMA ExistingFound ==
  ASSUME HeapOK, NEW d, NEW i \in Range(devices), Key(objects[i]) = Key(d),
         \A j \in Range(devices) : objects[j].platform_id = objects[i].platform_id => j = i
  PROVE  Existing(d) # 0
<1> DEFINE found == {n \in DOMAIN devices : objects[devices[n]].platform_id = d.platform_id}
<1>1. objects[i].platform_id = d.platform_id /\ objects[i].created = d.created
  BY DEF Key
<1>2. found # {}
  BY <1>1 DEF Range
<1>3. found \subseteq Nat
  <2>1. DOMAIN devices = 1 .. Len(devices)
    BY IsSeqOfElements DEF HeapOK, ListOK
  <2> QED
    BY <2>1
<1>4. Min(found) \in found
  BY <1>2, <1>3, MinIsLeast
<1>5. FindByPlatformId(d.platform_id) = devices[Min(found)]
  BY <1>2 DEF FindByPlatformId
<1>6. devices[Min(found)] = i
  <2> DEFINE n == Min(found)
  <2>1. n \in DOMAIN devices /\ objects[devices[n]].platform_id = d.platform_id
    BY <1>4
  <2> HIDE DEF n, found
  <2>2. devices[n] \in Range(devices)
    BY <2>1 DEF Range
  <2>3. devices[n] = i
    BY <1>1, <2>1, <2>2
  <2> QED
    BY <2>3 DEF n
<1>7. i # 0
  <2>1. i \in DOMAIN objects /\ DOMAIN objects = 1 .. Len(objects)
    BY IsSeqOfElements DEF HeapOK, ListOK, ObjectsOK
  <2> QED
    BY <2>1
<1> QED
  BY <1>1, <1>5, <1>6, <1>7 DEF Existing

\* A load that is quiet finds a device for every object that is meant.
LEMMA QuietFinds ==
  ASSUME HeapOK, LoadInv(load, objects, devices), load.at + 1 \in DOMAIN load.file,
         load.again, Orderly(load.file, load.tag), IsInjective(Ids(load.before)),
         IsMeant(load.file, load.at + 1, load.tag)
  PROVE  Existing(Entry(load.file, load.at + 1)) # 0
<1> DEFINE b == load.before
           d == Entry(load.file, load.at + 1)
<1>1. Kept(load, objects, devices) /\ Quiet(load, devices)
  BY DEF LoadInv
<1>2. devices = b.devices
  BY <1>1, QuietKnows
<1>3. PICK i \in Range(b.devices) : Key(b.objects[i]) = Key(d)
  BY <1>1, QuietKnows
<1>4. \A j \in Range(b.devices) :
        Key(objects[j]) = Key(b.objects[j]) /\ objects[j].platform_id = b.objects[j].platform_id
  <2> TAKE j \in Range(b.devices)
  <2>1. j \in DOMAIN b.objects
    BY <1>1 DEF Kept, ListOK
  <2>2. ObjectOK(b.objects[j]) /\ Rewritten(objects[j], b.objects[j], load.file, load.at)
    BY <1>1, <2>1 DEF Kept, ObjectsOK
  <2> QED
    BY <2>2, RewrittenSame DEF Key
<1> HIDE DEF d
<1>5. \A j \in Range(devices) : objects[j].platform_id = objects[i].platform_id => j = i
  BY <1>2, <1>4, IdsApart
<1>6. Key(objects[i]) = Key(d)
  BY <1>3, <1>4
<1> QED
  BY <1>2, <1>5, <1>6, ExistingFound DEF d

LEMMA LoadKeepsKept ==
  ASSUME TypeInv, KeptInv, ~Idle, load.at < Len(load.file), NEW json, json = load.file[load.at + 1],
         LoadKeeps(json), UNCHANGED devices
  PROVE  LoadInv(load', objects', devices')
<1> DEFINE f == load.file
           k == load.at
           tag == load.tag
           b == load.before
           d == LoadDevice(json, Now)
           o == NewDevice(Null, d.platform_id, d.created, d.tags, d.events)
           i == Len(objects) + 1
<1>1. /\ IsLoad(load) /\ FileOK(f) /\ k \in Nat /\ k + 1 \in DOMAIN f /\ k + 1 <= Len(f)
      /\ LoadInv(load, objects, devices) /\ LoadOK(load, objects, devices) /\ HeapOK
      /\ devices = b.devices
  BY LoadReads
<1>2. /\ Loadable(json) /\ Existing(d) = 0 /\ objects' = Append(objects, o)
      /\ load' = [load EXCEPT !.at = @ + 1, !.added = Append(@, i)]
      /\ Tagged(d.tags, tag) /\ UNCHANGED devices
  BY DEF LoadKeeps, Now
<1>3. IsMeant(f, k + 1, tag) /\ (Orderly(f, tag) => d = Entry(f, k + 1))
  BY <1>2, LoadReads
<1>4. /\ load'.file = f /\ load'.tag = tag /\ load'.before = b /\ load'.again = load.again
      /\ load'.remove = load.remove /\ load'.added = Append(load.added, i)
      /\ load'.signals = load.signals /\ load'.at = k + 1
  BY <1>1, <1>2 DEF IsLoad
<1>5. Content(o) = Content(d) /\ o.tags = d.tags
  BY DEF Content, NewDevice
<1> HIDE DEF d, o
<1>6. /\ DOMAIN objects = 1 .. Len(objects) /\ Len(objects) \in Nat
      /\ DOMAIN objects' = 1 .. Len(objects) + 1 /\ objects'[i] = o
      /\ \A j \in 1 .. Len(objects) : objects'[j] = objects[j]
  BY <1>1, <1>2, AppendIsSeq, ElementsAreRange DEF HeapOK, ObjectsOK
<1>7. i \notin DOMAIN objects /\ DOMAIN objects \subseteq DOMAIN objects'
  BY <1>6
<1>8. /\ Range(load.remove) \subseteq DOMAIN objects /\ Range(load.added) \subseteq DOMAIN objects
      /\ IsSeq(load.added) /\ Range(devices) \subseteq DOMAIN objects
      /\ Range(load.remove) \subseteq Range(devices)
  BY <1>1 DEF LoadOK, ListOK, HeapOK
<1>9. Range(load'.added) = Range(load.added) \cup {i}
  BY <1>4, <1>8, RangeAppend
<1> HIDE DEF i
<1>10. \A j \in DOMAIN objects : objects'[j] = objects[j]
  BY <1>6
<1>11. /\ ObjectsOK(b.objects) /\ DOMAIN b.objects \subseteq DOMAIN objects
       /\ ListOK(b.devices, b.objects) /\ IsSeq(load.signals)
       /\ \A j \in DOMAIN b.objects : Rewritten(objects[j], b.objects[j], f, k)
  BY <1>1 DEF LoadInv, Kept
<1>12. Kept(load', objects', devices')
  <2>1. \A n \in 1 .. k + 1 : n \in 1 .. k \/ n = k + 1
    BY <1>1
  <2>2. \A n \in 1 .. k + 1 : Loadable(f[n])
    BY <1>1, <1>2, <2>1 DEF LoadInv, Kept
  <2>3. \A j \in DOMAIN b.objects : Rewritten(objects'[j], b.objects[j], f, k + 1)
    <3> TAKE j \in DOMAIN b.objects
    <3>1. objects'[j] = objects[j]
      BY <1>10, <1>11
    <3> QED
      BY <1>1, <1>11, <3>1, RewrittenMore
  <2>4. Untagged(devices', objects', tag) = Untagged(b.devices, b.objects, tag)
    <3>1. {j \in Range(devices) : ~Tagged(objects'[j].tags, tag)} =
          {j \in Range(devices) : ~Tagged(objects[j].tags, tag)}
      BY <1>8, <1>10
    <3>2. Untagged(devices', objects', tag) = Untagged(devices, objects, tag)
      BY <1>2, <3>1 DEF Untagged
    <3> QED
      BY <1>1, <3>2 DEF LoadInv, Kept
  <2>5. \A j \in Range(load'.remove) \cup Range(load'.added) : Tagged(objects'[j].tags, tag)
    <3>1. \A j \in Range(load.remove) \cup Range(load.added) : Tagged(objects'[j].tags, tag)
      BY <1>1, <1>8, <1>10 DEF LoadInv, Kept
    <3>2. Tagged(objects'[i].tags, tag)
      BY <1>2, <1>5, <1>6 DEF i
    <3> QED
      BY <1>4, <1>9, <3>1, <3>2
  <2>6. b = [devices |-> b.devices, objects |-> b.objects]
    BY <1>1 DEF LoadInv, Kept
  <2> QED
    BY <1>1, <1>2, <1>4, <1>7, <1>11, <2>2, <2>3, <2>4, <2>5, <2>6 DEF Kept
<1>13. Outcome(Rest(load', devices'), objects', f, k + 1, tag)
  <2> DEFINE rest == Rest(load, devices)
  <2>1. Rest(load', devices') = rest \cup {i}
    BY <1>2, <1>4, <1>9 DEF Rest
  <2>2. rest \subseteq DOMAIN objects
    BY <1>8 DEF Rest
  <2>3. (\A j \in rest : j # i => objects'[j] = objects[j]) /\ i \notin rest
    BY <1>7, <1>10, <2>2 DEF i
  <2>4. Outcome(rest, objects, f, k, tag)
    BY <1>1 DEF LoadInv
  <2>5. Orderly(f, tag) => Content(objects'[i]) = Content(Entry(f, k + 1))
    BY <1>3, <1>5, <1>6 DEF i
  <2> HIDE DEF rest
  <2>6. Outcome(rest \cup {i}, objects', f, k + 1, tag)
    BY <1>1, <1>3, <2>3, <2>4, <2>5, OutcomeGrows
  <2> QED
    BY <2>1, <2>6
<1>14. Quiet(load', devices')
  <2>1. ~(load.again /\ Orderly(f, tag) /\ IsInjective(Ids(b)))
    <3> SUFFICES ASSUME load.again, Orderly(f, tag), IsInjective(Ids(b))
                 PROVE  FALSE
      OBVIOUS
    <3>1. Existing(Entry(f, k + 1)) # 0
      BY <1>1, <1>3, QuietFinds
    <3> QED
      BY <1>2, <1>3, <3>1
  <2> QED
    BY <1>4, <2>1 DEF Quiet, Ids
<1> QED
  BY <1>4, <1>11, <1>12, <1>13, <1>14 DEF LoadInv

-----------------------------------------------------------------------------
(* The other steps of a load.                                              *)

LEMMA LoadStartKept ==
  ASSUME TypeInv, KeptInv, TypeInv', NEW f, NEW tag, LoadStart(f, tag), ~Idle'
  PROVE  LoadInv(load', objects', devices')
<1> DEFINE b == [devices |-> devices, objects |-> objects]
           T == {i \in Range(devices) : Tagged(objects[i].tags, tag)}
<1>1. /\ UNCHANGED <<objects, devices>>
      /\ load'.file = f /\ load'.tag = tag /\ load'.at = 0 /\ load'.added = <<>>
      /\ load'.signals = <<>> /\ load'.before = b
      /\ load'.again = (reply # Null /\ "ok" \in DOMAIN reply /\ reply.ok
                        /\ reply.file = f /\ reply.tag = tag)
      /\ load'.remove = Select(devices, T)
  BY DEF LoadStart, heap, TaggedDevices
<1>2. HeapOK
  BY DEF TypeInv
<1>3. \A i : i \in T <=> i \in Range(devices) /\ Tagged(objects[i].tags, tag)
  OBVIOUS
<1>4. FileOK(f)
  BY <1>1 DEF TypeInv, CallOK, LoadOK, IsLoad
<1> HIDE DEF T
<1>5. Range(load'.remove) = T
  <2>1. Range(Select(devices, T)) = Range(devices) \cap T
    BY <1>2, SelectIsSeq DEF HeapOK, ListOK
  <2> QED
    BY <1>1, <1>3, <2>1
<1>6. IsSeq(<<>>) /\ Range(<<>>) = {} /\ Len(<<>>) = 0 /\ DOMAIN <<>> = {}
  BY OneSignal, EmptyList
<1>7. \A n : n \notin 1 .. 0
  OBVIOUS
<1>8. Rest(load', devices') = Range(devices) \ T
  BY <1>1, <1>5, <1>6 DEF Rest
<1>9. Kept(load', objects', devices')
  <2>1. \A i \in DOMAIN objects : Rewritten(objects'[i], b.objects[i], f, 0)
    BY <1>1 DEF Rewritten
  <2>2. Untagged(devices', objects', tag) = Untagged(b.devices, b.objects, tag)
    BY <1>1
  <2>3. \A i \in Range(load'.remove) \cup Range(load'.added) : Tagged(objects'[i].tags, tag)
    BY <1>1, <1>3, <1>5, <1>6
  <2> QED
    BY <1>1, <1>2, <1>7, <2>1, <2>2, <2>3 DEF Kept, HeapOK
<1>10. Outcome(Rest(load', devices'), objects', f, 0, tag)
  BY <1>1, <1>3, <1>7, <1>8 DEF Outcome
<1>11. Quiet(load', devices')
  <2> SUFFICES ASSUME load'.again, Orderly(f, tag)
               PROVE  Quiet(load', devices')
    BY <1>1 DEF Quiet
  <2>1. reply.ok /\ reply.file = f /\ reply.tag = tag /\ Loaded
    BY <1>1 DEF Loaded
  <2>2. Outcome(Range(devices), objects, f, Len(f), tag)
    BY <2>1 DEF KeptInv, Done
  <2> DEFINE N == Len(f)
  <2>3. /\ \A i \in Range(devices) : Tagged(objects[i].tags, tag) =>
             \E n \in 1 .. N : IsMeant(f, n, tag) /\ Content(objects[i]) = Content(Entry(f, n))
        /\ \A n \in 1 .. N : IsMeant(f, n, tag) =>
             \E i \in Range(devices) : Content(objects[i]) = Content(Entry(f, n))
    BY <2>2 DEF Outcome
  <2>4. DOMAIN f = 1 .. N /\ 0 + 1 .. N = 1 .. N
    BY <1>4, FileIsSeq
  <2>5. MeantUpTo(f, 0, tag) = <<>>
    BY MeantGrows
  <2> HIDE DEF N
  <2>6. \A n \in DOMAIN f : IsMeant(f, n, tag) =>
          \E i \in Range(devices) : Key(objects[i]) = Key(Entry(f, n))
    BY <2>3, <2>4, SameContent
  <2>7. \A i \in T : \E n \in 0 + 1 .. N :
          IsMeant(f, n, tag) /\ Key(objects[i]) = Key(Entry(f, n))
    BY <1>3, <2>3, <2>4, SameContent
  <2> QED
    BY <1>1, <1>5, <1>6, <2>5, <2>6, <2>7 DEF Quiet, N
<1> QED
  BY <1>1, <1>6, <1>9, <1>10, <1>11 DEF LoadInv

\* The tagged devices are not among the others.
LEMMA UntaggedWithout ==
  ASSUME NEW is, IsSeq(is), NEW objs, NEW tag, NEW e, Tagged(objs[e].tags, tag)
  PROVE  /\ Untagged(Without(is, e), objs, tag) = Untagged(is, objs, tag)
         /\ Untagged(Append(is, e), objs, tag) = Untagged(is, objs, tag)
<1> DEFINE t == Without(is, e)
           a == Append(is, e)
           R == Range(is) \ {e}
           U == {i \in Range(is) : ~Tagged(objs[i].tags, tag)}
           V == {i \in Range(t) : ~Tagged(objs[i].tags, tag)}
           W == {i \in Range(a) : ~Tagged(objs[i].tags, tag)}
<1>1. t = Select(is, R) /\ IsSeq(t) /\ Range(t) = R
  BY WithoutRange DEF Without
<1>2. Range(a) = Range(is) \cup {e}
  BY RangeAppend
<1>3. Untagged(t, objs, tag) = Select(t, V) /\ Untagged(is, objs, tag) = Select(is, U)
      /\ Untagged(a, objs, tag) = Select(a, W)
  BY DEF Untagged
<1> HIDE DEF t, a, R
<1>4. Range(is) \cap (R \cap V) = Range(is) \cap U /\ W = U /\ e \notin W
  BY <1>1, <1>2 DEF R
<1> HIDE DEF U, V, W
<1>5. Select(t, V) = Select(is, R \cap V)
  BY <1>1, SelectTwice
<1>6. Select(is, R \cap V) = Select(is, U)
  BY <1>4, SelectSame
<1>7. Select(a, W) = Select(is, W)
  BY <1>4, SelectAppend DEF a
<1> QED
  BY <1>3, <1>4, <1>5, <1>6, <1>7 DEF t, a

LEMMA LoadRemoveKept ==
  ASSUME TypeInv, KeptInv, LoadRemove
  PROVE  LoadInv(load', objects', devices')
<1> DEFINE e == Head(load.remove)
           t == Tail(load.remove)
           b == load.before
<1>1. /\ LoadOK(load, objects, devices) /\ IsLoad(load) /\ HeapOK /\ LoadInv(load, objects, devices)
      /\ load.at \in Nat /\ load.at = Len(load.file)
  BY LoadUnderWay DEF LoadRemove, Read, KeptInv
<1>2. /\ load.remove # <<>> /\ UNCHANGED objects /\ devices' = Without(devices, e)
      /\ load' = [[load EXCEPT !.remove = Tail(@)] EXCEPT !.signals = Append(@, <<"device-removed", e>>)]
  BY DEF LoadRemove, Signal
<1>3. /\ load'.file = load.file /\ load'.tag = load.tag /\ load'.before = b
      /\ load'.again = load.again /\ load'.remove = t /\ load'.added = load.added
      /\ load'.signals = Append(load.signals, <<"device-removed", e>>) /\ load'.at = load.at
  BY <1>1, <1>2 DEF IsLoad
<1>4. /\ IsSeq(load.remove) /\ IsInjective(load.remove) /\ IsSeq(devices)
      /\ Range(load.added) \cap Range(devices) = {} /\ Range(load.remove) \subseteq Range(devices)
  BY <1>1 DEF LoadOK, ListOK, HeapOK
<1>5. e \notin Range(t) /\ Range(load.remove) = {e} \cup Range(t)
  BY <1>2, <1>4, RangeTail
<1>6. Range(devices') = Range(devices) \ {e}
  BY <1>2, <1>4, WithoutRange
<1> HIDE DEF e, t
<1>7. Kept(load, objects, devices) /\ Quiet(load, devices)
  BY <1>1 DEF LoadInv
<1>8. Kept(load', objects', devices')
  <2>1. Tagged(objects[e].tags, load.tag)
    BY <1>5, <1>7 DEF Kept
  <2>2. Untagged(devices', objects', load.tag) = Untagged(devices, objects, load.tag)
    BY <1>2, <1>4, <2>1, UntaggedWithout
  <2>3. ~(load'.at < Len(load'.file))
    BY <1>1, <1>3
  <2> QED
    BY <1>2, <1>3, <1>5, <1>7, <2>2, <2>3 DEF Kept
<1>9. Rest(load', devices') = Rest(load, devices)
  BY <1>3, <1>4, <1>5, <1>6 DEF Rest
<1>10. Quiet(load', devices')
  <2>1. ~(load.again /\ Orderly(load.file, load.tag) /\ IsInjective(Ids(b)))
    <3> SUFFICES ASSUME load.again, Orderly(load.file, load.tag), IsInjective(Ids(b))
                 PROVE  FALSE
      OBVIOUS
    <3>1. \E n \in load.at + 1 .. Len(load.file) : TRUE
      BY <1>5, <1>7, QuietKnows
    <3> QED
      BY <1>1, <3>1
  <2> QED
    BY <1>3, <2>1 DEF Quiet, Ids
<1> QED
  BY <1>1, <1>2, <1>3, <1>8, <1>9, <1>10, AppendIsSeq DEF LoadInv

LEMMA LoadAddKept ==
  ASSUME TypeInv, KeptInv, LoadAdd
  PROVE  LoadInv(load', objects', devices')
<1> DEFINE e == Head(load.added)
           t == Tail(load.added)
           b == load.before
<1>1. /\ LoadOK(load, objects, devices) /\ IsLoad(load) /\ HeapOK /\ LoadInv(load, objects, devices)
      /\ load.at \in Nat /\ load.at = Len(load.file)
  BY LoadUnderWay DEF LoadAdd, Read, KeptInv
<1>2. /\ load.added # <<>> /\ load.remove = <<>> /\ UNCHANGED objects /\ devices' = Append(devices, e)
      /\ load' = [[load EXCEPT !.added = Tail(@)] EXCEPT !.signals = Append(@, <<"device-added", e>>)]
  BY DEF LoadAdd, Signal
<1>3. /\ load'.file = load.file /\ load'.tag = load.tag /\ load'.before = b
      /\ load'.again = load.again /\ load'.remove = load.remove /\ load'.added = t
      /\ load'.signals = Append(load.signals, <<"device-added", e>>) /\ load'.at = load.at
  BY <1>1, <1>2 DEF IsLoad
<1>4. IsSeq(load.added) /\ IsInjective(load.added) /\ IsSeq(devices) /\ Range(load.remove) = {}
  BY <1>1, <1>2, OneSignal DEF LoadOK, ListOK, HeapOK
<1>5. Range(load.added) = {e} \cup Range(t)
  BY <1>2, <1>4, RangeTail
<1>6. Range(devices') = Range(devices) \cup {e}
  BY <1>2, <1>4, RangeAppend
<1> HIDE DEF e, t
<1>7. Kept(load, objects, devices) /\ Quiet(load, devices)
  BY <1>1 DEF LoadInv
<1>8. Kept(load', objects', devices')
  <2>1. Tagged(objects[e].tags, load.tag)
    BY <1>5, <1>7 DEF Kept
  <2>2. Untagged(devices', objects', load.tag) = Untagged(devices, objects, load.tag)
    BY <1>2, <1>4, <2>1, UntaggedWithout
  <2>3. ~(load'.at < Len(load'.file))
    BY <1>1, <1>3
  <2> QED
    BY <1>2, <1>3, <1>5, <1>7, <2>2, <2>3 DEF Kept
<1>9. Rest(load', devices') = Rest(load, devices)
  BY <1>3, <1>4, <1>5, <1>6 DEF Rest
<1>10. Quiet(load', devices')
  <2>1. ~(load.again /\ Orderly(load.file, load.tag) /\ IsInjective(Ids(b)))
    BY <1>2, <1>7, QuietKnows
  <2> QED
    BY <1>3, <2>1 DEF Quiet, Ids
<1> QED
  BY <1>1, <1>2, <1>3, <1>8, <1>9, <1>10, AppendIsSeq DEF LoadInv

-----------------------------------------------------------------------------
(* The end of a load.                                                      *)

\* The property of a load that returned, in terms of what it was given and what it left.
Chosen(is, objs, tag) == Select(is, {i \in Range(is) : Tagged(objs[i].tags, tag)})

StrangerIn(b, tag, ds) ==
  \E i \in Range(b.devices) :
    ~Tagged(b.objects[i].tags, tag) /\ \E n \in DOMAIN ds : Key(ds[n]) = Key(b.objects[i])

SameContents(ds, is, objs) ==
  /\ Len(is) = Len(ds)
  /\ {Content(objs[is[n]]) : n \in DOMAIN is} = {Content(ds[n]) : n \in DOMAIN ds}

Replaces(ok, f, tag, b, is, objs) ==
  ok /\ Plain(Meant(f, tag)) /\ ~StrangerIn(b, tag, Meant(f, tag)) =>
    SameContents(Meant(f, tag), Chosen(is, objs, tag), objs)

LEMMA ReplacesSays ==
  /\ LoadReplaces <=>
       (Loaded => Replaces(reply.ok, reply.file, reply.tag, reply.before, devices, objects))
  /\ LoadReplaces' <=>
       (Loaded' => Replaces(reply'.ok, reply'.file, reply'.tag, reply'.before, devices', objects'))
BY DEF LoadReplaces, Replaces, Stranger, StrangerIn, TaggedDevices, Chosen, SameContents

\* What the devices with the tag are, if the file has none that is listed without it.
LEMMA OutcomeReplaces ==
  ASSUME NEW f, FileOK(f), NEW tag, NEW is, IsSeq(is), IsInjective(is), NEW objs, NEW b,
         ListOK(b.devices, b.objects), Orderly(f, tag), Outcome(Range(is), objs, f, Len(f), tag),
         \A i \in DOMAIN b.objects :
           Key(objs[i]) = Key(b.objects[i]) /\ objs[i].tags = b.objects[i].tags,
         Untagged(is, objs, tag) = Untagged(b.devices, b.objects, tag),
         ~StrangerIn(b, tag, Meant(f, tag))
  PROVE  SameContents(Meant(f, tag), Chosen(is, objs, tag), objs)
<1> DEFINE ds == Meant(f, tag)
           N == Len(f)
           T == {i \in Range(is) : Tagged(objs[i].tags, tag)}
           U == {i \in Range(is) : ~Tagged(objs[i].tags, tag)}
           tagged == Chosen(is, objs, tag)
           V == {i \in Range(b.devices) : ~Tagged(b.objects[i].tags, tag)}
<1>1. /\ \A i \in Range(is) : Tagged(objs[i].tags, tag) =>
           \E n \in 1 .. N : IsMeant(f, n, tag) /\ Content(objs[i]) = Content(Entry(f, n))
      /\ \A n \in 1 .. N : IsMeant(f, n, tag) =>
           \E i \in Range(is) : Content(objs[i]) = Content(Entry(f, n))
      /\ \A i, j \in Range(is) :
           /\ Tagged(objs[i].tags, tag) /\ Tagged(objs[j].tags, tag)
           /\ Key(objs[i]) = Key(objs[j])
           => i = j
  BY DEF Outcome
<1>2. /\ IsSeq(ds) /\ Range(ds) = {Entry(f, n) : n \in {m \in DOMAIN f : IsMeant(f, m, tag)}}
      /\ DOMAIN f = 1 .. N
  BY MeantElements, FileIsSeq
<1>3. \A i : /\ i \in T <=> i \in Range(is) /\ Tagged(objs[i].tags, tag)
             /\ i \in U <=> i \in Range(is) /\ ~Tagged(objs[i].tags, tag)
             /\ i \in V <=> i \in Range(b.devices) /\ ~Tagged(b.objects[i].tags, tag)
  OBVIOUS
<1>4. Untagged(is, objs, tag) = Select(is, U) /\ Untagged(b.devices, b.objects, tag) = Select(b.devices, V)
  BY DEF Untagged
<1>5. IsInjective([n \in DOMAIN ds |-> Key(ds[n])])
  BY DEF Orderly, Plain
<1>6. tagged = Select(is, T)
  BY DEF Chosen
<1>7. \A i \in V : \A n \in DOMAIN ds : Key(ds[n]) # Key(b.objects[i])
  BY DEF StrangerIn
<1> HIDE DEF ds, N, T, U, V, tagged
<1>8. U = V
  <2>1. Range(Select(is, U)) = Range(is) \cap U
    BY SelectIsSeq
  <2>2. IsSeq(b.devices)
    BY DEF ListOK
  <2>3. Range(Select(b.devices, V)) = Range(b.devices) \cap V
    BY <2>2, SelectIsSeq
  <2> QED
    BY <1>3, <1>4, <2>1, <2>3
<1>9. IsSeq(tagged) /\ IsInjective(tagged) /\ Range(tagged) = T
  <2>1. /\ IsSeq(Select(is, T)) /\ IsInjective(Select(is, T))
        /\ Range(Select(is, T)) = Range(is) \cap T
    BY SelectIsSeq
  <2> QED
    BY <1>3, <1>6, <2>1
<1>10. \A i \in T : \E d \in Range(ds) : Content(objs[i]) = Content(d)
  BY <1>1, <1>2, <1>3
<1>11. ASSUME NEW d \in Range(ds)
       PROVE  \E i \in T : Content(objs[i]) = Content(d)
  <2>1. PICK i \in Range(is) : Content(objs[i]) = Content(d)
    BY <1>1, <1>2
  <2>2. i \in T
    <3> SUFFICES ASSUME i \notin T
                 PROVE  FALSE
      OBVIOUS
    <3>1. i \in V /\ i \in DOMAIN b.objects
      BY <1>3, <1>8, <2>1 DEF ListOK
    <3>2. Key(b.objects[i]) = Key(d)
      BY <2>1, <3>1, SameContent
    <3> QED
      BY <1>7, <3>1, <3>2 DEF Range
  <2> QED
    BY <2>1, <2>2
<1>12. /\ \A n \in DOMAIN tagged : tagged[n] \in T
       /\ \A i \in T : \E n \in DOMAIN tagged : tagged[n] = i
  BY <1>9 DEF Range
<1>13. {Content(objs[tagged[n]]) : n \in DOMAIN tagged} = {Content(ds[n]) : n \in DOMAIN ds}
  <2>1. {Content(objs[tagged[n]]) : n \in DOMAIN tagged} = {Content(objs[i]) : i \in T}
    <3>1. \A n \in DOMAIN tagged : \E i \in T : Content(objs[tagged[n]]) = Content(objs[i])
      BY <1>12
    <3>2. \A i \in T : \E n \in DOMAIN tagged : Content(objs[tagged[n]]) = Content(objs[i])
      BY <1>12
    <3> QED
      BY <3>1, <3>2
  <2>2. {Content(ds[n]) : n \in DOMAIN ds} = {Content(d) : d \in Range(ds)}
    BY DEF Range
  <2>3. {Content(objs[i]) : i \in T} = {Content(d) : d \in Range(ds)}
    BY <1>10, <1>11
  <2> QED
    BY <2>1, <2>2, <2>3
<1>14. Len(tagged) = Len(ds)
  <2> DEFINE s == [n \in DOMAIN tagged |-> Key(objs[tagged[n]])]
             t == [n \in DOMAIN ds |-> Key(ds[n])]
  <2>1. /\ DOMAIN tagged = 1 .. Len(tagged) /\ Len(tagged) \in Nat
        /\ DOMAIN ds = 1 .. Len(ds) /\ Len(ds) \in Nat
    BY <1>2, <1>9, ElementsAreRange
  <2>2. s = [n \in 1 .. Len(tagged) |-> s[n]] /\ t = [n \in 1 .. Len(ds) |-> t[n]]
    BY <2>1
  <2>3. IsInjective(s)
    <3>1. \A m, n \in DOMAIN tagged : s[m] = s[n] => tagged[m] = tagged[n]
      BY <1>12, <1>1, <1>3
    <3>2. DOMAIN s = DOMAIN tagged
      OBVIOUS
    <3> HIDE DEF s
    <3> QED
      BY <1>9, <3>1, <3>2 DEF IsInjective
  <2>4. IsInjective(t)
    BY <1>5
  <2>5. Range(s) = Range(t)
    <3>1. Range(s) = {Key(objs[i]) : i \in T}
      <4>1. Range(s) = {Key(objs[tagged[n]]) : n \in DOMAIN tagged}
        BY DEF Range
      <4>2. \A n \in DOMAIN tagged : \E i \in T : Key(objs[tagged[n]]) = Key(objs[i])
        BY <1>12
      <4>3. \A i \in T : \E n \in DOMAIN tagged : Key(objs[tagged[n]]) = Key(objs[i])
        BY <1>12
      <4> QED
        BY <4>1, <4>2, <4>3
    <3>2. Range(t) = {Key(d) : d \in Range(ds)}
      BY DEF Range
    <3>3. {Key(objs[i]) : i \in T} = {Key(d) : d \in Range(ds)}
      BY <1>10, <1>11, SameContent
    <3> QED
      BY <3>1, <3>2, <3>3
  <2> HIDE DEF s, t
  <2>6. IsSeq(s) /\ Len(s) = Len(tagged) /\ IsSeq(t) /\ Len(t) = Len(ds)
    BY <2>1, <2>2, FunctionIsSeq
  <2> QED
    BY <2>3, <2>4, <2>5, <2>6, SameLength
<1> QED
  BY <1>13, <1>14 DEF ds, tagged, SameContents

\* A load that fails, at an object that cannot be read.
LEMMA LoadFailsKept ==
  ASSUME TypeInv, KeptInv, ~Idle, load.at < Len(load.file), NEW json, json = load.file[load.at + 1],
         LoadFails(json), UNCHANGED devices
  PROVE  KeptInv'
<1> DEFINE b == load.before
<1>1. /\ load.at \in Nat /\ Len(load.file) \in Nat /\ DOMAIN load.file = 1 .. Len(load.file)
      /\ LoadInv(load, objects, devices) /\ devices = b.devices
  BY LoadReads, FileIsSeq
<1>2. /\ ~Loadable(json) /\ load' = Null /\ UNCHANGED <<objects, devices>>
      /\ reply'.ok = FALSE /\ reply'.file = load.file /\ reply'.tag = load.tag
      /\ reply'.before = b
  BY DEF LoadFails, Return
<1>3. Kept(load, objects, devices)
  BY <1>1 DEF LoadInv
<1>4. UntaggedStay'
  BY <1>2, <1>3 DEF UntaggedStay, Kept
<1>5. BadFileRefused'
  <2> SUFFICES ASSUME NEW i \in DOMAIN b.objects
               PROVE  \/ objects'[i] = b.objects[i]
                      \/ \E n \in DOMAIN load.file :
                           LET d == LoadDevice(load.file[n], objects'[i].created)
                           IN Loadable(load.file[n]) /\ Key(d) = Key(objects'[i])
                              /\ objects'[i] = [b.objects[i] EXCEPT !.events = d.events]
    BY <1>1, <1>2 DEF BadFileRefused
  <2>1. \A n \in 1 .. load.at : n \in DOMAIN load.file
    BY <1>1
  <2>2. Rewritten(objects[i], b.objects[i], load.file, load.at)
    BY <1>3 DEF Kept
  <2> QED
    BY <1>2, <2>1, <2>2 DEF Rewritten
<1> QED
  BY <1>2, <1>4, <1>5 DEF KeptInv, Idle, Done, LoadReplaces, ReloadIsQuiet

\* A load that read the whole file.
LEMMA LoadReturnKept ==
  ASSUME TypeInv, KeptInv, LoadReturn
  PROVE  KeptInv'
<1> DEFINE b == load.before
           f == load.file
           tag == load.tag
           N == Len(f)
<1>1. /\ LoadOK(load, objects, devices) /\ IsLoad(load) /\ HeapOK /\ LoadInv(load, objects, devices)
      /\ load.at = N /\ load.remove = <<>> /\ load.added = <<>>
  BY LoadUnderWay DEF LoadReturn, Read, KeptInv
<1>2. /\ load' = Null /\ UNCHANGED <<objects, devices>>
      /\ reply'.ok = TRUE /\ reply'.file = f /\ reply'.tag = tag
      /\ reply'.before = b /\ reply'.signals = load.signals /\ reply'.again = load.again
  BY DEF LoadReturn, Return, heap
<1>3. FileOK(f) /\ DOMAIN f = 1 .. N /\ N \in Nat
  BY <1>1, FileIsSeq DEF IsLoad
<1>4. Kept(load, objects, devices) /\ Quiet(load, devices)
  BY <1>1 DEF LoadInv
<1>5. UntaggedStay'
  BY <1>2, <1>4 DEF UntaggedStay, Kept
<1>6. \A n \in DOMAIN f : Loadable(f[n])
  BY <1>1, <1>3, <1>4 DEF Kept
<1>7. BadFileRefused'
  BY <1>2, <1>6 DEF BadFileRefused
<1>8. Outcome(Range(devices), objects, f, N, tag)
  <2>1. Rest(load, devices) = Range(devices)
    BY <1>1, OneSignal DEF Rest
  <2> QED
    BY <1>1, <2>1 DEF LoadInv
<1>9. Done(reply)'
  BY <1>2, <1>3, <1>8 DEF Done
<1>10. LoadReplaces'
  <2> SUFFICES Replaces(TRUE, f, tag, b, devices, objects)
    BY <1>2, ReplacesSays
  <2> DEFINE is == devices
             objs == objects
             tagged == Chosen(is, objs, tag)
  <2> SUFFICES ASSUME Plain(Meant(f, tag)), ~StrangerIn(b, tag, Meant(f, tag))
               PROVE  SameContents(Meant(f, tag), tagged, objs)
    BY DEF Replaces
  <2>1. Orderly(f, tag)
    BY <1>6 DEF Orderly
  <2>2. IsSeq(is) /\ IsInjective(is) /\ ListOK(b.devices, b.objects)
    BY <1>1, <1>4 DEF HeapOK, ListOK, Kept
  <2>3. \A i \in DOMAIN b.objects :
          Key(objs[i]) = Key(b.objects[i]) /\ objs[i].tags = b.objects[i].tags
    <3> TAKE i \in DOMAIN b.objects
    <3>1. ObjectOK(b.objects[i]) /\ Rewritten(objects[i], b.objects[i], f, N)
      BY <1>1, <1>4 DEF Kept, ObjectsOK
    <3> QED
      BY <3>1, RewrittenSame DEF Key
  <2>4. Untagged(is, objs, tag) = Untagged(b.devices, b.objects, tag)
    BY <1>4 DEF Kept
  <2>5. Outcome(Range(is), objs, f, Len(f), tag)
    BY <1>8
  <2> HIDE DEF is, objs
  <2> QED
    BY <1>3, <2>1, <2>2, <2>3, <2>4, <2>5, OutcomeReplaces
<1>11. ReloadIsQuiet'
  <2> SUFFICES ASSUME load.again, Plain(Meant(f, tag)), IsInjective(Ids(b))
               PROVE  /\ Len(load.signals) = Len(Meant(f, tag))
                      /\ \A n \in DOMAIN load.signals : load.signals[n][1] = "device-changed"
    BY <1>2 DEF ReloadIsQuiet, Ids
  <2>1. Orderly(f, tag)
    BY <1>6 DEF Orderly
  <2>2. /\ Len(load.signals) = Len(MeantUpTo(f, N, tag))
        /\ \A n \in DOMAIN load.signals : load.signals[n][1] = "device-changed"
    BY <1>1, <1>4, <2>1, QuietKnows
  <2>3. Meant(f, tag) = MeantUpTo(f, N, tag)
    BY <1>3, MeantElements
  <2> QED
    BY <2>2, <2>3
<1> QED
  BY <1>2, <1>5, <1>7, <1>9, <1>10, <1>11 DEF KeptInv, Idle

\* A step that ends no load says nothing of one.
LEMMA NothingLoaded ==
  ASSUME reply' = Null, ~Idle' => LoadInv(load', objects', devices')
  PROVE  KeptInv'
BY DEF KeptInv, Loaded, LoadReplaces, ReloadIsQuiet, UntaggedStay, BadFileRefused

LEMMA LoadEntryKept ==
  ASSUME TypeInv, KeptInv, LoadEntry
  PROVE  KeptInv'
<1> DEFINE json == load.file[load.at + 1]
<1>1. ~Idle /\ load.at < Len(load.file) /\ UNCHANGED devices
  BY DEF LoadEntry
<1>2. reply = Null
  BY <1>1, LoadUnderWay
<1>3. LoadFails(json) \/ LoadSkips(json) \/ LoadChanges(json) \/ LoadKeeps(json)
  BY DEF LoadEntry
<1>4. json = load.file[load.at + 1]
  OBVIOUS
<1> HIDE DEF json
<1>5. CASE LoadFails(json)
  BY <1>1, <1>4, <1>5, LoadFailsKept
<1>6. CASE LoadSkips(json)
  <2>1. LoadInv(load', objects', devices')
    BY <1>1, <1>4, <1>6, LoadSkipsKept
  <2> QED
    BY <1>2, <1>6, <2>1, NothingLoaded DEF LoadSkips
<1>7. CASE LoadChanges(json)
  <2>1. LoadInv(load', objects', devices')
    BY <1>1, <1>4, <1>7, LoadChangesKept
  <2> QED
    BY <1>2, <1>7, <2>1, NothingLoaded DEF LoadChanges
<1>8. CASE LoadKeeps(json)
  <2>1. LoadInv(load', objects', devices')
    BY <1>1, <1>4, <1>8, LoadKeepsKept
  <2> QED
    BY <1>2, <1>8, <2>1, NothingLoaded DEF LoadKeeps
<1> QED
  BY <1>3, <1>5, <1>6, <1>7, <1>8

-----------------------------------------------------------------------------
(* The invariant.                                                          *)

LEMMA InitKept ==
  ASSUME Init
  PROVE  KeptInv
BY DEF Init, KeptInv, Idle, Loaded, LoadReplaces, ReloadIsQuiet, UntaggedStay, BadFileRefused

\* A step while no load is under way, which starts none.
LEMMA IdleKept ==
  ASSUME Idle, UNCHANGED load, reply' = Null
  PROVE  KeptInv'
BY NothingLoaded DEF Idle

LEMMA NextKept ==
  ASSUME TypeInv, TypeInv', KeptInv, [Next]_vars
  PROVE  KeptInv'
<1>1. ASSUME NEW d \in Devices, Plug(d)
      PROVE  KeptInv'
  BY <1>1, IdleKept DEF Plug
<1>2. ASSUME NEW d \in Devices, Unplug(d)
      PROVE  KeptInv'
  BY <1>2, IdleKept DEF Unplug
<1>3. CASE Rescan
  BY <1>3, IdleKept DEF Rescan
<1>4. CASE Enumerate
  BY <1>4, IdleKept DEF Enumerate
<1>5. ASSUME NEW i \in Range(devices), NEW key \in Keys, Request(i, key)
      PROVE  KeptInv'
  BY <1>5, IdleKept DEF Request, Change
<1>6. ASSUME NEW i \in Range(devices), NEW tag \in Tags, AddTag(i, tag)
      PROVE  KeptInv'
  BY <1>6, IdleKept DEF AddTag, Change
<1>7. ASSUME NEW i \in Range(devices), NEW tag \in Tags, RemoveTag(i, tag)
      PROVE  KeptInv'
  BY <1>7, IdleKept DEF RemoveTag, Change
<1>8. ASSUME NEW tag \in Tags \cup {Null}, Save(tag)
      PROVE  KeptInv'
  BY <1>8, IdleKept DEF Save
<1>9. ASSUME NEW tag \in Tags \cup {Null}, NEW f \in Files, LoadStart(f, tag)
      PROVE  KeptInv'
  <2>1. reply' = Null
    BY <1>9 DEF LoadStart
  <2> QED
    BY <1>9, <2>1, LoadStartKept, NothingLoaded
<1>10. CASE LoadNothing
  BY <1>10, IdleKept DEF LoadNothing
<1>11. CASE LoadEntry
  BY <1>11, LoadEntryKept
<1>12. CASE LoadRemove
  <2>1. reply' = Null
    BY <1>12, LoadUnderWay DEF LoadRemove, Read
  <2> QED
    BY <1>12, <2>1, LoadRemoveKept, NothingLoaded
<1>13. CASE LoadAdd
  <2>1. reply' = Null
    BY <1>13, LoadUnderWay DEF LoadAdd, Read
  <2> QED
    BY <1>13, <2>1, LoadAddKept, NothingLoaded
<1>14. CASE LoadReturn
  BY <1>14, LoadReturnKept
<1>15. CASE Restart
  BY <1>15, NothingLoaded DEF Restart, Start, Idle
<1>16. CASE UNCHANGED vars
  <2>1. UNCHANGED <<objects, devices, load, reply>>
    BY <1>16 DEF vars, heap, calls
  <2>2. (~Idle => LoadInv(load, objects, devices))' /\ (Loaded => Done(reply))'
    BY <2>1 DEF KeptInv, Idle, Loaded, Done
  <2>3. LoadReplaces'
    <3> SUFFICES Loaded => Replaces(reply.ok, reply.file, reply.tag, reply.before, devices, objects)
      BY <2>1, ReplacesSays DEF Loaded
    <3> QED
      BY ReplacesSays DEF KeptInv
  <2>4. UntaggedStay' /\ BadFileRefused'
    BY <2>1 DEF KeptInv, Loaded, UntaggedStay, BadFileRefused
  <2>5. ReloadIsQuiet'
    BY <2>1 DEF KeptInv, Loaded, ReloadIsQuiet
  <2> QED
    BY <2>2, <2>3, <2>4, <2>5 DEF KeptInv
<1> QED
  BY <1>1, <1>2, <1>3, <1>4, <1>5, <1>6, <1>7, <1>8, <1>9, <1>10, <1>11, <1>12, <1>13, <1>14, <1>15,
     <1>16 DEF Next

LEMMA SpecKept == Spec => []KeptInv
<1>1. Init => KeptInv
  BY InitKept
<1>2. TypeInv /\ TypeInv' /\ KeptInv /\ [Next]_vars => KeptInv'
  BY NextKept
<1>3. Spec => []TypeInv
  BY SpecTypes
<1> QED
  BY <1>1, <1>2, <1>3, PTL DEF Spec

LEMMA KeptSays ==
  ASSUME KeptInv
  PROVE  LoadReplaces /\ ReloadIsQuiet /\ UntaggedStay /\ BadFileRefused
BY DEF KeptInv

\* After a load succeeded, the devices with the tag are those that the file has with the
\* tag, each once and with the events of the file, however many devices were listed, real
\* or emulated, and whatever the file changed, removed and added.
THEOREM LoadedReplaces == Spec => []LoadReplaces
BY SpecKept, KeptSays, PTL

\* Loading a file once more removes and adds nothing: it signals one change for each
\* device that is meant.
THEOREM ReloadedQuietly == Spec => []ReloadIsQuiet
BY SpecKept, KeptSays, PTL

\* A load with a tag leaves the devices without the tag where they are.
THEOREM UntaggedStayed == Spec => []UntaggedStay
BY SpecKept, KeptSays, PTL

\* A file that cannot be read to its end is refused: the list is as it was, and what was
\* there before has at most new events, from an object that was read before the bad one.
THEOREM BadFilesRefused == Spec => []BadFileRefused
BY SpecKept, KeptSays, PTL
=============================================================================
