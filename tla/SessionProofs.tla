----------------------------- MODULE SessionProofs -----------------------------
(***************************************************************************)
(* Proofs about the session of a GUsbDevice: what its caches hold, what    *)
(* the file it is saved to says, and what an emulated device answers.      *)
(***************************************************************************)
EXTENDS GUsbDevice_proofs

-----------------------------------------------------------------------------
(* The queries for HID descriptors.                                        *)

IsFrame(f) ==
  f = [stage |-> f.stage, saving |-> f.saving, bos |-> f.bos, at |-> f.at, answer |-> f.answer]

FramesOK == IsSeq(queries) /\ \A q \in DOMAIN queries : IsFrame(queries[q])

\* A transfer for a HID descriptor has a query that waits for it, and for no other.
WaitersOK ==
  \A i \in DOMAIN inflight : inflight[i].query # 0 =>
    /\ inflight[i].query \in DOMAIN queries
    /\ queries[inflight[i].query].stage = "waiting" /\ queries[inflight[i].query].answer = Null
    /\ \E n \in DOMAIN Report : inflight[i].request = HidRequest(n)
    /\ inflight[i].size # 0
    /\ \A j \in DOMAIN inflight \ {i} : inflight[j].query # inflight[i].query

\* What a query may be told: nothing yet, an error or a report descriptor.
IsAnswer(a) ==
  a = Null \/ (\E status : a = Error(status)) \/ \E n \in DOMAIN Report : a = Ok(Report[n])

\* Only the queries of a real device wait.
AnswersOK ==
  \A q \in DOMAIN queries :
    /\ queries[q].stage = "waiting" => IsAnswer(queries[q].answer)
    /\ ~real => queries[q].stage \notin {"scan", "waiting"}

QueriesOK == FramesOK /\ WaitersOK /\ AnswersOK

LEMMA Innermost ==
  ASSUME FramesOK, queries # <<>>
  PROVE  Len(queries) \in DOMAIN queries /\ Last(queries) = queries[Len(queries)]
<1> DEFINE n == Len(queries)
<1>1. n \in Nat /\ n # 0 /\ DOMAIN queries = 1 .. n
  BY FrontOfSeq DEF FramesOK
<1>2. Last(queries) = queries[n]
  BY DEF Last
<1> HIDE DEF n
<1>3. n \in 1 .. n
  BY <1>1
<1> QED
  BY <1>1, <1>2, <1>3 DEF n

\* The innermost query goes on.
LEMMA GoFrame ==
  ASSUME FramesOK, queries # <<>>, NEW stage, NEW at, NEW answer, Go(stage, at, answer)
  PROVE  LET n == Len(queries)
         IN /\ FramesOK' /\ DOMAIN queries' = DOMAIN queries /\ Len(queries') = Len(queries)
            /\ n \in DOMAIN queries /\ n \in Nat \ {0} /\ Last(queries) = queries[n]
            /\ \A q \in DOMAIN queries \ {n} : queries'[q] = queries[q]
            /\ queries'[n].stage = stage /\ queries'[n].answer = answer
            /\ queries'[n].at = at
            /\ queries'[n].bos = queries[n].bos /\ queries'[n].saving = queries[n].saving
<1> DEFINE n == Len(queries)
           f == queries[n]
           g == [stage |-> stage, saving |-> f.saving, bos |-> f.bos, at |-> at, answer |-> answer]
<1>1. /\ IsSeq(queries) /\ n \in Nat \ {0} /\ DOMAIN queries = 1 .. n /\ n \in DOMAIN queries
      /\ IsFrame(f)
  <2>1. IsSeq(queries) /\ n \in Nat /\ n # 0 /\ DOMAIN queries = 1 .. n
    BY FrontOfSeq DEF FramesOK
  <2> QED
    BY <2>1 DEF FramesOK
<1>2. Last(queries) = f
  BY DEF Last
<1> DEFINE q1 == [queries EXCEPT ![n] = [queries[n] EXCEPT !.stage = stage]]
           q2 == [q1 EXCEPT ![n] = [q1[n] EXCEPT !.at = at]]
           q3 == [q2 EXCEPT ![n] = [q2[n] EXCEPT !.answer = answer]]
<1>3. queries' = q3
  BY Zenon DEF Go
<1>4. /\ q1 = [q \in 1 .. n |-> q1[q]] /\ \A q \in 1 .. n : q # n => q1[q] = queries[q]
      /\ q1[n] = [f EXCEPT !.stage = stage]
  BY <1>1
<1> HIDE DEF q1
<1>5. /\ q2 = [q \in 1 .. n |-> q2[q]] /\ \A q \in 1 .. n : q # n => q2[q] = queries[q]
      /\ q2[n] = [q1[n] EXCEPT !.at = at]
  BY <1>1, <1>4
<1> HIDE DEF q2
<1>6. /\ q3 = [q \in 1 .. n |-> q3[q]] /\ \A q \in 1 .. n : q # n => q3[q] = queries[q]
      /\ q3[n] = [q2[n] EXCEPT !.answer = answer]
  BY <1>1, <1>5
<1> HIDE DEF q3
<1>7. q3[n] = g
  <2>1. f = [stage |-> f.stage, saving |-> f.saving, bos |-> f.bos, at |-> f.at,
             answer |-> f.answer]
    BY <1>1 DEF IsFrame
  <2> HIDE DEF f
  <2>2. q1[n] = [stage |-> stage, saving |-> f.saving, bos |-> f.bos, at |-> f.at,
                 answer |-> f.answer]
    BY <1>4, <2>1
  <2>3. q2[n] = [stage |-> stage, saving |-> f.saving, bos |-> f.bos, at |-> at,
                 answer |-> f.answer]
    BY <1>5, <2>2
  <2> QED
    BY <1>6, <2>3
<1>8. IsSeq(q3) /\ DOMAIN q3 = 1 .. n /\ Len(q3) = n
  BY <1>1, <1>6, FunctionIsSeq
<1>9. IsFrame(g) /\ g.stage = stage /\ g.answer = answer /\ g.at = at /\ g.bos = f.bos
      /\ g.saving = f.saving
  BY DEF IsFrame
<1> HIDE DEF g
<1>10. FramesOK'
  <2>1. ASSUME NEW q \in 1 .. n
        PROVE  IsFrame(q3[q])
    BY <1>1, <1>6, <1>7, <1>9 DEF FramesOK
  <2> QED
    BY <1>3, <1>8, <2>1 DEF FramesOK, IsSeq, IsFrame
<1> QED
  BY <1>1, <1>2, <1>3, <1>6, <1>7, <1>8, <1>9, <1>10

\* A frame is added.
LEMMA AppendFrame ==
  ASSUME FramesOK, NEW saving, NEW list, queries' = Append(queries, Frame(saving, list))
  PROVE  LET n == Len(queries) + 1
         IN /\ FramesOK' /\ DOMAIN queries' = DOMAIN queries \cup {n} /\ n \notin DOMAIN queries
            /\ \A q \in DOMAIN queries : queries'[q] = queries[q]
            /\ queries'[n].stage = "start" /\ queries'[n].bos = list
            /\ queries'[n] = Frame(saving, list)
<1> DEFINE n == Len(queries) + 1
           g == Frame(saving, list)
<1>1. IsSeq(queries) /\ Len(queries) \in Nat /\ DOMAIN queries = 1 .. Len(queries)
  BY IsSeqOfElements DEF FramesOK, IsSeq
<1>2. IsFrame(g) /\ g.stage = "start" /\ g.bos = list
  BY DEF Frame, IsFrame
<1> HIDE DEF g
<1>3. /\ IsSeq(queries') /\ Len(queries') = n /\ queries'[n] = g
      /\ \A q \in 1 .. Len(queries) : queries'[q] = queries[q]
  BY <1>1, AppendIsSeq DEF g
<1>4. DOMAIN queries' = 1 .. n
  BY <1>3, IsSeqOfElements
<1>5. ASSUME NEW q \in 1 .. n
      PROVE  IsFrame(queries'[q])
  BY <1>1, <1>2, <1>3 DEF FramesOK
<1>6. FramesOK'
  BY <1>3, <1>4, <1>5 DEF FramesOK, IsSeq, IsFrame
<1>7. DOMAIN queries' = DOMAIN queries \cup {n} /\ n \notin DOMAIN queries
  BY <1>1, <1>4
<1> QED
  BY <1>1, <1>2, <1>3, <1>6, <1>7 DEF g

\* The innermost frame goes.
LEMMA FrontFrame ==
  ASSUME FramesOK, queries # <<>>, queries' = Front(queries)
  PROVE  /\ FramesOK' /\ DOMAIN queries' = DOMAIN queries \ {Len(queries)}
         /\ Len(queries) \in DOMAIN queries /\ Last(queries) = queries[Len(queries)]
         /\ \A q \in DOMAIN queries' : queries'[q] = queries[q]
<1> DEFINE n == Len(queries)
<1>1. /\ IsSeq(queries') /\ DOMAIN queries' = 1 .. n - 1 /\ n \in Nat /\ n # 0
      /\ DOMAIN queries = 1 .. n /\ \A q \in 1 .. n - 1 : queries'[q] = queries[q]
  BY FrontOfSeq DEF FramesOK
<1>2. ASSUME NEW q \in 1 .. n - 1
      PROVE  IsFrame(queries'[q])
  BY <1>1 DEF FramesOK
<1>3. FramesOK'
  BY <1>1, <1>2 DEF FramesOK, IsSeq, IsFrame
<1> QED
  BY <1>1, <1>3 DEF Last

\* The transfers in flight are among those that were, and so are their queries.
LEMMA WaitersKept ==
  ASSUME WaitersOK, NEW at,
         \A i \in DOMAIN inflight' :
           /\ at[i] \in DOMAIN inflight
           /\ inflight'[i].query = inflight[at[i]].query
           /\ inflight'[i].request = inflight[at[i]].request
           /\ inflight'[i].size = inflight[at[i]].size
           /\ inflight'[i].query # 0 => /\ inflight'[i].query \in DOMAIN queries'
                                        /\ queries'[inflight'[i].query] = queries[inflight'[i].query],
         \A i, j \in DOMAIN inflight' : i # j => at[i] # at[j]
  PROVE  WaitersOK'
<1> SUFFICES ASSUME NEW i \in DOMAIN inflight', inflight'[i].query # 0
             PROVE  /\ inflight'[i].query \in DOMAIN queries'
                    /\ queries'[inflight'[i].query].stage = "waiting"
                    /\ queries'[inflight'[i].query].answer = Null
                    /\ \E n \in DOMAIN Report : inflight'[i].request = HidRequest(n)
                    /\ inflight'[i].size # 0
                    /\ \A j \in DOMAIN inflight' \ {i} : inflight'[j].query # inflight'[i].query
  BY DEF WaitersOK, HidRequest
<1> DEFINE t == inflight[at[i]]
<1>1. /\ at[i] \in DOMAIN inflight /\ t.query # 0 /\ inflight'[i].query = t.query
      /\ inflight'[i].request = t.request /\ inflight'[i].size = t.size
  OBVIOUS
<1>2. /\ queries[t.query].stage = "waiting" /\ queries[t.query].answer = Null
      /\ \E n \in DOMAIN Report : t.request = HidRequest(n)
      /\ t.size # 0
      /\ \A j \in DOMAIN inflight \ {at[i]} : inflight[j].query # t.query
  BY <1>1 DEF WaitersOK
<1>3. ASSUME NEW j \in DOMAIN inflight' \ {i}
      PROVE  inflight'[j].query # inflight'[i].query
  <2>1. at[j] \in DOMAIN inflight \ {at[i]} /\ inflight'[j].query = inflight[at[j]].query
    OBVIOUS
  <2> QED
    BY <1>1, <1>2, <2>1
<1> QED
  BY <1>1, <1>2, <1>3

\* Only the frames change, and none that a transfer is for.
LEMMA WaitersSame ==
  ASSUME WaitersOK, UNCHANGED inflight,
         \A i \in DOMAIN inflight : inflight[i].query # 0 =>
           /\ inflight[i].query \in DOMAIN queries'
           /\ queries'[inflight[i].query] = queries[inflight[i].query]
  PROVE  WaitersOK'
<1> DEFINE at == [i \in DOMAIN inflight |-> i]
<1>1. \A i \in DOMAIN inflight : at[i] = i
  OBVIOUS
<1> HIDE DEF at
<1> QED
  BY <1>1, WaitersKept

\* A transfer is added; its query, if it has one, starts to wait.
LEMMA WaitersAdded ==
  ASSUME WaitersOK, EventsOK, NEW t, inflight' = Append(inflight, t),
         \A i \in DOMAIN inflight : inflight[i].query # 0 =>
           /\ inflight[i].query \in DOMAIN queries'
           /\ queries'[inflight[i].query] = queries[inflight[i].query],
         t.query # 0 =>
           /\ t.query \in DOMAIN queries'
           /\ queries'[t.query].stage = "waiting" /\ queries'[t.query].answer = Null
           /\ \E n \in DOMAIN Report : t.request = HidRequest(n)
           /\ t.size # 0
           /\ \A j \in DOMAIN inflight : inflight[j].query # t.query
  PROVE  WaitersOK'
<1>1. IsSeq(inflight) /\ Len(inflight) \in Nat /\ DOMAIN inflight = 1 .. Len(inflight)
  BY IsSeqOfElements DEF EventsOK, IsSeq
<1>2. /\ IsSeq(inflight') /\ Len(inflight') = Len(inflight) + 1
      /\ \A i \in 1 .. Len(inflight) : inflight'[i] = inflight[i]
      /\ inflight'[Len(inflight) + 1] = t
  BY <1>1, AppendIsSeq
<1>3. DOMAIN inflight' = DOMAIN inflight \cup {Len(inflight) + 1}
      /\ Len(inflight) + 1 \notin DOMAIN inflight
  BY <1>1, <1>2, IsSeqOfElements
<1> DEFINE n == Len(inflight) + 1
<1> HIDE DEF n
<1>4. /\ DOMAIN inflight' = DOMAIN inflight \cup {n} /\ n \notin DOMAIN inflight
      /\ \A i \in DOMAIN inflight : inflight'[i] = inflight[i]
      /\ inflight'[n] = t
  BY <1>1, <1>2, <1>3 DEF n
<1> SUFFICES ASSUME NEW i \in DOMAIN inflight', inflight'[i].query # 0
             PROVE  /\ inflight'[i].query \in DOMAIN queries'
                    /\ queries'[inflight'[i].query].stage = "waiting"
                    /\ queries'[inflight'[i].query].answer = Null
                    /\ \E m \in DOMAIN Report : inflight'[i].request = HidRequest(m)
                    /\ inflight'[i].size # 0
                    /\ \A j \in DOMAIN inflight' \ {i} : inflight'[j].query # inflight'[i].query
  BY DEF WaitersOK, HidRequest
<1>5. CASE i = n
  BY <1>4, <1>5
<1>6. CASE i # n
  <2>1. i \in DOMAIN inflight /\ inflight'[i] = inflight[i]
    BY <1>4, <1>6
  <2>2. /\ queries[inflight[i].query].stage = "waiting" /\ queries[inflight[i].query].answer = Null
        /\ \E m \in DOMAIN Report : inflight[i].request = HidRequest(m)
        /\ inflight[i].size # 0
        /\ \A j \in DOMAIN inflight \ {i} : inflight[j].query # inflight[i].query
    BY <2>1 DEF WaitersOK
  <2>3. ASSUME NEW j \in DOMAIN inflight' \ {i}
        PROVE  inflight'[j].query # inflight'[i].query
    BY <1>4, <2>1, <2>2
  <2> QED
    BY <2>1, <2>2, <2>3
<1> QED
  BY <1>5, <1>6

\* A query that has an answer, or does not wait, has no transfer.
LEMMA NoWaiter ==
  ASSUME WaitersOK, NEW n, queries[n].stage # "waiting" \/ queries[n].answer # Null
  PROVE  \A i \in DOMAIN inflight : inflight[i].query # 0 =>
           inflight[i].query # n /\ inflight[i].query \in DOMAIN queries
BY DEF WaitersOK

\* The innermost query goes on, and no transfer was for it.
LEMMA GoKeeps ==
  ASSUME QueriesOK, queries # <<>>, NEW stage, NEW at, NEW answer, Go(stage, at, answer),
         Last(queries).stage # "waiting" \/ Last(queries).answer # Null,
         stage # "waiting", stage = "scan" => real,
         UNCHANGED <<inflight, real>>
  PROVE  QueriesOK'
<1> DEFINE n == Len(queries)
<1>1. /\ FramesOK' /\ DOMAIN queries' = DOMAIN queries
      /\ Last(queries) = queries[n]
      /\ \A q \in DOMAIN queries \ {n} : queries'[q] = queries[q]
      /\ queries'[n].stage = stage
  BY GoFrame DEF QueriesOK
<1>2. WaitersOK'
  <2>1. \A i \in DOMAIN inflight : inflight[i].query # 0 =>
          inflight[i].query # n /\ inflight[i].query \in DOMAIN queries
    BY <1>1, NoWaiter DEF QueriesOK
  <2> QED
    BY <1>1, <2>1, WaitersSame DEF QueriesOK
<1>3. AnswersOK'
  <2> SUFFICES ASSUME NEW q \in DOMAIN queries
               PROVE  /\ queries'[q].stage = "waiting" => IsAnswer(queries'[q].answer)
                      /\ ~real => queries'[q].stage \notin {"scan", "waiting"}
    BY <1>1, Zenon DEF AnswersOK, IsAnswer, Error, Ok
  <2>1. CASE q = n
    BY <1>1, <2>1
  <2>2. CASE q # n
    <3>1. queries'[q] = queries[q]
      BY <1>1, <2>2
    <3>2. /\ queries[q].stage = "waiting" => IsAnswer(queries[q].answer)
          /\ ~real => queries[q].stage \notin {"scan", "waiting"}
      BY Zenon DEF QueriesOK, AnswersOK
    <3> QED
      BY <3>1, <3>2
  <2> QED
    BY <2>1, <2>2
<1> QED
  BY <1>1, <1>2, <1>3 DEF QueriesOK

\* No query changes, and a transfer is added that none waits for, or none.
LEMMA QueriesSame ==
  ASSUME QueriesOK, UNCHANGED <<queries, inflight>>, real' => real, queries = <<>> \/ real' = real
  PROVE  QueriesOK'
<1>1. FramesOK'
  BY DEF QueriesOK, FramesOK, IsSeq, IsFrame
<1>2. WaitersOK'
  BY DEF QueriesOK, WaitersOK, HidRequest
<1>3. AnswersOK'
  <2>1. queries = <<>> => DOMAIN queries = {}
    BY EmptyList
  <2> SUFFICES ASSUME NEW q \in DOMAIN queries
               PROVE  /\ queries[q].stage = "waiting" => IsAnswer(queries[q].answer)
                      /\ ~real' => queries[q].stage \notin {"scan", "waiting"}
    BY Zenon DEF AnswersOK, IsAnswer, Error, Ok
  <2>2. real' = real
    BY <2>1
  <2> QED
    BY <2>2, Zenon DEF QueriesOK, AnswersOK
<1> QED
  BY <1>1, <1>2, <1>3 DEF QueriesOK

\* The transfers change, and no query.
LEMMA FramesSame ==
  ASSUME QueriesOK, UNCHANGED <<queries, real>>
  PROVE  FramesOK' /\ AnswersOK'
<1>1. FramesOK'
  BY DEF QueriesOK, FramesOK, IsSeq, IsFrame
<1>2. AnswersOK'
  BY Zenon DEF QueriesOK, AnswersOK, IsAnswer, Error, Ok
<1> QED
  BY <1>1, <1>2

LEMMA AskQueries ==
  ASSUME QueriesOK, EventsOK, NEW r \in Requests, Ask(r)
  PROVE  QueriesOK'
<1>1. UNCHANGED <<queries, real>>
      /\ (UNCHANGED inflight \/ inflight' = Submitted(r, Len(session) + 1, 0, 0))
  BY Zenon DEF Ask, GetStringDescriptor, GetStringDescriptorBytes, GetCustomIndex,
     GetConfigurationIndex, Transfer, Refuse, Record, RecordBytes, device
<1>2. CASE UNCHANGED inflight
  BY <1>1, <1>2, QueriesSame
<1>3. CASE inflight' = Submitted(r, Len(session) + 1, 0, 0)
  <2> DEFINE t == [request |-> r, place |-> NextPlace, entry |-> Len(session) + 1,
                   query |-> 0, size |-> 0]
  <2>1. inflight' = Append(inflight, t) /\ t.query = 0
    BY <1>3 DEF Submitted
  <2> HIDE DEF t
  <2>2. WaitersOK'
    BY <1>1, <2>1, WaitersAdded DEF QueriesOK, WaitersOK
  <2> QED
    BY <1>1, <2>2, FramesSame DEF QueriesOK
<1> QED
  BY <1>1, <1>2, <1>3

\* A transfer is through; its query, if it has one, no longer counts.
LEMMA RemovedWaiter ==
  ASSUME WaitersOK, EventsOK, NEW i \in DOMAIN inflight, inflight' = RemoveAt(inflight, i),
         DOMAIN queries' = DOMAIN queries,
         \A q \in DOMAIN queries : q # inflight[i].query => queries'[q] = queries[q]
  PROVE  WaitersOK'
<1> DEFINE s == inflight
           r == RemoveAt(s, i)
<1>0. IsSeq(s) /\ i \in DOMAIN s
  BY DEF EventsOK
<1> HIDE DEF s
<1>1. LeftOf(s, i, r) /\ inflight' = r /\ DOMAIN r = 1 .. Len(s) - 1
  BY <1>0, RemoveAtOfSeq DEF s
<1> USE DEF s
<1> HIDE DEF r
<1>2. PICK at \in [1 .. Len(s) - 1 -> DOMAIN s \ {i}] :
        /\ \A j, k \in 1 .. Len(s) - 1 : j < k => at[j] < at[k]
        /\ \A j \in 1 .. Len(s) - 1 : r[j] = s[at[j]]
  BY <1>1 DEF LeftOf
<1>3. \A j, k \in 1 .. Len(inflight) - 1 : j # k => at[j] # at[k]
  <2> SUFFICES ASSUME NEW j \in 1 .. Len(inflight) - 1, NEW k \in 1 .. Len(inflight) - 1, j # k
               PROVE  at[j] # at[k]
    OBVIOUS
  <2>0. Len(inflight) \in Nat /\ DOMAIN inflight = 1 .. Len(inflight)
    BY IsSeqOfElements DEF EventsOK, IsSeq
  <2>1. at[j] \in Int /\ at[k] \in Int
    BY <1>2, <2>0
  <2>2. at[j] < at[k] \/ at[k] < at[j]
    BY <1>2, <2>0
  <2> QED
    BY <2>1, <2>2
<1>4. ASSUME NEW j \in DOMAIN inflight'
      PROVE  /\ at[j] \in DOMAIN inflight /\ inflight'[j] = inflight[at[j]]
             /\ inflight'[j].query # 0 =>
                  /\ inflight'[j].query \in DOMAIN queries'
                  /\ queries'[inflight'[j].query] = queries[inflight'[j].query]
  <2>1. at[j] \in DOMAIN inflight \ {i} /\ inflight'[j] = inflight[at[j]]
    BY <1>2, <1>1
  <2>2. inflight[at[j]].query # 0 =>
          inflight[at[j]].query \in DOMAIN queries /\ inflight[at[j]].query # inflight[i].query
    BY <2>1 DEF WaitersOK
  <2> QED
    BY <2>1, <2>2
<1>5. \A j, k \in DOMAIN inflight' : j # k => at[j] # at[k]
  BY <1>1, <1>3
<1>6. \A j \in DOMAIN inflight' :
        /\ at[j] \in DOMAIN inflight
        /\ inflight'[j].query = inflight[at[j]].query
        /\ inflight'[j].request = inflight[at[j]].request
        /\ inflight'[j].size = inflight[at[j]].size
        /\ inflight'[j].query # 0 => /\ inflight'[j].query \in DOMAIN queries'
                                     /\ queries'[inflight'[j].query] = queries[inflight'[j].query]
  BY <1>4
<1> QED
  BY <1>5, <1>6, WaitersKept, Zenon

LEMMA TransferCbQueries ==
  ASSUME QueriesOK, EventsOK, NEW i \in DOMAIN inflight,
         NEW cancelled \in BOOLEAN, TransferCb(i, cancelled)
  PROVE  QueriesOK'
<1>1. UNCHANGED <<queries, real>> /\ inflight' = RemoveAt(inflight, i)
  BY DEF TransferCb, device
<1>2. WaitersOK'
  BY <1>1, RemovedWaiter DEF QueriesOK
<1> QED
  BY <1>1, <1>2, FramesSame DEF QueriesOK

\* The answer of one query that waits changes.
LEMMA AnswerFrame ==
  ASSUME FramesOK, NEW n \in DOMAIN queries, NEW answer,
         queries' = [queries EXCEPT ![n].answer = answer]
  PROVE  /\ FramesOK' /\ DOMAIN queries' = DOMAIN queries
         /\ \A q \in DOMAIN queries : q # n => queries'[q] = queries[q]
         /\ queries'[n].answer = answer /\ queries'[n].stage = queries[n].stage
         /\ queries'[n].bos = queries[n].bos /\ queries'[n].at = queries[n].at
<1> DEFINE f == queries[n]
           qs == [queries EXCEPT ![n] = [f EXCEPT !.answer = answer]]
           m == Len(queries)
<1>1. IsSeq(queries) /\ m \in Nat /\ DOMAIN queries = 1 .. m
  BY IsSeqOfElements DEF FramesOK, IsSeq
<1>2. f = [stage |-> f.stage, saving |-> f.saving, bos |-> f.bos, at |-> f.at, answer |-> f.answer]
  BY DEF FramesOK, IsFrame
<1>3. queries' = qs
  OBVIOUS
<1> HIDE DEF f
<1>4. /\ qs = [q \in 1 .. m |-> qs[q]] /\ \A q \in 1 .. m : q # n => qs[q] = queries[q]
      /\ qs[n] = [f EXCEPT !.answer = answer]
  BY <1>1
<1> HIDE DEF qs
<1>5. qs[n] = [stage |-> f.stage, saving |-> f.saving, bos |-> f.bos, at |-> f.at, answer |-> answer]
  BY <1>2, <1>4
<1>6. IsSeq(qs) /\ DOMAIN qs = 1 .. m
  BY <1>1, <1>4, FunctionIsSeq
<1>7. IsFrame(qs[n]) /\ qs[n].answer = answer /\ qs[n].stage = f.stage /\ qs[n].bos = f.bos
      /\ qs[n].at = f.at
  BY <1>5 DEF IsFrame
<1>8. \A q \in DOMAIN qs : IsFrame(qs[q])
  BY <1>1, <1>4, <1>6, <1>7 DEF FramesOK
<1>9. FramesOK'
  BY <1>3, <1>6, <1>8 DEF FramesOK, IsSeq, IsFrame
<1> QED
  BY <1>1, <1>3, <1>4, <1>6, <1>7, <1>9 DEF f

LEMMA HidTransferCbQueries ==
  ASSUME QueriesOK, EventsOK, NEW i \in DOMAIN inflight, HidTransferCb(i)
  PROVE  QueriesOK'
<1> DEFINE t == inflight[i]
           n == t.query
<1>1. PICK status, bytes :
        /\ queries' = [queries EXCEPT ![n].answer =
             IF bytes # Null /\ Len(bytes) = t.size THEN Ok(bytes) ELSE Error(status)]
        /\ bytes \in {Report[t.request.hid], <<>>, Null}
  BY Zenon DEF HidTransferCb
<1>2. n # 0 /\ inflight' = RemoveAt(inflight, i) /\ real' = real
  BY Zenon DEF HidTransferCb, device
<1>3. n \in DOMAIN queries /\ queries[n].stage = "waiting" /\ t.size # 0
      /\ \E m \in DOMAIN Report : t.request = HidRequest(m)
  BY <1>2 DEF QueriesOK, WaitersOK
<1> DEFINE answer == IF bytes # Null /\ Len(bytes) = t.size THEN Ok(bytes) ELSE Error(status)
<1>4. IsAnswer(answer)
  <2>1. PICK m \in DOMAIN Report : t.request = HidRequest(m)
    BY <1>3
  <2>2. t.request.hid = m
    BY <2>1 DEF HidRequest
  <2>3. Len(<<>>) = 0
    OBVIOUS
  <2>4. CASE bytes # Null /\ Len(bytes) = t.size
    <3>1. bytes = Report[m]
      BY <1>1, <1>3, <2>2, <2>3, <2>4
    <3> QED
      BY <2>4, <3>1 DEF IsAnswer
  <2>5. CASE ~(bytes # Null /\ Len(bytes) = t.size)
    BY <2>5 DEF IsAnswer
  <2> QED
    BY <2>4, <2>5
<1>5. queries' = [queries EXCEPT ![n].answer = answer]
  BY <1>1
<1> HIDE DEF answer, n
<1>6. /\ FramesOK' /\ DOMAIN queries' = DOMAIN queries
      /\ \A q \in DOMAIN queries : q # n => queries'[q] = queries[q]
      /\ queries'[n].answer = answer /\ queries'[n].stage = queries[n].stage
  BY <1>3, <1>5, AnswerFrame DEF QueriesOK
<1>7. WaitersOK'
  BY <1>2, <1>6, RemovedWaiter DEF QueriesOK, n
<1>8. AnswersOK'
  <2> SUFFICES ASSUME NEW q \in DOMAIN queries
               PROVE  /\ queries'[q].stage = "waiting" => IsAnswer(queries'[q].answer)
                      /\ ~real => queries'[q].stage \notin {"scan", "waiting"}
    BY <1>2, <1>6, Zenon DEF AnswersOK, IsAnswer, Error, Ok
  <2>1. /\ queries[q].stage = "waiting" => IsAnswer(queries[q].answer)
        /\ ~real => queries[q].stage \notin {"scan", "waiting"}
    BY Zenon DEF QueriesOK, AnswersOK
  <2>2. CASE q = n
    BY <1>4, <1>6, <2>1, <2>2
  <2>3. CASE q # n
    BY <1>6, <2>1, <2>3
  <2> QED
    BY <2>2, <2>3
<1> QED
  BY <1>6, <1>7, <1>8 DEF QueriesOK

\* The events are replaced, the queries go on.
LEMMA ReplaceQueries ==
  ASSUME QueriesOK, EventsOK, NEW es, NEW entries, ReplaceEvents(es, entries)
  PROVE  QueriesOK'
<1>1. UNCHANGED <<queries, real>> /\ inflight' = Forget
  BY DEF ReplaceEvents, device
<1>2. DOMAIN inflight' = DOMAIN inflight
  BY <1>1 DEF Forget
<1>3. ASSUME NEW i \in DOMAIN inflight
      PROVE  /\ inflight'[i].query = inflight[i].query
             /\ inflight'[i].request = inflight[i].request
             /\ inflight'[i].size = inflight[i].size
  <2> DEFINE t == inflight[i]
             place == IF t.place = 0 THEN 0 ELSE Gone
  <2>1. t = [request |-> t.request, place |-> t.place, entry |-> t.entry, query |-> t.query,
             size |-> t.size]
    BY DEF EventsOK, IsTransfer
  <2>2. inflight'[i] = [t EXCEPT !.place = place, !.entry = 0]
    BY <1>1 DEF Forget
  <2> HIDE DEF t
  <2>3. inflight'[i] = [request |-> t.request, place |-> place, entry |-> 0, query |-> t.query,
                        size |-> t.size]
    BY <2>1, <2>2
  <2> QED
    BY <2>3 DEF t
<1>4. WaitersOK'
  <2> DEFINE at == [i \in DOMAIN inflight |-> i]
  <2>1. \A i \in DOMAIN inflight : at[i] = i
    OBVIOUS
  <2> HIDE DEF at
  <2>2. \A i \in DOMAIN inflight' :
          /\ at[i] \in DOMAIN inflight
          /\ inflight'[i].query = inflight[at[i]].query
          /\ inflight'[i].request = inflight[at[i]].request
          /\ inflight'[i].size = inflight[at[i]].size
          /\ inflight'[i].query # 0 => /\ inflight'[i].query \in DOMAIN queries'
                                       /\ queries'[inflight'[i].query] = queries[inflight'[i].query]
    BY <1>1, <1>2, <1>3, <2>1 DEF QueriesOK, WaitersOK
  <2>3. \A i, j \in DOMAIN inflight' : i # j => at[i] # at[j]
    BY <1>2, <2>1
  <2> QED
    BY <2>2, <2>3, WaitersKept, Zenon DEF QueriesOK
<1> QED
  BY <1>1, <1>4, FramesSame DEF QueriesOK

LEMMA NewQuery ==
  ASSUME QueriesOK, EventsOK, NEW saving, NEW list,
         queries' = Append(queries, Frame(saving, list)), UNCHANGED <<inflight, real>>
  PROVE  QueriesOK'
<1> DEFINE n == Len(queries) + 1
<1>1. /\ FramesOK' /\ DOMAIN queries' = DOMAIN queries \cup {n} /\ n \notin DOMAIN queries
      /\ \A q \in DOMAIN queries : queries'[q] = queries[q]
      /\ queries'[n].stage = "start"
  BY AppendFrame DEF QueriesOK
<1> HIDE DEF n
<1>2. WaitersOK'
  <2>1. \A i \in DOMAIN inflight : inflight[i].query # 0 => inflight[i].query \in DOMAIN queries
    BY DEF QueriesOK, WaitersOK
  <2> QED
    BY <1>1, <2>1, WaitersSame DEF QueriesOK
<1>3. AnswersOK'
  <2> SUFFICES ASSUME NEW q \in DOMAIN queries'
               PROVE  /\ queries'[q].stage = "waiting" => IsAnswer(queries'[q].answer)
                      /\ ~real => queries'[q].stage \notin {"scan", "waiting"}
    BY Zenon DEF AnswersOK, IsAnswer, Error, Ok
  <2>1. CASE q = n
    BY <1>1, <2>1
  <2>2. CASE q # n
    <3>1. q \in DOMAIN queries /\ queries'[q] = queries[q]
      BY <1>1, <2>2
    <3>2. /\ queries[q].stage = "waiting" => IsAnswer(queries[q].answer)
          /\ ~real => queries[q].stage \notin {"scan", "waiting"}
      BY <3>1, Zenon DEF QueriesOK, AnswersOK
    <3> QED
      BY <3>1, <3>2
  <2> QED
    BY <2>1, <2>2
<1> QED
  BY <1>1, <1>2, <1>3 DEF QueriesOK

\* The innermost query returns.
LEMMA ReturnQuery ==
  ASSUME QueriesOK, InQuery("return"), queries' = Front(queries), UNCHANGED <<inflight, real>>
  PROVE  QueriesOK'
<1> DEFINE n == Len(queries)
<1>1. /\ FramesOK' /\ DOMAIN queries' = DOMAIN queries \ {n}
      /\ Last(queries) = queries[n] /\ queries[n].stage = "return"
      /\ \A q \in DOMAIN queries' : queries'[q] = queries[q]
  BY FrontFrame DEF QueriesOK, InQuery
<1> HIDE DEF n
<1>2. WaitersOK'
  <2>1. \A i \in DOMAIN inflight : inflight[i].query # 0 =>
          inflight[i].query # n /\ inflight[i].query \in DOMAIN queries
    BY <1>1, NoWaiter DEF QueriesOK
  <2>2. \A i \in DOMAIN inflight : inflight[i].query # 0 =>
          /\ inflight[i].query \in DOMAIN queries'
          /\ queries'[inflight[i].query] = queries[inflight[i].query]
    BY <1>1, <2>1
  <2> QED
    BY <2>2, WaitersSame DEF QueriesOK
<1>3. AnswersOK'
  <2> SUFFICES ASSUME NEW q \in DOMAIN queries'
               PROVE  /\ queries'[q].stage = "waiting" => IsAnswer(queries'[q].answer)
                      /\ ~real => queries'[q].stage \notin {"scan", "waiting"}
    BY Zenon DEF AnswersOK, IsAnswer, Error, Ok
  <2>1. q \in DOMAIN queries /\ queries'[q] = queries[q]
    BY <1>1
  <2>2. /\ queries[q].stage = "waiting" => IsAnswer(queries[q].answer)
        /\ ~real => queries[q].stage \notin {"scan", "waiting"}
    BY <2>1, Zenon DEF QueriesOK, AnswersOK
  <2> QED
    BY <2>1, <2>2
<1> QED
  BY <1>1, <1>2, <1>3 DEF QueriesOK

LEMMA HidStartQueries ==
  ASSUME QueriesOK, HidStart
  PROVE  QueriesOK'
<1>1. /\ queries # <<>> /\ Last(queries).stage = "start" /\ UNCHANGED <<inflight, real>>
  BY DEF HidStart, InQuery, device, recording
<1>2. (\E answer : Leave(answer)) \/ (real /\ Go("scan", 0, Null))
  BY Zenon DEF HidStart
<1>3. CASE \E answer : Leave(answer)
  <2>1. PICK answer : Go("return", 0, answer)
    BY <1>3 DEF Leave
  <2> QED
    BY <1>1, <2>1, GoKeeps
<1>4. CASE real /\ Go("scan", 0, Null)
  BY <1>1, <1>4, GoKeeps
<1> QED
  BY <1>2, <1>3, <1>4

LEMMA HidAnswerQueries ==
  ASSUME QueriesOK, HidAnswer
  PROVE  QueriesOK'
<1>1. /\ queries # <<>> /\ Last(queries).stage = "waiting" /\ Last(queries).answer # Null
      /\ UNCHANGED <<inflight, real>>
  BY DEF HidAnswer, InQuery, device, recording
<1>2. PICK stage, at, answer : Go(stage, at, answer) /\ stage \in {"return", "scan"}
  BY Zenon DEF HidAnswer, Fail, Leave
<1>3. real
  <2>1. Len(queries) \in DOMAIN queries /\ Last(queries) = queries[Len(queries)]
    BY <1>1, <1>2, GoFrame DEF QueriesOK
  <2> QED
    BY <1>1, <2>1 DEF QueriesOK, AnswersOK
<1> QED
  BY <1>1, <1>2, <1>3, GoKeeps

\* A query starts to wait for a transfer that is submitted.
LEMMA WaitKeeps ==
  ASSUME QueriesOK, EventsOK, real, InQuery("scan"), NEW n \in DOMAIN Report, NEW at, NEW size, size # 0,
         Go("waiting", at, Null), inflight' = Submitted(HidRequest(n), 0, Len(queries), size),
         UNCHANGED real
  PROVE  QueriesOK'
<1> DEFINE m == Len(queries)
           t == [request |-> HidRequest(n), place |-> NextPlace, entry |-> 0, query |-> m,
                 size |-> size]
<1>1. /\ FramesOK' /\ DOMAIN queries' = DOMAIN queries /\ m \in DOMAIN queries
      /\ queries[m].stage = "scan"
      /\ \A q \in DOMAIN queries \ {m} : queries'[q] = queries[q]
      /\ queries'[m].stage = "waiting" /\ queries'[m].answer = Null
  BY GoFrame DEF QueriesOK, InQuery
<1> HIDE DEF m
<1>2. /\ inflight' = Append(inflight, t) /\ t.query = m /\ t.size # 0
      /\ t.request = HidRequest(n)
  BY DEF Submitted, m
<1> HIDE DEF t
<1>3. \A i \in DOMAIN inflight : inflight[i].query # 0 =>
        inflight[i].query # m /\ inflight[i].query \in DOMAIN queries
  BY <1>1, NoWaiter DEF QueriesOK
<1>4. \A j \in DOMAIN inflight : t.query # 0 => inflight[j].query # t.query
  BY <1>2, <1>3
<1>5. WaitersOK'
  <2>1. \A i \in DOMAIN inflight : inflight[i].query # 0 =>
          /\ inflight[i].query \in DOMAIN queries'
          /\ queries'[inflight[i].query] = queries[inflight[i].query]
    BY <1>1, <1>3
  <2>2. t.query # 0 =>
          /\ t.query \in DOMAIN queries'
          /\ queries'[t.query].stage = "waiting" /\ queries'[t.query].answer = Null
          /\ \E k \in DOMAIN Report : t.request = HidRequest(k)
          /\ t.size # 0
          /\ \A j \in DOMAIN inflight : inflight[j].query # t.query
    BY <1>1, <1>2, <1>4
  <2> QED
    BY <1>2, <2>1, <2>2, WaitersAdded DEF QueriesOK
<1>6. AnswersOK'
  <2> SUFFICES ASSUME NEW q \in DOMAIN queries
               PROVE  queries'[q].stage = "waiting" => IsAnswer(queries'[q].answer)
    BY <1>1, Zenon DEF AnswersOK, IsAnswer, Error, Ok
  <2>1. CASE q = m
    BY <1>1, <2>1 DEF IsAnswer
  <2>2. CASE q # m
    <3>1. queries'[q] = queries[q]
      BY <1>1, <2>2
    <3>2. queries[q].stage = "waiting" => IsAnswer(queries[q].answer)
      BY Zenon DEF QueriesOK, AnswersOK
    <3> QED
      BY <3>1, <3>2
  <2> QED
    BY <2>1, <2>2
<1> QED
  BY <1>1, <1>5, <1>6 DEF QueriesOK

-----------------------------------------------------------------------------
(* The caches of a real device.                                            *)

InterfacesOK ==
  IF interfaces.valid THEN \E c \in DOMAIN Hardware : interfaces.list = AllSettings(c)
  ELSE interfaces.list = <<>>

BosOK == IF bos.valid THEN bos.list = Capabilities ELSE bos.list = <<>>

ReportsOK ==
  /\ IsSeq(hid.list)
  /\ \A i \in DOMAIN hid.list : \E n \in DOMAIN Report : hid.list[i] = Report[n]

CacheInv == QueriesOK /\ (real => InterfacesOK /\ BosOK /\ ReportsOK)

\* Each HID interface of the device has its report descriptor.
LEMMA SettingsOf ==
  ASSUME HardwareAssumption, NEW c \in DOMAIN Hardware
  PROVE  LET S == {f \in Setting : IsHid(f) => f.desc.InterfaceNumber \in DOMAIN Report}
         IN AllSettings(c) \in Seq(S) /\ <<>> \o AllSettings(c) = AllSettings(c)
<1> DEFINE S == {f \in Setting : IsHid(f) => f.desc.InterfaceNumber \in DOMAIN Report}
<1>1. Hardware[c].interfaces \in Seq(Seq(S))
  BY DEF HardwareAssumption
<1> HIDE DEF S
<1>2. AllSettings(c) \in Seq(S)
  BY <1>1, FlattenIsSeq DEF AllSettings
<1>3. <<>> \o AllSettings(c) = AllSettings(c)
  BY <1>2, ConcatEmptySeq
<1> QED
  BY <1>2, <1>3 DEF S

\* The interfaces are there or are fetched, and then are all there.
LEMMA FetchedInterfaces ==
  ASSUME HardwareAssumption, config \in DOMAIN Hardware, InterfacesOK, NEW list,
         FetchInterfaces(list)
  PROVE  InterfacesOK'
<1>1. CASE interfaces' = interfaces
  BY <1>1 DEF InterfacesOK, AllSettings
<1>2. CASE ~interfaces.valid /\ interfaces' = [list |-> interfaces.list \o AllSettings(config), valid |-> TRUE]
  <2> DEFINE all == interfaces.list \o AllSettings(config)
  <2>1. all = AllSettings(config)
    BY <1>2, SettingsOf DEF InterfacesOK
  <2> HIDE DEF all
  <2>2. interfaces'.valid /\ interfaces'.list = all
    BY <1>2 DEF all
  <2> QED
    BY <2>1, <2>2 DEF InterfacesOK, AllSettings
<1> QED
  BY <1>1, <1>2, Zenon DEF FetchInterfaces

LEMMA FetchedBos ==
  ASSUME HardwareAssumption, BosOK, NEW list, FetchBos(list)
  PROVE  BosOK'
<1>1. CASE bos' = bos
  BY <1>1 DEF BosOK
<1>2. CASE ~bos.valid /\ bos' = [list |-> bos.list \o Capabilities, valid |-> TRUE]
  <2>1. bos.list \o Capabilities = Capabilities
    BY <1>2, ConcatEmptySeq DEF BosOK, HardwareAssumption
  <2> QED
    BY <1>2, <2>1 DEF BosOK
<1> QED
  BY <1>1, <1>2, Zenon DEF FetchBos

\* The caches of a device that is still what it was.
LEMMA CacheKept ==
  ASSUME CacheInv, QueriesOK', UNCHANGED <<interfaces, bos, hid, real>>
  PROVE  CacheInv'
BY Zenon DEF CacheInv, InterfacesOK, BosOK, ReportsOK, IsSeq, AllSettings

\* Each HID interface in the cache has its report descriptor.
LEMMA HidInterface ==
  ASSUME HardwareAssumption, InterfacesOK, NEW i \in DOMAIN interfaces.list,
         IsHid(interfaces.list[i])
  PROVE  interfaces.list[i].desc.InterfaceNumber \in DOMAIN Report
<1> DEFINE S == {f \in Setting : IsHid(f) => f.desc.InterfaceNumber \in DOMAIN Report}
           l == interfaces.list
<1>1. CASE interfaces.valid
  <2>1. PICK c \in DOMAIN Hardware : l = AllSettings(c)
    BY <1>1 DEF InterfacesOK
  <2>2. l \in Seq(S)
    BY <2>1, SettingsOf
  <2>3. i \in DOMAIN l
    OBVIOUS
  <2> HIDE DEF l, S
  <2>4. l[i] \in S
    BY <2>2, <2>3, SeqOfSet
  <2> QED
    BY <2>4 DEF S, l
<1>2. CASE ~interfaces.valid
  <2>1. DOMAIN l = {}
    BY <1>2, EmptyList DEF InterfacesOK
  <2> QED
    BY <2>1
<1> QED
  BY <1>1, <1>2

LEMMA ListOfInterfaces ==
  ASSUME HardwareAssumption, InterfacesOK
  PROVE  DOMAIN interfaces.list \subseteq Nat
<1>1. CASE interfaces.valid
  <2>1. PICK c \in DOMAIN Hardware : interfaces.list = AllSettings(c)
    BY <1>1 DEF InterfacesOK
  <2> DEFINE S == {f \in Setting : IsHid(f) => f.desc.InterfaceNumber \in DOMAIN Report}
  <2>2. interfaces.list \in Seq(S)
    BY <2>1, SettingsOf
  <2> HIDE DEF S
  <2> QED
    BY <2>2, SeqOfSet
<1>2. CASE ~interfaces.valid
  BY <1>2, EmptyList DEF InterfacesOK
<1> QED
  BY <1>1, <1>2

LEMMA ScanIsReal ==
  ASSUME CacheInv, InQuery("scan")
  PROVE  /\ real /\ InterfacesOK /\ BosOK /\ ReportsOK
         /\ queries # <<>> /\ Last(queries).stage = "scan"
<1>1. queries # <<>> /\ Len(queries) \in DOMAIN queries /\ Last(queries) = queries[Len(queries)]
  <2>1. queries # <<>> /\ FramesOK
    BY DEF CacheInv, QueriesOK, InQuery
  <2> QED
    BY <2>1, Innermost
<1>2. real
  BY <1>1 DEF CacheInv, QueriesOK, AnswersOK, InQuery
<1> QED
  BY <1>1, <1>2 DEF CacheInv, InQuery

LEMMA HidScanCaches ==
  ASSUME HardwareAssumption, DeviceInv, CacheInv, HidScan
  PROVE  CacheInv'
<1>1. InQuery("scan") /\ UNCHANGED <<interfaces, bos, real>>
  BY DEF HidScan, device
<1>2. /\ real /\ InterfacesOK /\ BosOK /\ ReportsOK
      /\ queries # <<>> /\ Last(queries).stage = "scan"
  BY <1>1, ScanIsReal
<1> DEFINE next == {i \in DOMAIN interfaces.list :
                     i > Last(queries).at /\ IsHid(interfaces.list[i])}
           f == interfaces.list[Min(next)]
           r == HidRequest(f.desc.InterfaceNumber)
<1>3. \/ (\E answer : Leave(answer)) /\ UNCHANGED inflight
      \/ /\ next # {} /\ ReportSize(f) # 0
         /\ inflight' = Submitted(r, 0, Len(queries), ReportSize(f))
         /\ Go("waiting", Min(next), Null)
  BY Zenon DEF HidScan, Fail
<1>4. QueriesOK'
  <2>1. CASE (\E answer : Leave(answer)) /\ UNCHANGED inflight
    <3>1. PICK answer : Go("return", 0, answer)
      BY <2>1 DEF Leave
    <3> QED
      BY <1>1, <1>2, <2>1, <3>1, GoKeeps DEF CacheInv
  <2>2. CASE /\ next # {} /\ ReportSize(f) # 0
             /\ inflight' = Submitted(r, 0, Len(queries), ReportSize(f))
             /\ Go("waiting", Min(next), Null)
    <3>1. next \subseteq Nat
      BY <1>2, ListOfInterfaces
    <3>2. Min(next) \in next
      BY <2>2, <3>1, MinIsLeast
    <3>3. f.desc.InterfaceNumber \in DOMAIN Report
      BY <1>2, <3>2, HidInterface
    <3> DEFINE n == f.desc.InterfaceNumber
               size == ReportSize(f)
               at == Min(next)
    <3>4. /\ n \in DOMAIN Report /\ size # 0 /\ Go("waiting", at, Null)
          /\ inflight' = Submitted(HidRequest(n), 0, Len(queries), size)
      BY <2>2, <3>3
    <3> HIDE DEF n, size, at
    <3> QED
      BY <1>1, <1>2, <3>4, WaitKeeps DEF CacheInv, DeviceInv
  <2> QED
    BY <1>3, <2>1, <2>2
<1>5. hid'.list = hid.list
  <2>1. IsCache(hid) /\ (UNCHANGED hid \/ hid' = [hid EXCEPT !.valid = TRUE])
    BY Zenon DEF HidScan, Fail, DeviceInv, CachesOK
  <2> QED
    BY <2>1 DEF IsCache
<1>6. InterfacesOK' /\ BosOK' /\ ReportsOK'
  BY <1>1, <1>2, <1>5 DEF InterfacesOK, BosOK, ReportsOK, IsSeq, AllSettings
<1> QED
  BY <1>4, <1>6 DEF CacheInv

\* A report descriptor comes in, and comes into the cache as it is.
LEMMA HidAnswerCaches ==
  ASSUME DeviceInv, CacheInv, NullIsNone, HidAnswer
  PROVE  CacheInv'
<1>1. QueriesOK'
  BY HidAnswerQueries DEF CacheInv
<1> DEFINE n == Len(queries)
           a == queries[n].answer
<1>2. /\ InQuery("waiting") /\ UNCHANGED <<interfaces, bos, real>>
      /\ Last(queries).answer # Null
      /\ \/ UNCHANGED hid
         \/ ~Failed(Last(queries).answer)
            /\ hid' = [hid EXCEPT !.list = Append(hid.list, Last(queries).answer.ok)]
  BY Zenon DEF HidAnswer, Fail, device
<1>3. n \in DOMAIN queries /\ Last(queries) = queries[n] /\ queries[n].stage = "waiting"
  <2>1. queries # <<>> /\ FramesOK
    BY <1>2 DEF CacheInv, QueriesOK, InQuery
  <2> QED
    BY <1>2, <2>1, Innermost DEF InQuery
<1>4. real /\ IsAnswer(a)
  BY <1>3 DEF CacheInv, QueriesOK, AnswersOK
<1>5. InterfacesOK /\ BosOK /\ ReportsOK
  BY <1>4 DEF CacheInv
<1>6. ReportsOK'
  <2>1. CASE UNCHANGED hid
    BY <1>5, <2>1 DEF ReportsOK, IsSeq
  <2>2. CASE ~Failed(a) /\ hid' = [hid EXCEPT !.list = Append(hid.list, a.ok)]
    <3>1. PICK m \in DOMAIN Report : a = Ok(Report[m])
      <4>1. a # Null
        BY <1>2, <1>3
      <4>2. \A status : a # Error(status)
        BY <2>2 DEF Failed, Error
      <4> QED
        BY <1>4, <4>1, <4>2 DEF IsAnswer
    <3>2. a.ok = Report[m]
      BY <3>1 DEF Ok
    <3>3. hid'.list = Append(hid.list, Report[m])
      <4>1. IsCache(hid)
        BY DEF DeviceInv, CachesOK
      <4> HIDE DEF a
      <4> QED
        BY <2>2, <3>2, <4>1 DEF IsCache
    <3>4. IsSeq(hid.list) /\ Len(hid.list) \in Nat /\ DOMAIN hid.list = 1 .. Len(hid.list)
      BY <1>5, IsSeqOfElements DEF ReportsOK, IsSeq
    <3> DEFINE l == hid.list
               k == Append(l, Report[m])
    <3>5. /\ IsSeq(k) /\ Len(k) = Len(l) + 1 /\ k[Len(l) + 1] = Report[m]
          /\ \A i \in 1 .. Len(l) : k[i] = l[i]
      BY <3>4, AppendIsSeq
    <3>6. DOMAIN k = 1 .. Len(l) + 1
      BY <3>5, IsSeqOfElements
    <3> HIDE DEF k
    <3>7. ASSUME NEW i \in DOMAIN k
          PROVE  \E j \in DOMAIN Report : k[i] = Report[j]
      <4>1. CASE i = Len(l) + 1
        BY <3>5, <4>1
      <4>2. CASE i # Len(l) + 1
        <5>1. i \in 1 .. Len(l)
          BY <3>4, <3>6, <4>2
        <5> QED
          BY <1>5, <3>4, <3>5, <5>1 DEF ReportsOK
      <4> QED
        BY <4>1, <4>2
    <3> QED
      BY <3>3, <3>5, <3>7 DEF ReportsOK, IsSeq, k
  <2> QED
    BY <1>2, <1>3, <2>1, <2>2
<1>7. InterfacesOK' /\ BosOK'
  BY <1>2, <1>5 DEF InterfacesOK, BosOK, AllSettings
<1> QED
  BY <1>1, <1>6, <1>7 DEF CacheInv

\* What is fetched, for the application or for a query, is the real device's.
LEMMA FetchCaches ==
  ASSUME HardwareAssumption, DeviceInv, CacheInv, QueriesOK', NEW list,
         \/ FetchInterfaces(list) /\ UNCHANGED bos
         \/ FetchBos(list) /\ UNCHANGED interfaces,
         UNCHANGED <<real, hid>>
  PROVE  CacheInv'
<1> SUFFICES ASSUME real
             PROVE  InterfacesOK' /\ BosOK' /\ ReportsOK'
  BY DEF CacheInv
<1>1. InterfacesOK /\ BosOK /\ ReportsOK /\ config \in DOMAIN Hardware
  BY DEF CacheInv, DeviceInv, DeviceOK
<1>2. ReportsOK'
  BY <1>1 DEF ReportsOK, IsSeq
<1>3. CASE FetchInterfaces(list) /\ UNCHANGED bos
  BY <1>1, <1>2, <1>3, FetchedInterfaces DEF BosOK
<1>4. CASE FetchBos(list) /\ UNCHANGED interfaces
  BY <1>1, <1>2, <1>4, FetchedBos DEF InterfacesOK, AllSettings
<1> QED
  BY <1>3, <1>4

LEMMA GetCaches ==
  ASSUME HardwareAssumption, DeviceInv, CacheInv, GetInterface \/ GetBosDescriptors
  PROVE  CacheInv'
<1>1. UNCHANGED <<real, hid, queries, inflight>>
      /\ \E list : \/ FetchInterfaces(list) /\ UNCHANGED bos
                   \/ FetchBos(list) /\ UNCHANGED interfaces
  BY Zenon DEF GetInterface, GetBosDescriptors, device, recording
<1>2. QueriesOK'
  BY <1>1, QueriesSame DEF CacheInv
<1> QED
  BY <1>1, <1>2, FetchCaches

LEMMA InvalidateCaches ==
  ASSUME DeviceInv, CacheInv, Invalidate
  PROVE  CacheInv'
<1>1. UNCHANGED <<real, queries, inflight>>
      /\ interfaces' = [list |-> <<>>, valid |-> FALSE]
      /\ bos' = [list |-> <<>>, valid |-> FALSE]
      /\ hid' = [hid EXCEPT !.list = <<>>]
  BY DEF Invalidate, device, recording
<1>2. QueriesOK'
  BY <1>1, QueriesSame DEF CacheInv
<1>3. InterfacesOK' /\ BosOK'
  BY <1>1 DEF InterfacesOK, BosOK
<1>4. ReportsOK'
  <2>1. IsCache(hid)
    BY DEF DeviceInv, CachesOK
  <2>2. hid'.list = <<>>
    BY <1>1, <2>1 DEF IsCache
  <2> QED
    BY <2>2, EmptyList DEF ReportsOK, IsSeq
<1> QED
  BY <1>2, <1>3, <1>4 DEF CacheInv

LEMMA StartCaches ==
  ASSUME HardwareAssumption, DeviceInv, CacheInv, GetHidDescriptors \/ Save \/ HidStart
  PROVE  CacheInv'
<1>1. CASE GetHidDescriptors
  <2>1. /\ queries' = Append(queries, Frame(FALSE, Null))
        /\ UNCHANGED <<inflight, real, interfaces, bos, hid>>
    BY <1>1 DEF GetHidDescriptors, device, recording
  <2>2. QueriesOK'
    BY <2>1, NewQuery DEF CacheInv, DeviceInv
  <2> QED
    BY <2>1, <2>2, CacheKept
<1>2. CASE Save
  <2>1. PICK list : FetchBos(list) /\ queries' = Append(queries, Frame(TRUE, list))
    BY <1>2 DEF Save
  <2>2. UNCHANGED <<inflight, real, interfaces, hid>>
    BY <1>2 DEF Save, device, recording
  <2>3. QueriesOK'
    BY <2>1, <2>2, NewQuery DEF CacheInv, DeviceInv
  <2> QED
    BY <2>1, <2>2, <2>3, FetchCaches
<1>3. CASE HidStart
  <2>1. QueriesOK'
    BY <1>3, HidStartQueries DEF CacheInv
  <2>2. UNCHANGED <<bos, hid, real>> /\ (UNCHANGED interfaces \/ \E list : FetchInterfaces(list))
    BY <1>3, Zenon DEF HidStart, device
  <2> QED
    BY <2>1, <2>2, FetchCaches, CacheKept
<1> QED
  BY <1>1, <1>2, <1>3

LEMMA ReturnCaches ==
  ASSUME HardwareAssumption, DeviceInv, CacheInv, HidReturn \/ SaveReturn
  PROVE  CacheInv'
<1>1. InQuery("return") /\ queries' = Front(queries) /\ UNCHANGED <<inflight, real, bos, hid>>
  BY DEF HidReturn, SaveReturn, device, caches, recording
<1>2. QueriesOK'
  BY <1>1, ReturnQuery DEF CacheInv
<1>3. UNCHANGED interfaces \/ \E list : FetchInterfaces(list)
  BY Zenon DEF HidReturn, SaveReturn, caches
<1> QED
  BY <1>1, <1>2, <1>3, FetchCaches, CacheKept

LEMMA NoTransfers ==
  ASSUME QueriesOK, UNCHANGED queries, inflight' = <<>>, queries = <<>> \/ real' = real
  PROVE  QueriesOK'
<1>1. FramesOK'
  BY DEF QueriesOK, FramesOK, IsSeq, IsFrame
<1>2. WaitersOK'
  BY EmptyList DEF WaitersOK
<1>3. AnswersOK'
  <2>1. queries = <<>> => DOMAIN queries = {}
    BY EmptyList
  <2>2. CASE queries = <<>>
    BY <2>1, <2>2, Zenon DEF AnswersOK
  <2>3. CASE real' = real
    BY <2>3, Zenon DEF QueriesOK, AnswersOK, IsAnswer, Error, Ok
  <2> QED
    BY <2>2, <2>3
<1> QED
  BY <1>1, <1>2, <1>3 DEF QueriesOK

LEMMA HandleCaches ==
  ASSUME CacheInv, Load \/ Open \/ Close \/ \E c \in DOMAIN Hardware : SetConfiguration(c)
  PROVE  CacheInv'
<1>1. CASE Load
  <2>1. UNCHANGED queries /\ inflight' = <<>> /\ queries = <<>> /\ real' = FALSE
    BY <1>1, Zenon DEF Load
  <2> QED
    BY <2>1, NoTransfers DEF CacheInv
<1>2. CASE Close
  <2>1. UNCHANGED <<queries, real, caches>> /\ inflight' = <<>>
    BY <1>2 DEF Close
  <2> QED
    BY <2>1, NoTransfers, CacheKept DEF caches, CacheInv
<1>3. CASE Open \/ \E c \in DOMAIN Hardware : SetConfiguration(c)
  <2>1. UNCHANGED <<queries, inflight, real, caches>>
    BY <1>3 DEF Open, SetConfiguration, recording
  <2> QED
    BY <2>1, QueriesSame, CacheKept DEF caches, CacheInv
<1> QED
  BY <1>1, <1>2, <1>3

LEMMA RequestCaches ==
  ASSUME DeviceInv, CacheInv,
         \/ \E r \in Requests : Ask(r)
         \/ \E i \in DOMAIN inflight :
              HidTransferCb(i) \/ \E cancelled \in BOOLEAN : TransferCb(i, cancelled)
         \/ ReplayNext \/ ClearEvents \/ LoadEvents \/ UNCHANGED vars
  PROVE  CacheInv'
<1>1. CASE \E r \in Requests : Ask(r)
  <2>1. PICK r \in Requests : Ask(r)
    BY <1>1
  <2>2. UNCHANGED <<caches, real>>
    BY <2>1, Zenon DEF Ask, GetStringDescriptor, GetStringDescriptorBytes, GetCustomIndex,
       GetConfigurationIndex, Transfer, Refuse, Record, RecordBytes, device
  <2> QED
    BY <2>1, <2>2, AskQueries, CacheKept DEF caches, CacheInv, DeviceInv
<1>2. CASE \E i \in DOMAIN inflight : HidTransferCb(i)
  <2>1. UNCHANGED <<caches, real>>
    BY <1>2, Zenon DEF HidTransferCb, device
  <2> QED
    BY <1>2, <2>1, HidTransferCbQueries, CacheKept DEF caches, CacheInv, DeviceInv
<1>3. CASE \E i \in DOMAIN inflight : \E cancelled \in BOOLEAN : TransferCb(i, cancelled)
  <2>1. UNCHANGED <<caches, real>>
    BY <1>3, Zenon DEF TransferCb, device
  <2> QED
    BY <1>3, <2>1, TransferCbQueries, CacheKept DEF caches, CacheInv, DeviceInv
<1>4. CASE ReplayNext
  <2>1. UNCHANGED <<caches, real, queries, inflight>>
    BY <1>4, Zenon DEF ReplayNext, device
  <2> QED
    BY <2>1, QueriesSame, CacheKept DEF caches, CacheInv
<1>5. CASE ClearEvents \/ LoadEvents
  <2>1. PICK es, entries : ReplaceEvents(es, entries)
    BY <1>5, Zenon DEF ClearEvents, LoadEvents
  <2>2. UNCHANGED <<caches, real>>
    BY <2>1, Zenon DEF ReplaceEvents, device
  <2> QED
    BY <2>1, <2>2, ReplaceQueries, CacheKept DEF caches, CacheInv, DeviceInv
<1>6. CASE UNCHANGED vars
  BY <1>6, QueriesSame, CacheKept DEF caches, CacheInv, vars, device, recording
<1> QED
  BY <1>1, <1>2, <1>3, <1>4, <1>5, <1>6

LEMMA InitCaches ==
  ASSUME Init
  PROVE  CacheInv
<1>1. IsSeq(<<>>) /\ DOMAIN <<>> = {}
  BY EmptyList
<1>2. QueriesOK
  BY <1>1 DEF Init, QueriesOK, FramesOK, WaitersOK, AnswersOK
<1>3. InterfacesOK /\ BosOK /\ ReportsOK
  BY <1>1 DEF Init, Empty, InterfacesOK, BosOK, ReportsOK
<1> QED
  BY <1>2, <1>3 DEF CacheInv

LEMMA NextCaches ==
  ASSUME NullIsNone, HardwareAssumption, DeviceInv, CacheInv, [Next]_vars
  PROVE  CacheInv'
<1>1. CASE \/ \E r \in Requests : Ask(r)
           \/ \E i \in DOMAIN inflight :
                HidTransferCb(i) \/ \E cancelled \in BOOLEAN : TransferCb(i, cancelled)
           \/ ReplayNext \/ ClearEvents \/ LoadEvents \/ UNCHANGED vars
  BY <1>1, RequestCaches
<1>2. CASE GetInterface \/ GetBosDescriptors
  BY <1>2, GetCaches
<1>3. CASE Invalidate
  BY <1>3, InvalidateCaches
<1>4. CASE GetHidDescriptors \/ Save \/ HidStart
  BY <1>4, StartCaches
<1>5. CASE HidScan
  BY <1>5, HidScanCaches
<1>6. CASE HidAnswer
  BY <1>6, HidAnswerCaches
<1>7. CASE HidReturn \/ SaveReturn
  BY <1>7, ReturnCaches
<1>8. CASE Load \/ Open \/ Close \/ \E c \in DOMAIN Hardware : SetConfiguration(c)
  BY <1>8, HandleCaches
<1> QED
  BY <1>1, <1>2, <1>3, <1>4, <1>5, <1>6, <1>7, <1>8 DEF Next

-----------------------------------------------------------------------------
(* The HID descriptors of a real device that nothing disturbs.             *)

LEMMA NoReports ==
  ASSUME NEW list
  PROVE  ReportsOf(list, 0, <<>>)
<1> DEFINE hids == {i \in 1 .. 0 : IsHid(list[i])}
           place == [k \in {} |-> 0]
<1>1. hids = {} /\ DOMAIN <<>> = {}
  BY EmptyList
<1>2. place \in [DOMAIN <<>> -> hids]
  BY <1>1
<1> QED
  BY <1>1, <1>2 DEF ReportsOf

\* The interfaces in between are not of class HID.
LEMMA SameReports ==
  ASSUME NEW list, NEW a \in Nat, NEW b \in Nat, a <= b, NEW reports,
         \A i \in a + 1 .. b : ~IsHid(list[i]), ReportsOf(list, a, reports)
  PROVE  ReportsOf(list, b, reports)
<1>1. {i \in 1 .. a : IsHid(list[i])} = {i \in 1 .. b : IsHid(list[i])}
  OBVIOUS
<1> QED
  BY <1>1, Zenon DEF ReportsOf

LEMMA AddedReport ==
  ASSUME NEW list, NEW a \in Nat \ {0}, IsHid(list[a]), NEW reports, IsSeq(reports),
         ReportsOf(list, a - 1, reports), NEW report,
         report = Report[list[a].desc.InterfaceNumber]
  PROVE  ReportsOf(list, a, Append(reports, report))
<1> DEFINE m == Len(reports)
           n == m + 1
           more == Append(reports, report)
           before == {i \in 1 .. a - 1 : IsHid(list[i])}
           hids == {i \in 1 .. a : IsHid(list[i])}
<1>1. /\ m \in Nat /\ DOMAIN reports = 1 .. m /\ DOMAIN more = 1 .. n
      /\ more[n] = report /\ \A k \in 1 .. m : more[k] = reports[k]
  BY AppendIsSeq, IsSeqOfElements DEF IsSeq
<1>2. PICK place \in [DOMAIN reports -> before] :
        /\ \A j, k \in DOMAIN reports : j < k => place[j] < place[k]
        /\ \A i \in before : \E k \in DOMAIN reports : place[k] = i
        /\ \A k \in DOMAIN reports : reports[k] = Report[list[place[k]].desc.InterfaceNumber]
  BY Zenon DEF ReportsOf
<1>3. hids = before \cup {a} /\ before \subseteq 1 .. a - 1
  OBVIOUS
<1> HIDE DEF hids, before, more, m
<1>4. /\ place \in [1 .. m -> before]
      /\ \A j, k \in 1 .. m : j < k => place[j] < place[k]
      /\ \A i \in before : \E k \in 1 .. m : place[k] = i
      /\ \A k \in 1 .. m : reports[k] = Report[list[place[k]].desc.InterfaceNumber]
  BY <1>1, <1>2
<1> DEFINE places == [k \in 1 .. n |-> IF k = n THEN a ELSE place[k]]
<1>5. /\ places \in [1 .. n -> hids] /\ places[n] = a
      /\ \A k \in 1 .. m : places[k] = place[k] /\ place[k] \in before
  BY <1>1, <1>4, <1>3
<1> HIDE DEF places
<1>6. ASSUME NEW j \in 1 .. n, NEW k \in 1 .. n, j < k
      PROVE  places[j] < places[k]
  <2>0. j \in 1 .. m
    BY <1>1, <1>6
  <2>1. places[j] = place[j] /\ place[j] \in 1 .. a - 1
    BY <1>3, <1>5, <2>0
  <2>2. CASE k = n
    BY <1>5, <2>1, <2>2
  <2>3. CASE k # n
    <3>1. k \in 1 .. m
      BY <1>1, <2>3
    <3> QED
      BY <1>4, <1>5, <1>6, <2>0, <3>1
  <2> QED
    BY <2>2, <2>3
<1>7. ASSUME NEW i \in hids
      PROVE  \E k \in 1 .. n : places[k] = i
  <2>1. CASE i = a
    BY <1>1, <1>5, <2>1
  <2>2. CASE i # a
    <3>1. PICK k \in 1 .. m : place[k] = i
      BY <1>1, <1>4, <1>3, <2>2
    <3> QED
      BY <1>1, <1>5, <3>1
  <2> QED
    BY <2>1, <2>2
<1>8. ASSUME NEW k \in 1 .. n
      PROVE  more[k] = Report[list[places[k]].desc.InterfaceNumber]
  <2>1. CASE k = n
    BY <1>1, <1>5, <2>1
  <2>2. CASE k # n
    <3>1. k \in 1 .. m
      BY <1>1, <2>2
    <3> QED
      BY <1>1, <1>4, <1>5, <3>1
  <2> QED
    BY <2>1, <2>2
<1>9. \E p \in [DOMAIN more -> hids] :
        /\ \A j, k \in DOMAIN more : j < k => p[j] < p[k]
        /\ \A i \in hids : \E k \in DOMAIN more : p[k] = i
        /\ \A k \in DOMAIN more : more[k] = Report[list[p[k]].desc.InterfaceNumber]
  <2>1. /\ places \in [DOMAIN more -> hids]
        /\ \A j, k \in DOMAIN more : j < k => places[j] < places[k]
        /\ \A i \in hids : \E k \in DOMAIN more : places[k] = i
        /\ \A k \in DOMAIN more : more[k] = Report[list[places[k]].desc.InterfaceNumber]
    BY <1>1, <1>5, <1>6, <1>7, <1>8
  <2> QED
    BY <2>1, Zenon
<1> QED
  BY <1>9, Zenon DEF ReportsOf, hids, more

\* A query for the HID descriptors has those of the interfaces it has been through,
\* and waits for that of the next.
Reporting(q) ==
  LET f == queries[q]
      list == interfaces.list
      number == list[f.at].desc.InterfaceNumber
  IN /\ ~hid.valid /\ interfaces.valid /\ f.at \in 0 .. Len(list)
     /\ f.stage = "scan" => ReportsOf(list, f.at, hid.list)
     /\ f.stage = "waiting" =>
          /\ f.at # 0 /\ IsHid(list[f.at]) /\ ReportsOf(list, f.at - 1, hid.list)
          /\ f.answer = Null \/ (\E status : f.answer = Error(status)) \/ f.answer = Ok(Report[number])
          /\ \A i \in DOMAIN inflight : inflight[i].query = q => inflight[i].request = HidRequest(number)

Scans(q) == queries[q].stage \in {"scan", "waiting"}

ReportsWhole ==
  \E c \in DOMAIN Hardware : ReportsOf(AllSettings(c), Len(AllSettings(c)), hid.list)

\* So long as nothing is disturbed there is one query at a time, and what is in the
\* array is what that query has read so far.
ScanOK ==
  real /\ ~disturbed =>
    /\ \A p, q \in DOMAIN queries : p = q
    /\ \A q \in DOMAIN queries : Scans(q) => Reporting(q)
    /\ hid.valid => ReportsWhole
    /\ ~hid.valid => hid.list = <<>> \/ \E q \in DOMAIN queries : Scans(q)

\* The transfers in flight for queries are among those that were.
FewerWaiters ==
  \A i \in DOMAIN inflight' : inflight'[i].query # 0 =>
    \E j \in DOMAIN inflight : /\ inflight[j].query = inflight'[i].query
                               /\ inflight[j].request = inflight'[i].request

LEMMA NoQueryIsZero ==
  ASSUME FramesOK
  PROVE  0 \notin DOMAIN queries
BY IsSeqOfElements DEF FramesOK, IsSeq

LEMMA ScanKept ==
  ASSUME ScanOK, FramesOK, FewerWaiters, UNCHANGED <<queries, hid, real, disturbed>>,
         interfaces.valid => UNCHANGED interfaces
  PROVE  ScanOK'
<1> SUFFICES ASSUME real, ~disturbed
             PROVE  /\ (\A p, q \in DOMAIN queries : p = q)'
                    /\ (\A q \in DOMAIN queries : Scans(q) => Reporting(q))'
                    /\ hid'.valid => ReportsWhole'
                    /\ (~hid.valid => hid.list = <<>> \/ \E q \in DOMAIN queries : Scans(q))'
  BY Zenon DEF ScanOK
<1>1. ASSUME NEW q \in DOMAIN queries, Scans(q)
      PROVE  Reporting(q)'
  <2> DEFINE f == queries[q]
             list == interfaces.list
             number == list[f.at].desc.InterfaceNumber
  <2>1. Reporting(q) /\ UNCHANGED interfaces /\ q # 0
    BY <1>1, NoQueryIsZero DEF ScanOK, Reporting
  <2>2. /\ ~hid.valid /\ interfaces.valid /\ f.at \in 0 .. Len(list)
        /\ f.stage = "scan" => ReportsOf(list, f.at, hid.list)
        /\ f.stage = "waiting" =>
             /\ f.at # 0 /\ IsHid(list[f.at]) /\ ReportsOf(list, f.at - 1, hid.list)
             /\ f.answer = Null \/ (\E status : f.answer = Error(status)) \/ f.answer = Ok(Report[number])
             /\ \A i \in DOMAIN inflight : inflight[i].query = q => inflight[i].request = HidRequest(number)
    BY <2>1, Zenon DEF Reporting
  <2>3. f.stage = "waiting" =>
          \A i \in DOMAIN inflight' : inflight'[i].query = q => inflight'[i].request = HidRequest(number)
    BY <2>1, <2>2, Zenon DEF FewerWaiters
  <2>4. f.stage = "scan" => ReportsOf(list, f.at, hid.list)'
    BY <2>1, <2>2
  <2>5. f.stage = "waiting" => IsHid(list[f.at])' /\ ReportsOf(list, f.at - 1, hid.list)'
    BY <2>1, <2>2 DEF IsHid
  <2>6. UNCHANGED <<f, list, number>>
    BY <2>1
  <2> HIDE DEF f, list, number
  <2>7. /\ (~hid.valid /\ interfaces.valid /\ f.at \in 0 .. Len(list))'
        /\ f.stage = "waiting" =>
             (f.at # 0 /\ (f.answer = Null \/ (\E status : f.answer = Error(status)) \/ f.answer = Ok(Report[number])))'
        /\ f.stage = "waiting" =>
             (\A i \in DOMAIN inflight : inflight[i].query = q => inflight[i].request = HidRequest(number))'
    BY <2>1, <2>2, <2>3, <2>6, Zenon DEF Error, Ok, HidRequest
  <2> QED
    BY <2>4, <2>5, <2>6, <2>7, Zenon DEF Reporting, f, list, number
<1>2. hid'.valid => ReportsWhole'
  BY DEF ScanOK, ReportsWhole, AllSettings
<1>3. (~hid.valid => hid.list = <<>> \/ \E q \in DOMAIN queries : Scans(q))'
  BY Zenon DEF ScanOK, Scans
<1>4. (\A p, q \in DOMAIN queries : p = q)'
  BY Zenon DEF ScanOK
<1>5. (\A q \in DOMAIN queries : Scans(q) => Reporting(q))'
  BY <1>1, Zenon DEF Scans
<1> QED
  BY <1>2, <1>3, <1>4, <1>5

\* Nothing is said of an emulated device, nor once a query was disturbed.
LEMMA ScanMoot ==
  ASSUME ~real' \/ disturbed'
  PROVE  ScanOK'
BY Zenon DEF ScanOK

LEMMA SameWaiters ==
  ASSUME UNCHANGED inflight
  PROVE  FewerWaiters
BY DEF FewerWaiters

LEMMA NoWaiters ==
  ASSUME inflight' = <<>>
  PROVE  FewerWaiters
BY EmptyList DEF FewerWaiters

LEMMA AddedNoWaiter ==
  ASSUME EventsOK, NEW t, t.query = 0, inflight' = Append(inflight, t)
  PROVE  FewerWaiters
<1> DEFINE m == Len(inflight)
<1>1. /\ m \in Nat /\ DOMAIN inflight = 1 .. m /\ DOMAIN inflight' = 1 .. m + 1
      /\ inflight'[m + 1] = t /\ \A i \in 1 .. m : inflight'[i] = inflight[i]
  BY AppendIsSeq, IsSeqOfElements DEF EventsOK, IsSeq
<1> HIDE DEF m
<1> SUFFICES ASSUME NEW i \in 1 .. m + 1, inflight'[i].query # 0
             PROVE  \E j \in DOMAIN inflight : /\ inflight[j].query = inflight'[i].query
                                               /\ inflight[j].request = inflight'[i].request
  BY <1>1 DEF FewerWaiters
<1>2. i \in 1 .. m
  BY <1>1
<1> QED
  BY <1>1, <1>2

LEMMA RemovedOneWaiter ==
  ASSUME EventsOK, NEW i \in DOMAIN inflight, inflight' = RemoveAt(inflight, i)
  PROVE  FewerWaiters
<1> DEFINE s == inflight
           r == RemoveAt(s, i)
<1>0. IsSeq(s) /\ i \in DOMAIN s
  BY DEF EventsOK
<1> HIDE DEF s
<1>1. LeftOf(s, i, r) /\ inflight' = r /\ DOMAIN r = 1 .. Len(s) - 1
  BY <1>0, RemoveAtOfSeq DEF s
<1> HIDE DEF r
<1>2. \A j \in DOMAIN r : \E k \in DOMAIN s : r[j] = s[k]
  BY <1>1 DEF LeftOf
<1> QED
  BY <1>1, <1>2 DEF FewerWaiters, s

LEMMA ForgottenWaiters ==
  ASSUME EventsOK, inflight' = Forget
  PROVE  FewerWaiters
<1> SUFFICES ASSUME NEW i \in DOMAIN inflight
             PROVE  /\ inflight'[i].query = inflight[i].query
                    /\ inflight'[i].request = inflight[i].request
  BY DEF FewerWaiters, Forget
<1> DEFINE t == inflight[i]
           place == IF t.place = 0 THEN 0 ELSE Gone
<1>1. t = [request |-> t.request, place |-> t.place, entry |-> t.entry, query |-> t.query,
           size |-> t.size]
  BY DEF EventsOK, IsTransfer
<1>2. inflight'[i] = [t EXCEPT !.place = place, !.entry = 0]
  BY DEF Forget
<1> HIDE DEF t
<1>3. inflight'[i] = [request |-> t.request, place |-> place, entry |-> 0, query |-> t.query,
                      size |-> t.size]
  BY <1>1, <1>2
<1> QED
  BY <1>3 DEF t

\* A query begins; if it meets another one, that is disturbed.
LEMMA ScanBegins ==
  ASSUME FramesOK, ScanOK, NEW saving, NEW list,
         queries' = Append(queries, Frame(saving, list)),
         disturbed' = (disturbed \/ queries # <<>>), UNCHANGED <<hid, real>>
  PROVE  ScanOK'
<1> SUFFICES ASSUME real', ~disturbed'
             PROVE  ScanOK'
  BY ScanMoot
<1> DEFINE n == Len(queries) + 1
<1>1. /\ DOMAIN queries' = DOMAIN queries \cup {n} /\ queries'[n].stage = "start"
  BY AppendFrame
<1>2. queries = <<>> /\ real /\ ~disturbed /\ DOMAIN queries = {}
  BY EmptyList
<1> HIDE DEF n
<1>3. hid.valid => ReportsWhole
  BY <1>2 DEF ScanOK
<1>4. hid'.valid => ReportsWhole'
  BY <1>3 DEF ReportsWhole, AllSettings
<1>5. ~hid.valid => hid.list = <<>>
  BY <1>2, Zenon DEF ScanOK
<1>6. \A q \in DOMAIN queries' : q = n /\ queries'[q].stage = "start"
  BY <1>1, <1>2
<1> QED
  BY <1>4, <1>5, <1>6, Zenon DEF ScanOK, Scans

\* The one query there is.
LEMMA OneQuery ==
  ASSUME FramesOK, ScanOK, queries # <<>>, real, ~disturbed
  PROVE  LET n == Len(queries)
         IN /\ DOMAIN queries = {n} /\ Last(queries) = queries[n]
            /\ Scans(n) => Reporting(n)
            /\ hid.valid => ReportsWhole
            /\ ~hid.valid => hid.list = <<>> \/ Scans(n)
<1> DEFINE n == Len(queries)
<1>1. n \in DOMAIN queries /\ Last(queries) = queries[n]
  BY Innermost
<1> HIDE DEF n
<1>2. \A q \in DOMAIN queries : q = n
  BY <1>1, Zenon DEF ScanOK
<1>3. /\ Scans(n) => Reporting(n)
      /\ hid.valid => ReportsWhole
      /\ ~hid.valid => hid.list = <<>> \/ Scans(n)
  BY <1>1, <1>2, Zenon DEF ScanOK
<1> QED
  BY <1>1, <1>2, <1>3 DEF n

\* The one query returns, and the cache is as it was or whole.
LEMMA ScanEnds ==
  ASSUME FramesOK, ScanOK, queries # <<>>, NEW answer, Leave(answer),
         real' = real, disturbed => disturbed',
         ~disturbed' =>
           /\ hid'.valid => ReportsWhole'
           /\ ~hid'.valid => hid'.list = <<>>
  PROVE  ScanOK'
<1> SUFFICES ASSUME real', ~disturbed'
             PROVE  ScanOK'
  BY ScanMoot
<1> DEFINE n == Len(queries)
<1>1. DOMAIN queries = {n}
  BY OneQuery
<1>2. DOMAIN queries' = DOMAIN queries /\ queries'[n].stage = "return"
  BY GoFrame DEF Leave
<1> HIDE DEF n
<1>3. \A q \in DOMAIN queries' : q = n /\ queries'[q].stage = "return"
  BY <1>1, <1>2
<1> QED
  BY <1>3, Zenon DEF ScanOK, Scans

\* The query is gone when its caller goes on.
LEMMA ScanReturns ==
  ASSUME FramesOK, ScanOK, InQuery("return"), queries' = Front(queries),
         UNCHANGED <<hid, real, disturbed>>
  PROVE  ScanOK'
<1> SUFFICES ASSUME real', ~disturbed'
             PROVE  ScanOK'
  BY ScanMoot
<1> DEFINE n == Len(queries)
<1>1. queries # <<>> /\ Last(queries).stage = "return"
  BY DEF InQuery
<1>2. /\ DOMAIN queries = {n} /\ Last(queries) = queries[n]
      /\ hid.valid => ReportsWhole
      /\ ~hid.valid => hid.list = <<>> \/ Scans(n)
  BY <1>1, OneQuery
<1>3. DOMAIN queries' = DOMAIN queries \ {n}
  BY <1>1, FrontFrame
<1>4. ~Scans(n)
  BY <1>1, <1>2 DEF Scans
<1> HIDE DEF n
<1>5. DOMAIN queries' = {}
  BY <1>2, <1>3
<1>6. hid'.valid => ReportsWhole'
  BY <1>2 DEF ReportsWhole, AllSettings
<1> QED
  BY <1>2, <1>4, <1>5, <1>6, Zenon DEF ScanOK

LEMMA InvalidateScan ==
  ASSUME DeviceInv, ScanOK, Invalidate
  PROVE  ScanOK'
<1> SUFFICES ASSUME real', ~disturbed'
             PROVE  ScanOK'
  BY ScanMoot
<1>1. /\ real /\ queries' = queries /\ hid' = [hid EXCEPT !.list = <<>>]
      /\ queries = <<>> /\ hid = Empty
  BY DEF Invalidate, device
<1>2. DOMAIN queries' = {}
  BY <1>1, EmptyList
<1>3. ~hid'.valid /\ hid'.list = <<>>
  BY <1>1 DEF Empty
<1> QED
  BY <1>2, <1>3, Zenon DEF ScanOK

\* The settings are a list.
SettingsListed ==
  \A c \in DOMAIN Hardware : /\ Len(AllSettings(c)) \in Nat
                              /\ DOMAIN AllSettings(c) = 1 .. Len(AllSettings(c))

LEMMA SettingsAreList ==
  ASSUME HardwareAssumption
  PROVE  SettingsListed
<1> SUFFICES ASSUME NEW c \in DOMAIN Hardware
             PROVE  /\ Len(AllSettings(c)) \in Nat
                    /\ DOMAIN AllSettings(c) = 1 .. Len(AllSettings(c))
  BY DEF SettingsListed
<1> DEFINE S == {f \in Setting : IsHid(f) => f.desc.InterfaceNumber \in DOMAIN Report}
           l == AllSettings(c)
<1>1. l \in Seq(S)
  BY SettingsOf
<1> HIDE DEF S, l
<1> QED
  BY <1>1, LenProperties DEF l

LEMMA HidStartScan ==
  ASSUME SettingsListed, DeviceInv, CacheInv, CacheInv', ScanOK, HidStart
  PROVE  ScanOK'
<1> SUFFICES ASSUME real', ~disturbed'
             PROVE  ScanOK'
  BY ScanMoot
<1>0. PICK n : n = Len(queries)
  OBVIOUS
<1>1. /\ FramesOK /\ queries # <<>> /\ Last(queries).stage = "start"
      /\ real /\ ~disturbed /\ UNCHANGED <<hid, real, disturbed, inflight>>
  BY DEF HidStart, InQuery, CacheInv, QueriesOK, device, recording
<1>2. /\ DOMAIN queries = {n} /\ Last(queries) = queries[n]
      /\ hid.valid => ReportsWhole
      /\ ~hid.valid => hid.list = <<>> \/ Scans(n)
  BY <1>0, <1>1, OneQuery
<1>3. ~Scans(n)
  BY <1>1, <1>2 DEF Scans
<1>4. \/ \E answer : Leave(answer)
      \/ /\ ~hid.valid /\ Go("scan", 0, Null)
         /\ \E list : list # Null /\ FetchInterfaces(list)
  BY Zenon DEF HidStart
<1>5. CASE \E answer : Leave(answer)
  <2>1. hid'.valid => ReportsWhole'
    BY <1>1, <1>2 DEF ReportsWhole, AllSettings
  <2>2. ~hid'.valid => hid'.list = <<>>
    BY <1>1, <1>2, <1>3
  <2> QED
    BY <1>1, <1>5, <2>1, <2>2, ScanEnds
<1>6. CASE /\ ~hid.valid /\ Go("scan", 0, Null)
           /\ \E list : list # Null /\ FetchInterfaces(list)
  <2>1. /\ DOMAIN queries' = DOMAIN queries /\ queries'[n].stage = "scan" /\ queries'[n].at = 0
    BY <1>0, <1>1, <1>6, GoFrame
  <2>2. interfaces'.valid
    <3>1. PICK list : list # Null /\ FetchInterfaces(list)
      BY <1>6
    <3>2. CASE interfaces.valid /\ interfaces' = interfaces
      BY <3>2
    <3>3. CASE interfaces' = [list |-> interfaces.list \o AllSettings(config), valid |-> TRUE]
      BY <3>3
    <3> QED
      BY <3>1, <3>2, <3>3, Zenon DEF FetchInterfaces
  <2>3. Len(interfaces'.list) \in Nat
    <3>1. PICK c \in DOMAIN Hardware : interfaces'.list = AllSettings(c)
      BY <1>1, <2>2 DEF CacheInv, InterfacesOK, AllSettings
    <3> QED
      BY <3>1 DEF SettingsListed
  <2>4. hid' = hid /\ hid.list = <<>> /\ ReportsOf(interfaces'.list, 0, <<>>)
    BY <1>1, <1>2, <1>3, <1>6, NoReports
  <2>5. Reporting(n)'
    BY <1>1, <1>6, <2>1, <2>2, <2>3, <2>4 DEF Reporting
  <2>6. \A q \in DOMAIN queries' : q = n
    BY <1>2, <2>1
  <2> QED
    BY <1>6, <2>4, <2>5, <2>6, Zenon DEF ScanOK
<1> QED
  BY <1>4, <1>5, <1>6

\* A query goes on to the next interface of class HID, if any.
LEMMA HidScanScan ==
  ASSUME SettingsListed, DeviceInv, CacheInv, ScanOK, HidScan
  PROVE  ScanOK'
<1> SUFFICES ASSUME real', ~disturbed'
             PROVE  ScanOK'
  BY ScanMoot
<1>0. PICK n, list, at : n = Len(queries) /\ list = interfaces.list /\ at = queries[n].at
  OBVIOUS
<1> DEFINE next == {i \in DOMAIN list : i > at /\ IsHid(list[i])}
           f == list[Min(next)]
           r == HidRequest(f.desc.InterfaceNumber)
<1>1. /\ FramesOK /\ WaitersOK /\ queries # <<>> /\ Last(queries).stage = "scan"
      /\ real /\ ~disturbed /\ UNCHANGED <<interfaces, real>>
  <2>1. InQuery("scan") /\ UNCHANGED <<interfaces, real>>
    BY Zenon DEF HidScan, device
  <2>2. disturbed => disturbed'
    BY Zenon DEF HidScan, Fail
  <2>3. FramesOK /\ WaitersOK
    BY DEF CacheInv, QueriesOK
  <2> QED
    BY <2>1, <2>2, <2>3 DEF InQuery
<1>2. /\ DOMAIN queries = {n} /\ Last(queries) = queries[n] /\ (Scans(n) => Reporting(n))
  BY <1>0, <1>1, OneQuery
<1>3. /\ ~hid.valid /\ interfaces.valid /\ at \in 0 .. Len(list) /\ ReportsOf(list, at, hid.list)
  BY <1>0, <1>1, <1>2 DEF Scans, Reporting
<1>4. PICK c \in DOMAIN Hardware : list = AllSettings(c)
  BY <1>0, <1>1, <1>3 DEF CacheInv, InterfacesOK
<1>5. Len(list) \in Nat /\ DOMAIN list = 1 .. Len(list)
  BY <1>4 DEF SettingsListed
<1>6. \/ /\ next = {} /\ Leave(hid.list) /\ hid' = [hid EXCEPT !.valid = TRUE]
      \/ Fail
      \/ /\ next # {} /\ ReportSize(f) # 0 /\ UNCHANGED hid
         /\ inflight' = Submitted(r, 0, n, ReportSize(f)) /\ Go("waiting", Min(next), Null)
  <2>1. next = {i \in DOMAIN interfaces.list : i > Last(queries).at /\ IsHid(interfaces.list[i])}
    BY <1>0, <1>2
  <2> HIDE DEF next
  <2> QED
    BY <1>0, <2>1, Zenon DEF HidScan
<1>7. CASE /\ next = {} /\ Leave(hid.list) /\ hid' = [hid EXCEPT !.valid = TRUE]
  <2>1. \A i \in at + 1 .. Len(list) : ~IsHid(list[i])
    BY <1>3, <1>5, <1>7
  <2>2. ReportsOf(list, Len(list), hid.list)
    BY <1>3, <1>5, <2>1, SameReports
  <2>3. hid'.list = hid.list /\ hid'.valid
    BY <1>7 DEF DeviceInv, CachesOK, IsCache
  <2>4. ReportsWhole'
    BY <1>4, <2>2, <2>3 DEF ReportsWhole, AllSettings
  <2> QED
    BY <1>1, <1>7, <2>3, <2>4, ScanEnds, Zenon
<1>8. CASE Fail
  <2>1. /\ Leave(Null) /\ hid' = hid /\ hid.list = <<>>
    BY <1>8 DEF Fail
  <2> QED
    BY <1>1, <1>3, <2>1, ScanEnds
<1>9. CASE /\ next # {} /\ ReportSize(f) # 0 /\ UNCHANGED hid
           /\ inflight' = Submitted(r, 0, n, ReportSize(f)) /\ Go("waiting", Min(next), Null)
  <2> DEFINE k == Min(next)
             size == ReportSize(f)
             t == [request |-> r, place |-> NextPlace, entry |-> 0, query |-> n, size |-> size]
  <2>1. /\ k \in next /\ \A i \in next : k <= i
    BY <1>5, <1>9, MinIsLeast
  <2>2. /\ k \in at + 1 .. Len(list) /\ IsHid(list[k])
        /\ \A i \in at + 1 .. k - 1 : ~IsHid(list[i])
    <3>1. k \in next /\ \A i \in next : k <= i
      BY <2>1
    <3> HIDE DEF k
    <3>2. k \in 1 .. Len(list) /\ k > at /\ IsHid(list[k])
      BY <1>5, <3>1
    <3>3. ASSUME NEW i \in at + 1 .. k - 1
          PROVE  ~IsHid(list[i])
      <4>1. i \in 1 .. Len(list) /\ i > at /\ ~(k <= i)
        BY <1>3, <1>5, <3>2
      <4> QED
        BY <1>5, <3>1, <4>1
    <3> QED
      BY <1>3, <1>5, <3>2, <3>3
  <2>3. /\ DOMAIN queries' = DOMAIN queries
        /\ queries'[n].stage = "waiting" /\ queries'[n].at = k /\ queries'[n].answer = Null
    BY <1>0, <1>1, <1>9, GoFrame
  <2>4. /\ inflight' = Append(inflight, t) /\ t.request = r
    BY <1>9 DEF Submitted
  <2>5. \A i \in DOMAIN inflight : inflight[i].query # 0 => inflight[i].query # n
    BY <1>1, <1>2, NoWaiter
  <2>6. n # 0
    BY <1>1, <1>2, NoQueryIsZero
  <2>7. /\ r = HidRequest(list[k].desc.InterfaceNumber)
    OBVIOUS
  <2> HIDE DEF t, k, r, next
  <2>8. ReportsOf(list, k - 1, hid.list) /\ k \in 0 .. Len(list) /\ k # 0
    <3>1. /\ at \in Nat /\ k - 1 \in Nat /\ at <= k - 1 /\ k \in 0 .. Len(list) /\ k # 0
      BY <1>3, <1>5, <2>2
    <3> QED
      BY <1>3, <2>2, <3>1, SameReports
  <2>9. \A i \in DOMAIN inflight' : inflight'[i].query = n => inflight'[i].request = r
    <3> DEFINE m == Len(inflight)
    <3>1. /\ m \in Nat /\ DOMAIN inflight = 1 .. m /\ DOMAIN inflight' = 1 .. m + 1
          /\ inflight'[m + 1] = t /\ \A i \in 1 .. m : inflight'[i] = inflight[i]
      BY <2>4, AppendIsSeq, IsSeqOfElements DEF DeviceInv, EventsOK, IsSeq
    <3> HIDE DEF m
    <3> SUFFICES ASSUME NEW i \in 1 .. m + 1, inflight'[i].query = n
                 PROVE  inflight'[i].request = r
      BY <3>1
    <3>2. i \notin 1 .. m
      BY <2>5, <2>6, <3>1
    <3> QED
      BY <2>4, <3>1, <3>2
  <2>10. list = interfaces'.list /\ hid' = hid /\ interfaces' = interfaces
    BY <1>0, <1>1, <1>9
  <2>11. IsHid(list[k])
    BY <2>2
  <2>12. Reporting(n)'
    BY <1>3, <2>3, <2>7, <2>8, <2>9, <2>10, <2>11 DEF Reporting
  <2>13. \A q \in DOMAIN queries' : q = n
    BY <1>2, <2>3
  <2>14. Scans(n)' /\ n \in DOMAIN queries'
    BY <1>2, <2>3 DEF Scans
  <2>15. ~hid'.valid
    BY <1>3, <1>9
  <2> QED
    BY <2>12, <2>13, <2>14, <2>15, Zenon DEF ScanOK
<1> QED
  BY <1>6, <1>7, <1>8, <1>9

\* A report descriptor comes in; if the query fails after others did, that is
\* disturbed.
LEMMA HidAnswerScan ==
  ASSUME DeviceInv, CacheInv, ScanOK, NullIsNone, HidAnswer
  PROVE  ScanOK'
<1> SUFFICES ASSUME real', ~disturbed'
             PROVE  ScanOK'
  BY ScanMoot
<1>0. PICK n, list, at, a : /\ n = Len(queries) /\ list = interfaces.list
                            /\ at = queries[n].at /\ a = queries[n].answer
  OBVIOUS
<1>1. /\ FramesOK /\ queries # <<>> /\ Last(queries).stage = "waiting" /\ Last(queries).answer # Null
      /\ real /\ ~disturbed /\ UNCHANGED <<interfaces, real, inflight>>
  <2>1. InQuery("waiting") /\ Last(queries).answer # Null /\ UNCHANGED <<interfaces, real, inflight>>
    BY Zenon DEF HidAnswer, device, recording
  <2>2. disturbed => disturbed'
    BY Zenon DEF HidAnswer, Fail
  <2>3. FramesOK
    BY DEF CacheInv, QueriesOK
  <2> QED
    BY <2>1, <2>2, <2>3 DEF InQuery
<1>2. /\ DOMAIN queries = {n} /\ Last(queries) = queries[n] /\ (Scans(n) => Reporting(n))
  BY <1>0, <1>1, OneQuery
<1>3. /\ ~hid.valid /\ interfaces.valid /\ at \in 0 .. Len(list)
      /\ at # 0 /\ IsHid(list[at]) /\ ReportsOf(list, at - 1, hid.list)
      /\ a # Null
      /\ (\E status : a = Error(status)) \/ a = Ok(Report[list[at].desc.InterfaceNumber])
  BY <1>0, <1>1, <1>2 DEF Scans, Reporting
<1>4. \/ Fail
      \/ /\ ~Failed(a) /\ hid' = [hid EXCEPT !.list = Append(hid.list, a.ok)]
         /\ Go("scan", at, Null)
  <2>1. Last(queries).answer = a /\ Last(queries).at = at
    BY <1>0, <1>2
  <2> QED
    BY <2>1, Zenon DEF HidAnswer
<1>5. CASE Fail
  <2>1. /\ Leave(Null) /\ hid' = hid /\ hid.list = <<>>
    BY <1>5 DEF Fail
  <2> QED
    BY <1>1, <1>3, <2>1, ScanEnds
<1>6. CASE /\ ~Failed(a) /\ hid' = [hid EXCEPT !.list = Append(hid.list, a.ok)]
           /\ Go("scan", at, Null)
  <2> DEFINE report == Report[list[at].desc.InterfaceNumber]
  <2>1. a.ok = report
    <3>1. \A status : a # Error(status)
      BY <1>6 DEF Failed, Error
    <3> QED
      BY <1>3, <3>1 DEF Ok
  <2>2. hid'.list = Append(hid.list, report) /\ ~hid'.valid
    BY <1>3, <1>6, <2>1 DEF DeviceInv, CachesOK, IsCache
  <2>3. IsSeq(hid.list)
    BY <1>1 DEF CacheInv, ReportsOK
  <2>4. at \in Nat \ {0} /\ at \in 0 .. Len(list)
    <3>1. interfaces.valid /\ InterfacesOK
      BY <1>1, <1>3 DEF CacheInv
    <3> QED
      BY <1>3
  <2>5. ReportsOf(list, at, Append(hid.list, report))
    BY <1>3, <2>3, <2>4, AddedReport
  <2>6. /\ DOMAIN queries' = DOMAIN queries
        /\ queries'[n].stage = "scan" /\ queries'[n].at = at
    BY <1>0, <1>1, <1>6, GoFrame
  <2>7. Reporting(n)'
    BY <1>0, <1>1, <1>3, <2>2, <2>4, <2>5, <2>6 DEF Reporting
  <2>8. /\ \A q \in DOMAIN queries' : q = n
        /\ Scans(n)' /\ n \in DOMAIN queries'
    BY <1>2, <2>6 DEF Scans
  <2> QED
    BY <2>2, <2>7, <2>8, Zenon DEF ScanOK
<1> QED
  BY <1>4, <1>5, <1>6

\* The callback gives the query the descriptor that it waits for, or an error.
LEMMA HidTransferCbScan ==
  ASSUME DeviceInv, CacheInv, ScanOK, NEW i \in DOMAIN inflight, HidTransferCb(i)
  PROVE  ScanOK'
<1> SUFFICES ASSUME real', ~disturbed'
             PROVE  ScanOK'
  BY ScanMoot
<1>0. PICK t, n, list : t = inflight[i] /\ n = t.query /\ list = interfaces.list
  OBVIOUS
<1>1. PICK status, bytes :
        /\ queries' = [queries EXCEPT ![n].answer =
             IF bytes # Null /\ Len(bytes) = t.size THEN Ok(bytes) ELSE Error(status)]
        /\ bytes \in {Report[t.request.hid], <<>>, Null}
  BY <1>0, Zenon DEF HidTransferCb
<1>2. /\ n # 0 /\ inflight' = RemoveAt(inflight, i)
      /\ UNCHANGED <<interfaces, hid, real, disturbed>> /\ real /\ ~disturbed
  BY <1>0, Zenon DEF HidTransferCb, device, caches
<1>3. n \in DOMAIN queries /\ queries[n].stage = "waiting" /\ t.size # 0 /\ FramesOK /\ queries # <<>>
  <2>1. n \in DOMAIN queries /\ queries[n].stage = "waiting" /\ t.size # 0 /\ FramesOK
    BY <1>0, <1>2 DEF CacheInv, QueriesOK, WaitersOK
  <2> QED
    BY <2>1, EmptyList
<1>4. PICK number : number = list[queries[n].at].desc.InterfaceNumber
  OBVIOUS
<1>5. /\ Reporting(n) /\ \A q \in DOMAIN queries : q = n
  BY <1>2, <1>3, Zenon DEF ScanOK, Scans
<1>6. t.request = HidRequest(number)
  BY <1>0, <1>3, <1>4, <1>5 DEF Reporting
<1>7. PICK answer :
        /\ queries' = [queries EXCEPT ![n].answer = answer]
        /\ (\E s : answer = Error(s)) \/ answer = Ok(Report[number])
  <2>1. t.request.hid = number /\ Len(<<>>) = 0
    BY <1>6 DEF HidRequest
  <2>2. CASE bytes # Null /\ Len(bytes) = t.size
    <3>1. bytes = Report[number]
      BY <1>1, <1>3, <2>1, <2>2
    <3> QED
      BY <1>1, <2>2, <3>1
  <2>3. CASE ~(bytes # Null /\ Len(bytes) = t.size)
    BY <1>1, <2>3
  <2> QED
    BY <2>2, <2>3
<1>8. /\ DOMAIN queries' = DOMAIN queries
      /\ queries'[n].answer = answer /\ queries'[n].stage = "waiting" /\ queries'[n].at = queries[n].at
  BY <1>3, <1>7, AnswerFrame
<1>9. \A j \in DOMAIN inflight' : inflight'[j].query = n => inflight'[j].request = HidRequest(number)
  <2>1. FewerWaiters
    BY <1>2, RemovedOneWaiter DEF DeviceInv
  <2> QED
    BY <1>2, <1>3, <1>4, <1>0, <1>5, <2>1 DEF FewerWaiters, Reporting
<1>10. Reporting(n)'
  <2>1. /\ ~hid.valid /\ interfaces.valid /\ queries[n].at \in 0 .. Len(list)
        /\ queries[n].at # 0 /\ IsHid(list[queries[n].at])
        /\ ReportsOf(list, queries[n].at - 1, hid.list)
    BY <1>0, <1>3, <1>5 DEF Reporting
  <2> QED
    BY <1>0, <1>2, <1>4, <1>7, <1>8, <1>9, <2>1 DEF Reporting
<1>11. /\ \A q \in DOMAIN queries' : q = n
       /\ Scans(n)' /\ n \in DOMAIN queries' /\ ~hid'.valid
  BY <1>2, <1>3, <1>5, <1>8 DEF Scans, Reporting
<1> QED
  BY <1>10, <1>11, Zenon DEF ScanOK

LEMMA RequestScan ==
  ASSUME DeviceInv, CacheInv, ScanOK,
         \/ \E r \in Requests : Ask(r)
         \/ \E i \in DOMAIN inflight :
              HidTransferCb(i) \/ \E cancelled \in BOOLEAN : TransferCb(i, cancelled)
         \/ ReplayNext \/ ClearEvents \/ LoadEvents \/ UNCHANGED vars
  PROVE  ScanOK'
<1>0. FramesOK /\ EventsOK
  BY DEF CacheInv, QueriesOK, DeviceInv
<1>1. CASE \E r \in Requests : Ask(r)
  <2>1. PICK r \in Requests : Ask(r)
    BY <1>1
  <2>2. UNCHANGED <<caches, real, queries>>
        /\ (UNCHANGED inflight \/ inflight' = Submitted(r, Len(session) + 1, 0, 0))
    BY <2>1, Zenon DEF Ask, GetStringDescriptor, GetStringDescriptorBytes, GetCustomIndex,
       GetConfigurationIndex, Transfer, Refuse, Record, RecordBytes, device
  <2>3. FewerWaiters
    BY <1>0, <2>2, SameWaiters, AddedNoWaiter DEF Submitted
  <2> QED
    BY <1>0, <2>2, <2>3, ScanKept DEF caches
<1>2. CASE \E i \in DOMAIN inflight : HidTransferCb(i)
  BY <1>2, HidTransferCbScan
<1>3. CASE \E i \in DOMAIN inflight : \E cancelled \in BOOLEAN : TransferCb(i, cancelled)
  <2>1. UNCHANGED <<caches, real, queries>> /\ \E i \in DOMAIN inflight : inflight' = RemoveAt(inflight, i)
    BY <1>3, Zenon DEF TransferCb, device
  <2> QED
    BY <1>0, <2>1, RemovedOneWaiter, ScanKept DEF caches
<1>4. CASE ReplayNext
  BY <1>4, ScanMoot DEF ReplayNext, device
<1>5. CASE ClearEvents \/ LoadEvents
  <2>1. PICK es, entries : ReplaceEvents(es, entries)
    BY <1>5, Zenon DEF ClearEvents, LoadEvents
  <2>2. UNCHANGED <<caches, real, queries>> /\ inflight' = Forget
    BY <2>1, Zenon DEF ReplaceEvents, device
  <2> QED
    BY <1>0, <2>2, ForgottenWaiters, ScanKept DEF caches
<1>6. CASE UNCHANGED vars
  BY <1>0, <1>6, SameWaiters, ScanKept DEF caches, vars, device, recording
<1> QED
  BY <1>1, <1>2, <1>3, <1>4, <1>5, <1>6

LEMMA OtherScan ==
  ASSUME DeviceInv, CacheInv, ScanOK,
         \/ GetInterface \/ GetBosDescriptors
         \/ Load \/ Open \/ Close \/ \E c \in DOMAIN Hardware : SetConfiguration(c)
  PROVE  ScanOK'
<1>0. FramesOK
  BY DEF CacheInv, QueriesOK
<1>1. CASE GetInterface
  <2>1. /\ UNCHANGED <<queries, hid, real, disturbed, inflight>>
        /\ \E list : FetchInterfaces(list)
    BY <1>1, Zenon DEF GetInterface, device, recording
  <2>2. interfaces.valid => UNCHANGED interfaces
    BY <2>1, Zenon DEF FetchInterfaces
  <2> QED
    BY <1>0, <2>1, <2>2, SameWaiters, ScanKept
<1>2. CASE GetBosDescriptors
  BY <1>0, <1>2, SameWaiters, ScanKept DEF GetBosDescriptors, device, recording
<1>3. CASE Load
  BY <1>3, ScanMoot DEF Load
<1>4. CASE Open \/ \E c \in DOMAIN Hardware : SetConfiguration(c)
  BY <1>0, <1>4, SameWaiters, ScanKept DEF Open, SetConfiguration, caches, recording
<1>5. CASE Close
  BY <1>0, <1>5, NoWaiters, ScanKept DEF Close, caches
<1> QED
  BY <1>1, <1>2, <1>3, <1>4, <1>5

LEMMA InitScan ==
  ASSUME Init
  PROVE  ScanOK
<1>1. DOMAIN queries = {} /\ ~hid.valid /\ hid.list = <<>>
  BY EmptyList DEF Init, Empty
<1> QED
  BY <1>1, Zenon DEF ScanOK

LEMMA NextScan ==
  ASSUME NullIsNone, SettingsListed, DeviceInv, CacheInv, CacheInv', ScanOK, [Next]_vars
  PROVE  ScanOK'
<1>0. FramesOK
  BY DEF CacheInv, QueriesOK
<1>1. CASE \/ \E r \in Requests : Ask(r)
           \/ \E i \in DOMAIN inflight :
                HidTransferCb(i) \/ \E cancelled \in BOOLEAN : TransferCb(i, cancelled)
           \/ ReplayNext \/ ClearEvents \/ LoadEvents \/ UNCHANGED vars
  BY <1>1, RequestScan
<1>2. CASE \/ GetInterface \/ GetBosDescriptors
           \/ Load \/ Open \/ Close \/ \E c \in DOMAIN Hardware : SetConfiguration(c)
  BY <1>2, OtherScan
<1>3. CASE Invalidate
  BY <1>3, InvalidateScan
<1>4. CASE GetHidDescriptors \/ Save
  <2>1. /\ \E saving, list : queries' = Append(queries, Frame(saving, list))
        /\ disturbed' = (disturbed \/ queries # <<>>) /\ UNCHANGED <<hid, real>>
    BY <1>4, Zenon DEF GetHidDescriptors, Save, device
  <2> QED
    BY <1>0, <2>1, ScanBegins
<1>5. CASE HidStart
  BY <1>5, HidStartScan
<1>6. CASE HidScan
  BY <1>6, HidScanScan
<1>7. CASE HidAnswer
  BY <1>7, HidAnswerScan
<1>8. CASE HidReturn \/ SaveReturn
  <2>1. InQuery("return") /\ queries' = Front(queries) /\ UNCHANGED <<hid, real, disturbed>>
    BY <1>8, Zenon DEF HidReturn, SaveReturn, device, caches
  <2> QED
    BY <1>0, <2>1, ScanReturns
<1> QED
  BY <1>1, <1>2, <1>3, <1>4, <1>5, <1>6, <1>7, <1>8 DEF Next

LEMMA NullIsNoSeq ==
  ASSUME NullIsNone
  PROVE  NullIsNoSequence
BY SeqIsNotNull DEF NullIsNoSequence

LEMMA SpecCaches ==
  ASSUME NullIsNone
  PROVE  Spec => [](DeviceInv /\ CacheInv)
<1>1. Spec => []DeviceInv
  BY NullIsNoSeq, SpecInv
<1>2. Init => CacheInv
  BY InitCaches
<1>3. DeviceInv /\ CacheInv /\ [Next]_vars => CacheInv'
  BY NextCaches, HardwareAssumption
<1> QED
  BY <1>1, <1>2, <1>3, PTL DEF Spec

LEMMA SpecScan ==
  ASSUME NullIsNone
  PROVE  Spec => []ScanOK
<1>1. Spec => [](DeviceInv /\ CacheInv)
  BY SpecCaches
<1>2. Init => ScanOK
  BY InitScan
<1>3. SettingsListed
  BY HardwareAssumption, SettingsAreList
<1>4. DeviceInv /\ CacheInv /\ CacheInv' /\ ScanOK /\ [Next]_vars => ScanOK'
  BY <1>3, NextScan
<1> QED
  BY <1>1, <1>2, <1>4, PTL DEF Spec

LEMMA CachesAreWhole ==
  ASSUME CacheInv, ScanOK
  PROVE  CacheWhole
BY DEF CacheInv, InterfacesOK, BosOK, ReportsOK, ScanOK, ReportsWhole, CacheWhole

\* A cache of interfaces or BOS descriptors that is valid holds those of one
\* configuration of the real device, each once, and no report descriptor is cut
\* short: whatever queries run inside one another, fail or are invalidated meanwhile.
\* A valid cache of HID descriptors holds one for each HID interface, in order, so
\* long as no query for them failed half way, met another one or was invalidated.
THEOREM CachesWhole ==
  ASSUME NullIsNone
  PROVE  Spec => []CacheWhole
BY SpecCaches, SpecScan, CachesAreWhole, PTL

-----------------------------------------------------------------------------
(* The file.                                                               *)

IsSaved(json) ==
  \E d, b, h, l : /\ IsDevice(d) /\ IsBosList(b) /\ IsReportList(h) /\ IsInterfaceList(l)
                  /\ json = SaveDevice(d, b, h, l)

\* What may be in the file next: the events, the caches, and what is in the frames.
EventsTyped == IsEventList(events)
ListsOK == IsBosList(bos.list) /\ IsInterfaceList(interfaces.list) /\ IsReportList(hid.list)
FramesTyped ==
  \A q \in DOMAIN queries : /\ IsBosList(queries[q].bos)
                            /\ queries[q].stage = "return" => IsReportList(queries[q].answer)
SavedOK == file # Null => IsSaved(file)

\* What the caches of a real device hold is the hardware's, see CacheInv.
EmulatedOK == ~real => ListsOK

FileInv == EventsTyped /\ EmulatedOK /\ FramesTyped /\ SavedOK

LEMMA RecordedEvents ==
  ASSUME EventsTyped, NEW e, IsEvent(e), events' = Recorded(e)
  PROVE  EventsTyped'
<1>1. IsSeq(events) /\ Len(events) \in Nat /\ DOMAIN events = 1 .. Len(events)
  BY IsSeqOfElements DEF EventsTyped, IsEventList, IsSeq
<1>2. CASE ~SaveEvents
  BY <1>2 DEF EventsTyped, Recorded
<1>3. CASE SaveEvents
  <2> DEFINE es == Append(events, e)
  <2>1. /\ IsSeq(es) /\ Len(es) = Len(events) + 1 /\ es[Len(events) + 1] = e
        /\ \A i \in 1 .. Len(events) : es[i] = events[i]
    BY <1>1, AppendIsSeq
  <2>2. DOMAIN es = 1 .. Len(events) + 1
    BY <2>1, IsSeqOfElements
  <2>3. events' = es
    BY <1>3 DEF Recorded
  <2> HIDE DEF es
  <2>4. ASSUME NEW i \in DOMAIN es
        PROVE  IsEvent(es[i])
    <3>1. CASE i = Len(events) + 1
      BY <2>1, <3>1
    <3>2. CASE i # Len(events) + 1
      <4>1. i \in 1 .. Len(events)
        BY <1>1, <2>2, <3>2
      <4> QED
        BY <1>1, <2>1, <4>1 DEF EventsTyped, IsEventList
    <3> QED
      BY <3>1, <3>2
  <2> QED
    BY <2>1, <2>3, <2>4 DEF EventsTyped, IsEventList
<1> QED
  BY <1>2, <1>3

\* What a callback writes changes one event and leaves the others as they are.
LEMMA WrittenEvent ==
  ASSUME IsSeq(events), NEW p \in DOMAIN events, HasEventFields(events[p]), NEW status, NEW bytes,
         NEW es, es = Written(p, status, bytes)
  PROVE  /\ IsSeq(es) /\ DOMAIN es = DOMAIN events
         /\ \A k \in DOMAIN events : k # p => es[k] = events[k]
         /\ bytes = Null => es[p] = [id |-> events[p].id, status |-> status,
                                     rc |-> events[p].rc, bytes |-> events[p].bytes]
         /\ bytes # Null => es[p] = [id |-> events[p].id, status |-> events[p].status,
                                     rc |-> events[p].rc, bytes |-> bytes]
<1> DEFINE e == events[p]
           n == Len(events)
<1>1. n \in Nat /\ DOMAIN events = 1 .. n /\ p \in 1 .. n
  BY IsSeqOfElements DEF IsSeq
<1>2. e = [id |-> e.id, status |-> e.status, rc |-> e.rc, bytes |-> e.bytes]
  BY DEF HasEventFields
<1>3. CASE bytes = Null
  <2>1. es = [events EXCEPT ![p] = [e EXCEPT !.status = status]]
    BY <1>3, Zenon DEF Written
  <2> HIDE DEF e
  <2>2. /\ es = [k \in 1 .. n |-> es[k]] /\ \A k \in 1 .. n : k # p => es[k] = events[k]
        /\ es[p] = [e EXCEPT !.status = status]
    BY <1>1, <2>1
  <2>3. es[p] = [id |-> e.id, status |-> status, rc |-> e.rc, bytes |-> e.bytes]
    BY <1>2, <2>2
  <2>4. IsSeq(es) /\ DOMAIN es = 1 .. n
    BY <1>1, <2>2, FunctionIsSeq
  <2> QED
    BY <1>1, <1>3, <2>2, <2>3, <2>4 DEF e
<1>4. CASE bytes # Null
  <2>1. es = [events EXCEPT ![p] = [e EXCEPT !.bytes = bytes]]
    BY <1>4, Zenon DEF Written
  <2> HIDE DEF e
  <2>2. /\ es = [k \in 1 .. n |-> es[k]] /\ \A k \in 1 .. n : k # p => es[k] = events[k]
        /\ es[p] = [e EXCEPT !.bytes = bytes]
    BY <1>1, <2>1
  <2>3. es[p] = [id |-> e.id, status |-> e.status, rc |-> e.rc, bytes |-> bytes]
    BY <1>2, <2>2
  <2>4. IsSeq(es) /\ DOMAIN es = 1 .. n
    BY <1>1, <2>2, FunctionIsSeq
  <2> QED
    BY <1>1, <1>4, <2>2, <2>3, <2>4 DEF e
<1> QED
  BY <1>3, <1>4

\* A callback leaves the events as they are or writes to one of them.
LEMMA SettledIsWritten ==
  ASSUME EventsOK, NEW i \in DOMAIN inflight, NEW status, NEW bytes,
         events' \in Settle(inflight[i], status, bytes)
  PROVE  \/ events' = events /\ ~(inflight[i].place > 0)
         \/ \E k \in DOMAIN events : /\ events' = Written(k, status, bytes)
                                     /\ inflight[i].place > 0 => k = inflight[i].place
                                     /\ ~(inflight[i].place > 0) => inflight[i].place = Gone
<1> DEFINE t == inflight[i]
<1>1. t.place > 0 => t.place \in DOMAIN events
  BY DEF EventsOK, AllOwned
<1>2. CASE t.place > 0
  BY <1>1, <1>2 DEF Settle
<1>3. CASE ~(t.place > 0)
  BY <1>3 DEF Settle
<1> QED
  BY <1>2, <1>3

LEMMA SettledEvents ==
  ASSUME EventsOK, EventsTyped, NEW i \in DOMAIN inflight, NEW status, status # Null, NEW bytes,
         events' \in Settle(inflight[i], status, bytes)
  PROVE  EventsTyped'
<1>1. CASE events' = events
  BY <1>1 DEF EventsTyped
<1>2. CASE \E k \in DOMAIN events : events' = Written(k, status, bytes)
  <2>1. PICK p \in DOMAIN events : events' = Written(p, status, bytes)
    BY <1>2
  <2>2. IsEvent(events[p]) /\ IsSeq(events)
    BY DEF EventsTyped, IsEventList
  <2> DEFINE es == Written(p, status, bytes)
             e == events[p]
  <2>3. HasEventFields(e)
    BY <2>2 DEF IsEvent, HasEventFields
  <2>4. /\ IsSeq(es) /\ DOMAIN es = DOMAIN events
        /\ \A k \in DOMAIN events : k # p => es[k] = events[k]
        /\ \/ es[p] = [id |-> e.id, status |-> status, rc |-> e.rc, bytes |-> e.bytes]
           \/ es[p] = [id |-> e.id, status |-> e.status, rc |-> e.rc, bytes |-> bytes]
    BY <2>2, <2>3, WrittenEvent
  <2>5. events' = es
    BY <2>1
  <2> HIDE DEF es, e
  <2>6. IsEvent(es[p])
    BY <2>2, <2>4 DEF IsEvent, e
  <2>7. \A k \in DOMAIN es : IsEvent(es[k])
    BY <2>4, <2>6 DEF EventsTyped, IsEventList
  <2> QED
    BY <2>4, <2>5, <2>7 DEF EventsTyped, IsEventList
<1> QED
  BY <1>1, <1>2, SettledIsWritten

LEMMA NewEventTyped ==
  ASSUME NullIsNone, NEW id, id # Null, NEW rc, rc # Null, NEW bytes
  PROVE  /\ IsEvent(NewEvent(id)) /\ IsEvent([NewEvent(id) EXCEPT !.rc = rc])
         /\ IsEvent([NewEvent(id) EXCEPT !.bytes = bytes])
<1>1. "COMPLETED" # Null /\ "SUCCESS" # Null
  BY DEF NullIsNone
<1> QED
  BY <1>1 DEF NewEvent, IsEvent

LEMMA AskTyped ==
  ASSUME NullIsNone, HardwareAssumption, EventsTyped, NEW r \in Requests, Ask(r)
  PROVE  EventsTyped'
<1>1. r # Null /\ Null \notin Failures /\ "SUCCESS" # Null
  BY DEF NullIsNone, HardwareAssumption
<1>2. \/ UNCHANGED events
      \/ events' = Recorded(NewEvent(r))
      \/ \E rc \in Failures : events' = Recorded([NewEvent(r) EXCEPT !.rc = rc])
      \/ \E bytes : events' = Recorded([NewEvent(r) EXCEPT !.bytes = bytes])
  <2>1. CASE GetStringDescriptor(r)
    BY <2>1, Zenon DEF GetStringDescriptor, Refuse, Record, RecordBytes
  <2>2. CASE GetStringDescriptorBytes(r)
    BY <2>2, Zenon DEF GetStringDescriptorBytes, Refuse, Record, RecordBytes
  <2>3. CASE GetCustomIndex(r)
    BY <2>3, Zenon DEF GetCustomIndex, Refuse, Record, RecordBytes
  <2>4. CASE GetConfigurationIndex(r)
    BY <2>4, Zenon DEF GetConfigurationIndex, Refuse, Record, RecordBytes
  <2>5. CASE Transfer(r)
    BY <2>5, Zenon DEF Transfer, Refuse, Record
  <2> QED
    BY <2>1, <2>2, <2>3, <2>4, <2>5 DEF Ask
<1>3. CASE UNCHANGED events
  BY <1>3 DEF EventsTyped
<1>4. CASE events' = Recorded(NewEvent(r))
  <2>1. IsEvent(NewEvent(r))
    BY <1>1, NewEventTyped
  <2> QED
    BY <1>4, <2>1, RecordedEvents
<1>5. CASE \E rc \in Failures : events' = Recorded([NewEvent(r) EXCEPT !.rc = rc])
  <2>1. PICK rc \in Failures : events' = Recorded([NewEvent(r) EXCEPT !.rc = rc])
    BY <1>5
  <2>2. IsEvent([NewEvent(r) EXCEPT !.rc = rc])
    BY <1>1, NewEventTyped
  <2> QED
    BY <2>1, <2>2, RecordedEvents
<1>6. CASE \E bytes : events' = Recorded([NewEvent(r) EXCEPT !.bytes = bytes])
  <2>1. PICK bytes : events' = Recorded([NewEvent(r) EXCEPT !.bytes = bytes])
    BY <1>6
  <2>2. IsEvent([NewEvent(r) EXCEPT !.bytes = bytes])
    BY <1>1, NewEventTyped
  <2> QED
    BY <2>1, <2>2, RecordedEvents
<1> QED
  BY <1>2, <1>3, <1>4, <1>5, <1>6

LEMMA CallbackTyped ==
  ASSUME NullIsNone, HardwareAssumption, EventsOK, EventsTyped, NEW i \in DOMAIN inflight,
         HidTransferCb(i) \/ \E cancelled \in BOOLEAN : TransferCb(i, cancelled)
  PROVE  EventsTyped'
<1>1. "COMPLETED" # Null /\ Null \notin Statuses
  BY DEF NullIsNone, HardwareAssumption
<1>2. \E status, bytes : /\ status \in Statuses \cup {"COMPLETED"}
                         /\ events' \in Settle(inflight[i], status, bytes)
  BY Zenon DEF HidTransferCb, TransferCb
<1> QED
  BY <1>1, <1>2, SettledEvents

LEMMA ScanTyped ==
  ASSUME NullIsNone, HardwareAssumption, EventsTyped, HidScan
  PROVE  EventsTyped'
<1>1. \/ UNCHANGED events
      \/ \E n : \/ events' = Recorded(NewEvent(HidRequest(n)))
                \/ \E rc \in Failures : events' = Recorded([NewEvent(HidRequest(n)) EXCEPT !.rc = rc])
  BY Zenon DEF HidScan
<1>2. \A n : HidRequest(n) # Null
  BY DEF HidRequest, NullIsNone
<1>3. "SUCCESS" # Null /\ Null \notin Failures
  BY DEF NullIsNone, HardwareAssumption
<1>4. CASE UNCHANGED events
  BY <1>4 DEF EventsTyped
<1>5. CASE \E n : events' = Recorded(NewEvent(HidRequest(n)))
  <2>1. PICK n : events' = Recorded(NewEvent(HidRequest(n)))
    BY <1>5
  <2>2. IsEvent(NewEvent(HidRequest(n)))
    BY <1>2, <1>3, NewEventTyped
  <2> QED
    BY <2>1, <2>2, RecordedEvents
<1>6. CASE \E n : \E rc \in Failures : events' = Recorded([NewEvent(HidRequest(n)) EXCEPT !.rc = rc])
  <2>1. PICK n : \E rc \in Failures : events' = Recorded([NewEvent(HidRequest(n)) EXCEPT !.rc = rc])
    BY <1>6
  <2>2. PICK rc \in Failures : events' = Recorded([NewEvent(HidRequest(n)) EXCEPT !.rc = rc])
    BY <2>1
  <2>3. IsEvent([NewEvent(HidRequest(n)) EXCEPT !.rc = rc])
    BY <1>2, <1>3, NewEventTyped
  <2> QED
    BY <2>2, <2>3, RecordedEvents
<1> QED
  BY <1>1, <1>4, <1>5, <1>6

\* What is read from a file.
LEMMA LoadedTyped ==
  ASSUME NullIsNone, SavedOK, file # Null, NEW d, d = LoadDevice(file, Null)
  PROVE  /\ IsEventList(d.events) /\ IsBosList(d.bos) /\ IsInterfaceList(d.interfaces)
         /\ IsReportList(d.hid)
<1>1. PICK e, b, h, l : /\ IsDevice(e) /\ IsBosList(b) /\ IsReportList(h) /\ IsInterfaceList(l)
                        /\ file = SaveDevice(e, b, h, l)
  BY DEF SavedOK, IsSaved
<1>2. IsDevice(d) /\ IsBosList(d.bos) /\ IsInterfaceList(d.interfaces)
      /\ d.hid = IF h = Null THEN <<>> ELSE h
  BY <1>1, LoadSavedDevice
<1>3. IsReportList(<<>>)
  BY EmptyList DEF IsReportList
<1> QED
  BY <1>1, <1>2, <1>3 DEF IsDevice

-----------------------------------------------------------------------------
(* The lists.                                                              *)

LEMMA SettingTyped ==
  ASSUME NEW f \in Setting
  PROVE  IsInterface(f)
<1>1. f.desc \in Desc(InterfaceMembers) /\ f.endpoints \in Seq(Endpoint)
  BY DEF Setting
<1>2. IsSeq(f.endpoints) /\ \A i \in DOMAIN f.endpoints : f.endpoints[i] \in Endpoint
  BY <1>1, SeqOfSet
<1>3. \A e \in Endpoint : IsEndpoint(e)
  BY DEF Endpoint, IsEndpoint
<1> QED
  BY <1>1, <1>2, <1>3 DEF IsInterface, IsEndpoints

LEMMA CapabilitiesTyped ==
  ASSUME HardwareAssumption
  PROVE  IsBosList(Capabilities)
<1> DEFINE S == [desc : Desc(BosMembers), extra : Bytes]
<1>1. Capabilities \in Seq(S)
  BY DEF HardwareAssumption
<1>2. \A b \in S : IsBos(b)
  BY DEF IsBos
<1> HIDE DEF S
<1>3. IsSeq(Capabilities) /\ \A i \in DOMAIN Capabilities : Capabilities[i] \in S
  BY <1>1, SeqOfSet
<1> QED
  BY <1>2, <1>3 DEF IsBosList

LEMMA RealListsTyped ==
  ASSUME NullIsNone, HardwareAssumption, CacheInv, real
  PROVE  ListsOK
<1>1. InterfacesOK /\ BosOK /\ ReportsOK
  BY DEF CacheInv
<1>2. IsInterfaceList(interfaces.list)
  <2>1. CASE interfaces.valid
    <3> DEFINE S == {f \in Setting : IsHid(f) => f.desc.InterfaceNumber \in DOMAIN Report}
               l == interfaces.list
    <3>1. l \in Seq(S)
      BY <1>1, <2>1, SettingsOf DEF InterfacesOK
    <3> HIDE DEF l, S
    <3>2. IsSeq(l) /\ \A i \in DOMAIN l : l[i] \in S
      BY <3>1, SeqOfSet
    <3>3. \A f \in S : IsInterface(f)
      BY SettingTyped DEF S
    <3> QED
      BY <3>2, <3>3 DEF IsInterfaceList, l
  <2>2. CASE ~interfaces.valid
    BY <1>1, <2>2, EmptyList DEF InterfacesOK, IsInterfaceList
  <2> QED
    BY <2>1, <2>2
<1>3. IsBosList(bos.list)
  <2>1. CASE bos.valid
    BY <1>1, <2>1, CapabilitiesTyped DEF BosOK
  <2>2. CASE ~bos.valid
    BY <1>1, <2>2, EmptyList DEF BosOK, IsBosList
  <2> QED
    BY <2>1, <2>2
<1>4. IsReportList(hid.list)
  BY <1>1 DEF ReportsOK, IsReportList, HardwareAssumption
<1> QED
  BY <1>2, <1>3, <1>4 DEF ListsOK

\* What is fetched is typed, too.
LEMMA FetchTyped ==
  ASSUME NullIsNone, HardwareAssumption, DeviceInv, CacheInv, ListsOK, NEW list
  PROVE  /\ FetchInterfaces(list) => IsInterfaceList(list)
         /\ FetchBos(list) => IsBosList(list)
<1>1. ASSUME FetchInterfaces(list)
      PROVE  IsInterfaceList(list)
  <2>1. CASE list = interfaces.list
    BY <2>1 DEF ListsOK
  <2>2. CASE list = Null
    BY <2>2 DEF IsInterfaceList
  <2>3. CASE ~interfaces.valid /\ real /\ list = interfaces.list \o AllSettings(config)
    <3>1. InterfacesOK /\ config \in DOMAIN Hardware
      BY <2>3 DEF CacheInv, DeviceInv, DeviceOK
    <3>2. list = AllSettings(config)
      BY <2>3, <3>1, SettingsOf DEF InterfacesOK
    <3> DEFINE S == {f \in Setting : IsHid(f) => f.desc.InterfaceNumber \in DOMAIN Report}
    <3>3. list \in Seq(S)
      BY <3>1, <3>2, SettingsOf
    <3>4. \A f \in S : IsInterface(f)
      BY SettingTyped
    <3> HIDE DEF S
    <3>5. IsSeq(list) /\ \A i \in DOMAIN list : list[i] \in S
      BY <3>3, SeqOfSet
    <3> QED
      BY <3>4, <3>5 DEF IsInterfaceList
  <2> QED
    BY <1>1, <2>1, <2>2, <2>3, Zenon DEF FetchInterfaces
<1>2. ASSUME FetchBos(list)
      PROVE  IsBosList(list)
  <2>1. CASE list = bos.list
    BY <2>1 DEF ListsOK
  <2>2. CASE list = Null
    BY <2>2 DEF IsBosList
  <2>3. CASE ~bos.valid /\ real /\ list = bos.list \o Capabilities
    <3>1. BosOK /\ Capabilities \in Seq([desc : Desc(BosMembers), extra : Bytes])
      BY <2>3 DEF CacheInv, HardwareAssumption
    <3>2. list = Capabilities
      BY <2>3, <3>1, ConcatEmptySeq DEF BosOK
    <3> QED
      BY <3>2, CapabilitiesTyped
  <2> QED
    BY <1>2, <2>1, <2>2, <2>3, Zenon DEF FetchBos
<1> QED
  BY <1>1, <1>2

\* An emulated device fetches nothing.
LEMMA EmulatedFetch ==
  ASSUME ~real, NEW list
  PROVE  /\ FetchInterfaces(list) => UNCHANGED interfaces
         /\ FetchBos(list) => UNCHANGED bos
BY Zenon DEF FetchInterfaces, FetchBos

LEMMA AllListsTyped ==
  ASSUME NullIsNone, HardwareAssumption, CacheInv, EmulatedOK
  PROVE  ListsOK
BY RealListsTyped DEF EmulatedOK

LEMMA EmulatedKept ==
  ASSUME EmulatedOK, UNCHANGED real, ~real => UNCHANGED <<interfaces, bos, hid>>
  PROVE  EmulatedOK'
BY DEF EmulatedOK, ListsOK

-----------------------------------------------------------------------------
(* The frames.                                                             *)

LEMMA FramesKept ==
  ASSUME FramesTyped, UNCHANGED queries
  PROVE  FramesTyped'
BY Zenon DEF FramesTyped

LEMMA GoTyped ==
  ASSUME FramesOK, FramesTyped, queries # <<>>, NEW stage, NEW at, NEW answer,
         Go(stage, at, answer), stage = "return" => IsReportList(answer)
  PROVE  FramesTyped'
<1> DEFINE n == Len(queries)
<1>1. /\ DOMAIN queries' = DOMAIN queries /\ n \in DOMAIN queries
      /\ \A q \in DOMAIN queries \ {n} : queries'[q] = queries[q]
      /\ queries'[n].stage = stage /\ queries'[n].answer = answer
      /\ queries'[n].bos = queries[n].bos
  BY GoFrame
<1> HIDE DEF n
<1> SUFFICES ASSUME NEW q \in DOMAIN queries
             PROVE  /\ IsBosList(queries'[q].bos)
                    /\ queries'[q].stage = "return" => IsReportList(queries'[q].answer)
  BY <1>1, Zenon DEF FramesTyped
<1>2. /\ IsBosList(queries[q].bos)
      /\ queries[q].stage = "return" => IsReportList(queries[q].answer)
  BY Zenon DEF FramesTyped
<1>3. CASE q = n
  BY <1>1, <1>2, <1>3
<1>4. CASE q # n
  <2>1. queries'[q] = queries[q]
    BY <1>1, <1>4
  <2> QED
    BY <1>2, <2>1
<1> QED
  BY <1>3, <1>4

LEMMA NewTyped ==
  ASSUME FramesOK, FramesTyped, NEW saving, NEW list, IsBosList(list),
         queries' = Append(queries, Frame(saving, list))
  PROVE  FramesTyped'
<1> DEFINE n == Len(queries) + 1
<1>1. /\ DOMAIN queries' = DOMAIN queries \cup {n}
      /\ \A q \in DOMAIN queries : queries'[q] = queries[q]
      /\ queries'[n].stage = "start" /\ queries'[n].bos = list
  BY AppendFrame
<1> HIDE DEF n
<1> SUFFICES ASSUME NEW q \in DOMAIN queries'
             PROVE  /\ IsBosList(queries'[q].bos)
                    /\ queries'[q].stage = "return" => IsReportList(queries'[q].answer)
  BY Zenon DEF FramesTyped
<1>2. CASE q = n
  BY <1>1, <1>2
<1>3. CASE q # n
  <2>1. q \in DOMAIN queries /\ queries'[q] = queries[q]
    BY <1>1, <1>3
  <2>2. /\ IsBosList(queries[q].bos)
        /\ queries[q].stage = "return" => IsReportList(queries[q].answer)
    BY <2>1, Zenon DEF FramesTyped
  <2> QED
    BY <2>1, <2>2
<1> QED
  BY <1>2, <1>3

LEMMA FrontTyped ==
  ASSUME FramesOK, FramesTyped, queries # <<>>, queries' = Front(queries)
  PROVE  FramesTyped'
<1>1. /\ DOMAIN queries' \subseteq DOMAIN queries
      /\ \A q \in DOMAIN queries' : queries'[q] = queries[q]
  BY FrontFrame
<1> SUFFICES ASSUME NEW q \in DOMAIN queries'
             PROVE  /\ IsBosList(queries'[q].bos)
                    /\ queries'[q].stage = "return" => IsReportList(queries'[q].answer)
  BY Zenon DEF FramesTyped
<1>2. q \in DOMAIN queries /\ queries'[q] = queries[q]
  BY <1>1
<1>3. /\ IsBosList(queries[q].bos)
      /\ queries[q].stage = "return" => IsReportList(queries[q].answer)
  BY <1>2, Zenon DEF FramesTyped
<1> QED
  BY <1>2, <1>3

LEMMA AnswerTyped ==
  ASSUME FramesOK, FramesTyped, NEW n \in DOMAIN queries, queries[n].stage = "waiting",
         NEW answer, queries' = [queries EXCEPT ![n].answer = answer]
  PROVE  FramesTyped'
<1>1. /\ DOMAIN queries' = DOMAIN queries
      /\ \A q \in DOMAIN queries : q # n => queries'[q] = queries[q]
      /\ queries'[n].stage = "waiting" /\ queries'[n].bos = queries[n].bos
  BY AnswerFrame
<1> SUFFICES ASSUME NEW q \in DOMAIN queries
             PROVE  /\ IsBosList(queries'[q].bos)
                    /\ queries'[q].stage = "return" => IsReportList(queries'[q].answer)
  BY <1>1, Zenon DEF FramesTyped
<1>2. /\ IsBosList(queries[q].bos)
      /\ queries[q].stage = "return" => IsReportList(queries[q].answer)
  BY Zenon DEF FramesTyped
<1>3. CASE q = n
  BY <1>1, <1>2, <1>3
<1>4. CASE q # n
  <2>1. queries'[q] = queries[q]
    BY <1>1, <1>4
  <2> QED
    BY <1>2, <2>1
<1> QED
  BY <1>3, <1>4

-----------------------------------------------------------------------------
(* The steps.                                                              *)

LEMMA SavedKept ==
  ASSUME SavedOK, UNCHANGED file
  PROVE  SavedOK'
BY Zenon DEF SavedOK

LEMMA RequestFile ==
  ASSUME NullIsNone, HardwareAssumption, DeviceInv, CacheInv, FileInv,
         \/ \E r \in Requests : Ask(r)
         \/ \E i \in DOMAIN inflight : \E cancelled \in BOOLEAN : TransferCb(i, cancelled)
         \/ ReplayNext
  PROVE  FileInv'
<1>1. UNCHANGED <<caches, real, queries, file>>
  BY Zenon DEF Ask, GetStringDescriptor, GetStringDescriptorBytes, GetCustomIndex,
     GetConfigurationIndex, Transfer, Refuse, Record, RecordBytes, TransferCb, ReplayNext,
     device, files
<1>2. EmulatedOK' /\ FramesTyped' /\ SavedOK'
  BY <1>1, EmulatedKept, FramesKept, SavedKept DEF FileInv, caches
<1>3. EventsTyped'
  <2>1. CASE \E r \in Requests : Ask(r)
    BY <2>1, AskTyped DEF FileInv
  <2>2. CASE \E i \in DOMAIN inflight : \E cancelled \in BOOLEAN : TransferCb(i, cancelled)
    BY <2>2, CallbackTyped DEF FileInv, DeviceInv
  <2>3. CASE ReplayNext
    BY <2>3, Zenon DEF ReplayNext, FileInv, EventsTyped
  <2> QED
    BY <2>1, <2>2, <2>3
<1> QED
  BY <1>2, <1>3 DEF FileInv

LEMMA HidTransferCbFile ==
  ASSUME NullIsNone, HardwareAssumption, DeviceInv, CacheInv, FileInv,
         NEW i \in DOMAIN inflight, HidTransferCb(i)
  PROVE  FileInv'
<1>1. UNCHANGED <<caches, real, file>>
  BY Zenon DEF HidTransferCb, device, files
<1>2. EmulatedOK' /\ SavedOK'
  BY <1>1, EmulatedKept, SavedKept DEF FileInv, caches
<1>3. EventsTyped'
  BY CallbackTyped DEF FileInv, DeviceInv
<1>4. FramesTyped'
  <2> DEFINE n == inflight[i].query
  <2>1. n # 0 /\ \E answer : queries' = [queries EXCEPT ![n].answer = answer]
    BY Zenon DEF HidTransferCb
  <2>2. n \in DOMAIN queries /\ queries[n].stage = "waiting"
    BY <2>1 DEF CacheInv, QueriesOK, WaitersOK
  <2> HIDE DEF n
  <2> QED
    BY <2>1, <2>2, AnswerTyped DEF FileInv, CacheInv, QueriesOK
<1> QED
  BY <1>2, <1>3, <1>4 DEF FileInv

LEMMA ReplaceFile ==
  ASSUME NullIsNone, FileInv, ClearEvents \/ LoadEvents
  PROVE  FileInv'
<1>1. PICK es, entries : ReplaceEvents(es, entries) /\ IsEventList(es)
  <2>1. CASE ClearEvents
    <3>1. IsEventList(<<>>)
      BY EmptyList DEF IsEventList
    <3> QED
      BY <2>1, <3>1 DEF ClearEvents
  <2>2. CASE LoadEvents
    <3> DEFINE d == LoadDevice(file, Null)
    <3>1. file # Null /\ ReplaceEvents(d.events, saved)
      BY <2>2, Zenon DEF LoadEvents
    <3>2. d = LoadDevice(file, Null)
      OBVIOUS
    <3> HIDE DEF d
    <3>3. IsEventList(d.events)
      BY <3>1, <3>2, LoadedTyped DEF FileInv
    <3> QED
      BY <3>1, <3>3
  <2> QED
    BY <2>1, <2>2
<1>2. UNCHANGED <<caches, real, queries, file>> /\ events' = es
  BY <1>1, Zenon DEF ReplaceEvents, device, files
<1> QED
  BY <1>1, <1>2, EmulatedKept, FramesKept, SavedKept DEF FileInv, EventsTyped, caches

LEMMA FetchFile ==
  ASSUME NullIsNone, HardwareAssumption, DeviceInv, CacheInv, FileInv,
         GetInterface \/ GetBosDescriptors \/ Invalidate
  PROVE  FileInv'
<1>1. UNCHANGED <<real, queries, file, events>>
  BY DEF GetInterface, GetBosDescriptors, Invalidate, device, files, recording
<1>2. FramesTyped' /\ SavedOK' /\ EventsTyped'
  BY <1>1, FramesKept, SavedKept DEF FileInv, EventsTyped
<1>3. EmulatedOK'
  <2>1. CASE GetInterface \/ GetBosDescriptors
    <3>1. \E list : \/ FetchInterfaces(list) /\ UNCHANGED <<bos, hid>>
                    \/ FetchBos(list) /\ UNCHANGED <<interfaces, hid>>
      BY <2>1, Zenon DEF GetInterface, GetBosDescriptors
    <3>2. ~real => UNCHANGED <<interfaces, bos, hid>>
      BY <3>1, EmulatedFetch
    <3> QED
      BY <1>1, <3>2, EmulatedKept DEF FileInv
  <2>2. CASE Invalidate
    <3>1. interfaces'.list = <<>> /\ bos'.list = <<>>
      BY <2>2 DEF Invalidate
    <3>2. hid'.list = <<>>
      <4>1. IsCache(hid) /\ hid' = [hid EXCEPT !.list = <<>>]
        BY <2>2 DEF Invalidate, DeviceInv, CachesOK
      <4> QED
        BY <4>1 DEF IsCache
    <3> QED
      BY <3>1, <3>2, EmptyList DEF EmulatedOK, ListsOK, IsBosList, IsInterfaceList, IsReportList
  <2> QED
    BY <2>1, <2>2
<1> QED
  BY <1>2, <1>3 DEF FileInv

LEMMA StartFile ==
  ASSUME NullIsNone, HardwareAssumption, DeviceInv, CacheInv, FileInv,
         GetHidDescriptors \/ Save
  PROVE  FileInv'
<1>1. UNCHANGED <<real, file, events>>
  BY DEF GetHidDescriptors, Save, device, files, recording
<1>2. SavedOK' /\ EventsTyped'
  BY <1>1, SavedKept DEF FileInv, EventsTyped
<1>3. FramesOK
  BY DEF CacheInv, QueriesOK
<1>4. CASE GetHidDescriptors
  <2>1. queries' = Append(queries, Frame(FALSE, Null)) /\ UNCHANGED <<interfaces, bos, hid>>
    BY <1>4 DEF GetHidDescriptors
  <2>2. IsBosList(Null)
    BY DEF IsBosList
  <2>3. EmulatedOK'
    BY <1>1, <2>1, EmulatedKept DEF FileInv
  <2>4. FramesTyped'
    BY <1>3, <2>1, <2>2, NewTyped DEF FileInv
  <2> QED
    BY <1>2, <2>3, <2>4 DEF FileInv
<1>5. CASE Save
  <2>1. PICK list : FetchBos(list) /\ queries' = Append(queries, Frame(TRUE, list))
    BY <1>5 DEF Save
  <2>2. UNCHANGED <<interfaces, hid>>
    BY <1>5 DEF Save
  <2>3. IsBosList(list)
    BY <2>1, AllListsTyped, FetchTyped DEF FileInv
  <2>4. EmulatedOK'
    BY <1>1, <2>1, <2>2, EmulatedFetch, EmulatedKept DEF FileInv
  <2>5. FramesTyped'
    BY <1>3, <2>1, <2>3, NewTyped DEF FileInv
  <2> QED
    BY <1>2, <2>4, <2>5 DEF FileInv
<1> QED
  BY <1>4, <1>5

LEMMA HidStartFile ==
  ASSUME NullIsNone, HardwareAssumption, DeviceInv, CacheInv, FileInv, HidStart
  PROVE  FileInv'
<1>1. UNCHANGED <<bos, hid, real, file, events>> /\ queries # <<>>
  BY DEF HidStart, device, files, recording, InQuery
<1>2. SavedOK' /\ EventsTyped'
  BY <1>1, SavedKept DEF FileInv, EventsTyped
<1>3. UNCHANGED interfaces \/ \E list : FetchInterfaces(list)
  BY Zenon DEF HidStart
<1>4. EmulatedOK'
  BY <1>1, <1>3, EmulatedFetch, EmulatedKept DEF FileInv
<1>5. Leave(hid.list) \/ Leave(Null) \/ Go("scan", 0, Null)
  BY Zenon DEF HidStart
<1>6. FramesTyped'
  <2>1. IsReportList(hid.list) /\ IsReportList(Null)
    BY AllListsTyped DEF FileInv, ListsOK, IsReportList
  <2> QED
    BY <1>1, <1>5, <2>1, GoTyped DEF Leave, FileInv, CacheInv, QueriesOK
<1> QED
  BY <1>2, <1>4, <1>6 DEF FileInv

LEMMA HidScanFile ==
  ASSUME NullIsNone, HardwareAssumption, DeviceInv, CacheInv, FileInv, HidScan \/ HidAnswer
  PROVE  FileInv'
<1>1. UNCHANGED <<real, file>> /\ queries # <<>>
  BY DEF HidScan, HidAnswer, InQuery, device, files
<1>2. real
  <2>1. CASE HidScan
    BY <2>1, ScanIsReal DEF HidScan
  <2>2. CASE HidAnswer
    <3>1. FramesOK /\ queries # <<>> /\ Last(queries).stage = "waiting"
      BY <2>2 DEF CacheInv, QueriesOK, HidAnswer, InQuery
    <3>2. Len(queries) \in DOMAIN queries /\ Last(queries) = queries[Len(queries)]
      BY <3>1, Innermost
    <3> QED
      BY <3>1, <3>2 DEF CacheInv, QueriesOK, AnswersOK
  <2> QED
    BY <2>1, <2>2
<1>3. EmulatedOK' /\ SavedOK'
  BY <1>1, <1>2, SavedKept DEF EmulatedOK, FileInv
<1>4. EventsTyped'
  <2>1. CASE HidScan
    BY <2>1, ScanTyped DEF FileInv
  <2>2. CASE HidAnswer
    BY <2>2 DEF HidAnswer, recording, FileInv, EventsTyped
  <2> QED
    BY <2>1, <2>2
<1>5. \/ Leave(Null) \/ Leave(hid.list)
      \/ \E stage, at : stage # "return" /\ Go(stage, at, Null)
  <2>1. CASE HidScan
    BY <2>1, Zenon DEF HidScan, Fail
  <2>2. CASE HidAnswer
    BY <2>2, Zenon DEF HidAnswer, Fail
  <2> QED
    BY <2>1, <2>2
<1>6. FramesTyped'
  <2>1. IsReportList(hid.list) /\ IsReportList(Null) /\ FramesOK
    BY AllListsTyped DEF FileInv, ListsOK, IsReportList, CacheInv, QueriesOK
  <2>2. CASE Leave(Null) \/ Leave(hid.list)
    BY <1>1, <2>1, <2>2, GoTyped DEF Leave, FileInv
  <2>3. CASE \E stage, at : stage # "return" /\ Go(stage, at, Null)
    BY <1>1, <2>1, <2>3, GoTyped DEF FileInv
  <2> QED
    BY <1>5, <2>2, <2>3
<1> QED
  BY <1>3, <1>4, <1>6 DEF FileInv

\* What the device is saved as: its events are those that are there by now.
LEMMA ReturnedFile ==
  ASSUME NullIsNone, HardwareAssumption, DeviceAssumption, DeviceInv, CacheInv, FileInv,
         SaveReturn
  PROVE  \E d, b, h, l : /\ IsDevice(d) /\ IsBosList(b) /\ IsReportList(h) /\ IsInterfaceList(l)
                         /\ file' = SaveDevice(d, b, h, l) /\ d.events = events
<1> DEFINE d == [Identity EXCEPT !.events = events]
           b == Last(queries).bos
           h == Last(queries).answer
<1>1. PICK list : FetchInterfaces(list) /\ file' = SaveDevice(d, b, h, list)
  BY Zenon DEF SaveReturn
<1>2. IsInterfaceList(list)
  BY <1>1, AllListsTyped, FetchTyped DEF FileInv
<1>3. IsBosList(b) /\ IsReportList(h)
  <2>1. queries # <<>> /\ FramesOK /\ Last(queries).stage = "return"
    BY DEF SaveReturn, InQuery, CacheInv, QueriesOK
  <2>2. Len(queries) \in DOMAIN queries /\ Last(queries) = queries[Len(queries)]
    BY <2>1, Innermost
  <2> QED
    BY <2>1, <2>2 DEF FileInv, FramesTyped
<1>4. IsDevice(d)
  <2>1. d.desc = Identity.desc /\ d.tags = Identity.tags /\ d.events = events
    BY DEF DeviceAssumption
  <2>2. IsSeq(Identity.tags) /\ \A i \in DOMAIN Identity.tags : Identity.tags[i] # ""
    <3> DEFINE S == STRING \ {""}
               s == Identity.tags
    <3>1. s \in Seq(S)
      BY DEF HardwareAssumption
    <3>2. \A x \in S : x # ""
      OBVIOUS
    <3> HIDE DEF S, s
    <3>3. IsSeq(s) /\ \A i \in DOMAIN s : s[i] \in S
      BY <3>1, SeqOfSet
    <3> QED
      BY <3>2, <3>3 DEF s
  <2>3. Identity.desc \in Desc(DeviceMembers)
    BY DEF HardwareAssumption
  <2> HIDE DEF d
  <2> QED
    BY <2>1, <2>2, <2>3 DEF IsDevice, FileInv, EventsTyped
<1>5. d.events = events
  BY DEF DeviceAssumption
<1> HIDE DEF d, b, h
<1> QED
  BY <1>1, <1>2, <1>3, <1>4, <1>5

LEMMA ReturnFile ==
  ASSUME NullIsNone, HardwareAssumption, DeviceAssumption, DeviceInv, CacheInv, FileInv,
         HidReturn \/ SaveReturn
  PROVE  FileInv'
<1> DEFINE n == Len(queries)
<1>1. InQuery("return") /\ queries' = Front(queries) /\ UNCHANGED <<real, bos, hid, events>>
  BY DEF HidReturn, SaveReturn, device, caches, recording
<1>2. EventsTyped'
  BY <1>1 DEF FileInv, EventsTyped
<1>3. FramesOK /\ queries # <<>>
  BY <1>1 DEF CacheInv, QueriesOK, InQuery
<1>4. FramesTyped'
  BY <1>1, <1>3, FrontTyped DEF FileInv
<1>5. EmulatedOK'
  <2>1. UNCHANGED interfaces \/ \E list : FetchInterfaces(list)
    BY Zenon DEF HidReturn, SaveReturn, caches
  <2> QED
    BY <1>1, <2>1, EmulatedFetch, EmulatedKept DEF FileInv
<1>6. SavedOK'
  <2>1. CASE HidReturn
    BY <2>1, SavedKept DEF HidReturn, FileInv, files
  <2>2. CASE SaveReturn
    BY <2>2, ReturnedFile DEF IsSaved, SavedOK
  <2> QED
    BY <2>1, <2>2
<1> QED
  BY <1>2, <1>4, <1>5, <1>6 DEF FileInv

LEMMA LoadFile ==
  ASSUME NullIsNone, FileInv, Load
  PROVE  FileInv'
<1> DEFINE d == LoadDevice(file, Null)
<1>1. /\ file # Null /\ UNCHANGED <<queries, file>>
      /\ interfaces' = [list |-> d.interfaces, valid |-> TRUE]
      /\ bos' = [list |-> d.bos, valid |-> TRUE]
      /\ hid' = [list |-> d.hid, valid |-> TRUE]
      /\ events' = d.events
  BY Zenon DEF Load, files
<1>2. d = LoadDevice(file, Null)
  OBVIOUS
<1> HIDE DEF d
<1>3. /\ IsEventList(d.events) /\ IsBosList(d.bos) /\ IsInterfaceList(d.interfaces)
      /\ IsReportList(d.hid)
  BY <1>1, <1>2, LoadedTyped DEF FileInv
<1>4. interfaces'.list = d.interfaces /\ bos'.list = d.bos /\ hid'.list = d.hid
  BY <1>1
<1>5. EmulatedOK' /\ EventsTyped'
  BY <1>1, <1>3, <1>4 DEF EmulatedOK, ListsOK, EventsTyped
<1> QED
  BY <1>1, <1>5, FramesKept, SavedKept DEF FileInv

LEMMA HandleFile ==
  ASSUME FileInv, Open \/ Close \/ (\E c \in DOMAIN Hardware : SetConfiguration(c)) \/ UNCHANGED vars
  PROVE  FileInv'
<1>1. UNCHANGED <<caches, real, queries, file, events>>
  BY DEF Open, Close, SetConfiguration, vars, device, recording, files
<1> QED
  BY <1>1, EmulatedKept, FramesKept, SavedKept DEF FileInv, EventsTyped, caches

LEMMA InitFile ==
  ASSUME Init
  PROVE  FileInv
<1>1. IsEventList(<<>>) /\ DOMAIN <<>> = {}
  BY EmptyList DEF IsEventList
<1> QED
  BY <1>1 DEF Init, FileInv, EventsTyped, EmulatedOK, FramesTyped, SavedOK

LEMMA NextFile ==
  ASSUME NullIsNone, HardwareAssumption, DeviceAssumption, DeviceInv, CacheInv, FileInv, [Next]_vars
  PROVE  FileInv'
<1>1. CASE \/ \E r \in Requests : Ask(r)
           \/ \E i \in DOMAIN inflight : \E cancelled \in BOOLEAN : TransferCb(i, cancelled)
           \/ ReplayNext
  BY <1>1, RequestFile
<1>2. CASE \E i \in DOMAIN inflight : HidTransferCb(i)
  BY <1>2, HidTransferCbFile
<1>3. CASE ClearEvents \/ LoadEvents
  BY <1>3, ReplaceFile
<1>4. CASE GetInterface \/ GetBosDescriptors \/ Invalidate
  BY <1>4, FetchFile
<1>5. CASE GetHidDescriptors \/ Save
  BY <1>5, StartFile
<1>6. CASE HidStart
  BY <1>6, HidStartFile
<1>7. CASE HidScan \/ HidAnswer
  BY <1>7, HidScanFile
<1>8. CASE HidReturn \/ SaveReturn
  BY <1>8, ReturnFile
<1>9. CASE Load
  BY <1>9, LoadFile
<1>10. CASE Open \/ Close \/ (\E c \in DOMAIN Hardware : SetConfiguration(c)) \/ UNCHANGED vars
  BY <1>10, HandleFile
<1> QED
  BY <1>1, <1>2, <1>3, <1>4, <1>5, <1>6, <1>7, <1>8, <1>9, <1>10 DEF Next

LEMMA SpecFile ==
  ASSUME NullIsNone
  PROVE  Spec => [](DeviceInv /\ CacheInv /\ FileInv)
<1>1. Spec => [](DeviceInv /\ CacheInv)
  BY SpecCaches
<1>2. Init => FileInv
  BY InitFile
<1>3. DeviceInv /\ CacheInv /\ FileInv /\ [Next]_vars => FileInv'
  BY NextFile, HardwareAssumption, DeviceAssumption
<1> QED
  BY <1>1, <1>2, <1>3, PTL DEF Spec

LEMMA FileIsStable ==
  ASSUME NullIsNone, FileInv
  PROVE  FileStable
<1> SUFFICES ASSUME file # Null
             PROVE  LET d == LoadDevice(file, Null)
                    IN Loadable(file) /\ SaveDevice(d, d.bos, d.hid, d.interfaces) = file
  BY DEF FileStable
<1>1. PICK e, b, h, l : /\ IsDevice(e) /\ IsBosList(b) /\ IsReportList(h) /\ IsInterfaceList(l)
                        /\ file = SaveDevice(e, b, h, l)
  BY DEF FileInv, SavedOK, IsSaved
<1> DEFINE d == LoadDevice(file, Null)
<1>2. d = LoadDevice(file, Null)
  OBVIOUS
<1> HIDE DEF d
<1>3. Loadable(file)
  BY <1>1, <1>2, LoadSavedDevice
<1>4. SaveDevice(d, d.bos, d.hid, d.interfaces) = file
  BY <1>1, <1>2, SaveLoadedDevice
<1> QED
  BY <1>3, <1>4 DEF d

\* Whatever device is saved, with whatever queries failed or are still waiting, what
\* is loaded from the file and saved again is the same file.
THEOREM FilesStable ==
  ASSUME NullIsNone
  PROVE  Spec => []FileStable
BY SpecFile, FileIsStable, PTL

-----------------------------------------------------------------------------
(* What the events record.                                                 *)

\* A request that fails again when it is repeated; the index of the configuration
\* cannot fail and is 0 then.
Refused(entry) ==
  IF Kind[entry.request] = "config" THEN entry.answer = Ok(0) ELSE Failed(entry.answer)

\* The events es record the history s: each request has its own event, or none, and
\* the events are in the order of the requests; no other event has the key of a request.
Records(es, s) ==
  /\ \A i \in DOMAIN s : s[i].request \in Requests /\ (s[i].place = 0 => Refused(s[i]))
  /\ \A i, j \in DOMAIN s : i < j /\ s[i].place # 0 /\ s[j].place # 0 => s[i].place < s[j].place
  /\ \A i \in DOMAIN s : s[i].place # 0 =>
       /\ es[s[i].place].id = s[i].request
       /\ Settled(s[i]) => ReplayEvent(s[i].request, es[s[i].place]) = s[i].answer
  /\ \A p \in DOMAIN es : es[p].id \in Requests => \E i \in DOMAIN s : s[i].place = p

\* A request is refused.
LEMMA RefusedRecords ==
  ASSUME NEW es, NEW s, IsSeq(s), Records(es, s), NEW x, x.request \in Requests, x.place = 0,
         Refused(x), NEW t, t = Append(s, x)
  PROVE  Records(es, t)
<1>1. Len(s) \in Nat /\ DOMAIN s = 1 .. Len(s)
  BY IsSeqOfElements DEF IsSeq
<1>2. /\ IsSeq(t) /\ DOMAIN t = 1 .. Len(s) + 1 /\ t[Len(s) + 1] = x
      /\ \A i \in 1 .. Len(s) : t[i] = s[i]
  BY <1>1, AppendIsSeq, IsSeqOfElements
<1>3. ASSUME NEW i \in DOMAIN t
      PROVE  (i = Len(s) + 1 /\ t[i] = x) \/ (i \in DOMAIN s /\ t[i] = s[i])
  BY <1>1, <1>2
<1>4. \A i \in DOMAIN t : t[i].request \in Requests /\ (t[i].place = 0 => Refused(t[i]))
  BY <1>3 DEF Records
<1>5. \A i, j \in DOMAIN t : i < j /\ t[i].place # 0 /\ t[j].place # 0 => t[i].place < t[j].place
  BY <1>3 DEF Records
<1>6. \A i \in DOMAIN t : t[i].place # 0 =>
        /\ es[t[i].place].id = t[i].request
        /\ Settled(t[i]) => ReplayEvent(t[i].request, es[t[i].place]) = t[i].answer
  BY <1>3 DEF Records
<1>7. \A p \in DOMAIN es : es[p].id \in Requests => \E i \in DOMAIN t : t[i].place = p
  <2> SUFFICES ASSUME NEW p \in DOMAIN es, es[p].id \in Requests
               PROVE  \E i \in DOMAIN t : t[i].place = p
    OBVIOUS
  <2>1. PICK i \in DOMAIN s : s[i].place = p
    BY DEF Records
  <2>2. i \in DOMAIN t /\ t[i] = s[i]
    BY <1>1, <1>2
  <2> QED
    BY <2>1, <2>2
<1> QED
  BY <1>4, <1>5, <1>6, <1>7 DEF Records

\* A request is recorded.
LEMMA RecordedRecords ==
  ASSUME NEW es, IsSeq(es), NEW s, IsHistory(s, Len(es)), Records(es, s),
         NEW e, NEW x, x.request \in Requests, x.place = Len(es) + 1, e.id = x.request,
         Settled(x) => ReplayEvent(x.request, e) = x.answer,
         NEW fs, fs = Append(es, e), NEW t, t = Append(s, x)
  PROVE  Records(fs, t)
<1>1. /\ IsSeq(s) /\ Len(s) \in Nat /\ DOMAIN s = 1 .. Len(s)
      /\ Len(es) \in Nat /\ DOMAIN es = 1 .. Len(es)
      /\ \A i \in DOMAIN s : s[i].place \in 0 .. Len(es)
  BY IsSeqOfElements DEF IsHistory, IsSeq
<1>2. /\ IsSeq(t) /\ DOMAIN t = 1 .. Len(s) + 1 /\ t[Len(s) + 1] = x
      /\ \A i \in 1 .. Len(s) : t[i] = s[i]
  BY <1>1, AppendIsSeq, IsSeqOfElements
<1>3. /\ IsSeq(fs) /\ DOMAIN fs = 1 .. Len(es) + 1 /\ fs[Len(es) + 1] = e
      /\ \A i \in 1 .. Len(es) : fs[i] = es[i]
  BY <1>1, AppendIsSeq, IsSeqOfElements
<1>4. \A i \in DOMAIN t : (i = Len(s) + 1 /\ t[i] = x) \/ (i \in DOMAIN s /\ t[i] = s[i])
  BY <1>1, <1>2
<1>5. \A i \in DOMAIN t : t[i].request \in Requests /\ (t[i].place = 0 => Refused(t[i]))
  BY <1>1, <1>4 DEF Records
<1>6. ASSUME NEW i \in DOMAIN t, NEW j \in DOMAIN t, i < j, t[i].place # 0, t[j].place # 0
      PROVE  t[i].place < t[j].place
  <2>1. i \in DOMAIN s /\ t[i] = s[i]
    BY <1>1, <1>2, <1>4, <1>6
  <2>2. CASE j \in DOMAIN s /\ t[j] = s[j]
    BY <1>6, <2>1, <2>2 DEF Records
  <2>3. CASE t[j] = x
    <3>1. s[i].place \in 0 .. Len(es)
      BY <1>1, <2>1
    <3> QED
      BY <1>1, <2>1, <2>3, <3>1
  <2> QED
    BY <1>4, <2>2, <2>3
<1>7. ASSUME NEW i \in DOMAIN t, t[i].place # 0
      PROVE  /\ fs[t[i].place].id = t[i].request
             /\ Settled(t[i]) => ReplayEvent(t[i].request, fs[t[i].place]) = t[i].answer
  <2>1. CASE i \in DOMAIN s /\ t[i] = s[i]
    <3>1. fs[s[i].place] = es[s[i].place]
      <4>1. s[i].place \in 1 .. Len(es)
        BY <1>1, <1>7, <2>1
      <4> QED
        BY <1>3, <4>1
    <3> QED
      BY <1>7, <2>1, <3>1 DEF Records
  <2>2. CASE t[i] = x
    BY <1>3, <2>2
  <2> QED
    BY <1>4, <2>1, <2>2
<1>8. ASSUME NEW p \in DOMAIN fs, fs[p].id \in Requests
      PROVE  \E i \in DOMAIN t : t[i].place = p
  <2>1. CASE p = Len(es) + 1
    <3>1. Len(s) + 1 \in DOMAIN t
      BY <1>1, <1>2
    <3> QED
      BY <1>2, <2>1, <3>1
  <2>2. CASE p # Len(es) + 1
    <3>1. p \in DOMAIN es /\ fs[p] = es[p]
      BY <1>1, <1>3, <2>2
    <3>2. PICK i \in DOMAIN s : s[i].place = p
      BY <1>8, <3>1 DEF Records
    <3>3. i \in DOMAIN t /\ t[i] = s[i]
      BY <1>1, <1>2
    <3> QED
      BY <3>2, <3>3
  <2> QED
    BY <2>1, <2>2
<1> QED
  BY <1>5, <1>6, <1>7, <1>8 DEF Records

\* An event is added that is for no request of the application.
LEMMA OtherRecords ==
  ASSUME NEW es, IsSeq(es), NEW s, IsHistory(s, Len(es)), Records(es, s),
         NEW e, e.id \notin Requests, NEW fs, fs = Append(es, e)
  PROVE  Records(fs, s)
<1>1. /\ Len(es) \in Nat /\ DOMAIN es = 1 .. Len(es)
      /\ \A i \in DOMAIN s : s[i].place \in 0 .. Len(es)
  BY IsSeqOfElements DEF IsHistory, IsSeq
<1>2. /\ DOMAIN fs = 1 .. Len(es) + 1 /\ fs[Len(es) + 1] = e
      /\ \A i \in 1 .. Len(es) : fs[i] = es[i]
  BY <1>1, AppendIsSeq, IsSeqOfElements
<1>3. ASSUME NEW i \in DOMAIN s, s[i].place # 0
      PROVE  /\ fs[s[i].place].id = s[i].request
             /\ Settled(s[i]) => ReplayEvent(s[i].request, fs[s[i].place]) = s[i].answer
  <2>1. fs[s[i].place] = es[s[i].place]
    <3>1. s[i].place \in 1 .. Len(es)
      BY <1>1, <1>3
    <3> QED
      BY <1>2, <3>1
  <2> QED
    BY <1>3, <2>1 DEF Records
<1>4. ASSUME NEW p \in DOMAIN fs, fs[p].id \in Requests
      PROVE  \E i \in DOMAIN s : s[i].place = p
  <2>1. p # Len(es) + 1
    BY <1>2, <1>4
  <2>2. p \in DOMAIN es /\ fs[p] = es[p]
    BY <1>1, <1>2, <2>1
  <2> QED
    BY <1>4, <2>2 DEF Records
<1> QED
  BY <1>3, <1>4 DEF Records

\* The event at p is settled, and with it the answer of the request that it records.
SettledAt(p, es, s, fs, t) ==
  /\ p # 0 /\ DOMAIN fs = DOMAIN es /\ fs[p].id = es[p].id
  /\ \A k \in DOMAIN es : k # p => fs[k] = es[k]
  /\ DOMAIN t = DOMAIN s
  /\ \A i \in DOMAIN s : /\ t[i].request = s[i].request /\ t[i].place = s[i].place
                         /\ s[i].place # p => t[i] = s[i]
                         /\ s[i].place = p /\ Settled(t[i]) =>
                              ReplayEvent(t[i].request, fs[p]) = t[i].answer

LEMMA SettledRecords ==
  ASSUME NEW es, NEW s, IsSeq(es), IsHistory(s, Len(es)), Records(es, s), NEW p, NEW fs, NEW t,
         SettledAt(p, es, s, fs, t)
  PROVE  Records(fs, t)
<1>0. /\ p # 0 /\ DOMAIN fs = DOMAIN es /\ fs[p].id = es[p].id
      /\ \A k \in DOMAIN es : k # p => fs[k] = es[k]
      /\ DOMAIN t = DOMAIN s
      /\ \A i \in DOMAIN s : /\ t[i].request = s[i].request /\ t[i].place = s[i].place
                             /\ s[i].place # p => t[i] = s[i]
                             /\ s[i].place = p /\ Settled(t[i]) =>
                                  ReplayEvent(t[i].request, fs[p]) = t[i].answer
  BY Zenon DEF SettledAt
<1>1. /\ Len(es) \in Nat /\ DOMAIN es = 1 .. Len(es)
      /\ \A i \in DOMAIN s : s[i].place \in 0 .. Len(es)
  BY IsSeqOfElements DEF IsHistory, IsSeq
<1>2. \A i \in DOMAIN t : t[i].request \in Requests /\ (t[i].place = 0 => Refused(t[i]))
  BY <1>0 DEF Records
<1>3. \A i, j \in DOMAIN t : i < j /\ t[i].place # 0 /\ t[j].place # 0 => t[i].place < t[j].place
  BY <1>0 DEF Records
<1>4. ASSUME NEW i \in DOMAIN t, t[i].place # 0
      PROVE  /\ fs[t[i].place].id = t[i].request
             /\ Settled(t[i]) => ReplayEvent(t[i].request, fs[t[i].place]) = t[i].answer
  <2>1. s[i].place \in DOMAIN es /\ es[s[i].place].id = s[i].request
    BY <1>0, <1>1, <1>4 DEF Records
  <2>2. CASE s[i].place = p
    BY <1>0, <1>4, <2>1, <2>2
  <2>3. CASE s[i].place # p
    <3>1. t[i] = s[i] /\ fs[s[i].place] = es[s[i].place]
      BY <1>0, <1>4, <2>1, <2>3
    <3> QED
      BY <1>0, <1>4, <3>1 DEF Records
  <2> QED
    BY <2>2, <2>3
<1>5. ASSUME NEW k \in DOMAIN fs, fs[k].id \in Requests
      PROVE  \E i \in DOMAIN t : t[i].place = k
  <2>1. k \in DOMAIN es /\ es[k].id \in Requests
    BY <1>0, <1>5
  <2> QED
    BY <1>0, <2>1 DEF Records
<1> QED
  BY <1>2, <1>3, <1>4, <1>5 DEF Records

-----------------------------------------------------------------------------
(* What load_event finds.                                                  *)

\* A request that is recorded finds its own event: the replay is before it and behind
\* all that were repeated, or it starts over.
LEMMA FindRecorded ==
  ASSUME IsSeq(events), IsHistory(session, Len(events)), Records(events, session),
         StartIdx \in Nat, NEW n \in DOMAIN session, session[n].place # 0,
         \/ /\ session[n].place > StartIdx
            /\ \A k \in DOMAIN session : session[k].place > StartIdx => k >= n
         \/ \A k \in DOMAIN session : session[k].place # 0 => session[k].place <= StartIdx /\ k >= n
  PROVE  FindEvent(session[n].request) = session[n].place
<1> DEFINE r == session[n].request
           q == session[n].place
           matching == {i \in DOMAIN events : events[i].id = r}
           next == {i \in matching : i > StartIdx}
<1>1. /\ Len(events) \in Nat /\ DOMAIN events = 1 .. Len(events)
      /\ DOMAIN session \subseteq Nat
      /\ \A i \in DOMAIN session : session[i].place \in 0 .. Len(events)
  BY IsSeqOfElements DEF IsHistory, IsSeq
<1>2. FindEvent(r) = IF next # {} THEN Min(next) ELSE IF matching # {} THEN Min(matching) ELSE 0
  BY DEF FindEvent
<1>3. q \in matching
  BY <1>1 DEF Records
<1>4. ASSUME NEW i \in matching
      PROVE  \E k \in DOMAIN session : session[k].place = i /\ i # 0
  BY <1>1 DEF Records
<1>5. matching \subseteq Nat
  BY <1>1
<1>6. \A k \in DOMAIN session : k >= n /\ session[k].place # 0 => session[k].place >= q
  BY <1>1 DEF Records
<1>7. CASE /\ q > StartIdx
           /\ \A k \in DOMAIN session : session[k].place > StartIdx => k >= n
  <2>1. q \in next /\ next \subseteq Nat
    BY <1>3, <1>5, <1>7
  <2>2. ASSUME NEW i \in next
        PROVE  q <= i
    <3>1. PICK k \in DOMAIN session : session[k].place = i /\ i # 0
      BY <1>4
    <3>2. k >= n
      BY <1>7, <3>1
    <3> QED
      BY <1>6, <3>1, <3>2
  <2> HIDE DEF next, q, r
  <2>3. Min(next) \in next /\ Min(next) <= q
    BY <2>1, MinIsLeast
  <2>4. Min(next) \in Nat /\ q \in Nat /\ q <= Min(next)
    BY <2>1, <2>2, <2>3
  <2>5. Min(next) = q
    BY <2>3, <2>4
  <2> QED
    BY <1>2, <2>1, <2>5 DEF q, r
<1>8. CASE \A k \in DOMAIN session : session[k].place # 0 =>
             session[k].place <= StartIdx /\ k >= n
  <2>1. next = {}
    <3> SUFFICES ASSUME NEW i \in matching, i > StartIdx
                 PROVE  FALSE
      OBVIOUS
    <3>1. PICK k \in DOMAIN session : session[k].place = i /\ i # 0
      BY <1>4
    <3> QED
      BY <1>5, <1>8, <3>1
  <2>2. ASSUME NEW i \in matching
        PROVE  q <= i
    <3>1. PICK k \in DOMAIN session : session[k].place = i /\ i # 0
      BY <1>4
    <3> QED
      BY <1>6, <1>8, <3>1
  <2> HIDE DEF next, matching, q, r
  <2>3. Min(matching) \in matching /\ Min(matching) <= q
    BY <1>3, <1>5, MinIsLeast
  <2>4. Min(matching) \in Nat /\ q \in Nat /\ q <= Min(matching)
    BY <1>3, <1>5, <2>2, <2>3
  <2>5. Min(matching) = q
    BY <2>3, <2>4
  <2> QED
    BY <1>2, <1>3, <2>1, <2>5 DEF q, r
<1> QED
  BY <1>7, <1>8

\* A request that is never recorded finds none.
LEMMA FindUnrecorded ==
  ASSUME IsSeq(events), IsHistory(session, Len(events)), Records(events, session), Regular,
         NEW n \in DOMAIN session, session[n].place = 0
  PROVE  FindEvent(session[n].request) = 0
<1> DEFINE r == session[n].request
           matching == {i \in DOMAIN events : events[i].id = r}
<1>1. DOMAIN events \subseteq Nat \ {0}
  BY IsSeqOfElements DEF IsSeq
<1>2. ASSUME NEW i \in matching
      PROVE  FALSE
  <2>1. r \in Requests
    BY DEF Records
  <2>2. PICK k \in DOMAIN session : session[k].place = i
    BY <2>1 DEF Records
  <2>3. session[k].place # 0 /\ session[k].request = r
    BY <1>1, <2>2 DEF Records
  <2> QED
    BY <2>3 DEF Regular
<1> QED
  BY <1>2 DEF FindEvent

-----------------------------------------------------------------------------
(* Where the replay is.                                                    *)

IsRecorded(i) == session[i].place # 0

\* In the middle of the events: behind those of the requests that were repeated.
Ahead ==
  \A i \in DOMAIN session : IsRecorded(i) =>
    IF i <= replayed THEN session[i].place <= StartIdx ELSE session[i].place > StartIdx

\* The events are used up, and only requests that have none are left.
Finished == StartIdx = 0 /\ \A i \in DOMAIN session : IsRecorded(i) => i <= replayed

\* The session starts over, and no request that has an event was repeated.
Fresh ==
  \A i \in DOMAIN session : IsRecorded(i) =>
    i > replayed /\ (StartIdx = 0 \/ session[i].place <= StartIdx)

CursorOK == Ahead \/ Finished \/ Fresh

\* The request that comes next finds its event.
LEMMA NextFinds ==
  ASSUME IsSeq(events), IsHistory(session, Len(events)), Records(events, session),
         StartIdx \in Nat, replayed \in 0 .. Len(session), CursorOK,
         NEW n \in DOMAIN session,
         n = IF replayed = Len(session) THEN 1 ELSE replayed + 1, IsRecorded(n)
  PROVE  FindEvent(session[n].request) = session[n].place
<1> DEFINE N == Len(session)
           place == [k \in DOMAIN session |-> session[k].place]
           S == StartIdx
<1>1. /\ N \in Nat /\ DOMAIN session = 1 .. N /\ replayed \in 0 .. N /\ n \in 1 .. N
      /\ n = IF replayed = N THEN 1 ELSE replayed + 1
      /\ S \in Nat
  BY IsSeqOfElements DEF IsHistory, IsSeq
<1>2. \A k \in 1 .. N : place[k] \in Nat /\ place[k] = session[k].place
  <2>1. Len(events) \in Nat
    BY DEF IsSeq
  <2>2. \A k \in DOMAIN session : session[k].place \in 0 .. Len(events)
    BY DEF IsHistory
  <2> QED
    BY <1>1, <2>1, <2>2
<1>3. place[n] # 0
  BY <1>1, <1>2 DEF IsRecorded
<1>4. \/ \A k \in 1 .. N : place[k] # 0 => IF k <= replayed THEN place[k] <= S ELSE place[k] > S
      \/ S = 0 /\ \A k \in 1 .. N : place[k] # 0 => k <= replayed
      \/ \A k \in 1 .. N : place[k] # 0 => k > replayed /\ (S = 0 \/ place[k] <= S)
  BY <1>1, <1>2 DEF CursorOK, Ahead, Finished, Fresh, IsRecorded
<1> HIDE DEF N, place, S
<1>5. \/ place[n] > S /\ \A k \in 1 .. N : place[k] > S => k >= n
      \/ \A k \in 1 .. N : place[k] # 0 => place[k] <= S /\ k >= n
  <2>1. CASE replayed = N
    <3>1. n = 1
      BY <1>1, <2>1
    <3>2. \A k \in 1 .. N : k >= n /\ k <= replayed /\ ~(k > replayed)
      BY <1>1, <2>1, <3>1
    <3>3. CASE \A k \in 1 .. N : place[k] # 0 =>
                 IF k <= replayed THEN place[k] <= S ELSE place[k] > S
      BY <3>2, <3>3
    <3>4. CASE S = 0
      <4>1. place[n] > S
        BY <1>1, <1>2, <1>3, <3>4
      <4> QED
        BY <3>2, <4>1
    <3>5. CASE \A k \in 1 .. N : place[k] # 0 => k > replayed
      BY <1>1, <1>3, <3>2, <3>5
    <3> QED
      BY <1>4, <3>3, <3>4, <3>5
  <2>2. CASE replayed # N
    <3>1. n = replayed + 1
      BY <1>1, <2>2
    <3>2. ~(n <= replayed) /\ \A k \in 1 .. N : (~(k <= replayed) => k >= n) /\ (k > replayed => k >= n)
      BY <1>1, <3>1
    <3>3. CASE \A k \in 1 .. N : place[k] # 0 =>
                 IF k <= replayed THEN place[k] <= S ELSE place[k] > S
      <4>1. place[n] > S
        BY <1>1, <1>3, <3>2, <3>3
      <4>2. ASSUME NEW k \in 1 .. N, place[k] > S
            PROVE  k >= n
        <5>1. place[k] # 0 /\ ~(place[k] <= S)
          BY <1>1, <1>2, <4>2
        <5> QED
          BY <3>2, <3>3, <5>1
      <4> QED
        BY <4>1, <4>2
    <3>4. CASE \A k \in 1 .. N : place[k] # 0 => k <= replayed
      BY <1>1, <1>3, <3>2, <3>4
    <3>5. CASE \A k \in 1 .. N : place[k] # 0 => k > replayed /\ (S = 0 \/ place[k] <= S)
      <4>1. CASE S = 0
        <5>1. \A k \in 1 .. N : place[k] > S => place[k] # 0
          BY <4>1
        <5>2. place[n] > S
          BY <1>1, <1>2, <1>3, <4>1
        <5> QED
          BY <3>2, <3>5, <5>1, <5>2
      <4>2. CASE S # 0
        BY <3>2, <3>5, <4>2
      <4> QED
        BY <4>1, <4>2
    <3> QED
      BY <1>4, <3>3, <3>4, <3>5
  <2> QED
    BY <2>1, <2>2
<1>6. \/ /\ session[n].place > StartIdx
         /\ \A k \in DOMAIN session : session[k].place > StartIdx => k >= n
      \/ \A k \in DOMAIN session : session[k].place # 0 =>
           session[k].place <= StartIdx /\ k >= n
  BY <1>1, <1>2, <1>5 DEF S
<1>7. session[n].place # 0
  BY DEF IsRecorded
<1> QED
  BY <1>6, <1>7, FindRecorded

\* A request that is recorded is repeated.
LEMMA RecordedCursor ==
  ASSUME IsSeq(events), IsHistory(session, Len(events)), Records(events, session),
         NEW n \in DOMAIN session, IsRecorded(n),
         UNCHANGED <<events, session>>, replayed' = n, event_idx' = session[n].place
  PROVE  CursorOK'
<1> DEFINE q == session[n].place
<1>1. /\ Len(events) \in Nat /\ DOMAIN session \subseteq Nat
      /\ \A i \in DOMAIN session : session[i].place \in 0 .. Len(events)
      /\ \A i, j \in DOMAIN session : i < j /\ session[i].place # 0 /\ session[j].place # 0 =>
           session[i].place < session[j].place
      /\ q # 0
  BY IsSeqOfElements DEF IsHistory, IsSeq, Records, IsRecorded
<1>2. StartIdx' = IF q >= Len(events) THEN 0 ELSE q
  BY DEF StartIdx
<1>3. CASE q >= Len(events)
  <2>1. \A i \in DOMAIN session : session[i].place # 0 => i <= n
    BY <1>1, <1>3
  <2> QED
    BY <1>2, <1>3, <2>1 DEF CursorOK, Finished, IsRecorded
<1>4. CASE ~(q >= Len(events))
  <2>1. \A i \in DOMAIN session : session[i].place # 0 =>
          IF i <= n THEN session[i].place <= q ELSE session[i].place > q
    BY <1>1
  <2> QED
    BY <1>2, <1>4, <2>1 DEF CursorOK, Ahead, IsRecorded
<1> QED
  BY <1>3, <1>4

\* One that is not recorded is repeated.
LEMMA UnrecordedCursor ==
  ASSUME IsSeq(events), IsHistory(session, Len(events)), event_idx \in 0 .. Len(events), CursorOK,
         replayed \in 0 .. Len(session), NEW n \in DOMAIN session, ~IsRecorded(n),
         n = IF replayed = Len(session) THEN 1 ELSE replayed + 1,
         UNCHANGED <<events, session>>, replayed' = n, event_idx' = StartIdx
  PROVE  CursorOK'
<1> DEFINE N == Len(session)
<1>1. /\ N \in Nat /\ DOMAIN session = 1 .. N /\ replayed \in 0 .. N /\ n \in 1 .. N
      /\ n = IF replayed = N THEN 1 ELSE replayed + 1
      /\ session[n].place = 0
  BY IsSeqOfElements DEF IsHistory, IsSeq, IsRecorded
<1>2. StartIdx' = StartIdx /\ StartIdx \in Nat
  BY DEF StartIdx, IsSeq
<1> HIDE DEF N
<1>3. CASE replayed = N
  <2>1. \A i \in 1 .. N : i <= replayed /\ (session[i].place # 0 => i > n)
    BY <1>1, <1>3
  <2>2. \A i \in 1 .. N : session[i].place # 0 => StartIdx = 0 \/ session[i].place <= StartIdx
    BY <1>1, <2>1 DEF CursorOK, Ahead, Finished, Fresh, IsRecorded
  <2> QED
    BY <1>1, <1>2, <2>1, <2>2 DEF CursorOK, Fresh, IsRecorded
<1>4. CASE replayed # N
  <2>1. \A i \in 1 .. N : session[i].place # 0 => (i <= n <=> i <= replayed)
    BY <1>1, <1>4
  <2>2. \A i \in 1 .. N : session[i].place # 0 => (i > n <=> i > replayed)
    BY <1>1, <1>4
  <2>3. CASE Ahead
    BY <1>1, <1>2, <2>1, <2>3 DEF CursorOK, Ahead, IsRecorded
  <2>4. CASE Finished
    BY <1>1, <1>2, <2>1, <2>4 DEF CursorOK, Finished, IsRecorded
  <2>5. CASE Fresh
    BY <1>1, <1>2, <2>2, <2>5 DEF CursorOK, Fresh, IsRecorded
  <2> QED
    BY <2>3, <2>4, <2>5 DEF CursorOK
<1> QED
  BY <1>3, <1>4

LEMMA ReplayNextFaithful ==
  ASSUME DeviceInv, Records(events, session), Regular => CursorOK, ReplayNext
  PROVE  (Regular' => CursorOK') /\ EventsReplay'
<1> SUFFICES ASSUME Regular
             PROVE  CursorOK' /\ EventsReplay'
  <2>1. Regular' <=> Regular
    BY Zenon DEF ReplayNext, Regular
  <2> QED
    BY <2>1 DEF EventsReplay
<1> DEFINE n == IF replayed = Len(session) THEN 1 ELSE replayed + 1
           x == session[n]
           place == FindEvent(x.request)
<1>1. /\ event_idx' = IF place = 0 THEN StartIdx ELSE place
      /\ replayed' = n
      /\ reply' = [entry |-> n, answer |-> IF place = 0 THEN NoEvent(x.request)
                                           ELSE ReplayEvent(x.request, events[place])]
      /\ UNCHANGED <<events, session>>
  BY Zenon DEF ReplayNext
<1>2. /\ IsSeq(events) /\ IsHistory(session, Len(events)) /\ event_idx \in 0 .. Len(events)
      /\ replayed \in 0 .. Len(session) /\ StartIdx \in Nat
  BY FindEventInRange DEF DeviceInv, EventsOK, SessionOK
<1>3. n \in DOMAIN session
  <2>1. session # <<>> /\ IsSeq(session)
    BY <1>2 DEF ReplayNext, IsHistory
  <2> DEFINE N == Len(session)
  <2>2. N \in Nat /\ N # 0 /\ DOMAIN session = 1 .. N /\ replayed \in 0 .. N
    BY <1>2, <2>1, FrontOfSeq
  <2> HIDE DEF N
  <2>3. (IF replayed = N THEN 1 ELSE replayed + 1) \in 1 .. N
    BY <2>2
  <2> QED
    BY <2>2, <2>3 DEF N
<1>4. n = IF replayed = Len(session) THEN 1 ELSE replayed + 1
  OBVIOUS
<1> HIDE DEF n
<1>5. reply'.entry = n /\ session'[n] = x
      /\ reply'.answer = IF place = 0 THEN NoEvent(x.request) ELSE ReplayEvent(x.request, events[place])
  BY <1>1
<1>6. CASE IsRecorded(n)
  <2>1. place = x.place /\ x.place # 0
    BY <1>2, <1>3, <1>4, <1>6, NextFinds DEF IsRecorded
  <2>2. CursorOK'
    BY <1>1, <1>2, <1>3, <1>6, <2>1, RecordedCursor
  <2>3. Settled(x) => reply'.answer = x.answer
    BY <1>3, <1>5, <2>1 DEF Records
  <2>4. EventsReplay'
    BY <1>5, <2>1, <2>3 DEF EventsReplay, Settled, Error
  <2> QED
    BY <2>2, <2>4
<1>7. CASE ~IsRecorded(n)
  <2>1. place = 0 /\ x.place = 0
    BY <1>2, <1>3, <1>7, FindUnrecorded DEF IsRecorded
  <2>2. CursorOK'
    BY <1>1, <1>2, <1>3, <1>4, <1>7, <2>1, UnrecordedCursor
  <2>3. reply'.answer = x.answer \/ (Failed(reply'.answer) /\ Failed(x.answer))
    BY <1>3, <1>5, <2>1 DEF Records, Refused, NoEvent, Failed, Error
  <2>4. EventsReplay'
    BY <1>5, <2>1, <2>3 DEF EventsReplay, Failed
  <2> QED
    BY <2>2, <2>4
<1> QED
  BY <1>6, <1>7

-----------------------------------------------------------------------------
(* The invariant.                                                          *)

\* A transfer of the application has an entry of the history, which has its place,
\* until the events are replaced.
PointsTo(t, s) ==
  /\ t.query = 0 => t.request \in Requests /\ Kind[t.request] = "transfer"
  /\ t.entry # 0 => /\ t.query = 0 /\ t.entry \in DOMAIN s
                    /\ s[t.entry].place = t.place /\ t.place > 0
                    /\ s[t.entry].request = t.request
  /\ t.entry = 0 /\ t.query = 0 => ~(t.place > 0)

PointersOK == \A i \in DOMAIN inflight : PointsTo(inflight[i], session)

SavedRecords == file # Null => Records(LoadDevice(file, Null).events, saved)

\* Only an emulated device replays, and it has no transfer in flight.
PositionOK ==
  IF real THEN replayed = 0 /\ event_idx = 0
  ELSE inflight = <<>> /\ (Regular => CursorOK)

ReplayInv ==
  /\ Records(events, session) /\ PointersOK
  /\ SavedRecords /\ PositionOK /\ EventsReplay

LEMMA PositionKept ==
  ASSUME PositionOK, UNCHANGED real, real => UNCHANGED <<replayed, event_idx>>,
         ~real => UNCHANGED recording
  PROVE  PositionOK'
<1>1. CASE real
  BY <1>1 DEF PositionOK
<1>2. CASE ~real
  <2>1. UNCHANGED <<events, event_idx, inflight, session, replayed>>
    BY <1>2 DEF recording
  <2>2. Regular' = Regular
    BY <2>1 DEF Regular
  <2>3. CursorOK' = CursorOK
    BY <2>1 DEF CursorOK, Ahead, Finished, Fresh, IsRecorded, StartIdx
  <2> QED
    BY <1>2, <2>1, <2>2, <2>3 DEF PositionOK
<1> QED
  BY <1>1, <1>2

\* The events start over.
LEMMA PositionReset ==
  ASSUME IsSeq(events'), IsHistory(session', Len(events')), replayed' = 0, event_idx' = 0,
         real' \/ inflight' = <<>>
  PROVE  PositionOK'
<1> DEFINE s == session'
           N == Len(s)
<1>1. N \in Nat /\ DOMAIN s = 1 .. N
  BY IsSeqOfElements DEF IsHistory, IsSeq
<1>2. StartIdx' = 0
  BY DEF StartIdx
<1>3. \A i \in DOMAIN s : i > 0
  BY <1>1
<1>4. Fresh'
  BY <1>2, <1>3 DEF Fresh, IsRecorded
<1> QED
  BY <1>4 DEF PositionOK, CursorOK

LEMMA FaithfulKept ==
  ASSUME EventsReplay, reply' = Null \/ "entry" \notin DOMAIN reply' \/ UNCHANGED <<session, reply>>
  PROVE  EventsReplay'
<1>1. CASE reply' = Null \/ "entry" \notin DOMAIN reply'
  BY <1>1, Zenon DEF EventsReplay
<1>2. CASE UNCHANGED <<session, reply>>
  BY <1>2, Zenon DEF EventsReplay, Regular, Settled, Error, Failed
<1> QED
  BY <1>1, <1>2

LEMMA SavedRecordsKept ==
  ASSUME SavedRecords, UNCHANGED files
  PROVE  SavedRecords'
BY Zenon DEF SavedRecords, files

\* A request is added to the history.
LEMMA PointsOn ==
  ASSUME NEW s, IsSeq(s), NEW x, NEW t, PointsTo(t, s)
  PROVE  PointsTo(t, Append(s, x))
<1> DEFINE q == Append(s, x)
<1>1. /\ DOMAIN s = 1 .. Len(s) /\ Len(s) \in Nat /\ DOMAIN q = 1 .. Len(s) + 1
      /\ \A i \in 1 .. Len(s) : q[i] = s[i]
  BY AppendIsSeq, IsSeqOfElements DEF IsSeq
<1>2. \A i \in DOMAIN s : i \in DOMAIN q /\ q[i] = s[i]
  BY <1>1
<1> HIDE DEF q
<1>3. PointsTo(t, q)
  BY <1>2 DEF PointsTo
<1> QED
  BY <1>3 DEF q

\* A transfer is submitted.
LEMMA AddedPointer ==
  ASSUME EventsOK, NEW t, inflight' = Append(inflight, t), PointsTo(t, session'),
         \A i \in DOMAIN inflight : PointsTo(inflight[i], session')
  PROVE  PointersOK'
<1>1. IsSeq(inflight) /\ DOMAIN inflight = 1 .. Len(inflight) /\ Len(inflight) \in Nat
  BY IsSeqOfElements DEF EventsOK, IsSeq
<1>2. /\ IsSeq(inflight') /\ Len(inflight') = Len(inflight) + 1
      /\ inflight'[Len(inflight) + 1] = t
      /\ \A i \in 1 .. Len(inflight) : inflight'[i] = inflight[i]
  BY <1>1, AppendIsSeq
<1>3. DOMAIN inflight' = 1 .. Len(inflight) + 1
  BY <1>2, IsSeqOfElements
<1>4. ASSUME NEW i \in DOMAIN inflight'
      PROVE  inflight'[i] = t \/ (i \in DOMAIN inflight /\ inflight'[i] = inflight[i])
  BY <1>1, <1>2, <1>3
<1> QED
  BY <1>4, Zenon DEF PointersOK

-----------------------------------------------------------------------------
(* The requests.                                                           *)

LEMMA RefuseReplay ==
  ASSUME DeviceInv, ReplayInv, real, NEW r \in Requests, NEW answer, Refuse(r, answer),
         IF Kind[r] = "config" THEN answer = Ok(0) ELSE Failed(answer)
  PROVE  ReplayInv'
<1> DEFINE x == [request |-> r, answer |-> answer, place |-> 0]
<1>1. /\ session' = Append(session, x) /\ reply' = Null
      /\ UNCHANGED <<real, events, event_idx, inflight, replayed, files>>
  BY DEF Refuse, device
<1>2. x.request \in Requests /\ x.place = 0 /\ Refused(x)
  BY DEF Refused
<1>3. IsSeq(session)
  BY DEF DeviceInv, SessionOK, IsHistory
<1> HIDE DEF x
<1>4. Records(events', session')
  <2>1. Records(events, session')
    BY <1>1, <1>2, <1>3, RefusedRecords DEF ReplayInv
  <2> QED
    BY <1>1, <2>1
<1>5. PointersOK'
  <2>1. \A i \in DOMAIN inflight : PointsTo(inflight[i], Append(session, x))
    BY <1>3, PointsOn DEF ReplayInv, PointersOK
  <2> QED
    BY <1>1, <2>1, Zenon DEF PointersOK
<1>6. SavedRecords' /\ PositionOK' /\ EventsReplay'
  BY <1>1, SavedRecordsKept, PositionKept, FaithfulKept DEF ReplayInv
<1> QED
  BY <1>4, <1>5, <1>6 DEF ReplayInv

LEMMA RecordReplay ==
  ASSUME SaveEvents, DeviceInv, ReplayInv, real, NEW r \in Requests, NEW e, NEW answer,
         Record(r, e, answer), e.id = r,
         answer \notin {Null, Error("CANCELLED")} => ReplayEvent(r, e) = answer,
         \/ UNCHANGED inflight
         \/ Kind[r] = "transfer" /\ inflight' = Submitted(r, Len(session) + 1, 0, 0)
  PROVE  ReplayInv'
<1> DEFINE place == Len(events) + 1
           x == [request |-> r, answer |-> answer, place |-> place]
           t == [request |-> r, place |-> place, entry |-> Len(session) + 1, query |-> 0, size |-> 0]
<1>1. /\ session' = Append(session, x) /\ events' = Append(events, e) /\ reply' = Null
      /\ UNCHANGED <<real, event_idx, replayed, files>>
  BY DEF Record, Recorded, NextPlace, device
<1>2. /\ IsSeq(session) /\ IsHistory(session, Len(events)) /\ IsSeq(events) /\ IsSeq(inflight)
      /\ Len(events) \in Nat /\ Len(session) \in Nat
  BY DEF DeviceInv, SessionOK, EventsOK, IsHistory, IsSeq
<1>3. x.request = r /\ x.place = Len(events) + 1 /\ (Settled(x) => ReplayEvent(x.request, e) = x.answer)
  BY DEF Settled
<1>4. /\ t.query = 0 /\ t.entry = Len(session) + 1 /\ t.entry # 0 /\ t.request = r
      /\ t.place = place /\ place > 0 /\ x.place = place
  BY <1>2
<1> HIDE DEF x, place
<1>5. Records(events', session')
  BY <1>1, <1>2, <1>3, RecordedRecords DEF ReplayInv
<1>6. \A i \in DOMAIN inflight : PointsTo(inflight[i], session')
  BY <1>1, <1>2, PointsOn DEF ReplayInv, PointersOK
<1>7. CASE UNCHANGED inflight
  <2>1. PointersOK'
    BY <1>6, <1>7, Zenon DEF PointersOK
  <2>2. SavedRecords' /\ PositionOK' /\ EventsReplay'
    BY <1>1, SavedRecordsKept, PositionKept, FaithfulKept DEF ReplayInv
  <2> QED
    BY <1>5, <2>1, <2>2 DEF ReplayInv
<1>8. CASE Kind[r] = "transfer" /\ inflight' = Submitted(r, Len(session) + 1, 0, 0)
  <2>1. inflight' = Append(inflight, t)
    BY <1>8 DEF Submitted, NextPlace, place
  <2>2. PointsTo(t, session')
    <3>1. /\ Len(session) + 1 \in DOMAIN session' /\ session'[Len(session) + 1] = x
      BY <1>1, <1>2, AppendIsSeq, IsSeqOfElements
    <3> HIDE DEF t
    <3> QED
      BY <1>3, <1>4, <1>8, <3>1 DEF PointsTo
  <2> HIDE DEF t
  <2>3. PointersOK'
    BY <1>6, <2>1, <2>2, AddedPointer DEF DeviceInv
  <2>4. SavedRecords' /\ PositionOK' /\ EventsReplay'
    BY <1>1, SavedRecordsKept, PositionKept, FaithfulKept DEF ReplayInv
  <2> QED
    BY <1>5, <2>3, <2>4 DEF ReplayInv
<1> QED
  BY <1>7, <1>8

\* What a request makes of its event is what the replay makes of it.
LEMMA AskReplay ==
  ASSUME SaveEvents, NullIsNone, DeviceAssumption, HardwareAssumption, DeviceInv, ReplayInv,
         NEW r \in Requests, Ask(r)
  PROVE  ReplayInv'
<1>1. \A code : Failed(Error(code)) /\ Error(code) # Null
  BY DEF Failed, Error, NullIsNone
<1>2. NewEvent(r).id = r
  BY DEF NewEvent
<1>3. \A bytes, e : e = [NewEvent(r) EXCEPT !.bytes = bytes] =>
        e.id = r /\ e.rc = "SUCCESS" /\ e.bytes = bytes
  BY DEF NewEvent
<1>4. \A rc, e : e = [NewEvent(r) EXCEPT !.rc = rc] => e.id = r /\ e.rc = rc
  BY DEF NewEvent
<1>0. \A x, y : <<x>> # <<>> /\ <<x, y>> # <<>>
  OBVIOUS
<1>5. \A x, s : s = <<x>> => s # Null /\ s # <<>> /\ Len(s) = 1 /\ s[1] = x
  <2>1. \A x, s : s = <<x>> => s # Null /\ Len(s) = 1 /\ s[1] = x
    BY SingleIsSeq, SeqIsNotNull
  <2> QED
    BY <1>0, <2>1, Zenon
<1>6. \A x, y, s : s = <<x, y>> => s # Null /\ s # <<>> /\ s[1] = x
  <2>1. \A x, y, s : s = <<x, y>> => s # Null /\ s[1] = x
    BY PairIsSeq, SeqIsNotNull
  <2> QED
    BY <1>0, <2>1, Zenon
<1>7. CASE GetStringDescriptor(r)
  <2>1. real /\ Kind[r] = "string"
    BY <1>7 DEF GetStringDescriptor, MayAsk
  <2>2. CASE \E code : Refuse(r, Error(code))
    BY <1>1, <2>1, <2>2, RefuseReplay
  <2>3. CASE \E text, rest : RecordBytes(r, <<text, rest>>, Ok(text))
    <3>1. PICK text, rest : RecordBytes(r, <<text, rest>>, Ok(text))
      BY <2>3
    <3> DEFINE e == [NewEvent(r) EXCEPT !.bytes = <<text, rest>>]
    <3>2. e.id = r /\ e.rc = "SUCCESS" /\ e.bytes = <<text, rest>>
      BY <1>3
    <3>3. Record(r, e, Ok(text)) /\ UNCHANGED inflight
      BY <3>1 DEF RecordBytes
    <3> HIDE DEF e
    <3>4. e.bytes # Null /\ First(e.bytes) = text
      <4>1. e.bytes # Null /\ e.bytes # <<>> /\ e.bytes[1] = text
        BY <1>6, <3>2, Zenon
      <4> QED
        BY <4>1 DEF First
    <3>5. ReplayEvent(r, e) = Ok(text)
      BY <2>1, <3>2, <3>4 DEF ReplayEvent
    <3> QED
      BY <2>1, <3>2, <3>3, <3>5, RecordReplay
  <2> QED
    BY <1>7, <2>2, <2>3, Zenon DEF GetStringDescriptor
<1>8. CASE GetStringDescriptorBytes(r)
  <2>1. real /\ Kind[r] = "bytes"
    BY <1>8 DEF GetStringDescriptorBytes, MayAsk
  <2>2. CASE \E code : Refuse(r, Error(code))
    BY <1>1, <2>1, <2>2, RefuseReplay
  <2>3. CASE \E bytes \in Payloads : RecordBytes(r, bytes, Ok(bytes))
    <3>1. PICK bytes \in Payloads : RecordBytes(r, bytes, Ok(bytes))
      BY <2>3
    <3> DEFINE e == [NewEvent(r) EXCEPT !.bytes = bytes]
    <3>2. e.id = r /\ e.rc = "SUCCESS" /\ e.bytes = bytes /\ bytes # Null
      BY <1>3 DEF HardwareAssumption
    <3>3. Record(r, e, Ok(bytes)) /\ UNCHANGED inflight
      BY <3>1 DEF RecordBytes
    <3> HIDE DEF e
    <3>4. ReplayEvent(r, e) = Ok(bytes)
      BY <2>1, <3>2 DEF ReplayEvent
    <3> QED
      BY <2>1, <3>2, <3>3, <3>4, RecordReplay
  <2> QED
    BY <1>8, <2>2, <2>3, Zenon DEF GetStringDescriptorBytes
<1>9. CASE GetCustomIndex(r)
  <2>1. real /\ Kind[r] = "custom"
    BY <1>9 DEF GetCustomIndex, MayAsk
  <2>2. CASE \E code : Refuse(r, Error(code))
    BY <1>1, <2>1, <2>2, RefuseReplay
  <2>3. CASE \E n : RecordBytes(r, <<n>>, Ok(n))
    <3>1. PICK n : RecordBytes(r, <<n>>, Ok(n))
      BY <2>3
    <3> DEFINE e == [NewEvent(r) EXCEPT !.bytes = <<n>>]
    <3>2. e.id = r /\ e.rc = "SUCCESS" /\ e.bytes = <<n>>
      BY <1>3
    <3>3. Record(r, e, Ok(n)) /\ UNCHANGED inflight
      BY <3>1 DEF RecordBytes
    <3> HIDE DEF e
    <3>4. ReplayEvent(r, e) = Ok(n)
      BY <1>5, <2>1, <3>2 DEF ReplayEvent
    <3> QED
      BY <2>1, <3>2, <3>3, <3>4, RecordReplay
  <2> QED
    BY <1>9, <2>2, <2>3, Zenon DEF GetCustomIndex
<1>10. CASE GetConfigurationIndex(r)
  <2>1. real /\ Kind[r] = "config"
    BY <1>10 DEF GetConfigurationIndex, MayAsk
  <2>2. CASE Refuse(r, Ok(0))
    BY <2>1, <2>2, RefuseReplay
  <2>3. CASE \E n : RecordBytes(r, <<n>>, Ok(n))
    <3>1. PICK n : RecordBytes(r, <<n>>, Ok(n))
      BY <2>3
    <3> DEFINE e == [NewEvent(r) EXCEPT !.bytes = <<n>>]
    <3>2. e.id = r /\ e.rc = "SUCCESS" /\ e.bytes = <<n>>
      BY <1>3
    <3>3. Record(r, e, Ok(n)) /\ UNCHANGED inflight
      BY <3>1 DEF RecordBytes
    <3> HIDE DEF e
    <3>4. ReplayEvent(r, e) = Ok(n)
      BY <1>5, <2>1, <3>2 DEF ReplayEvent, First
    <3> QED
      BY <2>1, <3>2, <3>3, <3>4, RecordReplay
  <2> QED
    BY <1>10, <2>2, <2>3, Zenon DEF GetConfigurationIndex
<1>11. CASE Transfer(r)
  <2>1. real /\ Kind[r] = "transfer"
    BY <1>11 DEF Transfer, MayAsk
  <2> DEFINE e == NewEvent(r)
  <2>2. e.id = r
    BY <1>2
  <2> HIDE DEF e
  <2>3. CASE Refuse(r, Error("NOT_OPEN"))
    BY <1>1, <2>1, <2>3, RefuseReplay
  <2>4. CASE Record(r, e, Error("CANCELLED")) /\ UNCHANGED inflight
    BY <2>1, <2>2, <2>4, RecordReplay
  <2>5. CASE UNCHANGED inflight /\ \E rc \in Failures :
               Record(r, [NewEvent(r) EXCEPT !.rc = rc], Error(ErrorCode(rc)))
    <3>1. PICK rc \in Failures : Record(r, [NewEvent(r) EXCEPT !.rc = rc], Error(ErrorCode(rc)))
      BY <2>5
    <3> DEFINE f == [NewEvent(r) EXCEPT !.rc = rc]
    <3>2. f.id = r /\ f.rc = rc /\ rc # "SUCCESS"
      BY <1>4 DEF HardwareAssumption
    <3>3. Record(r, f, Error(ErrorCode(rc)))
      BY <3>1
    <3> HIDE DEF f
    <3>4. ReplayEvent(r, f) = Error(ErrorCode(rc))
      BY <2>1, <3>2, Zenon DEF ReplayEvent
    <3> QED
      BY <2>1, <2>5, <3>2, <3>3, <3>4, RecordReplay
  <2>6. CASE Record(r, e, Null) /\ inflight' = Submitted(r, Len(session) + 1, 0, 0)
    BY <2>1, <2>2, <2>6, RecordReplay
  <2> QED
    BY <1>11, <2>3, <2>4, <2>5, <2>6, Zenon DEF Transfer, e
<1> QED
  BY <1>7, <1>8, <1>9, <1>10, <1>11 DEF Ask

-----------------------------------------------------------------------------
(* The callbacks.                                                          *)

\* The answers of the history change, and a transfer is given up.
LEMMA RemovedPointer ==
  ASSUME PointersOK, EventsOK, NEW i \in DOMAIN inflight, inflight' = RemoveAt(inflight, i),
         DOMAIN session' = DOMAIN session,
         \A n \in DOMAIN session : session'[n].place = session[n].place
                                   /\ session'[n].request = session[n].request
  PROVE  PointersOK'
<1> DEFINE r == RemoveAt(inflight, i)
<1>1. IsSeq(inflight)
  BY DEF EventsOK
<1>2. LeftOf(inflight, i, r) /\ DOMAIN r = 1 .. Len(inflight) - 1
  BY <1>1, RemoveAtOfSeq
<1>3. PICK at \in [1 .. Len(inflight) - 1 -> DOMAIN inflight \ {i}] :
        \A j \in 1 .. Len(inflight) - 1 : r[j] = inflight[at[j]]
  BY <1>2 DEF LeftOf
<1>4. inflight' = r
  OBVIOUS
<1> HIDE DEF r
<1>5. ASSUME NEW j \in DOMAIN r
      PROVE  PointsTo(r[j], session')
  <2>1. at[j] \in DOMAIN inflight /\ r[j] = inflight[at[j]]
    BY <1>3, <1>2
  <2>2. PointsTo(r[j], session)
    BY <2>1 DEF PointersOK
  <2> QED
    BY <2>2 DEF PointsTo
<1> QED
  BY <1>4, <1>5, Zenon DEF PointersOK

\* The callback of a transfer whose request is entry n of the history.
LEMMA AnsweredRecords ==
  ASSUME DeviceInv, ~freed, ReplayInv, NEW i \in DOMAIN inflight,
         NEW t, t = inflight[i], PointsTo(t, session),
         NEW n, n = t.entry, n # 0, NEW p, p = t.place, NEW r, r = t.request, t.query = 0,
         NEW status, NEW bytes, NEW answer, NEW told, told \in {answer, Error("CANCELLED")},
         \/ bytes # Null /\ Len(bytes) <= Length /\ status = "COMPLETED" /\ answer = Ok(bytes)
         \/ bytes = Null /\ status # "COMPLETED" /\ answer = Error(StatusCode(status)),
         events' = Written(p, status, bytes), session' = [session EXCEPT ![n].answer = told]
  PROVE  /\ Records(events', session') /\ DOMAIN session' = DOMAIN session
         /\ \A k \in DOMAIN session : session'[k].place = session[k].place
                                      /\ session'[k].request = session[k].request
<1>1. /\ n \in DOMAIN session /\ session[n].place = p /\ p > 0 /\ session[n].request = r
      /\ Kind[r] = "transfer"
  BY DEF PointsTo
<1>2. p \in DOMAIN events /\ events[p] = NewEvent(r) /\ IsSeq(events)
  BY <1>1 DEF DeviceInv, EventsOK, AllOwned, Owned
<1>3. IsHistory(session, Len(events)) /\ Len(events) \in Nat
  BY <1>2 DEF DeviceInv, SessionOK, IsSeq
<1>5. /\ DOMAIN session' = DOMAIN session
      /\ \A k \in DOMAIN session : k # n => session'[k] = session[k]
      /\ session'[n].answer = told /\ session'[n].place = p /\ session'[n].request = r
  <2> DEFINE x == session[n]
             ss == session'
  <2>1. x = [request |-> x.request, answer |-> x.answer, place |-> x.place]
    BY <1>1, <1>3 DEF IsHistory
  <2>2. ss = [session EXCEPT ![n] = [x EXCEPT !.answer = told]]
    OBVIOUS
  <2> HIDE DEF x, ss
  <2>3. /\ DOMAIN ss = DOMAIN session /\ \A k \in DOMAIN session : k # n => ss[k] = session[k]
        /\ ss[n] = [x EXCEPT !.answer = told]
    BY <1>1, <2>2
  <2>4. ss[n] = [request |-> x.request, answer |-> told, place |-> x.place]
    BY <2>1, <2>3
  <2> QED
    BY <1>1, <2>3, <2>4 DEF x, ss
<1>6. NewEvent(r) = [id |-> r, status |-> "COMPLETED", rc |-> "SUCCESS", bytes |-> Null]
  BY DEF NewEvent
<1>7. /\ HasEventFields(events[p]) /\ events[p].id = r /\ events[p].rc = "SUCCESS"
      /\ events[p].status = "COMPLETED" /\ events[p].bytes = Null
  BY <1>2, <1>6 DEF HasEventFields
<1> DEFINE e == events'[p]
<1>8. /\ DOMAIN events' = DOMAIN events /\ \A k \in DOMAIN events : k # p => events'[k] = events[k]
      /\ e = [id |-> r, status |-> status, rc |-> "SUCCESS", bytes |-> bytes]
  <2> DEFINE es == Written(p, status, bytes)
  <2>1. events' = es
    OBVIOUS
  <2>2. /\ DOMAIN es = DOMAIN events /\ \A k \in DOMAIN events : k # p => es[k] = events[k]
        /\ bytes = Null => es[p] = [id |-> events[p].id, status |-> status,
                                    rc |-> events[p].rc, bytes |-> events[p].bytes]
        /\ bytes # Null => es[p] = [id |-> events[p].id, status |-> events[p].status,
                                    rc |-> events[p].rc, bytes |-> bytes]
    BY <1>2, <1>7, WrittenEvent
  <2> HIDE DEF es
  <2> QED
    BY <1>7, <2>1, <2>2
<1> HIDE DEF e
<1>9. e.id = r /\ e.status = status /\ e.rc = "SUCCESS" /\ e.bytes = bytes
  BY <1>8
<1>11. ReplayEvent(r, e) = answer
  <2>1. CASE bytes # Null /\ Len(bytes) <= Length /\ status = "COMPLETED" /\ answer = Ok(bytes)
    BY <1>1, <1>9, <2>1 DEF ReplayEvent
  <2>2. CASE bytes = Null /\ status # "COMPLETED" /\ answer = Error(StatusCode(status))
    BY <1>1, <1>9, <2>2, Zenon DEF ReplayEvent
  <2> QED
    BY <2>1, <2>2
<1>12. Settled(session'[n]) => ReplayEvent(r, e) = session'[n].answer
  BY <1>5, <1>11 DEF Settled
<1>13. \A k \in DOMAIN session : session[k].place = p => k = n
  <2>1. DOMAIN session \subseteq Nat
    BY <1>3, IsSeqOfElements DEF IsHistory, IsSeq
  <2>2. p \in Nat
    BY <1>1, <1>3 DEF IsHistory
  <2>3. \A j, k \in DOMAIN session : j < k /\ session[j].place # 0 /\ session[k].place # 0 =>
          session[j].place < session[k].place
    BY DEF ReplayInv, Records
  <2>4. ASSUME NEW k \in DOMAIN session, session[k].place = p, k # n
        PROVE  FALSE
    <3>1. k < n \/ n < k
      BY <1>1, <2>1, <2>4
    <3>2. p < p
      BY <1>1, <2>2, <2>3, <2>4, <3>1
    <3> QED
      BY <2>2, <3>2
  <2> QED
    BY <2>4
<1>14. Records(events', session')
  <2>1. \A k \in DOMAIN session :
          /\ session'[k].request = session[k].request /\ session'[k].place = session[k].place
          /\ session[k].place # p => session'[k] = session[k]
          /\ session[k].place = p /\ Settled(session'[k]) =>
               ReplayEvent(session'[k].request, events'[p]) = session'[k].answer
    BY <1>1, <1>5, <1>12, <1>13 DEF e
  <2>2. p # 0 /\ events'[p].id = events[p].id
    BY <1>1, <1>7, <1>8 DEF e
  <2>3. Records(events, session)
    BY DEF ReplayInv
  <2>4. DOMAIN events' = DOMAIN events /\ \A k \in DOMAIN events : k # p => events'[k] = events[k]
    BY <1>8
  <2> DEFINE fs == events'
             ss == session'
  <2>5. /\ DOMAIN fs = DOMAIN events /\ fs[p].id = events[p].id /\ DOMAIN ss = DOMAIN session
        /\ \A k \in DOMAIN events : k # p => fs[k] = events[k]
    BY <1>5, <2>2, <2>4
  <2>6. \A k \in DOMAIN session :
          /\ ss[k].request = session[k].request /\ ss[k].place = session[k].place
          /\ session[k].place # p => ss[k] = session[k]
          /\ session[k].place = p /\ Settled(ss[k]) =>
               ReplayEvent(ss[k].request, fs[p]) = ss[k].answer
    BY <2>1, Zenon
  <2> HIDE DEF fs, ss
  <2>7. SettledAt(p, events, session, fs, ss)
    BY <2>2, <2>5, <2>6, Zenon DEF SettledAt
  <2>8. Records(fs, ss)
    BY <1>2, <1>3, <2>3, <2>7, SettledRecords
  <2> QED
    BY <2>8 DEF fs, ss
<1> QED
  BY <1>1, <1>5, <1>14

\* While no event was freed under a transfer, a callback writes the event of its
\* request or none.
LEMMA SettledUnlessFreed ==
  ASSUME EventsOK, ~freed, NEW i \in DOMAIN inflight, NEW status, NEW bytes,
         events' \in Settle(inflight[i], status, bytes)
  PROVE  IF inflight[i].place > 0 THEN events' = Written(inflight[i].place, status, bytes)
         ELSE UNCHANGED events
<1>1. inflight[i].place # Gone
  BY DEF EventsOK
<1> QED
  BY <1>1, SettledIsWritten

LEMMA TransferCbReplay ==
  ASSUME HardwareAssumption, NullIsNone, DeviceInv, ~freed, ReplayInv,
         NEW i \in DOMAIN inflight, NEW cancelled \in BOOLEAN, TransferCb(i, cancelled)
  PROVE  ReplayInv'
<1> DEFINE t == inflight[i]
           n == t.entry
           p == t.place
           r == t.request
<1>0. Null \notin Payloads /\ "COMPLETED" \notin Statuses
  BY DEF HardwareAssumption
<1>1. PICK status, bytes, answer :
        /\ events' \in Settle(t, status, bytes)
        /\ session' = IF n = 0 THEN session
                      ELSE [session EXCEPT ![n].answer = IF cancelled THEN Error("CANCELLED") ELSE answer]
        /\ inflight' = RemoveAt(inflight, i)
        /\ \/ bytes # Null /\ Len(bytes) <= Length /\ status = "COMPLETED" /\ answer = Ok(bytes)
           \/ bytes = Null /\ status # "COMPLETED" /\ answer = Error(StatusCode(status))
  <2>1. CASE \E bytes \in Payloads :
               /\ Len(bytes) <= Length /\ events' \in Settle(t, "COMPLETED", bytes)
               /\ session' = IF n = 0 THEN session
                             ELSE [session EXCEPT ![n].answer = IF cancelled THEN Error("CANCELLED")
                                                                ELSE Ok(bytes)]
               /\ inflight' = RemoveAt(inflight, i)
    <3>1. PICK bytes \in Payloads :
               /\ Len(bytes) <= Length /\ events' \in Settle(t, "COMPLETED", bytes)
               /\ session' = IF n = 0 THEN session
                             ELSE [session EXCEPT ![n].answer = IF cancelled THEN Error("CANCELLED")
                                                                ELSE Ok(bytes)]
               /\ inflight' = RemoveAt(inflight, i)
      BY <2>1
    <3>2. bytes # Null
      BY <1>0
    <3> QED
      BY <3>1, <3>2, Zenon
  <2>2. CASE \E status \in Statuses :
               /\ events' \in Settle(t, status, Null)
               /\ session' = IF n = 0 THEN session
                             ELSE [session EXCEPT ![n].answer = IF cancelled THEN Error("CANCELLED")
                                                                ELSE Error(StatusCode(status))]
               /\ inflight' = RemoveAt(inflight, i)
    BY <1>0, <2>2, Zenon
  <2> QED
    BY <2>1, <2>2, Zenon DEF TransferCb
<1>2. t.query = 0 /\ reply' = Null /\ UNCHANGED <<real, event_idx, replayed, files>>
  BY DEF TransferCb, device
<1>3. PointsTo(t, session)
  BY DEF ReplayInv, PointersOK
<1>4. real
  <2>1. DOMAIN <<>> = {}
    BY EmptyList
  <2> QED
    BY <2>1 DEF ReplayInv, PositionOK
<1>5. SavedRecords' /\ PositionOK' /\ EventsReplay'
  BY <1>2, <1>4, SavedRecordsKept, PositionKept, FaithfulKept DEF ReplayInv
<1>6. CASE n = 0
  <2>1. UNCHANGED <<events, session>>
    BY <1>1, <1>2, <1>3, <1>6, SettledUnlessFreed DEF DeviceInv, PointsTo
  <2>2. PointersOK'
    BY <1>1, <2>1, RemovedPointer DEF DeviceInv, ReplayInv
  <2> QED
    BY <1>5, <2>1, <2>2 DEF ReplayInv
<1>7. CASE n # 0
  <2>1. PICK told \in {answer, Error("CANCELLED")} : session' = [session EXCEPT ![n].answer = told]
    BY <1>1, <1>7, Zenon
  <2>4. events' = Written(p, status, bytes)
    BY <1>1, <1>3, <1>7, SettledUnlessFreed DEF DeviceInv, PointsTo
  <2>2. /\ Records(events', session') /\ DOMAIN session' = DOMAIN session
        /\ \A k \in DOMAIN session : session'[k].place = session[k].place
                                     /\ session'[k].request = session[k].request
    <3> HIDE DEF n, p, t, r
    <3>1. /\ t = inflight[i] /\ n = t.entry /\ p = t.place /\ r = t.request /\ t.query = 0
          /\ PointsTo(t, session)
      BY <1>2, <1>3 DEF n, p, t, r
    <3>2. \/ bytes # Null /\ Len(bytes) <= Length /\ status = "COMPLETED" /\ answer = Ok(bytes)
          \/ bytes = Null /\ status # "COMPLETED" /\ answer = Error(StatusCode(status))
      BY <1>1
    <3> QED
      BY <1>7, <2>1, <2>4, <3>1, <3>2, AnsweredRecords
  <2>3. PointersOK'
    BY <1>1, <2>2, RemovedPointer DEF DeviceInv, ReplayInv
  <2> QED
    BY <1>5, <2>2, <2>3 DEF ReplayInv
<1> QED
  BY <1>6, <1>7

-----------------------------------------------------------------------------
(* The queries for HID descriptors, whose events have keys of their own.    *)

\* The history is what it was, for a device that is still real.
LEMMA SameHistory ==
  ASSUME ReplayInv, Records(events', session), PointersOK',
         UNCHANGED <<real, session, replayed, event_idx, files>>, real,
         reply' = Null \/ UNCHANGED reply
  PROVE  ReplayInv'
<1>1. Records(events', session')
  BY Zenon
<1>2. SavedRecords' /\ PositionOK' /\ EventsReplay'
  BY SavedRecordsKept, PositionKept, FaithfulKept DEF ReplayInv
<1> QED
  BY <1>1, <1>2 DEF ReplayInv

LEMMA HidSettled ==
  ASSUME DeviceInv, ~freed, ReplayInv, NEW i \in DOMAIN inflight, inflight[i].query # 0,
         inflight[i].request \notin Requests, NEW status, NEW bytes,
         events' \in Settle(inflight[i], status, bytes), inflight' = RemoveAt(inflight, i),
         reply' = Null, UNCHANGED <<real, session, replayed, event_idx, files>>
  PROVE  ReplayInv'
<1> DEFINE t == inflight[i]
           p == t.place
           es == Written(p, status, bytes)
<1>1. /\ IsSeq(events) /\ IsHistory(session, Len(events)) /\ Records(events, session)
      /\ EventsOK
  BY DEF DeviceInv, EventsOK, SessionOK, ReplayInv
<1>2. real
  <2>1. DOMAIN <<>> = {}
    BY EmptyList
  <2> QED
    BY <2>1 DEF ReplayInv, PositionOK
<1>3. IF p > 0 THEN events' = es ELSE events' = events
  BY <1>1, SettledUnlessFreed
<1>4. ASSUME p > 0
      PROVE  Records(es, session)
  <2> DEFINE x == t.request
  <2>1. p \in DOMAIN events /\ HasEventFields(events[p]) /\ events[p].id = x
    BY <1>1, <1>4 DEF EventsOK, AllOwned, Owned
  <2> HIDE DEF p, x
  <2>2. /\ DOMAIN es = DOMAIN events /\ \A k \in DOMAIN events : k # p => es[k] = events[k]
        /\ \/ es[p] = [id |-> events[p].id, status |-> status,
                       rc |-> events[p].rc, bytes |-> events[p].bytes]
           \/ es[p] = [id |-> events[p].id, status |-> events[p].status,
                       rc |-> events[p].rc, bytes |-> bytes]
    BY <1>1, <2>1, WrittenEvent
  <2> HIDE DEF es
  <2>3. es[p].id = events[p].id /\ p # 0
    BY <1>4, <2>2
  <2>4. \A k \in DOMAIN session : session[k].place # p
    BY <1>1, <2>1, <2>3 DEF Records, x
  <2>5. SettledAt(p, events, session, es, session)
    BY <2>2, <2>3, <2>4 DEF SettledAt
  <2> QED
    BY <1>1, <2>5, SettledRecords
<1> HIDE DEF es, p
<1>5. Records(events', session)
  <2>1. CASE p > 0
    BY <1>3, <1>4, <2>1, Zenon
  <2>2. CASE ~(p > 0)
    BY <1>1, <1>3, <2>2, Zenon
  <2> QED
    BY <2>1, <2>2
<1>6. PointersOK'
  BY RemovedPointer DEF DeviceInv, ReplayInv
<1> QED
  BY <1>2, <1>5, <1>6, SameHistory

LEMMA HidTransferCbReplay ==
  ASSUME HardwareAssumption, DeviceInv, ~freed, CacheInv, ReplayInv, NEW i \in DOMAIN inflight,
         HidTransferCb(i)
  PROVE  ReplayInv'
<1>1. PICK status, bytes :
        events' \in Settle(inflight[i], status, bytes) /\ inflight' = RemoveAt(inflight, i)
  BY Zenon DEF HidTransferCb
<1>2. /\ inflight[i].query # 0 /\ reply' = Null
      /\ UNCHANGED <<real, session, replayed, event_idx, files>>
  BY Zenon DEF HidTransferCb, device
<1>3. PICK n \in DOMAIN Report : inflight[i].request = HidRequest(n)
  BY <1>2 DEF CacheInv, QueriesOK, WaitersOK
<1>4. inflight[i].request \notin Requests
  BY <1>3 DEF HardwareAssumption
<1> QED
  BY <1>1, <1>2, <1>4, HidSettled

\* A transfer for a HID descriptor is submitted, or fails.
LEMMA HidScanned ==
  ASSUME SaveEvents, DeviceInv, ReplayInv, real, NEW id, id \notin Requests,
         NEW e, e.id = id, events' = Recorded(e),
         \/ UNCHANGED inflight
         \/ Len(queries) # 0 /\ \E size : inflight' = Submitted(id, 0, Len(queries), size),
         UNCHANGED <<real, session, replayed, event_idx, files, reply>>
  PROVE  ReplayInv'
<1>1. /\ events' = Append(events, e) /\ IsSeq(events) /\ IsHistory(session, Len(events))
      /\ Records(events, session)
  BY DEF Recorded, DeviceInv, EventsOK, SessionOK, ReplayInv
<1>2. Records(events', session)
  BY <1>1, OtherRecords
<1>3. \A i \in DOMAIN inflight : PointsTo(inflight[i], session')
  BY DEF ReplayInv, PointersOK
<1>4. PointersOK'
  <2>1. CASE UNCHANGED inflight
    BY <1>3, <2>1, Zenon DEF PointersOK
  <2>2. CASE Len(queries) # 0 /\ \E size : inflight' = Submitted(id, 0, Len(queries), size)
    <3>1. PICK size : inflight' = Submitted(id, 0, Len(queries), size)
      BY <2>2
    <3> DEFINE t == [request |-> id, place |-> NextPlace, entry |-> 0, query |-> Len(queries),
                     size |-> size]
    <3>2. inflight' = Append(inflight, t) /\ t.query # 0 /\ t.entry = 0
      BY <2>2, <3>1 DEF Submitted
    <3> HIDE DEF t
    <3>3. PointsTo(t, session')
      BY <3>2 DEF PointsTo
    <3> QED
      BY <1>3, <3>2, <3>3, AddedPointer DEF DeviceInv
  <2> QED
    BY <2>1, <2>2
<1> QED
  BY <1>2, <1>4, SameHistory

LEMMA HidScanReplay ==
  ASSUME SaveEvents, HardwareAssumption, DeviceInv, CacheInv, ReplayInv, HidScan
  PROVE  ReplayInv'
<1>1. /\ real /\ InterfacesOK /\ queries # <<>> /\ FramesOK
      /\ UNCHANGED <<real, session, replayed, event_idx, files, reply>>
  BY ScanIsReal DEF HidScan, device, CacheInv, QueriesOK
<1>2. Len(queries) # 0
  BY <1>1, FrontOfSeq DEF FramesOK
<1> DEFINE next == {i \in DOMAIN interfaces.list :
                     i > Last(queries).at /\ IsHid(interfaces.list[i])}
           f == interfaces.list[Min(next)]
           id == HidRequest(f.desc.InterfaceNumber)
<1>3. \/ UNCHANGED <<events, inflight>>
      \/ /\ next # {} /\ UNCHANGED inflight
         /\ \E rc \in Failures : events' = Recorded([NewEvent(id) EXCEPT !.rc = rc])
      \/ /\ next # {} /\ events' = Recorded(NewEvent(id))
         /\ inflight' = Submitted(id, 0, Len(queries), ReportSize(f))
  BY Zenon DEF HidScan
<1>4. CASE UNCHANGED <<events, inflight>>
  <2>1. Records(events', session) /\ PointersOK'
    BY <1>1, <1>4, Zenon DEF ReplayInv, PointersOK
  <2> QED
    BY <1>1, <2>1, SameHistory
<1>5. ASSUME next # {}
      PROVE  id \notin Requests
  <2>1. next \subseteq Nat
    BY <1>1, ListOfInterfaces
  <2>2. Min(next) \in next
    BY <1>5, <2>1, MinIsLeast
  <2>3. f.desc.InterfaceNumber \in DOMAIN Report
    BY <1>1, <2>2, HidInterface
  <2> QED
    BY <2>3 DEF HardwareAssumption
<1> HIDE DEF next, f, id
<1>6. NewEvent(id).id = id /\ \A rc : [NewEvent(id) EXCEPT !.rc = rc].id = id
  BY DEF NewEvent
<1>7. CASE /\ next # {} /\ UNCHANGED inflight
           /\ \E rc \in Failures : events' = Recorded([NewEvent(id) EXCEPT !.rc = rc])
  <2>1. PICK rc \in Failures : events' = Recorded([NewEvent(id) EXCEPT !.rc = rc])
    BY <1>7
  <2> DEFINE e == [NewEvent(id) EXCEPT !.rc = rc]
  <2>2. e.id = id /\ events' = Recorded(e)
    BY <1>6, <2>1
  <2> HIDE DEF e
  <2> QED
    BY <1>1, <1>5, <1>7, <2>2, HidScanned
<1>8. CASE /\ next # {} /\ events' = Recorded(NewEvent(id))
           /\ inflight' = Submitted(id, 0, Len(queries), ReportSize(f))
  BY <1>1, <1>2, <1>5, <1>6, <1>8, HidScanned
<1> QED
  BY <1>3, <1>4, <1>7, <1>8

-----------------------------------------------------------------------------
(* The events are replaced.                                                *)

LEMMA ForgottenPointers ==
  ASSUME DeviceInv, PointersOK, inflight' = Forget
  PROVE  PointersOK' /\ DOMAIN inflight' = DOMAIN inflight
<1>1. DOMAIN inflight' = DOMAIN inflight
  BY DEF Forget
<1>2. ASSUME NEW i \in DOMAIN inflight
      PROVE  PointsTo(inflight'[i], session')
  <2> DEFINE t == inflight[i]
             place == IF t.place = 0 THEN 0 ELSE Gone
             x == inflight'[i]
  <2>1. t = [request |-> t.request, place |-> t.place, entry |-> t.entry, query |-> t.query,
             size |-> t.size]
    BY DEF DeviceInv, EventsOK, IsTransfer
  <2>2. x = [t EXCEPT !.place = place, !.entry = 0]
    BY DEF Forget
  <2>3. PointsTo(t, session) /\ ~(place > 0)
    BY DEF PointersOK, Gone
  <2> HIDE DEF t, place, x
  <2>4. x = [request |-> t.request, place |-> place, entry |-> 0, query |-> t.query,
             size |-> t.size]
    BY <2>1, <2>2
  <2>5. x.request = t.request /\ x.place = place /\ x.entry = 0 /\ x.query = t.query
    BY <2>4
  <2>6. PointsTo(x, session')
    BY <2>3, <2>5 DEF PointsTo
  <2> QED
    BY <2>6 DEF x
<1> QED
  BY <1>1, <1>2, Zenon DEF PointersOK

LEMMA ReplaceReplay ==
  ASSUME DeviceInv, DeviceInv', ReplayInv, ~freed', NEW es, NEW entries, Records(es, entries),
         ReplaceEvents(es, entries)
  PROVE  ReplayInv'
<1>1. /\ events' = es /\ session' = entries /\ replayed' = 0 /\ event_idx' = 0
      /\ reply' = Null /\ inflight' = Forget /\ UNCHANGED <<real, files>>
  BY DEF ReplaceEvents, device
<1>2. Records(events', session')
  BY <1>1, Zenon
<1>3. PointersOK' /\ DOMAIN inflight' = DOMAIN inflight
  BY <1>1, ForgottenPointers DEF ReplayInv
<1>4. /\ IsSeq(events') /\ IsHistory(session', Len(events')) /\ IsSeq(inflight')
  BY Zenon DEF DeviceInv, EventsOK, SessionOK, IsHistory, IsSeq
<1>5. real' \/ inflight' = <<>>
  <2>1. CASE ~real
    <3>1. inflight = <<>>
      BY <2>1 DEF ReplayInv, PositionOK
    <3> DEFINE s == inflight'
    <3>2. DOMAIN s = {} /\ IsSeq(s)
      BY <1>3, <1>4, <3>1, EmptyList
    <3> HIDE DEF s
    <3>3. s = <<>>
      BY <3>2, FrontOfSeq, IsSeqOfElements
    <3> QED
      BY <3>3 DEF s
  <2> QED
    BY <1>1, <2>1
<1>6. PositionOK'
  BY <1>1, <1>4, <1>5, PositionReset
<1>7. SavedRecords' /\ EventsReplay'
  BY <1>1, SavedRecordsKept, FaithfulKept DEF ReplayInv
<1> QED
  BY <1>2, <1>3, <1>6, <1>7 DEF ReplayInv

LEMMA ReplacementsReplay ==
  ASSUME DeviceInv, DeviceInv', ReplayInv, ~freed', ClearEvents \/ LoadEvents
  PROVE  ReplayInv'
<1>1. CASE ClearEvents
  <2>1. Records(<<>>, <<>>)
    BY EmptyList DEF Records
  <2> QED
    BY <1>1, <2>1, ReplaceReplay DEF ClearEvents
<1>2. CASE LoadEvents
  <2> DEFINE es == LoadDevice(file, Null).events
  <2>1. Records(es, saved) /\ ReplaceEvents(es, saved)
    BY <1>2 DEF LoadEvents, ReplayInv, SavedRecords
  <2> HIDE DEF es
  <2> QED
    BY <2>1, ReplaceReplay
<1> QED
  BY <1>1, <1>2

-----------------------------------------------------------------------------
(* The file.                                                               *)

LEMMA SaveReturnReplay ==
  ASSUME NullIsNone, DeviceInv, CacheInv, FileInv, ReplayInv, SaveReturn
  PROVE  ReplayInv'
<1>1. UNCHANGED <<real, recording, reply>> /\ saved' = session
  BY DEF SaveReturn, device
<1>2. UNCHANGED <<events, session, inflight, replayed, event_idx>>
  BY <1>1 DEF recording
<1>3. LoadDevice(file', Null).events = events
  <2>1. PICK d, b, h, l : /\ IsDevice(d) /\ IsBosList(b) /\ IsReportList(h) /\ IsInterfaceList(l)
                          /\ file' = SaveDevice(d, b, h, l) /\ d.events = events
    BY ReturnedFile, HardwareAssumption, DeviceAssumption
  <2> DEFINE json == SaveDevice(d, b, h, l)
             e == LoadDevice(json, Null)
  <2>2. e.events = d.events
    BY <2>1, LoadSavedDevice
  <2> QED
    BY <2>1, <2>2
<1>4. Records(events', session') /\ PointersOK'
  BY <1>2, Zenon DEF ReplayInv, PointersOK
<1>5. SavedRecords'
  BY <1>1, <1>3, Zenon DEF ReplayInv, SavedRecords
<1>6. PositionOK' /\ EventsReplay'
  BY <1>1, <1>2, PositionKept, FaithfulKept DEF ReplayInv
<1> QED
  BY <1>4, <1>5, <1>6 DEF ReplayInv

LEMMA LoadReplay ==
  ASSUME DeviceInv', ReplayInv, Load
  PROVE  ReplayInv'
<1>1. /\ events' = LoadDevice(file, Null).events /\ session' = saved /\ file # Null
      /\ replayed' = 0 /\ event_idx' = 0 /\ inflight' = <<>> /\ reply' = Null /\ UNCHANGED files
  BY Zenon DEF Load
<1>2. Records(events', session')
  BY <1>1, Zenon DEF ReplayInv, SavedRecords
<1>3. DOMAIN inflight' = {}
  BY <1>1, EmptyList
<1>4. PointersOK'
  BY <1>3, Zenon DEF PointersOK
<1>5. IsSeq(events') /\ IsHistory(session', Len(events'))
  BY Zenon DEF DeviceInv, EventsOK, SessionOK, IsHistory, IsSeq
<1>6. PositionOK'
  BY <1>1, <1>5, PositionReset
<1>7. SavedRecords' /\ EventsReplay'
  BY <1>1, SavedRecordsKept, FaithfulKept DEF ReplayInv
<1> QED
  BY <1>2, <1>4, <1>6, <1>7 DEF ReplayInv

LEMMA CloseReplay ==
  ASSUME ReplayInv, Close
  PROVE  ReplayInv'
<1>1. /\ inflight' = <<>> /\ reply' = Null /\ real
      /\ UNCHANGED <<real, events, event_idx, session, replayed, files>>
  BY Zenon DEF Close
<1>2. DOMAIN inflight' = {}
  BY <1>1, EmptyList
<1>3. PointersOK'
  BY <1>2, Zenon DEF PointersOK
<1>4. Records(events', session)
  BY <1>1, Zenon DEF ReplayInv
<1> QED
  BY <1>1, <1>3, <1>4, SameHistory

-----------------------------------------------------------------------------
(* The rest.                                                               *)

LEMMA OthersReplay ==
  ASSUME NullIsNone, ReplayInv,
         \/ GetInterface \/ GetBosDescriptors \/ Invalidate
         \/ GetHidDescriptors \/ HidStart \/ HidAnswer \/ HidReturn \/ Save
         \/ Open \/ (\E c \in DOMAIN Hardware : SetConfiguration(c)) \/ UNCHANGED vars
  PROVE  ReplayInv'
<1>1. UNCHANGED <<real, recording, files>>
  BY Zenon DEF GetInterface, GetBosDescriptors, Invalidate, GetHidDescriptors, HidStart,
     HidAnswer, HidReturn, Save, Open, SetConfiguration, device, vars
<1>2. \/ reply' = Null \/ UNCHANGED reply
      \/ \E x : reply' = [interface |-> x] \/ reply' = [hid |-> x]
  BY Zenon DEF GetInterface, GetBosDescriptors, Invalidate, GetHidDescriptors, HidStart,
     HidAnswer, HidReturn, Save, Open, SetConfiguration, vars
<1>3. UNCHANGED <<events, session, inflight, replayed, event_idx>>
  BY <1>1 DEF recording
<1>4. reply' = Null \/ UNCHANGED reply \/ "entry" \notin DOMAIN reply'
  BY <1>2
<1>5. Records(events', session') /\ PointersOK'
  BY <1>3, Zenon DEF ReplayInv, PointersOK
<1>6. SavedRecords' /\ PositionOK' /\ EventsReplay'
  BY <1>1, <1>3, <1>4, SavedRecordsKept, PositionKept, FaithfulKept DEF ReplayInv
<1> QED
  BY <1>5, <1>6 DEF ReplayInv

LEMMA ReplayNextReplay ==
  ASSUME DeviceInv, ReplayInv, ReplayNext
  PROVE  ReplayInv'
<1>1. ~real /\ UNCHANGED <<real, files, inflight, events, session>>
  BY Zenon DEF ReplayNext, device
<1>2. inflight = <<>> /\ (Regular => CursorOK)
  BY <1>1 DEF ReplayInv, PositionOK
<1>3. (Regular' => CursorOK') /\ EventsReplay'
  BY <1>2, ReplayNextFaithful DEF ReplayInv
<1>4. PositionOK'
  BY <1>1, <1>2, <1>3, Zenon DEF PositionOK
<1>5. Records(events', session') /\ PointersOK'
  BY <1>1, Zenon DEF ReplayInv, PointersOK
<1> QED
  BY <1>1, <1>3, <1>4, <1>5, SavedRecordsKept DEF ReplayInv

LEMMA InitReplay ==
  ASSUME Init
  PROVE  ReplayInv
<1>1. DOMAIN <<>> = {}
  BY EmptyList
<1> QED
  BY <1>1 DEF Init, ReplayInv, Records, PointersOK, SavedRecords, PositionOK, EventsReplay

\* Once events were freed under a transfer nothing is said of the replay any more.
LEMMA FreedForever ==
  ASSUME [Next]_vars, freed
  PROVE  freed'
<1>1. CASE \E r \in Requests : Ask(r)
  BY <1>1, Zenon DEF Ask, GetStringDescriptor, GetStringDescriptorBytes, GetCustomIndex,
     GetConfigurationIndex, Transfer, Refuse, Record, RecordBytes
<1>2. CASE \E i \in DOMAIN inflight : HidTransferCb(i) \/ \E cancelled \in BOOLEAN : TransferCb(i, cancelled)
  BY <1>2, Zenon DEF HidTransferCb, TransferCb
<1>3. CASE ClearEvents \/ LoadEvents
  BY <1>3, Zenon DEF ClearEvents, LoadEvents, ReplaceEvents
<1>4. CASE \/ ReplayNext \/ GetInterface \/ GetBosDescriptors \/ Invalidate \/ GetHidDescriptors
           \/ HidStart \/ HidAnswer \/ HidReturn \/ Save \/ SaveReturn
  BY <1>4, Zenon DEF ReplayNext, GetInterface, GetBosDescriptors, Invalidate, GetHidDescriptors,
     HidStart, HidAnswer, HidReturn, Save, SaveReturn, recording
<1>5. CASE \/ HidScan \/ Load \/ Open \/ Close \/ (\E c \in DOMAIN Hardware : SetConfiguration(c))
           \/ UNCHANGED vars
  BY <1>5, Zenon DEF HidScan, Load, Open, Close, SetConfiguration, recording, vars
<1> QED
  BY <1>1, <1>2, <1>3, <1>4, <1>5 DEF Next

LEMMA NextReplay ==
  ASSUME SaveEvents, NullIsNone, DeviceInv, DeviceInv', CacheInv, FileInv, ~freed => ReplayInv,
         [Next]_vars, ~freed'
  PROVE  ReplayInv'
<1>0. ReplayInv /\ ~freed
  BY FreedForever
<1>1. CASE \E r \in Requests : Ask(r)
  BY <1>0, <1>1, AskReplay, DeviceAssumption, HardwareAssumption
<1>2. CASE \E i \in DOMAIN inflight : \E cancelled \in BOOLEAN : TransferCb(i, cancelled)
  BY <1>0, <1>2, TransferCbReplay, HardwareAssumption
<1>3. CASE \E i \in DOMAIN inflight : HidTransferCb(i)
  BY <1>0, <1>3, HidTransferCbReplay, HardwareAssumption
<1>4. CASE ReplayNext
  BY <1>0, <1>4, ReplayNextReplay
<1>5. CASE ClearEvents \/ LoadEvents
  BY <1>0, <1>5, ReplacementsReplay
<1>6. CASE HidScan
  BY <1>0, <1>6, HidScanReplay, HardwareAssumption
<1>7. CASE SaveReturn
  BY <1>0, <1>7, SaveReturnReplay
<1>8. CASE Load
  BY <1>0, <1>8, LoadReplay
<1>9. CASE Close
  BY <1>0, <1>9, CloseReplay
<1>10. CASE \/ GetInterface \/ GetBosDescriptors \/ Invalidate
            \/ GetHidDescriptors \/ HidStart \/ HidAnswer \/ HidReturn \/ Save
            \/ Open \/ (\E c \in DOMAIN Hardware : SetConfiguration(c)) \/ UNCHANGED vars
  BY <1>0, <1>10, OthersReplay
<1> QED
  BY <1>1, <1>2, <1>3, <1>4, <1>5, <1>6, <1>7, <1>8, <1>9, <1>10 DEF Next

\* Unless events were freed under a transfer an emulated device gives the same
\* answers as the real one gave, whatever was in flight, failed, was cancelled or
\* came late when they were recorded: load_event finds for each request the event
\* that save_event made for it, over and over.
THEOREM ReplaysFaithful ==
  ASSUME NullIsNone
  PROVE  Spec => []ReplayFaithful
<1>1. CASE SaveEvents
  <2> DEFINE Replays == ~freed => ReplayInv
  <2>1. Spec => [](DeviceInv /\ CacheInv /\ FileInv)
    BY SpecFile
  <2>2. Init => Replays
    BY InitReplay
  <2>3. DeviceInv /\ CacheInv /\ FileInv /\ Replays /\ DeviceInv' /\ [Next]_vars => Replays'
    BY <1>1, NextReplay
  <2>4. Replays => ReplayFaithful
    BY DEF ReplayInv, ReplayFaithful
  <2> HIDE DEF Replays
  <2> QED
    BY <2>1, <2>2, <2>3, <2>4, PTL DEF Spec
<1>2. CASE ~SaveEvents
  <2>1. ReplayFaithful
    BY <1>2 DEF ReplayFaithful, EventsReplay
  <2> QED
    BY <2>1, PTL
<1> QED
  BY <1>1, <1>2

===============================================================================
