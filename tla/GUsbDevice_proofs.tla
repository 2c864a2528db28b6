--------------------------- MODULE GUsbDevice_proofs ---------------------------
(***************************************************************************)
(* Proofs about GUsbDevice, for every device, application and number of    *)
(* transfers in flight.                                                    *)
(***************************************************************************)
EXTENDS GUsbDevice, DeviceJson_proofs, TLAPS

\* The value that stands for "none" is no sequence.
NullIsNoSequence == \A s : IsSeq(s) => s # Null

-----------------------------------------------------------------------------
(* The invariant.                                                          *)

DeviceOK ==
  /\ plan \in Plans
  /\ real \in BOOLEAN /\ open \in BOOLEAN
  /\ config \in DOMAIN Hardware

IsCache(c) == c = [list |-> c.list, valid |-> c.valid] /\ c.valid \in BOOLEAN

CachesOK == IsCache(interfaces) /\ IsCache(bos) /\ IsCache(hid) /\ disturbed \in BOOLEAN

IsTransfer(t) ==
  t = [request |-> t.request, place |-> t.place, entry |-> t.entry, query |-> t.query,
       size |-> t.size]

HasEventFields(e) == e = [id |-> e.id, status |-> e.status, rc |-> e.rc, bytes |-> e.bytes]

\* The event is the one of request r, and untouched unless events were freed under a
\* transfer.
Owned(e, r, f) == HasEventFields(e) /\ e.id = r /\ (~f => e = NewEvent(r))

AllOwned ==
  \A i \in DOMAIN inflight : inflight[i].place > 0 =>
    /\ inflight[i].place \in DOMAIN events
    /\ Owned(events[inflight[i].place], inflight[i].request, freed)
    /\ \A j \in DOMAIN inflight \ {i} : inflight[j].place # inflight[i].place

\* The events and the transfers that point to them.
EventsOK ==
  /\ IsSeq(events) /\ IsSeq(inflight) /\ freed \in BOOLEAN
  /\ \A i \in DOMAIN inflight :
       IsTransfer(inflight[i]) /\ inflight[i].place \in Place /\ (inflight[i].place = Gone => freed)
  /\ event_idx \in 0 .. Len(events)
  /\ AllOwned

\* A history of requests that n events record.
IsHistory(s, n) ==
  /\ IsSeq(s)
  /\ \A i \in DOMAIN s : /\ s[i] = [request |-> s[i].request, answer |-> s[i].answer,
                                    place |-> s[i].place]
                         /\ s[i].place \in 0 .. n

SessionOK == IsHistory(session, Len(events)) /\ replayed \in 0 .. Len(session)

\* The file has the events that the saved history is about.
FileOK ==
  file # Null => LET es == LoadDevice(file, Null).events
                 IN IsSeq(es) /\ IsHistory(saved, Len(es))

DeviceInv == DeviceOK /\ CachesOK /\ EventsOK /\ SessionOK /\ FileOK

-----------------------------------------------------------------------------
(* The events.                                                             *)

\* The event of a request when it is made.
LEMMA NewIsOwned ==
  ASSUME NEW r, NEW f
  PROVE  Owned(NewEvent(r), r, f)
BY DEF Owned, HasEventFields, NewEvent

\* What a callback writes changes one event, which keeps its key.
LEMMA WrittenIsOwned ==
  ASSUME IsSeq(events), NEW k \in 1 .. Len(events), NEW status, NEW bytes
  PROVE  LET es == Written(k, status, bytes)
         IN /\ IsSeq(es) /\ Len(es) = Len(events) /\ DOMAIN es = 1 .. Len(events)
            /\ \A j \in 1 .. Len(events) : j # k => es[j] = events[j]
            /\ \A r, f : Owned(events[k], r, f) => Owned(es[k], r, TRUE)
<1> DEFINE es == Written(k, status, bytes)
           e == events[k]
<1>1. Len(events) \in Nat /\ DOMAIN events = 1 .. Len(events)
  BY IsSeqOfElements DEF IsSeq
<1>2. \/ es = [events EXCEPT ![k] = [e EXCEPT !.status = status]]
      \/ es = [events EXCEPT ![k] = [e EXCEPT !.bytes = bytes]]
  BY Zenon DEF Written
<1>3. /\ es = [j \in 1 .. Len(events) |-> es[j]]
      /\ \A j \in 1 .. Len(events) : j # k => es[j] = events[j]
      /\ es[k] = [e EXCEPT !.status = status] \/ es[k] = [e EXCEPT !.bytes = bytes]
  BY <1>1, <1>2
<1> HIDE DEF es, e
<1>4. IsSeq(es) /\ Len(es) = Len(events) /\ DOMAIN es = 1 .. Len(events)
  BY <1>1, <1>3, FunctionIsSeq
<1>5. ASSUME NEW r, NEW f, Owned(e, r, f)
      PROVE  Owned(es[k], r, TRUE)
  <2>1. e = [id |-> e.id, status |-> e.status, rc |-> e.rc, bytes |-> e.bytes] /\ e.id = r
    BY <1>5 DEF Owned, HasEventFields
  <2>2. HasEventFields(es[k]) /\ es[k].id = r
    BY <1>3, <2>1 DEF HasEventFields
  <2> QED
    BY <2>2 DEF Owned
<1> QED
  BY <1>3, <1>4, <1>5 DEF es, e

\* A request is recorded, or not, and no transfer submitted.
LEMMA RecordKeepsEvents ==
  ASSUME DeviceAssumption, EventsOK, NEW e, events' = Recorded(e), UNCHANGED <<inflight, event_idx, freed>>
  PROVE  EventsOK' /\ Len(events') \in {Len(events), Len(events) + 1} /\ Len(events) \in Nat
         /\ NextPlace \in 0 .. Len(events')
<1>1. IsSeq(events) /\ Len(events) \in Nat /\ DOMAIN events = 1 .. Len(events)
  BY IsSeqOfElements DEF EventsOK, IsSeq
<1>2. CASE SaveEvents
  <2>1. events' = Append(events, e)
    BY <1>2 DEF Recorded
  <2>2. /\ IsSeq(events') /\ Len(events') = Len(events) + 1
        /\ \A i \in 1 .. Len(events) : events'[i] = events[i]
    BY <1>1, <2>1, AppendIsSeq
  <2>3. DOMAIN events' = 1 .. Len(events) + 1
    BY <2>2, IsSeqOfElements
  <2>4. AllOwned'
    BY <1>1, <2>2, <2>3 DEF EventsOK, AllOwned
  <2> QED
    BY <1>1, <1>2, <2>2, <2>4 DEF EventsOK, IsTransfer, Place, NextPlace
<1>3. CASE ~SaveEvents
  <2>1. events' = events
    BY <1>3 DEF Recorded
  <2> QED
    BY <1>1, <1>3, <2>1 DEF EventsOK, AllOwned, IsTransfer, Place, NextPlace
<1> QED
  BY <1>2, <1>3

\* A transfer is submitted and recorded.
LEMMA SubmitKeepsEvents ==
  ASSUME DeviceAssumption, EventsOK, NEW r, NEW entry, NEW query, NEW size,
         events' = Recorded(NewEvent(r)), inflight' = Submitted(r, entry, query, size),
         UNCHANGED <<event_idx, freed>>
  PROVE  EventsOK' /\ Len(events') \in {Len(events), Len(events) + 1} /\ Len(events) \in Nat
         /\ NextPlace \in 0 .. Len(events')
<1> DEFINE t == [request |-> r, place |-> NextPlace, entry |-> entry, query |-> query,
                 size |-> size]
<1>1. /\ IsSeq(events) /\ Len(events) \in Nat /\ DOMAIN events = 1 .. Len(events)
      /\ IsSeq(inflight) /\ Len(inflight) \in Nat /\ DOMAIN inflight = 1 .. Len(inflight)
  BY IsSeqOfElements DEF EventsOK, IsSeq
<1>2. /\ IsSeq(inflight') /\ Len(inflight') = Len(inflight) + 1
      /\ \A i \in 1 .. Len(inflight) : inflight'[i] = inflight[i]
      /\ inflight'[Len(inflight) + 1] = t
  BY <1>1, AppendIsSeq DEF Submitted
<1>3. DOMAIN inflight' = 1 .. Len(inflight) + 1
  BY <1>2, IsSeqOfElements
<1>4. IsTransfer(t) /\ t.place = NextPlace /\ t.request = r
  BY DEF IsTransfer
<1> HIDE DEF t
<1>5. CASE SaveEvents
  <2>1. events' = Append(events, NewEvent(r)) /\ NextPlace = Len(events) + 1
    BY <1>5 DEF Recorded, NextPlace
  <2>2. /\ IsSeq(events') /\ Len(events') = Len(events) + 1
        /\ \A i \in 1 .. Len(events) : events'[i] = events[i]
        /\ events'[Len(events) + 1] = NewEvent(r)
    BY <1>1, <2>1, AppendIsSeq
  <2>3. DOMAIN events' = 1 .. Len(events) + 1
    BY <2>2, IsSeqOfElements
  <2>4. \A i \in DOMAIN inflight' : /\ IsTransfer(inflight'[i]) /\ inflight'[i].place \in Place'
                                    /\ inflight'[i].place = Gone => freed
    BY <1>1, <1>2, <1>3, <1>4, <2>1, <2>2 DEF EventsOK, Place, Gone
  <2>5. ASSUME NEW i \in 1 .. Len(inflight), inflight[i].place > 0
        PROVE  /\ inflight[i].place \in 1 .. Len(events)
               /\ Owned(events[inflight[i].place], inflight[i].request, freed)
               /\ \A j \in DOMAIN inflight \ {i} : inflight[j].place # inflight[i].place
    BY <1>1, <2>5 DEF EventsOK, AllOwned
  <2>6. ASSUME NEW i \in 1 .. Len(inflight) + 1, inflight'[i].place > 0
        PROVE  /\ inflight'[i].place \in 1 .. Len(events) + 1
               /\ Owned(events'[inflight'[i].place], inflight'[i].request, freed)
               /\ \A j \in (1 .. Len(inflight) + 1) \ {i} : inflight'[j].place # inflight'[i].place
    <3>1. CASE i = Len(inflight) + 1
      <4>1. ASSUME NEW j \in 1 .. Len(inflight)
            PROVE  inflight[j].place # Len(events) + 1
        BY <1>1 DEF EventsOK, Place, Gone
      <4> QED
        BY <1>1, <1>2, <1>4, <2>1, <2>2, <3>1, <4>1, NewIsOwned
    <3>2. CASE i # Len(inflight) + 1
      <4>1. i \in 1 .. Len(inflight) /\ inflight'[i] = inflight[i]
        BY <1>1, <1>2, <3>2
      <4>2. /\ inflight[i].place \in 1 .. Len(events)
            /\ Owned(events[inflight[i].place], inflight[i].request, freed)
            /\ \A j \in DOMAIN inflight \ {i} : inflight[j].place # inflight[i].place
        BY <2>5, <2>6, <4>1
      <4>3. /\ inflight'[i].place \in 1 .. Len(events) + 1
            /\ Owned(events'[inflight'[i].place], inflight'[i].request, freed)
        BY <1>1, <2>2, <4>1, <4>2
      <4>4. ASSUME NEW j \in (1 .. Len(inflight) + 1) \ {i}
            PROVE  inflight'[j].place # inflight'[i].place
        <5>1. CASE j = Len(inflight) + 1
          BY <1>1, <1>2, <1>4, <2>1, <4>1, <4>2, <5>1
        <5>2. CASE j # Len(inflight) + 1
          <6>1. j \in 1 .. Len(inflight) /\ inflight'[j] = inflight[j]
            BY <1>1, <1>2, <4>4, <5>2
          <6> QED
            BY <1>1, <4>1, <4>2, <4>4, <6>1
        <5> QED
          BY <5>1, <5>2
      <4> QED
        BY <4>3, <4>4
    <3> QED
      BY <3>1, <3>2
  <2>7. AllOwned'
    BY <1>3, <2>3, <2>6 DEF AllOwned
  <2> QED
    BY <1>1, <1>2, <2>1, <2>2, <2>4, <2>7 DEF EventsOK
<1>6. CASE ~SaveEvents
  <2>1. events' = events /\ NextPlace = 0
    BY <1>6 DEF Recorded, NextPlace
  <2>2. \A i \in DOMAIN inflight' : /\ IsTransfer(inflight'[i]) /\ inflight'[i].place \in Place'
                                    /\ inflight'[i].place = Gone => freed
    BY <1>1, <1>2, <1>3, <1>4, <2>1 DEF EventsOK, Place, Gone
  <2>3. ASSUME NEW i \in DOMAIN inflight', inflight'[i].place > 0
        PROVE  i \in DOMAIN inflight /\ inflight'[i] = inflight[i]
    BY <1>1, <1>2, <1>3, <1>4, <2>1, <2>3
  <2>4. ASSUME NEW i \in DOMAIN inflight', inflight'[i].place > 0
        PROVE  /\ inflight'[i].place \in DOMAIN events'
               /\ Owned(events'[inflight'[i].place], inflight'[i].request, freed)
               /\ \A j \in DOMAIN inflight' \ {i} : inflight'[j].place # inflight'[i].place
    <3>1. /\ inflight[i].place \in DOMAIN events
          /\ Owned(events[inflight[i].place], inflight[i].request, freed)
          /\ \A j \in DOMAIN inflight \ {i} : inflight[j].place # inflight[i].place
      BY <2>3, <2>4 DEF EventsOK, AllOwned
    <3>2. \A j \in DOMAIN inflight' : \/ inflight'[j] = inflight[j] /\ j \in DOMAIN inflight
                                      \/ inflight'[j].place = 0
      BY <1>1, <1>2, <1>3, <1>4, <2>1
    <3> QED
      BY <2>1, <2>3, <2>4, <3>1, <3>2
  <2>5. AllOwned'
    BY <2>4 DEF AllOwned
  <2> QED
    BY <1>1, <1>2, <2>1, <2>2, <2>5 DEF EventsOK
<1> QED
  BY <1>5, <1>6

\* A callback settles its own event and gives the transfer up; if that was freed it
\* may settle any, or none.
LEMMA SettleKeepsEvents ==
  ASSUME DeviceAssumption, EventsOK, NEW i \in DOMAIN inflight, NEW status, NEW bytes,
         events' \in Settle(inflight[i], status, bytes), inflight' = RemoveAt(inflight, i),
         UNCHANGED <<event_idx, freed>>
  PROVE  EventsOK' /\ Len(events') = Len(events)
<1> DEFINE n == Len(inflight)
           t == inflight[i]
           at(j) == IF j < i THEN j ELSE j + 1
<1>1. /\ IsSeq(events) /\ Len(events) \in Nat /\ DOMAIN events = 1 .. Len(events)
      /\ IsSeq(inflight) /\ n \in Nat /\ DOMAIN inflight = 1 .. n
  BY IsSeqOfElements DEF EventsOK, IsSeq
<1>2. /\ IsSeq(inflight') /\ DOMAIN inflight' = 1 .. n - 1
      /\ \A j \in 1 .. n - 1 : inflight'[j] = inflight[at(j)]
  <2> DEFINE S == {inflight[j] : j \in 1 .. n}
  <2>1. inflight \in Seq(S)
    BY <1>1, IsSeqOfElements
  <2> HIDE DEF S
  <2>2. /\ inflight' \in Seq(S) /\ Len(inflight') = n - 1
        /\ \A j \in 1 .. n - 1 : inflight'[j] = inflight[at(j)]
    BY <2>1, RemoveAtIsSeq
  <2> QED
    BY <2>2, SeqIsSeq
<1>3. \A j \in 1 .. n - 1 : at(j) \in (1 .. n) \ {i}
  BY <1>1
<1>4. \A j, k \in 1 .. n - 1 : j # k => at(j) # at(k)
  BY <1>1
<1>5. \A j \in 1 .. n : /\ IsTransfer(inflight[j]) /\ inflight[j].place \in {Gone} \cup 0 .. Len(events)
                        /\ inflight[j].place = Gone => freed
  BY <1>1 DEF EventsOK, Place
<1>6. \/ events' = events
      \/ \E k \in 1 .. Len(events) : /\ k = t.place \/ freed
                                    /\ events' = Written(k, status, bytes)
  <2>0. /\ t.place \in {Gone} \cup 0 .. Len(events)
        /\ t.place = Gone => freed
    <3>1. i \in 1 .. n
      BY <1>1
    <3> QED
      BY <1>5, <3>1, Zenon
  <2>1. CASE t.place > 0
    <3>1. events' = Written(t.place, status, bytes)
      BY <2>1, Zenon DEF Settle
    <3>2. t.place \in 1 .. Len(events)
      BY <1>1, <2>0, <2>1 DEF Gone
    <3> QED
      BY <3>1, <3>2
  <2>2. CASE ~(t.place > 0)
    <3>1. events' \in {events} \cup
                     {Written(k, status, bytes) : k \in {j \in DOMAIN events : t.place = Gone}}
      BY <2>2, Zenon DEF Settle
    <3> QED
      BY <1>1, <2>0, <3>1, Zenon
  <2> QED
    BY <2>1, <2>2
<1> HIDE DEF at, t
<1>7. /\ IsSeq(events') /\ Len(events') = Len(events) /\ DOMAIN events' = 1 .. Len(events)
      /\ \A k \in 1 .. Len(events) : \A r :
           Owned(events[k], r, freed) /\ k # t.place => Owned(events'[k], r, freed)
  <2>1. CASE events' = events
    BY <1>1, <2>1
  <2>2. CASE \E k \in 1 .. Len(events) : (k = t.place \/ freed) /\ events' = Written(k, status, bytes)
    <3>1. PICK k \in 1 .. Len(events) : (k = t.place \/ freed) /\ events' = Written(k, status, bytes)
      BY <2>2
    <3>2. /\ IsSeq(events') /\ Len(events') = Len(events) /\ DOMAIN events' = 1 .. Len(events)
          /\ \A j \in 1 .. Len(events) : j # k => events'[j] = events[j]
          /\ \A r, f : Owned(events[k], r, f) => Owned(events'[k], r, TRUE)
      BY <1>1, <3>1, WrittenIsOwned
    <3>3. ASSUME NEW j \in 1 .. Len(events), NEW r, Owned(events[j], r, freed), j # t.place
          PROVE  Owned(events'[j], r, freed)
      <4>1. CASE j # k
        BY <3>2, <3>3, <4>1
      <4>2. CASE j = k
        <5>1. freed = TRUE
          BY <3>1, <3>3, <4>2 DEF EventsOK
        <5> QED
          BY <3>2, <3>3, <4>2, <5>1
      <4> QED
        BY <4>1, <4>2
    <3> QED
      BY <3>2, <3>3
  <2> QED
    BY <1>6, <2>1, <2>2
<1>8. \A j \in 1 .. n - 1 : /\ IsTransfer(inflight'[j]) /\ inflight'[j].place \in Place'
                            /\ inflight'[j].place = Gone => freed
  BY <1>2, <1>3, <1>5, <1>7 DEF Place
<1>9. ASSUME NEW j \in 1 .. n - 1, inflight'[j].place > 0
      PROVE  /\ inflight'[j].place \in 1 .. Len(events)
             /\ Owned(events'[inflight'[j].place], inflight'[j].request, freed)
             /\ \A k \in (1 .. n - 1) \ {j} : inflight'[k].place # inflight'[j].place
  <2>1. inflight'[j] = inflight[at(j)] /\ at(j) \in 1 .. n /\ at(j) # i
    BY <1>2, <1>3
  <2>2. /\ inflight[at(j)].place \in 1 .. Len(events)
        /\ Owned(events[inflight[at(j)].place], inflight[at(j)].request, freed)
        /\ \A k \in (1 .. n) \ {at(j)} : inflight[k].place # inflight[at(j)].place
    BY <1>1, <1>9, <2>1 DEF EventsOK, AllOwned
  <2>3. t.place # inflight[at(j)].place
    BY <1>1, <2>1, <2>2 DEF t
  <2>4. Owned(events'[inflight[at(j)].place], inflight[at(j)].request, freed)
    BY <1>7, <2>2, <2>3
  <2>5. \A k \in (1 .. n - 1) \ {j} : inflight'[k].place # inflight'[j].place
    BY <1>2, <1>3, <1>4, <2>1, <2>2
  <2> QED
    BY <2>1, <2>2, <2>4, <2>5
<1>10. AllOwned'
  BY <1>2, <1>7, <1>9 DEF AllOwned
<1>11. freed' = freed /\ freed \in BOOLEAN
  BY DEF EventsOK
<1>12. \A j \in DOMAIN inflight' : /\ IsTransfer(inflight'[j]) /\ inflight'[j].place \in Place'
                                   /\ inflight'[j].place = Gone => freed'
  <2> SUFFICES ASSUME NEW j \in DOMAIN inflight'
               PROVE  /\ IsTransfer(inflight'[j]) /\ inflight'[j].place \in Place'
                      /\ inflight'[j].place = Gone => freed'
    OBVIOUS
  <2>1. j \in 1 .. n - 1
    BY <1>2
  <2> QED
    BY <1>8, <1>11, <2>1
<1>13. IsSeq(events') /\ IsSeq(inflight') /\ Len(events') = Len(events) /\ event_idx' \in 0 .. Len(events')
  BY <1>2, <1>7 DEF EventsOK
<1> QED
  BY <1>10, <1>11, <1>12, <1>13, Zenon DEF EventsOK

\* The events are replaced: what is in flight points to none of them.
LEMMA ReplaceKeepsEvents ==
  ASSUME DeviceAssumption, EventsOK, NEW es, IsSeq(es),
         events' = es, event_idx' = 0, inflight' = Forget, freed' = (freed \/ FreedInFlight)
  PROVE  EventsOK'
<1>1. IsSeq(inflight) /\ Len(inflight) \in Nat /\ DOMAIN inflight = 1 .. Len(inflight)
  BY IsSeqOfElements DEF EventsOK, IsSeq
<1>2. inflight' = [i \in 1 .. Len(inflight) |-> inflight'[i]]
  BY <1>1 DEF Forget
<1>3. IsSeq(inflight') /\ DOMAIN inflight' = 1 .. Len(inflight)
  BY <1>1, <1>2, FunctionIsSeq
<1>4. \A i \in 1 .. Len(inflight) :
        IsTransfer(inflight'[i]) /\ inflight'[i].place = IF inflight[i].place = 0 THEN 0 ELSE Gone
  <2> SUFFICES ASSUME NEW i \in 1 .. Len(inflight)
               PROVE  /\ IsTransfer(inflight'[i])
                      /\ inflight'[i].place = IF inflight[i].place = 0 THEN 0 ELSE Gone
    OBVIOUS
  <2> DEFINE t == inflight[i]
             place == IF t.place = 0 THEN 0 ELSE Gone
  <2>1. t = [request |-> t.request, place |-> t.place, entry |-> t.entry, query |-> t.query,
             size |-> t.size]
    BY <1>1 DEF EventsOK, IsTransfer
  <2>2. inflight'[i] = [t EXCEPT !.place = place, !.entry = 0]
    BY <1>1 DEF Forget
  <2> HIDE DEF t, place
  <2>3. inflight'[i] = [request |-> t.request, place |-> place, entry |-> 0, query |-> t.query,
                        size |-> t.size]
    BY <2>1, <2>2
  <2>4. IsTransfer(inflight'[i]) /\ inflight'[i].place = place
    BY <2>3 DEF IsTransfer
  <2> QED
    BY <2>4 DEF t, place
<1>5. \A i \in 1 .. Len(inflight) : ~(inflight'[i].place > 0) /\ inflight'[i].place \in Place'
  BY <1>4 DEF Place, Gone
<1>7. \A i \in 1 .. Len(inflight) : inflight'[i].place = Gone => freed'
  <2> SUFFICES ASSUME NEW i \in 1 .. Len(inflight), inflight'[i].place = Gone
               PROVE  freed'
    OBVIOUS
  <2>1. IsTransfer(inflight[i]) /\ inflight[i].place \in Place /\ (inflight[i].place = Gone => freed)
    BY <1>1 DEF EventsOK
  <2>2. inflight[i].place # 0
    BY <1>4 DEF Gone
  <2>3. inflight[i].place = Gone \/ inflight[i].place > 0
    BY <1>1, <2>1, <2>2 DEF Place, EventsOK, IsSeq
  <2> QED
    BY <1>1, <2>1, <2>3 DEF FreedInFlight
<1>8. freed' \in BOOLEAN
  BY DEF EventsOK
<1>6. AllOwned'
  BY <1>3, <1>5 DEF AllOwned
<1> QED
  BY <1>3, <1>4, <1>5, <1>6, <1>7, <1>8 DEF EventsOK, IsSeq

\* load_event finds an event or nothing.
LEMMA FindEventInRange ==
  ASSUME EventsOK, NEW id
  PROVE  StartIdx \in 0 .. Len(events) /\ FindEvent(id) \in 0 .. Len(events)
<1> DEFINE matching == {i \in DOMAIN events : events[i].id = id}
           next == {i \in matching : i > StartIdx}
<1>1. Len(events) \in Nat /\ DOMAIN events = 1 .. Len(events)
  BY IsSeqOfElements DEF EventsOK, IsSeq
<1>2. /\ matching \subseteq 1 .. Len(events) /\ next \subseteq 1 .. Len(events)
      /\ matching \subseteq Nat /\ next \subseteq Nat
  BY <1>1
<1>3. FindEvent(id) = IF next # {} THEN Min(next) ELSE IF matching # {} THEN Min(matching) ELSE 0
  BY DEF FindEvent
<1> HIDE DEF matching, next
<1>4. next # {} => Min(next) \in next
  BY <1>2, MinIsLeast
<1>5. matching # {} => Min(matching) \in matching
  BY <1>2, MinIsLeast
<1>6. StartIdx \in 0 .. Len(events)
  BY <1>1 DEF StartIdx, EventsOK
<1>7. FindEvent(id) \in {0} \cup 1 .. Len(events)
  BY <1>2, <1>3, <1>4, <1>5, Zenon
<1> QED
  BY <1>1, <1>6, <1>7

-----------------------------------------------------------------------------
(* The history.                                                            *)

\* A request is added to the history.
LEMMA RequestKeepsSession ==
  ASSUME SessionOK, NEW r, NEW answer, NEW place \in 0 .. Len(events'),
         Len(events') \in {Len(events), Len(events) + 1}, Len(events) \in Nat,
         session' = Append(session, [request |-> r, answer |-> answer, place |-> place]),
         UNCHANGED replayed
  PROVE  SessionOK'
<1> DEFINE e == [request |-> r, answer |-> answer, place |-> place]
<1>1. IsSeq(session) /\ Len(session) \in Nat /\ DOMAIN session = 1 .. Len(session)
  BY IsSeqOfElements DEF SessionOK, IsHistory, IsSeq
<1>2. /\ IsSeq(session') /\ Len(session') = Len(session) + 1
      /\ \A i \in 1 .. Len(session) : session'[i] = session[i]
      /\ session'[Len(session) + 1] = e
  BY <1>1, AppendIsSeq
<1>3. DOMAIN session' = 1 .. Len(session) + 1
  BY <1>2, IsSeqOfElements
<1>4. e = [request |-> e.request, answer |-> e.answer, place |-> e.place] /\ e.place = place
  OBVIOUS
<1> HIDE DEF e
<1>5. ASSUME NEW i \in 1 .. Len(session) + 1
      PROVE  /\ session'[i] = [request |-> session'[i].request, answer |-> session'[i].answer,
                               place |-> session'[i].place]
             /\ session'[i].place \in 0 .. Len(events')
  <2>1. CASE i = Len(session) + 1
    BY <1>2, <1>4, <2>1
  <2>2. CASE i # Len(session) + 1
    <3>1. i \in 1 .. Len(session) /\ session'[i] = session[i]
      BY <1>1, <1>2, <2>2
    <3> QED
      BY <1>1, <3>1 DEF SessionOK, IsHistory
  <2> QED
    BY <2>1, <2>2
<1> QED
  BY <1>1, <1>2, <1>3, <1>5 DEF SessionOK, IsHistory

\* One of the answers of the history changes.
LEMMA AnswerKeepsSession ==
  ASSUME SessionOK, NEW n, NEW answer,
         Len(events') = Len(events), Len(events) \in Nat,
         session' = [session EXCEPT ![n].answer = answer],
         UNCHANGED replayed
  PROVE  SessionOK'
<1>1. IsSeq(session) /\ Len(session) \in Nat /\ DOMAIN session = 1 .. Len(session)
  BY IsSeqOfElements DEF SessionOK, IsHistory, IsSeq
<1>2. session' = [i \in 1 .. Len(session) |-> session'[i]]
  BY <1>1
<1>3. IsSeq(session') /\ Len(session') = Len(session) /\ DOMAIN session' = 1 .. Len(session)
  <2> DEFINE s == session'
  <2>1. s = [i \in 1 .. Len(session) |-> s[i]]
    BY <1>2
  <2> HIDE DEF s
  <2>2. IsSeq(s) /\ Len(s) = Len(session) /\ DOMAIN s = 1 .. Len(session)
    BY <1>1, <2>1, FunctionIsSeq
  <2> QED
    BY <2>2 DEF s
<1>4. ASSUME NEW i \in 1 .. Len(session)
      PROVE  /\ session'[i] = [request |-> session'[i].request, answer |-> session'[i].answer,
                               place |-> session'[i].place]
             /\ session'[i].place \in 0 .. Len(events')
  <2> DEFINE e == session[i]
  <2>1. e = [request |-> e.request, answer |-> e.answer, place |-> e.place] /\ e.place \in 0 .. Len(events)
    BY <1>1 DEF SessionOK, IsHistory
  <2>2. session'[i] = e \/ session'[i] = [e EXCEPT !.answer = answer]
    BY <1>1
  <2> HIDE DEF e
  <2> QED
    BY <2>1, <2>2
<1> QED
  BY <1>1, <1>3, <1>4 DEF SessionOK, IsHistory

-----------------------------------------------------------------------------
(* The file.                                                               *)

\* As many events are loaded as were saved, whatever else the file has.
LEMMA SavedEventsLoad ==
  ASSUME DeviceAssumption, NullIsNoSequence, NEW es, IsSeq(es), NEW b, NEW h, NEW l
  PROVE  LET ls == LoadDevice(SaveDevice([Identity EXCEPT !.events = es], b, h, l), Null).events
         IN IsSeq(ls) /\ Len(ls) = Len(es)
<1> DEFINE d == [Identity EXCEPT !.events = es]
           m == With([PlatformId |-> d.platform_id,
                      Created |-> [iso8601 |-> d.created],
                      Tags |-> NonEmpty(d.tags),
                      UsbBosDescriptors |-> Array(SaveBos, b),
                      UsbHidDescriptors |-> Array(Encode, h),
                      UsbInterfaces |-> Array(SaveInterface, l),
                      UsbEvents |-> Array(SaveEvent, d.events)],
                     SaveDesc(d.desc))
           a == Array(SaveEvent, es)
           ls == LoadDevice(SaveDevice(d, b, h, l), Null).events
<1>1. d.events = es
  BY DEF DeviceAssumption
<1>2. SaveDevice(d, b, h, l) = Object(m)
  BY DEF SaveDevice
<1>3. "UsbEvents" \in DOMAIN m /\ m["UsbEvents"] = a
  BY <1>1 DEF With
<1>4. ls = Elements(LoadEvent, Get(Object(m), "UsbEvents", Null))
  BY <1>2 DEF LoadDevice
<1> HIDE DEF m
<1>5. Get(Object(m), "UsbEvents", Null) = a
  BY <1>3 DEF Get, Object
<1>6. Len(es) \in Nat /\ DOMAIN es = 1 .. Len(es) /\ es # Null
  BY IsSeqOfElements DEF NullIsNoSequence, IsSeq
<1> DEFINE g == [i \in 1 .. Len(es) |-> SaveEvent(es[i])]
<1>7. a = NonEmpty(g)
  BY <1>6 DEF Array
<1>8. IsSeq(g) /\ Len(g) = Len(es) /\ DOMAIN g = 1 .. Len(es) /\ g # Null
  <2>1. g = [i \in 1 .. Len(es) |-> g[i]]
    OBVIOUS
  <2> HIDE DEF g
  <2> QED
    BY <1>6, <2>1, FunctionIsSeq DEF NullIsNoSequence
<1> HIDE DEF g, a, ls, d
<1>9. CASE g = <<>>
  <2>1. ls = <<>> /\ Len(es) = 0
    BY <1>4, <1>5, <1>7, <1>8, <1>9 DEF NonEmpty, Elements
  <2> QED
    BY <2>1 DEF IsSeq, ls, d
<1>10. CASE g # <<>>
  <2>1. ls = [i \in 1 .. Len(es) |-> LoadEvent(g[i])]
    BY <1>4, <1>5, <1>7, <1>8, <1>10 DEF NonEmpty, Elements
  <2>2. ls = [i \in 1 .. Len(es) |-> ls[i]]
    BY <2>1
  <2>3. IsSeq(ls) /\ Len(ls) = Len(es)
    BY <1>6, <2>2, FunctionIsSeq
  <2> QED
    BY <2>3 DEF ls, d
<1> QED
  BY <1>9, <1>10

-----------------------------------------------------------------------------
(* What a step leaves alone.                                               *)

LEMMA DeviceKept ==
  ASSUME DeviceOK, UNCHANGED device
  PROVE  DeviceOK'
BY DEF DeviceOK, device

LEMMA CachesKept ==
  ASSUME CachesOK, UNCHANGED caches
  PROVE  CachesOK'
BY DEF CachesOK, IsCache, caches

LEMMA EventsKept ==
  ASSUME EventsOK, UNCHANGED <<events, event_idx, inflight, freed>>
  PROVE  EventsOK'
BY DEF EventsOK, IsSeq, IsTransfer, Place, AllOwned

LEMMA SessionKept ==
  ASSUME SessionOK, UNCHANGED <<events, session, replayed>>
  PROVE  SessionOK'
BY DEF SessionOK, IsHistory, IsSeq

LEMMA SessionSame ==
  ASSUME SessionOK, Len(events') = Len(events), UNCHANGED <<session, replayed>>
  PROVE  SessionOK'
BY DEF SessionOK, IsHistory, IsSeq

LEMMA FileKept ==
  ASSUME FileOK, UNCHANGED files
  PROVE  FileOK'
<1>1. file' = file /\ saved' = saved
  BY DEF files
<1> QED
  BY <1>1, Zenon DEF FileOK

LEMMA RecordingKept ==
  ASSUME EventsOK, SessionOK, UNCHANGED recording
  PROVE  EventsOK' /\ SessionOK'
BY EventsKept, SessionKept DEF recording

-----------------------------------------------------------------------------
(* The requests.                                                           *)

LEMMA RefuseKeeps ==
  ASSUME DeviceAssumption, DeviceInv, NEW r, NEW answer, Refuse(r, answer)
  PROVE  DeviceInv'
<1>1. DeviceOK' /\ CachesOK' /\ EventsOK' /\ FileOK'
  BY DeviceKept, CachesKept, EventsKept, FileKept DEF DeviceInv, Refuse
<1>2. Len(events) \in Nat /\ events' = events
  BY DEF DeviceInv, EventsOK, IsSeq, Refuse
<1>3. SessionOK'
  BY <1>2, RequestKeepsSession DEF DeviceInv, Refuse
<1> QED
  BY <1>1, <1>3 DEF DeviceInv

LEMMA RecordKeeps ==
  ASSUME DeviceAssumption, DeviceInv, NEW r, NEW e, NEW answer,
         Record(r, e, answer), UNCHANGED inflight
  PROVE  DeviceInv'
<1>1. DeviceOK' /\ CachesOK' /\ FileOK'
  BY DeviceKept, CachesKept, FileKept DEF DeviceInv, Record
<1>2. EventsOK' /\ Len(events') \in {Len(events), Len(events) + 1} /\ Len(events) \in Nat
      /\ NextPlace \in 0 .. Len(events')
  BY RecordKeepsEvents DEF DeviceInv, Record
<1>3. SessionOK'
  BY <1>2, RequestKeepsSession DEF DeviceInv, Record
<1> QED
  BY <1>1, <1>2, <1>3 DEF DeviceInv

LEMMA SubmitKeeps ==
  ASSUME DeviceAssumption, DeviceInv, NEW r, NEW answer, NEW entry, NEW query, NEW size,
         Record(r, NewEvent(r), answer), inflight' = Submitted(r, entry, query, size)
  PROVE  DeviceInv'
<1>1. DeviceOK' /\ CachesOK' /\ FileOK'
  BY DeviceKept, CachesKept, FileKept DEF DeviceInv, Record
<1>2. EventsOK' /\ Len(events') \in {Len(events), Len(events) + 1} /\ Len(events) \in Nat
      /\ NextPlace \in 0 .. Len(events')
  BY SubmitKeepsEvents DEF DeviceInv, Record
<1>3. SessionOK'
  BY <1>2, RequestKeepsSession DEF DeviceInv, Record
<1> QED
  BY <1>1, <1>2, <1>3 DEF DeviceInv

LEMMA AskKeeps ==
  ASSUME DeviceAssumption, DeviceInv, NEW r \in Requests, Ask(r)
  PROVE  DeviceInv'
<1>1. CASE GetStringDescriptor(r)
  BY <1>1, RefuseKeeps, RecordKeeps DEF GetStringDescriptor, RecordBytes
<1>2. CASE GetStringDescriptorBytes(r)
  BY <1>2, RefuseKeeps, RecordKeeps DEF GetStringDescriptorBytes, RecordBytes
<1>3. CASE GetCustomIndex(r)
  BY <1>3, RefuseKeeps, RecordKeeps DEF GetCustomIndex, RecordBytes
<1>4. CASE GetConfigurationIndex(r)
  BY <1>4, RefuseKeeps, RecordKeeps DEF GetConfigurationIndex, RecordBytes
<1>5. CASE Transfer(r)
  BY <1>5, RefuseKeeps, RecordKeeps, SubmitKeeps DEF Transfer
<1> QED
  BY <1>1, <1>2, <1>3, <1>4, <1>5 DEF Ask

-----------------------------------------------------------------------------
(* The callbacks of transfers.                                             *)

LEMMA TransferCbKeeps ==
  ASSUME DeviceAssumption, DeviceInv, NEW i \in DOMAIN inflight, NEW cancelled \in BOOLEAN,
         TransferCb(i, cancelled)
  PROVE  DeviceInv'
<1> DEFINE t == inflight[i]
<1>1. DeviceOK' /\ CachesOK' /\ FileOK'
  BY DeviceKept, CachesKept, FileKept DEF DeviceInv, TransferCb
<1>2. PICK status, bytes, n, answer :
        /\ events' \in Settle(t, status, bytes)
        /\ session' \in {session, [session EXCEPT ![n].answer = answer]}
        /\ inflight' = RemoveAt(inflight, i)
        /\ UNCHANGED <<event_idx, replayed, freed>>
  BY DEF TransferCb
<1>3. EventsOK' /\ Len(events') = Len(events)
  BY <1>2, SettleKeepsEvents DEF DeviceInv
<1>4. Len(events) \in Nat
  BY DEF DeviceInv, EventsOK, IsSeq
<1>5. SessionOK'
  <2>1. SessionOK /\ Len(events') = Len(events) /\ UNCHANGED replayed
    BY <1>2, <1>3 DEF DeviceInv
  <2>2. CASE session' = session
    BY <2>1, <2>2, SessionSame
  <2>3. CASE session' = [session EXCEPT ![n].answer = answer]
    BY <1>4, <2>1, <2>3, AnswerKeepsSession
  <2> QED
    BY <1>2, <2>2, <2>3
<1> QED
  BY <1>1, <1>3, <1>5 DEF DeviceInv

LEMMA HidTransferCbKeeps ==
  ASSUME DeviceAssumption, DeviceInv, NEW i \in DOMAIN inflight, HidTransferCb(i)
  PROVE  DeviceInv'
<1>1. DeviceOK' /\ CachesOK' /\ FileOK'
  BY DeviceKept, CachesKept, FileKept DEF DeviceInv, HidTransferCb
<1>2. PICK status, bytes :
        /\ events' \in Settle(inflight[i], status, bytes)
        /\ inflight' = RemoveAt(inflight, i)
        /\ UNCHANGED <<event_idx, session, replayed, freed>>
  BY DEF HidTransferCb
<1>3. EventsOK' /\ Len(events') = Len(events)
  BY <1>2, SettleKeepsEvents DEF DeviceInv
<1>4. SessionOK'
  BY <1>2, <1>3, SessionSame DEF DeviceInv
<1> QED
  BY <1>1, <1>3, <1>4 DEF DeviceInv

-----------------------------------------------------------------------------
(* The replay.                                                             *)

LEMMA ReplayNextKeeps ==
  ASSUME DeviceAssumption, DeviceInv, ReplayNext
  PROVE  DeviceInv'
<1>1. DeviceOK' /\ CachesOK' /\ FileOK'
  BY DeviceKept, CachesKept, FileKept DEF DeviceInv, ReplayNext
<1>2. PICK id : event_idx' = IF FindEvent(id) = 0 THEN StartIdx ELSE FindEvent(id)
  BY DEF ReplayNext
<1>3. event_idx' \in 0 .. Len(events) /\ UNCHANGED <<events, inflight, freed>>
  BY <1>2, FindEventInRange DEF DeviceInv, ReplayNext
<1>4. EventsOK'
  BY <1>3 DEF DeviceInv, EventsOK, IsSeq, IsTransfer, Place, AllOwned
<1>5. IsSeq(session) /\ Len(session) \in Nat /\ replayed \in 0 .. Len(session) /\ session # <<>>
  BY DEF DeviceInv, SessionOK, IsHistory, IsSeq, ReplayNext
<1>6. Len(session) # 0
  BY <1>5 DEF IsSeq
<1>7. replayed' \in 0 .. Len(session) /\ UNCHANGED <<events, session>>
  <2>1. replayed' = (IF replayed = Len(session) THEN 1 ELSE replayed + 1)
        /\ UNCHANGED <<events, session>>
    BY Zenon DEF ReplayNext
  <2> QED
    BY <1>5, <1>6, <2>1
<1>8. SessionOK'
  BY <1>7 DEF DeviceInv, SessionOK, IsHistory, IsSeq
<1> QED
  BY <1>1, <1>4, <1>8 DEF DeviceInv

LEMMA ReplaceEventsKeeps ==
  ASSUME DeviceAssumption, DeviceInv, NEW es, IsSeq(es), NEW entries, IsHistory(entries, Len(es)),
         ReplaceEvents(es, entries)
  PROVE  DeviceInv'
<1>1. DeviceOK' /\ CachesOK' /\ FileOK'
  BY DeviceKept, CachesKept, FileKept DEF DeviceInv, ReplaceEvents
<1>2. EventsOK'
  BY ReplaceKeepsEvents DEF DeviceInv, ReplaceEvents
<1>3. SessionOK'
  BY DEF ReplaceEvents, SessionOK, IsHistory, IsSeq
<1> QED
  BY <1>1, <1>2, <1>3 DEF DeviceInv

-----------------------------------------------------------------------------
(* The caches.                                                             *)

LEMMA FetchKeeps ==
  ASSUME CachesOK, NEW list
  PROVE  /\ FetchInterfaces(list) => IsCache(interfaces)'
         /\ FetchBos(list) => IsCache(bos)'
<1>1. ASSUME FetchInterfaces(list)
      PROVE  IsCache(interfaces)'
  <2>1. CASE interfaces' = interfaces
    BY <2>1 DEF CachesOK, IsCache
  <2>2. CASE \E all : interfaces' = [list |-> all, valid |-> TRUE]
    <3>1. PICK all : interfaces' = [list |-> all, valid |-> TRUE]
      BY <2>2
    <3> QED
      BY <3>1 DEF IsCache
  <2>3. interfaces' = interfaces \/ \E all : interfaces' = [list |-> all, valid |-> TRUE]
    BY <1>1, Zenon DEF FetchInterfaces
  <2> QED
    BY <2>1, <2>2, <2>3
<1>2. ASSUME FetchBos(list)
      PROVE  IsCache(bos)'
  <2>1. CASE bos' = bos
    BY <2>1 DEF CachesOK, IsCache
  <2>2. CASE \E all : bos' = [list |-> all, valid |-> TRUE]
    <3>1. PICK all : bos' = [list |-> all, valid |-> TRUE]
      BY <2>2
    <3> QED
      BY <3>1 DEF IsCache
  <2>3. bos' = bos \/ \E all : bos' = [list |-> all, valid |-> TRUE]
    BY <1>2, Zenon DEF FetchBos
  <2> QED
    BY <2>1, <2>2, <2>3
<1> QED
  BY <1>1, <1>2

LEMMA QueriesKeep ==
  ASSUME DeviceAssumption, DeviceInv,
         GetInterface \/ GetBosDescriptors \/ Invalidate \/ GetHidDescriptors \/ HidStart
         \/ HidAnswer \/ HidReturn \/ Save
  PROVE  DeviceInv'
<1>1. UNCHANGED <<device, recording, files>>
  BY DEF GetInterface, GetBosDescriptors, Invalidate, GetHidDescriptors, HidStart, HidAnswer,
         HidReturn, Save
<1>2. DeviceOK' /\ EventsOK' /\ SessionOK' /\ FileOK'
  BY <1>1, DeviceKept, RecordingKept, FileKept DEF DeviceInv
<1>3. CachesOK
  BY DEF DeviceInv
<1>4. CachesOK'
  <2>1. CASE GetInterface
    BY <1>3, <2>1, FetchKeeps DEF GetInterface, CachesOK, IsCache
  <2>2. CASE GetBosDescriptors
    BY <1>3, <2>2, FetchKeeps DEF GetBosDescriptors, CachesOK, IsCache
  <2>3. CASE Invalidate
    BY <1>3, <2>3 DEF Invalidate, CachesOK, IsCache
  <2>4. CASE GetHidDescriptors \/ HidReturn
    BY <1>3, <2>4 DEF GetHidDescriptors, HidReturn, CachesOK, IsCache, caches
  <2>5. CASE HidStart
    BY <1>3, <2>5, FetchKeeps DEF HidStart, CachesOK, IsCache
  <2>6. CASE HidAnswer
    BY <1>3, <2>6 DEF HidAnswer, Fail, CachesOK, IsCache
  <2>7. CASE Save
    BY <1>3, <2>7, FetchKeeps DEF Save, CachesOK, IsCache
  <2> QED
    BY <2>1, <2>2, <2>3, <2>4, <2>5, <2>6, <2>7
<1> QED
  BY <1>2, <1>4 DEF DeviceInv

LEMMA HidScanKeeps ==
  ASSUME DeviceAssumption, DeviceInv, HidScan
  PROVE  DeviceInv'
<1>1. UNCHANGED <<device, files, interfaces, bos, event_idx, session, replayed, freed>>
  BY DEF HidScan
<1>2. DeviceOK' /\ FileOK'
  BY <1>1, DeviceKept, FileKept DEF DeviceInv
<1>3. \/ UNCHANGED <<events, inflight>> /\ hid' \in {hid, [hid EXCEPT !.valid = TRUE]}
      \/ UNCHANGED <<hid, inflight>> /\ \E e : events' = Recorded(e)
      \/ UNCHANGED hid /\ \E r, n, size : /\ events' = Recorded(NewEvent(r))
                                          /\ inflight' = Submitted(r, 0, n, size)
  BY Zenon DEF HidScan, Fail
<1>8. disturbed' \in BOOLEAN
  BY DEF HidScan, Fail, DeviceInv, CachesOK
<1>4. CachesOK'
  BY <1>1, <1>3, <1>8 DEF DeviceInv, CachesOK, IsCache
<1>5. Len(events) \in Nat
  BY DEF DeviceInv, EventsOK, IsSeq
<1>6. EventsOK' /\ Len(events') \in {Len(events), Len(events) + 1}
  BY <1>1, <1>3, <1>5, EventsKept, RecordKeepsEvents, SubmitKeepsEvents DEF DeviceInv
<1>7. SessionOK'
  BY <1>1, <1>5, <1>6 DEF DeviceInv, SessionOK, IsHistory, IsSeq
<1> QED
  BY <1>2, <1>4, <1>6, <1>7 DEF DeviceInv

-----------------------------------------------------------------------------
(* The file and the handle.                                                *)

LEMMA SaveReturnKeeps ==
  ASSUME DeviceAssumption, NullIsNoSequence, DeviceInv, SaveReturn
  PROVE  DeviceInv'
<1>1. UNCHANGED <<device, bos, hid, disturbed, recording>> /\ saved' = session
  BY DEF SaveReturn
<1>2. DeviceOK' /\ EventsOK' /\ SessionOK'
  BY <1>1, DeviceKept, RecordingKept DEF DeviceInv
<1>3. PICK list, b, h : /\ FetchInterfaces(list)
                        /\ file' = SaveDevice([Identity EXCEPT !.events = events], b, h, list)
  BY DEF SaveReturn
<1>4. CachesOK'
  BY <1>1, <1>3, FetchKeeps DEF DeviceInv, CachesOK, IsCache
<1>5. IsSeq(events) /\ IsHistory(session, Len(events))
  BY DEF DeviceInv, EventsOK, SessionOK
<1> DEFINE es == LoadDevice(file', Null).events
<1>6. IsSeq(es) /\ Len(es) = Len(events)
  BY <1>3, <1>5, SavedEventsLoad
<1>7. IsHistory(saved', Len(es))
  BY <1>1, <1>5, <1>6
<1>8. FileOK'
  BY <1>6, <1>7 DEF FileOK
<1> QED
  BY <1>2, <1>4, <1>8 DEF DeviceInv

LEMMA LoadKeeps ==
  ASSUME DeviceAssumption, DeviceInv, Load
  PROVE  DeviceInv'
<1> DEFINE d == LoadDevice(file, Null)
<1>1. file # Null /\ IsSeq(d.events) /\ IsHistory(saved, Len(d.events))
  BY DEF DeviceInv, FileOK, Load
<1>2. /\ real' = FALSE /\ open' = FALSE /\ UNCHANGED <<plan, config, files, disturbed, freed>>
      /\ interfaces' = [list |-> d.interfaces, valid |-> TRUE]
      /\ bos' = [list |-> d.bos, valid |-> TRUE]
      /\ hid' = [list |-> d.hid, valid |-> TRUE]
      /\ events' = d.events /\ event_idx' = 0 /\ inflight' = <<>>
      /\ session' = saved /\ replayed' = 0
  BY DEF Load
<1> HIDE DEF d
<1>3. DeviceOK' /\ FileOK'
  BY <1>2, FileKept DEF DeviceInv, DeviceOK
<1>4. CachesOK'
  BY <1>2 DEF DeviceInv, CachesOK, IsCache
<1>5. EventsOK'
  BY <1>1, <1>2 DEF DeviceInv, EventsOK, AllOwned, IsSeq
<1>6. SessionOK'
  BY <1>1, <1>2 DEF SessionOK, IsHistory, IsSeq
<1> QED
  BY <1>3, <1>4, <1>5, <1>6 DEF DeviceInv

LEMMA ReplacementsKeep ==
  ASSUME DeviceAssumption, DeviceInv, ClearEvents \/ LoadEvents
  PROVE  DeviceInv'
<1>1. CASE ClearEvents
  <2>1. IsSeq(<<>>) /\ IsHistory(<<>>, Len(<<>>))
    BY DEF IsSeq, IsHistory
  <2> QED
    BY <1>1, <2>1, ReplaceEventsKeeps DEF ClearEvents
<1>2. CASE LoadEvents
  <2> DEFINE es == LoadDevice(file, Null).events
  <2>1. IsSeq(es) /\ IsHistory(saved, Len(es)) /\ ReplaceEvents(es, saved)
    BY <1>2 DEF LoadEvents, DeviceInv, FileOK
  <2> HIDE DEF es
  <2> QED
    BY <2>1, ReplaceEventsKeeps
<1> QED
  BY <1>1, <1>2

LEMMA HandleKeeps ==
  ASSUME DeviceAssumption, DeviceInv,
         Open \/ Close \/ \E c \in DOMAIN Hardware : SetConfiguration(c)
  PROVE  DeviceInv'
<1>1. UNCHANGED <<caches, files, events, event_idx, session, replayed, freed>>
  BY DEF Open, Close, SetConfiguration, recording
<1>2. CachesOK' /\ FileOK' /\ SessionOK'
  BY <1>1, CachesKept, FileKept, SessionKept DEF DeviceInv
<1>3. DeviceOK'
  BY DEF DeviceInv, DeviceOK, Open, Close, SetConfiguration
<1>4. inflight' \in {inflight, <<>>}
  BY DEF Open, Close, SetConfiguration, recording
<1>5. EventsOK'
  <2>1. CASE inflight' = inflight
    BY <1>1, <2>1, EventsKept DEF DeviceInv
  <2>2. CASE inflight' = <<>>
    BY <1>1, <2>2 DEF DeviceInv, EventsOK, AllOwned, IsSeq
  <2> QED
    BY <1>4, <2>1, <2>2
<1> QED
  BY <1>2, <1>3, <1>5 DEF DeviceInv

-----------------------------------------------------------------------------
(* The theorems.                                                           *)

LEMMA InitInv ==
  ASSUME DeviceAssumption, Init
  PROVE  DeviceInv
<1>1. DeviceOK
  BY DEF DeviceAssumption, PlanType, Init, DeviceOK
<1>2. CachesOK
  BY DEF Init, Empty, CachesOK, IsCache
<1>5. freed \in BOOLEAN
  BY DEF Init
<1>3. EventsOK /\ SessionOK
  BY <1>5 DEF Init, EventsOK, SessionOK, IsHistory, AllOwned, IsSeq
<1>4. FileOK
  BY DEF Init, FileOK
<1> QED
  BY <1>1, <1>2, <1>3, <1>4 DEF DeviceInv

LEMMA NextInv ==
  ASSUME DeviceAssumption, NullIsNoSequence, DeviceInv, [Next]_vars
  PROVE  DeviceInv'
<1>1. ASSUME NEW r \in Requests, Ask(r)
      PROVE  DeviceInv'
  BY <1>1, AskKeeps
<1>2. ASSUME NEW i \in DOMAIN inflight,
             HidTransferCb(i) \/ \E cancelled \in BOOLEAN : TransferCb(i, cancelled)
      PROVE  DeviceInv'
  BY <1>2, HidTransferCbKeeps, TransferCbKeeps
<1>3. CASE ReplayNext
  BY <1>3, ReplayNextKeeps
<1>4. CASE ClearEvents \/ LoadEvents
  BY <1>4, ReplacementsKeep
<1>5. CASE GetInterface \/ GetBosDescriptors \/ Invalidate \/ GetHidDescriptors \/ HidStart
           \/ HidAnswer \/ HidReturn \/ Save
  BY <1>5, QueriesKeep
<1>6. CASE HidScan
  BY <1>6, HidScanKeeps
<1>7. CASE SaveReturn
  BY <1>7, SaveReturnKeeps
<1>8. CASE Load
  BY <1>8, LoadKeeps
<1>9. CASE Open \/ Close \/ \E c \in DOMAIN Hardware : SetConfiguration(c)
  BY <1>9, HandleKeeps
<1>10. CASE UNCHANGED vars
  BY <1>10, DeviceKept, CachesKept, RecordingKept, FileKept DEF vars, DeviceInv
<1> QED
  BY <1>1, <1>2, <1>3, <1>4, <1>5, <1>6, <1>7, <1>8, <1>9, <1>10 DEF Next

LEMMA InvImplies ==
  ASSUME DeviceInv
  PROVE  TypeOK /\ EventOwned
<1>1. TypeOK
  BY DEF DeviceInv, DeviceOK, CachesOK, IsCache, EventsOK, SessionOK, IsHistory, TypeOK
<1>2. EventOwned
  BY DEF DeviceInv, EventsOK, AllOwned, Owned, EventOwned
<1> QED
  BY <1>1, <1>2

LEMMA SpecInv ==
  ASSUME NullIsNoSequence
  PROVE  Spec => []DeviceInv
<1>1. Init => DeviceInv
  BY InitInv, DeviceAssumption
<1>2. DeviceInv /\ [Next]_vars => DeviceInv'
  BY NextInv, DeviceAssumption
<1> QED
  BY <1>1, <1>2, PTL DEF Spec

\* Every request in flight points to an event that is there or that is known to be
\* gone, and load_event never stops behind the last event, whatever is cleared, saved
\* and loaded while transfers are in flight.
THEOREM DeviceTypes ==
  ASSUME NullIsNoSequence
  PROVE  Spec => []TypeOK
BY SpecInv, InvImplies, PTL

\* The event that g_usb_device_save_event made for a transfer has the key of its
\* request and is its own as long as it is not freed, for any number of transfers in
\* flight and also when callbacks write through pointers to events that were; and it
\* stays as it was made until the callback if there were none.
THEOREM EventsOwned ==
  ASSUME NullIsNoSequence
  PROVE  Spec => []EventOwned
BY SpecInv, InvImplies, PTL

=============================================================================
