------------------------- MODULE GUsbTransfer_proofs -------------------------
(***************************************************************************)
(* Proofs about GUsbTransfer, for every set of transfers of any kinds,     *)
(* started by any threads.                                                 *)
(***************************************************************************)
EXTENDS GUsbTransfer, SequenceLemmas, TLAPS

-----------------------------------------------------------------------------
(* The invariant.                                                          *)

\* Who holds the task when: libusb until its callback answered, the main context
\* while there is an outcome to tell.  A request is freed with the last
\* of them, which outlives the function that starts the transfer, unless that
\* runs in another thread.
HoldersOK(t) ==
  /\ caller[t] = None => usb[t] = None /\ outcome[t] = None /\ result[t] = None
                         /\ req[t] = None /\ ~connected[t] /\ buffer[t] = "old"
  /\ InFlight(t) \/ (usb[t] = "over" /\ outcome[t] = None) => "libusb" \in holders[t]
  /\ outcome[t] # None /\ result[t] = None => "context" \in holders[t]
  /\ req[t] = "freed" => holders[t] = {}
  /\ caller[t] = "submitted" => req[t] \in {"live", "freed"}
  /\ caller[t] = "submitted" /\ t \notin Remote
       => (InFlight(t) \/ usb[t] = "over" \/ outcome[t] # None) /\ result[t] = None

\* What is known of a transfer that is over, and of one that is not.
OutcomeOK(t) ==
  /\ InFlight(t) \/ usb[t] = "forgotten" => outcome[t] = None
  /\ result[t] # None => outcome[t] # None /\ result[t] \in {outcome[t], "cancelled"}
  /\ outcome[t] = "ok" => buffer[t] = "new" /\ record[t] = Saved("bytes")
  /\ t \in Control /\ (outcome[t] \notin {None, "ok"} \/ InFlight(t)) => buffer[t] = "old"
  /\ record[t] = "blank" /\ usb[t] = "over" => outcome[t] = None

\* What is in flight, once the function returned, is connected or being cancelled.
CancelOK(t) ==
  t \in Cancellable /\ caller[t] = "returned" /\ usb[t] = "inflight"
    => connected[t] /\ ~cancelled[t]

TransferOK(t) == HoldersOK(t) /\ OutcomeOK(t) /\ CancelOK(t)

\* The callback that runs is of a transfer that is over, and answers when everything
\* is written.
CallingOK ==
  calling # None =>
    /\ usb[calling] = "over" /\ status # None
    /\ outcome[calling] # None => written
    /\ calling \notin Control /\ status = "ok" => buffer[calling] = "new"
    /\ calling \in Control /\ outcome[calling] = None =>
         buffer[calling] = IF written /\ status = "ok" THEN "new" ELSE "old"
    /\ written => record[calling] = Saved(IF status = "ok" THEN "bytes" ELSE "status")

TransferInv ==
  /\ TypeOK
  /\ RequestLive
  /\ CallingOK
  /\ \A t \in Transfers : TransferOK(t)

\* The invariant implies the properties.
LEMMA InvImplies ==
  TransferInv => TypeOK /\ RequestLive /\ AnswerIsComplete /\ CancelReaches
<1> SUFFICES ASSUME TransferInv
             PROVE  AnswerIsComplete /\ CancelReaches
  BY DEF TransferInv
<1>1. ASSUME NEW t \in Transfers, result[t] # None
      PROVE  /\ ~InFlight(t)
             /\ result[t] = "ok" => buffer[t] = "new" /\ record[t] = Saved("bytes")
             /\ result[t] = "failed" /\ t \in Control => buffer[t] = "old"
             /\ record[t] = "blank" => usb[t] = None
  <2>1. OutcomeOK(t) /\ usb[t] \in {None, "inflight", "cancelling", "over", "forgotten"}
    BY DEF TransferInv, TransferOK, TypeOK
  <2>2. outcome[t] # None /\ result[t] \in {outcome[t], "cancelled"}
    BY <1>1, <2>1 DEF OutcomeOK
  <2> QED
    BY <2>1, <2>2 DEF OutcomeOK, InFlight
<1>2. AnswerIsComplete
  BY <1>1 DEF AnswerIsComplete
<1>3. CancelReaches
  BY TransferAssumption DEF TransferInv, TransferOK, CancelOK, CancelReaches
<1> QED
  BY <1>2, <1>3

-----------------------------------------------------------------------------
(* A step that changes one transfer.                                       *)

SameFor(t) ==
  /\ caller'[t] = caller[t] /\ usb'[t] = usb[t] /\ holders'[t] = holders[t]
  /\ req'[t] = req[t] /\ connected'[t] = connected[t] /\ cancelled'[t] = cancelled[t]
  /\ outcome'[t] = outcome[t] /\ result'[t] = result[t] /\ buffer'[t] = buffer[t]
  /\ record'[t] = record[t]

Touches(t) == \A u \in Transfers \ {t} : SameFor(u)

\* What is not changed stays as the invariant says.
LEMMA SameOK ==
  ASSUME NEW t, TransferOK(t), SameFor(t)
  PROVE  TransferOK(t)'
BY DEF TransferOK, HoldersOK, OutcomeOK, CancelOK, SameFor, InFlight, Saved

\* So only the transfer that a step changes has to be looked at.
LEMMA TouchOne ==
  ASSUME TransferInv, NEW t \in Transfers, Touches(t),
         TypeOK', RequestLive', CallingOK', TransferOK(t)'
  PROVE  TransferInv'
BY SameOK DEF TransferInv, Touches

\* The callback that runs is not disturbed by what others do to other transfers.
LEMMA CallingKept ==
  ASSUME CallingOK, UNCHANGED callback,
         calling # None => /\ usb'[calling] = usb[calling] /\ outcome'[calling] = outcome[calling]
                           /\ buffer'[calling] = buffer[calling] /\ record'[calling] = record[calling]
  PROVE  CallingOK'
BY DEF CallingOK, callback, Saved

\* Dropping a reference keeps what the invariant says of the holders.
LEMMA UnrefOK ==
  ASSUME TypeOK, NEW t \in Transfers, NEW h, Unref(t, h)
  PROVE  /\ holders' \in [Transfers -> SUBSET {"libusb", "context"}]
         /\ req' \in [Transfers -> {None, "live", "freed"}]
         /\ connected' \in [Transfers -> BOOLEAN]
         /\ \A u \in Transfers \ {t} : holders'[u] = holders[u] /\ req'[u] = req[u]
                                       /\ connected'[u] = connected[u]
         /\ holders'[t] = holders[t] \ {h}
         /\ req'[t] \in {req[t], "freed"} /\ (req'[t] # req[t] => req[t] = "live")
         /\ connected'[t] = (connected[t] /\ ~(holders[t] \subseteq {h}))
         /\ req'[t] = "freed" => req[t] = "freed" \/ holders'[t] = {}
         /\ holders'[t] = {} => req'[t] # "live"
         /\ holders'[t] # {} => req'[t] = req[t] /\ connected'[t] = connected[t]
<1>1. /\ holders \in [Transfers -> SUBSET {"libusb", "context"}]
      /\ req \in [Transfers -> {None, "live", "freed"}]
      /\ connected \in [Transfers -> BOOLEAN]
  BY DEF TypeOK
<1>2. CASE holders[t] \subseteq {h}
  BY <1>1, <1>2 DEF Unref, None
<1>3. CASE ~(holders[t] \subseteq {h})
  BY <1>1, <1>3 DEF Unref, None
<1> QED
  BY <1>2, <1>3

-----------------------------------------------------------------------------
(* The steps, one lemma each.                                              *)

\* Beginning a transfer keeps the invariant.
LEMMA BeginStep ==
  ASSUME TransferInv, NEW t \in Transfers, Begin(t)
  PROVE  TransferInv'
<1>1. TypeOK /\ RequestLive /\ CallingOK /\ TransferOK(t)
  BY DEF TransferInv
<1>2. TypeOK'
  <2>1. CASE StartNotOpen(t)
    BY <1>1, <2>1 DEF TypeOK, TransferOK, HoldersOK, None, Start, StartNotOpen, callback
  <2>2. CASE StartCancelled(t)
    BY <1>1, <2>2 DEF TypeOK, TransferOK, HoldersOK, None, Start, StartCancelled, Saved, callback
  <2>3. CASE Submit(t)
    BY <1>1, <2>3 DEF TypeOK, TransferOK, HoldersOK, None, Start, Submit, Saved, callback
  <2>4. CASE SubmitFails(t)
    BY <1>1, <2>4 DEF TypeOK, TransferOK, HoldersOK, None, Start, SubmitFails, Saved, callback
  <2> QED
    BY <2>1, <2>2, <2>3, <2>4 DEF Begin
<1>3. RequestLive' /\ CallingOK'
  <2>1. UNCHANGED <<callback, misused>> /\ caller[t] = None
    BY DEF Begin, Start, StartNotOpen, StartCancelled, Submit, SubmitFails, callback
  <2>2. usb[t] = None
    BY <1>1, <2>1 DEF TransferOK, HoldersOK
  <2>3. calling # None => /\ usb'[calling] = usb[calling] /\ outcome'[calling] = outcome[calling]
                          /\ buffer'[calling] = buffer[calling] /\ record'[calling] = record[calling]
    BY <1>1, <2>2 DEF TypeOK, CallingOK, None,
           Begin, Start, StartNotOpen, StartCancelled, Submit, SubmitFails, Saved
  <2> QED
    BY <1>1, <2>1, <2>3, CallingKept DEF RequestLive
<1>4. Touches(t)
  BY <1>1 DEF TypeOK, Touches, SameFor,
         Begin, Start, StartNotOpen, StartCancelled, Submit, SubmitFails, Saved
<1>5. TransferOK(t)'
  BY <1>1 DEF TypeOK, TransferOK, HoldersOK, OutcomeOK, CancelOK, InFlight, None,
         Begin, Start, StartNotOpen, StartCancelled, Submit, SubmitFails, Saved
<1> QED
  BY <1>2, <1>3, <1>4, <1>5, TouchOne

\* So does connecting the cancellable.
LEMMA ConnectStep ==
  ASSUME TransferInv, NEW t \in Transfers, Connect(t)
  PROVE  TransferInv'
<1>1. TypeOK /\ RequestLive /\ CallingOK /\ TransferOK(t)
  BY DEF TransferInv
<1>2. TypeOK'
  <2>1. /\ caller' \in [Transfers -> {None, "submitted", "returned"}]
        /\ misused' \subseteq Transfers
    BY <1>1 DEF TypeOK, Connect
  <2>2. usb' \in [Transfers -> {None, "inflight", "cancelling", "over", "forgotten"}]
    BY <1>1 DEF TypeOK, Connect, CancelTransfer
  <2>3. /\ connected' \in [Transfers -> BOOLEAN]
        /\ \A u \in Transfers : connected'[u] => req'[u] = "live"
    <3>1. connected' = connected \/ (req[t] = "live" /\ connected' = [connected EXCEPT ![t] = TRUE])
      BY DEF Connect
    <3>2. /\ req' = req /\ connected \in [Transfers -> BOOLEAN]
          /\ \A u \in Transfers : connected[u] => req[u] = "live"
      BY <1>1 DEF TypeOK, Connect
    <3> QED
      BY <3>1, <3>2
  <2> QED
    BY <1>1, <2>1, <2>2, <2>3 DEF TypeOK, Connect, callback
<1>3. RequestLive'
  BY <1>1 DEF TypeOK, RequestLive, TransferOK, HoldersOK, OutcomeOK, InFlight, None, Connect, CancelTransfer
<1>6. CallingOK'
  <2>1. UNCHANGED <<callback, outcome, buffer, record>>
    BY DEF Connect
  <2>2. calling # None => usb'[calling] = usb[calling]
    BY <1>1 DEF TypeOK, CallingOK, Connect, CancelTransfer
  <2> QED
    BY <1>1, <2>1, <2>2, CallingKept
<1>4. Touches(t)
  BY <1>1 DEF TypeOK, Touches, SameFor, Connect, CancelTransfer
<1>5. TransferOK(t)'
  BY <1>1 DEF TypeOK, TransferOK, HoldersOK, OutcomeOK, CancelOK, InFlight, Saved, None,
         Connect, CancelTransfer
<1> QED
  BY <1>2, <1>3, <1>4, <1>5, <1>6, TouchOne

\* So does the end of a transfer.
LEMMA CompleteStep ==
  ASSUME TransferInv, NEW t \in Transfers, NEW s \in {"ok", "failed", "cancelled"},
         Complete(t, s)
  PROVE  TransferInv'
<1>1. TypeOK /\ RequestLive /\ CallingOK /\ TransferOK(t)
  BY DEF TransferInv
<1>2. TypeOK'
  <2>1. usb' \in [Transfers -> {None, "inflight", "cancelling", "over", "forgotten"}]
    BY <1>1 DEF TypeOK, Complete
  <2>2. buffer' \in [Transfers -> {"old", "new"}]
    BY <1>1 DEF TypeOK, Complete, Received
  <2>3. /\ calling' \in Transfers \cup {None} /\ written' \in BOOLEAN
        /\ status' \in {None, "ok", "failed", "cancelled"}
    BY DEF Complete
  <2> QED
    BY <1>1, <2>1, <2>2, <2>3 DEF TypeOK, Complete
<1>3. outcome[t] = None /\ (t \in Control => buffer[t] = "old")
  BY <1>1 DEF Complete, TransferOK, OutcomeOK
<1>4. RequestLive' /\ CallingOK'
  BY <1>1, <1>3 DEF TypeOK, RequestLive, CallingOK, None, Complete, Received
<1>5. Touches(t)
  BY <1>1 DEF TypeOK, Touches, SameFor, Complete, Received
<1>6. TransferOK(t)'
  BY <1>1, <1>3 DEF TypeOK, TransferOK, HoldersOK, OutcomeOK, CancelOK, InFlight, None,
         Complete, Received, Saved
<1> QED
  BY <1>2, <1>4, <1>5, <1>6, TouchOne

\* So does the callback, which writes the event before it answers.
LEMMA TransferCbStep ==
  ASSUME TransferInv, TransferCb
  PROVE  TransferInv'
<1>0. PICK t \in Transfers : t = calling
  BY DEF TransferInv, TypeOK, TransferCb
<1>1. TypeOK /\ RequestLive /\ CallingOK /\ TransferOK(t)
  BY DEF TransferInv
<1>2. TypeOK'
  BY <1>1 DEF TypeOK, TransferCb, Saved
<1>3. outcome[t] = None /\ usb[t] = "over"
  BY <1>0, <1>1 DEF CallingOK, TransferCb
<1>4. RequestLive' /\ CallingOK'
  BY <1>0, <1>1, <1>3 DEF TypeOK, RequestLive, CallingOK, TransferCb, Saved
<1>5. Touches(t)
  BY <1>0, <1>1 DEF TypeOK, Touches, SameFor, TransferCb
<1>6. TransferOK(t)'
  BY <1>0, <1>1, <1>3 DEF TypeOK, TransferOK, HoldersOK, OutcomeOK, CancelOK, InFlight, None,
         TransferCb, Saved
<1> QED
  BY <1>2, <1>4, <1>5, <1>6, TouchOne

\* The answer is queued when the event and the memory are as they should be.
LEMMA TransferCbAnswerStep ==
  ASSUME TransferInv, TransferCbAnswer
  PROVE  TransferInv'
<1>0. PICK t \in Transfers : t = calling
  BY DEF TransferInv, TypeOK, TransferCbAnswer
<1>1. TypeOK /\ RequestLive /\ CallingOK /\ TransferOK(t)
  BY DEF TransferInv
<1>2. TypeOK'
  BY <1>1, <1>0 DEF TypeOK, CallingOK, TransferCbAnswer, callback
<1>3. RequestLive' /\ CallingOK'
  BY <1>0, <1>1 DEF TypeOK, RequestLive, CallingOK, TransferCbAnswer, Saved, callback
<1>4. Touches(t)
  BY <1>0, <1>1 DEF TypeOK, Touches, SameFor, TransferCbAnswer
<1>5. /\ usb[t] = "over" /\ status # None /\ "libusb" \in holders[t] /\ outcome[t] = None
      /\ status = "ok" => buffer[t] = "new" /\ record[t] = Saved("bytes")
      /\ status # "ok" => record[t] = Saved("status") /\ (t \in Control => buffer[t] = "old")
  BY <1>0, <1>1 DEF CallingOK, TransferCbAnswer, TransferOK, HoldersOK
<1>6. TransferOK(t)'
  BY <1>0, <1>1, <1>5 DEF TypeOK, TransferOK, HoldersOK, OutcomeOK, CancelOK, InFlight, None,
         TransferCbAnswer, Saved
<1> QED
  BY <1>2, <1>3, <1>4, <1>6, TouchOne

\* So does a cancellation from any thread.
LEMMA CancelStep ==
  ASSUME TransferInv, NEW t \in Transfers, Cancel(t)
  PROVE  TransferInv'
<1>1. TypeOK /\ RequestLive /\ CallingOK /\ TransferOK(t)
  BY DEF TransferInv
<1>2. TypeOK'
  BY <1>1 DEF TypeOK, TransferOK, HoldersOK, None, Cancel, CancelTransfer, callback
<1>3. RequestLive'
  BY <1>1 DEF TypeOK, RequestLive, TransferOK, HoldersOK, OutcomeOK, InFlight, None, Cancel, CancelTransfer
<1>6. CallingOK'
  <2>1. UNCHANGED <<callback, outcome, buffer, record>>
    BY DEF Cancel
  <2>2. calling # None => usb'[calling] = usb[calling]
    BY <1>1 DEF TypeOK, CallingOK, Cancel, CancelTransfer
  <2> QED
    BY <1>1, <2>1, <2>2, CallingKept
<1>4. Touches(t)
  BY <1>1 DEF TypeOK, Touches, SameFor, Cancel, CancelTransfer
<1>5. TransferOK(t)'
  BY <1>1 DEF TypeOK, TransferOK, HoldersOK, OutcomeOK, CancelOK, InFlight, Saved, None,
         Cancel, CancelTransfer
<1> QED
  BY <1>2, <1>3, <1>4, <1>5, <1>6, TouchOne

\* A dispatched task loses the reference of the main context.
LEMMA DispatchStep ==
  ASSUME TransferInv, NEW t \in Transfers, Dispatch(t)
  PROVE  TransferInv'
<1>1. TypeOK /\ RequestLive /\ CallingOK /\ TransferOK(t)
  BY DEF TransferInv
<1>2. Unref(t, "context")
  BY DEF Dispatch
<1>3. /\ result' \in [Transfers -> {None, "ok", "failed", "cancelled"}]
      /\ \A u \in Transfers \ {t} : result'[u] = result[u]
      /\ result'[t] # None /\ result'[t] \in {outcome[t], "cancelled"}
  BY <1>1 DEF TypeOK, Dispatch, None
<1>4. caller[t] = "submitted" => t \in Remote
  BY DEF Dispatch, MainIdle
<1>5. \A u \in Transfers : connected'[u] => req'[u] = "live"
  <2>1. TAKE u \in Transfers
  <2>2. CASE u = t
    BY <1>1, <1>2, <2>2, UnrefOK DEF TypeOK
  <2>3. CASE u # t
    BY <1>1, <1>2, <2>3, UnrefOK DEF TypeOK
  <2> QED
    BY <2>2, <2>3
<1>6. TypeOK'
  BY <1>1, <1>2, <1>3, <1>5, UnrefOK DEF TypeOK, Dispatch, callback
<1>7. RequestLive' /\ CallingOK'
  BY <1>1, CallingKept DEF RequestLive, Dispatch
<1>8. Touches(t)
  BY <1>1, <1>2, <1>3, UnrefOK DEF Touches, SameFor, Dispatch
<1>9. TransferOK(t)'
  <2>1. caller[t] # None /\ outcome[t] # None /\ ~InFlight(t)
    BY <1>1 DEF Dispatch, TransferOK, HoldersOK, OutcomeOK
  <2>2. HoldersOK(t)'
    BY <1>1, <1>2, <1>3, <1>4, <2>1, UnrefOK
    DEF TypeOK, TransferOK, HoldersOK, Dispatch, InFlight, None
  <2>3. OutcomeOK(t)'
    BY <1>1, <1>3, <2>1 DEF TransferOK, OutcomeOK, Dispatch, InFlight, Saved
  <2>4. CancelOK(t)'
    BY <2>1 DEF CancelOK, Dispatch, InFlight
  <2> QED
    BY <2>2, <2>3, <2>4 DEF TransferOK
<1> QED
  BY <1>6, <1>7, <1>8, <1>9, TouchOne

\* The callback that returns gives up the reference made for libusb.
LEMMA TransferCbReturnStep ==
  ASSUME TransferInv, TransferCbReturn
  PROVE  TransferInv'
<1>0. PICK t \in Transfers : t = calling
  BY DEF TransferInv, TypeOK, TransferCbReturn
<1>1. TypeOK /\ RequestLive /\ CallingOK /\ TransferOK(t)
  BY DEF TransferInv
<1>2. Unref(t, "libusb") /\ usb[t] = "over"
  BY <1>0, <1>1 DEF TransferCbReturn, CallingOK
<1>5. \A u \in Transfers : connected'[u] => req'[u] = "live"
  <2>1. TAKE u \in Transfers
  <2>2. CASE u = t
    BY <1>1, <1>2, <2>2, UnrefOK DEF TypeOK
  <2>3. CASE u # t
    BY <1>1, <1>2, <2>3, UnrefOK DEF TypeOK
  <2> QED
    BY <2>2, <2>3
<1>6. TypeOK'
  <2>1. /\ calling' \in Transfers \cup {None} /\ written' \in BOOLEAN
        /\ status' \in {None, "ok", "failed", "cancelled"}
    BY DEF TransferCbReturn
  <2> QED
    BY <1>1, <1>2, <1>5, <2>1, UnrefOK DEF TypeOK, TransferCbReturn
<1>7. RequestLive' /\ CallingOK'
  BY <1>1 DEF RequestLive, CallingOK, TransferCbReturn
<1>8. Touches(t)
  BY <1>1, <1>2, UnrefOK DEF Touches, SameFor, TransferCbReturn
<1>9. TransferOK(t)'
  <2>1. caller[t] # None /\ ~InFlight(t)
    BY <1>1, <1>2 DEF TransferOK, HoldersOK, InFlight, None
  <2>2. HoldersOK(t)'
    BY <1>1, <1>2, <2>1, UnrefOK
    DEF TypeOK, TransferOK, HoldersOK, TransferCbReturn, InFlight, None
  <2>3. OutcomeOK(t)' /\ CancelOK(t)'
    BY <1>1, <1>2, <2>1
    DEF TransferOK, OutcomeOK, CancelOK, TransferCbReturn, InFlight, Saved
  <2> QED
    BY <2>2, <2>3 DEF TransferOK
<1> QED
  BY <1>6, <1>7, <1>8, <1>9, TouchOne

\* Opening the device and the return of a synchronous call touch no transfer.
LEMMA QuietStep ==
  ASSUME TransferInv, Open \/ SyncReturn \/ UNCHANGED vars
  PROVE  TransferInv'
<1>1. TypeOK /\ RequestLive /\ CallingOK /\ \A t \in Transfers : TransferOK(t)
  BY DEF TransferInv
<1>2. TypeOK'
  <2>1. CASE SyncReturn
    <3>1. loops \in Seq(Synchronous) /\ loops # <<>> /\ loops' = Front(loops)
      BY <1>1, <2>1 DEF TypeOK, SyncReturn
    <3>2. loops' \in Seq(Synchronous)
      BY <3>1, FrontIsSeq
    <3> QED
      BY <1>1, <2>1, <3>2 DEF TypeOK, SyncReturn, callback
  <2>2. CASE Open
    BY <1>1, <2>2 DEF TypeOK, Open, callback
  <2>3. CASE UNCHANGED vars
    BY <1>1, <2>3 DEF TypeOK, vars, callback
  <2> QED
    BY <2>1, <2>2, <2>3
<1>3. RequestLive' /\ CallingOK'
  BY <1>1, CallingKept DEF RequestLive, Open, SyncReturn, vars
<1>4. \A t \in Transfers : SameFor(t)
  BY DEF SameFor, Open, SyncReturn, vars
<1> QED
  BY <1>1, <1>2, <1>3, <1>4, SameOK DEF TransferInv

\* A close forgets what is in flight, while nobody submits in the main thread.
LEMMA CloseStep ==
  ASSUME TransferInv, Close
  PROVE  TransferInv'
<1>1. TypeOK /\ RequestLive /\ CallingOK /\ \A t \in Transfers : TransferOK(t)
  BY DEF TransferInv
<1>2. TypeOK'
  BY <1>1 DEF TypeOK, Close, callback
<1>3. RequestLive' /\ CallingOK'
  <2>1. UNCHANGED <<callback, outcome, buffer, record, misused>> /\ calling = None
    BY DEF Close
  <2> QED
    BY <1>1, <2>1, CallingKept DEF RequestLive
<1>4. ASSUME NEW t \in Transfers
      PROVE  TransferOK(t)'
  <2>1. TransferOK(t)
    BY <1>1
  <2>2. CASE InFlight(t)
    <3>1. usb'[t] = "forgotten"
      BY <2>2 DEF Close
    <3>2. caller[t] = "submitted" => t \in Remote
      BY DEF Close, MainIdle
    <3>3. caller[t] # None
      BY <2>1, <2>2 DEF TransferOK, HoldersOK, InFlight, None
    <3> QED
      BY <2>1, <2>2, <3>1, <3>2, <3>3
      DEF Close, TransferOK, HoldersOK, OutcomeOK, CancelOK, InFlight, Saved
  <2>3. CASE ~InFlight(t)
    <3>1. SameFor(t)
      BY <2>3 DEF Close, SameFor
    <3> QED
      BY <2>1, <3>1, SameOK
  <2> QED
    BY <2>2, <2>3
<1> QED
  BY <1>2, <1>3, <1>4 DEF TransferInv

-----------------------------------------------------------------------------
(* The theorems.                                                           *)

\* Initially nothing was started.
LEMMA TransferInit == Init => TransferInv
<1> SUFFICES ASSUME Init
             PROVE  TransferInv
  OBVIOUS
<1>1. TypeOK
  <2>1. loops \in Seq(Synchronous) /\ open \in BOOLEAN
    BY TransferAssumption DEF Init
  <2>2. /\ holders \in [Transfers -> SUBSET {"libusb", "context"}]
        /\ {connected, cancelled} \subseteq [Transfers -> BOOLEAN]
    BY DEF Init
  <2>3. /\ caller \in [Transfers -> {None, "submitted", "returned"}]
        /\ usb \in [Transfers -> {None, "inflight", "cancelling", "over", "forgotten"}]
        /\ req \in [Transfers -> {None, "live", "freed"}]
        /\ outcome \in [Transfers -> {None, "ok", "failed", "cancelled"}]
        /\ result \in [Transfers -> {None, "ok", "failed", "cancelled"}]
        /\ buffer \in [Transfers -> {"old", "new"}]
        /\ record \in [Transfers -> {None, "blank", "rc", "status", "bytes"}]
    BY DEF Init
  <2>4. \A t \in Transfers : ~connected[t]
    BY DEF Init
  <2>5. /\ calling \in Transfers \cup {None} /\ status \in {None, "ok", "failed", "cancelled"}
        /\ written \in BOOLEAN /\ misused \subseteq Transfers
    BY DEF Init
  <2> QED
    BY <2>1, <2>2, <2>3, <2>4, <2>5 DEF TypeOK
<1>2. RequestLive /\ CallingOK
  BY DEF Init, RequestLive, CallingOK
<1>3. \A t \in Transfers : TransferOK(t)
  BY DEF Init, TransferOK, HoldersOK, OutcomeOK, CancelOK, InFlight, None
<1> QED
  BY <1>1, <1>2, <1>3 DEF TransferInv

\* Every step keeps the invariant.
LEMMA TransferNext == TransferInv /\ [Next]_vars => TransferInv'
<1> SUFFICES ASSUME TransferInv, [Next]_vars
             PROVE  TransferInv'
  OBVIOUS
<1>1. ASSUME NEW t \in Transfers, Begin(t)
      PROVE  TransferInv'
  BY <1>1, BeginStep
<1>2. ASSUME NEW t \in Transfers, Connect(t)
      PROVE  TransferInv'
  BY <1>2, ConnectStep
<1>3. ASSUME NEW t \in Transfers, Done(t)
      PROVE  TransferInv'
  BY <1>3, CompleteStep DEF Done
<1>4. ASSUME NEW t \in Transfers, Dispatch(t)
      PROVE  TransferInv'
  BY <1>4, DispatchStep
<1>5. ASSUME NEW t \in Transfers, Cancel(t)
      PROVE  TransferInv'
  BY <1>5, CancelStep
<1>6. CASE TransferCb \/ TransferCbAnswer \/ TransferCbReturn
  BY <1>6, TransferCbStep, TransferCbAnswerStep, TransferCbReturnStep
<1>7. CASE Open \/ SyncReturn \/ UNCHANGED vars
  BY <1>7, QuietStep
<1>8. CASE Close
  BY <1>8, CloseStep
<1> QED
  BY <1>1, <1>2, <1>3, <1>4, <1>5, <1>6, <1>7, <1>8 DEF Next

\* For any number of transfers of any kinds: no transfer that the main thread
\* starts has its request freed while the cancellable is being connected or may
\* still call back, whichever thread drops the last reference of the task.
THEOREM RequestsLive == Spec => [](TypeOK /\ RequestLive)
<1>1. Init => TransferInv
  BY TransferInit
<1>2. TransferInv /\ [Next]_vars => TransferInv'
  BY TransferNext
<1>3. TransferInv => TypeOK /\ RequestLive
  BY InvImplies
<1> QED
  BY <1>1, <1>2, <1>3, PTL DEF Spec

\* For any number of transfers: the result that the application gets agrees with
\* the memory it passed in and with the saved event, and nothing is in flight.
THEOREM AnswersComplete == Spec => []AnswerIsComplete
<1>1. Init => TransferInv
  BY TransferInit
<1>2. TransferInv /\ [Next]_vars => TransferInv'
  BY TransferNext
<1>3. TransferInv => AnswerIsComplete
  BY InvImplies
<1> QED
  BY <1>1, <1>2, <1>3, PTL DEF Spec

\* For any number of transfers: a cancellation always reaches libusb, whether it
\* comes before, during or after the connection of the cancellable.
THEOREM CancellationsReach == Spec => []CancelReaches
<1>1. Init => TransferInv
  BY TransferInit
<1>2. TransferInv /\ [Next]_vars => TransferInv'
  BY TransferNext
<1>3. TransferInv => CancelReaches
  BY InvImplies
<1> QED
  BY <1>1, <1>2, <1>3, PTL DEF Spec

\* For any number of transfers: the types hold.
THEOREM TransferTypes == Spec => []TypeOK
<1>1. Init => TransferInv
  BY TransferInit
<1>2. TransferInv /\ [Next]_vars => TransferInv'
  BY TransferNext
<1>3. TransferInv => TypeOK
  BY InvImplies
<1> QED
  BY <1>1, <1>2, <1>3, PTL DEF Spec
=============================================================================
