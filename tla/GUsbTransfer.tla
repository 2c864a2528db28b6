----------------------------- MODULE GUsbTransfer -----------------------------
(***************************************************************************)
(* Transfers of a GUsbDevice that is plugged in (src/gusb/gusb-device.c):  *)
(* control, bulk and interrupt transfers, asynchronous or wrapped in a     *)
(* main loop, with cancellation, event recording and a close under way.    *)
(*                                                                         *)
(* Three kinds of threads.  The main thread iterates the main context, in  *)
(* the application's loop or in the loop of a synchronous call.  The       *)
(* libusb event thread calls back when a transfer is over.  Transfers in   *)
(* Remote are started by other threads, whose tasks nevertheless complete  *)
(* in the main context.                                                    *)
(***************************************************************************)
EXTENDS Naturals, SequencesExt

CONSTANTS Transfers,
          Control,       \* control transfers, which copy the data back in the callback
          Synchronous,   \* started by the functions that wait for the result
          Remote,        \* started outside the main thread
          Cancellable,   \* have a GCancellable
          SaveEvents,    \* G_USB_CONTEXT_FLAGS_SAVE_EVENTS
          AutoOpen       \* G_USB_CONTEXT_FLAGS_AUTO_OPEN_DEVICES

ASSUME TransferAssumption ==
  /\ {Control, Synchronous, Remote, Cancellable} \subseteq SUBSET Transfers
  /\ Synchronous \cap Remote = {}
  /\ {SaveEvents, AutoOpen} \subseteq BOOLEAN

VARIABLES open,        \* priv->handle # NULL
          caller,      \* where the thread that starts the transfer is
          usb,         \* what libusb does with the transfer
          holders,     \* who holds a reference to the GTask
          req,         \* the GcmDeviceReq, freed with the last reference
          connected,   \* req->cancellable_id # 0
          cancelled,   \* g_cancellable_is_cancelled
          outcome,     \* what the task was given to return
          result,      \* what the finish function returned to the callback
          buffer,      \* the memory that the user passed in
          record,      \* what the saved event says
          calling,     \* the transfer whose callback runs in the event thread
          status,      \* its transfer->status
          written,     \* the callback is through with the event and the user's memory
          loops,       \* the synchronous calls that wait, innermost last
          misused      \* history: requests used after they were freed

callback == <<calling, status, written>>
vars == <<open, caller, usb, holders, req, connected, cancelled, outcome, result, buffer,
          record, callback, loops, misused>>

None == "none"

\* The types; a cancellable that is connected points to a request that lives.
TypeOK ==
  /\ open \in BOOLEAN
  /\ caller \in [Transfers -> {None, "submitted", "returned"}]
  /\ usb \in [Transfers -> {None, "inflight", "cancelling", "over", "forgotten"}]
  /\ holders \in [Transfers -> SUBSET {"libusb", "context"}]
  /\ req \in [Transfers -> {None, "live", "freed"}]
  /\ {connected, cancelled} \subseteq [Transfers -> BOOLEAN]
  /\ outcome \in [Transfers -> {None, "ok", "failed", "cancelled"}]
  /\ result \in [Transfers -> {None, "ok", "failed", "cancelled"}]
  /\ buffer \in [Transfers -> {"old", "new"}]
  /\ record \in [Transfers -> {None, "blank", "rc", "status", "bytes"}]
  /\ calling \in Transfers \cup {None}
  /\ status \in {None, "ok", "failed", "cancelled"}
  /\ written \in BOOLEAN
  /\ loops \in Seq(Synchronous)
  /\ misused \subseteq Transfers
  /\ \A t \in Transfers : connected[t] => req[t] = "live"

\* The context opens the device itself, or the application does later.
Init ==
  /\ open = AutoOpen
  /\ caller = [t \in Transfers |-> None]
  /\ usb = [t \in Transfers |-> None]
  /\ holders = [t \in Transfers |-> {}]
  /\ req = [t \in Transfers |-> None]
  /\ connected = [t \in Transfers |-> FALSE]
  /\ cancelled = [t \in Transfers |-> FALSE]
  /\ outcome = [t \in Transfers |-> None]
  /\ result = [t \in Transfers |-> None]
  /\ buffer = [t \in Transfers |-> "old"]
  /\ record = [t \in Transfers |-> None]
  /\ calling = None /\ status = None /\ written = FALSE
  /\ loops = <<>>
  /\ misused = {}

-----------------------------------------------------------------------------
(* The task and its request.                                               *)

InFlight(t) == usb[t] \in {"inflight", "cancelling"}

\* The main thread is not inside one of the functions that start a transfer.
MainIdle == \A t \in Transfers \ Remote : caller[t] # "submitted"

\* Mutant of Unref: the request is freed without g_cancellable_disconnect.
UnrefConnected(t, holder) ==
  /\ holders' = [holders EXCEPT ![t] = @ \ {holder}]
  /\ req' = [req EXCEPT ![t] = IF @ = "live" /\ holders[t] \subseteq {holder} THEN "freed" ELSE @]
  /\ UNCHANGED connected

\* A reference goes; the last one frees the request and disconnects it.
Unref(t, holder) ==
  /\ holders' = [holders EXCEPT ![t] = @ \ {holder}]
  /\ IF holders[t] \subseteq {holder}
     THEN /\ req' = [req EXCEPT ![t] = IF @ = "live" THEN "freed" ELSE @]
          /\ connected' = [connected EXCEPT ![t] = FALSE]
     ELSE UNCHANGED <<req, connected>>

\* What save_event appends, if events are saved.
Saved(what) == IF SaveEvents THEN what ELSE None

-----------------------------------------------------------------------------
(* Starting a transfer.                                                    *)

\* The part common to the ways it may go: a synchronous call waits in a loop.
Start(t) ==
  /\ caller[t] = None
  /\ t \in Remote \/ MainIdle
  /\ loops' = IF t \in Synchronous THEN Append(loops, t) ELSE loops
  /\ UNCHANGED <<open, buffer, callback, misused, cancelled, connected, result>>

\* Errors are returned through the main context, which holds the task.
StartNotOpen(t) ==
  /\ ~open
  /\ Start(t)
  /\ caller' = [caller EXCEPT ![t] = "returned"]
  /\ outcome' = [outcome EXCEPT ![t] = "failed"]
  /\ holders' = [holders EXCEPT ![t] = {"context"}]
  /\ UNCHANGED <<usb, req, record>>

\* The event is saved before the cancellable is looked at.
StartCancelled(t) ==
  /\ open /\ cancelled[t]
  /\ Start(t)
  /\ caller' = [caller EXCEPT ![t] = "returned"]
  /\ outcome' = [outcome EXCEPT ![t] = "cancelled"]
  /\ holders' = [holders EXCEPT ![t] = {"context"}]
  /\ req' = [req EXCEPT ![t] = "live"]
  /\ record' = [record EXCEPT ![t] = Saved("blank")]
  /\ UNCHANGED usb

Submit(t) ==
  /\ open /\ ~cancelled[t]
  /\ Start(t)
  /\ caller' = [caller EXCEPT ![t] = "submitted"]
  /\ usb' = [usb EXCEPT ![t] = "inflight"]
  /\ holders' = [holders EXCEPT ![t] = {"libusb"}]
  /\ req' = [req EXCEPT ![t] = "live"]
  /\ record' = [record EXCEPT ![t] = Saved("blank")]
  /\ UNCHANGED outcome

\* Mutant of SubmitFails: the error is recorded and not returned.
SubmitFailsSilent(t) ==
  /\ open /\ ~cancelled[t]
  /\ Start(t)
  /\ caller' = [caller EXCEPT ![t] = "submitted"]
  /\ holders' = [holders EXCEPT ![t] = {"libusb"}]
  /\ req' = [req EXCEPT ![t] = "live"]
  /\ record' = [record EXCEPT ![t] = Saved("rc")]
  /\ UNCHANGED <<usb, outcome>>

\* libusb_submit_transfer fails; the function goes on all the same.
SubmitFails(t) ==
  /\ open /\ ~cancelled[t]
  /\ Start(t)
  /\ caller' = [caller EXCEPT ![t] = "submitted"]
  /\ outcome' = [outcome EXCEPT ![t] = "failed"]
  /\ holders' = [holders EXCEPT ![t] = {"context"}]
  /\ req' = [req EXCEPT ![t] = "live"]
  /\ record' = [record EXCEPT ![t] = Saved("rc")]
  /\ UNCHANGED usb

\* libusb_cancel_transfer finds only what is in flight.
CancelTransfer(t) ==
  usb' = [usb EXCEPT ![t] = IF @ = "inflight" THEN "cancelling" ELSE @]

\* Mutant of Connect: a cancellable that was cancelled meanwhile is only noted.
ConnectDeaf(t) ==
  /\ caller[t] = "submitted"
  /\ caller' = [caller EXCEPT ![t] = "returned"]
  /\ connected' = [connected EXCEPT ![t] = t \in Cancellable /\ req[t] = "live"]
  /\ misused' = misused \cup (IF t \in Cancellable /\ req[t] = "freed" THEN {t} ELSE {})
  /\ UNCHANGED <<open, usb, holders, req, cancelled, outcome, result, buffer, record, callback, loops>>

\* The cancellable is connected after the submission; g_cancellable_connect calls
\* back at once, and connects nothing, if it was cancelled meanwhile.
Connect(t) ==
  /\ caller[t] = "submitted"
  /\ caller' = [caller EXCEPT ![t] = "returned"]
  /\ \/ t \notin Cancellable
        /\ UNCHANGED <<usb, connected, misused>>
     \/ t \in Cancellable /\ req[t] = "freed"
        /\ misused' = misused \cup {t}
        /\ UNCHANGED <<usb, connected>>
     \/ t \in Cancellable /\ req[t] = "live" /\ cancelled[t]
        /\ CancelTransfer(t)
        /\ UNCHANGED <<connected, misused>>
     \/ t \in Cancellable /\ req[t] = "live" /\ ~cancelled[t]
        /\ connected' = [connected EXCEPT ![t] = TRUE]
        /\ UNCHANGED <<usb, misused>>
  /\ UNCHANGED <<open, holders, req, cancelled, outcome, result, buffer, record, callback, loops>>

-----------------------------------------------------------------------------
(* The event thread.                                                       *)

\* libusb writes what it receives to the memory of a bulk or interrupt transfer,
\* even if the transfer fails after it; a control transfer has memory of its own.
Received(t, s) ==
  \E data \in {"old", "new"} :
    /\ buffer' = [buffer EXCEPT ![t] = data]
    /\ t \in Control => data = buffer[t]
    /\ t \notin Control /\ s = "ok" => data = "new"

\* libusb is through with the transfer and calls back; it reports it as cancelled
\* only after it was asked to.
Complete(t, s) ==
  /\ InFlight(t) /\ calling = None
  /\ s = "cancelled" => usb[t] = "cancelling"
  /\ usb' = [usb EXCEPT ![t] = "over"]
  /\ calling' = t /\ status' = s /\ written' = FALSE
  /\ Received(t, s)
  /\ UNCHANGED <<open, caller, holders, req, connected, cancelled, outcome, result, record, loops,
                 misused>>

\* The callback copies the data of a control transfer and records what happened.
TransferCb ==
  /\ calling # None /\ ~written
  /\ buffer' = [buffer EXCEPT ![calling] = IF calling \in Control /\ status = "ok" THEN "new" ELSE @]
  /\ record' = [record EXCEPT ![calling] = Saved(IF status = "ok" THEN "bytes" ELSE "status")]
  /\ written' = TRUE
  /\ UNCHANGED <<open, caller, usb, holders, req, connected, cancelled, outcome, result, calling,
                 status, loops, misused>>

\* Mutant of TransferCbAnswer: the task is returned before the event is written.
TransferCbAnswerFirst ==
  /\ calling # None /\ outcome[calling] = None
  /\ outcome' = [outcome EXCEPT ![calling] = status]
  /\ holders' = [holders EXCEPT ![calling] = @ \cup {"context"}]
  /\ UNCHANGED <<open, caller, usb, req, connected, cancelled, result, buffer, record, callback,
                 loops, misused>>

\* Then g_task_return_* queues the task in the main context.
TransferCbAnswer ==
  /\ calling # None /\ written /\ outcome[calling] = None
  /\ outcome' = [outcome EXCEPT ![calling] = status]
  /\ holders' = [holders EXCEPT ![calling] = @ \cup {"context"}]
  /\ UNCHANGED <<open, caller, usb, req, connected, cancelled, result, buffer, record, callback,
                 loops, misused>>

\* The reference that was made for libusb goes last.
TransferCbReturn ==
  /\ calling # None /\ written /\ outcome[calling] # None
  /\ calling' = None /\ status' = None /\ written' = FALSE
  /\ Unref(calling, "libusb")
  /\ UNCHANGED <<open, caller, usb, cancelled, outcome, result, buffer, record, loops, misused>>

-----------------------------------------------------------------------------
(* The main thread.                                                        *)

\* The main context runs the callback, which calls the finish function; a GTask
\* with a cancellable that is cancelled reports that, whatever it was given to
\* return; the one that reports a device that is not open has none.
Dispatch(t) ==
  /\ MainIdle
  /\ outcome[t] # None /\ result[t] = None
  /\ result' = [result EXCEPT ![t] = IF cancelled[t] /\ req[t] # None THEN "cancelled" ELSE outcome[t]]
  /\ Unref(t, "context")
  /\ UNCHANGED <<open, caller, usb, cancelled, outcome, buffer, record, callback, loops, misused>>

\* Mutant of SyncReturn: the callback quits the loop only after a success.
SyncReturnOnSuccess ==
  /\ MainIdle /\ loops # <<>> /\ result[Last(loops)] = "ok"
  /\ loops' = Front(loops)
  /\ UNCHANGED <<open, caller, usb, holders, req, connected, cancelled, outcome, result, buffer,
                 record, callback, misused>>

\* The callback of a synchronous call quits its loop, which returns when it is the
\* innermost one.
SyncReturn ==
  /\ MainIdle /\ loops # <<>> /\ result[Last(loops)] # None
  /\ loops' = Front(loops)
  /\ UNCHANGED <<open, caller, usb, holders, req, connected, cancelled, outcome, result, buffer,
                 record, callback, misused>>

\* g_cancellable_cancel, from any thread.
Cancel(t) ==
  /\ t \in Cancellable /\ ~cancelled[t]
  /\ cancelled' = [cancelled EXCEPT ![t] = TRUE]
  /\ \/ connected[t] /\ req[t] = "freed"
        /\ misused' = misused \cup {t}
        /\ UNCHANGED usb
     \/ connected[t] /\ req[t] = "live"
        /\ CancelTransfer(t)
        /\ UNCHANGED misused
     \/ ~connected[t]
        /\ UNCHANGED <<usb, misused>>
  /\ UNCHANGED <<open, caller, holders, req, connected, outcome, result, buffer, record, callback,
                 loops>>

\* g_usb_device_open; if libusb_open fails nothing changes.
Open ==
  /\ ~open /\ ~AutoOpen /\ MainIdle
  /\ open' = TRUE
  /\ UNCHANGED <<caller, usb, holders, req, connected, cancelled, outcome, result, buffer, record,
                 callback, loops, misused>>

\* libusb_close waits for the event thread and forgets what is in flight: those
\* transfers are never called back.  A device that is opened automatically stays
\* open.
Close ==
  /\ open /\ ~AutoOpen /\ MainIdle /\ calling = None
  /\ open' = FALSE
  /\ usb' = [t \in Transfers |-> IF InFlight(t) THEN "forgotten" ELSE usb[t]]
  /\ UNCHANGED <<caller, holders, req, connected, cancelled, outcome, result, buffer, record,
                 callback, loops, misused>>

-----------------------------------------------------------------------------
(* The specification.                                                      *)

Begin(t) == StartNotOpen(t) \/ StartCancelled(t) \/ Submit(t) \/ SubmitFails(t)

Done(t) == \E s \in {"ok", "failed", "cancelled"} : Complete(t, s)

Next ==
  \/ \E t \in Transfers : Begin(t) \/ Connect(t) \/ Done(t) \/ Dispatch(t) \/ Cancel(t)
  \/ TransferCb \/ TransferCbAnswer \/ TransferCbReturn
  \/ SyncReturn
  \/ Open
  \/ Close

\* Every thread goes on; a transfer is over at last because it has a timeout (one
\* with timeout 0 may take for ever).  Nobody has to start, cancel or close.
Fairness ==
  /\ \A t \in Transfers : WF_vars(Connect(t)) /\ WF_vars(Done(t)) /\ WF_vars(Dispatch(t))
  /\ WF_vars(TransferCb) /\ WF_vars(TransferCbAnswer) /\ WF_vars(TransferCbReturn)
  /\ WF_vars(SyncReturn)

Spec == Init /\ [][Next]_vars /\ Fairness

-----------------------------------------------------------------------------
(* Properties.                                                             *)

\* A request is never used after it was freed with its task, although its last
\* reference may go in either thread while the cancellable is connected, unless
\* the transfer is started outside the thread that completes it: there
\* g_usb_device_*_transfer_async may connect the cancellable of a request that
\* the other threads are through with.
RequestLive == misused \subseteq Remote

\* When the application is told the result, nothing writes to its memory any
\* more, the data of a success are in it and in the saved event, a failed control
\* transfer left it alone, and the saved event says what happened unless the
\* transfer was cancelled before it was submitted.
AnswerIsComplete ==
  \A t \in Transfers : result[t] # None =>
    /\ ~InFlight(t)
    /\ result[t] = "ok" => buffer[t] = "new" /\ record[t] = Saved("bytes")
    /\ result[t] = "failed" /\ t \in Control => buffer[t] = "old"
    /\ record[t] = "blank" => usb[t] = None

\* Whenever the cancellable is cancelled, before, during or after the submission,
\* libusb is asked to cancel what it still has once the function returned.
CancelReaches ==
  \A t \in Cancellable : cancelled[t] /\ caller[t] = "returned" => usb[t] # "inflight"

\* Every transfer that is started is answered, unless the device is closed over it.
Answered ==
  \A t \in Transfers : caller[t] # None ~> result[t] # None \/ usb[t] = "forgotten"

\* A synchronous call returns, whatever runs in its loop, unless the device is
\* closed over a transfer that it or a call inside it waits for.
SyncReturns ==
  \A t \in Synchronous :
    t \in ToSet(loops) ~> t \notin ToSet(loops) \/ \E u \in ToSet(loops) : usb[u] = "forgotten"

\* g_usb_device_control_transfer, timeout: how long "this function should wait
\* before giving up due to no response being received".
SyncGivesUp == \A t \in Synchronous : t \in ToSet(loops) ~> t \notin ToSet(loops)

=============================================================================
