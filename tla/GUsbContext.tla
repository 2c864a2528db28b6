----------------------------- MODULE GUsbContext -----------------------------
(***************************************************************************)
(* GUsbContext: the list of known devices, how it follows the bus, and the *)
(* signals it emits (src/gusb/gusb-context.c).                             *)
(*                                                                         *)
(* Two threads: the libusb event thread runs hotplug_cb, everything else   *)
(* runs in the main thread.  The main thread is single but re-entrant: a   *)
(* signal handler may iterate the main loop again (every synchronous       *)
(* transfer does) and so may wait_for_replug.  Its C stack is modelled by  *)
(* "stack", a sequence of frames with the running one last; what the code  *)
(* does between two signal emissions or two loop iterations is one step.   *)
(*                                                                         *)
(* A GUsbDevice is represented by the libusb_device it wraps.              *)
(***************************************************************************)
EXTENDS Integers, FiniteSets, Libusb, SequencesExt

CONSTANTS AddMayFail,      \* creating a device, or auto-opening it, may fail
          SaveEvents,      \* G_USB_CONTEXT_FLAGS_SAVE_EVENTS
          Reentrant,       \* signal handlers iterate the main loop or call the API
          MainCtxDefault,  \* main_ctx is g_main_context_default()
          Intervals,       \* hotplug poll intervals the application sets, in ms
          DefaultInterval, \* G_USB_CONTEXT_HOTPLUG_POLL_INTERVAL_DEFAULT
          MaxWaits,        \* bound on the calls of wait_for_replug
          MaxSources       \* bound on the poll timeouts created

ASSUME ContextAssumption ==
  /\ {AddMayFail, SaveEvents, Reentrant, MainCtxDefault} \subseteq BOOLEAN
  /\ Intervals \subseteq Nat /\ DefaultInterval \in Nat
  /\ MaxWaits \in Nat /\ MaxSources \in Nat

VARIABLES doneEnumerate,   \* priv->done_enumerate
          devices,         \* priv->devices
          devicesRemoved,  \* priv->devices_removed, the lookaside
          idleEvents,      \* priv->idle_events, guarded by idle_events_mutex
          idleQueued,      \* priv->idle_events_id # 0
          dictReplug,      \* priv->dict_replug: the frame of the helper, 0 if none
          pollId,          \* priv->hotplug_poll_id
          pollInterval,    \* priv->hotplug_poll_interval
          lastSource,      \* the last poll source id GLib handed out
          stack,           \* the main thread's frames
          waits,           \* calls of wait_for_replug so far
          announced,       \* history: device-added minus device-removed, per port
          reentered,       \* history: a source was dispatched inside a signal handler
          dropped,         \* history: devices with an event that hotplug_cb dropped
          failed           \* history: devices that could not be created or opened

listVars == <<doneEnumerate, devices, devicesRemoved, failed>>
queueVars == <<idleEvents, idleQueued, dropped>>
pollVars == <<pollId, pollInterval, lastSource>>
coreVars == <<libusbVars, listVars, queueVars, pollVars>>
vars == <<coreVars, dictReplug, stack, waits, announced, reentered>>

-----------------------------------------------------------------------------
(* Frames of the main thread.                                              *)

EnumerateFrame == [fn: {"enumerate"}, step: {"scan", "announce"}, next: Nat]
RescanFrame    == [fn: {"rescan"}, source: Nat, existing: Seq(Devs),
                   removing: SUBSET Devs, found: SUBSET Devs, fresh: SUBSET Devs]
DispatchFrame  == [fn: {"dispatch"}, batch: Seq(Message)]
HandlerFrame   == [fn: {"handler"}]
\* quit is why the helper's loop was told to quit; "over" when both the answer
\* and the timeout were dispatched before the loop returned.
ReplugFrame    == [fn: {"replug"}, pid: Ports, device: Devs, timer: BOOLEAN,
                   quit: {"no", "replugged", "timeout", "over"}]
Frame == EnumerateFrame \cup RescanFrame \cup DispatchFrame \cup HandlerFrame
           \cup ReplugFrame

Handler == [fn |-> "handler"]
Top == stack[Len(stack)]
Running(fn) == stack # <<>> /\ Top.fn = fn
Below == Front(stack)
Step(f) == [stack EXCEPT ![Len(stack)] = f]

InHandler == \E k \in DOMAIN stack : stack[k].fn = "handler"

\* The application may call the library: from its main loop, or from a handler.
InApp == stack = <<>> \/ (Running("handler") /\ Reentrant)

\* Somebody iterates the default main context, where idle_add and timeout_add
\* put their sources.
LoopRuns ==
  \/ InApp
  \/ Running("replug") /\ Top.quit = "no" /\ MainCtxDefault

ListedIn(devs) == {devs[i] : i \in DOMAIN devs}
Listed == ListedIn(devices)
AddressesOf(S) == {Address[d] : d \in S}

-----------------------------------------------------------------------------
(* Signals.  A frame st that emits one is left with the handler on top.    *)

EmitDeviceAdd(d, st) ==
  IF doneEnumerate
  THEN /\ announced' = [announced EXCEPT ![Port[d]] = @ + 1]
       /\ stack' = Append(st, Handler)
  ELSE /\ stack' = st
       /\ UNCHANGED announced

EmitDeviceRemove(d, st) ==
  IF doneEnumerate
  THEN /\ announced' = [announced EXCEPT ![Port[d]] = @ - 1]
       /\ stack' = Append(st, Handler)
  ELSE /\ stack' = st
       /\ UNCHANGED announced

\* The helper waiting for d's platform id takes d and its loop quits.
Replugged(d, st) ==
  LET k == dictReplug[Port[d]]
  IN  [st EXCEPT ![k].device = d,
                 ![k].quit = IF @ = "no" THEN "replugged" ELSE @]

\* Mutant of AddDevice: the list is not searched for the address first.
AddDeviceUnfiltered(d, st) ==
  /\ devices' = Append(devices, d)
  /\ UNCHANGED failed
  /\ IF dictReplug[Port[d]] # 0
     THEN stack' = Replugged(d, st) /\ UNCHANGED announced
     ELSE EmitDeviceAdd(d, st)

AddDevice(d, st) ==
  IF doneEnumerate /\ Address[d] \in AddressesOf(Listed)
  THEN /\ stack' = st
       /\ UNCHANGED <<devices, failed, announced>>
  ELSE \/ /\ AddMayFail
          /\ failed' = failed \cup {d}
          /\ stack' = st
          /\ UNCHANGED <<devices, announced>>
       \/ /\ devices' = Append(devices, d)
          /\ UNCHANGED failed
          /\ IF dictReplug[Port[d]] # 0
             THEN stack' = Replugged(d, st) /\ UNCHANGED announced
             ELSE EmitDeviceAdd(d, st)

\* The entry i that find_by_bus_address returns for the address a.
FoundAt(i, a) ==
  /\ Address[devices[i]] = a
  /\ \A j \in 1..(i - 1) : Address[devices[j]] # a

\* Mutant of RemoveDevice: the signal is not suppressed during a replug.
RemoveDeviceLoud(d, st) ==
  IF Address[d] \notin AddressesOf(Listed)
  THEN /\ stack' = st
       /\ UNCHANGED <<devices, devicesRemoved, announced>>
  ELSE \E i \in DOMAIN devices :
         /\ FoundAt(i, Address[d])
         /\ devicesRemoved' = devicesRemoved \cup (IF SaveEvents THEN {devices[i]} ELSE {})
         /\ devices' = RemoveAt(devices, i)
         /\ EmitDeviceRemove(devices[i], st)

\* Mutant of RemoveDevice: the newest entry goes, whatever its address.
RemoveDeviceLast(d, st) ==
  IF Address[d] \notin AddressesOf(Listed)
  THEN /\ stack' = st
       /\ UNCHANGED <<devices, devicesRemoved, announced>>
  ELSE /\ devices' = Front(devices)
       /\ UNCHANGED devicesRemoved
       /\ EmitDeviceRemove(Last(devices), st)

RemoveDevice(d, st) ==
  IF Address[d] \notin AddressesOf(Listed)
  THEN /\ stack' = st
       /\ UNCHANGED <<devices, devicesRemoved, announced>>
  ELSE \E i \in DOMAIN devices :
         LET device == devices[i]
         IN  /\ FoundAt(i, Address[d])
             /\ devicesRemoved' = devicesRemoved \cup (IF SaveEvents THEN {device} ELSE {})
             /\ devices' = RemoveAt(devices, i)
             /\ IF dictReplug[Port[device]] # 0
                THEN stack' = st /\ UNCHANGED announced
                ELSE EmitDeviceRemove(device, st)

-----------------------------------------------------------------------------
(* The libusb event thread.                                                *)

HotplugCb ==
  /\ msgs # <<>>
  /\ msgs' = Tail(msgs)
  /\ IF doneEnumerate
     THEN /\ idleEvents' = Append(idleEvents, Head(msgs))
          /\ idleQueued' = TRUE
          /\ UNCHANGED dropped
     ELSE /\ dropped' = dropped \cup {Head(msgs).dev}
          /\ UNCHANGED <<idleEvents, idleQueued>>
  /\ UNCHANGED <<plug, listVars, pollVars, dictReplug, stack, waits, announced, reentered>>

-----------------------------------------------------------------------------
(* The idle source that drains the queued hotplug events.                  *)

\* Mutant of IdleHotplugCb: one event is handled, the others are cleared.
IdleHotplugCbOne ==
  /\ LoopRuns /\ idleQueued
  /\ stack' = Append(stack, [fn |-> "dispatch", batch |-> <<Head(idleEvents)>>])
  /\ idleEvents' = <<>>
  /\ idleQueued' = FALSE
  /\ reentered' = (reentered \/ InHandler)
  /\ UNCHANGED <<libusbVars, listVars, dropped, pollVars, dictReplug, waits, announced>>

IdleHotplugCb ==
  /\ LoopRuns /\ idleQueued
  /\ stack' = Append(stack, [fn |-> "dispatch", batch |-> idleEvents])
  /\ idleEvents' = <<>>
  /\ idleQueued' = FALSE
  /\ reentered' = (reentered \/ InHandler)
  /\ UNCHANGED <<libusbVars, listVars, dropped, pollVars, dictReplug, waits, announced>>

DispatchNext ==
  /\ Running("dispatch") /\ Top.batch # <<>>
  /\ LET event == Head(Top.batch)
         st == Step([Top EXCEPT !.batch = Tail(@)])
     IN  \/ /\ event.event = "arrived"
            /\ AddDevice(event.dev, st)
            /\ UNCHANGED devicesRemoved
         \/ /\ event.event = "left"
            /\ RemoveDevice(event.dev, st)
            /\ UNCHANGED failed
  /\ UNCHANGED <<libusbVars, doneEnumerate, queueVars, pollVars, dictReplug, waits, reentered>>

DispatchReturn ==
  /\ Running("dispatch") /\ Top.batch = <<>>
  /\ stack' = Below
  /\ UNCHANGED <<coreVars, dictReplug, waits, announced, reentered>>

-----------------------------------------------------------------------------
(* rescan: drop the devices that libusb no longer lists, add the others.   *)

\* Mutant of Rescan: the list is not compared with the bus.
RescanAddsOnly(source) ==
  [fn |-> "rescan", source |-> source, existing |-> <<>>,
   removing |-> {}, found |-> Attached, fresh |-> Attached]

\* existing is the copied list, last device first; found is what
\* libusb_get_device_list returned, and fresh what is left to add from it.
Rescan(source) ==
  [fn |-> "rescan", source |-> source, existing |-> Reverse(devices),
   removing |-> {}, found |-> Attached, fresh |-> Attached]

\* Look for the next existing device; a missing one is announced first.
RescanCheck ==
  /\ Running("rescan") /\ Top.existing # <<>> /\ Top.removing = {}
  /\ LET d == Head(Top.existing)
         st == [Top EXCEPT !.existing = Tail(@)]
     IN  IF Address[d] \in AddressesOf(Top.found)
         THEN /\ stack' = Step(st)
              /\ UNCHANGED announced
         ELSE EmitDeviceRemove(d, Step([st EXCEPT !.removing = {d}]))
  /\ UNCHANGED <<coreVars, dictReplug, waits, reentered>>

\* Mutant of RescanRemove: the device stays on the list.
RescanRemoveKeep ==
  /\ Running("rescan") /\ Top.removing # {}
  /\ stack' = Step([Top EXCEPT !.removing = {}])
  /\ UNCHANGED <<coreVars, dictReplug, waits, announced, reentered>>

\* ... and taken off the list when its handlers have returned.
RescanRemove ==
  /\ Running("rescan") /\ Top.removing # {}
  /\ \/ \E i \in DOMAIN devices :
          devices[i] \in Top.removing /\ devices' = RemoveAt(devices, i)
     \/ Top.removing \cap Listed = {} /\ UNCHANGED devices
  /\ stack' = Step([Top EXCEPT !.removing = {}])
  /\ UNCHANGED <<libusbVars, doneEnumerate, devicesRemoved, failed, queueVars, pollVars,
                 dictReplug, waits, announced, reentered>>

\* libusb documents no order of its device list.
RescanAdd ==
  /\ Running("rescan") /\ Top.existing = <<>> /\ Top.removing = {}
  /\ \E d \in Top.fresh : AddDevice(d, Step([Top EXCEPT !.fresh = @ \ {d}]))
  /\ UNCHANGED <<libusbVars, doneEnumerate, devicesRemoved, queueVars, pollVars,
                 dictReplug, waits, reentered>>

RescanReturn ==
  /\ Running("rescan") /\ Top.existing = <<>> /\ Top.removing = {} /\ Top.fresh = {}
  /\ stack' = Below
  /\ UNCHANGED <<coreVars, dictReplug, waits, announced, reentered>>

\* A source is not dispatched again while its callback runs.
Dispatching(source) ==
  \E k \in DOMAIN stack : stack[k].fn = "rescan" /\ stack[k].source = source

\* The timeout and the poll source have the same priority, so both may be
\* dispatched in the last iteration of a replug loop.
LastIteration(quit) ==
  ~HasHotplug /\ MainCtxDefault /\ Running("replug") /\ Top.quit = quit

\* Mutant of RescanCb: the poll callback is dispatched inside itself.
RescanCbRecursive ==
  /\ pollId # 0 /\ LoopRuns
  /\ stack' = Append(stack, Rescan(pollId))
  /\ reentered' = (reentered \/ InHandler)
  /\ UNCHANGED <<coreVars, dictReplug, waits, announced>>

RescanCb ==
  /\ pollId # 0 /\ ~Dispatching(pollId)
  /\ \/ LoopRuns /\ stack' = Append(stack, Rescan(pollId))
     \/ /\ LastIteration("timeout")
        /\ stack' = Append(Step([Top EXCEPT !.quit = "over"]), Rescan(pollId))
  /\ reentered' = (reentered \/ InHandler)
  /\ UNCHANGED <<coreVars, dictReplug, waits, announced>>

-----------------------------------------------------------------------------
(* The poll timeout.                                                       *)

\* Mutant of EnsureRescanTimeout: a timeout that runs is removed and no other made.
EnsureRescanTimeoutOnce(interval) ==
  /\ pollInterval' = interval
  /\ lastSource' = IF interval > 0 /\ pollId = 0 THEN lastSource + 1 ELSE lastSource
  /\ pollId' = IF interval > 0 /\ pollId = 0 THEN lastSource + 1 ELSE 0

EnsureRescanTimeout(interval) ==
  /\ pollInterval' = interval
  /\ lastSource' = IF interval > 0 THEN lastSource + 1 ELSE lastSource
  /\ pollId' = IF interval > 0 THEN lastSource + 1 ELSE 0

SetHotplugPollInterval(interval) ==
  /\ InApp
  /\ interval # pollInterval
  /\ IF pollId > 0
     THEN (interval > 0 => lastSource < MaxSources) /\ EnsureRescanTimeout(interval)
     ELSE pollInterval' = interval /\ UNCHANGED <<pollId, lastSource>>
  /\ UNCHANGED <<libusbVars, listVars, queueVars, dictReplug, stack, waits, announced, reentered>>

-----------------------------------------------------------------------------
(* enumerate: scan once, then announce what is listed.                     *)

\* Mutant of Enumerate: done_enumerate is set before the scan.
EnumerateEarly ==
  /\ InApp /\ ~doneEnumerate
  /\ doneEnumerate' = TRUE
  /\ stack' = stack \o <<[fn |-> "enumerate", step |-> "scan", next |-> 1], Rescan(0)>>
  /\ UNCHANGED <<libusbVars, devices, devicesRemoved, failed, queueVars, pollVars, dictReplug,
                 waits, announced, reentered>>

Enumerate ==
  /\ InApp /\ ~doneEnumerate
  /\ stack' = stack \o <<[fn |-> "enumerate", step |-> "scan", next |-> 1], Rescan(0)>>
  /\ UNCHANGED <<coreVars, dictReplug, waits, announced, reentered>>

EnumerateDone ==
  /\ Running("enumerate") /\ Top.step = "scan"
  /\ IF HasHotplug THEN UNCHANGED pollVars ELSE EnsureRescanTimeout(pollInterval)
  /\ doneEnumerate' = TRUE
  /\ stack' = Step([Top EXCEPT !.step = "announce"])
  /\ UNCHANGED <<libusbVars, devices, devicesRemoved, failed, queueVars, dictReplug, waits,
                 announced, reentered>>

EnumerateAnnounce ==
  /\ Running("enumerate") /\ Top.step = "announce" /\ Top.next \in DOMAIN devices
  /\ EmitDeviceAdd(devices[Top.next], Step([Top EXCEPT !.next = @ + 1]))
  /\ UNCHANGED <<coreVars, dictReplug, waits, reentered>>

EnumerateReturn ==
  /\ Running("enumerate") /\ Top.step = "announce" /\ Top.next \notin DOMAIN devices
  /\ stack' = Below
  /\ UNCHANGED <<coreVars, dictReplug, waits, announced, reentered>>

-----------------------------------------------------------------------------
(* wait_for_replug.                                                        *)

\* The code does not ask for a listed device: d may just have left.
WaitForReplug(d) ==
  /\ InApp /\ waits < MaxWaits
  /\ d \in Listed \cup devicesRemoved
  /\ waits' = waits + 1
  /\ stack' = Append(stack, [fn |-> "replug", pid |-> Port[d], device |-> d,
                             timer |-> TRUE, quit |-> "no"])
  /\ dictReplug' = [dictReplug EXCEPT ![Port[d]] = Len(stack) + 1]
  /\ UNCHANGED <<coreVars, announced, reentered>>

\* Mutant of ReplugTimeoutCb: the loop is not told to quit.
ReplugTimeoutCbNoQuit(k) ==
  /\ stack[k].fn = "replug" /\ stack[k].timer
  /\ LoopRuns
  /\ stack' = [stack EXCEPT ![k].timer = FALSE]
  /\ UNCHANGED <<coreVars, dictReplug, waits, announced, reentered>>

\* The timeout of the helper in frame k, dispatched by whichever loop runs.
ReplugTimeoutCb(k) ==
  /\ stack[k].fn = "replug" /\ stack[k].timer
  /\ LoopRuns \/ (k = Len(stack) /\ LastIteration("replugged"))
  /\ stack' = [stack EXCEPT ![k].timer = FALSE,
                            ![k].quit = IF @ = "no" /\ k = Len(stack) THEN "timeout" ELSE "over"]
  /\ UNCHANGED <<coreVars, dictReplug, waits, announced, reentered>>

\* Mutant of ReplugReturn: the helper stays in dict_replug.
ReplugReturnRegistered ==
  /\ Running("replug") /\ Top.quit # "no"
  /\ IF Top.timer
     THEN stack' = Below /\ UNCHANGED announced
     ELSE EmitDeviceRemove(Top.device, Below)
  /\ UNCHANGED <<coreVars, dictReplug, waits, reentered>>

ReplugReturn ==
  /\ Running("replug") /\ Top.quit # "no"
  /\ dictReplug' = [dictReplug EXCEPT ![Top.pid] = 0]
  /\ IF Top.timer
     THEN stack' = Below /\ UNCHANGED announced
     ELSE EmitDeviceRemove(Top.device, Below)
  /\ UNCHANGED <<coreVars, waits, reentered>>

-----------------------------------------------------------------------------
HandlerReturn ==
  /\ Running("handler")
  /\ stack' = Below
  /\ UNCHANGED <<coreVars, dictReplug, waits, announced, reentered>>

Init ==
  /\ LibusbInit
  /\ doneEnumerate = FALSE
  /\ devices = <<>>
  /\ devicesRemoved = {}
  /\ idleEvents = <<>>
  /\ idleQueued = FALSE
  /\ dictReplug = [p \in Ports |-> 0]
  /\ pollId = 0
  /\ pollInterval = DefaultInterval
  /\ lastSource = 0
  /\ stack = <<>>
  /\ waits = 0
  /\ announced = [p \in Ports |-> 0]
  /\ reentered = FALSE
  /\ dropped = {}
  /\ failed = {}

Bus ==
  /\ \E d \in Devs : Plug(d) \/ Unplug(d)
  /\ UNCHANGED <<listVars, queueVars, pollVars, dictReplug, stack, waits, announced, reentered>>

\* What the main thread does next once it has entered a function.
MainStep ==
  \/ DispatchNext \/ DispatchReturn
  \/ RescanCheck \/ RescanRemove \/ RescanAdd \/ RescanReturn
  \/ EnumerateDone \/ EnumerateAnnounce \/ EnumerateReturn
  \/ ReplugReturn \/ HandlerReturn

Call ==
  \/ Enumerate
  \/ \E d \in Devs : WaitForReplug(d)
  \/ \E interval \in Intervals : SetHotplugPollInterval(interval)

Next ==
  \/ Bus
  \/ HotplugCb
  \/ IdleHotplugCb
  \/ RescanCb
  \/ \E k \in DOMAIN stack : ReplugTimeoutCb(k)
  \/ MainStep
  \/ Call

\* The event thread loops on libusb_handle_events; the application's main loop
\* dispatches ready sources, and all that are ready at one priority before the
\* next iteration, so the poll source and a replug timeout do not starve each
\* other; functions and handlers that were entered return.
Fairness ==
  /\ WF_vars(HotplugCb)
  /\ WF_vars(IdleHotplugCb)
  /\ SF_vars(RescanCb)
  /\ SF_vars(\E k \in DOMAIN stack : ReplugTimeoutCb(k))
  /\ WF_vars(MainStep)

Spec == Init /\ [][Next]_vars
FairSpec == Spec /\ Fairness

-----------------------------------------------------------------------------
(* Properties.                                                             *)

TypeOK ==
  /\ plug \in [Devs -> {"absent", "attached", "gone"}]
  /\ msgs \in Seq(Message) /\ idleEvents \in Seq(Message)
  /\ {doneEnumerate, idleQueued, reentered} \subseteq BOOLEAN
  /\ devices \in Seq(Devs)
  /\ {devicesRemoved, dropped, failed} \subseteq SUBSET Devs
  /\ dictReplug \in [Ports -> 0..Len(stack)]
  /\ pollId \in 0..lastSource /\ lastSource \in Nat /\ pollInterval \in Nat
  /\ stack \in Seq(Frame)
  /\ waits \in Nat
  /\ announced \in [Ports -> Int]

\* No two listed devices have the same bus number and address, whatever the
\* handlers do and however stale the events are: find_by_bus_address, and with
\* it the removal of a device, is never ambiguous.
UniqueAddress ==
  \A i, j \in DOMAIN devices : i # j => Address[devices[i]] # Address[devices[j]]

\* dict_replug holds no dangling helper: an entry is the helper of a call of
\* wait_for_replug that has not returned, for that platform id, and the device
\* that a helper would hand back has the platform id it waits for.
ReplugHelperLive ==
  /\ \A p \in Ports : dictReplug[p] # 0 =>
       /\ dictReplug[p] \in DOMAIN stack
       /\ stack[dictReplug[p]].fn = "replug"
       /\ stack[dictReplug[p]].pid = p
  /\ \A k \in DOMAIN stack : stack[k].fn = "replug" => Port[stack[k].device] = stack[k].pid

\* rescan iterates over borrowed pointers: each device it has yet to look at is
\* still on the list, which holds the reference.
BorrowedListed ==
  \A k \in DOMAIN stack : stack[k].fn = "rescan" => ToSet(stack[k].existing) \subseteq Listed

\* As long as one poll source was created they are, even if a handler of the
\* device-removed that rescan emitted ran the main loop: GLib does not dispatch a
\* source inside itself.
RescanPointersLive ==
  lastSource <= 1 => BorrowedListed

\* Back in the application's main loop, the device-added and device-removed
\* signals of every port add up to the devices listed on it: nothing is listed
\* unannounced, announced twice, or gone without notice.  (Handlers that iterate
\* the main loop and wait_for_replug break this; see the README.)
SignalsMatchList ==
  stack = <<>> /\ ~reentered /\ waits = 0 =>
    \A p \in Ports : announced[p] = Cardinality({d \in Listed : Port[d] = p})

\* A device of the bus and a listed one are the same set of addresses, but for
\* devices whose creation failed or that changed during the first scan.
ListAgrees ==
  LET lost == AddressesOf(dropped \cup failed)
  IN  AddressesOf(Listed) \ lost = AddressesOf(Attached) \ lost

\* With hotplug events, or with polling at whatever intervals above zero the
\* application sets after enumerate, one in place of another and also in the middle
\* of a rescan, the list converges to the bus whenever the bus settles, unless a
\* signal handler ran the main loop (which applies hotplug events out of order).
ListConverges ==
  [](doneEnumerate => HasHotplug \/ pollInterval > 0)
    => (doneEnumerate ~> [](ListAgrees \/ reentered))

\* While a wait for a platform id is registered, arrivals and departures of that
\* device cause no signal (add_device and remove_device suppress them).
ReplugIsSilent ==
  [][\A p \in Ports : dictReplug[p] # 0 /\ dictReplug'[p] # 0
                        => announced'[p] = announced[p]]_vars

\* wait_for_replug returns: the device comes back or the timeout triggers.
WaitReturns ==
  (\E k \in DOMAIN stack : stack[k].fn = "replug")
    ~> ~\E k \in DOMAIN stack : stack[k].fn = "replug"

\* The list implements DeviceTracking: a device is listed only after it was
\* plugged in and taken off only after it was unplugged.
Tracking == INSTANCE DeviceTracking WITH bus <- plug, list <- Listed
TracksBus == Tracking!Spec

-----------------------------------------------------------------------------
(* What comments of the code say and the code does not do; see the README. *)

\* gusb-context.c:851, "only ever initially scan once, then rely on hotplug /
\* poll": what changes on the bus during the scan is not missed.
NothingMissed ==
  LET lost == AddressesOf(failed)
  IN  doneEnumerate ~>
        [](reentered \/ AddressesOf(Listed) \ lost = AddressesOf(Attached) \ lost)

\* gusb-context.c:234, "This signal is emitted when a USB device is removed": once
\* the events are handled, an unplugged device is not listed any more, even if a
\* handler ran the main loop.
RemovalIsSignalled ==
  stack = <<>> /\ msgs = <<>> /\ idleEvents = <<>> =>
    \A d \in Listed \ dropped : plug[d] # "gone"

\* gusb-context.c:812, the interval "can be changed before or after
\* g_usb_context_enumerate() has been called": the one that is set is polled at, also
\* after an interval of 0.
IntervalIsUsed ==
  doneEnumerate /\ ~HasHotplug /\ pollInterval > 0 => pollId # 0
=============================================================================
