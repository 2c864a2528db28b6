# libgusb in TLA+

libgusb wraps libusb in GObjects: a `GUsbContext` keeps the list of USB devices and
emits signals when it changes, a `GUsbDevice` opens a device and runs transfers on it,
and an event record makes it possible to replay a session without the hardware. This
directory holds a TLA+ development of it: modules translated from `src/gusb/`, TLC
configurations that check them on small instances, and proofs checked by TLAPS.
`PROJECT.json` names, for every definition, the lines of code that it models.

## 1. Inventory

**GUsbContext, the device list** (`gusb-context.c`). State: `devices`,
`devices_removed`, `done_enumerate`, the queue `idle_events` with its mutex and its
idle source, the poll source and its interval. Operations: `enumerate`, `rescan`,
`add_device`, `remove_device`, `hotplug_cb` (in the libusb event thread),
`idle_hotplug_cb` and `rescan_cb` (main loop), `set_hotplug_poll_interval`. It talks
to libusb (device list, hotplug messages) and to the application (signals). What is
hard: the event thread reads `done_enumerate` while the main thread scans; a signal
handler may run the main loop again, because every synchronous transfer does, and so
re-enter every source callback while the outer one holds a half-handled batch or a
list of borrowed pointers; polling and hotplug events follow the bus at their own pace.
Correct means: no address twice, signals that add up to the list, a list that
converges to the bus, no pointer to a freed device.

**GUsbContext, wait_for_replug.** State: `dict_replug`, one stack-allocated helper
per call, its timeout and loop. It registers the helper, runs a main loop, and returns
when the device with that platform id comes back or the timeout fires. Hard: nested
waits for one platform id, a timeout dispatched together with the answer, the
suppressed signals. Correct means: no dangling helper, silence on the port that is
waited for, every wait ends.

**GUsbContext, load and save** (`load_with_tag`, `save_with_tag`). The file has, for
each device, its platform id, date of creation, tags, descriptors and events. A load
merges it into the list: a listed device of that id and date gets the events of the
file (`device-changed`), others come as emulated devices, and the devices with the tag
that the file does not have go. Hard: a load that fails half way; a load before the
first scan, which sets `done_enumerate`; real and emulated devices under one platform
id; polls that find the emulated devices missing on the bus; tags in the file that
disagree with tags on the list. Correct means: the tagged devices are those of the
file, the others stay, loading again changes nothing but events, a bad file removes
nothing.

**GUsbContext, life cycle**: `initable_init`, `dispose`, the event thread. References
of the context are held by the application, by every hotplug event in the queue and by
every device, which is itself held by the list and by the tasks of its transfers. Hard:
`dispose` runs in whichever thread drops the last reference, and joins the event
thread, which may queue events and attach the idle source until then.

**GUsbDevice, handle** (`gusb-device.c`): `open`, `close`, `reset`, configuration,
interfaces. Guarded by `priv->handle`, ignored for emulated devices.

**GUsbDevice, transfers**: the three `*_transfer_async` functions, their libusb
callbacks (event thread), `*_finish`, and the synchronous wrappers, which run a nested
main loop. State: the `GcmDeviceReq` owned by the GTask, the cancellable connected to
it, the user's buffer, the saved event. Hard: completion in one thread and dispatch in
another, cancellation between submission and `g_cancellable_connect`, the last
reference going in either thread, `close` with a transfer in flight, nested loops.
Correct means: no freed request is used, no cancellation is lost, the answer agrees
with the buffer and the record, every call returns.

**GUsbDevice, descriptor caches**: interfaces, BOS and HID descriptors, each an array
with a `_valid` flag, and `invalidate`. The HID descriptors are read with one
synchronous transfer for each HID interface. Hard: a query that fails half way, a main
loop in the middle of a query that walks an array, a flag that is not reset.

**GUsbDevice, events**: `save_event`, `load_event` (the next matching event, or any),
`clear_events`, custom indexes and string descriptors. Hard: requests that overlap or
fail without a record, keys used more often than recorded, events that are freed while
their transfer is in flight, an answer of no bytes against an answer that never came.

**Interface, endpoint, BOS and event objects**: records with getters and JSON
conversion. **GUsbDeviceList** (`gusb-device-list.c`): a deprecated mirror of the
context's list. **usb.ids lookup**: a line parser with one current vendor.
**GUsbSource, util, version**: stubs and tables. **gusbcmd** and the tests: clients of
the library.

The hazards, each at its line and with the properties that watch it, are in
`PROJECT.json`.

## 2. Plan

| Order | Module | Models | State |
|---|---|---|---|
| 1 | `Libusb`, `GUsbContext`, `DeviceTracking` | device list, signals, replug; the list as an abstract specification | done, proved |
| 2 | `GUsbTransfer` | requests, cancellation, threads, synchronous loops, close | done, proved |
| 3 | `DeviceJson`, `GUsbDevice` | objects and files; caches, events, replay, handle | done, proved |
| 4 | `ContextLoad` | tags, load and save, restarts, partial failure | done, proved |
| 5 | `ContextLifecycle` | `initable_init`, `dispose`, the event thread | done, proved |

What could follow, in order of worth: claimed interfaces and alternate settings if they
come to keep state, the coldplug of `GUsbDeviceList`, the `usb.ids` parser as a function
of a file.

## 3. Modules

`Libusb` is external: the devices on the bus and the queue of hotplug messages. A
member of `Devs` is one `struct libusb_device`, that is one connection; a device that
is plugged in again is another member on the same port, with a fresh address
(hotplug platforms) or its old one (the polling instance).

`GUsbContext` EXTENDS it. The event thread is the action `HotplugCb`. Everything else
runs on one main thread that re-enters itself, so its C stack is a variable:

| Frame | Function | Steps |
|---|---|---|
| `enumerate` | `g_usb_context_enumerate` | `Enumerate`, `EnumerateDone`, `EnumerateAnnounce`, `EnumerateReturn` |
| `rescan` | `g_usb_context_rescan` | `RescanCheck`, `RescanRemove`, `RescanAdd`, `RescanReturn` |
| `dispatch` | `g_usb_context_idle_hotplug_cb` | `IdleHotplugCb`, `DispatchNext`, `DispatchReturn` |
| `replug` | `g_usb_context_wait_for_replug` | `WaitForReplug`, `ReplugTimeoutCb`, `ReplugReturn` |
| `handler` | an application's signal handler | `HandlerReturn`, or any call or source if `Reentrant` |

One step is what the code does between two places where other code may run (a signal
or a loop iteration). Sources are dispatched when `LoopRuns`: the application's loop,
a handler that iterates it, or the loop of a replug. `AddDevice` and `RemoveDevice` are
the two C functions, used by the frames that call them. A `GUsbDevice` is represented
by the `libusb_device` it wraps. `announced`, `reentered`, `dropped` and `failed` are
history variables that only the properties read.

`DeviceTracking` is what the list promises to its readers: a device gets on it only
after it was plugged in, under an address of its own, and off it only after it was
unplugged. `TracksBus` says that `GUsbContext` implements it, with `bus <- plug` and
`list <- Listed`.

`GUsbTransfer` models the transfers of one device. Per transfer it has the place of the
caller, what libusb does with the transfer, who holds the GTask (`libusb`: the
reference given up by the callback; `context`: the idle source that will call back),
the request, the cancellable and the results. The callback takes several steps of the
event thread: `Complete` is libusb calling it, `TransferCb` writes the event and the
user's memory, `TransferCbAnswer` returns the task, `TransferCbReturn` drops the
reference; the main thread may run between any two of them, and dispatch the task
while the callback still holds its reference. `loops` is the stack of synchronous calls;
`SyncReturn` only returns the innermost one. The three kinds of transfer share their
control flow and differ in how data gets to the user (`Received`). A transfer started
in another thread (`Remote`) completes in the main context all the same, as a task does
that is created where there is no thread-default context. A transfer runs at most once;
members of `Transfers` stand for calls, not for endpoints.

`DeviceJson` has no state: it says what the code makes of an object when it is written
to JSON and read back. A JSON object is a function of member names in which the members
with their default value are left out, as the code does (`Object`, `Get`); an array
that would be empty is left out too. There is one pair `Save...`/`Load...` for each
object, and integers read from a file are cut to the width of the C member
(`LoadDesc`). `Encode` and `Decode` stand for base64 and keep "no bytes" apart from "no
data".

`GUsbDevice` EXTENDS it and models the session of one device, which is real and, once it
was saved, may go on as the emulated device that is loaded from the file:

- `interfaces`, `bos`, `hid` are the caches, each an array and its valid flag.
- A request (`GetStringDescriptor`, `GetCustomIndex`, `Transfer`, ...) fails, or appends
  its event to `events`. A transfer is `inflight` with the place of its event until
  `TransferCb` settles it in the event thread. The place is a pointer without a
  reference: after the events were freed under it (`ClearEvents`, `Load`, `LoadEvents`)
  it is `Gone`, and the callback then writes to any of the events that are there, whose
  memory it may be, or to none (`Settle`).
- `ReplayNext` is what `load_event` and the function around it make of the events for
  the next request; `FindEvent` is the search from `event_idx`.
- `queries` is the stack of the calls that want the HID descriptors, `GetHidDescriptors`
  and `Save`. Each is at a place of the array it walks and may be `waiting` in the main
  loop of a transfer, where the application may call anything, `Invalidate`, `Close` and
  another query included.
- `Save` and `SaveReturn` write `file`, `Load` makes the emulated device, `LoadEvents`
  replaces the events of the device that is there.
- `session`, `saved`, `replayed`, `reply`, `freed` (events were freed under a transfer)
  and `disturbed` (a query for the HID descriptors failed half way, met another one or
  was invalidated) are histories. `plan` is a bound: what the
  application of one behaviour does.

`ContextLoad` EXTENDS `DeviceJson` and models the context around it. GUsbDevices are
objects on a heap, named by their place in `objects`, so that two of them may have one
platform id; `devices` and `devices_removed` are lists of such places. `load` is the call
of `load_with_tag`, which takes a step for each object of the file (`LoadFails`,
`LoadSkips`, `LoadChanges`, `LoadKeeps`), then one for each device that goes
(`LoadRemove`) and each that comes (`LoadAdd`). Between loads devices are plugged in
and out, polled, asked and tagged, the list is saved, and the application may end and
start again with its file (`Restart`). The signal handlers do not call back here; those
that do are `GUsbContext`'s matter.

`ContextLifecycle` abstracts the list to whether the device is on it and follows the
references instead: `Held` says who holds the context, and every step that drops one
ends in `Dropped`, which starts `dispose` in the thread that took the step.
`initable_init` is `LibusbInit`, `StartThread`, `Register`; the event thread is at
`check` (its loop condition), `handle` (inside libusb) or `unref` (at the end of a
transfer's callback); dispose goes through `stop`, `join`, `sources`, `clear`, `exit`,
`queue`, in the order of the code. `RunDispose` is `g_object_run_dispose`, after which
dispose runs again.

`MCGUsbContext`, `MCGUsbTransfer`, `MCGUsbDevice`, `MCContextLoad` and
`MCContextLifecycle` give the constants their values. `SequenceLemmas`,
`DeviceJson_proofs`, `GUsbContext_proofs`, `GUsbTransfer_proofs`, `GUsbDevice_proofs`,
`SessionProofs`, `ContextLoad_proofs` and `ContextLifecycle_proofs` hold the proofs.
Definitions whose comment begins "Mutant of" are plausible bugs that are not part of any
specification; each shows that a property would notice.

## 4. Runs

Passing:

- `context_hotplug`: hotplug events, one device and its reconnection at a fresh address,
  handlers that re-enter the main loop and the API, two waits that may nest, creation
  that may fail. `TypeOK`, the properties of the list (`UniqueAddress`,
  `SignalsMatchList`, `ListConverges`, `TracksBus`) and those of the waits
  (`ReplugHelperLive`, `ReplugIsSilent`, `WaitReturns`). A reconnection is what stale
  events and out-of-order batches need, and two waits are what it takes for one helper to
  replace another in `dict_replug`. (With a third device the waits are out of reach;
  without waits `UniqueAddress`, `SignalsMatchList`, `ListConverges` and `TracksBus` hold
  of three devices, too, in 400,000 states.)
- `context_poll`: no hotplug events, three devices of which one is a reconnection at the
  old address; the interval may become 0 or 500, and 500 in place of the first source
  while that one is dispatched. The properties of the list, and `RescanPointersLive`. Two
  sources are what it takes for one to replace another.
- `transfer`: a synchronous control transfer, an asynchronous bulk one and one started
  elsewhere, all cancellable and recorded, the device opened and closed at any time.
  `TypeOK`, `RequestLive`, `AnswerIsComplete`, `CancelReaches`.
- `transfer_live`: two synchronous transfers, either inside the other. `Answered`,
  `SyncReturns`.
- `device_session`: a device with three configurations (one with alternate settings and a
  HID interface, one with one, one with two) and a BOS descriptor, and the six
  applications of `TestPlans`: one makes two requests of any kinds, one makes one
  transfer three times, one frees the events under its requests, one asks for descriptors
  while the configuration changes, one does so while it saves the device, one where a
  configuration has two HID interfaces. `TypeOK`, `ReplayFaithful` (the emulated device
  answers as the real one did, unless events were freed under a transfer), `FileStable`
  (a file that is loaded and saved is the same file), `CacheWhole` (what valid caches
  hold), `EventOwned` (an event that a transfer in flight points to and that was not
  freed is its own).
- `context_load`: two devices on ports of their own, one tag, one request key, files
  saved in the course of the run and a foreign one that is broken behind a good first
  device. `TypeOK`, `SignalsBalance`, `LoadReplaces`, `ReloadIsQuiet`,
  `UntaggedStay`, `BadFileRefused`.
- `context_lifecycle`: initialisation with every failure, three hotplug events and
  three transfers, the last reference dropped in either thread, dispose run by the
  application as well. `TypeOK`, `ThreadHasLibusb`, `NothingDispatched`,
  `SelfJoinIsLate`, `DisposeEnds`.

What the code does against its documentation ("findings" in `PROJECT.json` quotes it):

- `enumerate_window`: hotplug events are dropped until `done_enumerate` is set, after
  the scan; what changes on the bus in between is never noticed.
- `reentrant_order`: a handler that runs the main loop gets later events handled before
  the rest of the batch; a removal may be ignored and the device then listed for good.
- `transfer_close`: a synchronous transfer whose device is closed meanwhile waits for
  ever, whatever its timeout.
- `poll_restart`: a poll source is only ever started in place of one that runs; after
  an interval of 0 the next one is stored and never used.
- `hid_invalidate`: `invalidate` empties the HID descriptors and leaves their flag set,
  so the next query returns none.

More facts can be read off the modules and have no run of their own. They are among the
hazards in `PROJECT.json`, and the reason for the limits below:

- `enumerate` emits `device-added` index by index; a device that arrives while a handler
  runs the main loop is announced there and once more when `enumerate` comes to it.
- `remove_device` looks for an address, so a departure that is handled late takes off a
  device that got the address since and is plugged in.
- A handler of `device-removed` may set another interval and run the main loop; the
  rescan of the new source then frees devices that the outer one has yet to look at.
- A wait that times out announces a removal although the device may never have left, and
  `rescan` announces one for a device that is waited for.
- With a main context other than the default one a wait runs a loop to which neither its
  timeout nor the hotplug events are attached, and never returns.
- A HID query that fails half way leaves what it got, and the next one appends all of
  them to it.
- After events were freed under a transfer, the callback may write to the event of
  another request, which is then replayed with the wrong answer.

These limits show in the passing properties:

- `SignalsMatchList` and `ListConverges` are stated for executions in which no handler
  iterated the loop (`reentered`; see `reentrant_order`); `ListConverges` does not count
  devices that changed during the first scan (see `enumerate_window`) and is about
  intervals that stay above 0 from `enumerate` on (see `poll_restart`);
  `SignalsMatchList` has no waits.
- `TracksBus` with hotplug events has every connection at an address of its own.
- `RescanPointersLive` is said as long as one poll source was created, also in
  `context_poll`, whose behaviours have up to two.
- `WaitReturns` is checked where the main context is the default one.
- `RequestLive` excludes transfers started outside the main thread: there the code
  connects the cancellable of a request that the main thread may have freed.
- `ReplayFaithful` is stated for sessions in which each request was either always
  recorded or never, and in which no events were freed under a transfer. Where a request
  failed without a record, its replay takes another call's event and shifts those that
  follow.
- `CacheWhole` says of HID descriptors that a valid cache holds each once only as long as
  no query failed half way, met another one or was invalidated (see `hid_invalidate`).
  Of interfaces and BOS descriptors it says so always.
- `EventOwned` says nothing of a place that is `Gone`, and that nobody else settles an
  event only while none was freed under a transfer.
- `LoadReplaces` leaves out files with one device twice, and loads where the file gives
  the tag to a listed device that has not got it; `ReloadIsQuiet` leaves out lists in
  which two devices share a platform id, of which a load only finds the first.
- `SelfJoinIsLate` does not say that the event thread never joins itself, which it may:
  it says when.

**Bounds.** `MaxWaits` bounds the calls of `wait_for_replug` and `MaxSources` the poll
sources created, two at most, which is one that replaces another and is replaced or
removed; both are counters that otherwise never stop. A device is plugged and
unplugged at most once in `GUsbContext`, a transfer runs at most once in `GUsbTransfer`.
Nested handlers are bounded only by the signals that a finite bus causes. A member of
`Plans` bounds the requests, queries and events of one application: two requests are
enough for one to take the event of the other, three transfers with one key for
completions in every order and for a replay that starts over, one query at a time with a
save inside it for a walk over an array that something else replaces. Its `clears` says
whether events are freed under transfers; where they are, two requests are enough for
one to be given the memory of the other's event. `MaxObjects = 3`
lets a file bring back a device that was seen before, next to one that is plugged in;
`MaxEvents = 1` tells events from none; an application that could not make another
object does not start again (`Restart`). `MaxQueue = 3` and `MaxTransfers = 3` allow an
event to be queued before, during and after a dispatch, and a transfer to be submitted
while the callback of the one before has yet to drop its reference. The theorems hold
for all values of these.

**Fairness.** Event thread: weak fairness, it loops on `libusb_handle_events`. Functions
and handlers that were entered return. The poll source and the replug timeout have
strong fairness: GLib dispatches all sources that are ready at one priority before the
next iteration, so neither can starve the other, although each may be disabled for a
while by the frames above it. Transfers: weak fairness of their completion stands for a
finite timeout; with timeout 0 nothing is promised. In `ContextLifecycle` the steps of
the event thread are weakly fair (libusb is waited for with a timeout of two seconds,
so it always comes back to its flag), and so are those of dispose. The application is
never obliged to call, plug, cancel or close anything.

**Deadlock** checking is off: once the bus is used up, every transfer has run, the plan
of an application is through or the context is gone, the system rests; and a join of the
event thread in itself never ends, which `SelfJoinIsLate` and `DisposeEnds` are about.

## 5. Proofs

All theorems hold for every value of the constants that the named assumptions allow
(`LibusbAssumption`, `ContextAssumption`, `TransferAssumption`, `DeviceAssumption`,
`HardwareAssumption`, `LoadAssumption`, `LifecycleAssumption`), all of which TLC
evaluates, and the two about the value that stands for NULL that are named below.

- `TypeCorrect` and `ContextTypes` (`GUsbContext_proofs`): the types, and
  `ReplugHelperLive`. The inductive invariant `TypeInv` is `DataOK`, the types of the
  data, with `StackOK`, which says of every frame what its next step relies on and of
  every entry of `dict_replug` that it names a live `replug` frame for that port. The
  theorem is the absence of dangling helpers: an entry is reset by the return of the very
  frame it names or replaced by a frame above it, and frames only return from the top.
- `ListUnique` (same module): `Spec => []UniqueAddress`. It is not inductive: it
  needs that `add_device` searches for the address, which it only does once
  `done_enumerate` is set. `ListInv` therefore describes the first scan (`Scanning`,
  `ScanOK`): there is one `rescan` frame, it has removed nothing, and the addresses it
  has yet to add are on no listed device.
- `ListTracksBus` (same module): `AddressesDiffer => (Spec => TracksBus)`, by step
  simulation. `AddressesDiffer` says that with hotplug events no two connections share
  an address: `remove_device` looks devices up by address, so a stale "left" event
  would take off the wrong one. `ListInv` adds that a queued "left" event is of a device
  that is gone (`EventOK`) and that a frame that is about to remove a device has seen it
  gone (`FrameOK`).
- `RescanPointersGood` (same module): `Spec => []RescanPointersLive`. `PollInv`, next
  to `ListInv`, says that with hotplug events nothing polls, that no two later scans on
  the stack are by one poll source, and that each has every device before it once, apart
  from those it has chosen to remove, and on the list as long as only one source was
  created. So with one source there is one such scan, and nothing else takes a device
  off.
- `ReplugSilent` (same module): `HasHotplug => (Spec => ReplugIsSilent)`. The extra
  invariant `EnumerateOutermost` says that an `enumerate` frame is only ever the
  outermost, so a wait is never registered below one, and `EnumerateAnnounce` cannot
  announce a device for which a wait below is registered. Without hotplug events the
  formula is false: `rescan` emits the signal itself.
- `SignalsAddUp` (same module): `Spec => []SignalsMatchList`. `SignalsInv` says what was
  announced in the states between the calls: until `done_enumerate` is set, nothing; then,
  while no handler has iterated the loop and nobody has waited (`Calm`), only one function
  is on the stack, with at most a handler above it (`CalmStack`), and what it has yet to
  announce is known from its frame (`Announced`), so that the sums are those of that set
  (`Counts`). It needs `ListInv` for the first scan, whose devices are announced by
  `EnumerateAnnounce` all at once after it, and `PollInv` for the devices that a rescan is
  about to remove.
- `RequestsLive`, `AnswersComplete`, `CancellationsReach`, `TransferTypes`
  (`GUsbTransfer_proofs`): the invariants of the transfers and their types.
  `TransferInv` says per transfer who holds the task (`HoldersOK`: libusb while it is in
  flight, the main context while there is an outcome to tell, so that a request outlives
  the function that submits it), what an outcome implies (`OutcomeOK`) and that what is
  in flight is connected or being cancelled (`CancelOK`). The argument for `RequestLive`
  is that the main thread cannot dispatch a task while it is still inside the function
  that started it; this is what `Remote` transfers lack. `CallingOK` says how far the
  callback that runs has come: nothing is told before event and memory are written.
- `DeviceTypes` and `EventsOwned` (`GUsbDevice_proofs`): `TypeOK` and `EventOwned`, for any
  hardware, application and number of transfers, also after events were freed under
  some of them. A place that is not `Gone` was not freed since, so its event still has
  the key of the request and nobody else's place is the same; that no other callback
  wrote to it needs that no event was freed under a transfer. `DeviceInv` joins the types of the
  caches, the events with the transfers that point to them, the histories, and the file,
  whose events must be as many as its history names (`FileOK`; lemma `SavedEventsLoad`:
  a load gives as many events as were saved). They assume `NullIsNoSequence`: the value
  that stands for NULL is no sequence.
- `CachesWhole` (`SessionProofs`): `Spec => []CacheWhole`. `CacheInv` says what
  each cache of a real device may hold, valid or not, and describes the stack of queries
  (`QueriesOK`): a transfer for a report descriptor has one query that waits for it and
  is told nothing but an error or a whole report (`WaitersOK`, `AnswersOK`), however many
  others started, ended or were invalidated above it. For the HID descriptors `ScanOK`
  says that as long as nothing was `disturbed` there is one query, which has, at its
  place of the array it walks, one descriptor for each HID interface before it. It rests on `HardwareAssumption`:
  libusb parses its descriptors, and each HID interface has its report descriptor.
- `FilesStable` (same module): `Spec => []FileStable`. `FileInv` says that what may be
  saved next, in the caches, in the frames of the queries and among the events, can be
  written and read back without loss. The round trips themselves are the lemmas of
  `DeviceJson_proofs`, one for each kind of object (`LoadSavedDevice`,
  `SaveLoadedDevice` for the whole device): members that are left out are those whose
  default is read back, and an array of nothing is as good as none.
- `ReplaysFaithful` (same module): `Spec => []ReplayFaithful`. `ReplayInv`, which holds
  until events are freed under a transfer, says that the
  events are, one for one, what the history of the session recorded (`Records`), that a
  transfer in flight points at its own entry of it (`PointersOK`), that the same holds of
  a file and the history that was saved with it (`SavedRecords`), and that an emulated
  device has its cursor behind the event it replayed last (`PositionOK`), so that
  `load_event` finds the next event of a request without wrapping past one that was not
  used. The last three assume `NullIsNone`: the value that stands for NULL is no function,
  integer or status.
- `LoadTypes` and `SignalsBalanced` (`ContextLoad_proofs`): `TypeOK` and
  `SignalsBalance`, by the inductive invariant `TypeInv`: lists name different objects
  (`ListOK`), `balance` is 1 for what is listed and 0 for the rest (`BalanceOK`), and a
  load under way has chosen what is listed for removal and what is not for addition
  (`LoadOK`). The signals that a step emits say what the list becomes (`Says`), so they
  keep the balance (`EmitAddsUp`), once for all the steps.
- `LoadedReplaces`, `ReloadedQuietly`, `UntaggedStayed`, `BadFilesRefused` (same module):
  the four properties of a load that returned. `KeptInv` describes a load in the middle
  of its file: what was there before has at most new events, and the devices without the
  tag are where they were (`Kept`); what will be listed once the removals and additions
  are done is, with the tag, what the file has said so far, one device for each object
  (`Outcome`); and if the same file was loaded just before, nothing will be added and
  each device that is still to be removed is named by an object yet to come (`Quiet`).
  `Outcome` is stated for files that are `Orderly`, that is whose devices with the tag are
  dated and no two alike; a second object for one device would change its events again.
  What a load left (`Done`) is what the next one, of the same file, starts from. TLC
  checked `KeptInv` on the instance of `context_load` before it was proved.
- `LifecycleTypes`, `ThreadAlwaysHasLibusb`, `NothingIsDispatched`, `SelfJoinOnlyLate`
  (`ContextLifecycle_proofs`): `LifeInv` says how far initialisation got (`SetupOK`), that
  the event thread is there only until it is joined (`ThreadOK`), that what dispose has
  done stays done (`DisposeOK`), and who holds the task of a transfer (`TaskOK`). The
  argument for `NothingDispatched` is that after the join no thread is left that could
  queue an event, so the sources that are removed after it stay removed; the one for
  `SelfJoinIsLate` is that `g_task_return` gives the main thread a reference of its own,
  so the event thread drops the last one only if the main thread was told before.

`SequenceLemmas` has the facts about `Front`, `Last`, `RemoveAt`, `Reverse`, `ToSet`,
`FlattenSeq`, concatenation and ranges on which these rest, `DeviceJson_proofs` those
about `Select`. Each proof has one step per action. What a recursive definition computes
is proved by induction over the set of the numbers for which it holds
(`NatSetInduction`) or of the sequences (`SeqInduction`); that is how `FlattenSeq` and
`Select` are reasoned about, and the reason why `Select` takes a set where `SelectSeq`
takes an operator.

Every safety property that a passing run checks is a theorem. Checked by TLC only: liveness
(`ListConverges`, `WaitReturns`, `Answered`, `SyncReturns`, `DisposeEnds`), which is
beyond TLAPS.

## 6. Not modelled

- `reset`, claiming and releasing interfaces and alternate settings pass to libusb and
  keep no state here. (A claim that fails after the kernel driver was detached leaves it
  detached, `gusb-device.c:1724`.)
- The children of a device and the tree of the context, which are computed from the
  list. (`gusb-device.c:3017` tests `priv` where it means `priv_tmp`.)
- `GUsbDeviceList`, the `usb.ids` parser, `GUsbSource`, version and error tables, the
  getters of interfaces, endpoints and BOS objects, `gusbcmd`.
- Of the list: threads other than the two, in particular one that iterates the default
  main context while another runs a loop of its own. `AddMayFail` stands for
  everything that may fail when a device is created or opened automatically. That the
  poll source holds no reference of the context (`gusb-context.c:784`) is in
  `ContextLifecycle`, where dispose removes it.
- Of transfers: the isochronous kind, which the library does not have, and the leak of a
  reference to a cancellable that was cancelled before it was connected.
- Of the session: the keys of requests are abstract, although the code puts the buffer
  into them. A callback that writes to a freed event may spoil memory that is not an
  event's at all, which no state of the model shows.
- Of loading: signal handlers that call back while a load is under way; what a load
  before the first scan leaves out of the list for good, which is modelled and which no
  documentation excludes.
