------------------------------ MODULE GUsbDevice ------------------------------
(***************************************************************************)
(* The session of one GUsbDevice (src/gusb/gusb-device.c): the descriptor  *)
(* caches, the requests whose answers are recorded as events, the file the *)
(* device is saved to, and the emulated device that is loaded from it and  *)
(* answers the same requests from the events.                              *)
(*                                                                         *)
(* A GUsbDevice made from a libusb_device is real; once it is saved the    *)
(* application may go on with the emulated one instead.  The main thread   *)
(* runs everything but the callbacks of transfers, which the event thread  *)
(* runs between any two of its steps.  A control transfer for a HID        *)
(* descriptor runs the main loop, in which the application may call        *)
(* anything.                                                               *)
(***************************************************************************)
EXTENDS DeviceJson

CONSTANTS Requests,      \* the keys of the requests that the application makes
          Kind,          \* Kind[r]: the function that is called for r
          Texts,         \* what a string descriptor may say
          Payloads,      \* the bytes that a request may return
          Failures,      \* the libusb errors that may occur
          Statuses,      \* the ways a transfer may fail once it was submitted
          Hardware,      \* the configurations of the device, each a sequence of interfaces
          Capabilities,  \* its BOS descriptors
          Report,        \* Report[n]: the HID report descriptor of interface n
          Class,         \* the class, subclass and protocol that are asked for
          Length,        \* how many bytes a transfer asks for
          Identity,      \* platform id, date of creation, tags and device descriptor
          SaveEvents,    \* G_USB_CONTEXT_FLAGS_SAVE_EVENTS
          Plans          \* bound: what an application does, see PlanType

Kinds == {"string", "bytes", "custom", "config", "transfer"}

\* The requests an application makes and how many, the configurations it sets,
\* whether it saves the device and whether it clears the events under a transfer, how
\* many of its queries for descriptors may wait at a time, and how many events there
\* may be.
PlanType ==
  [requests: SUBSET Requests, session: Nat, configs: SUBSET DOMAIN Hardware, saves: BOOLEAN,
   clears: BOOLEAN, queries: Nat, events: Nat]

ASSUME DeviceAssumption ==
  /\ Kind \in [Requests -> Kinds]
  /\ SaveEvents \in BOOLEAN
  /\ Plans \subseteq PlanType
  /\ Length \in Nat
  /\ {"desc", "tags", "events"} \subseteq DOMAIN Identity

VARIABLES plan,        \* the member of Plans the application follows
          real,        \* priv->device # NULL
          open,        \* priv->handle # NULL
          config,      \* the active configuration
          interfaces, bos, hid,  \* the caches: the array and whether it is valid
          events,      \* priv->events
          event_idx,   \* priv->event_idx
          inflight,    \* the transfers in flight, each with the place of its event
          queries,     \* the calls that want the HID descriptors, innermost last
          file,        \* the object the device was saved to
          session,     \* history: the requests that the events record
          saved,       \* history: the requests that the events of the file record
          replayed,    \* history: how much of the session was replayed
          freed,       \* history: events were freed while transfers in flight pointed to them
          disturbed,   \* history: a query for the HID descriptors failed half way, met
                       \* another one or was invalidated
          reply        \* history: what the last call returned

caches == <<interfaces, bos, hid, disturbed>>
recording == <<events, event_idx, inflight, session, replayed, freed>>
files == <<file, saved>>
device == <<plan, real, open, config>>
vars == <<device, caches, recording, queries, files, reply>>

-----------------------------------------------------------------------------
(* Errors and answers.                                                     *)

Ok(value) == [ok |-> value]
Error(code) == [error |-> code]
Failed(answer) == "error" \in DOMAIN answer

\* g_usb_device_libusb_error_to_gerror
ErrorCode(rc) ==
  CASE rc \in {"IO", "OVERFLOW", "PIPE"} -> "IO"
    [] rc = "TIMEOUT" -> "TIMED_OUT"
    [] rc = "ACCESS" -> "PERMISSION_DENIED"
    [] rc \in {"NOT_SUPPORTED", "NO_DEVICE", "BUSY"} -> rc
    [] OTHER -> "INTERNAL"

\* g_usb_device_libusb_status_to_gerror
StatusCode(status) ==
  CASE status = "ERROR" -> "FAILED"
    [] status = "STALL" -> "NOT_SUPPORTED"
    [] status \in {"TIMED_OUT", "CANCELLED", "NO_DEVICE"} -> status
    [] OTHER -> "INTERNAL"

-----------------------------------------------------------------------------
(* Recording.                                                              *)

NewEvent(id) == [id |-> id, status |-> "COMPLETED", rc |-> "SUCCESS", bytes |-> Null]

\* The place of a request whose event was freed: its pointer dangles.
Gone == -1

\* Mutant of NextPlace: the index is taken before the event is added.
NextPlaceBefore == IF SaveEvents THEN Len(events) ELSE 0

\* Where g_usb_device_save_event puts the next event; a request that is not
\* recorded has no place.
NextPlace == IF SaveEvents THEN Len(events) + 1 ELSE 0

Recorded(e) == IF SaveEvents THEN Append(events, e) ELSE events

\* A transfer of the application has an entry in the session, one for a HID
\* descriptor a query that waits for so many bytes.
Submitted(r, entry, query, size) ==
  Append(inflight, [request |-> r, place |-> NextPlace, entry |-> entry, query |-> query,
                    size |-> size])

\* The callbacks write what libusb did: the bytes if it succeeded, else the status.
Written(k, status, bytes) ==
  IF bytes = Null THEN [events EXCEPT ![k].status = status] ELSE [events EXCEPT ![k].bytes = bytes]

\* The events that the callback of transfer t may leave.  The memory of an event that
\* was freed may by now be that of any other, or of none.
Settle(t, status, bytes) ==
  IF t.place > 0
  THEN {Written(t.place, status, bytes)}
  ELSE {events} \cup {Written(k, status, bytes) : k \in {j \in DOMAIN events : t.place = Gone}}

\* The application may call: nothing runs, or only the loop of a HID query.
Calm == queries # <<>> => Last(queries).stage = "waiting"

MayAsk(r, kind) ==
  /\ real /\ Calm /\ r \in plan.requests /\ Kind[r] = kind
  /\ Len(events) < plan.events /\ Len(session) + Len(saved) + Len(inflight) < plan.session

\* A request that fails before it is recorded.
Refuse(r, answer) ==
  /\ session' = Append(session, [request |-> r, answer |-> answer, place |-> 0])
  /\ reply' = Null
  /\ UNCHANGED <<device, caches, events, event_idx, inflight, replayed, freed, queries, files>>

\* A request that is recorded; Null is the answer of a transfer that is in flight.
Record(r, e, answer) ==
  /\ events' = Recorded(e)
  /\ session' = Append(session, [request |-> r, answer |-> answer, place |-> NextPlace])
  /\ reply' = Null
  /\ UNCHANGED <<device, caches, event_idx, replayed, freed, queries, files>>

RecordBytes(r, bytes, answer) ==
  /\ Record(r, [NewEvent(r) EXCEPT !.bytes = bytes], answer)
  /\ UNCHANGED inflight

\* The whole buffer is recorded, with what was on the stack behind the text.
GetStringDescriptor(r) ==
  /\ MayAsk(r, "string")
  /\ \/ ~open /\ Refuse(r, Error("NOT_OPEN"))
     \/ open /\ \E rc \in Failures : Refuse(r, Error(ErrorCode(rc)))
     \/ open /\ \E text, rest \in Texts : RecordBytes(r, <<text, rest>>, Ok(text))

GetStringDescriptorBytes(r) ==
  /\ MayAsk(r, "bytes")
  /\ \/ ~open /\ Refuse(r, Error("NOT_OPEN"))
     \/ open /\ \E rc \in Failures : Refuse(r, Error(ErrorCode(rc)))
     \/ open /\ \E bytes \in Payloads : RecordBytes(r, bytes, Ok(bytes))

\* Only the first alternate setting of each interface is looked at.
Wanted(f) == \A m \in DOMAIN Class : f.desc[m] = Class[m]

CustomIndex(c) ==
  LET found == {i \in DOMAIN Hardware[c].interfaces : Wanted(Hardware[c].interfaces[i][1])}
  IN IF found = {} THEN 0 ELSE Hardware[c].interfaces[Min(found)][1].desc.Interface

GetCustomIndex(r) ==
  /\ MayAsk(r, "custom")
  /\ \/ \E rc \in Failures : Refuse(r, Error(ErrorCode(rc)))
     \/ CustomIndex(config) = 0 /\ Refuse(r, Error("NOT_SUPPORTED"))
     \/ /\ CustomIndex(config) # 0
        /\ RecordBytes(r, <<CustomIndex(config)>>, Ok(CustomIndex(config)))

\* Without a configuration the function returns 0.
GetConfigurationIndex(r) ==
  /\ MayAsk(r, "config")
  /\ \/ Refuse(r, Ok(0))
     \/ LET n == Hardware[config].iConfiguration IN RecordBytes(r, <<n>>, Ok(n))

\* g_usb_device_*_transfer_async: the event is there before the cancellable is
\* looked at and stays as it was if the cancellable is cancelled.
Transfer(r) ==
  /\ MayAsk(r, "transfer")
  /\ \/ ~open /\ Refuse(r, Error("NOT_OPEN"))
     \/ open /\ Record(r, NewEvent(r), Error("CANCELLED")) /\ UNCHANGED inflight
     \/ open /\ UNCHANGED inflight
        /\ \E rc \in Failures : Record(r, [NewEvent(r) EXCEPT !.rc = rc], Error(ErrorCode(rc)))
     \/ /\ open /\ Record(r, NewEvent(r), Null)
        /\ inflight' = Submitted(r, Len(session) + 1, 0, 0)

\* The callback of a transfer of the application; if its cancellable is cancelled
\* the task reports that instead.
TransferCb(i, cancelled) ==
  LET t == inflight[i]
      Done(status, bytes, answer) ==
        /\ events' \in Settle(t, status, bytes)
        /\ session' = IF t.entry = 0 THEN session
                      ELSE [session EXCEPT ![t.entry].answer = IF cancelled THEN Error("CANCELLED")
                                                               ELSE answer]
        /\ inflight' = RemoveAt(inflight, i)
        /\ reply' = Null
        /\ UNCHANGED <<device, caches, event_idx, replayed, freed, queries, files>>
  IN /\ t.query = 0
     /\ \/ \E bytes \in Payloads : Len(bytes) <= Length /\ Done("COMPLETED", bytes, Ok(bytes))
        \/ \E status \in Statuses : Done(status, Null, Error(StatusCode(status)))

-----------------------------------------------------------------------------
(* Replaying.                                                              *)

\* g_usb_device_load_event starts over when the events are used up, looks for the
\* next event with the key and then for any, and gives its place or 0.
StartIdx == IF event_idx >= Len(events) THEN 0 ELSE event_idx

FindEvent(id) ==
  LET matching == {i \in DOMAIN events : events[i].id = id}
      next == {i \in matching : i > StartIdx}
  IN IF next # {} THEN Min(next) ELSE IF matching # {} THEN Min(matching) ELSE 0

\* What is at the start of the data, which may be empty.
First(bytes) == IF bytes = <<>> THEN Null ELSE bytes[1]

\* What each function of an emulated device makes of the event; a transfer may ask
\* for fewer bytes than a file has.
ReplayEvent(r, e) ==
  IF Kind[r] = "config" THEN Ok(IF e.bytes = Null THEN 0 ELSE First(e.bytes))
  ELSE IF e.rc # "SUCCESS" THEN Error(ErrorCode(e.rc))
  ELSE IF Kind[r] = "transfer" /\ e.status # "COMPLETED" THEN Error(StatusCode(e.status))
  ELSE IF e.bytes = Null THEN Error("INVALID_DATA")
  ELSE CASE Kind[r] = "string" -> Ok(First(e.bytes))
         [] Kind[r] = "bytes" -> Ok(e.bytes)
         [] Kind[r] = "custom" -> IF Len(e.bytes) = 1 THEN Ok(e.bytes[1]) ELSE Error("INVALID_DATA")
         [] Kind[r] = "transfer" -> IF Len(e.bytes) <= Length THEN Ok(e.bytes)
                                    ELSE Error("INVALID_DATA")

NoEvent(r) == IF Kind[r] = "config" THEN Ok(0) ELSE Error("INVALID_DATA")

\* The application repeats the session, over and over.
ReplayNext ==
  LET n == IF replayed = Len(session) THEN 1 ELSE replayed + 1
      r == session[n].request
      place == FindEvent(r)
  IN /\ ~real /\ Calm /\ session # <<>>
     /\ event_idx' = IF place = 0 THEN StartIdx ELSE place
     /\ replayed' = n
     /\ reply' = [entry |-> n,
                  answer |-> IF place = 0 THEN NoEvent(r) ELSE ReplayEvent(r, events[place])]
     /\ UNCHANGED <<device, caches, events, inflight, session, freed, queries, files>>

\* The events are freed, but the requests in flight keep their pointers to them.
Forget == [i \in DOMAIN inflight |->
            [inflight[i] EXCEPT !.place = IF @ = 0 THEN 0 ELSE Gone, !.entry = 0]]
FreedInFlight == \E i \in DOMAIN inflight : inflight[i].place > 0

\* Mutant of ReplaceEvents: the place where the replay goes on is kept.
ReplaceEventsInOrder(es, entries) ==
  /\ events' = es /\ event_idx' = event_idx
  /\ FreedInFlight => plan.clears
  /\ inflight' = Forget /\ freed' = (freed \/ FreedInFlight)
  /\ session' = entries /\ replayed' = 0
  /\ reply' = Null
  /\ UNCHANGED <<device, caches, queries, files>>

\* g_usb_device_clear_events and then g_usb_device_add_event for each of es, which
\* record the requests of entries.
ReplaceEvents(es, entries) ==
  /\ events' = es /\ event_idx' = 0
  /\ FreedInFlight => plan.clears
  /\ inflight' = Forget /\ freed' = (freed \/ FreedInFlight)
  /\ session' = entries /\ replayed' = 0
  /\ reply' = Null
  /\ UNCHANGED <<device, caches, queries, files>>

ClearEvents == Calm /\ ReplaceEvents(<<>>, <<>>)

-----------------------------------------------------------------------------
(* The descriptor caches.                                                  *)

MayQuery == Calm /\ Len(queries) < plan.queries

AllSettings(c) == FlattenSeq(Hardware[c].interfaces)
Empty == [list |-> <<>>, valid |-> FALSE]

\* What g_usb_device_get_interfaces leaves and returns; the call may fail.
FetchInterfaces(list) ==
  LET all == interfaces.list \o AllSettings(config)
  IN \/ interfaces.valid /\ list = interfaces.list /\ UNCHANGED interfaces
     \/ ~interfaces.valid /\ list = Null /\ UNCHANGED interfaces
     \/ ~interfaces.valid /\ real /\ list = all /\ interfaces' = [list |-> all, valid |-> TRUE]

\* g_usb_device_get_bos_descriptors, which USB 2.0 devices do not have.
FetchBos(list) ==
  LET all == bos.list \o Capabilities
  IN \/ bos.valid /\ list = bos.list /\ UNCHANGED bos
     \/ ~bos.valid /\ list = Null /\ UNCHANGED bos
     \/ /\ ~bos.valid /\ real /\ open /\ Identity.desc.USB > 512
        /\ list = all /\ bos' = [list |-> all, valid |-> TRUE]

\* The first interface of the class that is wanted, if any.
FirstWanted(list) ==
  LET found == IF list = Null THEN {} ELSE {i \in DOMAIN list : Wanted(list[i])}
  IN IF found = {} THEN Null ELSE list[Min(found)]

GetInterface ==
  /\ MayQuery
  /\ \E list \in {interfaces.list, interfaces.list \o AllSettings(config), Null} :
       FetchInterfaces(list) /\ reply' = [interface |-> FirstWanted(list)]
  /\ UNCHANGED <<device, bos, hid, disturbed, recording, queries, files>>

GetBosDescriptors ==
  /\ MayQuery
  /\ \E list \in {bos.list, bos.list \o Capabilities, Null} : FetchBos(list)
  /\ reply' = Null
  /\ UNCHANGED <<device, interfaces, hid, disturbed, recording, queries, files>>

\* Mutant of Invalidate: the arrays keep what they have.
InvalidateFlags ==
  /\ Calm /\ plan.queries > 0
  /\ interfaces' = [interfaces EXCEPT !.valid = FALSE]
  /\ bos' = [bos EXCEPT !.valid = FALSE]
  /\ disturbed' = (disturbed \/ queries # <<>> \/ hid # Empty)
  /\ reply' = Null
  /\ UNCHANGED <<device, hid, recording, queries, files>>

\* hid_descriptors_valid stays as it is.
Invalidate ==
  /\ Calm /\ plan.queries > 0
  /\ interfaces' = [list |-> <<>>, valid |-> FALSE]
  /\ bos' = [list |-> <<>>, valid |-> FALSE]
  /\ hid' = [hid EXCEPT !.list = <<>>]
  /\ disturbed' = (disturbed \/ queries # <<>> \/ hid # Empty)
  /\ reply' = Null
  /\ UNCHANGED <<device, recording, queries, files>>

-----------------------------------------------------------------------------
(* The HID descriptors: one control transfer for each interface of class   *)
(* HID, each waited for in a main loop.                                    *)

HidRequest(n) == [hid |-> n]

Frame(saving, list) == [stage |-> "start", saving |-> saving, bos |-> list, at |-> 0, answer |-> Null]

InQuery(stage) == queries # <<>> /\ Last(queries).stage = stage

Go(stage, at, answer) ==
  queries' = [queries EXCEPT ![Len(queries)].stage = stage, ![Len(queries)].at = at,
                             ![Len(queries)].answer = answer]

\* The function returns a list, or Null with an error, which leaves what it has
\* gathered in the array.
Leave(answer) == Go("return", 0, answer)
Fail == Leave(Null) /\ disturbed' = (disturbed \/ hid.list # <<>>) /\ UNCHANGED hid

GetHidDescriptors ==
  /\ MayQuery /\ Len(hid.list) < plan.events
  /\ queries' = Append(queries, Frame(FALSE, Null))
  /\ disturbed' = (disturbed \/ queries # <<>>)
  /\ reply' = Null
  /\ UNCHANGED <<device, interfaces, bos, hid, recording, files>>

HidStart ==
  /\ InQuery("start")
  /\ \/ hid.valid /\ Leave(hid.list) /\ UNCHANGED interfaces
     \/ ~hid.valid /\ ~(real /\ open) /\ Leave(Null) /\ UNCHANGED interfaces
     \/ /\ ~hid.valid /\ real /\ open
        /\ \E list \in {interfaces.list, interfaces.list \o AllSettings(config), Null} :
             /\ FetchInterfaces(list)
             /\ IF list = Null THEN Leave(Null) ELSE Go("scan", 0, Null)
  /\ UNCHANGED <<device, bos, hid, disturbed, recording, files, reply>>

IsHid(f) == f.desc.InterfaceClass = 3

\* The bytes of a descriptor, the endpoints, and the settings of an interface.
Bytes == Seq(0 .. Byte - 1)
Endpoint == [desc : Desc(EndpointMembers), extra : Bytes]
Setting == [desc : Desc(InterfaceMembers), extra : Bytes, endpoints : Seq(Endpoint)]

\* The descriptors are what libusb parses, and each HID interface has its report
\* descriptor; what stands for success is no failure, what stands for none no value.
ASSUME HardwareAssumption ==
  /\ \A c \in DOMAIN Hardware : Hardware[c].interfaces \in
       Seq(Seq({f \in Setting : IsHid(f) => f.desc.InterfaceNumber \in DOMAIN Report}))
  /\ Capabilities \in Seq([desc : Desc(BosMembers), extra : Bytes])
  /\ \A n \in DOMAIN Report : Report[n] # Null /\ HidRequest(n) \notin Requests
  /\ Identity.desc \in Desc(DeviceMembers) /\ Identity.tags \in Seq(STRING \ {""})
  /\ "SUCCESS" \notin Failures /\ "COMPLETED" \notin Statuses
  /\ Null \notin Requests /\ Null \notin Payloads /\ Null \notin Failures /\ Null \notin Statuses

\* The extra bytes of a HID interface are its HID descriptor, which tells how long
\* the report descriptor is.
ReportSize(f) ==
  IF f.extra = Null THEN 0
  ELSE IF Len(f.extra) < 9 \/ f.extra[2] # 33 THEN 0
  ELSE f.extra[8] + 256 * f.extra[9]

\* The array is the one of the cache, so it may have changed since the last step.
HidScan ==
  /\ InQuery("scan")
  /\ LET next == {i \in DOMAIN interfaces.list : i > Last(queries).at /\ IsHid(interfaces.list[i])}
         f == interfaces.list[Min(next)]
         r == HidRequest(f.desc.InterfaceNumber)
     IN \/ /\ next = {}
           /\ hid' = [hid EXCEPT !.valid = TRUE]
           /\ Leave(hid.list)
           /\ UNCHANGED <<disturbed, events, inflight>>
        \/ /\ next # {} /\ (ReportSize(f) = 0 \/ ~open)
           /\ Fail
           /\ UNCHANGED <<events, inflight>>
        \/ /\ next # {} /\ ReportSize(f) # 0 /\ open /\ Len(events) < plan.events
           /\ \E rc \in Failures : events' = Recorded([NewEvent(r) EXCEPT !.rc = rc])
           /\ Fail
           /\ UNCHANGED inflight
        \/ /\ next # {} /\ ReportSize(f) # 0 /\ open /\ Len(events) < plan.events
           /\ events' = Recorded(NewEvent(r))
           /\ inflight' = Submitted(r, 0, Len(queries), ReportSize(f))
           /\ Go("waiting", Min(next), Null)
           /\ UNCHANGED <<hid, disturbed>>
  /\ UNCHANGED <<device, interfaces, bos, event_idx, session, replayed, freed, files, reply>>

\* The callback of such a transfer gives the call that waits its answer.
HidTransferCb(i) ==
  LET t == inflight[i]
      Done(status, bytes) ==
        /\ events' \in Settle(t, status, bytes)
        /\ queries' = [queries EXCEPT ![t.query].answer =
                         IF bytes # Null /\ Len(bytes) = t.size THEN Ok(bytes) ELSE Error(status)]
  IN /\ t.query # 0
     /\ \/ \E bytes \in {Report[t.request.hid], <<>>} : Done("COMPLETED", bytes)
        \/ \E status \in Statuses : Done(status, Null)
     /\ inflight' = RemoveAt(inflight, i)
     /\ reply' = Null
     /\ UNCHANGED <<device, caches, event_idx, session, replayed, freed, files>>

\* Only the innermost main loop returns.
HidAnswer ==
  LET frame == Last(queries)
  IN /\ InQuery("waiting") /\ frame.answer # Null
     /\ IF Failed(frame.answer)
        THEN Fail
        ELSE /\ hid' = [hid EXCEPT !.list = Append(@, frame.answer.ok)]
             /\ Go("scan", frame.at, Null)
             /\ UNCHANGED disturbed
     /\ UNCHANGED <<device, interfaces, bos, recording, files, reply>>

HidReturn ==
  /\ InQuery("return") /\ ~Last(queries).saving
  /\ queries' = Front(queries)
  /\ reply' = [hid |-> Last(queries).answer]
  /\ UNCHANGED <<device, caches, recording, files>>

-----------------------------------------------------------------------------
(* Saving and loading.                                                     *)

\* The BOS descriptors come first, then the HID descriptors.
Save ==
  /\ plan.saves /\ (real => file = Null)
  /\ Calm /\ Len(queries) <= plan.queries /\ Len(hid.list) < plan.events
  /\ \E list \in {bos.list, bos.list \o Capabilities, Null} :
       FetchBos(list) /\ queries' = Append(queries, Frame(TRUE, list))
  /\ disturbed' = (disturbed \/ queries # <<>>)
  /\ reply' = Null
  /\ UNCHANGED <<device, interfaces, hid, recording, files>>

\* Then the interfaces and at last the events, as they are by now.
SaveReturn ==
  /\ InQuery("return") /\ Last(queries).saving
  /\ queries' = Front(queries)
  /\ \E list \in {interfaces.list, interfaces.list \o AllSettings(config), Null} :
       /\ FetchInterfaces(list)
       /\ file' = SaveDevice([Identity EXCEPT !.events = events], Last(queries).bos,
                             Last(queries).answer, list)
  /\ saved' = session
  /\ UNCHANGED <<device, bos, hid, disturbed, recording, reply>>

\* The application goes on with an emulated device that is loaded from the file.
Load ==
  LET d == LoadDevice(file, Null)
  IN /\ queries = <<>> /\ file # Null /\ Loadable(file)
     /\ real' = FALSE /\ open' = FALSE
     /\ interfaces' = [list |-> d.interfaces, valid |-> TRUE]
     /\ bos' = [list |-> d.bos, valid |-> TRUE]
     /\ hid' = [list |-> d.hid, valid |-> TRUE]
     /\ events' = d.events /\ event_idx' = 0 /\ inflight' = <<>>
     /\ session' = saved /\ replayed' = 0
     /\ reply' = Null
     /\ UNCHANGED <<plan, config, disturbed, freed, queries, files>>

\* The context loads the file when it has the device already: the events are
\* replaced (g_usb_context_load_with_tag).
LoadEvents ==
  /\ Calm /\ file # Null /\ Loadable(file)
  /\ ReplaceEvents(LoadDevice(file, Null).events, saved)

-----------------------------------------------------------------------------
(* The handle.                                                             *)

Open ==
  /\ Calm /\ real /\ ~open
  /\ open' = TRUE
  /\ reply' = Null
  /\ UNCHANGED <<plan, real, config, caches, recording, queries, files>>

\* libusb forgets what is in flight.
Close ==
  /\ Calm /\ real /\ open
  /\ open' = FALSE
  /\ inflight' = <<>>
  /\ reply' = Null
  /\ UNCHANGED <<plan, real, config, caches, events, event_idx, session, replayed, freed, queries,
                 files>>

\* The caches keep what they have.
SetConfiguration(c) ==
  /\ Calm /\ real /\ open /\ c \in plan.configs \ {config}
  /\ config' = c
  /\ reply' = Null
  /\ UNCHANGED <<plan, real, open, caches, recording, queries, files>>

-----------------------------------------------------------------------------
Init ==
  /\ plan \in Plans
  /\ real = TRUE /\ open \in BOOLEAN
  /\ config \in plan.configs
  /\ interfaces = Empty /\ bos = Empty /\ hid = Empty
  /\ events = <<>> /\ event_idx = 0 /\ inflight = <<>>
  /\ queries = <<>>
  /\ file = Null
  /\ session = <<>> /\ saved = <<>> /\ replayed = 0
  /\ freed = FALSE /\ disturbed = FALSE
  /\ reply = Null

Ask(r) ==
  \/ GetStringDescriptor(r) \/ GetStringDescriptorBytes(r)
  \/ GetCustomIndex(r) \/ GetConfigurationIndex(r)
  \/ Transfer(r)

Next ==
  \/ \E r \in Requests : Ask(r)
  \/ \E i \in DOMAIN inflight : HidTransferCb(i) \/ \E cancelled \in BOOLEAN : TransferCb(i, cancelled)
  \/ ReplayNext \/ ClearEvents
  \/ GetInterface \/ GetBosDescriptors \/ Invalidate
  \/ GetHidDescriptors \/ HidStart \/ HidScan \/ HidAnswer \/ HidReturn
  \/ Save \/ SaveReturn \/ Load \/ LoadEvents
  \/ Open \/ Close \/ \E c \in DOMAIN Hardware : SetConfiguration(c)

Spec == Init /\ [][Next]_vars

-----------------------------------------------------------------------------
(* Properties.                                                             *)

Place == {Gone} \cup 0 .. Len(events)

\* Types of the state: in particular load_event may go on behind the place it
\* stopped at, and every request points to an event that is there.
TypeOK ==
  /\ {real, open, freed, disturbed} \subseteq BOOLEAN
  /\ config \in DOMAIN Hardware
  /\ {interfaces.valid, bos.valid, hid.valid} \subseteq BOOLEAN
  /\ event_idx \in 0 .. Len(events)
  /\ replayed \in 0 .. Len(session)
  /\ \A i \in DOMAIN inflight : inflight[i].place \in Place
  /\ \A i \in DOMAIN session : session[i].place \in 0 .. Len(events)

\* Each request was either always recorded or never.
Regular == \A i, j \in DOMAIN session :
  session[i].request = session[j].request => (session[i].place = 0 <=> session[j].place = 0)

\* A transfer that is not through when the device is saved, or was cancelled, has
\* no answer that can be repeated.
Settled(entry) == entry.answer \notin {Null, Error("CANCELLED")}

\* An emulated device that is asked what the real one was asked, in the same order,
\* gives the same answers, over and over: "Events can be used to replay device
\* transactions" (g_usb_device_get_events).  A request that failed before it was
\* recorded fails again.
EventsReplay ==
  reply # Null /\ "entry" \in DOMAIN reply /\ Regular /\ SaveEvents =>
    LET entry == session[reply.entry]
    IN IF entry.place # 0
       THEN Settled(entry) => reply.answer = entry.answer
       ELSE reply.answer = entry.answer \/ (Failed(reply.answer) /\ Failed(entry.answer))

\* So it is unless events were freed while transfers in flight pointed to them:
\* load_event finds the event that save_event made for the request, whatever other
\* transfers were in flight, however often the events were saved and loaded, and the
\* functions make the same of it.
ReplayFaithful == ~freed => EventsReplay

\* A device that is loaded from a file and saved again gives the same file:
\* g_usb_device_load reads all that g_usb_device_save wrote.
FileStable ==
  file # Null =>
    LET d == LoadDevice(file, Null)
    IN Loadable(file) /\ SaveDevice(d, d.bos, d.hid, d.interfaces) = file

\* The reports are the HID report descriptors of the first n of the interfaces in list,
\* each once and in order.
ReportsOf(list, n, reports) ==
  LET hids == {i \in 1 .. n : IsHid(list[i])}
  IN \E place \in [DOMAIN reports -> hids] :
       /\ \A j, k \in DOMAIN reports : j < k => place[j] < place[k]
       /\ \A i \in hids : \E k \in DOMAIN reports : place[k] = i
       /\ \A k \in DOMAIN reports : reports[k] = Report[list[place[k]].desc.InterfaceNumber]

\* Interfaces and BOS descriptors of a real device that are valid are those of one
\* configuration, each once, whatever failed or was invalidated before; no HID
\* descriptor is cut short.  The HID descriptors that are valid are those of one
\* configuration, each once, whatever the application did while the query ran its
\* main loop (g_usb_device_set_configuration, other transfers), so long as no query
\* failed half way (the next one returns twice what it got), met another one or was
\* invalidated (HidWhole is what becomes of them then).
CacheWhole ==
  /\ real /\ interfaces.valid => \E c \in DOMAIN Hardware : interfaces.list = AllSettings(c)
  /\ real /\ bos.valid => bos.list = Capabilities
  /\ real => \A i \in DOMAIN hid.list : \E n \in DOMAIN Report : hid.list[i] = Report[n]
  /\ real /\ hid.valid /\ ~disturbed =>
       \E c \in DOMAIN Hardware : ReportsOf(AllSettings(c), Len(AllSettings(c)), hid.list)

\* The event that a transfer in flight points to and that was not freed is one of
\* the device's, has the key of its request and belongs to no other transfer; and if
\* no event was ever freed under a transfer, nothing but the callback settles it
\* (GcmDeviceReq.event, which is no reference).  Settle is about the others.
EventOwned ==
  \A i \in DOMAIN inflight : inflight[i].place > 0 =>
    /\ inflight[i].place \in DOMAIN events
    /\ events[inflight[i].place].id = inflight[i].request
    /\ ~freed => events[inflight[i].place] = NewEvent(inflight[i].request)
    /\ \A j \in DOMAIN inflight \ {i} : inflight[j].place # inflight[i].place

\* A query for the HID descriptors that succeeds returns the descriptor of each HID
\* interface once, whether they are asked for the first time or again after
\* g_usb_device_invalidate (gusb-device.c, g_usb_device_get_hid_descriptors).
HidWhole == reply # Null /\ "hid" \in DOMAIN reply /\ real /\ reply.hid # Null =>
  \E c \in DOMAIN Hardware : ReportsOf(AllSettings(c), Len(AllSettings(c)), reply.hid)
=============================================================================
