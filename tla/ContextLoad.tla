------------------------------ MODULE ContextLoad ------------------------------
(***************************************************************************)
(* Saving the devices of a context to a JSON file and loading them again   *)
(* (src/gusb/gusb-context.c), for all devices or for those with a tag,     *)
(* while devices come and go and the application starts anew.              *)
(*                                                                         *)
(* Everything runs in the main thread, and the signal handlers do not call *)
(* back: GUsbContext models those that do.                                 *)
(***************************************************************************)
EXTENDS DeviceJson

CONSTANTS Devices,      \* what may be plugged in
          Port,         \* Port[d]: the platform id of d
          Tags,         \* the tags that are used
          Keys,         \* the keys of the requests that are recorded
          Foreign,      \* files that were not written by this program
          SaveEvents,   \* G_USB_CONTEXT_FLAGS_SAVE_EVENTS
          SaveRemoved,  \* G_USB_CONTEXT_FLAGS_SAVE_REMOVED_DEVICES
          MaxObjects,   \* bound: the objects that are ever made
          MaxEvents     \* bound: the events of one device

TagsOf(json) == Get(json, "Tags", <<>>)

\* A file is an array, and so are the tags of a device.
ASSUME LoadAssumption ==
  /\ {SaveEvents, SaveRemoved} \subseteq BOOLEAN
  /\ {MaxObjects, MaxEvents} \subseteq Nat
  /\ IsFiniteSet(Devices) /\ Null \notin Devices \cup Tags
  /\ \A f \in Foreign :
       /\ f \in Seq(Range(f))
       /\ \A json \in Range(f) : TagsOf(json) \in Seq(Range(TagsOf(json)))

VARIABLES polling,          \* the platform has no hotplug events
          bus,              \* the devices that are plugged in
          objects,          \* the GUsbDevices that were ever made
          devices,          \* priv->devices, by their places in objects
          devices_removed,  \* priv->devices_removed
          done_enumerate,   \* priv->done_enumerate
          hotplug_poll_id,  \* a poll source runs
          file,             \* the file that was saved last
          load,             \* the call of load_with_tag that is under way
          balance,          \* history: how often each object was added and not removed
          reply             \* history: what the last call did

heap == <<objects, devices, devices_removed>>
calls == <<load, reply>>
vars == <<polling, bus, heap, done_enumerate, hotplug_poll_id, file, balance, calls>>

-----------------------------------------------------------------------------
(* Objects.                                                                *)

Idle == load = Null

\* An object is made at the time that is its place in objects.
Now == Len(objects) + 1

\* priv->device is d, or Null for an emulated device.
NewDevice(d, platform_id, created, tags, events) ==
  [device |-> d, platform_id |-> platform_id, created |-> created, tags |-> tags, events |-> events]

\* g_usb_device_has_tag; without a tag every device is meant.
Tagged(tags, tag) == tag # Null => \E i \in DOMAIN tags : tags[i] = tag

TaggedDevices(tag) == Select(devices, {i \in Range(devices) : Tagged(objects[i].tags, tag)})

\* g_usb_context_find_by_platform_id: the first one, or 0.
FindByPlatformId(platform_id) ==
  LET found == {n \in DOMAIN devices : objects[devices[n]].platform_id = platform_id}
  IN IF found = {} THEN 0 ELSE devices[Min(found)]

\* g_usb_context_find_by_bus_address, for a device that is plugged in
ListedAs(d) == Select(devices, {i \in Range(devices) : objects[i].device = d})

\* g_ptr_array_remove, of an array that has e at most once.
Without(s, e) == Select(s, Range(s) \ {e})

\* What the signals s make of balance when there are count objects.
Emit(count, s) ==
  [i \in 1 .. count |->
    (IF i \in DOMAIN balance THEN balance[i] ELSE 0)
    + Cardinality({n \in DOMAIN s : s[n] = <<"device-added", i>>})
    - Cardinality({n \in DOMAIN s : s[n] = <<"device-removed", i>>})]

-----------------------------------------------------------------------------
(* The bus.                                                                *)

\* _g_usb_device_new for each of ds, which add_device then puts on the list.
AddDevices(ds) ==
  LET is == [n \in DOMAIN ds |-> Len(objects) + n]
  IN /\ objects' = objects \o [n \in DOMAIN ds |->
                                 NewDevice(ds[n], Port[ds[n]], Len(objects) + n, <<>>, <<>>)]
     /\ devices' = devices \o is
     /\ balance' = Emit(Len(objects) + Len(is), [n \in DOMAIN is |-> <<"device-added", is[n]>>])

\* A device comes: hotplug_cb drops it until enumerate was called.
Plug(d) ==
  /\ Idle /\ d \notin bus /\ Len(objects) < MaxObjects
  /\ \A e \in bus : Port[e] # Port[d]
  /\ bus' = bus \cup {d}
  /\ IF done_enumerate /\ ~polling /\ ListedAs(d) = <<>>
     THEN AddDevices(<<d>>)
     ELSE UNCHANGED <<objects, devices, balance>>
  /\ reply' = Null
  /\ UNCHANGED <<polling, devices_removed, done_enumerate, hotplug_poll_id, file, load>>

\* g_usb_context_remove_device
RemoveDevice(d) ==
  LET found == ListedAs(d)
  IN IF found = <<>> THEN UNCHANGED <<devices, devices_removed, balance>>
     ELSE /\ devices' = Without(devices, found[1])
          /\ devices_removed' = IF SaveEvents THEN Append(devices_removed, found[1]) ELSE devices_removed
          /\ balance' = Emit(Len(objects), << <<"device-removed", found[1]>> >>)

Unplug(d) ==
  /\ Idle /\ d \in bus
  /\ bus' = bus \ {d}
  /\ UNCHANGED objects
  /\ IF done_enumerate /\ ~polling
     THEN RemoveDevice(d)
     ELSE UNCHANGED <<devices, devices_removed, balance>>
  /\ reply' = Null
  /\ UNCHANGED <<polling, done_enumerate, hotplug_poll_id, file, load>>

\* The devices that libusb has and the list has not, in the order libusb gives them.
Missing == {d \in bus : ListedAs(d) = <<>>}

\* g_usb_context_rescan: an emulated device is none that libusb has.
Rescan ==
  /\ Idle /\ hotplug_poll_id /\ Len(objects) + Cardinality(Missing) <= MaxObjects
  /\ LET kept == {i \in Range(devices) : objects[i].device \in bus}
         gone == Select(devices, Range(devices) \ kept)
         is == [n \in 1 .. Cardinality(Missing) |-> Len(objects) + n]
     IN \E ds \in SetToSeqs(Missing) :
          /\ objects' = objects \o [n \in DOMAIN ds |->
                                      NewDevice(ds[n], Port[ds[n]], Len(objects) + n, <<>>, <<>>)]
          /\ devices' = Select(devices, kept) \o is
          /\ balance' = Emit(Len(objects) + Len(is),
                             [n \in DOMAIN gone |-> <<"device-removed", gone[n]>>]
                             \o [n \in DOMAIN is |-> <<"device-added", is[n]>>])
  /\ reply' = Null
  /\ UNCHANGED <<polling, bus, devices_removed, done_enumerate, hotplug_poll_id, file, load>>

\* g_usb_context_enumerate: only ever once.
Scan ==
  /\ done_enumerate' = TRUE
  /\ IF done_enumerate THEN UNCHANGED <<objects, devices, balance, hotplug_poll_id>>
     ELSE /\ \E ds \in SetToSeqs(Missing) : AddDevices(ds)
          /\ hotplug_poll_id' = polling

Enumerate ==
  /\ Idle /\ ~done_enumerate /\ Len(objects) + Cardinality(Missing) <= MaxObjects
  /\ Scan
  /\ reply' = Null
  /\ UNCHANGED <<polling, bus, devices_removed, file, load>>

-----------------------------------------------------------------------------
(* What the application does with a device.                                *)

Change(i, o) ==
  /\ Idle
  /\ objects' = [objects EXCEPT ![i] = o]
  /\ reply' = Null
  /\ UNCHANGED <<polling, bus, devices, devices_removed, done_enumerate, hotplug_poll_id, file, load,
                 balance>>

\* A request of a device that is plugged in is recorded.
Request(i, key) ==
  /\ SaveEvents /\ objects[i].device # Null /\ Len(objects[i].events) < MaxEvents
  /\ Change(i, [objects[i] EXCEPT !.events =
       Append(@, [id |-> key, status |-> "COMPLETED", rc |-> "SUCCESS", bytes |-> Null])])

\* Mutant of AddTag: a tag is added that is there.
AddTagTwice(i, tag) ==
  Change(i, [objects[i] EXCEPT !.tags = Append(@, tag)])

AddTag(i, tag) ==
  /\ ~Tagged(objects[i].tags, tag)
  /\ Change(i, [objects[i] EXCEPT !.tags = Append(@, tag)])

\* The first one, if a file gave the tag twice.
RemoveTag(i, tag) ==
  LET places == {n \in DOMAIN objects[i].tags : objects[i].tags[n] = tag}
  IN /\ places # {}
     /\ Change(i, [objects[i] EXCEPT !.tags = RemoveAt(@, Min(places))])

-----------------------------------------------------------------------------
(* Saving.                                                                 *)

\* The descriptors of a device have no bearing here.
ToJson(o) == SaveDevice(With(o, [desc |-> [m \in DOMAIN DeviceMembers |-> 0]]), Null, Null, Null)

\* g_usb_context_save_with_tag: the devices that were removed need not have the tag.
Save(tag) ==
  /\ Idle /\ (done_enumerate \/ Len(objects) + Cardinality(bus) <= MaxObjects)
  /\ Scan
  /\ LET is == (IF SaveRemoved THEN devices_removed ELSE <<>>)
               \o TaggedDevices(tag)'
     IN file' = [n \in DOMAIN is |-> ToJson(objects'[is[n]])]
  /\ reply' = Null
  /\ UNCHANGED <<polling, bus, devices_removed, load>>

-----------------------------------------------------------------------------
(* Loading.                                                                *)

Return(ok) ==
  /\ load' = Null
  /\ reply' = [ok |-> ok, file |-> load.file, tag |-> load.tag, signals |-> load.signals,
               before |-> load.before, again |-> load.again]

\* Mutant of LoadStart: all devices will be removed that are not in the file.
LoadStartAll(f, tag) ==
  /\ Idle /\ Len(objects) + Len(f) <= MaxObjects
  /\ done_enumerate' = TRUE
  /\ load' = [file |-> f, tag |-> tag, at |-> 0, remove |-> devices, added |-> <<>>,
              signals |-> <<>>,
              before |-> [devices |-> devices, objects |-> objects],
              again |-> reply # Null /\ "ok" \in DOMAIN reply /\ reply.ok
                        /\ reply.file = f /\ reply.tag = tag]
  /\ reply' = Null
  /\ UNCHANGED <<polling, bus, heap, hotplug_poll_id, file, balance>>

\* The devices that are meant will be removed, but for those that the file has.
LoadStart(f, tag) ==
  /\ Idle /\ Len(objects) + Len(f) <= MaxObjects
  /\ done_enumerate' = TRUE
  /\ load' = [file |-> f, tag |-> tag, at |-> 0, remove |-> TaggedDevices(tag), added |-> <<>>,
              signals |-> <<>>,
              before |-> [devices |-> devices, objects |-> objects],
              again |-> reply # Null /\ "ok" \in DOMAIN reply /\ reply.ok
                        /\ reply.file = f /\ reply.tag = tag]
  /\ reply' = Null
  /\ UNCHANGED <<polling, bus, heap, hotplug_poll_id, file, balance>>

\* Without the array of devices there is nothing but done_enumerate.
LoadNothing ==
  /\ Idle
  /\ done_enumerate' = TRUE
  /\ reply' = Null
  /\ UNCHANGED <<polling, bus, heap, hotplug_poll_id, file, load, balance>>

\* The load goes on as l after it emitted s for object i.
Signal(s, i, l) ==
  /\ load' = [l EXCEPT !.signals = Append(@, <<s, i>>)]
  /\ balance' = Emit(Len(objects), << <<s, i>> >>)

\* Mutant of LoadFails: the objects behind a bad one are left out.
LoadFailsLate(json) ==
  /\ ~Loadable(json)
  /\ load' = [load EXCEPT !.at = Len(load.file)]
  /\ UNCHANGED <<objects, balance, reply>>

LoadFails(json) ==
  /\ ~Loadable(json)
  /\ Return(FALSE)
  /\ UNCHANGED <<objects, balance>>

LoadSkips(json) ==
  /\ Loadable(json) /\ ~Tagged(LoadDevice(json, Now).tags, load.tag)
  /\ load' = [load EXCEPT !.at = @ + 1]
  /\ UNCHANGED <<objects, balance, reply>>

\* The device that the context has for an object of the file, or 0: only the first
\* one with the platform id is looked at.
Existing(d) ==
  LET i == FindByPlatformId(d.platform_id)
  IN IF i # 0 /\ objects[i].created = d.created THEN i ELSE 0

\* Mutant of LoadChanges: the device is changed and will be removed all the same.
LoadChangesAndRemoves(json) ==
  LET d == LoadDevice(json, Now)
      i == Existing(d)
  IN /\ Loadable(json) /\ Tagged(d.tags, load.tag) /\ i # 0
     /\ objects' = [objects EXCEPT ![i].events = d.events]
     /\ Signal("device-changed", i, [load EXCEPT !.at = @ + 1])
     /\ UNCHANGED reply

\* Mutant of LoadChanges: the events of the file come behind those that are there.
LoadChangesAppends(json) ==
  LET d == LoadDevice(json, Now)
      i == Existing(d)
  IN /\ Loadable(json) /\ Tagged(d.tags, load.tag) /\ i # 0
     /\ objects' = [objects EXCEPT ![i].events = @ \o d.events]
     /\ Signal("device-changed", i, [load EXCEPT !.at = @ + 1, !.remove = Without(@, i)])
     /\ UNCHANGED reply

\* The device need not have the tag itself.
LoadChanges(json) ==
  LET d == LoadDevice(json, Now)
      i == Existing(d)
  IN /\ Loadable(json) /\ Tagged(d.tags, load.tag) /\ i # 0
     /\ objects' = [objects EXCEPT ![i].events = d.events]
     /\ Signal("device-changed", i, [load EXCEPT !.at = @ + 1, !.remove = Without(@, i)])
     /\ UNCHANGED reply

LoadKeeps(json) ==
  LET d == LoadDevice(json, Now)
  IN /\ Loadable(json) /\ Tagged(d.tags, load.tag) /\ Existing(d) = 0
     /\ objects' = Append(objects, NewDevice(Null, d.platform_id, d.created, d.tags, d.events))
     /\ load' = [load EXCEPT !.at = @ + 1, !.added = Append(@, Now)]
     /\ balance' = Emit(Now, <<>>)
     /\ UNCHANGED reply

LoadEntry ==
  /\ ~Idle /\ load.at < Len(load.file)
  /\ LET json == load.file[load.at + 1]
     IN LoadFails(json) \/ LoadSkips(json) \/ LoadChanges(json) \/ LoadKeeps(json)
  /\ UNCHANGED <<polling, bus, devices, devices_removed, done_enumerate, hotplug_poll_id, file>>

Read == ~Idle /\ load.at = Len(load.file)

\* Mutant of LoadRemove: the device stays on the list.
LoadRemoveKeep ==
  /\ Read /\ load.remove # <<>>
  /\ Signal("device-removed", Head(load.remove), [load EXCEPT !.remove = Tail(@)])
  /\ devices' = devices
  /\ UNCHANGED <<polling, bus, objects, devices_removed, done_enumerate, hotplug_poll_id, file,
                 reply>>

\* The signal comes before the device goes.
LoadRemove ==
  /\ Read /\ load.remove # <<>>
  /\ Signal("device-removed", Head(load.remove), [load EXCEPT !.remove = Tail(@)])
  /\ devices' = Without(devices, Head(load.remove))
  /\ UNCHANGED <<polling, bus, objects, devices_removed, done_enumerate, hotplug_poll_id, file,
                 reply>>

LoadAdd ==
  /\ Read /\ load.remove = <<>> /\ load.added # <<>>
  /\ devices' = Append(devices, Head(load.added))
  /\ Signal("device-added", Head(load.added), [load EXCEPT !.added = Tail(@)])
  /\ UNCHANGED <<polling, bus, objects, devices_removed, done_enumerate, hotplug_poll_id, file,
                 reply>>

LoadReturn ==
  /\ Read /\ load.remove = <<>> /\ load.added = <<>>
  /\ Return(TRUE)
  /\ UNCHANGED <<polling, bus, heap, done_enumerate, hotplug_poll_id, file, balance>>

-----------------------------------------------------------------------------
Start ==
  /\ devices' = <<>> /\ devices_removed' = <<>>
  /\ done_enumerate' = FALSE /\ hotplug_poll_id' = FALSE
  /\ balance' = [i \in DOMAIN objects |-> 0]
  /\ load' = Null /\ reply' = Null

\* The application ends and starts again with a new context; the file is still there.
Restart ==
  /\ Idle /\ done_enumerate /\ Len(objects) < MaxObjects
  /\ Start
  /\ UNCHANGED <<polling, bus, objects, file>>

Init ==
  /\ polling \in BOOLEAN
  /\ bus \in SUBSET Devices /\ \A d, e \in bus : Port[d] = Port[e] => d = e
  /\ objects = <<>> /\ devices = <<>> /\ devices_removed = <<>>
  /\ done_enumerate = FALSE /\ hotplug_poll_id = FALSE
  /\ file = Null /\ load = Null
  /\ balance = <<>> /\ reply = Null

Files == (IF file = Null THEN {} ELSE {file}) \cup Foreign

Next ==
  \/ \E d \in Devices : Plug(d) \/ Unplug(d)
  \/ Rescan \/ Enumerate
  \/ \E i \in Range(devices) :
       \/ \E key \in Keys : Request(i, key)
       \/ \E tag \in Tags : AddTag(i, tag) \/ RemoveTag(i, tag)
  \/ \E tag \in Tags \cup {Null} : Save(tag) \/ \E f \in Files : LoadStart(f, tag)
  \/ LoadNothing \/ LoadEntry \/ LoadRemove \/ LoadAdd \/ LoadReturn
  \/ Restart

Spec == Init /\ [][Next]_vars

-----------------------------------------------------------------------------
(* Properties.                                                             *)

\* Types of the state: every number is the place of an object, a device that is no
\* file's has no tag twice, and a load only ever removes devices that are listed and
\* adds some that are not.
TypeOK ==
  /\ {polling, done_enumerate, hotplug_poll_id} \subseteq BOOLEAN
  /\ bus \subseteq Devices
  /\ Range(devices) \cup Range(devices_removed) \subseteq DOMAIN objects
  /\ balance \in [DOMAIN objects -> {0, 1}]
  /\ \A i \in DOMAIN objects : objects[i].device # Null => IsInjective(objects[i].tags)
  /\ ~Idle => /\ Range(load.remove) \subseteq Range(devices)
              /\ Range(load.added) \subseteq DOMAIN objects \ Range(devices)

\* An object is on priv->devices once if its last signal was device-added and is not
\* on it otherwise, whatever mixture of loads, scans, hotplug events and polls put it
\* there or took it away.
SignalsBalance ==
  \A i \in DOMAIN balance :
    Cardinality({n \in DOMAIN devices : devices[n] = i}) = balance[i]

Loaded == reply # Null /\ "ok" \in DOMAIN reply

\* The devices of a file that a load with this tag is about.
Meant(f, tag) ==
  LET ds == [n \in DOMAIN f |-> LoadDevice(f[n], Null)]
  IN Select(ds, {d \in Range(ds) : Tagged(d.tags, tag)})

Key(d) == <<d.platform_id, d.created>>
Content(d) == <<d.platform_id, d.created, d.events>>

\* No device twice, and each with its date of creation.
Plain(ds) == IsInjective([n \in DOMAIN ds |-> Key(ds[n])]) /\ \A n \in DOMAIN ds : ds[n].created # Null

\* A device that is listed without the tag and that the file has with it.
Stranger(ds) ==
  \E i \in Range(reply.before.devices) :
    LET o == reply.before.objects[i]
    IN ~Tagged(o.tags, reply.tag) /\ \E n \in DOMAIN ds : Key(ds[n]) = Key(o)

\* After g_usb_context_load_with_tag succeeded, the devices with the tag are those that
\* the file has with the tag, each once and with the events of the file, be those that
\* were listed before real or emulated.  It is said of files that name each device once,
\* with a date, and of lists on which no device of the file is without the tag.
LoadReplaces ==
  Loaded =>
    LET ds == Meant(reply.file, reply.tag)
        is == TaggedDevices(reply.tag)
    IN reply.ok /\ Plain(ds) /\ ~Stranger(ds) =>
         /\ Len(is) = Len(ds)
         /\ {Content(objects[is[n]]) : n \in DOMAIN is} = {Content(ds[n]) : n \in DOMAIN ds}

\* Loading the same file once more only emits device-changed, once for each device
\* (gusb-self-test.c, "load the same data"), as long as no two devices of the list
\* share a platform id.
ReloadIsQuiet ==
  Loaded =>
    LET ds == Meant(reply.file, reply.tag)
        ids == [n \in DOMAIN reply.before.devices |->
                  reply.before.objects[reply.before.devices[n]].platform_id]
    IN reply.ok /\ reply.again /\ Plain(ds) /\ IsInjective(ids) =>
         /\ Len(reply.signals) = Len(ds)
         /\ \A n \in DOMAIN reply.signals : reply.signals[n][1] = "device-changed"

Untagged(is, objs, tag) == Select(is, {i \in Range(is) : ~Tagged(objs[i].tags, tag)})

\* A load with a tag leaves the devices without the tag where they are, among them
\* those that are plugged in.
UntaggedStay ==
  Loaded =>
    Untagged(devices, objects, reply.tag) =
    Untagged(reply.before.devices, reply.before.objects, reply.tag)

\* A file with a device that cannot be read is refused and no device comes or goes; yet
\* the events of those that were read before it are replaced.
BadFileRefused ==
  Loaded /\ (\E n \in DOMAIN reply.file : ~Loadable(reply.file[n])) =>
    /\ ~reply.ok /\ devices = reply.before.devices
    /\ \A i \in DOMAIN reply.before.objects :
         \/ objects[i] = reply.before.objects[i]
         \/ \E n \in DOMAIN reply.file :
              LET d == LoadDevice(reply.file[n], objects[i].created)
              IN Loadable(reply.file[n]) /\ Key(d) = Key(objects[i])
                 /\ objects[i] = [reply.before.objects[i] EXCEPT !.events = d.events]
=============================================================================
