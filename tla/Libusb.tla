------------------------------- MODULE Libusb -------------------------------
(***************************************************************************)
(* The part of libusb that GUsbContext sees: which devices are on the bus, *)
(* and the queue of hotplug messages that the libusb event loop hands to   *)
(* the registered callback.  External code, modelled from the calls made   *)
(* in src/gusb/gusb-context.c.                                             *)
(*                                                                         *)
(* A member of Devs is one "struct libusb_device": one connection of one   *)
(* physical device, so it is plugged at most once.  A device that comes    *)
(* back is another member of Devs on the same port.                        *)
(***************************************************************************)
EXTENDS Naturals, Sequences

CONSTANTS Devs,        \* the libusb_device structures
          Ports,       \* the physical ports; a port determines the platform id
          Addresses,   \* the (bus number, device address) pairs
          Port,        \* Port[d] is the port d is plugged into
          Address,     \* Address[d] is the bus number and address of d
          HasHotplug   \* libusb_has_capability(LIBUSB_CAP_HAS_HOTPLUG)

ASSUME LibusbAssumption ==
  /\ Port \in [Devs -> Ports]
  /\ Address \in [Devs -> Addresses]
  /\ HasHotplug \in BOOLEAN

VARIABLES plug,        \* the state of each device on the bus
          msgs         \* hotplug messages the event thread has not handled

libusbVars == <<plug, msgs>>

Message == [event: {"arrived", "left"}, dev: Devs]

Attached == {d \in Devs : plug[d] = "attached"}

\* No two devices on the bus share a port or a bus address.
BusOK(S) == \A d, e \in S : d # e => Port[d] # Port[e] /\ Address[d] # Address[e]

LibusbInit ==
  /\ plug \in [Devs -> {"absent", "attached"}]
  /\ BusOK(Attached)
  /\ msgs = <<>>

\* A backend without hotplug support posts nothing.
Post(event, d) ==
  msgs' = IF HasHotplug THEN Append(msgs, [event |-> event, dev |-> d]) ELSE msgs

Plug(d) ==
  /\ plug[d] = "absent"
  /\ BusOK(Attached \cup {d})
  /\ plug' = [plug EXCEPT ![d] = "attached"]
  /\ Post("arrived", d)

Unplug(d) ==
  /\ plug[d] = "attached"
  /\ plug' = [plug EXCEPT ![d] = "gone"]
  /\ Post("left", d)
=============================================================================
