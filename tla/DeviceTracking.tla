--------------------------- MODULE DeviceTracking ---------------------------
(***************************************************************************)
(* What the list of a GUsbContext promises to whoever reads it, whichever  *)
(* way it is kept up to date: a device enters the list only after it was   *)
(* plugged in, under an address nobody else on the list has, and leaves it *)
(* only after it was unplugged.  GUsbContext implements this module.       *)
(***************************************************************************)
CONSTANTS Devs, Address

VARIABLES bus,     \* "absent", then "attached", then "gone", for each device
          list     \* the set of listed devices

Init ==
  /\ bus \in [Devs -> {"absent", "attached"}]
  /\ list = {}

Arrive(d) ==
  /\ bus[d] = "absent"
  /\ bus' = [bus EXCEPT ![d] = "attached"]
  /\ UNCHANGED list

Leave(d) ==
  /\ bus[d] = "attached"
  /\ bus' = [bus EXCEPT ![d] = "gone"]
  /\ UNCHANGED list

Add(d) ==
  /\ bus[d] # "absent"
  /\ \A e \in list : Address[e] # Address[d]
  /\ list' = list \cup {d}
  /\ UNCHANGED bus

Remove(d) ==
  /\ d \in list /\ bus[d] = "gone"
  /\ list' = list \ {d}
  /\ UNCHANGED bus

Next == \E d \in Devs : Arrive(d) \/ Leave(d) \/ Add(d) \/ Remove(d)

Spec == Init /\ [][Next]_<<bus, list>>
=============================================================================
