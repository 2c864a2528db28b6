--------------------------- MODULE MCGUsbContext ---------------------------
(* Instances of GUsbContext for TLC: two ports; d1 and d2 are the same       *)
(* physical device before and after a reconnection, d3 is another one.       *)
EXTENDS GUsbContext

CONSTANTS d1, d2, d3, p1, p2, a1, a2, a3

MCPort == [d \in Devs |-> IF d = d3 THEN p2 ELSE p1]

\* Every connection gets an address of its own (hotplug platforms count up).
FreshAddress == [d \in Devs |-> CASE d = d1 -> a1 [] d = d2 -> a2 [] OTHER -> a3]

\* The reconnected device is given its old address again.
ReusedAddress == [d \in Devs |-> IF d = d3 THEN a3 ELSE a1]
=============================================================================
