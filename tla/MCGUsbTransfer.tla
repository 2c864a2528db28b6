---------------------------- MODULE MCGUsbTransfer ----------------------------
(***************************************************************************)
(* Instances of GUsbTransfer.  Mixed: a synchronous control transfer, an   *)
(* asynchronous bulk transfer and one that another thread starts.  Nested: *)
(* two synchronous control transfers, either of which may run in the other.*)
(***************************************************************************)
EXTENDS GUsbTransfer

CONSTANTS s1, s2, a1, r1

MixedTransfers == {s1, a1, r1}
MixedSync == {s1}
Far == {r1}
NestedTransfers == {s1, s2}
Nobody == {}
=============================================================================
