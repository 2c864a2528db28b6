----------------------------- MODULE MCGUsbDevice -----------------------------
(***************************************************************************)
(* Instances of GUsbDevice.                                                *)
(***************************************************************************)
EXTENDS GUsbDevice

CONSTANTS str, xfer, idx, conf, raw, hello, bye

AllRequests == {str, raw, xfer, idx, conf}
KindOf == [r \in AllRequests |->
  CASE r = str -> "string" [] r = raw -> "bytes" [] r = idx -> "custom" [] r = conf -> "config"
    [] r = xfer -> "transfer"]
RecordTexts == {hello}
RecordPayloads == {<<>>}
RecordFailures == {"IO"}
RecordStatuses == {"STALL"}

Alternate(number, alternate, class, extra, endpoints) ==
  [desc |-> [Length |-> 9, DescriptorType |-> 4, InterfaceNumber |-> number,
             AlternateSetting |-> alternate, InterfaceClass |-> class, InterfaceSubClass |-> 0,
             InterfaceProtocol |-> 0, Interface |-> 5],
   extra |-> extra,
   endpoints |-> endpoints]

InEndpoint ==
  [desc |-> [DescriptorType |-> 5, EndpointAddress |-> 129, Refresh |-> 0, Interval |-> 4,
             SynchAddress |-> 0, MaxPacketSize |-> 512],
   extra |-> <<>>]

HidDescriptor(size) == <<9, 33, 17, 1, 0, 1, 34, size, 0>>

Vendor == Alternate(0, 0, 255, <<>>, <<InEndpoint>>)
Mouse(n) == Alternate(n, 0, 3, HidDescriptor(2), <<>>)

RecordHardware ==
  << [iConfiguration |-> 4, interfaces |-> << <<Vendor, Alternate(0, 1, 255, <<>>, <<>>)>>, <<Mouse(1)>> >>],
     [iConfiguration |-> 0, interfaces |-> << <<Mouse(0)>> >>],
     [iConfiguration |-> 0, interfaces |-> << <<Mouse(1)>>, <<Mouse(2)>> >>] >>
RecordCapabilities == << [desc |-> [DevCapabilityType |-> 2], extra |-> <<1>>] >>
RecordReport == [n \in 0 .. 2 |-> <<n, 1>>]
VendorClass == [InterfaceClass |-> 255, InterfaceSubClass |-> 0, InterfaceProtocol |-> 0]

RecordIdentity ==
  [platform_id |-> "usb:01:02", created |-> "today", tags |-> <<"tag">>, events |-> <<>>,
   desc |-> [m \in DOMAIN DeviceMembers |-> IF m = "USB" THEN 768 ELSE IF m = "Product" THEN 0 ELSE 3]]

\* One application makes one request of each kind, one makes the same transfer time
\* and again, one a transfer and another request and clears the events meanwhile;
\* three ask for descriptors, of which one saves the device and one has two HID
\* interfaces in one of the configurations it sets.
TestPlans ==
  {[requests |-> AllRequests, session |-> 2, configs |-> {1}, saves |-> TRUE,
    clears |-> FALSE, queries |-> 0, events |-> 3],
   [requests |-> {xfer}, session |-> 3, configs |-> {1}, saves |-> TRUE,
    clears |-> FALSE, queries |-> 0, events |-> 3],
   [requests |-> {xfer, str}, session |-> 2, configs |-> {1}, saves |-> FALSE,
    clears |-> TRUE, queries |-> 0, events |-> 2],
   [requests |-> {conf}, session |-> 2, configs |-> {1, 2}, saves |-> FALSE,
    clears |-> FALSE, queries |-> 1, events |-> 2],
   [requests |-> {}, session |-> 0, configs |-> {1}, saves |-> TRUE,
    clears |-> FALSE, queries |-> 1, events |-> 2],
   [requests |-> {}, session |-> 0, configs |-> {2, 3}, saves |-> FALSE,
    clears |-> TRUE, queries |-> 1, events |-> 2]}

\* One that asks for the HID descriptors of a device with one HID interface.
HidPlans ==
  {[requests |-> {}, session |-> 0, configs |-> {1}, saves |-> FALSE,
    clears |-> FALSE, queries |-> 1, events |-> 3]}
=============================================================================
