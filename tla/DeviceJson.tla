------------------------------ MODULE DeviceJson ------------------------------
(***************************************************************************)
(* What gusb writes to a JSON file and reads back: endpoints, interfaces,  *)
(* BOS descriptors, events and devices.  An object leaves out the members  *)
(* that have their default value; an array that would be empty is left     *)
(* out too.  A JSON object is a function of member names.                  *)
(***************************************************************************)
EXTENDS Integers, SequencesExt

CONSTANT Null

-----------------------------------------------------------------------------
(* Members.                                                                *)

\* The members of f, and those of g.
With(f, g) == [k \in DOMAIN f \cup DOMAIN g |-> IF k \in DOMAIN f THEN f[k] ELSE g[k]]

\* The members that a builder was given a value for.
Object(m) == [k \in {x \in DOMAIN m : m[x] # Null} |-> m[k]]

\* json_object_get_{string,int}_member_with_default
Get(json, k, default) == IF k \in DOMAIN json THEN json[k] ELSE default

NonZero(n) == IF n = 0 THEN Null ELSE n
NonEmpty(s) == IF s = <<>> THEN Null ELSE s

\* g_base64_encode and g_base64_decode: the empty string stands for no byte.
Encode(bytes) == IF bytes = Null THEN Null ELSE [base64 |-> bytes]
Decode(str) == IF str = Null THEN Null ELSE str.base64

\* The elements of s that are in T.  SelectSeq would take an operator, of which the
\* provers know nothing.
Select(s, T) ==
  LET sel[n \in 0 .. Len(s)] ==
        IF n = 0 THEN <<>>
        ELSE IF s[n] \in T THEN Append(sel[n - 1], s[n]) ELSE sel[n - 1]
  IN sel[Len(s)]

Array(Save(_), s) == IF s = Null THEN Null ELSE NonEmpty([i \in DOMAIN s |-> Save(s[i])])
Elements(Load(_), a) == IF a = Null THEN <<>> ELSE [i \in DOMAIN a |-> Load(a[i])]

\* The integer members of each descriptor, with the range of the C member.
Byte == 256
Word == 65536

EndpointMembers ==
  [DescriptorType |-> Byte, EndpointAddress |-> Byte, Refresh |-> Byte, Interval |-> Byte,
   SynchAddress |-> Byte, MaxPacketSize |-> Word]

InterfaceMembers ==
  [Length |-> Byte, DescriptorType |-> Byte, InterfaceNumber |-> Byte,
   AlternateSetting |-> Byte, InterfaceClass |-> Byte, InterfaceSubClass |-> Byte,
   InterfaceProtocol |-> Byte, Interface |-> Byte]

BosMembers == [DevCapabilityType |-> Byte]

DeviceMembers ==
  [IdVendor |-> Word, IdProduct |-> Word, Device |-> Word, USB |-> Word,
   Manufacturer |-> Byte, DeviceClass |-> Byte, DeviceSubClass |-> Byte,
   DeviceProtocol |-> Byte, Product |-> Byte, SerialNumber |-> Byte]

Desc(members) ==
  {d \in [DOMAIN members -> 0 .. Word - 1] : \A m \in DOMAIN members : d[m] < members[m]}

SaveDesc(desc) == [m \in DOMAIN desc |-> NonZero(desc[m])]

\* The value of a file is cut to the width of the C member.
LoadDesc(json, members) == [m \in DOMAIN members |-> Get(json, m, 0) % members[m]]

-----------------------------------------------------------------------------
(* The objects.                                                            *)

\* The extra bytes of a descriptor are left out when there are none.
SaveExtra(extra) == Encode(IF extra = <<>> THEN Null ELSE extra)
LoadExtra(json) == Decode(Get(json, "ExtraData", Null))

SaveEndpoint(e) == Object(With([ExtraData |-> SaveExtra(e.extra)], SaveDesc(e.desc)))
LoadEndpoint(json) == [desc |-> LoadDesc(json, EndpointMembers), extra |-> LoadExtra(json)]

SaveBos(b) == Object(With([ExtraData |-> SaveExtra(b.extra)], SaveDesc(b.desc)))
LoadBos(json) == [desc |-> LoadDesc(json, BosMembers), extra |-> LoadExtra(json)]

SaveInterface(f) ==
  Object(With([UsbEndpoints |-> Array(SaveEndpoint, f.endpoints),
               ExtraData |-> SaveExtra(f.extra)],
              SaveDesc(f.desc)))

\* Mutant of LoadInterface: the extra bytes are not read back.
LoadInterfaceNoExtra(json) ==
  [desc |-> LoadDesc(json, InterfaceMembers),
   extra |-> Null,
   endpoints |-> IF "UsbEndpoints" \in DOMAIN json
                 THEN Elements(LoadEndpoint, json["UsbEndpoints"]) ELSE Null]

\* Without the member there is no array, not an empty one.
LoadInterface(json) ==
  [desc |-> LoadDesc(json, InterfaceMembers),
   extra |-> LoadExtra(json),
   endpoints |-> IF "UsbEndpoints" \in DOMAIN json
                 THEN Elements(LoadEndpoint, json["UsbEndpoints"]) ELSE Null]

\* Mutant of SaveEvent: an event that got no bytes is saved as one without data.
SaveEventNonEmpty(e) ==
  Object([Id |-> e.id,
          Status |-> IF e.status = "COMPLETED" THEN Null ELSE e.status,
          Error |-> IF e.rc = "SUCCESS" THEN Null ELSE e.rc,
          Data |-> SaveExtra(e.bytes)])

\* Unlike the extra bytes, data of no bytes is written.
SaveEvent(e) ==
  Object([Id |-> e.id,
          Status |-> IF e.status = "COMPLETED" THEN Null ELSE e.status,
          Error |-> IF e.rc = "SUCCESS" THEN Null ELSE e.rc,
          Data |-> Encode(e.bytes)])

LoadEvent(json) ==
  [id |-> Get(json, "Id", Null),
   status |-> Get(json, "Status", "COMPLETED"),
   rc |-> Get(json, "Error", "SUCCESS"),
   bytes |-> Decode(Get(json, "Data", Null))]

\* A list that could not be queried is Null and left out like an empty one.
SaveDevice(d, bos, hid, interfaces) ==
  Object(With([PlatformId |-> d.platform_id,
               Created |-> [iso8601 |-> d.created],
               Tags |-> NonEmpty(d.tags),
               UsbBosDescriptors |-> Array(SaveBos, bos),
               UsbHidDescriptors |-> Array(Encode, hid),
               UsbInterfaces |-> Array(SaveInterface, interfaces),
               UsbEvents |-> Array(SaveEvent, d.events)],
              SaveDesc(d.desc)))

\* A file need not have been written by gusb: its date may not be one.
Loadable(json) == "Created" \in DOMAIN json => "iso8601" \in DOMAIN json["Created"]

\* Into a new object, whose date of creation is the default.
LoadDevice(json, now) ==
  [platform_id |-> Get(json, "PlatformId", Null),
   created |-> IF "Created" \in DOMAIN json THEN json["Created"].iso8601 ELSE now,
   tags |-> LET tags == Get(json, "Tags", <<>>) IN Select(tags, Range(tags) \ {""}),
   desc |-> LoadDesc(json, DeviceMembers),
   bos |-> Elements(LoadBos, Get(json, "UsbBosDescriptors", Null)),
   hid |-> LET strs == Get(json, "UsbHidDescriptors", <<>>)
           IN Elements(Decode, Select(strs, Range(strs) \ {Null})),
   interfaces |-> Elements(LoadInterface, Get(json, "UsbInterfaces", Null)),
   events |-> Elements(LoadEvent, Get(json, "UsbEvents", Null))]
=============================================================================
