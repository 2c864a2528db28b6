-------------------------- MODULE GUsbContext_proofs --------------------------
(***************************************************************************)
(* Proofs about GUsbContext, for every set of devices, ports, addresses    *)
(* and intervals, any depth of re-entrancy and any number of calls: the    *)
(* types hold, each replug helper waits for one device and is silent, no   *)
(* address is listed twice, the list implements DeviceTracking, the        *)
(* pointers that rescan borrows from the list stay good while signal       *)
(* handlers run, and the signals add up to the list.                       *)
(***************************************************************************)
EXTENDS GUsbContext, SequenceLemmas, FiniteSetTheorems, TLAPS

-----------------------------------------------------------------------------
(* The stack.                                                              *)

\* The part of the invariant about the stack and the replug helpers on it.
StackOK(st, dict) ==
  /\ st \in Seq(Frame)
  /\ dict \in [Ports -> 0..Len(st)]
  /\ \A p \in Ports : dict[p] # 0 => st[dict[p]].fn = "replug" /\ st[dict[p]].pid = p
  /\ \A k \in DOMAIN st : st[k].fn = "replug" => Port[st[k].device] = st[k].pid

LEMMA FrameKinds ==
  ASSUME NEW f \in Frame
  PROVE  /\ f.fn = "enumerate" => f \in EnumerateFrame
         /\ f.fn = "rescan" => f \in RescanFrame
         /\ f.fn = "dispatch" => f \in DispatchFrame
         /\ f.fn = "handler" => f = Handler
         /\ f.fn = "replug" => f \in ReplugFrame
BY DEF Frame, EnumerateFrame, RescanFrame, DispatchFrame, HandlerFrame, ReplugFrame, Handler

LEMMA PushOK ==
  ASSUME NEW st, NEW dict, StackOK(st, dict),
         NEW f \in Frame, f.fn = "replug" => Port[f.device] = f.pid
  PROVE  StackOK(Append(st, f), dict)
BY DEF StackOK

LEMMA PopOK ==
  ASSUME NEW st, NEW dict, StackOK(st, dict), st # <<>>, st[Len(st)].fn # "replug"
  PROVE  StackOK(Front(st), dict)
<1>1. /\ Front(st) \in Seq(Frame)
      /\ Len(Front(st)) = Len(st) - 1
      /\ \A i \in 1..(Len(st) - 1) : Front(st)[i] = st[i]
  BY FrontIsSeq DEF StackOK
<1>2. \A p \in Ports : dict[p] # Len(st)
  BY DEF StackOK
<1>3. dict \in [Ports -> 0..(Len(st) - 1)]
  <2>1. Len(st) \in Nat \ {0} /\ dict \in [Ports -> 0..Len(st)]
    BY EmptySeq DEF StackOK
  <2>2. \A p \in Ports : dict[p] \in 0..(Len(st) - 1)
    BY <1>2, <2>1
  <2> QED
    BY <2>1, <2>2
<1>4. \A k \in DOMAIN Front(st) : k \in DOMAIN st /\ Front(st)[k] = st[k]
  <2>1. /\ DOMAIN Front(st) = 1..(Len(st) - 1) /\ DOMAIN st = 1..Len(st)
        /\ Len(st) \in Nat
    BY <1>1, LenProperties DEF StackOK
  <2> QED
    BY <1>1, <2>1
<1>5. \A p \in Ports : dict[p] # 0 => Front(st)[dict[p]] = st[dict[p]]
  BY <1>1, <1>3
<1> QED
  BY <1>1, <1>3, <1>4, <1>5 DEF StackOK

LEMMA StepOK ==
  ASSUME NEW dict, StackOK(stack, dict), stack # <<>>, Top.fn # "replug",
         NEW f \in Frame, f.fn # "replug"
  PROVE  StackOK(Step(f), dict) /\ Step(f) # <<>> /\ Len(Step(f)) = Len(stack)
BY DEF StackOK, Step, Top

LEMMA RepluggedOK ==
  ASSUME LibusbAssumption, NEW st, StackOK(st, dictReplug), NEW d \in Devs,
         dictReplug[Port[d]] # 0
  PROVE  StackOK(Replugged(d, st), dictReplug)
<1> DEFINE k == dictReplug[Port[d]]
           q == IF st[k].quit = "no" THEN "replugged" ELSE st[k].quit
           f == [[st[k] EXCEPT !.device = d] EXCEPT !.quit = q]
<1>1. /\ Port[d] \in Ports /\ k \in DOMAIN st
      /\ st[k] \in Frame /\ st[k].fn = "replug" /\ st[k].pid = Port[d]
  BY DEF StackOK, LibusbAssumption
<1>2. st[k] \in ReplugFrame
  BY <1>1, FrameKinds
<1>3. f \in ReplugFrame /\ f.fn = "replug" /\ f.pid = Port[d] /\ f.device = d
  BY <1>1, <1>2 DEF ReplugFrame
<1>4. Replugged(d, st) = [st EXCEPT ![k] = f]
  BY <1>1, <1>2 DEF Replugged, ReplugFrame, StackOK
<1> QED
  BY <1>1, <1>3, <1>4 DEF StackOK, Frame

-----------------------------------------------------------------------------
(* Type correctness, together with ReplugHelperLive.                       *)

\* The part of TypeOK that is not about the stack.
DataOK ==
  /\ plug \in [Devs -> {"absent", "attached", "gone"}]
  /\ msgs \in Seq(Message) /\ idleEvents \in Seq(Message)
  /\ {doneEnumerate, idleQueued, reentered} \subseteq BOOLEAN
  /\ devices \in Seq(Devs)
  /\ {devicesRemoved, dropped, failed} \subseteq SUBSET Devs
  /\ pollId \in 0..lastSource /\ lastSource \in Nat /\ pollInterval \in Nat
  /\ waits \in Nat
  /\ announced \in [Ports -> Int]

TypeInv == DataOK /\ StackOK(stack, dictReplug)

LEMMA TypeInvImplies == TypeInv => TypeOK /\ ReplugHelperLive
<1> SUFFICES ASSUME TypeInv PROVE TypeOK /\ ReplugHelperLive
  OBVIOUS
<1>1. TypeOK
  BY DEF TypeInv, DataOK, StackOK, TypeOK
<1>2. DOMAIN stack = 1..Len(stack)
  BY DEF TypeInv, StackOK
<1>3. ReplugHelperLive
  BY <1>2 DEF TypeInv, StackOK, ReplugHelperLive
<1> QED
  BY <1>1, <1>3

LEMMA EmitAddOK ==
  ASSUME LibusbAssumption, announced \in [Ports -> Int],
         NEW d \in Devs, NEW st, StackOK(st, dictReplug), EmitDeviceAdd(d, st)
  PROVE  announced' \in [Ports -> Int] /\ StackOK(stack', dictReplug)
<1>1. Handler \in Frame /\ Handler.fn # "replug"
  BY DEF Handler, Frame, HandlerFrame
<1>2. StackOK(Append(st, Handler), dictReplug)
  BY <1>1, PushOK
<1>3. announced' \in [Ports -> Int]
  BY DEF EmitDeviceAdd, LibusbAssumption
<1> QED
  BY <1>2, <1>3 DEF EmitDeviceAdd

LEMMA EmitRemoveOK ==
  ASSUME LibusbAssumption, announced \in [Ports -> Int],
         NEW d \in Devs, NEW st, NEW dict, StackOK(st, dict), EmitDeviceRemove(d, st)
  PROVE  announced' \in [Ports -> Int] /\ StackOK(stack', dict)
<1>1. Handler \in Frame /\ Handler.fn # "replug"
  BY DEF Handler, Frame, HandlerFrame
<1>2. StackOK(Append(st, Handler), dict)
  BY <1>1, PushOK
<1>3. announced' \in [Ports -> Int]
  BY DEF EmitDeviceRemove, LibusbAssumption
<1> QED
  BY <1>2, <1>3 DEF EmitDeviceRemove

LEMMA AddDeviceOK ==
  ASSUME LibusbAssumption, DataOK,
         NEW d \in Devs, NEW st, StackOK(st, dictReplug), AddDevice(d, st)
  PROVE  /\ announced' \in [Ports -> Int] /\ StackOK(stack', dictReplug)
         /\ devices' \in Seq(Devs) /\ failed' \subseteq Devs
<1>1. devices \in Seq(Devs) /\ failed \subseteq Devs /\ announced \in [Ports -> Int]
  BY DEF DataOK
<1>2. devices' \in Seq(Devs) /\ failed' \subseteq Devs
  <2>1. \/ devices' = devices /\ failed' = failed
        \/ devices' = devices /\ failed' = failed \cup {d}
        \/ devices' = Append(devices, d) /\ failed' = failed
    BY Zenon DEF AddDevice
  <2>2. Append(devices, d) \in Seq(Devs) /\ failed \cup {d} \subseteq Devs
    BY <1>1, AppendProperties
  <2> QED
    BY <1>1, <2>1, <2>2
<1>3. CASE stack' = st /\ UNCHANGED announced
  BY <1>1, <1>2, <1>3
<1>4. CASE dictReplug[Port[d]] # 0 /\ stack' = Replugged(d, st) /\ UNCHANGED announced
  BY <1>1, <1>2, <1>4, RepluggedOK
<1>5. CASE EmitDeviceAdd(d, st)
  BY <1>1, <1>2, <1>5, EmitAddOK
<1> QED
  BY <1>3, <1>4, <1>5 DEF AddDevice

LEMMA RemoveDeviceOK ==
  ASSUME LibusbAssumption, DataOK,
         NEW d \in Devs, NEW st, StackOK(st, dictReplug), RemoveDevice(d, st)
  PROVE  /\ announced' \in [Ports -> Int] /\ StackOK(stack', dictReplug)
         /\ devices' \in Seq(Devs) /\ devicesRemoved' \subseteq Devs
<1>1. devices \in Seq(Devs) /\ devicesRemoved \subseteq Devs /\ announced \in [Ports -> Int]
  BY DEF DataOK
<1>2. CASE stack' = st /\ UNCHANGED <<devices, devicesRemoved, announced>>
  BY <1>1, <1>2
<1>3. ASSUME NEW i \in DOMAIN devices,
             devicesRemoved' = devicesRemoved \cup (IF SaveEvents THEN {devices[i]} ELSE {}),
             devices' = RemoveAt(devices, i),
             IF dictReplug[Port[devices[i]]] # 0
             THEN stack' = st /\ UNCHANGED announced
             ELSE EmitDeviceRemove(devices[i], st)
      PROVE  /\ announced' \in [Ports -> Int] /\ StackOK(stack', dictReplug)
             /\ devices' \in Seq(Devs) /\ devicesRemoved' \subseteq Devs
  <2>1. devices[i] \in Devs
    BY <1>1
  <2>2. devices' \in Seq(Devs) /\ devicesRemoved' \subseteq Devs
    BY <1>1, <1>3, <2>1, RemoveAtIsSeq
  <2>3. CASE stack' = st /\ UNCHANGED announced
    BY <1>1, <2>2, <2>3
  <2>4. CASE EmitDeviceRemove(devices[i], st)
    BY <1>1, <2>1, <2>2, <2>4, EmitRemoveOK
  <2> QED
    BY <1>3, <2>3, <2>4
<1> QED
  BY <1>2, <1>3 DEF RemoveDevice

\* A frame that is replaced by one of the same kind, which waits for nothing.
LEMMA TopFrame ==
  ASSUME StackOK(stack, dictReplug), stack # <<>>
  PROVE  /\ Top \in Frame /\ Len(stack) \in DOMAIN stack
         /\ (Top.fn = "enumerate" => Top \in EnumerateFrame)
         /\ (Top.fn = "rescan" => Top \in RescanFrame)
         /\ (Top.fn = "dispatch" => Top \in DispatchFrame)
         /\ (Top.fn = "replug" => Top \in ReplugFrame)
<1>1. Top \in Frame /\ Len(stack) \in DOMAIN stack
  BY EmptySeq, LenProperties DEF StackOK, Top
<1> QED
  BY <1>1, FrameKinds

LEMMA PopTopOK ==
  ASSUME StackOK(stack, dictReplug), stack # <<>>, Top.fn # "replug"
  PROVE  StackOK(Below, dictReplug)
BY PopOK DEF Top, Below

\* A helper that is replaced by one for the same device.
LEMMA ReplaceHelperOK ==
  ASSUME StackOK(stack, dictReplug), NEW k \in DOMAIN stack, stack[k].fn = "replug",
         NEW f \in ReplugFrame, f.pid = stack[k].pid, f.device = stack[k].device,
         f.fn = "replug"
  PROVE  StackOK([stack EXCEPT ![k] = f], dictReplug)
BY DEF StackOK, Frame

LEMMA RegisterOK ==
  ASSUME NEW st, StackOK(st, dictReplug), NEW p \in Ports,
         NEW k, k = Len(st), k \in Nat \ {0}, st[k].fn = "replug", st[k].pid = p
  PROVE  StackOK(st, [dictReplug EXCEPT ![p] = k])
BY DEF StackOK

LEMMA UnregisterOK ==
  ASSUME StackOK(stack, dictReplug), stack # <<>>, Top.fn = "replug"
  PROVE  StackOK(Below, [dictReplug EXCEPT ![Top.pid] = 0])
<1> DEFINE dict == [dictReplug EXCEPT ![Top.pid] = 0]
           n == Len(stack)
<1>1. /\ Below \in Seq(Frame) /\ Len(Below) = n - 1
      /\ \A i \in 1..(n - 1) : Below[i] = stack[i]
  BY FrontIsSeq DEF StackOK, Below
<1>2. n \in Nat \ {0} /\ DOMAIN stack = 1..n /\ DOMAIN Below = 1..(n - 1)
  BY <1>1, EmptySeq, LenProperties DEF StackOK
<1>3. \A p \in Ports : dict[p] \in 0..n /\ dict[p] # n /\ (dict[p] # 0 => dict[p] = dictReplug[p])
  BY <1>2 DEF StackOK, Top
<1>4. dict \in [Ports -> 0..(n - 1)]
  <2>1. \A p \in Ports : dict[p] \in 0..(n - 1)
    BY <1>2, <1>3
  <2> QED
    BY <2>1 DEF StackOK
<1>5. \A p \in Ports : dict[p] # 0 => Below[dict[p]] = stack[dictReplug[p]]
  BY <1>1, <1>2, <1>3, <1>4
<1>6. \A i \in DOMAIN Below : i \in DOMAIN stack /\ Below[i] = stack[i]
  BY <1>1, <1>2
<1> HIDE DEF dict
<1>7. StackOK(Below, dict)
  BY <1>1, <1>3, <1>4, <1>5, <1>6 DEF StackOK
<1> QED
  BY <1>7 DEF dict

LEMMA RescanFrameOK ==
  ASSUME NEW source \in Nat, devices \in Seq(Devs)
  PROVE  Rescan(source) \in Frame /\ Rescan(source).fn = "rescan"
<1>1. Reverse(devices) \in Seq(Devs)
  BY ReverseIsSeq
<1>2. Attached \subseteq Devs
  BY DEF Attached
<1> QED
  BY <1>1, <1>2 DEF Rescan, Frame, RescanFrame

LEMMA TypeInit == ContextAssumption /\ Init => TypeInv
<1> SUFFICES ASSUME ContextAssumption, Init PROVE TypeInv
  OBVIOUS
<1>1. DataOK
  <2>1. plug \in [Devs -> {"absent", "attached", "gone"}]
    BY DEF Init, LibusbInit
  <2>2. /\ msgs \in Seq(Message) /\ idleEvents \in Seq(Message) /\ devices \in Seq(Devs)
    BY EmptySeq DEF Init, LibusbInit
  <2>4. /\ {doneEnumerate, idleQueued, reentered} \subseteq BOOLEAN
        /\ {devicesRemoved, dropped, failed} \subseteq SUBSET Devs
    BY DEF Init
  <2>3. /\ pollId \in 0..lastSource /\ lastSource \in Nat /\ pollInterval \in Nat
        /\ waits \in Nat /\ announced \in [Ports -> Int]
    BY DEF Init, ContextAssumption
  <2> QED
    BY <2>1, <2>2, <2>3, <2>4 DEF DataOK
<1>2. StackOK(stack, dictReplug)
  BY DEF Init, StackOK
<1> QED
  BY <1>1, <1>2 DEF TypeInv

LEMMA TypeNext ==
  LibusbAssumption /\ ContextAssumption /\ TypeInv /\ [Next]_vars => TypeInv'
<1> SUFFICES ASSUME LibusbAssumption, ContextAssumption, TypeInv, [Next]_vars
             PROVE  DataOK' /\ StackOK(stack', dictReplug')
  BY DEF TypeInv, StackOK
<1>0. DataOK /\ StackOK(stack, dictReplug)
  BY DEF TypeInv
<1>1. CASE Bus
  <2>1. plug' \in [Devs -> {"absent", "attached", "gone"}]
    BY <1>0, <1>1 DEF DataOK, Bus, Plug, Unplug
  <2>2. msgs' \in Seq(Message)
    <3>1. PICK d \in Devs : Post("arrived", d) \/ Post("left", d)
      BY <1>1 DEF Bus, Plug, Unplug
    <3>2. /\ [event |-> "arrived", dev |-> d] \in Message
          /\ [event |-> "left", dev |-> d] \in Message
      BY DEF Message
    <3>3. /\ msgs \in Seq(Message)
          /\ Append(msgs, [event |-> "arrived", dev |-> d]) \in Seq(Message)
          /\ Append(msgs, [event |-> "left", dev |-> d]) \in Seq(Message)
      BY <1>0, <3>2, AppendProperties DEF DataOK
    <3> QED
      BY <3>1, <3>3, Zenon DEF Post
  <2> QED
    BY <1>0, <1>1, <2>1, <2>2 DEF DataOK, Bus, listVars, queueVars, pollVars
<1>2. CASE HotplugCb
  <2>1. Head(msgs) \in Message /\ Tail(msgs) \in Seq(Message)
    BY <1>0, <1>2, HeadTailProperties DEF DataOK, HotplugCb
  <2>2. Append(idleEvents, Head(msgs)) \in Seq(Message) /\ Head(msgs).dev \in Devs
    BY <1>0, <2>1, AppendProperties DEF DataOK, Message
  <2>3. idleEvents' \in Seq(Message) /\ idleQueued' \in BOOLEAN /\ dropped' \subseteq Devs
    BY <1>0, <1>2, <2>2 DEF DataOK, HotplugCb
  <2> QED
    BY <1>0, <1>2, <2>1, <2>3 DEF DataOK, HotplugCb, listVars, pollVars
<1>3. CASE IdleHotplugCb
  <2>1. [fn |-> "dispatch", batch |-> idleEvents] \in Frame
    BY <1>0 DEF DataOK, Frame, DispatchFrame
  <2>2. StackOK(stack', dictReplug)
    BY <1>0, <1>3, <2>1, PushOK DEF IdleHotplugCb
  <2>3. <<>> \in Seq(Message) /\ reentered' \in BOOLEAN
    BY <1>3 DEF IdleHotplugCb, InHandler, DataOK
  <2> QED
    BY <1>0, <1>3, <2>2, <2>3 DEF DataOK, IdleHotplugCb, libusbVars, listVars, pollVars
<1>4. CASE DispatchNext
  <2> DEFINE event == Head(Top.batch)
             f == [Top EXCEPT !.batch = Tail(@)]
  <2>1. stack # <<>> /\ Top.fn = "dispatch" /\ Top.batch # <<>>
    BY <1>4 DEF DispatchNext, Running
  <2>2. Top \in DispatchFrame
    BY <1>0, <2>1, TopFrame
  <2>3. event \in Message /\ event.dev \in Devs /\ f \in Frame /\ f.fn = "dispatch"
    <3>1. Top.batch \in Seq(Message)
      BY <2>2 DEF DispatchFrame
    <3>2. event \in Message /\ Tail(Top.batch) \in Seq(Message)
      BY <2>1, <3>1, HeadTailProperties
    <3>3. f \in DispatchFrame
      BY <2>2, <3>2 DEF DispatchFrame
    <3> QED
      BY <3>2, <3>3 DEF Message, Frame, DispatchFrame
  <2>4. StackOK(Step(f), dictReplug)
    BY <1>0, <2>1, <2>3, StepOK
  <2>5. \/ AddDevice(event.dev, Step(f)) /\ UNCHANGED devicesRemoved
        \/ RemoveDevice(event.dev, Step(f)) /\ UNCHANGED failed
    BY <1>4 DEF DispatchNext
  <2> HIDE DEF event, f
  <2>6. CASE AddDevice(event.dev, Step(f)) /\ UNCHANGED devicesRemoved
    <3>1. /\ announced' \in [Ports -> Int] /\ StackOK(stack', dictReplug)
          /\ devices' \in Seq(Devs) /\ failed' \subseteq Devs
      BY <1>0, <2>3, <2>4, <2>6, AddDeviceOK
    <3> QED
      BY <1>0, <1>4, <2>6, <3>1 DEF DataOK, DispatchNext, libusbVars, queueVars, pollVars
  <2>7. CASE RemoveDevice(event.dev, Step(f)) /\ UNCHANGED failed
    <3>1. /\ announced' \in [Ports -> Int] /\ StackOK(stack', dictReplug)
          /\ devices' \in Seq(Devs) /\ devicesRemoved' \subseteq Devs
      BY <1>0, <2>3, <2>4, <2>7, RemoveDeviceOK
    <3> QED
      BY <1>0, <1>4, <2>7, <3>1 DEF DataOK, DispatchNext, libusbVars, queueVars, pollVars
  <2> QED
    BY <2>5, <2>6, <2>7
<1>5. CASE DispatchReturn \/ RescanReturn \/ EnumerateReturn \/ HandlerReturn
  <2>1. /\ stack # <<>> /\ Top.fn # "replug" /\ stack' = Below
        /\ UNCHANGED <<coreVars, dictReplug, waits, announced, reentered>>
    BY <1>5 DEF DispatchReturn, RescanReturn, EnumerateReturn, HandlerReturn, Running
  <2>2. StackOK(Below, dictReplug)
    BY <1>0, <2>1, PopTopOK
  <2> QED
    BY <1>0, <2>1, <2>2 DEF DataOK, coreVars, libusbVars, listVars, queueVars, pollVars
<1>6. CASE RescanCheck
  <2> DEFINE d == Head(Top.existing)
             f == [Top EXCEPT !.existing = Tail(@)]
             g == [f EXCEPT !.removing = {d}]
  <2>1. stack # <<>> /\ Top.fn = "rescan" /\ Top.existing # <<>>
    BY <1>6 DEF RescanCheck, Running
  <2>2. d \in Devs /\ f \in Frame /\ f.fn = "rescan" /\ g \in Frame /\ g.fn = "rescan"
    <3>1. Top \in RescanFrame /\ Top.existing \in Seq(Devs)
      BY <1>0, <2>1, TopFrame DEF RescanFrame
    <3>2. d \in Devs /\ Tail(Top.existing) \in Seq(Devs)
      BY <2>1, <3>1, HeadTailProperties
    <3>3. f \in RescanFrame
      BY <3>1, <3>2 DEF RescanFrame
    <3>4. g \in RescanFrame
      BY <3>2, <3>3 DEF RescanFrame
    <3> QED
      BY <3>2, <3>3, <3>4 DEF Frame, RescanFrame
  <2>3. StackOK(Step(f), dictReplug) /\ StackOK(Step(g), dictReplug)
    BY <1>0, <2>1, <2>2, StepOK
  <2>4. \/ stack' = Step(f) /\ UNCHANGED announced
        \/ EmitDeviceRemove(d, Step(g))
    BY <1>6 DEF RescanCheck
  <2>5. announced \in [Ports -> Int]
    BY <1>0 DEF DataOK
  <2> HIDE DEF d, f, g
  <2>6. announced' \in [Ports -> Int] /\ StackOK(stack', dictReplug)
    BY <2>2, <2>3, <2>4, <2>5, EmitRemoveOK
  <2> QED
    BY <1>0, <1>6, <2>6
    DEF DataOK, RescanCheck, coreVars, libusbVars, listVars, queueVars, pollVars
<1>7. CASE RescanRemove
  <2> DEFINE f == [Top EXCEPT !.removing = {}]
  <2>1. stack # <<>> /\ Top.fn = "rescan" /\ stack' = Step(f)
    BY <1>7 DEF RescanRemove, Running
  <2>2. f \in Frame /\ f.fn = "rescan"
    BY <1>0, <2>1, TopFrame DEF RescanFrame, Frame
  <2>3. StackOK(Step(f), dictReplug)
    BY <1>0, <2>1, <2>2, StepOK
  <2>4. devices' \in Seq(Devs)
    <3>1. devices' = devices \/ \E i \in DOMAIN devices : devices' = RemoveAt(devices, i)
      BY <1>7 DEF RescanRemove
    <3> QED
      BY <1>0, <3>1, RemoveAtIsSeq DEF DataOK
  <2> QED
    BY <1>0, <1>7, <2>1, <2>3, <2>4 DEF DataOK, RescanRemove, libusbVars, queueVars, pollVars
<1>8. CASE RescanAdd
  <2>1. PICK d \in Top.fresh : AddDevice(d, Step([Top EXCEPT !.fresh = @ \ {d}]))
    BY <1>8 DEF RescanAdd
  <2> DEFINE f == [Top EXCEPT !.fresh = @ \ {d}]
  <2>2. stack # <<>> /\ Top.fn = "rescan"
    BY <1>8 DEF RescanAdd, Running
  <2>3. d \in Devs /\ f \in Frame /\ f.fn = "rescan"
    <3>1. Top \in RescanFrame
      BY <1>0, <2>2, TopFrame
    <3>2. d \in Devs /\ f \in RescanFrame
      BY <3>1 DEF RescanFrame
    <3> QED
      BY <3>2 DEF Frame, RescanFrame
  <2>4. StackOK(Step(f), dictReplug)
    BY <1>0, <2>2, <2>3, StepOK
  <2> HIDE DEF f
  <2>5. /\ announced' \in [Ports -> Int] /\ StackOK(stack', dictReplug)
        /\ devices' \in Seq(Devs) /\ failed' \subseteq Devs
    BY <1>0, <2>1, <2>3, <2>4, AddDeviceOK DEF f
  <2> QED
    BY <1>0, <1>8, <2>5 DEF DataOK, RescanAdd, libusbVars, queueVars, pollVars
<1>9. CASE RescanCb
  <2>1. Rescan(pollId) \in Frame /\ Rescan(pollId).fn = "rescan"
    <3>1. pollId \in Nat /\ devices \in Seq(Devs)
      BY <1>0 DEF DataOK
    <3> QED
      BY <3>1, RescanFrameOK
  <2>2. reentered' \in BOOLEAN
    BY <1>0, <1>9 DEF RescanCb, InHandler, DataOK
  <2>3. StackOK(stack', dictReplug)
    <3>1. CASE stack' = Append(stack, Rescan(pollId))
      BY <1>0, <2>1, <3>1, PushOK
    <3>2. CASE /\ LastIteration("timeout")
               /\ stack' = Append(Step([Top EXCEPT !.quit = "over"]), Rescan(pollId))
      <4> DEFINE f == [Top EXCEPT !.quit = "over"]
      <4>1. stack # <<>> /\ Top.fn = "replug"
        BY <3>2 DEF LastIteration, Running
      <4>2. /\ f \in ReplugFrame /\ f.fn = "replug"
            /\ f.pid = Top.pid /\ f.device = Top.device /\ Top = stack[Len(stack)]
            /\ Len(stack) \in DOMAIN stack
        BY <1>0, <4>1, TopFrame DEF ReplugFrame, Top
      <4>3. StackOK(Step(f), dictReplug)
        BY <1>0, <4>1, <4>2, ReplaceHelperOK DEF Step
      <4> QED
        BY <2>1, <3>2, <4>3, PushOK
    <3> QED
      BY <1>9, <3>1, <3>2 DEF RescanCb
  <2> QED
    BY <1>0, <1>9, <2>2, <2>3
    DEF DataOK, RescanCb, coreVars, libusbVars, listVars, queueVars, pollVars
<1>10. CASE \E interval \in Intervals : SetHotplugPollInterval(interval)
  <2>1. pollId' \in 0..lastSource' /\ lastSource' \in Nat /\ pollInterval' \in Nat
    <3>1. PICK interval \in Intervals : SetHotplugPollInterval(interval)
      BY <1>10
    <3>2. interval \in Nat /\ pollId \in 0..lastSource /\ lastSource \in Nat
      BY <1>0 DEF DataOK, ContextAssumption
    <3>3. CASE EnsureRescanTimeout(interval)
      BY <3>2, <3>3 DEF EnsureRescanTimeout
    <3>4. CASE pollInterval' = interval /\ UNCHANGED <<pollId, lastSource>>
      BY <3>2, <3>4
    <3> QED
      BY <3>1, <3>3, <3>4 DEF SetHotplugPollInterval
  <2> QED
    BY <1>0, <1>10, <2>1 DEF DataOK, SetHotplugPollInterval, libusbVars, listVars, queueVars
<1>11. CASE Enumerate
  <2> DEFINE f == [fn |-> "enumerate", step |-> "scan", next |-> 1]
  <2>1. f \in Frame /\ Rescan(0) \in Frame /\ Rescan(0).fn = "rescan"
    BY <1>0, RescanFrameOK DEF DataOK, Frame, EnumerateFrame
  <2>2. StackOK(Append(Append(stack, f), Rescan(0)), dictReplug)
    BY <1>0, <2>1, PushOK
  <2>3. stack' = Append(Append(stack, f), Rescan(0))
    BY <1>0, <1>11, <2>1 DEF Enumerate, StackOK
  <2> QED
    BY <1>0, <1>11, <2>2, <2>3
    DEF DataOK, Enumerate, coreVars, libusbVars, listVars, queueVars, pollVars
<1>12. CASE EnumerateDone
  <2> DEFINE f == [Top EXCEPT !.step = "announce"]
  <2>1. stack # <<>> /\ Top.fn = "enumerate" /\ stack' = Step(f)
    BY <1>12 DEF EnumerateDone, Running
  <2>2. f \in Frame /\ f.fn = "enumerate"
    BY <1>0, <2>1, TopFrame DEF EnumerateFrame, Frame
  <2>3. StackOK(Step(f), dictReplug)
    BY <1>0, <2>1, <2>2, StepOK
  <2>4. pollId' \in 0..lastSource' /\ lastSource' \in Nat /\ pollInterval' \in Nat
    BY <1>0, <1>12 DEF DataOK, EnumerateDone, EnsureRescanTimeout, pollVars
  <2> QED
    BY <1>0, <1>12, <2>1, <2>3, <2>4 DEF DataOK, EnumerateDone, libusbVars, queueVars
<1>13. CASE EnumerateAnnounce
  <2> DEFINE f == [Top EXCEPT !.next = @ + 1]
  <2>1. stack # <<>> /\ Top.fn = "enumerate"
    BY <1>13 DEF EnumerateAnnounce, Running
  <2>2. f \in Frame /\ f.fn = "enumerate"
    BY <1>0, <2>1, TopFrame DEF EnumerateFrame, Frame
  <2>3. StackOK(Step(f), dictReplug)
    BY <1>0, <2>1, <2>2, StepOK
  <2>4. devices[Top.next] \in Devs /\ announced \in [Ports -> Int]
    BY <1>0, <1>13 DEF EnumerateAnnounce, DataOK
  <2>5. EmitDeviceAdd(devices[Top.next], Step(f))
    BY <1>13 DEF EnumerateAnnounce
  <2>6. announced' \in [Ports -> Int] /\ StackOK(stack', dictReplug)
    BY <2>3, <2>4, <2>5, EmitAddOK
  <2> QED
    BY <1>0, <1>13, <2>6
    DEF DataOK, EnumerateAnnounce, coreVars, libusbVars, listVars, queueVars, pollVars
<1>14. CASE \E d \in Devs : WaitForReplug(d)
  <2>1. PICK d \in Devs : WaitForReplug(d)
    BY <1>14
  <2> DEFINE f == [fn |-> "replug", pid |-> Port[d], device |-> d, timer |-> TRUE, quit |-> "no"]
  <2>2. f \in Frame /\ f.fn = "replug" /\ Port[f.device] = f.pid /\ f.pid = Port[d]
    BY DEF Frame, ReplugFrame, LibusbAssumption
  <2>3. StackOK(Append(stack, f), dictReplug)
    BY <1>0, <2>2, PushOK
  <2>4. /\ stack' = Append(stack, f)
        /\ dictReplug' = [dictReplug EXCEPT ![Port[d]] = Len(stack) + 1]
    BY <2>1 DEF WaitForReplug
  <2>5. /\ Len(Append(stack, f)) = Len(stack) + 1 /\ Append(stack, f)[Len(stack) + 1] = f
        /\ Len(stack) \in Nat
    BY <1>0, <2>2, AppendProperties DEF StackOK
  <2>8. Port[d] \in Ports
    BY DEF LibusbAssumption
  <2> HIDE DEF f
  <2> DEFINE st == Append(stack, f)
             k == Len(stack) + 1
  <2>9. /\ StackOK(st, dictReplug) /\ k = Len(st) /\ k \in Nat \ {0}
        /\ st[k].fn = "replug" /\ st[k].pid = Port[d]
    BY <2>2, <2>3, <2>5
  <2>10. stack' = st /\ dictReplug' = [dictReplug EXCEPT ![Port[d]] = k]
    BY <2>4
  <2> HIDE DEF st, k
  <2>6. StackOK(stack', dictReplug')
    BY <2>8, <2>9, <2>10, RegisterOK
  <2>7. waits' \in Nat
    BY <1>0, <2>1 DEF DataOK, WaitForReplug
  <2> QED
    BY <1>0, <2>1, <2>6, <2>7
    DEF DataOK, WaitForReplug, coreVars, libusbVars, listVars, queueVars, pollVars
<1>15. CASE \E k \in DOMAIN stack : ReplugTimeoutCb(k)
  <2>1. PICK k \in DOMAIN stack : ReplugTimeoutCb(k)
    BY <1>15
  <2> DEFINE q == IF stack[k].quit = "no" /\ k = Len(stack) THEN "timeout" ELSE "over"
             f == [[stack[k] EXCEPT !.timer = FALSE] EXCEPT !.quit = q]
  <2>2. stack[k].fn = "replug" /\ stack[k] \in ReplugFrame
    BY <1>0, <2>1, FrameKinds DEF ReplugTimeoutCb, StackOK
  <2>3. /\ f \in ReplugFrame /\ f.fn = "replug" /\ f.pid = stack[k].pid
        /\ f.device = stack[k].device
    BY <2>2 DEF ReplugFrame
  <2>4. stack' = [stack EXCEPT ![k] = f]
    BY <2>1, <2>2 DEF ReplugTimeoutCb, ReplugFrame
  <2> HIDE DEF f
  <2>5. StackOK(stack', dictReplug)
    BY <1>0, <2>2, <2>3, <2>4, ReplaceHelperOK
  <2> QED
    BY <1>0, <2>1, <2>5
    DEF DataOK, ReplugTimeoutCb, coreVars, libusbVars, listVars, queueVars, pollVars
<1>16. CASE ReplugReturn
  <2>1. stack # <<>> /\ Top.fn = "replug"
    BY <1>16 DEF ReplugReturn, Running
  <2>2. dictReplug' = [dictReplug EXCEPT ![Top.pid] = 0]
    BY <1>16 DEF ReplugReturn
  <2>3. StackOK(Below, dictReplug') /\ Top.device \in Devs
    BY <1>0, <2>1, <2>2, UnregisterOK, TopFrame DEF ReplugFrame
  <2>4. announced \in [Ports -> Int]
    BY <1>0 DEF DataOK
  <2>5. announced' \in [Ports -> Int] /\ StackOK(stack', dictReplug')
    <3>1. CASE stack' = Below /\ UNCHANGED announced
      BY <2>3, <2>4, <3>1
    <3>2. CASE EmitDeviceRemove(Top.device, Below)
      BY <2>3, <2>4, <3>2, EmitRemoveOK
    <3> QED
      BY <1>16, <3>1, <3>2 DEF ReplugReturn
  <2> QED
    BY <1>0, <1>16, <2>5
    DEF DataOK, ReplugReturn, coreVars, libusbVars, listVars, queueVars, pollVars
<1>17. CASE UNCHANGED vars
  BY <1>0, <1>17 DEF DataOK, vars, coreVars, libusbVars, listVars, queueVars, pollVars
<1> QED
  BY <1>1, <1>2, <1>3, <1>4, <1>5, <1>6, <1>7, <1>8, <1>9, <1>10, <1>11, <1>12, <1>13,
     <1>14, <1>15, <1>16, <1>17
  DEF Next, MainStep, Call

\* The types hold, dict_replug never dangles, and the device a helper holds always
\* has the platform id it waits for, however deep the main loop is nested.
THEOREM TypeCorrect ==
  ASSUME LibusbAssumption, ContextAssumption
  PROVE  Spec => [](TypeOK /\ ReplugHelperLive)
<1>1. Init => TypeInv
  BY TypeInit, ContextAssumption
<1>2. TypeInv /\ [Next]_vars => TypeInv'
  BY TypeNext, LibusbAssumption, ContextAssumption
<1> QED
  BY <1>1, <1>2, TypeInvImplies, PTL DEF Spec

\* The types hold.
THEOREM ContextTypes ==
  ASSUME LibusbAssumption, ContextAssumption
  PROVE  Spec => []TypeOK
<1>1. Spec => [](TypeOK /\ ReplugHelperLive)
  BY TypeCorrect, LibusbAssumption, ContextAssumption
<1> QED
  BY <1>1, PTL

-----------------------------------------------------------------------------
(* The inductive invariant: what is pending, queued, being dispatched or   *)
(* being rescanned is consistent with the history of the bus.              *)

EventOK(m, pl) ==
  /\ HasHotplug /\ pl[m.dev] # "absent"
  /\ m.event = "left" => pl[m.dev] = "gone"

EventsOK(q, pl) == \A i \in DOMAIN q : EventOK(q[i], pl)

FrameOK(f, pl) ==
  /\ f.fn = "dispatch" => EventsOK(f.batch, pl)
  /\ f.fn = "rescan" =>
       /\ \A d \in f.found \cup f.fresh : pl[d] # "absent"
       /\ \A i \in DOMAIN f.existing : f.existing[i] \in f.found \/ pl[f.existing[i]] = "gone"
       /\ \A d \in f.removing : pl[d] = "gone"

FramesOK(st, pl) == \A k \in DOMAIN st : FrameOK(st[k], pl)

UniqueIn(s) == \A i, j \in DOMAIN s : i # j => Address[s[i]] # Address[s[j]]

\* Until the first scan is over nothing runs but that scan, and what it has yet
\* to add is at addresses of its own.
Scanning(st, devs) ==
  \/ st = <<>> /\ devs = <<>>
  \/ Len(st) = 1 /\ st[1].fn = "enumerate" /\ st[1].step = "scan"
  \/ /\ Len(st) = 2 /\ st[1].fn = "enumerate" /\ st[1].step = "scan"
     /\ st[2].fn = "rescan" /\ st[2].existing = <<>> /\ st[2].removing = {}
     /\ BusOK(st[2].fresh)
     /\ AddressesOf(st[2].fresh) \cap AddressesOf(ListedIn(devs)) = {}

ScanOK ==
  doneEnumerate \/ (/\ ~idleQueued /\ idleEvents = <<>> /\ pollId = 0 /\ devicesRemoved = {}
                    /\ dictReplug = [p \in Ports |-> 0]
                    /\ Scanning(stack, devices))

ListInv ==
  /\ TypeInv
  /\ BusOK(Attached)
  /\ \A i \in DOMAIN devices : plug[devices[i]] # "absent"
  /\ EventsOK(msgs, plug) /\ EventsOK(idleEvents, plug) /\ FramesOK(stack, plug)
  /\ UniqueIn(devices)
  /\ ScanOK

-----------------------------------------------------------------------------
(* Lists.                                                                  *)

LEMMA ListAppend ==
  ASSUME NEW s \in Seq(Devs), NEW d \in Devs
  PROVE  /\ ListedIn(Append(s, d)) = ListedIn(s) \cup {d}
         /\ UniqueIn(s) /\ Address[d] \notin AddressesOf(ListedIn(s)) => UniqueIn(Append(s, d))
<1>1. /\ Append(s, d) \in Seq(Devs) /\ Len(Append(s, d)) = Len(s) + 1 /\ Len(s) \in Nat
      /\ \A i \in 1..Len(s) : Append(s, d)[i] = s[i]
      /\ Append(s, d)[Len(s) + 1] = d
  BY AppendProperties, LenProperties
<1>2. DOMAIN s = 1..Len(s) /\ DOMAIN Append(s, d) = 1..(Len(s) + 1)
  BY <1>1, LenProperties
<1>3. \A i \in DOMAIN Append(s, d) : i \in DOMAIN s \/ i = Len(s) + 1
  BY <1>1, <1>2
<1>4. Len(s) + 1 \in DOMAIN Append(s, d) /\ DOMAIN s \subseteq DOMAIN Append(s, d)
  BY <1>1, <1>2
<1>5. ListedIn(Append(s, d)) = ListedIn(s) \cup {d}
  BY <1>1, <1>2, <1>3, <1>4, Zenon DEF ListedIn
<1>6. ASSUME UniqueIn(s), Address[d] \notin AddressesOf(ListedIn(s))
      PROVE  UniqueIn(Append(s, d))
  <2>1. \A i \in DOMAIN s : Address[s[i]] # Address[d]
    BY <1>6 DEF AddressesOf, ListedIn
  <2> QED
    BY <1>1, <1>2, <1>3, <1>6, <2>1, Zenon DEF UniqueIn
<1> QED
  BY <1>5, <1>6

LEMMA ListRemove ==
  ASSUME NEW s \in Seq(Devs), NEW i \in DOMAIN s, UniqueIn(s)
  PROVE  /\ UniqueIn(RemoveAt(s, i))
         /\ ListedIn(RemoveAt(s, i)) = ListedIn(s) \ {s[i]}
<1> DEFINE r == RemoveAt(s, i)
           up(j) == IF j < i THEN j ELSE j + 1
           down(j) == IF j < i THEN j ELSE j - 1
<1>1. /\ r \in Seq(Devs) /\ Len(r) = Len(s) - 1
      /\ \A j \in 1..(Len(s) - 1) : r[j] = s[up(j)]
  BY RemoveAtIsSeq
<1>2. DOMAIN s = 1..Len(s) /\ Len(s) \in Nat /\ DOMAIN r = 1..(Len(s) - 1)
  BY <1>1, LenProperties
<1>3. /\ \A j \in 1..(Len(s) - 1) : up(j) \in 1..Len(s) /\ up(j) # i
      /\ \A j, k \in 1..(Len(s) - 1) : j # k => up(j) # up(k)
      /\ \A j \in 1..Len(s) : j # i => down(j) \in 1..(Len(s) - 1) /\ up(down(j)) = j
  BY <1>2
<1> HIDE DEF r, up, down
<1>8. /\ \A j \in DOMAIN r : r[j] = s[up(j)] /\ up(j) \in DOMAIN s /\ up(j) # i
      /\ \A j, k \in DOMAIN r : j # k => up(j) # up(k)
  BY <1>1, <1>2, <1>3
<1>4. UniqueIn(r)
  <2> SUFFICES ASSUME NEW j \in DOMAIN r, NEW k \in DOMAIN r, j # k
               PROVE  Address[r[j]] # Address[r[k]]
    BY DEF UniqueIn
  <2>1. /\ r[j] = s[up(j)] /\ r[k] = s[up(k)] /\ up(j) # up(k)
        /\ up(j) \in DOMAIN s /\ up(k) \in DOMAIN s
    BY <1>8
  <2> QED
    BY <2>1 DEF UniqueIn
<1>5. \A j \in DOMAIN s : j # i => s[j] # s[i]
  BY DEF UniqueIn
<1>6. ListedIn(r) \subseteq ListedIn(s) \ {s[i]}
  <2>1. ASSUME NEW j \in DOMAIN r PROVE r[j] \in ListedIn(s) \ {s[i]}
    BY <1>5, <1>8 DEF ListedIn
  <2> QED
    BY <2>1 DEF ListedIn
<1>7. ListedIn(s) \ {s[i]} \subseteq ListedIn(r)
  <2>1. ASSUME NEW j \in DOMAIN s, j # i PROVE s[j] \in ListedIn(r)
    <3>1. down(j) \in DOMAIN r /\ r[down(j)] = s[j]
      BY <1>1, <1>2, <1>3, <2>1
    <3> QED
      BY <3>1, Zenon DEF ListedIn
  <2> QED
    BY <2>1 DEF ListedIn
<1> QED
  BY <1>4, <1>6, <1>7 DEF r

LEMMA AddDeviceEffect ==
  ASSUME NEW d, NEW st, AddDevice(d, st)
  PROVE  \/ devices' = devices
         \/ /\ devices' = Append(devices, d)
            /\ doneEnumerate => Address[d] \notin AddressesOf(Listed)
BY Zenon DEF AddDevice

LEMMA RemoveDeviceEffect ==
  ASSUME NEW d, NEW st, RemoveDevice(d, st)
  PROVE  \/ devices' = devices
         \/ \E i \in DOMAIN devices :
              devices' = RemoveAt(devices, i) /\ Address[devices[i]] = Address[d]
BY Zenon DEF RemoveDevice, FoundAt

-----------------------------------------------------------------------------
(* Frames.                                                                 *)

\* How the bus may change: what was plugged stays so, what is gone stays gone.
Grows(pl, pm) == \A d \in Devs : /\ pl[d] # "absent" => pm[d] # "absent"
                                 /\ pl[d] = "gone" => pm[d] = "gone"

LEMMA EventsGrow ==
  ASSUME NEW pl, NEW pm, Grows(pl, pm), NEW q \in Seq(Message), EventsOK(q, pl)
  PROVE  EventsOK(q, pm)
<1>1. \A i \in DOMAIN q : q[i] \in Message /\ q[i].dev \in Devs
  <2>1. \A i \in DOMAIN q : q[i] \in Message
    BY LenProperties
  <2>2. \A m \in Message : m.dev \in Devs
    BY DEF Message
  <2> QED
    BY <2>1, <2>2
<1> QED
  BY <1>1 DEF EventsOK, EventOK, Grows

LEMMA FramesGrow ==
  ASSUME NEW pl, NEW pm, Grows(pl, pm), NEW st \in Seq(Frame), FramesOK(st, pl)
  PROVE  FramesOK(st, pm)
<1> SUFFICES ASSUME NEW k \in DOMAIN st PROVE FrameOK(st[k], pm)
  BY DEF FramesOK
<1>1. st[k] \in Frame /\ FrameOK(st[k], pl)
  BY DEF FramesOK
<1>2. st[k].fn = "dispatch" => EventsOK(st[k].batch, pm)
  <2>1. st[k].fn = "dispatch" => st[k].batch \in Seq(Message)
    BY <1>1, FrameKinds DEF DispatchFrame
  <2> QED
    BY <1>1, <2>1, EventsGrow DEF FrameOK
<1>3. CASE st[k].fn = "rescan"
  <2>1. st[k] \in RescanFrame
    BY <1>1, <1>3, FrameKinds
  <2>2. /\ st[k].found \cup st[k].fresh \cup st[k].removing \subseteq Devs
        /\ \A i \in DOMAIN st[k].existing : st[k].existing[i] \in Devs
    BY <2>1 DEF RescanFrame
  <2> QED
    BY <1>1, <1>2, <2>2 DEF FrameOK, Grows
<1> QED
  BY <1>2, <1>3 DEF FrameOK

LEMMA FramesPush ==
  ASSUME NEW pl, NEW st \in Seq(Frame), FramesOK(st, pl), NEW f \in Frame, FrameOK(f, pl)
  PROVE  FramesOK(Append(st, f), pl)
BY DEF FramesOK

LEMMA FramesSet ==
  ASSUME NEW pl, NEW st \in Seq(Frame), FramesOK(st, pl), NEW k, NEW f, FrameOK(f, pl)
  PROVE  FramesOK([st EXCEPT ![k] = f], pl)
BY DEF FramesOK

LEMMA FramesStep ==
  ASSUME NEW pl, stack \in Seq(Frame), stack # <<>>, FramesOK(stack, pl), NEW f \in Frame, FrameOK(f, pl)
  PROVE  FramesOK(Step(f), pl) /\ Step(f) \in Seq(Frame)
<1>1. FramesOK(Step(f), pl)
  BY FramesSet DEF Step
<1>2. Step(f) \in Seq(Frame)
  BY ExceptSeq, EmptySeq, LenProperties DEF Step
<1> QED
  BY <1>1, <1>2

LEMMA FramesPop ==
  ASSUME NEW pl, NEW st \in Seq(Frame), FramesOK(st, pl), st # <<>>
  PROVE  FramesOK(Front(st), pl)
<1>1. /\ DOMAIN Front(st) = 1..(Len(st) - 1) /\ DOMAIN st = 1..Len(st) /\ Len(st) \in Nat
      /\ \A i \in 1..(Len(st) - 1) : Front(st)[i] = st[i]
  BY FrontIsSeq, LenProperties
<1> QED
  BY <1>1 DEF FramesOK

LEMMA FramesHandler ==
  ASSUME NEW pl, NEW st \in Seq(Frame), FramesOK(st, pl)
  PROVE  FramesOK(Append(st, Handler), pl)
<1>1. Handler \in Frame /\ FrameOK(Handler, pl)
  BY DEF Handler, Frame, HandlerFrame, FrameOK
<1> QED
  BY <1>1, FramesPush

\* What the signals and add_device, remove_device do to the frames.
LEMMA FramesEmit ==
  ASSUME NEW pl, NEW st \in Seq(Frame), FramesOK(st, pl), NEW d,
         EmitDeviceAdd(d, st) \/ EmitDeviceRemove(d, st)
  PROVE  FramesOK(stack', pl)
BY FramesHandler DEF EmitDeviceAdd, EmitDeviceRemove

LEMMA FramesAdd ==
  ASSUME LibusbAssumption, NEW pl, NEW st, StackOK(st, dictReplug), FramesOK(st, pl),
         NEW d \in Devs, AddDevice(d, st)
  PROVE  FramesOK(stack', pl)
<1>0. st \in Seq(Frame)
  BY DEF StackOK
<1>1. CASE dictReplug[Port[d]] # 0 /\ stack' = Replugged(d, st)
  <2> DEFINE k == dictReplug[Port[d]]
  <2>1. /\ k \in DOMAIN st /\ st[k] \in Frame /\ st[k].fn = "replug"
    BY <1>1 DEF StackOK, LibusbAssumption
  <2>2. PICK q : Replugged(d, st) = [st EXCEPT ![k] = [[st[k] EXCEPT !.device = d] EXCEPT !.quit = q]]
    <3>1. st[k] \in ReplugFrame
      BY <2>1, FrameKinds
    <3>2. Replugged(d, st) = [st EXCEPT ![k] = [[st[k] EXCEPT !.device = d] EXCEPT !.quit =
             IF st[k].quit = "no" THEN "replugged" ELSE st[k].quit]]
      BY <1>0, <2>1, <3>1 DEF Replugged, ReplugFrame
    <3> QED
      BY <3>2
  <2>3. FrameOK([[st[k] EXCEPT !.device = d] EXCEPT !.quit = q], pl)
    <3>1. [[st[k] EXCEPT !.device = d] EXCEPT !.quit = q].fn = "replug"
      BY <2>1, FrameKinds DEF ReplugFrame
    <3> QED
      BY <3>1 DEF FrameOK
  <2> DEFINE f == [[st[k] EXCEPT !.device = d] EXCEPT !.quit = q]
  <2>4. FrameOK(f, pl) /\ stack' = [st EXCEPT ![k] = f]
    BY <1>1, <2>2, <2>3
  <2> HIDE DEF k, f
  <2>5. FramesOK([st EXCEPT ![k] = f], pl)
    BY <1>0, <2>4, FramesSet
  <2> QED
    BY <2>4, <2>5
<1>2. CASE stack' = st
  BY <1>2
<1>3. CASE EmitDeviceAdd(d, st)
  BY <1>0, <1>3, FramesEmit
<1> QED
  BY <1>1, <1>2, <1>3 DEF AddDevice

LEMMA FramesRemove ==
  ASSUME NEW pl, NEW st \in Seq(Frame), FramesOK(st, pl), NEW d, RemoveDevice(d, st)
  PROVE  FramesOK(stack', pl)
<1>1. CASE stack' = st
  BY <1>1
<1>2. CASE \E e : EmitDeviceRemove(e, st)
  BY <1>2, FramesEmit
<1> QED
  BY <1>1, <1>2, Zenon DEF RemoveDevice

LEMMA EventsTail ==
  ASSUME NEW pl, NEW q \in Seq(Message), q # <<>>, EventsOK(q, pl)
  PROVE  EventOK(Head(q), pl) /\ EventsOK(Tail(q), pl)
<1>1. /\ Head(q) = q[1] /\ 1 \in DOMAIN q
      /\ \A i \in DOMAIN Tail(q) : i + 1 \in DOMAIN q /\ Tail(q)[i] = q[i + 1]
  BY HeadTailProperties, LenProperties, EmptySeq
<1> QED
  BY <1>1 DEF EventsOK

LEMMA EventsAppend ==
  ASSUME NEW pl, NEW q \in Seq(Message), NEW m \in Message, EventsOK(q, pl), EventOK(m, pl)
  PROVE  EventsOK(Append(q, m), pl)
BY DEF EventsOK

-----------------------------------------------------------------------------
(* What one step does to the list.                                         *)

\* A platform with hotplug events never reuses an address.  (With polling it may:
\* a rescan compares whole lists.)
AddressesDiffer == HasHotplug => \A d, e \in Devs : Address[d] = Address[e] => d = e

DevicesStep ==
  \/ devices' = devices
  \/ \E d \in Devs : /\ plug[d] # "absent" /\ Address[d] \notin AddressesOf(Listed)
                     /\ devices' = Append(devices, d)
  \/ \E i \in DOMAIN devices : /\ devices' = RemoveAt(devices, i)
                               /\ AddressesDiffer => plug[devices[i]] = "gone"

LEMMA DevicesStepOK ==
  ASSUME devices \in Seq(Devs), UniqueIn(devices),
         \A i \in DOMAIN devices : plug[devices[i]] # "absent", DevicesStep
  PROVE  UniqueIn(devices') /\ \A i \in DOMAIN devices' : plug[devices'[i]] # "absent"
<1>1. \A d \in Listed : plug[d] # "absent"
  BY DEF Listed, ListedIn
<1>2. ASSUME \A d \in ListedIn(devices') : plug[d] # "absent"
      PROVE  \A i \in DOMAIN devices' : plug[devices'[i]] # "absent"
  BY <1>2 DEF ListedIn
<1>3. ASSUME NEW d \in Devs, plug[d] # "absent", Address[d] \notin AddressesOf(Listed),
             devices' = Append(devices, d)
      PROVE  UniqueIn(devices') /\ \A e \in ListedIn(devices') : plug[e] # "absent"
  BY <1>1, <1>3, ListAppend DEF Listed
<1>4. ASSUME NEW i \in DOMAIN devices, devices' = RemoveAt(devices, i)
      PROVE  UniqueIn(devices') /\ \A e \in ListedIn(devices') : plug[e] # "absent"
  BY <1>1, <1>4, ListRemove DEF Listed
<1>5. CASE devices' = devices
  BY <1>5
<1> QED
  BY <1>2, <1>3, <1>4, <1>5, Zenon DEF DevicesStep

LEMMA BusStep ==
  ASSUME TypeInv, BusOK(Attached), EventsOK(msgs, plug), Bus
  PROVE  Grows(plug, plug') /\ BusOK(Attached') /\ EventsOK(msgs', plug')
<1>0. plug \in [Devs -> {"absent", "attached", "gone"}] /\ msgs \in Seq(Message)
  BY DEF TypeInv, DataOK
<1>1. PICK d \in Devs : Plug(d) \/ Unplug(d)
  BY DEF Bus
<1>2. Grows(plug, plug')
  BY <1>0, <1>1 DEF Plug, Unplug, Grows
<1>3. BusOK(Attached')
  <2>1. CASE Plug(d)
    <3>1. Attached' \subseteq Attached \cup {d}
      BY <1>0, <2>1 DEF Attached, Plug
    <3> QED
      BY <2>1, <3>1 DEF BusOK, Plug
  <2>2. CASE Unplug(d)
    <3>1. Attached' \subseteq Attached
      BY <1>0, <2>2 DEF Attached, Unplug
    <3> QED
      BY <3>1 DEF BusOK
  <2> QED
    BY <1>1, <2>1, <2>2
<1>4. EventsOK(msgs, plug')
  BY <1>0, <1>2, EventsGrow
<1>5. CASE HasHotplug
  <2> DEFINE a == [event |-> "arrived", dev |-> d]
             l == [event |-> "left", dev |-> d]
  <2>1. a \in Message /\ l \in Message
    BY DEF Message
  <2>2. CASE Plug(d)
    <3>1. EventOK(a, plug') /\ msgs' = Append(msgs, a)
      BY <1>0, <1>5, <2>2 DEF EventOK, Plug, Post
    <3> QED
      BY <1>0, <1>2, <1>3, <1>4, <2>1, <3>1, EventsAppend
  <2>3. CASE Unplug(d)
    <3>1. EventOK(l, plug') /\ msgs' = Append(msgs, l)
      BY <1>0, <1>5, <2>3 DEF EventOK, Unplug, Post
    <3> QED
      BY <1>0, <1>2, <1>3, <1>4, <2>1, <3>1, EventsAppend
  <2> QED
    BY <1>1, <2>2, <2>3
<1>6. CASE ~HasHotplug
  BY <1>1, <1>2, <1>3, <1>4, <1>6 DEF Plug, Unplug, Post
<1> QED
  BY <1>5, <1>6

\* What holds of the stack before the first scan is over.
LEMMA FirstScan ==
  ASSUME TypeInv, ScanOK, ~doneEnumerate, stack # <<>>
  PROVE  /\ \A k \in DOMAIN stack : stack[k].fn \in {"enumerate", "rescan"}
         /\ Len(stack) \in DOMAIN stack /\ Top.fn \in {"enumerate", "rescan"}
         /\ Top.fn = "enumerate" => Len(stack) = 1 /\ Top.step = "scan"
         /\ Top.fn = "rescan" =>
              /\ Len(stack) = 2 /\ stack[1].fn = "enumerate" /\ stack[1].step = "scan"
              /\ Top.existing = <<>> /\ Top.removing = {} /\ BusOK(Top.fresh)
              /\ AddressesOf(Top.fresh) \cap AddressesOf(Listed) = {}
<1>1. stack \in Seq(Frame) /\ Scanning(stack, devices)
  BY DEF TypeInv, StackOK, ScanOK
<1>2. DOMAIN stack = 1..Len(stack) /\ Len(stack) \in Nat
  BY <1>1, LenProperties
<1>3. CASE Len(stack) = 1 /\ stack[1].fn = "enumerate" /\ stack[1].step = "scan"
  BY <1>2, <1>3 DEF Top
<1>4. CASE /\ Len(stack) = 2 /\ stack[1].fn = "enumerate" /\ stack[1].step = "scan"
           /\ stack[2].fn = "rescan" /\ stack[2].existing = <<>> /\ stack[2].removing = {}
           /\ BusOK(stack[2].fresh)
           /\ AddressesOf(stack[2].fresh) \cap AddressesOf(ListedIn(devices)) = {}
  <2>1. \A k \in DOMAIN stack : k = 1 \/ k = 2
    BY <1>2, <1>4
  <2>2. Len(stack) \in DOMAIN stack
    BY <1>2, <1>4
  <2> QED
    BY <1>4, <2>1, <2>2 DEF Top, Listed
<1> QED
  BY <1>1, <1>3, <1>4 DEF Scanning

\* The application can call the library before the first scan, not during it.
LEMMA FirstScanCall ==
  ASSUME TypeInv, ScanOK, ~doneEnumerate
  PROVE  /\ InApp => stack = <<>> /\ devices = <<>>
         /\ ~idleQueued /\ pollId = 0 /\ devicesRemoved = {}
<1>1. stack # <<>> => Top.fn # "handler"
  BY FirstScan
<1>2. InApp => stack = <<>>
  BY <1>1 DEF InApp, Running
<1>3. stack = <<>> => devices = <<>>
  <2>1. stack = <<>> => Len(stack) = 0
    OBVIOUS
  <2> QED
    BY <2>1 DEF ScanOK, Scanning
<1> QED
  BY <1>2, <1>3 DEF ScanOK

LEMMA RescanFrameFresh ==
  ASSUME TypeInv, \A i \in DOMAIN devices : plug[devices[i]] # "absent", NEW source
  PROVE  FrameOK(Rescan(source), plug)
<1>1. devices \in Seq(Devs) /\ plug \in [Devs -> {"absent", "attached", "gone"}]
  BY DEF TypeInv, DataOK
<1>2. \A i \in DOMAIN Reverse(devices) : \E j \in DOMAIN devices : Reverse(devices)[i] = devices[j]
  <2>1. /\ DOMAIN Reverse(devices) = 1..Len(devices) /\ DOMAIN devices = 1..Len(devices)
        /\ Len(devices) \in Nat
        /\ \A i \in 1..Len(devices) : Reverse(devices)[i] = devices[Len(devices) - i + 1]
    BY <1>1, ReverseIsSeq, LenProperties
  <2>2. \A i \in 1..Len(devices) : Len(devices) - i + 1 \in 1..Len(devices)
    BY <2>1
  <2> QED
    BY <2>1, <2>2
<1>3. \A j \in DOMAIN devices : devices[j] \in Attached \/ plug[devices[j]] = "gone"
  BY <1>1 DEF Attached
<1> QED
  BY <1>2, <1>3 DEF Rescan, FrameOK, Attached

-----------------------------------------------------------------------------
(* The steps that leave the bus alone, one by one.                         *)

\* What such a step has to establish.
StepGoal ==
  /\ plug' = plug
  /\ EventsOK(msgs', plug) /\ EventsOK(idleEvents', plug) /\ FramesOK(stack', plug)
  /\ DevicesStep
  /\ ScanOK'

\* The part of the invariant those steps start from.
StepHyp ==
  /\ LibusbAssumption /\ ListInv

LEMMA StackSeq == ListInv => stack \in Seq(Frame) /\ StackOK(stack, dictReplug)
BY DEF ListInv, TypeInv, StackOK

LEMMA ScanDone ==
  ASSUME doneEnumerate' = doneEnumerate, doneEnumerate
  PROVE  ScanOK'
BY DEF ScanOK

LEMMA HotplugCbStep == StepHyp /\ HotplugCb => StepGoal
<1> SUFFICES ASSUME ListInv, HotplugCb PROVE StepGoal
  BY DEF StepHyp
<1>0. /\ msgs \in Seq(Message) /\ idleEvents \in Seq(Message) /\ msgs # <<>>
      /\ EventsOK(msgs, plug) /\ EventsOK(idleEvents, plug) /\ FramesOK(stack, plug)
      /\ ScanOK
  BY DEF ListInv, TypeInv, DataOK, HotplugCb
<1>1. EventOK(Head(msgs), plug) /\ EventsOK(Tail(msgs), plug) /\ Head(msgs) \in Message
  BY <1>0, EventsTail, HeadTailProperties
<1>2. EventsOK(idleEvents', plug) /\ EventsOK(msgs', plug)
  BY <1>0, <1>1, EventsAppend DEF HotplugCb
<1>3. ScanOK'
  BY <1>0 DEF ScanOK, HotplugCb, listVars, pollVars
<1> QED
  BY <1>0, <1>2, <1>3 DEF StepGoal, HotplugCb, listVars, DevicesStep

LEMMA IdleHotplugCbStep == StepHyp /\ IdleHotplugCb => StepGoal
<1> SUFFICES ASSUME ListInv, IdleHotplugCb PROVE StepGoal
  BY DEF StepHyp
<1>0. /\ TypeInv /\ ScanOK /\ idleEvents \in Seq(Message)
      /\ EventsOK(msgs, plug) /\ EventsOK(idleEvents, plug) /\ FramesOK(stack, plug)
  BY DEF ListInv, TypeInv, DataOK
<1>1. doneEnumerate
  BY <1>0, FirstScanCall DEF IdleHotplugCb
<1> DEFINE f == [fn |-> "dispatch", batch |-> idleEvents]
<1>2. f \in Frame /\ FrameOK(f, plug)
  BY <1>0 DEF Frame, DispatchFrame, FrameOK
<1>3. FramesOK(stack', plug)
  BY <1>0, <1>2, StackSeq, FramesPush DEF IdleHotplugCb
<1>4. EventsOK(idleEvents', plug)
  BY DEF IdleHotplugCb, EventsOK
<1>5. ScanOK'
  BY <1>1 DEF ScanOK, IdleHotplugCb, listVars
<1> QED
  BY <1>0, <1>3, <1>4, <1>5 DEF StepGoal, IdleHotplugCb, libusbVars, listVars, DevicesStep

LEMMA DispatchNextStep == StepHyp /\ DispatchNext => StepGoal
<1> SUFFICES ASSUME LibusbAssumption, ListInv, DispatchNext PROVE StepGoal
  BY DEF StepHyp
<1> DEFINE event == Head(Top.batch)
           f == [Top EXCEPT !.batch = Tail(@)]
<1>0. /\ TypeInv /\ ScanOK /\ StackOK(stack, dictReplug) /\ stack \in Seq(Frame)
      /\ EventsOK(msgs, plug) /\ EventsOK(idleEvents, plug) /\ FramesOK(stack, plug)
  BY StackSeq DEF ListInv
<1>1. stack # <<>> /\ Top.fn = "dispatch" /\ Top.batch # <<>>
  BY DEF DispatchNext, Running
<1>2. doneEnumerate
  BY <1>0, <1>1, FirstScan
<1>3. Top \in DispatchFrame /\ Top.batch \in Seq(Message) /\ FrameOK(Top, plug)
      /\ Len(stack) \in DOMAIN stack
  BY <1>0, <1>1, TopFrame DEF DispatchFrame, FramesOK, Top
<1>4. /\ event \in Message /\ event.dev \in Devs /\ EventOK(event, plug)
      /\ EventsOK(Tail(Top.batch), plug) /\ Tail(Top.batch) \in Seq(Message)
  <2>1. event \in Message /\ Tail(Top.batch) \in Seq(Message)
    BY <1>1, <1>3, HeadTailProperties
  <2>2. EventOK(event, plug) /\ EventsOK(Tail(Top.batch), plug)
    BY <1>1, <1>3, EventsTail DEF FrameOK
  <2>3. event.dev \in Devs
    BY <2>1 DEF Message
  <2> QED
    BY <2>1, <2>2, <2>3
<1>5. f \in DispatchFrame /\ f.fn = "dispatch" /\ f.batch = Tail(Top.batch)
  BY <1>3, <1>4 DEF DispatchFrame
<1>6. f \in Frame /\ FrameOK(f, plug)
  BY <1>4, <1>5 DEF Frame, FrameOK
<1>7. StackOK(Step(f), dictReplug) /\ FramesOK(Step(f), plug)
  BY <1>0, <1>1, <1>5, <1>6, StepOK, FramesSet DEF Step
<1>8. \/ event.event = "arrived" /\ AddDevice(event.dev, Step(f))
      \/ event.event = "left" /\ RemoveDevice(event.dev, Step(f))
  BY DEF DispatchNext
<1> HIDE DEF event, f
<1>9. FramesOK(stack', plug)
  <2>1. Step(f) \in Seq(Frame)
    BY <1>7 DEF StackOK
  <2> QED
    BY <1>4, <1>7, <1>8, <2>1, FramesAdd, FramesRemove
<1>10. DevicesStep
  <2>1. CASE AddDevice(event.dev, Step(f))
    BY <1>2, <1>4, <2>1, AddDeviceEffect DEF DevicesStep, EventOK
  <2>2. CASE event.event = "left" /\ RemoveDevice(event.dev, Step(f))
    <3>1. ASSUME NEW i \in DOMAIN devices, Address[devices[i]] = Address[event.dev], AddressesDiffer
          PROVE  plug[devices[i]] = "gone"
      <4>1. devices[i] \in Devs
        BY DEF ListInv, TypeInv, DataOK
      <4> QED
        BY <1>4, <2>2, <3>1, <4>1 DEF AddressesDiffer, EventOK
    <3> QED
      BY <2>2, <3>1, RemoveDeviceEffect DEF DevicesStep
  <2> QED
    BY <1>8, <2>1, <2>2
<1>11. ScanOK'
  BY <1>2, ScanDone DEF DispatchNext
<1> QED
  BY <1>0, <1>9, <1>10, <1>11 DEF StepGoal, DispatchNext, libusbVars, queueVars

LEMMA ReturnStep ==
  StepHyp /\ (DispatchReturn \/ RescanReturn \/ EnumerateReturn \/ HandlerReturn) => StepGoal
<1> SUFFICES ASSUME ListInv, DispatchReturn \/ RescanReturn \/ EnumerateReturn \/ HandlerReturn
             PROVE  StepGoal
  BY DEF StepHyp
<1>0. /\ TypeInv /\ ScanOK /\ stack \in Seq(Frame)
      /\ EventsOK(msgs, plug) /\ EventsOK(idleEvents, plug) /\ FramesOK(stack, plug)
  BY StackSeq DEF ListInv
<1>1. /\ stack # <<>> /\ Top.fn # "replug" /\ stack' = Below
      /\ UNCHANGED <<coreVars, dictReplug, waits, announced, reentered>>
  BY DEF DispatchReturn, RescanReturn, EnumerateReturn, HandlerReturn, Running
<1>2. FramesOK(stack', plug)
  BY <1>0, <1>1, FramesPop DEF Below
<1>3. ScanOK'
  <2>1. CASE doneEnumerate
    BY <1>1, <2>1, ScanDone DEF coreVars, listVars
  <2>2. CASE ~doneEnumerate
    <3>1. /\ Top.fn = "rescan" /\ Len(stack) = 2
          /\ stack[1].fn = "enumerate" /\ stack[1].step = "scan"
      <4>1. /\ Top.fn \in {"enumerate", "rescan"}
            /\ Top.fn = "enumerate" => Top.step = "scan"
            /\ Top.fn = "rescan" => Len(stack) = 2 /\ stack[1].fn = "enumerate"
                                   /\ stack[1].step = "scan"
        BY <1>0, <1>1, <2>2, FirstScan
      <4>2. Top.fn = "enumerate" => Top.step = "announce"
        BY DEF DispatchReturn, RescanReturn, EnumerateReturn, HandlerReturn, Running
      <4> QED
        BY <4>1, <4>2
    <3>2. Len(Below) = 1 /\ Below[1] = stack[1]
      <4>1. /\ Len(Front(stack)) = Len(stack) - 1
            /\ \A i \in 1..(Len(stack) - 1) : Front(stack)[i] = stack[i]
        BY <1>0, <1>1, FrontIsSeq
      <4>2. Len(stack) - 1 = 1 /\ 1 \in 1..(Len(stack) - 1)
        BY <3>1
      <4> QED
        BY <4>1, <4>2 DEF Below
    <3>3. Scanning(stack', devices')
      BY <1>1, <3>1, <3>2 DEF Scanning
    <3> QED
      BY <1>0, <1>1, <2>2, <3>3 DEF ScanOK, coreVars, listVars, queueVars, pollVars
  <2> QED
    BY <2>1, <2>2
<1> QED
  BY <1>0, <1>1, <1>2, <1>3
  DEF StepGoal, coreVars, libusbVars, listVars, queueVars, DevicesStep

LEMMA RescanCheckStep == StepHyp /\ RescanCheck => StepGoal
<1> SUFFICES ASSUME ListInv, RescanCheck PROVE StepGoal
  BY DEF StepHyp
<1> DEFINE d == Head(Top.existing)
           f == [Top EXCEPT !.existing = Tail(@)]
           g == [f EXCEPT !.removing = {d}]
<1>0. /\ TypeInv /\ ScanOK /\ stack \in Seq(Frame) /\ StackOK(stack, dictReplug)
      /\ EventsOK(msgs, plug) /\ EventsOK(idleEvents, plug) /\ FramesOK(stack, plug)
  BY StackSeq DEF ListInv
<1>1. stack # <<>> /\ Top.fn = "rescan" /\ Top.existing # <<>> /\ Top.removing = {}
  BY DEF RescanCheck, Running
<1>2. doneEnumerate
  BY <1>0, <1>1, FirstScan
<1>3. Top \in RescanFrame /\ FrameOK(Top, plug) /\ Len(stack) \in DOMAIN stack
  BY <1>0, <1>1, TopFrame DEF FramesOK, Top
<1>4. Top.existing \in Seq(Devs)
  BY <1>3 DEF RescanFrame
<1>5. /\ d = Top.existing[1] /\ 1 \in DOMAIN Top.existing /\ d \in Devs
      /\ Tail(Top.existing) \in Seq(Devs)
      /\ \A i \in DOMAIN Tail(Top.existing) :
           i + 1 \in DOMAIN Top.existing /\ Tail(Top.existing)[i] = Top.existing[i + 1]
  BY <1>1, <1>4, HeadTailProperties, LenProperties, EmptySeq
<1>6. /\ f \in RescanFrame /\ f.fn = "rescan" /\ f.existing = Tail(Top.existing)
      /\ f.found = Top.found /\ f.fresh = Top.fresh /\ f.removing = Top.removing
  BY <1>3, <1>5 DEF RescanFrame
<1>7. /\ g \in RescanFrame /\ g.fn = "rescan" /\ g.existing = Tail(Top.existing)
      /\ g.found = Top.found /\ g.fresh = Top.fresh /\ g.removing = {d}
  BY <1>5, <1>6 DEF RescanFrame
<1>8. stack' = Step(f) \/ (Address[d] \notin AddressesOf(Top.found) /\ EmitDeviceRemove(d, Step(g)))
  BY DEF RescanCheck
<1> HIDE DEF d, f, g
<1>9. \A i \in DOMAIN Tail(Top.existing) :
         Tail(Top.existing)[i] \in Top.found \/ plug[Tail(Top.existing)[i]] = "gone"
  BY <1>1, <1>3, <1>5 DEF FrameOK
<1>10. FrameOK(f, plug)
  BY <1>1, <1>3, <1>6, <1>9 DEF FrameOK
<1>11. ASSUME Address[d] \notin AddressesOf(Top.found) PROVE FrameOK(g, plug)
  <2>1. d \notin Top.found
    BY <1>11 DEF AddressesOf
  <2>2. plug[d] = "gone"
    BY <1>1, <1>3, <1>5, <2>1 DEF FrameOK
  <2> QED
    BY <1>1, <1>3, <1>7, <1>9, <2>2 DEF FrameOK
<1>12. f \in Frame /\ g \in Frame
  BY <1>6, <1>7 DEF Frame
<1>13. StackOK(Step(g), dictReplug)
  BY <1>0, <1>1, <1>7, <1>12, StepOK
<1>14. FramesOK(stack', plug)
  <2>1. CASE stack' = Step(f)
    BY <1>0, <1>10, <2>1, FramesSet DEF Step
  <2>2. CASE Address[d] \notin AddressesOf(Top.found) /\ EmitDeviceRemove(d, Step(g))
    <3>1. FramesOK(Step(g), plug)
      BY <1>0, <1>11, <2>2, FramesSet DEF Step
    <3> QED
      BY <1>13, <2>2, <3>1, FramesEmit DEF StackOK
  <2> QED
    BY <1>8, <2>1, <2>2
<1>15. ScanOK'
  BY <1>2, ScanDone DEF RescanCheck, coreVars, listVars
<1> QED
  BY <1>0, <1>14, <1>15
  DEF StepGoal, RescanCheck, coreVars, libusbVars, listVars, queueVars, DevicesStep

LEMMA RescanRemoveStep == StepHyp /\ RescanRemove => StepGoal
<1> SUFFICES ASSUME ListInv, RescanRemove PROVE StepGoal
  BY DEF StepHyp
<1> DEFINE f == [Top EXCEPT !.removing = {}]
<1>0. /\ TypeInv /\ ScanOK /\ stack \in Seq(Frame) /\ StackOK(stack, dictReplug)
      /\ EventsOK(msgs, plug) /\ EventsOK(idleEvents, plug) /\ FramesOK(stack, plug)
  BY StackSeq DEF ListInv
<1>1. stack # <<>> /\ Top.fn = "rescan" /\ Top.removing # {} /\ stack' = Step(f)
  BY DEF RescanRemove, Running
<1>2. doneEnumerate
  BY <1>0, <1>1, FirstScan
<1>3. Top \in RescanFrame /\ FrameOK(Top, plug) /\ Len(stack) \in DOMAIN stack
  BY <1>0, <1>1, TopFrame DEF FramesOK, Top
<1>4. /\ f.fn = "rescan" /\ f.existing = Top.existing
      /\ f.found = Top.found /\ f.fresh = Top.fresh /\ f.removing = {}
  BY <1>3 DEF RescanFrame
<1> HIDE DEF f
<1>5. FrameOK(f, plug)
  BY <1>1, <1>3, <1>4 DEF FrameOK
<1>6. FramesOK(stack', plug)
  BY <1>0, <1>1, <1>5, FramesSet DEF Step
<1>7. \A d \in Top.removing : plug[d] = "gone"
  BY <1>1, <1>3 DEF FrameOK
<1>8. DevicesStep
  BY <1>7 DEF RescanRemove, DevicesStep
<1>9. ScanOK'
  BY <1>2, ScanDone DEF RescanRemove
<1> QED
  BY <1>0, <1>6, <1>8, <1>9 DEF StepGoal, RescanRemove, libusbVars, queueVars

LEMMA RescanAddStep == StepHyp /\ RescanAdd => StepGoal
<1> SUFFICES ASSUME LibusbAssumption, ListInv, RescanAdd PROVE StepGoal
  BY DEF StepHyp
<1>0. /\ TypeInv /\ ScanOK /\ stack \in Seq(Frame) /\ StackOK(stack, dictReplug)
      /\ EventsOK(msgs, plug) /\ EventsOK(idleEvents, plug) /\ FramesOK(stack, plug)
      /\ devices \in Seq(Devs)
  BY StackSeq DEF ListInv, TypeInv, DataOK
<1>1. stack # <<>> /\ Top.fn = "rescan" /\ Top.existing = <<>> /\ Top.removing = {}
  BY DEF RescanAdd, Running
<1>2. PICK d \in Top.fresh : AddDevice(d, Step([Top EXCEPT !.fresh = @ \ {d}]))
  BY DEF RescanAdd
<1> DEFINE f == [Top EXCEPT !.fresh = @ \ {d}]
           st == Step(f)
<1>3. /\ Top \in RescanFrame /\ FrameOK(Top, plug) /\ Len(stack) \in DOMAIN stack
      /\ Top.fresh \subseteq Devs
  BY <1>0, <1>1, TopFrame DEF FramesOK, Top, RescanFrame
<1>4. /\ f \in RescanFrame /\ f.fn = "rescan" /\ f.existing = Top.existing
      /\ f.found = Top.found /\ f.fresh = Top.fresh \ {d} /\ f.removing = Top.removing
  BY <1>3 DEF RescanFrame
<1>5. AddDevice(d, st) /\ d \in Devs /\ plug[d] # "absent"
  BY <1>1, <1>2, <1>3 DEF FrameOK
<1>6. f \in Frame
  BY <1>4 DEF Frame
<1> HIDE DEF f
<1>7. FrameOK(f, plug)
  BY <1>1, <1>3, <1>4 DEF FrameOK
<1>8. StackOK(st, dictReplug) /\ FramesOK(st, plug)
  BY <1>0, <1>1, <1>4, <1>6, <1>7, StepOK, FramesSet DEF Step
<1> HIDE DEF st
<1>9. FramesOK(stack', plug)
  BY <1>5, <1>8, FramesAdd
<1>10. CASE doneEnumerate
  <2>1. DevicesStep
    BY <1>5, <1>10, AddDeviceEffect DEF DevicesStep
  <2>2. ScanOK'
    BY <1>10, ScanDone DEF RescanAdd
  <2> QED
    BY <1>0, <1>9, <2>1, <2>2 DEF StepGoal, RescanAdd, libusbVars, queueVars
<1>11. CASE ~doneEnumerate
  <2>1. /\ Len(stack) = 2 /\ stack[1].fn = "enumerate" /\ stack[1].step = "scan"
        /\ BusOK(Top.fresh) /\ AddressesOf(Top.fresh) \cap AddressesOf(Listed) = {}
    BY <1>0, <1>1, <1>11, FirstScan
  <2>2. Address[d] \notin AddressesOf(Listed)
    BY <1>2, <2>1 DEF AddressesOf
  <2>3. DevicesStep
    BY <1>5, <2>2, AddDeviceEffect DEF DevicesStep
  <2>4. stack' = st
    <3>1. dictReplug[Port[d]] = 0
      BY <1>5, <1>11 DEF ListInv, ScanOK, LibusbAssumption
    <3> QED
      BY <1>5, <1>11, <3>1, Zenon DEF AddDevice, EmitDeviceAdd
  <2>5. ListedIn(devices') \subseteq Listed \cup {d}
    BY <1>0, <1>5, AddDeviceEffect, ListAppend DEF Listed
  <2>6. AddressesOf(f.fresh) \cap AddressesOf(ListedIn(devices')) = {}
    <3>1. \A e \in f.fresh : Address[e] # Address[d]
      BY <1>2, <1>4, <2>1 DEF BusOK
    <3>2. \A e \in f.fresh : \A c \in Listed : Address[e] # Address[c]
      BY <1>4, <2>1 DEF AddressesOf
    <3> QED
      BY <2>5, <3>1, <3>2 DEF AddressesOf
  <2>7. BusOK(f.fresh)
    BY <1>4, <2>1 DEF BusOK
  <2>8. Len(st) = 2 /\ st[1] = stack[1] /\ st[2] = f
    BY <1>0, <2>1 DEF st, Step
  <2>9. Scanning(stack', devices')
    BY <1>1, <1>4, <2>1, <2>4, <2>6, <2>7, <2>8 DEF Scanning
  <2>10. ScanOK'
    BY <1>0, <1>11, <2>9 DEF ScanOK, RescanAdd, queueVars, pollVars
  <2> QED
    BY <1>0, <1>9, <2>3, <2>10 DEF StepGoal, RescanAdd, libusbVars, queueVars
<1> QED
  BY <1>10, <1>11

LEMMA RescanCbStep == StepHyp /\ RescanCb => StepGoal
<1> SUFFICES ASSUME ListInv, RescanCb PROVE StepGoal
  BY DEF StepHyp
<1>0. /\ TypeInv /\ ScanOK /\ stack \in Seq(Frame) /\ StackOK(stack, dictReplug)
      /\ EventsOK(msgs, plug) /\ EventsOK(idleEvents, plug) /\ FramesOK(stack, plug)
      /\ devices \in Seq(Devs) /\ pollId \in Nat
  BY StackSeq DEF ListInv, TypeInv, DataOK
<1>1. doneEnumerate
  BY <1>0, FirstScanCall DEF RescanCb
<1>2. Rescan(pollId) \in Frame /\ FrameOK(Rescan(pollId), plug)
  BY <1>0, RescanFrameOK, RescanFrameFresh DEF ListInv
<1>3. FramesOK(stack', plug)
  <2>1. CASE stack' = Append(stack, Rescan(pollId))
    BY <1>0, <1>2, <2>1, FramesPush
  <2>2. CASE /\ LastIteration("timeout")
             /\ stack' = Append(Step([Top EXCEPT !.quit = "over"]), Rescan(pollId))
    <3> DEFINE f == [Top EXCEPT !.quit = "over"]
    <3>1. stack # <<>> /\ Top.fn = "replug"
      BY <2>2 DEF LastIteration, Running
    <3>2. f \in ReplugFrame /\ f.fn = "replug"
      BY <1>0, <3>1, TopFrame DEF ReplugFrame
    <3>3. FrameOK(f, plug) /\ f \in Frame
      BY <3>2 DEF FrameOK, Frame
    <3>5. stack' = Append(Step(f), Rescan(pollId))
      BY <2>2
    <3> HIDE DEF f
    <3>4. FramesOK(Step(f), plug) /\ Step(f) \in Seq(Frame)
      BY <1>0, <3>1, <3>3, FramesStep
    <3>6. FramesOK(Append(Step(f), Rescan(pollId)), plug)
      BY <1>2, <3>4, FramesPush
    <3> QED
      BY <3>5, <3>6
  <2> QED
    BY <2>1, <2>2 DEF RescanCb
<1>4. ScanOK'
  BY <1>1, ScanDone DEF RescanCb, coreVars, listVars
<1> QED
  BY <1>0, <1>3, <1>4
  DEF StepGoal, RescanCb, coreVars, libusbVars, listVars, queueVars, DevicesStep

LEMMA SetIntervalStep ==
  StepHyp /\ (\E interval \in Intervals : SetHotplugPollInterval(interval)) => StepGoal
<1> SUFFICES ASSUME ListInv, \E interval \in Intervals : SetHotplugPollInterval(interval)
             PROVE  StepGoal
  BY DEF StepHyp
<1>0. /\ TypeInv /\ ScanOK
      /\ EventsOK(msgs, plug) /\ EventsOK(idleEvents, plug) /\ FramesOK(stack, plug)
  BY DEF ListInv
<1>1. /\ UNCHANGED <<libusbVars, listVars, queueVars, dictReplug, stack>>
      /\ pollId = 0 => pollId' = 0
  BY DEF SetHotplugPollInterval
<1>2. ScanOK'
  BY <1>0, <1>1 DEF ScanOK, listVars, queueVars
<1> QED
  BY <1>0, <1>1, <1>2 DEF StepGoal, libusbVars, listVars, queueVars, DevicesStep

LEMMA EnumerateStep == StepHyp /\ Enumerate => StepGoal
<1> SUFFICES ASSUME ListInv, Enumerate PROVE StepGoal
  BY DEF StepHyp
<1> DEFINE f == [fn |-> "enumerate", step |-> "scan", next |-> 1]
           r == Rescan(0)
<1>0. /\ TypeInv /\ ScanOK /\ stack \in Seq(Frame) /\ BusOK(Attached)
      /\ EventsOK(msgs, plug) /\ EventsOK(idleEvents, plug) /\ FramesOK(stack, plug)
      /\ devices \in Seq(Devs)
  BY StackSeq DEF ListInv, TypeInv, DataOK
<1>1. ~doneEnumerate /\ stack = <<>> /\ devices = <<>>
  BY <1>0, FirstScanCall DEF Enumerate
<1>2. r \in Frame /\ FrameOK(r, plug)
  BY <1>0, RescanFrameOK, RescanFrameFresh DEF ListInv
<1>3. /\ r.fn = "rescan" /\ r.removing = {} /\ r.fresh = Attached
      /\ r.existing = Reverse(devices)
  BY DEF Rescan
<1>4. r.existing = <<>>
  <2>1. Reverse(devices) \in Seq(Devs) /\ Len(Reverse(devices)) = Len(devices)
    BY <1>0, ReverseIsSeq
  <2>2. Len(devices) = 0
    BY <1>1
  <2> QED
    BY <1>3, <2>1, <2>2, EmptySeq
<1>5. f \in Frame /\ FrameOK(f, plug) /\ f.fn = "enumerate" /\ f.step = "scan"
  BY DEF Frame, EnumerateFrame, FrameOK
<1>6. stack' = <<f, r>>
  BY <1>1 DEF Enumerate
<1> HIDE DEF f, r
<1>7. FramesOK(stack', plug)
  BY <1>2, <1>5, <1>6 DEF FramesOK
<1>8. Scanning(stack', devices')
  <2>1. devices' = devices /\ ListedIn(devices) = {}
    BY <1>1 DEF Enumerate, coreVars, listVars, ListedIn
  <2>2. AddressesOf(r.fresh) \cap AddressesOf(ListedIn(devices')) = {}
    BY <2>1 DEF AddressesOf
  <2>3. Len(stack') = 2 /\ stack'[1] = f /\ stack'[2] = r
    BY <1>6
  <2>4. BusOK(r.fresh)
    BY <1>0, <1>3
  <2> QED
    BY <1>3, <1>4, <1>5, <2>2, <2>3, <2>4 DEF Scanning
<1>9. ScanOK'
  BY <1>0, <1>1, <1>8 DEF ScanOK, Enumerate, coreVars, listVars, queueVars, pollVars
<1> QED
  BY <1>0, <1>7, <1>9
  DEF StepGoal, Enumerate, coreVars, libusbVars, listVars, queueVars, DevicesStep

LEMMA EnumerateDoneStep == StepHyp /\ EnumerateDone => StepGoal
<1> SUFFICES ASSUME ListInv, EnumerateDone PROVE StepGoal
  BY DEF StepHyp
<1> DEFINE f == [Top EXCEPT !.step = "announce"]
<1>0. /\ TypeInv /\ stack \in Seq(Frame) /\ StackOK(stack, dictReplug)
      /\ EventsOK(msgs, plug) /\ EventsOK(idleEvents, plug) /\ FramesOK(stack, plug)
  BY StackSeq DEF ListInv
<1>1. stack # <<>> /\ Top.fn = "enumerate" /\ stack' = Step(f)
  BY DEF EnumerateDone, Running
<1>2. f.fn = "enumerate"
  BY <1>0, <1>1, TopFrame DEF EnumerateFrame
<1>3. FrameOK(f, plug)
  BY <1>2 DEF FrameOK
<1> HIDE DEF f
<1>4. FramesOK(stack', plug)
  BY <1>0, <1>1, <1>3, FramesSet DEF Step
<1>5. ScanOK'
  BY DEF ScanOK, EnumerateDone
<1> QED
  BY <1>0, <1>4, <1>5 DEF StepGoal, EnumerateDone, libusbVars, queueVars, DevicesStep

LEMMA EnumerateAnnounceStep == StepHyp /\ EnumerateAnnounce => StepGoal
<1> SUFFICES ASSUME ListInv, EnumerateAnnounce PROVE StepGoal
  BY DEF StepHyp
<1> DEFINE f == [Top EXCEPT !.next = @ + 1]
<1>0. /\ TypeInv /\ ScanOK /\ stack \in Seq(Frame) /\ StackOK(stack, dictReplug)
      /\ EventsOK(msgs, plug) /\ EventsOK(idleEvents, plug) /\ FramesOK(stack, plug)
  BY StackSeq DEF ListInv
<1>1. stack # <<>> /\ Top.fn = "enumerate" /\ Top.step = "announce"
  BY DEF EnumerateAnnounce, Running
<1>2. doneEnumerate
  BY <1>0, <1>1, FirstScan
<1>3. f \in Frame /\ f.fn = "enumerate"
  BY <1>0, <1>1, TopFrame DEF EnumerateFrame, Frame
<1>4. FrameOK(f, plug)
  BY <1>3 DEF FrameOK
<1>5. EmitDeviceAdd(devices[Top.next], Step(f))
  BY DEF EnumerateAnnounce
<1> HIDE DEF f
<1>6. FramesOK(Step(f), plug) /\ Step(f) \in Seq(Frame)
  BY <1>0, <1>1, <1>3, <1>4, FramesStep
<1>7. FramesOK(stack', plug)
  BY <1>5, <1>6, FramesEmit
<1>8. ScanOK'
  BY <1>2, ScanDone DEF EnumerateAnnounce, coreVars, listVars
<1> QED
  BY <1>0, <1>7, <1>8
  DEF StepGoal, EnumerateAnnounce, coreVars, libusbVars, listVars, queueVars, DevicesStep

LEMMA WaitForReplugStep == StepHyp /\ (\E d \in Devs : WaitForReplug(d)) => StepGoal
<1> SUFFICES ASSUME LibusbAssumption, ListInv, NEW d \in Devs, WaitForReplug(d)
             PROVE  StepGoal
  BY DEF StepHyp
<1> DEFINE f == [fn |-> "replug", pid |-> Port[d], device |-> d, timer |-> TRUE, quit |-> "no"]
<1>0. /\ TypeInv /\ ScanOK /\ stack \in Seq(Frame)
      /\ EventsOK(msgs, plug) /\ EventsOK(idleEvents, plug) /\ FramesOK(stack, plug)
  BY StackSeq DEF ListInv
<1>1. doneEnumerate
  <2>1. CASE ~doneEnumerate
    <3>1. devices = <<>> /\ devicesRemoved = {}
      BY <1>0, <2>1, FirstScanCall DEF WaitForReplug
    <3> QED
      BY <3>1 DEF WaitForReplug, Listed, ListedIn
  <2> QED
    BY <2>1
<1>2. f \in Frame /\ FrameOK(f, plug)
  BY DEF Frame, ReplugFrame, FrameOK, LibusbAssumption
<1>3. stack' = Append(stack, f)
  BY DEF WaitForReplug
<1> HIDE DEF f
<1>4. FramesOK(stack', plug)
  BY <1>0, <1>2, <1>3, FramesPush
<1>5. ScanOK'
  BY <1>1, ScanDone DEF WaitForReplug, coreVars, listVars
<1> QED
  BY <1>0, <1>4, <1>5
  DEF StepGoal, WaitForReplug, coreVars, libusbVars, listVars, queueVars, DevicesStep

LEMMA ReplugTimeoutCbStep == StepHyp /\ (\E k \in DOMAIN stack : ReplugTimeoutCb(k)) => StepGoal
<1> SUFFICES ASSUME ListInv, NEW k \in DOMAIN stack, ReplugTimeoutCb(k)
             PROVE  StepGoal
  BY DEF StepHyp
<1> DEFINE q == IF stack[k].quit = "no" /\ k = Len(stack) THEN "timeout" ELSE "over"
           f == [[stack[k] EXCEPT !.timer = FALSE] EXCEPT !.quit = q]
<1>0. /\ TypeInv /\ ScanOK /\ stack \in Seq(Frame)
      /\ EventsOK(msgs, plug) /\ EventsOK(idleEvents, plug) /\ FramesOK(stack, plug)
  BY StackSeq DEF ListInv
<1>1. stack[k].fn = "replug" /\ stack[k] \in ReplugFrame
  BY <1>0, FrameKinds DEF ReplugTimeoutCb
<1>2. doneEnumerate
  BY <1>0, <1>1, FirstScan
<1>3. f.fn = "replug" /\ stack' = [stack EXCEPT ![k] = f]
  BY <1>1 DEF ReplugTimeoutCb, ReplugFrame
<1> HIDE DEF f
<1>4. FramesOK(stack', plug)
  BY <1>0, <1>3, FramesSet DEF FrameOK
<1>5. ScanOK'
  BY <1>2, ScanDone DEF ReplugTimeoutCb, coreVars, listVars
<1> QED
  BY <1>0, <1>4, <1>5
  DEF StepGoal, ReplugTimeoutCb, coreVars, libusbVars, listVars, queueVars, DevicesStep

LEMMA ReplugReturnStep == StepHyp /\ ReplugReturn => StepGoal
<1> SUFFICES ASSUME ListInv, ReplugReturn PROVE StepGoal
  BY DEF StepHyp
<1>0. /\ TypeInv /\ ScanOK /\ stack \in Seq(Frame)
      /\ EventsOK(msgs, plug) /\ EventsOK(idleEvents, plug) /\ FramesOK(stack, plug)
  BY StackSeq DEF ListInv
<1>1. stack # <<>> /\ Top.fn = "replug"
  BY DEF ReplugReturn, Running
<1>2. doneEnumerate
  BY <1>0, <1>1, FirstScan
<1>3. FramesOK(Below, plug) /\ Below \in Seq(Frame)
  BY <1>0, <1>1, FramesPop, FrontIsSeq DEF Below
<1>4. FramesOK(stack', plug)
  BY <1>3, FramesEmit DEF ReplugReturn
<1>5. ScanOK'
  BY <1>2, ScanDone DEF ReplugReturn, coreVars, listVars
<1> QED
  BY <1>0, <1>4, <1>5
  DEF StepGoal, ReplugReturn, coreVars, libusbVars, listVars, queueVars, DevicesStep

\* Every step but those of the bus.
LEMMA MainStepGoal == StepHyp /\ Next /\ ~Bus => StepGoal
<1> SUFFICES ASSUME StepHyp, Next, ~Bus PROVE StepGoal
  OBVIOUS
<1>1. CASE DispatchReturn \/ RescanReturn \/ EnumerateReturn \/ HandlerReturn
  BY <1>1, ReturnStep
<1>2. CASE DispatchNext \/ RescanCheck \/ RescanRemove \/ RescanAdd
  BY <1>2, DispatchNextStep, RescanCheckStep, RescanRemoveStep, RescanAddStep
<1>3. CASE EnumerateDone \/ EnumerateAnnounce \/ ReplugReturn \/ Call
  BY <1>3, EnumerateDoneStep, EnumerateAnnounceStep, ReplugReturnStep, EnumerateStep,
     WaitForReplugStep, SetIntervalStep DEF Call
<1>4. CASE \/ HotplugCb \/ IdleHotplugCb \/ RescanCb
           \/ \E k \in DOMAIN stack : ReplugTimeoutCb(k)
  BY <1>4, HotplugCbStep, IdleHotplugCbStep, RescanCbStep, ReplugTimeoutCbStep
<1> QED
  BY <1>1, <1>2, <1>3, <1>4 DEF Next, MainStep

-----------------------------------------------------------------------------
(* The theorems.                                                           *)

LEMMA ListInit == LibusbAssumption /\ ContextAssumption /\ Init => ListInv
<1> SUFFICES ASSUME ContextAssumption, Init PROVE ListInv
  OBVIOUS
<1>1. TypeInv
  BY TypeInit
<1>2. BusOK(Attached)
  BY DEF Init, LibusbInit
<1>3. EventsOK(msgs, plug) /\ EventsOK(idleEvents, plug) /\ FramesOK(stack, plug)
  BY DEF Init, LibusbInit, EventsOK, FramesOK
<1>4. UniqueIn(devices) /\ \A i \in DOMAIN devices : plug[devices[i]] # "absent"
  BY DEF Init, UniqueIn
<1>5. ScanOK
  BY DEF Init, ScanOK, Scanning
<1> QED
  BY <1>1, <1>2, <1>3, <1>4, <1>5 DEF ListInv

LEMMA ListNext ==
  ASSUME LibusbAssumption, ContextAssumption, ListInv, [Next]_vars
  PROVE  ListInv'
<1>0. /\ TypeInv /\ ScanOK /\ stack \in Seq(Frame) /\ BusOK(Attached)
      /\ EventsOK(msgs, plug) /\ EventsOK(idleEvents, plug) /\ FramesOK(stack, plug)
      /\ devices \in Seq(Devs) /\ idleEvents \in Seq(Message) /\ UniqueIn(devices)
      /\ \A i \in DOMAIN devices : devices[i] \in Devs /\ plug[devices[i]] # "absent"
  BY StackSeq DEF ListInv, TypeInv, DataOK
<1>1. TypeInv'
  BY <1>0, TypeNext
<1>2. CASE Bus
  <2>1. Grows(plug, plug') /\ BusOK(Attached') /\ EventsOK(msgs', plug')
    BY <1>0, <1>2, BusStep
  <2>2. /\ devices' = devices /\ idleEvents' = idleEvents /\ stack' = stack
        /\ UNCHANGED <<doneEnumerate, idleQueued, pollId, devicesRemoved, dictReplug>>
    BY <1>2 DEF Bus, listVars, queueVars, pollVars
  <2>3. EventsOK(idleEvents', plug') /\ FramesOK(stack', plug')
    BY <1>0, <2>1, <2>2, EventsGrow, FramesGrow
  <2>4. UniqueIn(devices') /\ \A i \in DOMAIN devices' : plug'[devices'[i]] # "absent"
    BY <1>0, <2>1, <2>2 DEF Grows
  <2>5. ScanOK'
    BY <1>0, <2>2 DEF ScanOK
  <2> QED
    BY <1>1, <2>1, <2>3, <2>4, <2>5 DEF ListInv
<1>3. CASE Next /\ ~Bus
  <2>1. StepGoal
    BY <1>3, MainStepGoal DEF StepHyp
  <2>2. UniqueIn(devices') /\ \A i \in DOMAIN devices' : plug[devices'[i]] # "absent"
    BY <1>0, <2>1, DevicesStepOK DEF StepGoal
  <2>3. Attached' = Attached
    BY <2>1 DEF StepGoal, Attached
  <2> QED
    BY <1>0, <1>1, <2>1, <2>2, <2>3 DEF ListInv, StepGoal
<1>4. CASE UNCHANGED vars
  BY <1>0, <1>1, <1>4
  DEF ListInv, Attached, ScanOK, vars, coreVars, libusbVars, listVars, queueVars, pollVars
<1> QED
  BY <1>2, <1>3, <1>4

LEMMA UniqueInList == ListInv => UniqueAddress
BY DEF ListInv, UniqueIn, UniqueAddress

\* No two devices on the list ever have the same bus number and address, however
\* deep signal handlers nest the main loop and whatever the bus does meanwhile.
THEOREM ListUnique ==
  ASSUME LibusbAssumption, ContextAssumption
  PROVE  Spec => []UniqueAddress
<1>1. Init => ListInv
  BY ListInit, LibusbAssumption, ContextAssumption
<1>2. ListInv /\ [Next]_vars => ListInv'
  BY ListNext, LibusbAssumption, ContextAssumption
<1> QED
  BY <1>1, <1>2, UniqueInList, PTL DEF Spec

LEMMA TrackingStep ==
  ASSUME LibusbAssumption, ContextAssumption, AddressesDiffer, ListInv, [Next]_vars
  PROVE  [Tracking!Next]_<<plug, Listed>>
<1>0. devices \in Seq(Devs) /\ UniqueIn(devices)
  BY DEF ListInv, TypeInv, DataOK
<1>1. CASE Bus
  <2>1. Listed' = Listed
    BY <1>1 DEF Bus, listVars, Listed
  <2>2. PICK d \in Devs : Plug(d) \/ Unplug(d)
    BY <1>1 DEF Bus
  <2>3. Tracking!Arrive(d) \/ Tracking!Leave(d)
    BY <2>1, <2>2 DEF Plug, Unplug, Tracking!Arrive, Tracking!Leave
  <2> QED
    BY <2>3 DEF Tracking!Next
<1>2. CASE Next /\ ~Bus
  <2>1. plug' = plug /\ DevicesStep
    BY <1>2, MainStepGoal DEF StepHyp, StepGoal
  <2>2. CASE devices' = devices
    BY <2>1, <2>2 DEF Listed
  <2>3. ASSUME NEW d \in Devs, plug[d] # "absent", Address[d] \notin AddressesOf(Listed),
               devices' = Append(devices, d)
        PROVE  Tracking!Next
    <3>1. Listed' = Listed \cup {d}
      BY <1>0, <2>3, ListAppend DEF Listed
    <3>2. \A e \in Listed : Address[e] # Address[d]
      BY <2>3 DEF AddressesOf
    <3>3. Tracking!Add(d)
      BY <2>1, <2>3, <3>1, <3>2 DEF Tracking!Add
    <3> QED
      BY <3>3 DEF Tracking!Next
  <2>4. ASSUME NEW i \in DOMAIN devices, devices' = RemoveAt(devices, i),
               plug[devices[i]] = "gone"
        PROVE  Tracking!Next
    <3>1. Listed' = Listed \ {devices[i]}
      BY <1>0, <2>4, ListRemove DEF Listed
    <3>2. devices[i] \in Devs /\ devices[i] \in Listed
      BY <1>0 DEF Listed, ListedIn
    <3>3. Tracking!Remove(devices[i])
      BY <2>1, <2>4, <3>1, <3>2 DEF Tracking!Remove
    <3> QED
      BY <3>2, <3>3 DEF Tracking!Next
  <2> QED
    BY <2>1, <2>2, <2>3, <2>4, Zenon DEF DevicesStep
<1>3. CASE UNCHANGED vars
  BY <1>3 DEF vars, coreVars, libusbVars, listVars, Listed
<1> QED
  BY <1>1, <1>2, <1>3

LEMMA TrackingInit == Init => Tracking!Init
<1> SUFFICES ASSUME Init PROVE Tracking!Init
  OBVIOUS
<1>1. plug \in [Devs -> {"absent", "attached"}]
  BY DEF Init, LibusbInit
<1>2. Listed = {}
  BY DEF Init, Listed, ListedIn
<1> QED
  BY <1>1, <1>2 DEF Tracking!Init

\* The list follows the bus: a device is listed only after it was plugged in and
\* at an address nobody else on the list has, and taken off only after it was
\* unplugged.  With hotplug events this needs addresses that are not reused: a
\* stale "left" event takes off whatever has its address.
THEOREM ListTracksBus ==
  ASSUME LibusbAssumption, ContextAssumption, AddressesDiffer
  PROVE  Spec => TracksBus
<1>1. Init => ListInv
  BY ListInit, LibusbAssumption, ContextAssumption
<1>2. ListInv /\ [Next]_vars => ListInv'
  BY ListNext, LibusbAssumption, ContextAssumption
<1>3. ListInv /\ [Next]_vars => [Tracking!Next]_<<plug, Listed>>
  BY TrackingStep, LibusbAssumption, ContextAssumption, AddressesDiffer
<1> QED
  BY <1>1, <1>2, <1>3, TrackingInit, PTL DEF Spec, TracksBus, Tracking!Spec
-----------------------------------------------------------------------------
(* The invariant.                                                          *)

\* A scan after the first one is by a poll source that was created, has each
\* device before it once and, if no other source was ever created, on the list.
RescanOK(f, devs, n) ==
  /\ ~HasHotplug /\ f.source \in 1 .. n
  /\ UniqueIn(f.existing)
  /\ \A i \in DOMAIN f.existing : f.existing[i] \notin f.removing
  /\ n <= 1 => \A i \in DOMAIN f.existing : f.existing[i] \in ListedIn(devs)

\* And no two scans are by the same source.
RescansOK(st, devs, n) ==
  /\ \A k \in DOMAIN st : st[k].fn = "rescan" => RescanOK(st[k], devs, n)
  /\ \A j, k \in DOMAIN st :
       st[j].fn = "rescan" /\ st[k].fn = "rescan" /\ st[j].source = st[k].source => j = k

PollInv ==
  /\ HasHotplug => pollId = 0
  /\ doneEnumerate => RescansOK(stack, devices, lastSource)

-----------------------------------------------------------------------------
(* Stacks with the same scans.                                             *)

SameRescans(st, old) ==
  \A k \in DOMAIN st : st[k].fn = "rescan" => k \in DOMAIN old /\ st[k] = old[k]

LEMMA SameRescansTrans ==
  ASSUME NEW a, NEW b, NEW c, SameRescans(a, b), SameRescans(b, c)
  PROVE  SameRescans(a, c)
BY DEF SameRescans

LEMMA RescansKept ==
  ASSUME NEW st, NEW old, NEW devs, NEW olddevs, NEW n \in Nat, NEW m \in Nat, m <= n,
         RescansOK(old, olddevs, m), SameRescans(st, old), ListedIn(olddevs) \subseteq ListedIn(devs)
  PROVE  RescansOK(st, devs, n)
BY DEF RescansOK, RescanOK, SameRescans

\* A frame that is no scan is pushed, or any frame popped.
LEMMA PushSame ==
  ASSUME NEW st \in Seq(Frame), NEW f \in Frame, f.fn # "rescan"
  PROVE  SameRescans(Append(st, f), st)
BY DEF SameRescans

LEMMA PopSame ==
  ASSUME NEW st \in Seq(Frame), st # <<>>
  PROVE  SameRescans(Front(st), st)
<1>1. /\ DOMAIN Front(st) = 1..(Len(st) - 1) /\ DOMAIN st = 1..Len(st) /\ Len(st) \in Nat
      /\ \A i \in 1..(Len(st) - 1) : Front(st)[i] = st[i]
  BY FrontIsSeq, LenProperties
<1> QED
  BY <1>1 DEF SameRescans

LEMMA SetSame ==
  ASSUME NEW st, NEW k, NEW f, f.fn # "rescan"
  PROVE  SameRescans([st EXCEPT ![k] = f], st)
BY DEF SameRescans

LEMMA SelfSame ==
  ASSUME NEW st
  PROVE  SameRescans(st, st)
BY DEF SameRescans

LEMMA EmitSame ==
  ASSUME NEW st \in Seq(Frame), NEW d, EmitDeviceAdd(d, st) \/ EmitDeviceRemove(d, st)
  PROVE  SameRescans(stack', st)
<1>1. Handler \in Frame /\ Handler.fn # "rescan"
  BY DEF Handler, Frame, HandlerFrame
<1>2. stack' = st \/ stack' = Append(st, Handler)
  BY DEF EmitDeviceAdd, EmitDeviceRemove
<1> QED
  BY <1>1, <1>2, PushSame, SelfSame

LEMMA AddSame ==
  ASSUME LibusbAssumption, NEW st, StackOK(st, dictReplug), NEW d \in Devs, AddDevice(d, st)
  PROVE  SameRescans(stack', st)
<1>0. st \in Seq(Frame)
  BY DEF StackOK
<1>1. CASE dictReplug[Port[d]] # 0 /\ stack' = Replugged(d, st)
  <2> DEFINE k == dictReplug[Port[d]]
             q == IF st[k].quit = "no" THEN "replugged" ELSE st[k].quit
             f == [[st[k] EXCEPT !.device = d] EXCEPT !.quit = q]
  <2>1. k \in DOMAIN st /\ st[k] \in Frame /\ st[k].fn = "replug"
    BY <1>1 DEF StackOK, LibusbAssumption
  <2>2. st[k] \in ReplugFrame
    BY <2>1, FrameKinds
  <2>3. f.fn # "rescan"
    BY <2>2 DEF ReplugFrame
  <2>4. Replugged(d, st) = [st EXCEPT ![k] = f]
    BY <1>0, <2>1, <2>2 DEF Replugged, ReplugFrame
  <2>5. stack' = [st EXCEPT ![k] = f]
    BY <1>1, <2>4
  <2> HIDE DEF f, k, q
  <2>6. SameRescans([st EXCEPT ![k] = f], st)
    BY <2>3, SetSame
  <2> QED
    BY <2>5, <2>6
<1>2. CASE stack' = st
  BY <1>2, SelfSame
<1>3. CASE EmitDeviceAdd(d, st)
  BY <1>0, <1>3, EmitSame
<1> QED
  BY <1>1, <1>2, <1>3 DEF AddDevice

\* add_device takes nothing off the list.
LEMMA AddKeepsListed ==
  ASSUME devices \in Seq(Devs), NEW d \in Devs, NEW st, AddDevice(d, st)
  PROVE  ListedIn(devices) \subseteq ListedIn(devices')
BY AddDeviceEffect, ListAppend

\* The scan that runs is replaced by one of the same source.
LEMMA StepRescans ==
  ASSUME stack \in Seq(Frame), stack # <<>>, Top.fn = "rescan",
         NEW f, f.source = Top.source, NEW n, NEW devs, RescansOK(stack, devs, n), RescanOK(f, devs, n)
  PROVE  RescansOK(Step(f), devs, n)
<1>1. Len(stack) \in DOMAIN stack
  BY EmptySeq, LenProperties
<1> QED
  BY <1>1 DEF RescansOK, Step, Top

-----------------------------------------------------------------------------
(* The steps, one by one.                                                  *)

PollHyp == LibusbAssumption /\ ListInv /\ PollInv

LEMMA Typed ==
  ASSUME PollHyp
  PROVE  /\ stack \in Seq(Frame) /\ StackOK(stack, dictReplug)
         /\ devices \in Seq(Devs) /\ UniqueIn(devices)
         /\ pollId \in 0 .. lastSource /\ lastSource \in Nat
BY DEF PollHyp, ListInv, TypeInv, DataOK, StackOK

\* A step that starts no scan, takes nothing off the list and creates no source
\* but another poll source.
LEMMA PollKept ==
  ASSUME PollHyp, doneEnumerate' = doneEnumerate, HasHotplug => pollId' = 0,
         lastSource' \in Nat, lastSource <= lastSource',
         doneEnumerate => SameRescans(stack', stack) /\ ListedIn(devices) \subseteq ListedIn(devices')
  PROVE  PollInv'
<1>1. CASE doneEnumerate
  <2>1. RescansOK(stack, devices, lastSource) /\ lastSource \in Nat
    BY <1>1, Typed DEF PollHyp, PollInv
  <2>2. RescansOK(stack', devices', lastSource')
    BY <1>1, <2>1, RescansKept
  <2> QED
    BY <2>2 DEF PollInv
<1> QED
  BY <1>1 DEF PollInv

LEMMA QuietStep ==
  PollHyp /\ (Bus \/ HotplugCb \/ IdleHotplugCb \/ UNCHANGED vars) => PollInv'
<1> SUFFICES ASSUME PollHyp, Bus \/ HotplugCb \/ IdleHotplugCb \/ UNCHANGED vars PROVE PollInv'
  OBVIOUS
<1>1. stack \in Seq(Frame) /\ lastSource \in Nat /\ (HasHotplug => pollId = 0)
  BY Typed DEF PollHyp, PollInv
<1>2. /\ UNCHANGED <<doneEnumerate, devices, pollId, lastSource>>
      /\ stack' = stack \/ IdleHotplugCb
  BY DEF Bus, HotplugCb, IdleHotplugCb, vars, coreVars, listVars, pollVars
<1>3. SameRescans(stack', stack)
  <2>1. CASE stack' = stack
    BY <2>1, SelfSame
  <2>2. CASE IdleHotplugCb
    <3> DEFINE f == [fn |-> "dispatch", batch |-> idleEvents]
    <3>1. idleEvents \in Seq(Message)
      BY DEF PollHyp, ListInv, TypeInv, DataOK
    <3>2. f \in Frame /\ f.fn # "rescan" /\ stack' = Append(stack, f)
      BY <2>2, <3>1 DEF IdleHotplugCb, Frame, DispatchFrame
    <3> HIDE DEF f
    <3> QED
      BY <1>1, <3>2, PushSame
  <2> QED
    BY <1>2, <2>1, <2>2
<1>4. lastSource <= lastSource'
  BY <1>1, <1>2
<1> QED
  BY <1>1, <1>2, <1>3, <1>4, PollKept

LEMMA PopStep ==
  PollHyp /\ (DispatchReturn \/ RescanReturn \/ EnumerateReturn \/ HandlerReturn) => PollInv'
<1> SUFFICES ASSUME PollHyp, DispatchReturn \/ RescanReturn \/ EnumerateReturn \/ HandlerReturn
             PROVE  PollInv'
  OBVIOUS
<1>1. stack \in Seq(Frame) /\ lastSource \in Nat /\ (HasHotplug => pollId = 0)
  BY Typed DEF PollHyp, PollInv
<1>2. /\ stack # <<>> /\ stack' = Front(stack)
      /\ UNCHANGED <<doneEnumerate, devices, pollId, lastSource>>
  BY DEF DispatchReturn, RescanReturn, EnumerateReturn, HandlerReturn, Running, Below,
         coreVars, listVars, pollVars
<1>3. SameRescans(stack', stack)
  BY <1>1, <1>2, PopSame
<1>4. lastSource <= lastSource'
  BY <1>1, <1>2
<1> QED
  BY <1>1, <1>2, <1>3, <1>4, PollKept

\* Replacing the frame on top by one that is no scan.
LEMMA StepSame ==
  ASSUME stack \in Seq(Frame), stack # <<>>, NEW f \in Frame, f.fn # "rescan"
  PROVE  SameRescans(Step(f), stack) /\ Step(f) \in Seq(Frame)
<1>1. Len(stack) \in DOMAIN stack
  BY EmptySeq, LenProperties
<1> QED
  BY <1>1, SetSame, ExceptSeq DEF Step

\* With hotplug events nothing is ever rescanned after the first scan.
LEMMA HotplugNoRescan ==
  ASSUME PollHyp, doneEnumerate, HasHotplug
  PROVE  \A k \in DOMAIN stack : stack[k].fn # "rescan"
BY DEF PollHyp, PollInv, RescansOK, RescanOK

LEMMA DispatchNextPoll == PollHyp /\ DispatchNext => PollInv'
<1> SUFFICES ASSUME PollHyp, DispatchNext PROVE PollInv'
  OBVIOUS
<1> DEFINE event == Head(Top.batch)
           f == [Top EXCEPT !.batch = Tail(@)]
<1>0. /\ LibusbAssumption /\ TypeInv /\ ScanOK /\ FramesOK(stack, plug)
      /\ StackOK(stack, dictReplug) /\ stack \in Seq(Frame)
      /\ (HasHotplug => pollId = 0) /\ lastSource \in Nat
  BY Typed DEF PollHyp, ListInv, PollInv
<1>1. stack # <<>> /\ Top.fn = "dispatch" /\ Top.batch # <<>>
      /\ UNCHANGED <<doneEnumerate, pollId, lastSource>>
  BY DEF DispatchNext, Running, pollVars
<1>2. doneEnumerate
  BY <1>0, <1>1, FirstScan
<1>3. Top \in DispatchFrame /\ Top.batch \in Seq(Message) /\ FrameOK(Top, plug)
  BY <1>0, <1>1, TopFrame DEF DispatchFrame, FramesOK, Top
<1>4. event \in Message /\ event.dev \in Devs /\ HasHotplug /\ Tail(Top.batch) \in Seq(Message)
  <2>1. event \in Message /\ Tail(Top.batch) \in Seq(Message)
    BY <1>1, <1>3, HeadTailProperties
  <2>2. EventOK(event, plug)
    BY <1>1, <1>3, EventsTail DEF FrameOK
  <2>3. event.dev \in Devs
    BY <2>1 DEF Message
  <2> QED
    BY <2>1, <2>2, <2>3 DEF EventOK
<1>5. f \in DispatchFrame /\ f.fn = "dispatch"
  BY <1>3, <1>4 DEF DispatchFrame
<1>6. f \in Frame
  BY <1>5 DEF Frame
<1>7. AddDevice(event.dev, Step(f)) \/ RemoveDevice(event.dev, Step(f))
  BY DEF DispatchNext
<1> HIDE DEF event, f
<1>8. StackOK(Step(f), dictReplug) /\ Step(f) \in Seq(Frame) /\ SameRescans(Step(f), stack)
  BY <1>0, <1>1, <1>5, <1>6, StepOK, StepSame
<1>9. SameRescans(stack', Step(f))
  <2>1. CASE AddDevice(event.dev, Step(f))
    BY <1>0, <1>4, <1>8, <2>1, AddSame
  <2>2. CASE RemoveDevice(event.dev, Step(f))
    <3>1. stack' = Step(f) \/ \E d : EmitDeviceRemove(d, Step(f))
      BY <2>2, Zenon DEF RemoveDevice
    <3> QED
      BY <1>8, <3>1, SelfSame, EmitSame
  <2> QED
    BY <1>7, <2>1, <2>2
<1>10. \A k \in DOMAIN stack' : stack'[k].fn # "rescan"
  <2>1. SameRescans(stack', stack)
    BY <1>8, <1>9, SameRescansTrans
  <2>2. \A k \in DOMAIN stack : stack[k].fn # "rescan"
    BY <1>2, <1>4, HotplugNoRescan
  <2> QED
    BY <2>1, <2>2 DEF SameRescans
<1> QED
  BY <1>0, <1>1, <1>10 DEF PollInv, RescansOK

LEMMA RescanCheckPoll == PollHyp /\ RescanCheck => PollInv'
<1> SUFFICES ASSUME PollHyp, RescanCheck PROVE PollInv'
  OBVIOUS
<1> DEFINE d == Head(Top.existing)
           f == [Top EXCEPT !.existing = Tail(@)]
           g == [f EXCEPT !.removing = {d}]
<1>0. /\ TypeInv /\ ScanOK /\ StackOK(stack, dictReplug) /\ stack \in Seq(Frame)
      /\ (HasHotplug => pollId = 0)
  BY Typed DEF PollHyp, ListInv, PollInv
<1>1. /\ stack # <<>> /\ Top.fn = "rescan" /\ Top.existing # <<>> /\ Top.removing = {}
      /\ UNCHANGED <<doneEnumerate, devices, pollId, lastSource>>
  BY DEF RescanCheck, Running, coreVars, listVars, pollVars
<1>2. doneEnumerate
  BY <1>0, <1>1, FirstScan
<1>3. RescansOK(stack, devices, lastSource)
  BY <1>2 DEF PollHyp, PollInv
<1>4. /\ Top \in RescanFrame /\ Top.existing \in Seq(Devs) /\ Len(stack) \in DOMAIN stack
      /\ RescanOK(Top, devices, lastSource)
  BY <1>0, <1>1, <1>3, TopFrame DEF RescanFrame, RescansOK, Top
<1>5. /\ d = Top.existing[1] /\ 1 \in DOMAIN Top.existing /\ d \in Devs
      /\ Tail(Top.existing) \in Seq(Devs)
      /\ DOMAIN Tail(Top.existing) \subseteq Nat \ {0}
      /\ \A i \in DOMAIN Tail(Top.existing) :
           i + 1 \in DOMAIN Top.existing /\ Tail(Top.existing)[i] = Top.existing[i + 1]
  BY <1>1, <1>4, HeadTailProperties, LenProperties, EmptySeq
<1>6. /\ f \in RescanFrame /\ f.fn = "rescan" /\ f.existing = Tail(Top.existing)
      /\ f.source = Top.source /\ f.removing = {}
  BY <1>1, <1>4, <1>5 DEF RescanFrame
<1>7. /\ g \in RescanFrame /\ g.fn = "rescan" /\ g.existing = Tail(Top.existing)
      /\ g.source = Top.source /\ g.removing = {d}
  BY <1>5, <1>6 DEF RescanFrame
<1>8. stack' = Step(f) \/ EmitDeviceRemove(d, Step(g))
  BY DEF RescanCheck
<1> HIDE DEF d, f, g
<1>9. /\ UniqueIn(Tail(Top.existing)) /\ \A i \in DOMAIN Tail(Top.existing) : Tail(Top.existing)[i] # d
      /\ lastSource <= 1 => \A i \in DOMAIN Tail(Top.existing) :
                              Tail(Top.existing)[i] \in ListedIn(devices)
  <2>1. \A i, j \in DOMAIN Tail(Top.existing) : i + 1 # 1 /\ (i # j => i + 1 # j + 1)
    BY <1>5
  <2>2. \A i \in DOMAIN Tail(Top.existing) : Tail(Top.existing)[i] # d
    BY <1>4, <1>5, <2>1 DEF RescanOK, UniqueIn
  <2>3. UniqueIn(Tail(Top.existing))
    <3> SUFFICES ASSUME NEW i \in DOMAIN Tail(Top.existing), NEW j \in DOMAIN Tail(Top.existing),
                        i # j
                 PROVE  Address[Tail(Top.existing)[i]] # Address[Tail(Top.existing)[j]]
      BY DEF UniqueIn
    <3>1. i + 1 # j + 1 /\ i + 1 \in DOMAIN Top.existing /\ j + 1 \in DOMAIN Top.existing
      BY <1>5, <2>1
    <3> QED
      BY <1>4, <1>5, <3>1 DEF RescanOK, UniqueIn
  <2> QED
    BY <1>4, <1>5, <2>2, <2>3 DEF RescanOK
<1>10. RescanOK(f, devices, lastSource) /\ RescanOK(g, devices, lastSource)
  BY <1>4, <1>6, <1>7, <1>9 DEF RescanOK
<1>11. RescansOK(Step(f), devices, lastSource) /\ RescansOK(Step(g), devices, lastSource)
  BY <1>0, <1>1, <1>3, <1>6, <1>7, <1>10, StepRescans
<1>12. Step(g) \in Seq(Frame)
  <2>1. g \in Frame
    BY <1>7 DEF Frame
  <2> QED
    BY <1>0, <1>1, <1>7, <2>1, StepOK DEF StackOK
<1>13. RescansOK(stack', devices', lastSource')
  <2>1. CASE stack' = Step(f)
    BY <1>1, <1>11, <2>1
  <2>2. CASE EmitDeviceRemove(d, Step(g))
    <3>1. SameRescans(stack', Step(g)) /\ lastSource \in Nat
      BY <1>12, <2>2, EmitSame, Typed
    <3>2. RescansOK(stack', devices, lastSource)
      BY <1>11, <3>1, RescansKept
    <3> QED
      BY <1>1, <3>2
  <2> QED
    BY <1>8, <2>1, <2>2
<1> QED
  BY <1>0, <1>1, <1>13 DEF PollInv

LEMMA RescanRemovePoll == PollHyp /\ RescanRemove => PollInv'
<1> SUFFICES ASSUME PollHyp, RescanRemove PROVE PollInv'
  OBVIOUS
<1> DEFINE f == [Top EXCEPT !.removing = {}]
           n == lastSource
<1>0. /\ TypeInv /\ ScanOK /\ StackOK(stack, dictReplug) /\ stack \in Seq(Frame)
      /\ (HasHotplug => pollId = 0) /\ n \in Nat /\ devices \in Seq(Devs) /\ UniqueIn(devices)
  BY Typed DEF PollHyp, ListInv, PollInv
<1>1. /\ stack # <<>> /\ Top.fn = "rescan" /\ Top.removing # {} /\ stack' = Step(f)
      /\ UNCHANGED <<doneEnumerate, pollId, lastSource>>
  BY DEF RescanRemove, Running, pollVars
<1>2. doneEnumerate
  BY <1>0, <1>1, FirstScan
<1>3. RescansOK(stack, devices, n)
  BY <1>2 DEF PollHyp, PollInv
<1>4. /\ Top \in RescanFrame /\ Len(stack) \in DOMAIN stack /\ RescanOK(Top, devices, n)
  BY <1>0, <1>1, <1>3, TopFrame DEF RescansOK, Top
<1>5. f.fn = "rescan" /\ f.existing = Top.existing /\ f.source = Top.source /\ f.removing = {}
  BY <1>4 DEF RescanFrame
<1> HIDE DEF f
<1>6. \A d \in ListedIn(devices) \ Top.removing : d \in ListedIn(devices')
  <2>1. CASE devices' = devices
    BY <2>1
  <2>2. ASSUME NEW i \in DOMAIN devices, devices[i] \in Top.removing,
               devices' = RemoveAt(devices, i)
        PROVE  \A d \in ListedIn(devices) \ Top.removing : d \in ListedIn(devices')
    <3>1. ListedIn(devices') = ListedIn(devices) \ {devices[i]}
      BY <1>0, <2>2, ListRemove
    <3> QED
      BY <2>2, <3>1
  <2> QED
    BY <2>1, <2>2 DEF RescanRemove
<1>7. RescanOK(f, devices', n)
  BY <1>4, <1>5, <1>6 DEF RescanOK
<1>8. \A k \in DOMAIN stack : stack[k].fn = "rescan" /\ k # Len(stack) => RescanOK(stack[k], devices', n)
  <2> SUFFICES ASSUME NEW k \in DOMAIN stack, stack[k].fn = "rescan", k # Len(stack)
               PROVE  RescanOK(stack[k], devices', n)
    OBVIOUS
  <2>1. RescanOK(stack[k], devices, n) /\ stack[k].source # Top.source
    BY <1>1, <1>3, <1>4 DEF RescansOK, Top
  <2>2. ~(n <= 1)
    BY <1>0, <1>4, <2>1 DEF RescanOK
  <2> QED
    BY <2>1, <2>2 DEF RescanOK
<1>9. RescansOK(Step(f), devices', n)
  BY <1>1, <1>3, <1>4, <1>5, <1>7, <1>8 DEF RescansOK, Step, Top
<1> QED
  BY <1>0, <1>1, <1>9 DEF PollInv

LEMMA RescanAddPoll == PollHyp /\ RescanAdd => PollInv'
<1> SUFFICES ASSUME PollHyp, RescanAdd PROVE PollInv'
  OBVIOUS
<1>0. /\ LibusbAssumption /\ StackOK(stack, dictReplug) /\ stack \in Seq(Frame)
      /\ (HasHotplug => pollId = 0) /\ lastSource \in Nat /\ devices \in Seq(Devs)
  BY Typed DEF PollHyp, PollInv
<1>1. /\ stack # <<>> /\ Top.fn = "rescan" /\ UNCHANGED <<doneEnumerate, pollId, lastSource>>
  BY DEF RescanAdd, Running, pollVars
<1>2. PICK d \in Top.fresh : AddDevice(d, Step([Top EXCEPT !.fresh = @ \ {d}]))
  BY DEF RescanAdd
<1> DEFINE f == [Top EXCEPT !.fresh = @ \ {d}]
<1>3. Top \in RescanFrame /\ d \in Devs
  BY <1>0, <1>1, <1>2, TopFrame DEF RescanFrame
<1>4. /\ f \in RescanFrame /\ f.fn = "rescan" /\ f.existing = Top.existing
      /\ f.source = Top.source /\ f.removing = Top.removing
  BY <1>3 DEF RescanFrame
<1>5. AddDevice(d, Step(f)) /\ f \in Frame
  BY <1>2, <1>4 DEF Frame
<1> HIDE DEF f
<1>6. StackOK(Step(f), dictReplug)
  BY <1>0, <1>1, <1>4, <1>5, StepOK
<1>7. SameRescans(stack', Step(f)) /\ ListedIn(devices) \subseteq ListedIn(devices')
  BY <1>0, <1>3, <1>5, <1>6, AddSame, AddKeepsListed
<1>8. CASE doneEnumerate
  <2>1. RescansOK(stack, devices, lastSource) /\ Len(stack) \in DOMAIN stack
    BY <1>0, <1>1, <1>8, TopFrame DEF PollHyp, PollInv
  <2>2. RescanOK(Top, devices, lastSource)
    BY <1>1, <2>1 DEF RescansOK, Top
  <2>3. RescanOK(f, devices, lastSource)
    BY <1>4, <2>2 DEF RescanOK
  <2>4. RescansOK(Step(f), devices, lastSource)
    BY <1>0, <1>1, <1>4, <2>1, <2>3, StepRescans
  <2>5. RescansOK(stack', devices', lastSource)
    <3>1. lastSource \in Nat /\ lastSource <= lastSource
      BY <1>0
    <3> QED
      BY <1>7, <2>4, <3>1, RescansKept
  <2> QED
    BY <1>0, <1>1, <2>5 DEF PollInv
<1> QED
  BY <1>0, <1>1, <1>8 DEF PollInv

LEMMA PushRescan ==
  ASSUME NEW st \in Seq(Frame), NEW f \in Frame, NEW devs, NEW n,
         RescansOK(st, devs, n), RescanOK(f, devs, n),
         \A k \in DOMAIN st : st[k].fn = "rescan" => st[k].source # f.source
  PROVE  RescansOK(Append(st, f), devs, n)
<1>1. /\ DOMAIN st = 1 .. Len(st) /\ Len(st) \in Nat
      /\ DOMAIN Append(st, f) = 1 .. (Len(st) + 1)
      /\ \A k \in 1 .. Len(st) : Append(st, f)[k] = st[k]
      /\ Append(st, f)[Len(st) + 1] = f
  BY AppendProperties, LenProperties
<1>2. \A k \in DOMAIN Append(st, f) : k \in DOMAIN st \/ k = Len(st) + 1
  BY <1>1
<1>3. \A k \in DOMAIN st : Append(st, f)[k] = st[k]
  BY <1>1
<1>4. Append(st, f)[Len(st) + 1] = f
  BY <1>1
<1> QED
  BY <1>2, <1>3, <1>4 DEF RescansOK

LEMMA RescanCbPoll == PollHyp /\ RescanCb => PollInv'
<1> SUFFICES ASSUME PollHyp, RescanCb PROVE PollInv'
  OBVIOUS
<1> DEFINE r == Rescan(pollId)
           n == lastSource
<1>0. /\ TypeInv /\ ScanOK /\ StackOK(stack, dictReplug) /\ stack \in Seq(Frame)
      /\ (HasHotplug => pollId = 0) /\ n \in Nat /\ pollId \in 0 .. n
      /\ devices \in Seq(Devs) /\ UniqueIn(devices)
  BY Typed DEF PollHyp, ListInv, PollInv
<1>1. pollId # 0 /\ ~Dispatching(pollId) /\ UNCHANGED <<doneEnumerate, devices, pollId, lastSource>>
  BY DEF RescanCb, coreVars, listVars, pollVars
<1>2. doneEnumerate
  BY <1>0, <1>1, FirstScanCall
<1>3. RescansOK(stack, devices, n)
  BY <1>2 DEF PollHyp, PollInv
<1>4. /\ r \in Frame /\ r.fn = "rescan" /\ r.source = pollId /\ r.removing = {}
      /\ r.existing = Reverse(devices)
  BY <1>0, RescanFrameOK DEF Rescan
<1> HIDE DEF r
<1>5. /\ UniqueIn(Reverse(devices))
      /\ \A i \in DOMAIN Reverse(devices) : Reverse(devices)[i] \in ListedIn(devices)
  <2> DEFINE up(i) == Len(devices) - i + 1
  <2>1. /\ DOMAIN Reverse(devices) = 1 .. Len(devices) /\ DOMAIN devices = 1 .. Len(devices)
        /\ Len(devices) \in Nat
        /\ \A i \in 1 .. Len(devices) : Reverse(devices)[i] = devices[up(i)]
    BY <1>0, ReverseIsSeq, LenProperties
  <2>2. /\ \A i \in 1 .. Len(devices) : up(i) \in 1 .. Len(devices)
        /\ \A i, j \in 1 .. Len(devices) : i # j => up(i) # up(j)
    BY <2>1
  <2> HIDE DEF up
  <2> QED
    BY <1>0, <2>1, <2>2 DEF UniqueIn, ListedIn
<1>6. RescanOK(r, devices, n)
  BY <1>0, <1>1, <1>4, <1>5 DEF RescanOK
<1>7. \A k \in DOMAIN stack : stack[k].fn = "rescan" => stack[k].source # r.source
  BY <1>1, <1>4 DEF Dispatching
<1>8. RescansOK(stack', devices, n)
  <2>1. CASE stack' = Append(stack, r)
    BY <1>0, <1>3, <1>4, <1>6, <1>7, <2>1, PushRescan
  <2>2. CASE /\ LastIteration("timeout")
             /\ stack' = Append(Step([Top EXCEPT !.quit = "over"]), r)
    <3> DEFINE f == [Top EXCEPT !.quit = "over"]
               st == Step(f)
    <3>1. stack # <<>> /\ Top.fn = "replug"
      BY <2>2 DEF LastIteration, Running
    <3>2. f \in ReplugFrame /\ f.fn = "replug"
      BY <1>0, <3>1, TopFrame DEF ReplugFrame
    <3>3. f \in Frame
      BY <3>2 DEF Frame
    <3>4. stack' = Append(st, r)
      BY <2>2
    <3> HIDE DEF f
    <3>5. st \in Seq(Frame) /\ SameRescans(st, stack)
      BY <1>0, <3>1, <3>2, <3>3, StepSame
    <3> HIDE DEF st
    <3>6. RescansOK(st, devices, n)
      <4>1. n \in Nat /\ n <= n /\ ListedIn(devices) \subseteq ListedIn(devices)
        BY <1>0
      <4> HIDE DEF n
      <4> QED
        BY <1>3, <3>5, <4>1, RescansKept
    <3>7. \A k \in DOMAIN st : st[k].fn = "rescan" => st[k].source # r.source
      BY <1>7, <3>5 DEF SameRescans
    <3> QED
      BY <1>4, <1>6, <3>4, <3>5, <3>6, <3>7, PushRescan
  <2> QED
    BY <2>1, <2>2 DEF RescanCb, r
<1> QED
  BY <1>0, <1>1, <1>8 DEF PollInv

LEMMA SetIntervalPoll ==
  PollHyp /\ (\E interval \in Intervals : SetHotplugPollInterval(interval)) => PollInv'
<1> SUFFICES ASSUME PollHyp, NEW interval \in Intervals, SetHotplugPollInterval(interval)
             PROVE  PollInv'
  OBVIOUS
<1>1. /\ lastSource \in Nat /\ pollId \in 0 .. lastSource /\ (HasHotplug => pollId = 0)
      /\ stack \in Seq(Frame)
  BY Typed DEF PollHyp, PollInv
<1>2. /\ UNCHANGED <<doneEnumerate, devices, stack>>
      /\ pollId = 0 => pollId' = 0
      /\ lastSource' = lastSource \/ lastSource' = lastSource + 1
  BY <1>1 DEF SetHotplugPollInterval, EnsureRescanTimeout, listVars
<1>3. lastSource' \in Nat /\ lastSource <= lastSource'
  BY <1>1, <1>2
<1>4. SameRescans(stack', stack)
  BY <1>2, SelfSame
<1> QED
  BY <1>1, <1>2, <1>3, <1>4, PollKept

LEMMA EnumerateDonePoll == PollHyp /\ EnumerateDone => PollInv'
<1> SUFFICES ASSUME PollHyp, EnumerateDone PROVE PollInv'
  OBVIOUS
<1> DEFINE f == [Top EXCEPT !.step = "announce"]
<1>0. /\ TypeInv /\ ScanOK /\ StackOK(stack, dictReplug) /\ stack \in Seq(Frame)
      /\ lastSource \in Nat /\ (HasHotplug => pollId = 0)
  BY Typed DEF PollHyp, ListInv, PollInv
<1>1. /\ stack # <<>> /\ Top.fn = "enumerate" /\ stack' = Step(f) /\ devices' = devices
  BY DEF EnumerateDone, Running
<1>2. f \in EnumerateFrame /\ f.fn = "enumerate"
  BY <1>0, <1>1, TopFrame DEF EnumerateFrame
<1>3. f \in Frame
  BY <1>2 DEF Frame
<1> HIDE DEF f
<1>4. SameRescans(stack', stack)
  BY <1>0, <1>1, <1>2, <1>3, StepSame
<1>5. /\ HasHotplug => pollId' = 0
      /\ lastSource' \in Nat /\ lastSource <= lastSource'
  BY <1>0 DEF EnumerateDone, EnsureRescanTimeout, pollVars
<1>6. RescansOK(stack, devices, lastSource)
  <2>1. CASE doneEnumerate
    BY <2>1 DEF PollHyp, PollInv
  <2>2. CASE ~doneEnumerate
    <3>1. Len(stack) = 1 /\ DOMAIN stack = 1 .. Len(stack)
      BY <1>0, <1>1, <2>2, FirstScan, LenProperties
    <3>2. \A k \in DOMAIN stack : stack[k].fn = "enumerate"
      BY <1>1, <3>1 DEF Top
    <3> QED
      BY <3>2 DEF RescansOK
  <2> QED
    BY <2>1, <2>2
<1>7. RescansOK(stack', devices', lastSource')
  BY <1>0, <1>1, <1>4, <1>5, <1>6, RescansKept
<1> QED
  BY <1>5, <1>7 DEF PollInv

\* enumerate and wait_for_replug.
LEMMA CallPoll ==
  PollHyp /\ (\/ Enumerate \/ EnumerateAnnounce \/ ReplugReturn
              \/ \E d \in Devs : WaitForReplug(d)
              \/ \E k \in DOMAIN stack : ReplugTimeoutCb(k)) => PollInv'
<1> SUFFICES ASSUME PollHyp, \/ Enumerate \/ EnumerateAnnounce \/ ReplugReturn
                             \/ \E d \in Devs : WaitForReplug(d)
                             \/ \E k \in DOMAIN stack : ReplugTimeoutCb(k)
             PROVE  PollInv'
  OBVIOUS
<1>0. /\ LibusbAssumption /\ StackOK(stack, dictReplug) /\ stack \in Seq(Frame)
      /\ lastSource \in Nat /\ (HasHotplug => pollId = 0)
  BY Typed DEF PollHyp, PollInv
<1>1. UNCHANGED <<doneEnumerate, devices, pollId, lastSource>>
  BY DEF Enumerate, EnumerateAnnounce, ReplugReturn, WaitForReplug, ReplugTimeoutCb,
         coreVars, listVars, pollVars
<1>2. doneEnumerate => SameRescans(stack', stack)
  <2>1. CASE Enumerate
    BY <2>1 DEF Enumerate
  <2>2. CASE EnumerateAnnounce
    <3> DEFINE f == [Top EXCEPT !.next = @ + 1]
    <3>1. stack # <<>> /\ Top.fn = "enumerate" /\ EmitDeviceAdd(devices[Top.next], Step(f))
      BY <2>2 DEF EnumerateAnnounce, Running
    <3>2. f \in Frame /\ f.fn = "enumerate"
      BY <1>0, <3>1, TopFrame DEF EnumerateFrame, Frame
    <3> HIDE DEF f
    <3>3. Step(f) \in Seq(Frame) /\ SameRescans(Step(f), stack)
      BY <1>0, <3>1, <3>2, StepSame
    <3>4. SameRescans(stack', Step(f))
      BY <3>1, <3>3, EmitSame
    <3> QED
      BY <3>3, <3>4, SameRescansTrans
  <2>3. CASE ReplugReturn
    <3>1. stack # <<>> /\ (stack' = Below \/ EmitDeviceRemove(Top.device, Below))
      BY <2>3 DEF ReplugReturn, Running
    <3>2. Below \in Seq(Frame) /\ SameRescans(Below, stack)
      BY <1>0, <3>1, PopSame, FrontIsSeq DEF Below
    <3>3. SameRescans(stack', Below)
      BY <3>1, <3>2, SelfSame, EmitSame
    <3> QED
      BY <3>2, <3>3, SameRescansTrans
  <2>4. ASSUME NEW d \in Devs, WaitForReplug(d)
        PROVE  SameRescans(stack', stack)
    <3> DEFINE f == [fn |-> "replug", pid |-> Port[d], device |-> d, timer |-> TRUE, quit |-> "no"]
    <3>1. f \in Frame /\ f.fn = "replug"
      BY <1>0 DEF Frame, ReplugFrame, LibusbAssumption
    <3>2. stack' = Append(stack, f)
      BY <2>4 DEF WaitForReplug
    <3> HIDE DEF f
    <3> QED
      BY <1>0, <3>1, <3>2, PushSame
  <2>5. ASSUME NEW k \in DOMAIN stack, ReplugTimeoutCb(k)
        PROVE  SameRescans(stack', stack)
    <3> DEFINE q == IF stack[k].quit = "no" /\ k = Len(stack) THEN "timeout" ELSE "over"
               f == [[stack[k] EXCEPT !.timer = FALSE] EXCEPT !.quit = q]
    <3>1. stack[k].fn = "replug" /\ stack[k] \in ReplugFrame
      <4>1. stack[k].fn = "replug"
        BY <2>5 DEF ReplugTimeoutCb
      <4>2. stack[k] \in Frame
        BY <1>0, <2>5
      <4> QED
        BY <4>1, <4>2, FrameKinds
    <3>2. f.fn = "replug" /\ stack' = [stack EXCEPT ![k] = f]
      BY <2>5, <3>1 DEF ReplugTimeoutCb, ReplugFrame
    <3> HIDE DEF f
    <3> QED
      BY <3>2, SetSame
  <2> QED
    BY <2>1, <2>2, <2>3, <2>4, <2>5
<1>3. lastSource' \in Nat /\ lastSource <= lastSource' /\ (HasHotplug => pollId' = 0)
  BY <1>0, <1>1
<1> QED
  BY <1>1, <1>2, <1>3, PollKept

-----------------------------------------------------------------------------
(* The theorem.                                                            *)

LEMMA PollInit == Init => PollInv
BY DEF Init, PollInv

LEMMA PollNext ==
  ASSUME LibusbAssumption, ListInv, PollInv, [Next]_vars
  PROVE  PollInv'
<1>0. PollHyp
  BY DEF PollHyp
<1>1. CASE Bus \/ HotplugCb \/ IdleHotplugCb \/ UNCHANGED vars
  BY <1>0, <1>1, QuietStep
<1>2. CASE DispatchReturn \/ RescanReturn \/ EnumerateReturn \/ HandlerReturn
  BY <1>0, <1>2, PopStep
<1>3. CASE DispatchNext \/ RescanCheck \/ RescanRemove \/ RescanAdd
  BY <1>0, <1>3, DispatchNextPoll, RescanCheckPoll, RescanRemovePoll, RescanAddPoll
<1>4. CASE RescanCb \/ EnumerateDone \/ \E interval \in Intervals : SetHotplugPollInterval(interval)
  BY <1>0, <1>4, RescanCbPoll, EnumerateDonePoll, SetIntervalPoll
<1>5. CASE \/ Enumerate \/ EnumerateAnnounce \/ ReplugReturn
           \/ \E d \in Devs : WaitForReplug(d)
           \/ \E k \in DOMAIN stack : ReplugTimeoutCb(k)
  BY <1>0, <1>5, CallPoll
<1> QED
  BY <1>1, <1>2, <1>3, <1>4, <1>5 DEF Next, MainStep, Call

LEMMA PointersLive == ListInv /\ PollInv => RescanPointersLive
<1> SUFFICES ASSUME ListInv, PollInv, lastSource <= 1, NEW k \in DOMAIN stack,
                    stack[k].fn = "rescan"
             PROVE  ToSet(stack[k].existing) \subseteq Listed
  BY DEF RescanPointersLive, BorrowedListed
<1>0. stack \in Seq(Frame) /\ TypeInv /\ ScanOK
  BY StackSeq DEF ListInv
<1>1. \A i \in DOMAIN stack[k].existing : stack[k].existing[i] \in Listed
  <2>1. CASE doneEnumerate
    BY <2>1 DEF PollInv, RescansOK, RescanOK, Listed
  <2>2. CASE ~doneEnumerate
    <3>1. stack # <<>> /\ DOMAIN stack = 1 .. Len(stack) /\ Len(stack) \in Nat
      BY <1>0, LenProperties
    <3>2. k = Len(stack)
      <4>1. Top.fn = "rescan" => Len(stack) = 2 /\ stack[1].fn = "enumerate"
        BY <1>0, <2>2, <3>1, FirstScan
      <4>2. Top.fn = "enumerate" => Len(stack) = 1
        BY <1>0, <2>2, <3>1, FirstScan
      <4>3. Top.fn \in {"enumerate", "rescan"}
        BY <1>0, <2>2, <3>1, FirstScan
      <4> QED
        BY <3>1, <4>1, <4>2, <4>3
    <3>3. stack[k].existing = <<>>
      BY <1>0, <2>2, <3>1, <3>2, FirstScan DEF Top
    <3> QED
      BY <3>3
  <2> QED
    BY <2>1, <2>2
<1> QED
  BY <1>1 DEF ToSet

\* While at most one poll source was ever created, every device that a rescan has
\* yet to look at is still on the list, however deep signal handlers nest the main
\* loop: the pointers it borrowed from the list are good.
THEOREM RescanPointersGood ==
  ASSUME LibusbAssumption, ContextAssumption
  PROVE  Spec => []RescanPointersLive
<1>1. Init => ListInv /\ PollInv
  BY ListInit, PollInit, LibusbAssumption, ContextAssumption
<1>2. ListInv /\ PollInv /\ [Next]_vars => ListInv' /\ PollInv'
  BY ListNext, PollNext, LibusbAssumption, ContextAssumption
<1> QED
  BY <1>1, <1>2, PointersLive, PTL DEF Spec

-----------------------------------------------------------------------------
(* What emits a signal while a helper waits: enumerate, when it announces, *)
(* is the outermost call, so no helper is registered below it.             *)

EnumerateOutermost == \A k \in DOMAIN stack : stack[k].fn = "enumerate" => k = 1

SameEnumerates(st, old) ==
  \A k \in DOMAIN st : st[k].fn = "enumerate" => k \in DOMAIN old /\ old[k].fn = "enumerate"

LEMMA EmitEnumerates ==
  ASSUME NEW st \in Seq(Frame), NEW d, EmitDeviceAdd(d, st) \/ EmitDeviceRemove(d, st)
  PROVE  SameEnumerates(stack', st)
<1>1. Handler \in Frame /\ Handler.fn # "enumerate"
  BY DEF Handler, Frame, HandlerFrame
<1>2. stack' = st \/ stack' = Append(st, Handler)
  BY DEF EmitDeviceAdd, EmitDeviceRemove
<1> QED
  BY <1>1, <1>2 DEF SameEnumerates

LEMMA PushEnumerates ==
  ASSUME NEW st \in Seq(Frame), NEW f \in Frame, f.fn # "enumerate"
  PROVE  SameEnumerates(Append(st, f), st)
BY DEF SameEnumerates

LEMMA PopEnumerates ==
  ASSUME NEW st \in Seq(Frame), st # <<>>
  PROVE  SameEnumerates(Front(st), st)
<1>1. /\ DOMAIN Front(st) = 1..(Len(st) - 1) /\ DOMAIN st = 1..Len(st) /\ Len(st) \in Nat
      /\ \A i \in 1..(Len(st) - 1) : Front(st)[i] = st[i]
  BY FrontIsSeq, LenProperties
<1> QED
  BY <1>1 DEF SameEnumerates

LEMMA SetEnumerates ==
  ASSUME NEW st, NEW k, NEW f, f.fn = st[k].fn
  PROVE  SameEnumerates([st EXCEPT ![k] = f], st)
BY DEF SameEnumerates

LEMMA SameEnumeratesTrans ==
  ASSUME NEW a, NEW b, NEW c, SameEnumerates(a, b), SameEnumerates(b, c)
  PROVE  SameEnumerates(a, c)
BY DEF SameEnumerates

LEMMA AddEnumerates ==
  ASSUME LibusbAssumption, NEW st, StackOK(st, dictReplug), NEW d \in Devs, AddDevice(d, st)
  PROVE  SameEnumerates(stack', st)
<1>0. st \in Seq(Frame)
  BY DEF StackOK
<1>1. CASE dictReplug[Port[d]] # 0 /\ stack' = Replugged(d, st)
  <2> DEFINE k == dictReplug[Port[d]]
             q == IF st[k].quit = "no" THEN "replugged" ELSE st[k].quit
             f == [[st[k] EXCEPT !.device = d] EXCEPT !.quit = q]
  <2>1. k \in DOMAIN st /\ st[k] \in Frame /\ st[k].fn = "replug"
    BY <1>1 DEF StackOK, LibusbAssumption
  <2>2. st[k] \in ReplugFrame
    BY <2>1, FrameKinds
  <2>3. f.fn = st[k].fn
    BY <2>2 DEF ReplugFrame
  <2>4. Replugged(d, st) = [st EXCEPT ![k] = f]
    BY <1>0, <2>1, <2>2 DEF Replugged, ReplugFrame
  <2>5. stack' = [st EXCEPT ![k] = f]
    BY <1>1, <2>4
  <2> HIDE DEF f, k, q
  <2>6. SameEnumerates([st EXCEPT ![k] = f], st)
    BY <2>3, SetEnumerates
  <2> QED
    BY <2>5, <2>6
<1>2. CASE stack' = st
  BY <1>2 DEF SameEnumerates
<1>3. CASE EmitDeviceAdd(d, st)
  BY <1>0, <1>3, EmitEnumerates
<1> QED
  BY <1>1, <1>2, <1>3 DEF AddDevice

\* The frame on top goes on.
LEMMA StepEnumerates ==
  ASSUME StackOK(stack, dictReplug), stack # <<>>, Top.fn # "replug",
         NEW f \in Frame, f.fn = Top.fn
  PROVE  SameEnumerates(Step(f), stack) /\ StackOK(Step(f), dictReplug) /\ Step(f) \in Seq(Frame)
<1>1. SameEnumerates(Step(f), stack)
  BY SetEnumerates DEF Step, Top
<1>2. StackOK(Step(f), dictReplug)
  BY StepOK
<1> QED
  BY <1>1, <1>2 DEF StackOK

LEMMA DispatchEnumerates == PollHyp /\ DispatchNext => SameEnumerates(stack', stack)
<1> SUFFICES ASSUME PollHyp, DispatchNext PROVE SameEnumerates(stack', stack)
  OBVIOUS
<1> DEFINE event == Head(Top.batch)
           f == [Top EXCEPT !.batch = Tail(@)]
<1>0. LibusbAssumption /\ StackOK(stack, dictReplug)
  BY Typed DEF PollHyp
<1>1. stack # <<>> /\ Top.fn = "dispatch" /\ Top.batch # <<>>
  BY DEF DispatchNext, Running
<1>2. Top \in DispatchFrame /\ Top.batch \in Seq(Message)
  BY <1>0, <1>1, TopFrame DEF DispatchFrame
<1>3. event.dev \in Devs /\ Tail(Top.batch) \in Seq(Message)
  <2>1. event \in Message /\ Tail(Top.batch) \in Seq(Message)
    BY <1>1, <1>2, HeadTailProperties
  <2> QED
    BY <2>1 DEF Message
<1>4. f \in DispatchFrame /\ f.fn = "dispatch"
  BY <1>2, <1>3 DEF DispatchFrame
<1>5. f \in Frame /\ f.fn = Top.fn
  BY <1>1, <1>4 DEF Frame
<1>6. AddDevice(event.dev, Step(f)) \/ RemoveDevice(event.dev, Step(f))
  BY DEF DispatchNext
<1> HIDE DEF event, f
<1>7. SameEnumerates(Step(f), stack) /\ StackOK(Step(f), dictReplug) /\ Step(f) \in Seq(Frame)
  BY <1>0, <1>1, <1>5, StepEnumerates
<1>8. SameEnumerates(stack', Step(f))
  <2>1. CASE AddDevice(event.dev, Step(f))
    BY <1>0, <1>3, <1>7, <2>1, AddEnumerates
  <2>2. CASE RemoveDevice(event.dev, Step(f))
    <3>1. stack' = Step(f) \/ \E d : EmitDeviceRemove(d, Step(f))
      BY <2>2, Zenon DEF RemoveDevice
    <3>2. SameEnumerates(Step(f), Step(f))
      BY DEF SameEnumerates
    <3> QED
      BY <1>7, <3>1, <3>2, EmitEnumerates
  <2> QED
    BY <1>6, <2>1, <2>2
<1> QED
  BY <1>7, <1>8, SameEnumeratesTrans

LEMMA ScanningOutermost ==
  ASSUME NEW st \in Seq(Frame), NEW devs, Scanning(st, devs)
  PROVE  \A k \in DOMAIN st : st[k].fn = "enumerate" => k = 1
<1>1. DOMAIN st = 1 .. Len(st) /\ Len(st) \in Nat
  BY LenProperties
<1>2. Len(st) = 1 \/ (Len(st) = 2 /\ st[2].fn = "rescan") \/ Len(st) = 0
  BY DEF Scanning
<1>3. \A k \in DOMAIN st : k = 1 \/ (k = 2 /\ Len(st) = 2)
  BY <1>1, <1>2
<1> QED
  BY <1>2, <1>3

\* With hotplug events a rescan is part of the first scan.
LEMMA HotplugScan ==
  ASSUME PollHyp, HasHotplug
  PROVE  ~RescanCheck /\ ~RescanRemove /\ ~RescanCb /\ (RescanAdd => ~doneEnumerate)
<1>0. /\ TypeInv /\ ScanOK /\ stack \in Seq(Frame) /\ StackOK(stack, dictReplug)
      /\ pollId = 0
  BY Typed DEF PollHyp, ListInv, PollInv
<1>1. ASSUME stack # <<>>, Top.fn = "rescan"
      PROVE  ~doneEnumerate /\ Top.existing = <<>> /\ Top.removing = {}
  <2>1. Len(stack) \in DOMAIN stack /\ stack[Len(stack)].fn = "rescan"
    BY <1>0, <1>1, TopFrame DEF Top
  <2>2. ~doneEnumerate
    BY <2>1, HotplugNoRescan
  <2> QED
    BY <1>0, <1>1, <2>2, FirstScan
<1> QED
  BY <1>0, <1>1 DEF RescanCheck, RescanRemove, RescanCb, RescanAdd, Running

\* Every step after the first scan, and the one that ends it.
LEMMA EnumeratesKept ==
  ASSUME PollHyp, HasHotplug, [Next]_vars, doneEnumerate'
  PROVE  SameEnumerates(stack', stack)
<1>0. /\ LibusbAssumption /\ StackOK(stack, dictReplug) /\ stack \in Seq(Frame)
      /\ idleEvents \in Seq(Message)
  BY Typed DEF PollHyp, ListInv, TypeInv, DataOK
<1>1. CASE DispatchNext
  BY <1>1, DispatchEnumerates
<1>2. CASE DispatchReturn \/ RescanReturn \/ EnumerateReturn \/ HandlerReturn
  <2>1. stack # <<>> /\ stack' = Front(stack)
    BY <1>2 DEF DispatchReturn, RescanReturn, EnumerateReturn, HandlerReturn, Running, Below
  <2> QED
    BY <1>0, <2>1, PopEnumerates
<1>3. CASE \/ Bus \/ HotplugCb \/ UNCHANGED vars
           \/ \E interval \in Intervals : SetHotplugPollInterval(interval)
  <2>1. stack' = stack
    BY <1>3 DEF Bus, HotplugCb, SetHotplugPollInterval, vars
  <2> QED
    BY <2>1 DEF SameEnumerates
<1>4. CASE IdleHotplugCb
  <2> DEFINE f == [fn |-> "dispatch", batch |-> idleEvents]
  <2>1. f \in Frame /\ f.fn # "enumerate" /\ stack' = Append(stack, f)
    BY <1>0, <1>4 DEF IdleHotplugCb, Frame, DispatchFrame
  <2> HIDE DEF f
  <2> QED
    BY <1>0, <2>1, PushEnumerates
<1>5. CASE RescanCheck \/ RescanRemove \/ RescanCb \/ RescanAdd \/ Enumerate
  <2>1. RescanAdd \/ Enumerate
    BY <1>5, HotplugScan
  <2>2. ~doneEnumerate /\ doneEnumerate' = doneEnumerate
    BY <2>1, HotplugScan DEF RescanAdd, Enumerate, coreVars, listVars
  <2> QED
    BY <2>2
<1>6. CASE EnumerateDone
  <2> DEFINE f == [Top EXCEPT !.step = "announce"]
  <2>1. stack # <<>> /\ Top.fn = "enumerate" /\ stack' = Step(f)
    BY <1>6 DEF EnumerateDone, Running
  <2>2. f \in Frame /\ f.fn = Top.fn
    BY <1>0, <2>1, TopFrame DEF EnumerateFrame, Frame
  <2> HIDE DEF f
  <2> QED
    BY <1>0, <2>1, <2>2, StepEnumerates
<1>7. CASE EnumerateAnnounce
  <2> DEFINE f == [Top EXCEPT !.next = @ + 1]
  <2>1. stack # <<>> /\ Top.fn = "enumerate" /\ EmitDeviceAdd(devices[Top.next], Step(f))
    BY <1>7 DEF EnumerateAnnounce, Running
  <2>2. f \in Frame /\ f.fn = Top.fn
    <3>1. Top \in EnumerateFrame
      BY <1>0, <2>1, TopFrame
    <3>2. f \in EnumerateFrame /\ f.fn = Top.fn
      BY <3>1 DEF EnumerateFrame
    <3> QED
      BY <3>2 DEF Frame
  <2> HIDE DEF f
  <2>3. SameEnumerates(Step(f), stack) /\ Step(f) \in Seq(Frame)
    BY <1>0, <2>1, <2>2, StepEnumerates
  <2>4. SameEnumerates(stack', Step(f))
    BY <2>1, <2>3, EmitEnumerates
  <2> QED
    BY <2>3, <2>4, SameEnumeratesTrans
<1>8. CASE ReplugReturn
  <2>1. stack # <<>> /\ (stack' = Below \/ EmitDeviceRemove(Top.device, Below))
    BY <1>8 DEF ReplugReturn, Running
  <2>2. Below \in Seq(Frame) /\ SameEnumerates(Below, stack)
    BY <1>0, <2>1, PopEnumerates, FrontIsSeq DEF Below
  <2>3. CASE stack' = Below
    BY <2>2, <2>3
  <2>4. CASE EmitDeviceRemove(Top.device, Below)
    BY <2>2, <2>4, EmitEnumerates, SameEnumeratesTrans
  <2> QED
    BY <2>1, <2>3, <2>4
<1>9. ASSUME NEW d \in Devs, WaitForReplug(d)
      PROVE  SameEnumerates(stack', stack)
  <2> DEFINE f == [fn |-> "replug", pid |-> Port[d], device |-> d, timer |-> TRUE, quit |-> "no"]
  <2>1. f \in Frame /\ f.fn # "enumerate"
    BY <1>0 DEF Frame, ReplugFrame, LibusbAssumption
  <2>2. stack' = Append(stack, f)
    BY <1>9 DEF WaitForReplug
  <2> HIDE DEF f
  <2> QED
    BY <1>0, <2>1, <2>2, PushEnumerates
<1>10. ASSUME NEW k \in DOMAIN stack, ReplugTimeoutCb(k)
       PROVE  SameEnumerates(stack', stack)
  <2> DEFINE q == IF stack[k].quit = "no" /\ k = Len(stack) THEN "timeout" ELSE "over"
             f == [[stack[k] EXCEPT !.timer = FALSE] EXCEPT !.quit = q]
  <2>1. stack[k].fn = "replug" /\ stack[k] \in ReplugFrame
    <3>1. stack[k].fn = "replug"
      BY <1>10 DEF ReplugTimeoutCb
    <3>2. stack[k] \in Frame
      BY <1>0, <1>10
    <3> QED
      BY <3>1, <3>2, FrameKinds
  <2>2. f.fn = stack[k].fn /\ stack' = [stack EXCEPT ![k] = f]
    BY <1>10, <2>1 DEF ReplugTimeoutCb, ReplugFrame
  <2> HIDE DEF f
  <2> QED
    BY <2>2, SetEnumerates
<1> QED
  BY <1>1, <1>2, <1>3, <1>4, <1>5, <1>6, <1>7, <1>8, <1>9, <1>10 DEF Next, MainStep, Call

LEMMA OutermostNext ==
  ASSUME LibusbAssumption, ContextAssumption, HasHotplug, ListInv, PollInv, EnumerateOutermost,
         [Next]_vars
  PROVE  EnumerateOutermost'
<1>1. ListInv' /\ PollHyp
  BY ListNext DEF PollHyp
<1>2. stack' \in Seq(Frame) /\ ScanOK'
  BY <1>1 DEF ListInv, TypeInv, StackOK
<1>3. CASE doneEnumerate'
  BY <1>1, <1>3, EnumeratesKept DEF EnumerateOutermost, SameEnumerates
<1>4. CASE ~doneEnumerate'
  <2>1. Scanning(stack', devices')
    BY <1>2, <1>4 DEF ScanOK
  <2> QED
    BY <1>2, <2>1, ScanningOutermost DEF EnumerateOutermost
<1> QED
  BY <1>3, <1>4

\* No signal for the port of a helper that goes on waiting.
Silent == \A p \in Ports : dictReplug[p] # 0 /\ dictReplug'[p] # 0
                             => announced'[p] = announced[p]

LEMMA EmitSilent ==
  ASSUME announced \in [Ports -> Int], NEW d, NEW st,
         EmitDeviceAdd(d, st) \/ EmitDeviceRemove(d, st)
  PROVE  \A p \in Ports : p # Port[d] => announced'[p] = announced[p]
BY DEF EmitDeviceAdd, EmitDeviceRemove

LEMMA SilentStep ==
  ASSUME PollHyp, HasHotplug, EnumerateOutermost, [Next]_vars
  PROVE  Silent
<1>0. /\ LibusbAssumption /\ StackOK(stack, dictReplug) /\ stack \in Seq(Frame)
      /\ announced \in [Ports -> Int] /\ TypeInv /\ ScanOK /\ devices \in Seq(Devs)
  BY Typed DEF PollHyp, ListInv, TypeInv, DataOK
<1>1. CASE announced' = announced
  BY <1>1 DEF Silent
<1>2. CASE DispatchNext
  <2>1. PICK d, st : AddDevice(d, st) \/ RemoveDevice(d, st)
    BY <1>2 DEF DispatchNext
  <2>2. \/ announced' = announced
        \/ \E e : dictReplug[Port[e]] = 0 /\ (EmitDeviceAdd(e, st) \/ EmitDeviceRemove(e, st))
    <3>1. CASE AddDevice(d, st)
      BY <3>1, Zenon DEF AddDevice
    <3>2. CASE RemoveDevice(d, st)
      BY <3>2, Zenon DEF RemoveDevice
    <3> QED
      BY <2>1, <3>1, <3>2
  <2>3. ASSUME NEW e, dictReplug[Port[e]] = 0, EmitDeviceAdd(e, st) \/ EmitDeviceRemove(e, st)
        PROVE  Silent
    BY <1>0, <2>3, EmitSilent DEF Silent
  <2> QED
    BY <1>1, <2>2, <2>3
<1>3. CASE RescanAdd
  <2>1. dictReplug = [p \in Ports |-> 0]
    BY <1>0, <1>3, HotplugScan DEF ScanOK
  <2> QED
    BY <2>1 DEF Silent
<1>4. CASE EnumerateAnnounce
  <2>1. stack # <<>> /\ Top.fn = "enumerate" /\ dictReplug' = dictReplug
    BY <1>4 DEF EnumerateAnnounce, Running
  <2>2. Len(stack) \in DOMAIN stack /\ DOMAIN stack = 1 .. Len(stack) /\ Len(stack) \in Nat
    BY <1>0, <2>1, TopFrame, LenProperties
  <2>3. Len(stack) = 1
    BY <2>1, <2>2 DEF EnumerateOutermost, Top
  <2>4. \A p \in Ports : dictReplug[p] = 0
    <3> SUFFICES ASSUME NEW p \in Ports, dictReplug[p] # 0 PROVE FALSE
      OBVIOUS
    <3>1. dictReplug[p] = 1 /\ stack[dictReplug[p]].fn = "replug"
      BY <1>0, <2>3 DEF StackOK
    <3> QED
      BY <2>1, <2>3, <3>1 DEF Top
  <2> QED
    BY <2>4 DEF Silent
<1>5. CASE ReplugReturn
  <2>1. /\ stack # <<>> /\ Top.fn = "replug"
        /\ dictReplug' = [dictReplug EXCEPT ![Top.pid] = 0]
        /\ announced' = announced \/ EmitDeviceRemove(Top.device, Below)
    BY <1>5 DEF ReplugReturn, Running
  <2>2. Port[Top.device] = Top.pid
    <3>1. Len(stack) \in DOMAIN stack
      BY <1>0, <2>1, TopFrame
    <3> QED
      BY <1>0, <2>1, <3>1 DEF StackOK, Top
  <2>3. \A p \in Ports : dictReplug'[p] # 0 => p # Port[Top.device]
    BY <1>0, <2>1, <2>2 DEF StackOK
  <2> QED
    BY <1>0, <1>1, <2>1, <2>3, EmitSilent DEF Silent
<1>6. CASE RescanCheck
  BY <1>6, HotplugScan
<1>7. CASE \/ Bus \/ HotplugCb \/ IdleHotplugCb \/ RescanCb \/ UNCHANGED vars
           \/ \E k \in DOMAIN stack : ReplugTimeoutCb(k)
           \/ DispatchReturn \/ RescanRemove \/ RescanReturn \/ EnumerateDone \/ EnumerateReturn
           \/ HandlerReturn \/ Call
  <2>1. announced' = announced
    BY <1>7 DEF Bus, HotplugCb, IdleHotplugCb, RescanCb, ReplugTimeoutCb, DispatchReturn,
       RescanRemove, RescanReturn, EnumerateDone, EnumerateReturn, HandlerReturn, Call,
       Enumerate, WaitForReplug, SetHotplugPollInterval, vars
  <2> QED
    BY <1>1, <2>1
<1> QED
  BY <1>2, <1>3, <1>4, <1>5, <1>6, <1>7 DEF Next, MainStep

\* On a platform with hotplug events no device-added and no device-removed is
\* emitted for a port as long as a wait_for_replug for it is registered, however
\* deep the calls and the handlers nest.  (A poll compares the list with the bus
\* and does not look at dict_replug.)
THEOREM ReplugSilent ==
  ASSUME LibusbAssumption, ContextAssumption, HasHotplug
  PROVE  Spec => ReplugIsSilent
<1>1. Init => ListInv /\ PollInv /\ EnumerateOutermost
  BY ListInit, PollInit, LibusbAssumption, ContextAssumption DEF Init, EnumerateOutermost
<1>2. ListInv /\ PollInv /\ EnumerateOutermost /\ [Next]_vars
        => ListInv' /\ PollInv' /\ EnumerateOutermost'
  BY ListNext, PollNext, OutermostNext, LibusbAssumption, ContextAssumption, HasHotplug
<1>3. ListInv /\ PollInv /\ EnumerateOutermost /\ [Next]_vars => [Silent]_vars
  BY SilentStep, LibusbAssumption, HasHotplug DEF PollHyp
<1> QED
  BY <1>1, <1>2, <1>3, PTL DEF Spec, ReplugIsSilent, Silent

-----------------------------------------------------------------------------
(* The signals: if no handler ever ran the main loop and nobody waited for *)
(* a replug, only one function of the library runs at a time, and what it  *)
(* has announced so far is known from its frame.                           *)

Counts(S) == [p \in Ports |-> Cardinality({d \in S : Port[d] = p})]

\* The devices on the list that the application knows of.
Announced(st, devs) ==
  IF st # <<>> /\ st[1].fn = "enumerate"
  THEN {devs[i] : i \in {j \in DOMAIN devs : j < st[1].next}}
  ELSE IF st # <<>> /\ st[1].fn = "rescan"
  THEN ListedIn(devs) \ st[1].removing
  ELSE ListedIn(devs)

CalmFrame(f, devs) ==
  /\ f.fn \in {"enumerate", "dispatch", "rescan"}
  /\ f.fn = "enumerate" => f.step = "announce" /\ f.next >= 1
  /\ f.fn = "rescan" =>
       /\ \A i \in DOMAIN f.existing : f.existing[i] \in ListedIn(devs)
       /\ f.removing \subseteq ListedIn(devs)
       /\ \A d, e \in f.removing : d = e

CalmStack(st, devs) ==
  \/ st = <<>>
  \/ Len(st) = 1 /\ CalmFrame(st[1], devs)
  \/ Len(st) = 2 /\ CalmFrame(st[1], devs) /\ st[2].fn = "handler"

Calm == doneEnumerate /\ ~reentered /\ waits = 0

SignalsInv ==
  /\ ~doneEnumerate => /\ announced = [p \in Ports |-> 0]
                       /\ \A k \in DOMAIN stack : stack[k].fn = "enumerate" => stack[k].next = 1
  /\ Calm => CalmStack(stack, devices) /\ announced = Counts(Announced(stack, devices))

-----------------------------------------------------------------------------
(* Counting.                                                               *)

LEMMA FiniteListed ==
  ASSUME NEW s \in Seq(Devs)
  PROVE  IsFiniteSet(ListedIn(s))
<1>1. DOMAIN s = 1 .. Len(s) /\ Len(s) \in Nat
  BY LenProperties
<1>2. s \in Surjection(1 .. Len(s), ListedIn(s))
  BY <1>1 DEF ListedIn, Surjection
<1>3. IsFiniteSet(1 .. Len(s))
  BY <1>1, FS_Interval
<1> QED
  BY <1>2, <1>3, FS_Surjection DEF ExistsSurjection

LEMMA CountsAdd ==
  ASSUME LibusbAssumption, NEW S, IsFiniteSet(S), NEW d \in Devs, d \notin S
  PROVE  Counts(S \cup {d}) = [Counts(S) EXCEPT ![Port[d]] = @ + 1]
<1> SUFFICES ASSUME NEW p \in Ports
             PROVE  Counts(S \cup {d})[p] = [Counts(S) EXCEPT ![Port[d]] = @ + 1][p]
  BY DEF Counts
<1> DEFINE A == {e \in S : Port[e] = p}
           B == {e \in S \cup {d} : Port[e] = p}
<1>1. A \in SUBSET S /\ IsFiniteSet(A)
  BY FS_Subset
<1>2. CASE Port[d] = p
  <2>1. B = A \cup {d} /\ d \notin A
    BY <1>2
  <2>2. Cardinality(B) = Cardinality(A) + 1
    BY <1>1, <2>1, FS_AddElement
  <2> QED
    BY <1>2, <2>2 DEF Counts
<1>3. CASE Port[d] # p
  <2>1. B = A
    BY <1>3
  <2> QED
    BY <1>3, <2>1 DEF Counts
<1> QED
  BY <1>2, <1>3

LEMMA CountsRemove ==
  ASSUME LibusbAssumption, NEW S, IsFiniteSet(S), NEW d \in Devs, d \in S
  PROVE  Counts(S \ {d}) = [Counts(S) EXCEPT ![Port[d]] = @ - 1]
<1> SUFFICES ASSUME NEW p \in Ports
             PROVE  Counts(S \ {d})[p] = [Counts(S) EXCEPT ![Port[d]] = @ - 1][p]
  BY DEF Counts
<1> DEFINE A == {e \in S : Port[e] = p}
           B == {e \in S \ {d} : Port[e] = p}
<1>1. A \in SUBSET S /\ IsFiniteSet(A)
  BY FS_Subset
<1>2. CASE Port[d] = p
  <2>1. B = A \ {d} /\ d \in A
    BY <1>2
  <2> HIDE DEF A, B
  <2>2. Cardinality(A \ {d}) = Cardinality(A) - 1
    BY <1>1, <2>1, FS_RemoveElement
  <2>3. Counts(S \ {d})[p] = Cardinality(B) /\ Counts(S)[p] = Cardinality(A)
    BY DEF Counts, A, B
  <2>4. [Counts(S) EXCEPT ![Port[d]] = @ - 1][p] = Counts(S)[p] - 1
    BY <1>2 DEF Counts
  <2> QED
    BY <2>1, <2>2, <2>3, <2>4
<1>3. CASE Port[d] # p
  <2>1. B = A
    BY <1>3
  <2> QED
    BY <1>3, <2>1 DEF Counts
<1> QED
  BY <1>2, <1>3

LEMMA CountsNone == Counts({}) = [p \in Ports |-> 0]
<1>1. \A p \in Ports : {d \in {} : Port[d] = p} = {}
  OBVIOUS
<1> QED
  BY <1>1, FS_EmptySet DEF Counts

-----------------------------------------------------------------------------
(* Signals from the only frame.                                            *)

\* What is announced and on the stack after a step.
Told(st, devs, ann) == CalmStack(st, devs) /\ ann = Counts(Announced(st, devs))

LEMMA EmptyTold ==
  ASSUME NEW devs, NEW st, st = <<>>
  PROVE  CalmStack(st, devs) /\ Announced(st, devs) = ListedIn(devs)
BY DEF CalmStack, Announced

LEMMA SingleTold ==
  ASSUME NEW st \in Seq(Frame), Len(st) = 1, NEW devs, CalmFrame(st[1], devs)
  PROVE  /\ CalmStack(st, devs) /\ CalmStack(Append(st, Handler), devs)
         /\ Announced(Append(st, Handler), devs) = Announced(st, devs)
<1>1. Handler \in Frame /\ Handler.fn = "handler"
  BY DEF Handler, Frame, HandlerFrame
<1>2. /\ Len(Append(st, Handler)) = 2 /\ Append(st, Handler)[1] = st[1]
      /\ Append(st, Handler)[2] = Handler
  <2>1. IsSeq(st)
    BY SeqIsSeq
  <2> QED
    BY <2>1, AppendToOne
<1>3. st # <<>> /\ Append(st, Handler) # <<>>
  BY <1>2, EmptySeq
<1> QED
  BY <1>1, <1>2, <1>3 DEF CalmStack, Announced

LEMMA AddSignal ==
  ASSUME LibusbAssumption, doneEnumerate, NEW st \in Seq(Frame), Len(st) = 1,
         NEW devs, CalmFrame(st[1], devs), NEW d \in Devs, NEW S, IsFiniteSet(S), d \notin S,
         announced = Counts(S), Announced(st, devs) = S \cup {d}, EmitDeviceAdd(d, st)
  PROVE  Told(stack', devs, announced')
<1>1. /\ announced' = [announced EXCEPT ![Port[d]] = @ + 1]
      /\ stack' = Append(st, Handler)
  BY DEF EmitDeviceAdd
<1>2. Counts(S \cup {d}) = [Counts(S) EXCEPT ![Port[d]] = @ + 1]
  BY CountsAdd
<1>3. /\ CalmStack(Append(st, Handler), devs)
      /\ Announced(Append(st, Handler), devs) = Announced(st, devs)
  BY SingleTold
<1> QED
  BY <1>1, <1>2, <1>3 DEF Told

LEMMA RemoveSignal ==
  ASSUME LibusbAssumption, doneEnumerate, NEW st \in Seq(Frame), Len(st) = 1,
         NEW devs, CalmFrame(st[1], devs), NEW d \in Devs, NEW S, IsFiniteSet(S), d \in S,
         announced = Counts(S), Announced(st, devs) = S \ {d}, EmitDeviceRemove(d, st)
  PROVE  Told(stack', devs, announced')
<1>1. /\ announced' = [announced EXCEPT ![Port[d]] = @ - 1]
      /\ stack' = Append(st, Handler)
  BY DEF EmitDeviceRemove
<1>2. Counts(S \ {d}) = [Counts(S) EXCEPT ![Port[d]] = @ - 1]
  BY CountsRemove
<1>3. /\ CalmStack(Append(st, Handler), devs)
      /\ Announced(Append(st, Handler), devs) = Announced(st, devs)
  BY SingleTold
<1> QED
  BY <1>1, <1>2, <1>3 DEF Told

SigHyp == PollHyp /\ SignalsInv

LEMMA CalmTyped ==
  ASSUME SigHyp
  PROVE  /\ LibusbAssumption /\ PollHyp /\ TypeInv /\ ScanOK
         /\ stack \in Seq(Frame) /\ StackOK(stack, dictReplug)
         /\ devices \in Seq(Devs) /\ UniqueIn(devices) /\ IsFiniteSet(Listed)
         /\ waits \in Nat /\ DOMAIN stack = 1 .. Len(stack) /\ Len(stack) \in Nat
         /\ idleEvents \in Seq(Message)
BY Typed, FiniteListed, LenProperties DEF SigHyp, PollHyp, ListInv, TypeInv, DataOK, Listed

\* What may run.
LEMMA CalmShape ==
  ASSUME SigHyp, Calm
  PROVE  /\ announced = Counts(Announced(stack, devices))
         /\ \A p \in Ports : dictReplug[p] = 0
         /\ stack = <<>> \/ (stack # <<>> /\ Top.fn # "replug")
         /\ \A k \in DOMAIN stack : stack[k].fn # "replug"
         /\ (InApp /\ ~InHandler) => stack = <<>>
         /\ stack # <<>> /\ Top.fn # "handler" =>
              Len(stack) = 1 /\ Top = stack[1] /\ CalmFrame(Top, devices)
         /\ stack # <<>> /\ Top.fn = "handler" =>
              Len(stack) = 2 /\ CalmFrame(stack[1], devices) /\ InHandler
<1>1. CalmStack(stack, devices) /\ announced = Counts(Announced(stack, devices))
  BY DEF SigHyp, SignalsInv
<1>2. DOMAIN stack = 1 .. Len(stack) /\ Len(stack) \in Nat /\ StackOK(stack, dictReplug)
  BY CalmTyped
<1>3. stack = <<>> => DOMAIN stack = {}
  BY <1>2, EmptySeq
<1>4. \A k \in DOMAIN stack : stack[k].fn # "replug"
  <2>1. CASE Len(stack) = 1 /\ CalmFrame(stack[1], devices)
    BY <1>2, <2>1 DEF CalmFrame
  <2>2. CASE Len(stack) = 2 /\ CalmFrame(stack[1], devices) /\ stack[2].fn = "handler"
    <3>1. \A k \in DOMAIN stack : k = 1 \/ k = 2
      BY <1>2, <2>2
    <3> QED
      BY <2>2, <3>1 DEF CalmFrame
  <2> QED
    BY <1>1, <1>3, <2>1, <2>2 DEF CalmStack
<1>5. \A p \in Ports : dictReplug[p] = 0
  BY <1>2, <1>4 DEF StackOK
<1>6. CASE Len(stack) = 1 /\ CalmFrame(stack[1], devices)
  <2>1. 1 \in DOMAIN stack /\ stack # <<>> /\ Top = stack[1]
    BY <1>2, <1>6, EmptySeq DEF Top
  <2> QED
    BY <1>1, <1>4, <1>5, <1>6, <2>1 DEF InApp, Running, CalmFrame
<1>7. CASE Len(stack) = 2 /\ CalmFrame(stack[1], devices) /\ stack[2].fn = "handler"
  <2>1. 2 \in DOMAIN stack /\ stack # <<>> /\ Top = stack[2]
    BY <1>2, <1>7, EmptySeq DEF Top
  <2> QED
    BY <1>1, <1>4, <1>5, <1>7, <2>1 DEF InHandler
<1>8. CASE stack = <<>>
  BY <1>1, <1>4, <1>5, <1>8
<1> QED
  BY <1>1, <1>6, <1>7, <1>8 DEF CalmStack

\* The frame that runs is replaced by f.
LEMMA StepOnly ==
  ASSUME SigHyp, stack # <<>>, Len(stack) = 1, NEW f \in Frame
  PROVE  Step(f) \in Seq(Frame) /\ Len(Step(f)) = 1 /\ Step(f)[1] = f /\ Step(f) # <<>>
<1>1. stack \in Seq(Frame) /\ 1 \in DOMAIN stack
  BY CalmTyped
<1>2. Step(f) = [stack EXCEPT ![1] = f]
  BY DEF Step
<1>3. Step(f) \in Seq(Frame) /\ Len(Step(f)) = 1
  BY <1>1, <1>2, ExceptSeq
<1> QED
  BY <1>1, <1>2, <1>3, EmptySeq

-----------------------------------------------------------------------------
(* The steps, one by one.                                                  *)

\* What each step has to establish once the first scan is over.
SigGoal == Calm' => Told(stack', devices', announced')

\* Calm was there before: no step undoes a nested main loop or a wait.
LEMMA CalmBefore ==
  ASSUME waits \in Nat, [Next]_vars, Calm'
  PROVE  ~reentered /\ waits = 0 /\ (reentered' = reentered \/ ~InHandler)
<1>1. CASE IdleHotplugCb \/ RescanCb
  BY <1>1 DEF IdleHotplugCb, RescanCb, Calm
<1>2. CASE \E d \in Devs : WaitForReplug(d)
  BY <1>2 DEF WaitForReplug, Calm
<1>3. CASE UNCHANGED <<reentered, waits>>
  BY <1>3 DEF Calm
<1>4. UNCHANGED <<reentered, waits>> \/ IdleHotplugCb \/ RescanCb \/ \E d \in Devs : WaitForReplug(d)
  BY Zenon DEF Next, MainStep, Call, Bus, HotplugCb, DispatchNext, DispatchReturn, RescanCheck,
     RescanRemove, RescanAdd, RescanReturn, EnumerateDone, EnumerateAnnounce, EnumerateReturn,
     ReplugReturn, HandlerReturn, Enumerate, SetHotplugPollInterval, ReplugTimeoutCb, vars
<1> QED
  BY <1>1, <1>2, <1>3, <1>4

LEMMA SameTold ==
  ASSUME SigHyp, Calm, UNCHANGED <<stack, devices, announced>>
  PROVE  Told(stack', devices', announced')
BY DEF SigHyp, SignalsInv, Told

\* Functions and handlers return.
LEMMA PopTold ==
  ASSUME SigHyp, Calm, DispatchReturn \/ RescanReturn \/ EnumerateReturn \/ HandlerReturn
  PROVE  Told(stack', devices', announced')
<1>1. /\ stack # <<>> /\ stack' = Front(stack) /\ UNCHANGED <<devices, announced>>
  BY DEF DispatchReturn, RescanReturn, EnumerateReturn, HandlerReturn, Running, Below,
         coreVars, listVars
<1>2. /\ stack \in Seq(Frame) /\ announced = Counts(Announced(stack, devices))
      /\ devices \in Seq(Devs)
  BY CalmTyped, CalmShape
<1>3. /\ Front(stack) \in Seq(Frame) /\ Len(Front(stack)) = Len(stack) - 1
      /\ \A i \in 1 .. (Len(stack) - 1) : Front(stack)[i] = stack[i]
  BY <1>1, <1>2, FrontIsSeq
<1>4. CASE HandlerReturn
  <2>1. Len(stack) = 2 /\ CalmFrame(stack[1], devices)
    BY <1>1, <1>4, CalmShape DEF HandlerReturn, Running
  <2>2. Len(Front(stack)) = 1 /\ Front(stack)[1] = stack[1] /\ Front(stack) # <<>>
    <3>1. Len(stack) - 1 = 1 /\ 1 \in 1 .. (Len(stack) - 1)
      BY <2>1
    <3>2. Len(Front(stack)) = 1 /\ Front(stack)[1] = stack[1]
      BY <1>3, <3>1
    <3> QED
      BY <3>2
  <2>3. Announced(Front(stack), devices) = Announced(stack, devices)
    BY <1>1, <2>2 DEF Announced
  <2> QED
    BY <1>1, <1>2, <2>1, <2>2, <2>3 DEF Told, CalmStack
<1>5. CASE DispatchReturn \/ RescanReturn \/ EnumerateReturn
  <2>1. Len(stack) = 1 /\ Top = stack[1] /\ CalmFrame(stack[1], devices)
    BY <1>1, <1>5, CalmShape DEF DispatchReturn, RescanReturn, EnumerateReturn, Running
  <2>2. Front(stack) = <<>>
    BY <1>3, <2>1, EmptySeq
  <2>3. Announced(stack, devices) = ListedIn(devices)
    <3>1. CASE DispatchReturn
      BY <2>1, <3>1 DEF DispatchReturn, Running, Announced
    <3>2. CASE RescanReturn
      BY <2>1, <3>2 DEF RescanReturn, Running, Announced
    <3>3. CASE EnumerateReturn
      <4>1. stack[1].fn = "enumerate" /\ stack[1].next \notin DOMAIN devices /\ stack[1].next >= 1
        BY <2>1, <3>3 DEF EnumerateReturn, Running, CalmFrame
      <4>2. stack[1].next \in Nat
        <5>1. stack[1] \in Frame
          BY <1>2, <2>1
        <5> QED
          BY <4>1, <5>1, FrameKinds DEF EnumerateFrame
      <4>3. \A j \in DOMAIN devices : j < stack[1].next
        <5>1. DOMAIN devices = 1 .. Len(devices) /\ Len(devices) \in Nat
          BY <1>2, LenProperties
        <5> QED
          BY <4>1, <4>2, <5>1
      <4>4. {j \in DOMAIN devices : j < stack[1].next} = DOMAIN devices
        BY <4>3
      <4>5. Announced(stack, devices) = {devices[i] : i \in DOMAIN devices}
        BY <1>1, <4>1, <4>4 DEF Announced
      <4> QED
        BY <4>5 DEF ListedIn
    <3> QED
      BY <1>5, <3>1, <3>2, <3>3
  <2> QED
    BY <1>1, <1>2, <2>2, <2>3, EmptyTold DEF Told
<1> QED
  BY <1>4, <1>5

\* A function is called from the application's main loop.
LEMMA PushTold ==
  ASSUME SigHyp, Calm, stack = <<>>, UNCHANGED <<devices, announced>>,
         NEW f \in Frame, f.fn # "enumerate", CalmFrame(f, devices), stack' = Append(stack, f),
         f.fn = "rescan" => f.removing = {}
  PROVE  Told(stack', devices', announced')
<1>1. stack \in Seq(Frame) /\ announced = Counts(Announced(stack, devices))
  BY CalmTyped, CalmShape
<1>2. Len(stack) = 0
  OBVIOUS
<1>3. Len(stack') = 1 /\ stack'[1] = f
  BY <1>1, <1>2, SeqIsSeq, AppendIsSeq
<1>4. stack' # <<>>
  BY <1>3
<1>5. Announced(stack, devices) = ListedIn(devices) /\ Announced(stack', devices) = ListedIn(devices)
  BY <1>3, <1>4 DEF Announced
<1> QED
  BY <1>1, <1>3, <1>5 DEF Told, CalmStack

LEMMA CallbackTold ==
  ASSUME SigHyp, Calm, ~InHandler, IdleHotplugCb \/ RescanCb
  PROVE  Told(stack', devices', announced')
<1>1. UNCHANGED <<devices, announced>>
  BY DEF IdleHotplugCb, RescanCb, coreVars, listVars
<1>2. /\ idleEvents \in Seq(Message) /\ devices \in Seq(Devs) /\ stack \in Seq(Frame)
      /\ (~Running("replug")) /\ (InApp => stack = <<>>)
      /\ pollId \in Nat
  <2>1. pollId \in 0 .. lastSource /\ lastSource \in Nat
    BY CalmTyped, Typed
  <2> QED
    BY <2>1, CalmTyped, CalmShape DEF Running
<1>3. CASE IdleHotplugCb
  <2> DEFINE f == [fn |-> "dispatch", batch |-> idleEvents]
  <2>1. f \in Frame /\ f.fn = "dispatch"
    BY <1>2 DEF Frame, DispatchFrame
  <2>2. stack' = Append(stack, f) /\ stack = <<>>
    BY <1>2, <1>3 DEF IdleHotplugCb, LoopRuns
  <2> HIDE DEF f
  <2>3. CalmFrame(f, devices)
    BY <2>1 DEF CalmFrame
  <2> QED
    BY <1>1, <2>1, <2>2, <2>3, PushTold
<1>4. CASE RescanCb
  <2> DEFINE r == Rescan(pollId)
  <2>1. r \in Frame /\ r.fn = "rescan" /\ r.removing = {} /\ r.existing = Reverse(devices)
    BY <1>2, RescanFrameOK DEF Rescan
  <2>2. stack' = Append(stack, r) /\ stack = <<>>
    BY <1>2, <1>4 DEF RescanCb, LoopRuns, LastIteration
  <2> HIDE DEF r
  <2>3. \A i \in DOMAIN Reverse(devices) : Reverse(devices)[i] \in ListedIn(devices)
    <3>1. /\ DOMAIN Reverse(devices) = 1 .. Len(devices) /\ DOMAIN devices = 1 .. Len(devices)
          /\ Len(devices) \in Nat
          /\ \A i \in 1 .. Len(devices) : Reverse(devices)[i] = devices[Len(devices) - i + 1]
      BY <1>2, ReverseIsSeq, LenProperties
    <3>2. \A i \in 1 .. Len(devices) : Len(devices) - i + 1 \in 1 .. Len(devices)
      BY <3>1
    <3> QED
      BY <3>1, <3>2 DEF ListedIn
  <2>4. CalmFrame(r, devices)
    BY <2>1, <2>3 DEF CalmFrame
  <2> QED
    BY <1>1, <2>1, <2>2, <2>4, PushTold
<1> QED
  BY <1>3, <1>4

\* What is on the list, and the frame that runs, unless it is a handler.
LEMMA Only ==
  ASSUME SigHyp, Calm, stack # <<>>, Top.fn # "handler"
  PROVE  /\ Len(stack) = 1 /\ Top = stack[1] /\ CalmFrame(Top, devices) /\ Top \in Frame
         /\ announced = Counts(Announced(stack, devices))
         /\ Top.fn = "dispatch" => Announced(stack, devices) = ListedIn(devices)
         /\ Top.fn = "rescan" => Announced(stack, devices) = ListedIn(devices) \ Top.removing
         /\ Top.fn = "enumerate" =>
              Announced(stack, devices) = {devices[i] : i \in {j \in DOMAIN devices : j < Top.next}}
<1>1. /\ Len(stack) = 1 /\ Top = stack[1] /\ CalmFrame(Top, devices)
      /\ announced = Counts(Announced(stack, devices))
  BY CalmShape
<1>2. Top \in Frame
  BY CalmTyped, TopFrame
<1> QED
  BY <1>1, <1>2 DEF Announced

\* The frame f that runs adds a device, and has announced what is listed.
LEMMA AddTold ==
  ASSUME SigHyp, Calm, stack # <<>>, Len(stack) = 1,
         NEW f \in Frame, f.fn \in {"dispatch", "rescan"},
         f.fn = "rescan" => f.removing = {} /\ f.existing = <<>>,
         announced = Counts(Listed), NEW d \in Devs, AddDevice(d, Step(f))
  PROVE  Told(stack', devices', announced')
<1>1. /\ Step(f) \in Seq(Frame) /\ Len(Step(f)) = 1 /\ Step(f)[1] = f /\ Step(f) # <<>>
      /\ LibusbAssumption /\ IsFiniteSet(Listed) /\ devices \in Seq(Devs) /\ UniqueIn(devices)
      /\ doneEnumerate /\ dictReplug[Port[d]] = 0
  <2>1. Port[d] \in Ports
    BY CalmTyped DEF LibusbAssumption
  <2> QED
    BY <2>1, StepOnly, CalmTyped, CalmShape DEF Calm
<1>2. \A devs : /\ CalmFrame(f, devs) /\ CalmStack(Step(f), devs)
                /\ Announced(Step(f), devs) = ListedIn(devs)
  BY <1>1 DEF CalmFrame, CalmStack, Announced
<1>3. CASE stack' = Step(f) /\ UNCHANGED <<devices, announced>>
  BY <1>2, <1>3 DEF Told, Listed
<1>4. CASE /\ devices' = Append(devices, d) /\ EmitDeviceAdd(d, Step(f))
           /\ Address[d] \notin AddressesOf(Listed)
  <2>1. ListedIn(devices') = Listed \cup {d} /\ d \notin Listed
    BY <1>1, <1>4, ListAppend DEF Listed, AddressesOf
  <2>2. CalmFrame(Step(f)[1], devices') /\ Announced(Step(f), devices') = Listed \cup {d}
    BY <1>1, <1>2, <2>1
  <2> QED
    BY <1>1, <1>4, <2>1, <2>2, AddSignal
<1> QED
  BY <1>1, <1>3, <1>4 DEF AddDevice

LEMMA DispatchTold ==
  ASSUME SigHyp, Calm, DispatchNext
  PROVE  Told(stack', devices', announced')
<1> DEFINE event == Head(Top.batch)
           f == [Top EXCEPT !.batch = Tail(@)]
           st == Step(f)
<1>1. stack # <<>> /\ Top.fn = "dispatch" /\ Top.batch # <<>>
  BY DEF DispatchNext, Running
<1>2. /\ Len(stack) = 1 /\ announced = Counts(Listed) /\ Top \in Frame
  BY <1>1, Only DEF Listed
<1>3. Top \in DispatchFrame /\ Top.batch \in Seq(Message)
  BY <1>1, <1>2, FrameKinds DEF DispatchFrame
<1>4. event.dev \in Devs /\ Tail(Top.batch) \in Seq(Message)
  <2>1. event \in Message /\ Tail(Top.batch) \in Seq(Message)
    BY <1>1, <1>3, HeadTailProperties
  <2> QED
    BY <2>1 DEF Message
<1>5. f \in DispatchFrame /\ f.fn = "dispatch"
  BY <1>3, <1>4 DEF DispatchFrame
<1>6. f \in Frame
  BY <1>5 DEF Frame
<1>7. AddDevice(event.dev, st) \/ RemoveDevice(event.dev, st)
  BY DEF DispatchNext
<1> HIDE DEF event, f
<1>8. CASE AddDevice(event.dev, st)
  BY <1>1, <1>2, <1>4, <1>5, <1>6, <1>8, AddTold
<1>9. CASE RemoveDevice(event.dev, st)
  <2>1. /\ st \in Seq(Frame) /\ Len(st) = 1 /\ st[1] = f /\ st # <<>>
        /\ LibusbAssumption /\ IsFiniteSet(Listed) /\ devices \in Seq(Devs) /\ UniqueIn(devices)
        /\ doneEnumerate
    BY <1>1, <1>2, <1>6, StepOnly, CalmTyped DEF Calm
  <2> HIDE DEF st
  <2>2. \A devs : /\ CalmFrame(f, devs) /\ CalmStack(st, devs)
                  /\ Announced(st, devs) = ListedIn(devs)
    BY <1>5, <2>1 DEF CalmFrame, CalmStack, Announced
  <2>3. CASE stack' = st /\ UNCHANGED <<devices, announced>>
    BY <1>2, <2>2, <2>3 DEF Told, Listed
  <2>4. ASSUME NEW i \in DOMAIN devices, devices' = RemoveAt(devices, i),
               dictReplug[Port[devices[i]]] = 0 => EmitDeviceRemove(devices[i], st)
        PROVE  Told(stack', devices', announced')
    <3>1. devices[i] \in Devs /\ devices[i] \in Listed
      BY <2>1, LenProperties DEF Listed, ListedIn
    <3>2. Port[devices[i]] \in Ports
      BY <2>1, <3>1 DEF LibusbAssumption
    <3>3. EmitDeviceRemove(devices[i], st)
      BY <2>4, <3>2, CalmShape
    <3>4. ListedIn(devices') = Listed \ {devices[i]}
      BY <2>1, <2>4, ListRemove DEF Listed
    <3>5. CalmFrame(st[1], devices') /\ Announced(st, devices') = Listed \ {devices[i]}
      BY <2>1, <2>2, <3>4
    <3> QED
      BY <1>2, <2>1, <3>1, <3>3, <3>5, RemoveSignal
  <2>5. \/ stack' = st /\ UNCHANGED <<devices, announced>>
        \/ \E i \in DOMAIN devices :
             /\ devices' = RemoveAt(devices, i)
             /\ dictReplug[Port[devices[i]]] = 0 => EmitDeviceRemove(devices[i], st)
    BY <1>9, Zenon DEF RemoveDevice
  <2> QED
    BY <2>3, <2>4, <2>5
<1> QED
  BY <1>7, <1>8, <1>9

LEMMA RescanCheckTold ==
  ASSUME SigHyp, Calm, RescanCheck
  PROVE  Told(stack', devices', announced')
<1> DEFINE d == Head(Top.existing)
           f == [Top EXCEPT !.existing = Tail(@)]
           g == [f EXCEPT !.removing = {d}]
<1>1. /\ stack # <<>> /\ Top.fn = "rescan" /\ Top.existing # <<>> /\ Top.removing = {}
      /\ devices' = devices
  BY DEF RescanCheck, Running, coreVars, listVars
<1>2. /\ Len(stack) = 1 /\ CalmFrame(Top, devices) /\ Top \in Frame
      /\ announced = Counts(Announced(stack, devices))
      /\ Announced(stack, devices) = ListedIn(devices) \ Top.removing
  BY <1>1, Only
<1>3. Top \in RescanFrame /\ Top.existing \in Seq(Devs) /\ announced = Counts(Listed)
  <2>1. ListedIn(devices) \ Top.removing = Listed
    BY <1>1 DEF Listed
  <2> QED
    BY <1>1, <1>2, <2>1, FrameKinds DEF RescanFrame
<1>4. /\ d = Top.existing[1] /\ 1 \in DOMAIN Top.existing /\ d \in Devs
      /\ Tail(Top.existing) \in Seq(Devs)
      /\ \A i \in DOMAIN Tail(Top.existing) :
           i + 1 \in DOMAIN Top.existing /\ Tail(Top.existing)[i] = Top.existing[i + 1]
  BY <1>1, <1>3, HeadTailProperties, LenProperties, EmptySeq
<1>5. f \in RescanFrame /\ f.fn = "rescan" /\ f.existing = Tail(Top.existing) /\ f.removing = {}
  BY <1>1, <1>3, <1>4 DEF RescanFrame
<1>6. g \in RescanFrame /\ g.fn = "rescan" /\ g.existing = Tail(Top.existing) /\ g.removing = {d}
  BY <1>4, <1>5 DEF RescanFrame
<1>7. (stack' = Step(f) /\ UNCHANGED announced) \/ EmitDeviceRemove(d, Step(g))
  BY DEF RescanCheck
<1> HIDE DEF d, f, g
<1>8. /\ d \in Listed
      /\ \A i \in DOMAIN Tail(Top.existing) : Tail(Top.existing)[i] \in ListedIn(devices)
  BY <1>1, <1>2, <1>4 DEF CalmFrame, Listed
<1>9. CalmFrame(f, devices) /\ CalmFrame(g, devices) /\ f \in Frame /\ g \in Frame
  BY <1>5, <1>6, <1>8 DEF CalmFrame, Frame, Listed
<1>10. CASE stack' = Step(f) /\ UNCHANGED announced
  <2>1. Len(Step(f)) = 1 /\ Step(f)[1] = f /\ Step(f) # <<>>
    BY <1>1, <1>2, <1>9, StepOnly
  <2>2. CalmStack(Step(f), devices) /\ Announced(Step(f), devices) = Listed
    BY <1>5, <1>9, <2>1 DEF CalmStack, Announced, Listed
  <2> QED
    BY <1>1, <1>3, <1>10, <2>2 DEF Told
<1>11. CASE EmitDeviceRemove(d, Step(g))
  <2>1. Step(g) \in Seq(Frame) /\ Len(Step(g)) = 1 /\ Step(g)[1] = g /\ Step(g) # <<>>
    BY <1>1, <1>2, <1>9, StepOnly
  <2>2. CalmFrame(Step(g)[1], devices) /\ Announced(Step(g), devices) = Listed \ {d}
    BY <1>6, <1>9, <2>1 DEF Announced, Listed
  <2>3. Told(stack', devices, announced')
    BY <1>3, <1>4, <1>8, <1>11, <2>1, <2>2, RemoveSignal, CalmTyped DEF Calm
  <2> QED
    BY <1>1, <2>3
<1> QED
  BY <1>7, <1>10, <1>11

LEMMA RescanRemoveTold ==
  ASSUME SigHyp, Calm, RescanRemove
  PROVE  Told(stack', devices', announced')
<1> DEFINE f == [Top EXCEPT !.removing = {}]
<1>1. /\ stack # <<>> /\ Top.fn = "rescan" /\ Top.removing # {} /\ stack' = Step(f)
      /\ announced' = announced
  BY DEF RescanRemove, Running
<1>2. /\ Len(stack) = 1 /\ Top = stack[1] /\ CalmFrame(Top, devices) /\ Top \in Frame
      /\ announced = Counts(ListedIn(devices) \ Top.removing)
  BY <1>1, Only
<1>3. Top \in RescanFrame
  BY <1>1, <1>2, FrameKinds
<1>4. f \in RescanFrame /\ f.fn = "rescan" /\ f.existing = Top.existing /\ f.removing = {}
  BY <1>3 DEF RescanFrame
<1> HIDE DEF f
<1>5. /\ devices \in Seq(Devs) /\ UniqueIn(devices)
      /\ \A i \in DOMAIN Top.existing : Top.existing[i] \notin Top.removing
  <2>1. RescansOK(stack, devices, lastSource) /\ 1 \in DOMAIN stack
    BY <1>2, CalmTyped DEF PollHyp, PollInv, Calm
  <2>2. RescanOK(Top, devices, lastSource)
    BY <1>1, <1>2, <2>1 DEF RescansOK
  <2> QED
    BY <2>2, CalmTyped DEF RescanOK
<1>6. ListedIn(devices') = ListedIn(devices) \ Top.removing
  <2>1. ASSUME NEW i \in DOMAIN devices, devices[i] \in Top.removing,
               devices' = RemoveAt(devices, i)
        PROVE  ListedIn(devices') = ListedIn(devices) \ Top.removing
    <3>1. Top.removing = {devices[i]}
      BY <1>1, <1>2, <2>1 DEF CalmFrame
    <3> QED
      BY <1>5, <2>1, <3>1, ListRemove
  <2>2. ~(Top.removing \cap Listed = {})
    BY <1>1, <1>2 DEF CalmFrame, Listed
  <2> QED
    BY <2>1, <2>2 DEF RescanRemove
<1>7. CalmFrame(f, devices')
  BY <1>1, <1>2, <1>4, <1>5, <1>6 DEF CalmFrame
<1>8. Len(Step(f)) = 1 /\ Step(f)[1] = f /\ Step(f) # <<>>
  <2>1. f \in Frame
    BY <1>4 DEF Frame
  <2> QED
    BY <1>1, <1>2, <2>1, StepOnly
<1>9. CalmStack(Step(f), devices') /\ Announced(Step(f), devices') = ListedIn(devices')
  BY <1>4, <1>7, <1>8 DEF CalmStack, Announced
<1> QED
  BY <1>1, <1>2, <1>6, <1>9 DEF Told

LEMMA RescanAddTold ==
  ASSUME SigHyp, Calm, RescanAdd
  PROVE  Told(stack', devices', announced')
<1>1. stack # <<>> /\ Top.fn = "rescan" /\ Top.existing = <<>> /\ Top.removing = {}
  BY DEF RescanAdd, Running
<1>2. PICK d \in Top.fresh : AddDevice(d, Step([Top EXCEPT !.fresh = @ \ {d}]))
  BY DEF RescanAdd
<1> DEFINE f == [Top EXCEPT !.fresh = @ \ {d}]
<1>3. /\ Len(stack) = 1 /\ Top \in Frame /\ announced = Counts(ListedIn(devices) \ Top.removing)
  BY <1>1, Only
<1>4. announced = Counts(Listed)
  <2>1. ListedIn(devices) \ Top.removing = Listed
    BY <1>1 DEF Listed
  <2> QED
    BY <1>3, <2>1
<1>5. Top \in RescanFrame /\ d \in Devs
  BY <1>1, <1>2, <1>3, FrameKinds DEF RescanFrame
<1>6. /\ f \in RescanFrame /\ f.fn = "rescan" /\ f.existing = <<>> /\ f.removing = {}
  BY <1>1, <1>5 DEF RescanFrame
<1>7. f \in Frame /\ AddDevice(d, Step(f))
  BY <1>2, <1>6 DEF Frame
<1> HIDE DEF f
<1> QED
  BY <1>1, <1>3, <1>4, <1>5, <1>6, <1>7, AddTold

LEMMA AnnounceTold ==
  ASSUME SigHyp, Calm, EnumerateAnnounce
  PROVE  Told(stack', devices', announced')
<1> DEFINE n == Top.next
           d == devices[n]
           f == [Top EXCEPT !.next = @ + 1]
           before == {devices[i] : i \in {j \in DOMAIN devices : j < n}}
<1>1. /\ stack # <<>> /\ Top.fn = "enumerate" /\ n \in DOMAIN devices
      /\ EmitDeviceAdd(d, Step(f)) /\ devices' = devices
  BY DEF EnumerateAnnounce, Running, coreVars, listVars
<1>2. /\ Len(stack) = 1 /\ CalmFrame(Top, devices) /\ Top \in Frame
      /\ announced = Counts(before)
  BY <1>1, Only
<1>3. Top \in EnumerateFrame /\ n \in Nat
  BY <1>1, <1>2, FrameKinds DEF EnumerateFrame
<1>4. f \in EnumerateFrame /\ f.fn = "enumerate" /\ f.step = Top.step /\ f.next = n + 1
  BY <1>3 DEF EnumerateFrame
<1>5. /\ devices \in Seq(Devs) /\ UniqueIn(devices) /\ LibusbAssumption /\ IsFiniteSet(Listed)
      /\ doneEnumerate
  BY CalmTyped DEF Calm
<1>6. DOMAIN devices = 1 .. Len(devices) /\ Len(devices) \in Nat /\ d \in Devs
  BY <1>1, <1>5, LenProperties
<1>7. \A j \in DOMAIN devices : j < n + 1 <=> j < n \/ j = n
  BY <1>3, <1>6
<1>8. d \notin before
  <2>1. \A j \in DOMAIN devices : j < n => j # n
    BY <1>3, <1>6
  <2> QED
    BY <1>1, <1>5, <2>1 DEF UniqueIn
<1>9. {devices[i] : i \in {j \in DOMAIN devices : j < n + 1}} = before \cup {d}
  <2>1. {j \in DOMAIN devices : j < n + 1} = {j \in DOMAIN devices : j < n} \cup {n}
    BY <1>1, <1>7
  <2> QED
    BY <2>1
<1>10. IsFiniteSet(before)
  <2>1. before \in SUBSET Listed
    BY DEF Listed, ListedIn
  <2> HIDE DEF before
  <2> QED
    BY <1>5, <2>1, FS_Subset
<1>11. CalmFrame(f, devices) /\ f \in Frame
  BY <1>1, <1>2, <1>3, <1>4 DEF CalmFrame, Frame
<1> HIDE DEF f, n, d
<1>12. Step(f) \in Seq(Frame) /\ Len(Step(f)) = 1 /\ Step(f)[1] = f /\ Step(f) # <<>>
  BY <1>1, <1>2, <1>11, StepOnly
<1>13. Announced(Step(f), devices) = before \cup {d}
  BY <1>4, <1>9, <1>12 DEF Announced
<1> HIDE DEF before
<1>14. CalmFrame(Step(f)[1], devices)
  BY <1>11, <1>12
<1>15. Told(stack', devices, announced')
  BY <1>1, <1>2, <1>5, <1>6, <1>8, <1>10, <1>12, <1>13, <1>14, AddSignal
<1> QED
  BY <1>1, <1>15

\* The end of the first scan: nothing is announced yet.
LEMMA DoneTold ==
  ASSUME SigHyp, ~reentered, waits = 0, EnumerateDone
  PROVE  Told(stack', devices', announced')
<1> DEFINE f == [Top EXCEPT !.step = "announce"]
<1>1. /\ stack # <<>> /\ Top.fn = "enumerate" /\ Top.step = "scan" /\ stack' = Step(f)
      /\ UNCHANGED <<devices, announced>>
  BY DEF EnumerateDone, Running
<1>2. ~doneEnumerate
  <2>1. doneEnumerate => Calm
    BY DEF Calm
  <2>2. Calm => CalmFrame(Top, devices)
    BY <1>1, Only
  <2> QED
    BY <1>1, <2>1, <2>2 DEF CalmFrame
<1>3. Len(stack) = 1 /\ Top \in Frame
  BY <1>1, <1>2, CalmTyped, FirstScan, TopFrame
<1>4. Top.next = 1 /\ announced = [p \in Ports |-> 0]
  <2>1. Top = stack[1] /\ 1 \in DOMAIN stack
    BY <1>3, CalmTyped DEF Top
  <2> QED
    BY <1>1, <1>2, <2>1 DEF SigHyp, SignalsInv
<1>5. Top \in EnumerateFrame
  BY <1>1, <1>3, FrameKinds
<1>6. f \in EnumerateFrame /\ f.fn = "enumerate" /\ f.step = "announce" /\ f.next = 1
  BY <1>4, <1>5 DEF EnumerateFrame
<1>7. f \in Frame
  BY <1>6 DEF Frame
<1> HIDE DEF f
<1>8. Len(Step(f)) = 1 /\ Step(f)[1] = f /\ Step(f) # <<>>
  BY <1>1, <1>3, <1>7, StepOnly
<1>9. {j \in DOMAIN devices : j < 1} = {}
  <2>1. DOMAIN devices = 1 .. Len(devices)
    BY CalmTyped, LenProperties
  <2> QED
    BY <2>1
<1>10. Announced(Step(f), devices) = {}
  BY <1>6, <1>8, <1>9 DEF Announced
<1>11. CalmStack(Step(f), devices)
  BY <1>6, <1>8 DEF CalmStack, CalmFrame
<1> QED
  BY <1>1, <1>4, <1>10, <1>11, CountsNone DEF Told

-----------------------------------------------------------------------------
(* During the first scan nothing is announced.                             *)

ScanSilent(st, ann) ==
  /\ ann = [p \in Ports |-> 0]
  /\ \A k \in DOMAIN st : st[k].fn = "enumerate" => st[k].next = 1

LEMMA ScanImpossible ==
  ASSUME SigHyp, ~doneEnumerate
  PROVE  /\ ~DispatchNext /\ ~RescanCheck /\ ~RescanRemove /\ ~RescanCb /\ ~IdleHotplugCb
         /\ ~EnumerateAnnounce /\ ~ReplugReturn
         /\ ~(\E d \in Devs : WaitForReplug(d)) /\ ~(\E k \in DOMAIN stack : ReplugTimeoutCb(k))
<1>1. /\ stack # <<>> =>
           /\ \A k \in DOMAIN stack : stack[k].fn \in {"enumerate", "rescan"}
           /\ Top.fn \in {"enumerate", "rescan"}
           /\ Top.fn = "enumerate" => Top.step = "scan"
           /\ Top.fn = "rescan" => Top.existing = <<>> /\ Top.removing = {}
      /\ InApp => devices = <<>>
      /\ ~idleQueued /\ pollId = 0 /\ devicesRemoved = {}
  BY CalmTyped, FirstScan, FirstScanCall
<1>2. ~DispatchNext /\ ~RescanCheck /\ ~RescanRemove /\ ~EnumerateAnnounce /\ ~ReplugReturn
  BY <1>1 DEF DispatchNext, RescanCheck, RescanRemove, EnumerateAnnounce, ReplugReturn, Running
<1>3. ~RescanCb /\ ~IdleHotplugCb
  BY <1>1 DEF RescanCb, IdleHotplugCb
<1>4. ASSUME NEW d \in Devs, WaitForReplug(d)
      PROVE  FALSE
  <2>1. InApp /\ d \in Listed \cup devicesRemoved
    BY <1>4 DEF WaitForReplug
  <2>2. devices = <<>> /\ Listed = {}
    BY <1>1, <2>1 DEF Listed, ListedIn
  <2> QED
    BY <1>1, <2>1, <2>2
<1>5. ASSUME NEW k \in DOMAIN stack, ReplugTimeoutCb(k)
      PROVE  FALSE
  <2>1. stack # <<>> /\ stack[k].fn = "replug"
    BY <1>5 DEF ReplugTimeoutCb
  <2> QED
    BY <1>1, <2>1
<1> QED
  BY <1>2, <1>3, <1>4, <1>5

LEMMA ScanSilentStep ==
  ASSUME SigHyp, [Next]_vars, ~doneEnumerate'
  PROVE  ScanSilent(stack', announced')
<1>0. ~doneEnumerate
  <2>1. CASE EnumerateDone
    BY <2>1 DEF EnumerateDone
  <2>2. CASE UNCHANGED doneEnumerate
    BY <2>2
  <2>3. EnumerateDone \/ UNCHANGED doneEnumerate
    BY Zenon DEF Next, MainStep, Call, Bus, HotplugCb, IdleHotplugCb, RescanCb, DispatchNext,
       DispatchReturn, RescanCheck, RescanRemove, RescanAdd, RescanReturn, EnumerateAnnounce,
       EnumerateReturn, ReplugReturn, HandlerReturn, Enumerate, WaitForReplug,
       SetHotplugPollInterval, ReplugTimeoutCb, vars, coreVars, listVars
  <2> QED
    BY <2>1, <2>2, <2>3
<1>1. ScanSilent(stack, announced) /\ stack \in Seq(Frame)
  BY <1>0, CalmTyped DEF SigHyp, SignalsInv, ScanSilent
<1>2. CASE DispatchReturn \/ RescanReturn \/ EnumerateReturn \/ HandlerReturn
  <2>1. stack # <<>> /\ stack' = Front(stack) /\ announced' = announced
    BY <1>2 DEF DispatchReturn, RescanReturn, EnumerateReturn, HandlerReturn, Running, Below
  <2>2. /\ DOMAIN Front(stack) = 1 .. (Len(stack) - 1) /\ DOMAIN stack = 1 .. Len(stack)
        /\ Len(stack) \in Nat /\ \A i \in 1 .. (Len(stack) - 1) : Front(stack)[i] = stack[i]
    BY <1>1, <2>1, FrontIsSeq, LenProperties
  <2> QED
    BY <1>1, <2>1, <2>2 DEF ScanSilent
<1>3. CASE \/ Bus \/ HotplugCb \/ UNCHANGED vars
           \/ \E interval \in Intervals : SetHotplugPollInterval(interval)
  <2>1. UNCHANGED <<stack, announced>>
    BY <1>3 DEF Bus, HotplugCb, SetHotplugPollInterval, vars
  <2> QED
    BY <1>1, <2>1 DEF ScanSilent
<1>4. CASE RescanAdd
  <2>1. PICK d \in Top.fresh : AddDevice(d, Step([Top EXCEPT !.fresh = @ \ {d}]))
    BY <1>4 DEF RescanAdd
  <2> DEFINE f == [Top EXCEPT !.fresh = @ \ {d}]
  <2>2. stack # <<>> /\ Top.fn = "rescan"
    BY <1>4 DEF RescanAdd, Running
  <2>3. Top \in RescanFrame
    BY <2>2, CalmTyped, TopFrame
  <2>4. f.fn = "rescan" /\ d \in Devs
    BY <2>1, <2>3 DEF RescanFrame
  <2>5. dictReplug[Port[d]] = 0
    <3>1. Port[d] \in Ports
      BY <2>4, CalmTyped DEF LibusbAssumption
    <3> QED
      BY <1>0, <3>1, CalmTyped DEF ScanOK
  <2>6. AddDevice(d, Step(f))
    BY <2>1
  <2> HIDE DEF f
  <2>7. stack' = Step(f) /\ announced' = announced
    BY <1>0, <2>5, <2>6 DEF AddDevice, EmitDeviceAdd
  <2> QED
    BY <1>1, <2>4, <2>7 DEF ScanSilent, Step
<1>5. CASE Enumerate
  <2> DEFINE e == [fn |-> "enumerate", step |-> "scan", next |-> 1]
  <2>1. stack = <<>> /\ stack' = stack \o <<e, Rescan(0)>> /\ announced' = announced
    BY <1>0, <1>5, CalmTyped, FirstScanCall DEF Enumerate
  <2>2. stack' = <<e, Rescan(0)>>
    BY <2>1
  <2>3. e.next = 1 /\ Rescan(0).fn = "rescan"
    BY DEF Rescan
  <2> HIDE DEF e
  <2>4. \A k \in DOMAIN stack' : stack'[k] = e \/ stack'[k] = Rescan(0)
    BY <2>2
  <2> QED
    BY <1>1, <2>1, <2>3, <2>4 DEF ScanSilent
<1>6. CASE EnumerateDone
  BY <1>6 DEF EnumerateDone
<1> QED
  BY <1>0, <1>2, <1>3, <1>4, <1>5, <1>6, ScanImpossible, Zenon DEF Next, MainStep, Call

-----------------------------------------------------------------------------
(* The theorem.                                                            *)

LEMMA SigInit == Init => SignalsInv
BY DEF Init, SignalsInv, Calm

LEMMA SigNext ==
  ASSUME LibusbAssumption, ListInv, PollInv, SignalsInv, [Next]_vars
  PROVE  SignalsInv'
<1>0. SigHyp /\ waits \in Nat
  BY CalmTyped DEF SigHyp, PollHyp
<1>1. ~doneEnumerate' => ScanSilent(stack', announced')
  BY <1>0, ScanSilentStep
<1>2. ASSUME Calm'
      PROVE  Told(stack', devices', announced')
  <2>1. ~reentered /\ waits = 0 /\ (reentered' = reentered \/ ~InHandler)
    BY <1>0, <1>2, CalmBefore
  <2>2. CASE EnumerateDone
    BY <1>0, <2>1, <2>2, DoneTold
  <2>3. CASE ~EnumerateDone
    <3>1. doneEnumerate /\ Calm
      <4>1. EnumerateDone \/ UNCHANGED doneEnumerate
        BY Zenon DEF Next, MainStep, Call, Bus, HotplugCb, IdleHotplugCb, RescanCb, DispatchNext,
           DispatchReturn, RescanCheck, RescanRemove, RescanAdd, RescanReturn, EnumerateAnnounce,
           EnumerateReturn, ReplugReturn, HandlerReturn, Enumerate, WaitForReplug,
           SetHotplugPollInterval, ReplugTimeoutCb, vars, coreVars, listVars
      <4> QED
        BY <1>2, <2>1, <2>3, <4>1 DEF Calm
    <3>2. CASE DispatchReturn \/ RescanReturn \/ EnumerateReturn \/ HandlerReturn
      BY <1>0, <3>1, <3>2, PopTold
    <3>3. CASE \/ Bus \/ HotplugCb \/ UNCHANGED vars
               \/ \E interval \in Intervals : SetHotplugPollInterval(interval)
      <4>1. UNCHANGED <<stack, devices, announced>>
        BY <3>3 DEF Bus, HotplugCb, SetHotplugPollInterval, vars, coreVars, listVars
      <4> QED
        BY <1>0, <3>1, <4>1, SameTold
    <3>4. CASE IdleHotplugCb \/ RescanCb
      <4>1. ~InHandler
        BY <1>2, <2>1, <3>4 DEF IdleHotplugCb, RescanCb, Calm
      <4> QED
        BY <1>0, <3>1, <3>4, <4>1, CallbackTold
    <3>5. CASE DispatchNext \/ RescanCheck \/ RescanRemove \/ RescanAdd \/ EnumerateAnnounce
      BY <1>0, <3>1, <3>5, DispatchTold, RescanCheckTold, RescanRemoveTold, RescanAddTold,
         AnnounceTold
    <3>6. ~Enumerate /\ ~(\E d \in Devs : WaitForReplug(d)) /\ ~ReplugReturn
      <4>1. Top.fn # "replug" \/ stack = <<>>
        BY <1>0, <3>1, CalmShape
      <4>2. \A d \in Devs : WaitForReplug(d) => waits' = waits + 1
        BY DEF WaitForReplug
      <4>3. waits + 1 # 0
        BY <1>0
      <4> QED
        BY <1>2, <3>1, <4>1, <4>2, <4>3 DEF Enumerate, ReplugReturn, Running, Calm
    <3>7. ~(\E k \in DOMAIN stack : ReplugTimeoutCb(k))
      BY <1>0, <3>1, CalmShape DEF ReplugTimeoutCb
    <3> QED
      BY <2>3, <3>2, <3>3, <3>4, <3>5, <3>6, <3>7, Zenon DEF Next, MainStep, Call
  <2> QED
    BY <2>2, <2>3
<1> QED
  BY <1>1, <1>2 DEF SignalsInv, ScanSilent, Told

LEMMA SignalsMatch ==
  ASSUME LibusbAssumption, ListInv, PollInv, SignalsInv
  PROVE  SignalsMatchList
<1> SUFFICES ASSUME stack = <<>>, ~reentered, waits = 0, NEW p \in Ports
             PROVE  announced[p] = Cardinality({d \in Listed : Port[d] = p})
  BY DEF SignalsMatchList
<1>1. CASE doneEnumerate
  <2>1. announced = Counts(Announced(stack, devices)) /\ Announced(stack, devices) = Listed
    BY <1>1, EmptyTold DEF SignalsInv, Calm, Listed
  <2> QED
    BY <2>1 DEF Counts
<1>2. CASE ~doneEnumerate
  <2>1. devices = <<>>
    BY <1>2, FirstScanCall DEF ListInv, InApp
  <2>2. announced[p] = 0 /\ {d \in Listed : Port[d] = p} = {}
    BY <1>2, <2>1 DEF SignalsInv, Listed, ListedIn
  <2> QED
    BY <2>2, FS_EmptySet
<1> QED
  BY <1>1, <1>2

\* Unless a signal handler ran the main loop or somebody waited for a replug, the
\* device-added and device-removed signals add up, port by port, to the list, for
\* any number of devices and however often they come and go.
THEOREM SignalsAddUp ==
  ASSUME LibusbAssumption, ContextAssumption
  PROVE  Spec => []SignalsMatchList
<1>1. Init => ListInv /\ PollInv /\ SignalsInv
  BY ListInit, PollInit, SigInit, LibusbAssumption, ContextAssumption
<1>2. ListInv /\ PollInv /\ SignalsInv /\ [Next]_vars => ListInv' /\ PollInv' /\ SignalsInv'
  BY ListNext, PollNext, SigNext, LibusbAssumption, ContextAssumption
<1>3. ListInv /\ PollInv /\ SignalsInv => SignalsMatchList
  BY SignalsMatch, LibusbAssumption
<1> QED
  BY <1>1, <1>2, <1>3, PTL DEF Spec
=============================================================================
