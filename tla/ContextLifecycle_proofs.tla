------------------------ MODULE ContextLifecycle_proofs ------------------------
(***************************************************************************)
(* The event thread never outlives libusb, nothing is dispatched after     *)
(* dispose, and the event thread joins itself only when the main thread is *)
(* through with the transfer: for any number of events and transfers.      *)
(***************************************************************************)
EXTENDS ContextLifecycle, TLAPS

Steps == {"stop", "join", "sources", "clear", "exit", "queue"}
Alone == thread \notin {"check", "handle", "unref"}

\* The types, with the record that GoTo updates.
TypeInv ==
  /\ TypeOK
  /\ run \in Int /\ disposals \in Nat
  /\ dispose \in [by : {Main, Events, None}, step : Steps]

\* Until the context is initialised the application has it and nobody disposes.
SetupOK ==
  /\ ready \in {"none", "init", "thread"} => app /\ ~Disposing /\ disposals = 0
  /\ ready \in {"none", "init"} => run = 0 /\ Alone /\ ~registered
  /\ ready \in {"init", "thread"} => ctx = "live"
  /\ ready = "thread" => run = 1

\* The event thread and the hotplug callback are there as long as run says so, or
\* until the thread is joined; then there is libusb.
ThreadOK ==
  /\ ~Alone => run = 1 \/ (Disposing /\ dispose.step = "join")
  /\ ~Alone \/ registered \/ run = 1 => ctx = "live"
  /\ registered => run = 1
  /\ run = 1 => disposals = 0 /\ (Disposing => dispose.step = "stop")

\* What dispose has done stays done; the event thread gets no further than the join.
DisposeOK ==
  /\ dispose.by = Events => ~Alone /\ ((dispose.step = "stop" /\ run = 1) \/ dispose.step = "join")
  /\ Disposing /\ dispose.step \in {"clear", "exit", "queue"} => ~idle /\ ~polled
  /\ Disposing /\ dispose.step \in {"exit", "queue"} => ~listed

\* Who holds the task of the transfer.
TaskOK ==
  /\ transfer = "inflight" => task = {Events}
  /\ transfer = "through" => Main \in task
  /\ thread = "unref" => Events \in task /\ transfer \in {"none", "through"}

LifeInv == TypeInv /\ SetupOK /\ ThreadOK /\ DisposeOK /\ TaskOK /\ NothingDispatched

USE LifecycleAssumption DEF LifecycleAssumption

-----------------------------------------------------------------------------
\* The initial state.
LEMMA LifeInit == Init => LifeInv
<1> SUFFICES ASSUME Init PROVE LifeInv
  OBVIOUS
<1> USE DEF Init, Alone, Disposing, Steps
<1>1. TypeOK
  <2>1. {hotplug, app, registered, idle, polled, enumerated, listed} \subseteq BOOLEAN
    OBVIOUS
  <2>2. queue \in 0 .. MaxQueue /\ submitted \in 0 .. MaxTransfers
    OBVIOUS
  <2> QED
    BY <2>1, <2>2 DEF TypeOK
<1>2. TypeInv
  BY <1>1 DEF TypeInv
<1>3. SetupOK /\ ThreadOK /\ DisposeOK /\ TaskOK /\ NothingDispatched
  BY DEF SetupOK, ThreadOK, DisposeOK, TaskOK, NothingDispatched
<1> QED
  BY <1>2, <1>3 DEF LifeInv

\* A dropped reference leaves dispose as it is or starts it.
LEMMA DroppedCases ==
  ASSUME LifeInv, NEW t \in {Main, Events}, Dropped(t)
  PROVE  /\ disposals' = disposals
         /\ dispose' \in [by : {Main, Events, None}, step : Steps]
         /\ \/ dispose' = dispose
            \/ /\ ~Disposing /\ dispose' = [by |-> t, step |-> "stop"]
               /\ ~Held(app', queue', listed', task')
BY DEF Dropped, LifeInv, TypeInv, Steps

\* g_usb_context_initable_init.
LEMMA InitialiseStep == LifeInv /\ Initialise => LifeInv'
<1> SUFFICES ASSUME LifeInv, Initialise PROVE LifeInv'
  OBVIOUS
<1> USE DEF LifeInv, TypeInv, TypeOK, SetupOK, ThreadOK, DisposeOK, TaskOK, NothingDispatched,
            Steps, Alone, Disposing, setup, libusb, sources, context, work, dying
<1>1. CASE LibusbInit
  <2>1. TypeInv'
    <3>1. dispose' \in [by : {Main, Events, None}, step : Steps] /\ disposals' \in Nat /\ run' \in Int
      BY <1>1, DroppedCases DEF LibusbInit, Held
    <3>2. TypeOK'
      BY <3>1, <1>1, DroppedCases DEF LibusbInit, Held
    <3> QED
      BY <3>1, <3>2
  <2>2. run' = 0 /\ Alone' /\ ~registered' /\ disposals' = 0 /\ thread' = thread
    BY <1>1, DroppedCases DEF LibusbInit
  <2>3. (dispose'.by # Events /\ dispose'.step = dispose.step) \/ dispose'.step = "stop"
    BY <1>1, DroppedCases DEF LibusbInit
  <2>4. app' => ~Disposing'
    BY <1>1, DroppedCases DEF LibusbInit, Held
  <2>5. SetupOK'
    <3>1. ready' = "failed" \/ (ready' = "init" /\ ctx' = "live" /\ app')
      <4>1. app /\ ready = "none"
        BY <1>1 DEF LibusbInit
      <4>2. ready' = "failed" \/ (ready' = "init" /\ ctx' = "live" /\ app' = app)
        BY <1>1 DEF LibusbInit
      <4> QED
        BY <4>1, <4>2
    <3> QED
      BY <3>1, <2>2, <2>4
  <2>6. ThreadOK' /\ TaskOK' /\ NothingDispatched'
    BY <1>1, <2>2, <2>3 DEF LibusbInit
  <2>7. DisposeOK'
    BY <1>1, <2>2, <2>3, DroppedCases DEF LibusbInit
  <2> QED
    BY <2>1, <2>5, <2>6, <2>7
<1>2. CASE StartThread
  BY <1>2 DEF StartThread
<1>3. CASE Register
  <2>1. TypeInv'
    BY <1>3 DEF Register
  <2>2. SetupOK' /\ TaskOK' /\ DisposeOK' /\ NothingDispatched'
    BY <1>3 DEF Register
  <2>3. ThreadOK'
    <3>1. ctx' = "live" /\ run' = 1 /\ disposals' = 0 /\ ~Disposing'
      BY <1>3 DEF Register
    <3> QED
      BY <3>1
  <2> QED
    BY <2>1, <2>2, <2>3
<1> QED
  BY <1>1, <1>2, <1>3 DEF Initialise

\* The event thread and the callbacks that libusb calls there.
LEMMA ThreadStep == LifeInv /\ (EventThread \/ HotplugCb \/ TransferCb) => LifeInv'
<1> SUFFICES ASSUME LifeInv, EventThread \/ HotplugCb \/ TransferCb PROVE LifeInv'
  OBVIOUS
<1> USE DEF LifeInv, TypeInv, TypeOK, SetupOK, ThreadOK, DisposeOK, TaskOK, NothingDispatched,
            Steps, Alone, Disposing, setup, libusb, sources, context, work, dying, Running
<1>1. CASE ThreadCheck
  BY <1>1 DEF ThreadCheck
<1>2. CASE ThreadHandled
  BY <1>2 DEF ThreadHandled
<1>3. CASE TransferCbReturn
  BY <1>3, DroppedCases DEF TransferCbReturn, Held, Alive
<1>4. CASE HotplugCb
  <2>1. TypeInv'
    <3>1. dispose' \in [by : {Main, Events, None}, step : Steps] /\ disposals' \in Nat /\ run' \in Int
      BY <1>4 DEF HotplugCb
    <3>2. ({hotplug, app, registered, idle, polled, enumerated, listed} \subseteq BOOLEAN)'
      BY <1>4 DEF HotplugCb
    <3>3. run' <= 1 /\ (run' = 1 => disposals' = 0)
      BY <3>1, <1>4 DEF HotplugCb
    <3>4. queue' \in 0 .. MaxQueue
      BY <1>4 DEF HotplugCb
    <3>5. TypeOK'
      BY <3>1, <3>2, <3>3, <3>4, <1>4 DEF HotplugCb
    <3> QED
      BY <3>1, <3>5
  <2>2. SetupOK' /\ ThreadOK' /\ DisposeOK' /\ TaskOK' /\ NothingDispatched'
    BY <1>4 DEF HotplugCb
  <2> QED
    BY <2>1, <2>2
<1>5. CASE TransferCb
  BY <1>5 DEF TransferCb
<1> QED
  BY <1>1, <1>2, <1>3, <1>4, <1>5 DEF EventThread

\* What the main thread does before dispose.
LEMMA MainStep ==
  LifeInv /\ (Loop \/ RescanCb \/ Enumerate \/ Submit \/ Unref \/ RunDispose) => LifeInv'
<1> SUFFICES ASSUME LifeInv, Loop \/ RescanCb \/ Enumerate \/ Submit \/ Unref \/ RunDispose
             PROVE  LifeInv'
  OBVIOUS
<1> USE DEF LifeInv, TypeInv, TypeOK, SetupOK, ThreadOK, DisposeOK, TaskOK, NothingDispatched,
            Steps, Alone, Disposing, setup, libusb, sources, context, work, dying, MainFree, Usable
<1>1. CASE IdleHotplugCb
  <2>1. TypeInv'
    <3>1. dispose' \in [by : {Main, Events, None}, step : Steps] /\ disposals' \in Nat /\ run' \in Int
      BY <1>1, DroppedCases DEF IdleHotplugCb, Held
    <3>2. ({hotplug, app, registered, idle, polled, enumerated, listed} \subseteq BOOLEAN)'
      BY <1>1, DroppedCases DEF IdleHotplugCb, Held
    <3>3. run' <= 1 /\ (run' = 1 => disposals' = 0)
      BY <3>1, <1>1, DroppedCases DEF IdleHotplugCb, Held
    <3>4. queue' \in 0 .. MaxQueue
      BY <1>1, DroppedCases DEF IdleHotplugCb, Held
    <3>5. TypeOK'
      BY <3>1, <3>2, <3>3, <3>4, <1>1, DroppedCases DEF IdleHotplugCb, Held
    <3> QED
      BY <3>1, <3>5
  <2>2. SetupOK' /\ ThreadOK' /\ DisposeOK' /\ TaskOK' /\ NothingDispatched'
    BY <1>1, DroppedCases DEF IdleHotplugCb, Held
  <2> QED
    BY <2>1, <2>2
<1>2. CASE RescanCb
  BY <1>2, DroppedCases DEF RescanCb, Held
<1>3. CASE TransferReturn
  BY <1>3, DroppedCases DEF TransferReturn, Held
<1>4. CASE Enumerate
  BY <1>4 DEF Enumerate
<1>5. CASE Submit
  BY <1>5 DEF Submit
<1>6. CASE Unref
  <2>1. TypeInv'
    <3>1. dispose' \in [by : {Main, Events, None}, step : Steps] /\ disposals' \in Nat /\ run' \in Int
      BY <1>6, DroppedCases DEF Unref
    <3>2. TypeOK'
      BY <3>1, <1>6, DroppedCases DEF Unref
    <3> QED
      BY <3>1, <3>2
  <2>2. SetupOK' /\ ThreadOK' /\ DisposeOK' /\ TaskOK' /\ NothingDispatched'
    BY <1>6, DroppedCases DEF Unref
  <2> QED
    BY <2>1, <2>2
<1>7. CASE RunDispose
  BY <1>7 DEF RunDispose
<1> QED
  BY <1>1, <1>2, <1>3, <1>4, <1>5, <1>6, <1>7 DEF Loop

\* g_usb_context_dispose.
LEMMA DisposeStep == LifeInv /\ Dispose => LifeInv'
<1> SUFFICES ASSUME LifeInv, Dispose PROVE LifeInv'
  OBVIOUS
<1> USE DEF LifeInv, TypeInv, TypeOK, SetupOK, ThreadOK, DisposeOK, TaskOK, NothingDispatched,
            Steps, Alone, Disposing, setup, libusb, sources, context, work, At, GoTo
<1>1. CASE DisposeStop
  <2>1. TypeInv'
    <3>1. dispose' \in [by : {Main, Events, None}, step : Steps] /\ disposals' \in Nat /\ run' \in Int
      BY <1>1 DEF DisposeStop
    <3>2. ({hotplug, app, registered, idle, polled, enumerated, listed} \subseteq BOOLEAN)'
      BY <1>1 DEF DisposeStop
    <3>3. run' <= 1 /\ (run' = 1 => disposals' = 0)
      BY <3>1, <1>1 DEF DisposeStop
    <3>4. queue' \in 0 .. MaxQueue
      BY <1>1 DEF DisposeStop
    <3>5. TypeOK'
      BY <3>1, <3>2, <3>3, <3>4, <1>1 DEF DisposeStop
    <3> QED
      BY <3>1, <3>5
  <2>2. SetupOK' /\ ThreadOK' /\ DisposeOK' /\ TaskOK' /\ NothingDispatched'
    BY <1>1 DEF DisposeStop
  <2> QED
    BY <2>1, <2>2
<1>2. CASE DisposeJoin
  BY <1>2 DEF DisposeJoin
<1>3. CASE DisposeSources
  BY <1>3 DEF DisposeSources
<1>4. CASE DisposeClear
  BY <1>4 DEF DisposeClear
<1>5. CASE DisposeExit
  BY <1>5 DEF DisposeExit
<1>6. CASE DisposeEnd
  BY <1>6 DEF DisposeEnd
<1> QED
  BY <1>1, <1>2, <1>3, <1>4, <1>5, <1>6 DEF Dispose

\* Every step keeps the invariant.
LEMMA LifeNext == LifeInv /\ [Next]_vars => LifeInv'
<1>1. LifeInv /\ UNCHANGED vars => LifeInv'
  BY DEF LifeInv, TypeInv, TypeOK, SetupOK, ThreadOK, DisposeOK, TaskOK, NothingDispatched, Steps,
         Alone, Disposing, vars, setup, libusb, sources, context, work, dying
<1> QED
  BY <1>1, InitialiseStep, ThreadStep, MainStep, DisposeStep DEF Next

-----------------------------------------------------------------------------
\* The types hold, and dispose stops the event thread at most once, whatever the
\* number of events and transfers and however often dispose is run.
THEOREM LifecycleTypes == Spec => []TypeOK
<1>1. LifeInv => TypeOK
  BY DEF LifeInv, TypeInv
<1> QED
  BY <1>1, LifeInit, LifeNext, PTL DEF Spec

\* Nothing that the event thread runs meets a libusb context that is not there, nor
\* is the hotplug callback left registered with one.
THEOREM ThreadAlwaysHasLibusb == Spec => []ThreadHasLibusb
<1>1. LifeInv => ThreadHasLibusb
  BY DEF LifeInv, ThreadOK, ThreadHasLibusb, Alone
<1> QED
  BY <1>1, LifeInit, LifeNext, PTL DEF Spec

\* After dispose there is no source and no event of the context, and none comes.
THEOREM NothingIsDispatched == Spec => []NothingDispatched
<1>1. LifeInv => NothingDispatched
  BY DEF LifeInv
<1> QED
  BY <1>1, LifeInit, LifeNext, PTL DEF Spec

\* The event thread starts dispose only from the end of a transfer callback, when the
\* application, the list and the queue hold nothing and the main thread was told.
THEOREM SelfJoinOnlyLate == Spec => SelfJoinIsLate
<1> DEFINE Late == dispose.by # Events /\ dispose.by' = Events =>
             thread = "unref" /\ transfer = "none" /\ task = {Events} /\ ~app /\ ~listed /\ queue = 0
<1>1. LifeInv /\ [Next]_vars => [Late]_vars
  <2> SUFFICES ASSUME LifeInv, Next, dispose.by # Events, dispose.by' = Events PROVE Late
    OBVIOUS
  <2>1. CASE TransferCbReturn
    <3>1. app' = app /\ queue' = queue /\ listed' = listed
      BY <2>1 DEF TransferCbReturn, setup, context
    <3>2. ~app /\ ~(queue > 0) /\ ~listed /\ task' = {}
      BY <2>1, <3>1, DroppedCases DEF TransferCbReturn, Held, Alive
    <3>3. task = {Events} /\ thread = "unref" /\ transfer \in {"none", "through"}
      BY <2>1, <3>2 DEF TransferCbReturn, Running, LifeInv, TypeInv, TypeOK, TaskOK
    <3>4. transfer = "none"
      BY <3>3 DEF LifeInv, TaskOK
    <3> QED
      BY <3>2, <3>3, <3>4 DEF LifeInv, TypeInv, TypeOK
  <2>2. CASE ~TransferCbReturn
    <3>1. CASE LibusbInit \/ IdleHotplugCb \/ TransferReturn \/ RescanCb \/ Unref
      BY <3>1, DroppedCases DEF LibusbInit, IdleHotplugCb, TransferReturn, RescanCb, Unref
    <3>2. CASE Dispose
      BY <3>2 DEF Dispose, DisposeStop, DisposeJoin, DisposeSources, DisposeClear, DisposeExit,
                  DisposeEnd, GoTo, LifeInv, TypeInv
    <3>3. CASE RunDispose
      BY <3>3 DEF RunDispose
    <3>4. CASE \/ StartThread \/ Register \/ ThreadCheck \/ ThreadHandled \/ HotplugCb
               \/ TransferCb \/ Enumerate \/ Submit
      BY <3>4 DEF StartThread, Register, ThreadCheck, ThreadHandled, HotplugCb, TransferCb,
                  Enumerate, Submit, dying
    <3> QED
      BY <2>2, <3>1, <3>2, <3>3, <3>4 DEF Next, Initialise, EventThread, Loop
  <2> QED
    BY <2>1, <2>2
<1> QED
  BY <1>1, LifeInit, LifeNext, PTL DEF Spec, SelfJoinIsLate
=============================================================================
