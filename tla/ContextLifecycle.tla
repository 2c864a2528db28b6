--------------------------- MODULE ContextLifecycle ---------------------------
(***************************************************************************)
(* How a GUsbContext comes and goes (src/gusb/gusb-context.c): it is       *)
(* initialised, its event thread works for it, and it is disposed of when  *)
(* the last reference goes away, in whichever thread that is, or when the  *)
(* application runs its dispose function.                                  *)
(*                                                                         *)
(* References are held by the application, by the hotplug events in the    *)
(* queue, and by the device, which is alive while it is listed or has a    *)
(* transfer whose task is not through.  What the queue does to the list is *)
(* the matter of GUsbContext: here a dispatch leaves the device listed or  *)
(* not.                                                                    *)
(***************************************************************************)
EXTENDS Integers, FiniteSets

CONSTANTS Main, Events, None,  \* the threads
          MaxQueue,            \* bound: hotplug events that wait
          MaxTransfers         \* bound: transfers that are ever submitted

ASSUME LifecycleAssumption ==
  /\ Main # Events /\ None \notin {Main, Events}
  /\ {MaxQueue, MaxTransfers} \subseteq Nat

VARIABLES hotplug,     \* LIBUSB_CAP_HAS_HOTPLUG
          app,         \* the application holds a reference
          ready,       \* initable_init went this far: none, init, thread, done or failed
          run,         \* priv->thread_event_run
          ctx,         \* priv->ctx: Null, live or exited
          thread,      \* the event thread: none, check, handle, unref or ended
          registered,  \* the hotplug callback is registered
          queue,       \* how many events are in priv->idle_events
          idle,        \* priv->idle_events_id # 0
          polled,      \* priv->hotplug_poll_id # 0
          enumerated,  \* priv->done_enumerate
          listed,      \* the device is on priv->devices
          transfer,    \* none, inflight, through, or lost with libusb
          task,        \* the threads that hold a reference of its task
          submitted,   \* how many transfers were submitted
          dispose,     \* the thread that runs dispose and how far it is
          disposals    \* history: how often dispose was run to its end

setup == <<hotplug, app, ready>>
libusb == <<run, ctx, thread, registered>>
sources == <<idle, polled>>
context == <<queue, sources, enumerated, listed>>
work == <<transfer, task, submitted>>
dying == <<dispose, disposals>>
vars == <<setup, libusb, context, work, dying>>

-----------------------------------------------------------------------------
(* References.                                                             *)

Alive(isListed, tasks) == isListed \/ tasks # {}

\* Whether anything holds a reference of the context.
Held(isApp, count, isListed, tasks) == isApp \/ count > 0 \/ Alive(isListed, tasks)

Disposing == dispose.by # None

\* Thread t dropped references; if they were the last it runs dispose.
Dropped(t) ==
  /\ dispose' = IF ~Held(app', queue', listed', task') /\ ~Disposing
                THEN [by |-> t, step |-> "stop"] ELSE dispose
  /\ UNCHANGED disposals

\* The main thread may run something else: it does not dispose.
MainFree == dispose.by # Main

\* The application has the context, which was initialised.
Usable == MainFree /\ app /\ ready = "done" /\ disposals = 0

-----------------------------------------------------------------------------
(* g_usb_context_initable_init, in the main thread.                        *)

LibusbInit ==
  /\ ready = "none"
  /\ \/ ready' = "failed" /\ app' = FALSE /\ UNCHANGED ctx
     \/ ready' = "init" /\ ctx' = "live" /\ UNCHANGED app
  /\ UNCHANGED <<hotplug, run, thread, registered, context, work>>
  /\ Dropped(Main)

StartThread ==
  /\ ready = "init"
  /\ ready' = "thread" /\ run' = 1 /\ thread' = "check"
  /\ UNCHANGED <<hotplug, app, ctx, registered, context, work, dying>>

\* Registering may fail; then the context goes without.
Register ==
  /\ ready = "thread"
  /\ ready' = "done"
  /\ registered' \in IF hotplug THEN BOOLEAN ELSE {FALSE}
  /\ UNCHANGED <<hotplug, app, run, ctx, thread, context, work, dying>>

-----------------------------------------------------------------------------
(* g_usb_context_event_thread_cb.                                          *)

\* The event thread does not dispose itself.
Running(step) == thread = step /\ dispose.by # Events

ThreadCheck ==
  /\ Running("check")
  /\ thread' = IF run > 0 THEN "handle" ELSE "ended"
  /\ UNCHANGED <<setup, run, ctx, registered, context, work, dying>>

\* libusb returns after two seconds, or when a callback is deregistered.
ThreadHandled ==
  /\ Running("handle")
  /\ thread' = "check"
  /\ UNCHANGED <<setup, run, ctx, registered, context, work, dying>>

\* hotplug_cb takes a reference, although dispose may be under way.
HotplugCb ==
  /\ Running("handle") /\ registered /\ queue < MaxQueue
  /\ IF enumerated
     THEN queue' = queue + 1 /\ idle' = TRUE
     ELSE UNCHANGED <<queue, idle>>
  /\ UNCHANGED <<setup, libusb, polled, enumerated, listed, work, dying>>

\* Mutant of TransferCb: the main thread is told without a reference.
TransferCbBare ==
  /\ Running("handle") /\ transfer = "inflight"
  /\ transfer' = "through" /\ task' = task
  /\ thread' = "unref"
  /\ UNCHANGED <<setup, run, ctx, registered, context, submitted, dying>>

\* The callback of the transfer gives the main thread a reference of the task.
TransferCb ==
  /\ Running("handle") /\ transfer = "inflight"
  /\ transfer' = "through" /\ task' = task \cup {Main}
  /\ thread' = "unref"
  /\ UNCHANGED <<setup, run, ctx, registered, context, submitted, dying>>

\* And drops its own, which may be the last one by now.
TransferCbReturn ==
  /\ Running("unref")
  /\ task' = task \ {Events}
  /\ thread' = "handle"
  /\ UNCHANGED <<setup, run, ctx, registered, context, transfer, submitted>>
  /\ Dropped(Events)

-----------------------------------------------------------------------------
(* The main thread.                                                        *)

\* g_usb_context_enumerate; a platform without hotplug events is polled.
Enumerate ==
  /\ Usable /\ ~enumerated
  /\ enumerated' = TRUE /\ polled' = ~hotplug
  /\ listed' \in BOOLEAN
  /\ UNCHANGED <<setup, libusb, queue, idle, work, dying>>

\* idle_hotplug_cb empties the queue; its copies hold the context until it returns.
IdleHotplugCb ==
  /\ MainFree /\ idle
  /\ idle' = FALSE /\ queue' = 0
  /\ listed' \in BOOLEAN
  /\ UNCHANGED <<setup, libusb, polled, enumerated, work>>
  /\ Dropped(Main)

RescanCb ==
  /\ MainFree /\ polled
  /\ listed' \in BOOLEAN
  /\ UNCHANGED <<setup, libusb, queue, sources, enumerated, work>>
  /\ Dropped(Main)

Submit ==
  /\ Usable /\ listed /\ transfer = "none" /\ task = {} /\ submitted < MaxTransfers
  /\ transfer' = "inflight" /\ task' = {Events} /\ submitted' = submitted + 1
  /\ UNCHANGED <<setup, libusb, context, dying>>

\* The main thread is told and drops its reference of the task.
TransferReturn ==
  /\ MainFree /\ transfer = "through" /\ Main \in task
  /\ task' = task \ {Main}
  /\ transfer' = "none"
  /\ UNCHANGED <<setup, libusb, context, submitted>>
  /\ Dropped(Main)

\* The application drops the context.
Unref ==
  /\ MainFree /\ app /\ ready = "done"
  /\ app' = FALSE
  /\ UNCHANGED <<hotplug, ready, libusb, context, work>>
  /\ Dropped(Main)

\* g_object_run_dispose
RunDispose ==
  /\ Usable /\ ~Disposing
  /\ dispose' = [by |-> Main, step |-> "stop"]
  /\ UNCHANGED <<setup, libusb, context, work, disposals>>

-----------------------------------------------------------------------------
(* g_usb_context_dispose, in the thread that runs it.                      *)

At(step) == Disposing /\ dispose.step = step

GoTo(step) == dispose' = [dispose EXCEPT !.step = step] /\ UNCHANGED disposals

\* Mutant of DisposeStop: the flag that the thread looks at stays as it is.
DisposeStopDeaf ==
  /\ At("stop")
  /\ run' = run
  /\ IF run = 1
     THEN registered' = FALSE /\ GoTo("join")
     ELSE UNCHANGED registered /\ GoTo("sources")
  /\ UNCHANGED <<setup, ctx, thread, context, work>>

\* Mutant of DisposeStop: the thread is left alone.
DisposeStopNot ==
  /\ At("stop")
  /\ run' = run
  /\ registered' = FALSE
  /\ GoTo("sources")
  /\ UNCHANGED <<setup, ctx, thread, context, work>>

\* Only the first time the flag becomes 0.
DisposeStop ==
  /\ At("stop")
  /\ run' = run - 1
  /\ IF run = 1
     THEN registered' = FALSE /\ GoTo("join")
     ELSE UNCHANGED registered /\ GoTo("sources")
  /\ UNCHANGED <<setup, ctx, thread, context, work>>

\* Mutant of DisposeJoin: the thread is told to end but not waited for.
DisposeJoinNot ==
  /\ At("join")
  /\ GoTo("sources")
  /\ UNCHANGED <<setup, libusb, context, work>>

\* g_thread_join; the event thread never joins itself.
DisposeJoin ==
  /\ At("join") /\ thread = "ended"
  /\ GoTo("sources")
  /\ UNCHANGED <<setup, libusb, context, work>>

\* Mutant of DisposeSources: the idle source is left.
DisposeSourcesPoll ==
  /\ At("sources")
  /\ idle' = idle /\ polled' = FALSE
  /\ GoTo("clear")
  /\ UNCHANGED <<setup, libusb, queue, enumerated, listed, work>>

DisposeSources ==
  /\ At("sources")
  /\ idle' = FALSE /\ polled' = FALSE
  /\ GoTo("clear")
  /\ UNCHANGED <<setup, libusb, queue, enumerated, listed, work>>

\* The lists go.
DisposeClear ==
  /\ At("clear")
  /\ listed' = FALSE
  /\ GoTo("exit")
  /\ UNCHANGED <<setup, libusb, queue, sources, enumerated, work>>

\* libusb_exit, with what is in flight; then the queue goes.
DisposeExit ==
  /\ At("exit")
  /\ ctx' = IF ctx = "live" THEN "exited" ELSE ctx
  /\ transfer' = IF transfer = "inflight" THEN "lost" ELSE transfer
  /\ GoTo("queue")
  /\ UNCHANGED <<setup, run, thread, registered, context, task, submitted>>

DisposeEnd ==
  /\ At("queue")
  /\ queue' = 0
  /\ dispose' = [by |-> None, step |-> "stop"]
  /\ disposals' = disposals + 1
  /\ UNCHANGED <<setup, libusb, sources, enumerated, listed, work>>

-----------------------------------------------------------------------------
Init ==
  /\ hotplug \in BOOLEAN
  /\ app = TRUE /\ ready = "none" /\ run = 0 /\ ctx = "none"
  /\ thread = "none" /\ registered = FALSE
  /\ queue = 0 /\ idle = FALSE /\ polled = FALSE /\ enumerated = FALSE
  /\ listed = FALSE /\ transfer = "none" /\ task = {} /\ submitted = 0
  /\ dispose = [by |-> None, step |-> "stop"] /\ disposals = 0

EventThread == ThreadCheck \/ ThreadHandled \/ TransferCbReturn
Dispose == DisposeStop \/ DisposeJoin \/ DisposeSources \/ DisposeClear \/ DisposeExit \/ DisposeEnd
Initialise == LibusbInit \/ StartThread \/ Register
Loop == IdleHotplugCb \/ TransferReturn

Next ==
  \/ Initialise \/ EventThread \/ HotplugCb \/ TransferCb
  \/ Loop \/ RescanCb
  \/ Enumerate \/ Submit \/ Unref \/ RunDispose
  \/ Dispose

\* The threads run; libusb returns from its wait, and goes on to check the flag.
Spec == Init /\ [][Next]_vars /\ WF_vars(ThreadCheck) /\ WF_vars(TransferCbReturn)
             /\ WF_vars(ThreadHandled) /\ WF_vars(Dispose)

-----------------------------------------------------------------------------
(* Properties.                                                             *)

\* Types of the state: dispose may run several times, also of a context whose
\* initialisation failed, but stops the thread at most once.
TypeOK ==
  /\ {hotplug, app, registered, idle, polled, enumerated, listed} \subseteq BOOLEAN
  /\ ready \in {"none", "init", "thread", "done", "failed"}
  /\ run <= 1 /\ (run = 1 => disposals = 0)
  /\ ctx \in {"none", "live", "exited"}
  /\ thread \in {"none", "check", "handle", "unref", "ended"}
  /\ queue \in 0 .. MaxQueue
  /\ transfer \in {"none", "inflight", "through", "lost"}
  /\ task \subseteq {Main, Events}
  /\ submitted \in 0 .. MaxTransfers
  /\ dispose.by \in {Main, Events, None}
  /\ dispose.step \in {"stop", "join", "sources", "clear", "exit", "queue"}

\* The event thread only ever runs libusb, and the callbacks libusb calls there, on a
\* libusb context that is there: dispose calls libusb_exit after the thread ended.
ThreadHasLibusb ==
  /\ thread \in {"handle", "unref"} => ctx = "live"
  /\ registered => ctx = "live"

\* "Never dispatch idle events after the context has been destroyed" (NEWS, 0.4.0):
\* once dispose is through, no source of the context is left, no event is queued, and
\* neither comes again, although the event thread may queue an event and attach the
\* source until it is joined.
NothingDispatched ==
  disposals > 0 /\ ~Disposing => ~idle /\ ~polled /\ queue = 0 /\ ~listed

\* The event thread runs dispose, and joins itself, only if the main thread was told of
\* the transfer and is through with it, and nothing else holds the context: the task
\* that g_task_return gives the main thread keeps it until then.
SelfJoinIsLate ==
  [][dispose.by # Events /\ dispose.by' = Events =>
       thread = "unref" /\ transfer = "none" /\ task = {Events} /\ ~app /\ ~listed /\ queue = 0]_vars

\* dispose ends if the main thread runs it: the event thread sees the flag, even if
\* it is about to queue an event or to finish a transfer.
DisposeEnds == dispose.by = Main ~> dispose.by # Main
=============================================================================
