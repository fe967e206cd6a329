--------------------------- MODULE CloudSpyPlugin ---------------------------
(***************************************************************************)
(* The plugin around a promise: the instances the browser makes of it      *)
(* (zed/bindings/cloud-spy/cloud-spy-plugin.cpp) and the root object of    *)
(* each, on which a page's script calls methods, reads properties and      *)
(* listens to events (cloud-spy-object.cpp).                               *)
(*                                                                         *)
(* The browser's thread attaches sources to the main context, and waits    *)
(* for them when it reads a property, destroys an instance or shuts the    *)
(* plugin down; the main loop's thread dispatches them by priority and     *)
(* calls back with pluginthreadasynccall.  CloudSpyPromise is the promise  *)
(* of one method call on the root of Caller.                               *)
(*                                                                         *)
(* An event comes from a device the root has listed, through a closure     *)
(* that refers to the root without a reference and that nothing            *)
(* disconnects.  Of the devices of each root one is followed, any of them; *)
(* CloudSpyRoot is about the whole list (cloud-spy-root.vala).             *)
(***************************************************************************)
EXTENDS CloudSpyPromise

CONSTANTS
    Instances,  \* the NPPs
    Caller,     \* the instance on whose root the method was called
    Listeners,  \* a bound on the instances whose page listens, then asks for devices
    MaxEvents   \* a bound on the events on their way to it

ASSUME CallerIsAnInstance == Caller \in Instances
ASSUME NoneIsNoInstance == None \notin Instances
ASSUME ListenersAreInstances == Listeners \subseteq Instances
ASSUME MaxEventsIsNat == MaxEvents \in Nat

VARIABLES
    roots,      \* cloud_spy_plugin_roots: "unborn" and "gone" instances have no
                \* entry, others the value NULL, "empty", or a "root"
    logger,     \* cloud_spy_logging_instance
    objects,    \* the reference counts of the roots
    held,       \* instances to whose root the page's script refers
    listening,  \* roots with a closure connected to a signal
    events,     \* events sent to the browser's thread and not handled there
    device,     \* a device of each root: "none" before it opens or when it is closed,
                \* "listed", "closing" for the destroy, or a "stray", which may go on
                \* emitting and nobody is going to wait for
    posted,     \* the sources attached to cloud_spy_main_context
    destroying, \* instances whose root's coroutine destroy is under way
    wait,       \* what the browser's thread waits for
    completed,  \* the field of the context it waits for, while it waits
    loop        \* cloud_spy_main_loop: "running", "stopped", "freed"; or "wild", when
                \* a closure has used a root that was freed: of what may come of that
                \* the model takes one outcome, that the loop does no more

promise == <<result, method, waiting, stack, calls, invocation, flush,
             scriptHolds, refs>>
table == <<roots, logger>>
page == <<held, listening, events, device>>
threads == <<posted, destroying, wait, completed, loop>>
pluginVars == <<promise, table, objects, page, threads>>

Nothing == [job |-> "nothing", of |-> None]

\* cloud_spy_object_invoke has made the promise and attached do_invoke.
Invocation == [job |-> "invoke", of |-> Caller]

\* The plugin is initialised, Caller's script has got its root and called a method
\* on it: the table, the script and the promise each refer to the root.
PluginInit ==
    /\ Init
    /\ roots = [i \in Instances |-> IF i = Caller THEN "root" ELSE "unborn"]
    /\ logger = Caller
    /\ objects = [i \in Instances |-> IF i = Caller THEN 3 ELSE 0]
    /\ held = {Caller} /\ listening = {}
    /\ events = [i \in Instances |-> 0]
    /\ device = [i \in Instances |-> "none"]
    /\ posted = {Invocation}
    /\ destroying = {}
    /\ wait = Nothing /\ completed = FALSE
    /\ loop = "running"

-----------------------------------------------------------------------------
(* Pieces of the handlers.  A definition whose name starts with "Mutant" is *)
(* a bug this code does not have; it stands in for the definition after it *)
(* when the sensitivity of a property is tested.                           *)

Live(i) == roots[i] \in {"empty", "root"}

\* The root's references: those it has or, when createobject has just made it for
\* the table, one.
References(i) == IF roots[i] = "empty" THEN 1 ELSE objects[i]

\* retainobject on the root, for the script that asked for it.
RetainedFor(i) == References(i) + 1

\* What the table holds when cloud_spy_deinit_logging chooses a replacement.
Remaining(i) == {j \in Instances : Live(j)} \ {i}

MutantIsCompleted == FALSE
\* ctx->completed = TRUE, under the lock, before g_cond_signal.
IsCompleted == TRUE

\* Sources of G_PRIORITY_HIGH; the others are of G_PRIORITY_LOW.
High == {"invoke", "get"}

\* The browser's thread is back in its event loop; the main loop's is between two
\* callbacks.
EventLoop == wait = Nothing /\ stack = <<>> /\ flush # "running"
MainLoop == loop = "running" /\ invocation \notin {"delivered", "scheduled"}

\* The page's script runs, and may call the object of a live instance.
MayCall(i) == wait = Nothing /\ ScriptRuns /\ Live(i)

\* The main loop has begun the destroy of the root, and may have ended it.
DestroyBegun(i) ==
    \/ wait = [job |-> "destroy", of |-> i] /\ wait \notin posted
    \/ roots[i] = "gone"

MutantWatched(i) == FALSE
\* The root's destroy closes each device it has listed, and waits for it.
Watched(i) == device[i] \in {"listed", "closing"}

\* The main loop gets to a source: one of low priority only when none of high
\* priority is attached.
Dispatch(job, i) ==
    /\ MainLoop
    /\ [job |-> job, of |-> i] \in posted
    /\ job \in High \/ \A s \in posted : s.job \notin High
    /\ posted' = posted \ {[job |-> job, of |-> i]}

\* The browser's thread attaches a source and waits for its completion.
PostAndWait(job, i) ==
    /\ posted' = posted \cup {[job |-> job, of |-> i]}
    /\ wait' = [job |-> job, of |-> i]
    /\ completed' = FALSE

\* cloud_spy_promise_deallocate releases the root the promise was made for.
PromiseReleases ==
    objects' = [objects EXCEPT ![Caller] = IF refs > 0 /\ refs' = 0 THEN @ - 1
                                           ELSE @]

-----------------------------------------------------------------------------
(* Instances.                                                              *)

\* NPP_New.
PluginNew(i) ==
    /\ EventLoop /\ loop = "running" /\ roots[i] = "unborn"
    /\ roots' = [roots EXCEPT ![i] = "empty"]
    /\ logger' = IF logger = None THEN i ELSE logger
    /\ UNCHANGED <<promise, objects, page, threads>>

\* NPP_GetValue: the root is made when it is first asked for.
PluginGetValue(i) ==
    /\ MayCall(i) /\ i \notin held
    /\ roots' = [roots EXCEPT ![i] = "root"]
    /\ objects' = [objects EXCEPT ![i] = RetainedFor(i)]
    /\ held' = held \cup {i}
    /\ UNCHANGED <<promise, logger, listening, events, device, threads>>

\* The entry is removed and the logging passed on; the browser makes no call for the
\* instance any more.  The root's closures stay connected.
Removed(i) ==
    /\ roots' = [roots EXCEPT ![i] = "gone"]
    /\ IF logger # i THEN UNCHANGED logger
       ELSE IF Remaining(i) = {} THEN logger' = None
       ELSE logger' \in Remaining(i)
    /\ events' = [events EXCEPT ![i] = 0]
    /\ UNCHANGED <<promise, held, listening, device>>

\* NPP_Destroy: nothing is to be waited for when there is no root.
PluginDestroy(i) ==
    /\ EventLoop
    /\ \/ /\ roots[i] = "empty"
          /\ Removed(i)
          /\ UNCHANGED <<objects, threads>>
       \/ /\ roots[i] = "root"
          /\ PostAndWait("destroy", i)
          /\ UNCHANGED <<promise, table, objects, page, destroying, loop>>

\* cloud_spy_object_do_destroy begins the root's destroy.
DoDestroy(i) ==
    /\ Dispatch("destroy", i)
    /\ destroying' = destroying \cup {i}
    /\ UNCHANGED <<promise, table, objects, page, wait, completed, loop>>

\* The root's destroy begins to close the device, and goes on when that is closed.
DestroyCloses(i) ==
    /\ MainLoop /\ i \in destroying /\ device[i] = "listed"
    /\ device' = [device EXCEPT ![i] = "closing"]
    /\ UNCHANGED <<promise, table, objects, held, listening, events, threads>>

DestroyClosed(i) ==
    /\ MainLoop /\ device[i] = "closing"
    /\ device' = [device EXCEPT ![i] = "none"]
    /\ UNCHANGED <<promise, table, objects, held, listening, events, threads>>

\* cloud_spy_object_destroy_ready, once the root's destroy has ended.
DestroyReady(i) ==
    /\ MainLoop /\ i \in destroying /\ ~Watched(i)
    /\ destroying' = destroying \ {i}
    /\ completed' = IsCompleted
    /\ UNCHANGED <<promise, table, objects, page, posted, wait, loop>>

\* NPP_Destroy goes on.
DestroyReturns(i) ==
    /\ wait = [job |-> "destroy", of |-> i] /\ completed
    /\ Removed(i)
    /\ objects' = [objects EXCEPT ![i] = @ - 1]
    /\ wait' = Nothing /\ completed' = FALSE
    /\ UNCHANGED <<posted, destroying, loop>>

-----------------------------------------------------------------------------
(* Roots.                                                                  *)

\* cloud_spy_object_get_property.
GetProperty(i) ==
    /\ MayCall(i) /\ i \in held
    /\ PostAndWait("get", i)
    /\ UNCHANGED <<promise, table, objects, page, destroying, loop>>

\* cloud_spy_object_do_get_property.
DoGetProperty(i) ==
    /\ Dispatch("get", i)
    /\ completed' = IsCompleted
    /\ UNCHANGED <<promise, table, objects, page, destroying, wait, loop>>

GetPropertyReturns ==
    /\ wait.job = "get" /\ completed
    /\ wait' = Nothing /\ completed' = FALSE
    /\ UNCHANGED <<promise, table, objects, page, posted, destroying, loop>>

\* cloud_spy_object_add_event_listener.
AddEventListener(i) ==
    /\ MayCall(i) /\ i \in (held \cap Listeners) \ listening
    /\ listening' = listening \cup {i}
    /\ UNCHANGED <<promise, table, objects, held, events, device, threads>>

\* A signal is emitted and cloud_spy_closure_marshal passes it on, with what it finds
\* in the root; the browser makes no call for an instance that is gone.
SignalEmitted(i) ==
    /\ MainLoop /\ i \in listening /\ device[i] \in {"listed", "closing", "stray"}
    /\ IF Live(i) THEN /\ events[i] < MaxEvents
                       /\ events' = [events EXCEPT ![i] = @ + 1]
                       /\ UNCHANGED loop
       ELSE /\ objects[i] = 0
            /\ loop' = "wild"
            /\ UNCHANGED events
    /\ UNCHANGED <<promise, table, objects, held, listening, device, posted,
                   destroying, wait, completed>>

\* cloud_spy_closure_invoke.
ClosureInvoke(i) ==
    /\ EventLoop /\ events[i] > 0
    /\ events' = [events EXCEPT ![i] = @ - 1]
    /\ UNCHANGED <<promise, table, objects, held, listening, device, threads>>

\* A call of the page opens a device and the root lists it: ensure_devices.
DeviceListed(i) ==
    /\ MainLoop /\ i \in listening /\ roots[i] = "root" /\ ~DestroyBegun(i)
    /\ device[i] = "none"
    /\ device' = [device EXCEPT ![i] = "listed"]
    /\ UNCHANGED <<promise, table, objects, held, listening, events, threads>>

\* A device is unplugged: its close is begun and not waited for, and it is listed no
\* more.  (Unplugged under the destroy's walk of the list it is CloudSpyRoot's.)
DeviceUnplugged(i) ==
    /\ MainLoop /\ device[i] = "listed" /\ ~DestroyBegun(i)
    /\ device' = [device EXCEPT ![i] = "stray"]
    /\ UNCHANGED <<promise, table, objects, held, listening, events, threads>>

\* The method that was called is still under way when the root's destroy has begun, and
\* opens a device, or an agent of one, behind its back.
DeviceStrays ==
    /\ MainLoop /\ invocation = "working" /\ Invocation \notin posted
    /\ Caller \in listening /\ DestroyBegun(Caller)
    /\ device[Caller] = "none"
    /\ device' = [device EXCEPT ![Caller] = "stray"]
    /\ UNCHANGED <<promise, table, objects, held, listening, events, threads>>

\* The script's reference to a root is collected.
ScriptDropsRoot(i) ==
    /\ EventLoop /\ i \in held
    /\ held' = held \ {i}
    /\ objects' = [objects EXCEPT ![i] = @ - 1]
    /\ UNCHANGED <<promise, table, listening, events, device, threads>>

-----------------------------------------------------------------------------
(* The promise of the method that was called.                              *)

\* cloud_spy_object_do_invoke: the dispatcher calls the method.
DoInvoke ==
    /\ Dispatch("invoke", Caller)
    /\ UNCHANGED <<promise, table, objects, page, destroying, wait, completed,
                   loop>>

\* The method has ended: the dispatcher passes its reply or its error on.
MethodEnds == Invocation \notin posted /\ \E r \in Results : Deliver(r)

\* cloud_spy_object_invoke_ready runs to its end.
Invoked ==
    /\ loop = "running"
    /\ MethodEnds \/ ScheduleFlush \/ ReleaseContext
    /\ PromiseReleases
    /\ UNCHANGED <<table, page, threads>>

\* The page hangs callbacks and the browser runs them, as long as the instance
\* lives; a flush that is scheduled for one that is gone is not made.
PromiseCalled ==
    /\ wait = Nothing /\ Live(Caller)
    /\ \/ \E k \in Callbacks : \E m \in Methods : Hang(k, m)
       \/ Flush
    /\ UNCHANGED <<table, objects, page, threads>>

PromiseRuns ==
    /\ wait = Nothing
    /\ (\E k \in Callbacks : InvokeCallback(k)) \/ CallbackReturns \/ FlushEnds
    /\ PromiseReleases
    /\ UNCHANGED <<table, page, threads>>

ScriptDropsPromise ==
    /\ wait = Nothing /\ ScriptDrops
    /\ PromiseReleases
    /\ UNCHANGED <<table, page, threads>>

-----------------------------------------------------------------------------
(* The end.                                                                *)

\* NP_Shutdown, which the browser calls when no instance and no page is left.
Shutdown ==
    /\ EventLoop /\ loop = "running"
    /\ held = {} /\ ~scriptHolds /\ \A i \in Instances : ~Live(i)
    /\ PostAndWait("quit", None)
    /\ UNCHANGED <<promise, table, objects, page, destroying, loop>>

\* cloud_spy_stop_main_loop.
StopMainLoop ==
    /\ Dispatch("quit", None)
    /\ loop' = "stopped"
    /\ UNCHANGED <<promise, table, objects, page, destroying, wait, completed>>

\* g_thread_join returns and everything is freed.
ShutdownReturns ==
    /\ wait.job = "quit" /\ loop = "stopped"
    /\ loop' = "freed"
    /\ wait' = Nothing
    /\ UNCHANGED <<promise, table, objects, page, posted, destroying, completed>>

-----------------------------------------------------------------------------
PluginNext ==
    \/ \E i \in Instances :
           \/ PluginNew(i) \/ PluginGetValue(i) \/ PluginDestroy(i)
           \/ DoDestroy(i) \/ DestroyCloses(i) \/ DestroyClosed(i)
           \/ DestroyReady(i) \/ DestroyReturns(i)
           \/ DeviceListed(i) \/ DeviceUnplugged(i)
           \/ GetProperty(i) \/ DoGetProperty(i)
           \/ AddEventListener(i) \/ SignalEmitted(i) \/ ClosureInvoke(i)
           \/ ScriptDropsRoot(i)
    \/ GetPropertyReturns \/ DeviceStrays
    \/ DoInvoke \/ Invoked \/ PromiseCalled \/ PromiseRuns \/ ScriptDropsPromise
    \/ Shutdown \/ StopMainLoop \/ ShutdownReturns

PluginSpec == PluginInit /\ [][PluginNext]_pluginVars

\* The main loop dispatches what is attached and its coroutines end, except the
\* method that was called; the browser's thread goes on with what it has begun.
PluginFairness ==
    /\ \A i \in Instances :
           /\ WF_pluginVars(DoDestroy(i)) /\ WF_pluginVars(DestroyReady(i))
           /\ WF_pluginVars(DestroyCloses(i)) /\ WF_pluginVars(DestroyClosed(i))
           /\ WF_pluginVars(DestroyReturns(i)) /\ WF_pluginVars(DoGetProperty(i))
    /\ WF_pluginVars(GetPropertyReturns) /\ WF_pluginVars(DoInvoke)
    /\ WF_pluginVars(Invoked /\ invocation # "working")
    /\ SF_pluginVars(PromiseRuns) /\ SF_pluginVars(PromiseCalled /\ Flush)
    /\ WF_pluginVars(StopMainLoop) /\ WF_pluginVars(ShutdownReturns)

PluginFairSpec == PluginSpec /\ PluginFairness

-----------------------------------------------------------------------------
(* Properties.                                                             *)

\* Messages are logged to the console of a live instance, as long as there is one:
\* destroying the one that was chosen passes the logging on to another.
LogsToALiveInstance ==
    IF logger = None THEN \A i \in Instances : ~Live(i) ELSE Live(logger)

\* The promise is freed only when nobody is going to touch it any more, and a root
\* only when the table, the script, the promise of a method and the thread that waits
\* for it have all done with it, whichever is the last, and the destroy with each of
\* its devices; the instance that is destroyed is no longer the one that messages are
\* logged to.  What is left, and does happen, is a device nobody waits for, unplugged or
\* opened by a call the destroy has overtaken: its signals are the only ones that find
\* a root that is freed, which no closure keeps.
NothingFreedInUse ==
    /\ FreedWhenUnused /\ LogsToALiveInstance
    /\ \A i \in Instances :
           \/ objects[i] > 0
           \/ /\ roots[i] # "root" /\ events[i] = 0 /\ wait.of # i
              /\ i \notin held \cup destroying
              /\ device[i] \notin {"listed", "closing"}
              /\ i = Caller => refs = 0
    /\ loop = "wild" => \E i \in Instances : objects[i] = 0 /\ device[i] = "stray"

\* Unless a closure has used a freed root, the browser's thread is not left waiting:
\* neither by a property that is read, nor by an instance that is destroyed, nor by the
\* joining of the main loop.
EveryWaitEnds == wait # Nothing ~> wait = Nothing \/ loop = "wild"

\* As long as the instance lives, and no closure has used a freed root, a settled promise
\* runs the callbacks that asked for its outcome and, when the script lets go of it, is
\* freed.
SettledPromiseIsServed ==
    /\ \A k \in Callbacks :
           (result # "pending" /\ method[k] # None /\ Wants(method[k], result))
               ~> calls[k] = 1 \/ ~Live(Caller) \/ loop = "wild"
    /\ (~scriptHolds /\ result # "pending") ~> refs = 0 \/ ~Live(Caller) \/ loop = "wild"
=============================================================================
