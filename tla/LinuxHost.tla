------------------------------- MODULE LinuxHost -------------------------------
(***************************************************************************)
(* Linjector with what owns it: the HostSessionService                     *)
(* (zed/src/core/host-session-service.vala) that starts and stops its      *)
(* backends in turn, LinuxHostSessionBackend and its provider              *)
(* (zed/src/core/linux/linux-host-session.vala), and the file the agent's  *)
(* library is written to (Linjector.TemporaryFile,                         *)
(* zed/src/core/linux/linjector.vala), which lives as long as the          *)
(* injector.  Every step is one of Linjector's or leaves it as it is.      *)
(*                                                                         *)
(* On Linux the service has a second backend, Tcp, which is started after  *)
(* this one, and stopped after it; its provider's close is in              *)
(* DBusHostSession.                                                        *)
(***************************************************************************)
EXTENDS Linjector

VARIABLES
    service,    \* HostSessionService: "new", "starting", "started", "stopping",
                \* "tcp" (stopping the second backend), "stopped"
    session,    \* LinuxHostSessionProvider.host_session is not null
    library,    \* the agent's TemporaryFile: "none", "there", "deleted"
    loaded      \* ids whose worker has opened the library

host == <<service, session, library, loaded>>
allVars == <<vars, host>>

HostInit ==
    /\ Init
    /\ service = "new" /\ session = FALSE
    /\ library = "none" /\ loaded = {}

-----------------------------------------------------------------------------
(* Pieces of the handlers.                                                 *)

\* The provider is announced by the backend's start, withdrawn by its stop.
Available == service \in {"starting", "started"}

\* Once it is open in a worker the library is not needed as a file.
Needs(i) == worker[i] \in {"created", "opened", "agent"} /\ i \notin loaded

\* The host session drops the injector at the end of close.
Owned == closing' # "done"

\* ~Linjector deletes the files.
LibraryKept ==
    library' = IF library = "there" /\ ~Owned THEN "deleted" ELSE library

MutantAwaited == TRUE
\* LinuxHostSessionProvider.close awaits that of its host session, if there is one.
Awaited == session => closing = "done"

-----------------------------------------------------------------------------
(* The service and the provider.                                           *)

StartService ==
    /\ service = "new" /\ service' = "starting"
    /\ UNCHANGED <<vars, session, library, loaded>>

\* The second backend has started as well.
ServiceStarted ==
    /\ service = "starting" /\ service' = "started"
    /\ UNCHANGED <<vars, session, library, loaded>>

\* Another call throws: a provider may only create one host session.
CreateHostSession ==
    /\ Available /\ ~session /\ session' = TRUE
    /\ UNCHANGED <<vars, service, library, loaded>>

\* The provider is withdrawn, and closed.
StopService ==
    /\ service = "started" /\ service' = "stopping"
    /\ IF session THEN Close ELSE UNCHANGED vars
    /\ UNCHANGED <<session, library, loaded>>

LocalStopped ==
    /\ service = "stopping" /\ Awaited
    /\ service' = "tcp" /\ session' = FALSE
    /\ UNCHANGED <<vars, library, loaded>>

ServiceStopped ==
    /\ service = "tcp" /\ service' = "stopped"
    /\ UNCHANGED <<vars, session, library, loaded>>

-----------------------------------------------------------------------------
(* attach_to and the worker.                                               *)

\* The first inject writes the library out.  If that fails the file is deleted and
\* inject throws before it has done anything.
Written == library' = "there"

AttachTo(p) ==
    /\ session
    /\ \/ MkfifoFails(p) \/ Inject(p)
       \/ \E attached, mapped \in BOOLEAN : InjectFails(p, attached, mapped)
    /\ Written
    /\ UNCHANGED <<service, session, loaded>>

\* __libc_dlopen_mode finds the file ...
WorkerLoads(i) ==
    /\ worker[i] = "agent" /\ Needs(i) /\ library = "there"
    /\ loaded' = loaded \cup {i}
    /\ UNCHANGED <<vars, service, session, library>>

\* ... or not: no entrypoint is found then, and the target calls a null pointer.
WorkerCrashes(i) ==
    /\ worker[i] = "agent" /\ Needs(i) /\ library # "there"
    /\ TargetDies(pid[i])
    /\ UNCHANGED host

-----------------------------------------------------------------------------
\* What may end close, and the injector with it.
Ending ==
    /\ BaseClosed \/ \E i \in Ids :
           IdleUninject(i) \/ MonitorReads(i) \/ MonitorReadFails(i)
    /\ LibraryKept
    /\ UNCHANGED <<service, session, loaded>>

Others ==
    /\ \/ \E p \in Pids : TargetDies(p)
       \/ \E i \in Ids :
              \/ InjectReadsByte(i) \/ InjectReadsNothing(i) \/ InjectReadFails(i)
              \/ WorkerOpens(i) \/ WorkerWrites(i) \/ WorkerReturns(i)
              \/ WorkerCloses(i) /\ ~Needs(i)
    /\ UNCHANGED host

Service ==
    /\ aborted = "no"
    /\ \/ StartService \/ ServiceStarted \/ CreateHostSession
       \/ StopService \/ LocalStopped \/ ServiceStopped

HostNext ==
    \/ Service \/ Ending \/ Others
    \/ \E p \in Pids : AttachTo(p)
    \/ \E i \in Ids : WorkerLoads(i) \/ WorkerCrashes(i)

HostSpec == HostInit /\ [][HostNext]_allVars

\* The main loop dispatches what is ready, base.close () and the Tcp backend's stop
\* end, and a worker goes on with its code.  Nobody has to stop the service; once
\* that has begun the agents end, because base.close () closes their connections.
Fairness ==
    /\ WF_allVars(BaseClosed /\ LibraryKept /\ UNCHANGED <<service, session, loaded>>)
    /\ WF_allVars(Service /\ (LocalStopped \/ ServiceStopped))
    /\ \A i \in Ids :
           /\ WF_allVars(/\ InjectReadsByte(i) \/ InjectReadsNothing(i)
                         /\ UNCHANGED host)
           /\ WF_allVars(/\ IdleUninject(i) \/ MonitorReads(i)
                         /\ LibraryKept /\ UNCHANGED <<service, session, loaded>>)
           /\ WF_allVars((WorkerOpens(i) \/ WorkerWrites(i)) /\ UNCHANGED host)
           /\ WF_allVars(WorkerLoads(i))
           /\ WF_allVars(closing # "open" /\ WorkerCloses(i) /\ UNCHANGED host)

FairSpec == HostSpec /\ Fairness

-----------------------------------------------------------------------------
(* Properties.                                                             *)

HostOK ==
    /\ service \in {"new", "starting", "started", "stopping", "tcp", "stopped"}
    /\ session \in BOOLEAN
    /\ library \in {"none", "there", "deleted"}
    /\ loaded \subseteq Ids

\* A worker that has yet to open the agent's library finds it: the injector lives,
\* and keeps the file, as long as an agent may still be on its way, whatever is
\* closed meanwhile (unless reading its FIFO has failed and the code gave up).  And
\* when the service has stopped, nothing is injected and the file is deleted; its
\* close is not resumed after it has completed.
LibraryLastsAsNeeded ==
    /\ \A i \in Ids \ unread : Needs(i) => library = "there"
    /\ service \in {"tcp", "stopped"} => instances = {} /\ library # "there"
    /\ CloseEndsOnce

\* An agent that ends, or dies after opening the FIFO, is uninjected, unless
\* reading its FIFO has failed; and then the service stops, unless a target has died
\* before its worker opened the FIFO: such an instance never comes to an end.
EveryEndIsNoticed ==
    /\ \A i \in Ids : writer[i] = "closed" ~>
           i \in uninjected \/ i \in unread \/ aborted # "no"
    /\ service = "stopping" ~>
           \/ service = "stopped" \/ aborted # "no"
           \/ \E i \in instances :
                  i \in unread \/ (writer[i] = "never" /\ pid[i] \notin alive)
=============================================================================
