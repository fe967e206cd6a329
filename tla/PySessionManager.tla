--------------------------- MODULE PySessionManager ---------------------------
(***************************************************************************)
(* pyfrida's SessionManager (zed/bindings/pyfrida/session-manager.vala), a *)
(* variant of the core's that starts a zed-server of its own and holds on  *)
(* to its host session only while there are sessions.  The tasks of both   *)
(* are the same code where nothing else is said below, where SessionState  *)
(* and the variables keep their meaning, but for these:                    *)
(*                                                                         *)
(* - a Session is closed to its clients when is_closed is set (~manager[h] *)
(*   here), but is in the maps until the end of _do_close;                 *)
(* - _release_session attaches an idle source that releases the host       *)
(*   session if there are no sessions left by then.                        *)
(*                                                                         *)
(* The calls on scripts are SessionManager's and are not repeated here; of *)
(* the scripts of a closing session there remains that unloading them      *)
(* takes a while.  pyfrida never disposes of its one manager.              *)
(***************************************************************************)
EXTENDS SessionManager

VARIABLES
    idles,      \* the idle sources that _release_session has attached
    releases,   \* coroutines of release_host_session that wait for close
    dropped,    \* local_provider was set to null while the provider was in use
    hasty       \* an obtain and the release of the host session have overlapped

hostVars == <<idles, releases, dropped, hasty>>
pyVars == <<vars, hostVars>>

\* What never changes here.
constant == <<inTurn, closed, finalized, service, running, scripts, owner, todo,
              unloading, agentScripts, disposing>>

PyInit ==
    /\ Init /\ ~inTurn
    /\ idles = 0 /\ releases = 0 /\ dropped = FALSE /\ hasty = FALSE

Obtains == \E c \in Callers : op[c] \in Obtaining

-----------------------------------------------------------------------------
(* Obtaining a session.                                                    *)

\* Up to the first yield of ensure_host_session, which makes a new server and a new
\* provider if there is no host session, whatever there is of the others.
PyObtainSession(c, p) ==
    /\ op[c] = "idle" /\ LookedUp(p) = None
    /\ SerialObtain => ~Obtains
    /\ IF localSession = None
       THEN /\ provider' \in Services /\ dropped' = FALSE
            /\ Enter(c, "create_host", p)
       ELSE Enter(c, "start", p) /\ UNCHANGED <<provider, dropped>>
    /\ hasty' = (hasty \/ idles > 0 \/ releases > 0)
    /\ UNCHANGED <<localSession, mapVars, closeVars, agent, notices, crash, idles, releases>>

\* ensure_host_session had nothing to do, and returns a turn of the loop later.
HostSessionAtHand(c) ==
    /\ op[c] = "start"
    /\ IF localSession = None
       THEN crash' = "null_host_session" /\ UNCHANGED <<op, arg>>
       ELSE Goto(c, "attach") /\ UNCHANGED crash
    /\ UNCHANGED <<provider, localSession, mapVars, closeVars, agent, notices, hostVars>>

\* local_provider.create () has connected to the server, or given up.
PyHostSessionCreated(c) ==
    /\ op[c] = "create_host"
    /\ \/ localSession' \in Services /\ Goto(c, "attach")
       \/ Return(c) /\ UNCHANGED localSession
    /\ UNCHANGED <<provider, mapVars, closeVars, agent, notices, crash, hostVars>>

\* attach_to has returned, and the provider is asked for the agent.
PyAttached(c) ==
    /\ IF op[c] = "attach" /\ (provider = None \/ dropped)
       THEN /\ crash' = "null_provider"
            /\ UNCHANGED <<managerVars, mapVars, closeVars, agentVars, callVars>>
       ELSE Attached(c)
    /\ UNCHANGED hostVars

\* The rest of ObtainSessionTask is the core's.
PyObtained(c) ==
    /\ ObtainFailed(c) \/ \E h \in Handles : SessionObtained(c, h)
    /\ UNCHANGED hostVars

-----------------------------------------------------------------------------
(* Closing a session.                                                      *)

\* _do_close, when is_closed is not set, up to its scripts.
PyBeginClose(h, block) ==
    /\ ForgetManager(h)
    /\ closer' = [closer EXCEPT ![h] = "unload"]
    /\ mayBlock' = [mayBlock EXCEPT ![h] = block]
    /\ UNCHANGED <<byPid, byHandle, pid, internal, closedSignals>>

PyCloseSession(c, h) ==
    /\ op[c] = "idle" /\ manager[h]
    /\ PyBeginClose(h, TRUE)
    /\ Enter(c, "close", h)
    /\ UNCHANGED <<provider, localSession, agent, notices, crash, hostVars>>

\* on_agent_session_closed; a session that is not in the map, or is closed, is let be.
PyAgentSessionClosed(h) ==
    /\ h \in notices /\ notices' = notices \ {h}
    /\ IF IsOurs(h) THEN PyBeginClose(h, FALSE) ELSE UNCHANGED <<mapVars, closeVars>>
    /\ UNCHANGED <<provider, localSession, agent, op, arg, crash, hostVars>>

MutantPostRelease == idles' = idles
\* _release_session attaches an idle source.
PostRelease == idles' = idles + 1

\* The end of _do_close, which releases the session.
PyCloseEnds(h) ==
    /\ AgentIsClosed(h)
    /\ IF byPid[pid[h]] = None
       THEN /\ crash' = "assert_session_did_exist"
            /\ UNCHANGED <<mapVars, closeVars, idles>>
       ELSE /\ closer' = [closer EXCEPT ![h] = "done"]
            /\ ForgetInternal(h)
            /\ byPid' = [byPid EXCEPT ![pid[h]] = None]
            /\ byHandle' = byHandle \ {h}
            /\ closedSignals' = [closedSignals EXCEPT ![h] = @ + 1]
            /\ PostRelease
            /\ UNCHANGED <<pid, manager, mayBlock, crash>>
    /\ UNCHANGED <<provider, localSession, op, arg, releases, dropped, hasty>>

\* A blocking close asks the agent; Session.CloseTask waits for the end.
PyCloseGoesOn ==
    /\ (\E h \in Handles : CloseAsksAgent(h)) \/ \E c \in Callers : CloseReturns(c)
    /\ UNCHANGED hostVars

-----------------------------------------------------------------------------
(* Releasing the host session.                                             *)

MutantNoSessions == TRUE
\* session_by_pid.is_empty.
NoSessions == \A p \in Pids : byPid[p] = None

\* The idle source runs release_host_session up to local_provider.close ().
ReleaseHost ==
    /\ idles > 0 /\ idles' = idles - 1
    /\ IF ~NoSessions \/ localSession = None
       THEN UNCHANGED <<localSession, releases, hasty, crash>>
       ELSE IF dropped
       THEN crash' = "null_provider" /\ UNCHANGED <<localSession, releases, hasty>>
       ELSE /\ localSession' = None /\ releases' = releases + 1
            /\ hasty' = (hasty \/ Obtains)
            /\ UNCHANGED crash
    /\ UNCHANGED <<provider, mapVars, closeVars, agent, notices, op, arg, dropped>>

\* ... and then local_provider = null, be it another one by now, or one that is still
\* obtaining an agent session.
HostReleased ==
    /\ releases > 0 /\ releases' = releases - 1
    /\ IF localSession # None \/ \E c \in Callers : op[c] \in {"create_host", "obtain_agent"}
       THEN dropped' = TRUE /\ UNCHANGED provider
       ELSE provider' = None /\ UNCHANGED dropped
    /\ UNCHANGED <<localSession, mapVars, closeVars, agent, notices, op, arg, crash,
                   idles, hasty>>

\* An agent vanishes.  Nobody watches it if its provider was dropped: that of the
\* sessions there are now, or, after a hasty release, an earlier one.
PyAgentVanishes(h) ==
    /\ Live(h) /\ agent' = [agent EXCEPT ![h] = "gone"]
    /\ \/ ~dropped /\ notices' = notices \cup {h}
       \/ (dropped \/ hasty) /\ UNCHANGED notices
    /\ UNCHANGED <<provider, localSession, mapVars, closeVars, op, arg, crash, hostVars>>

-----------------------------------------------------------------------------
PyCallProceeds ==
    \/ \E c \in Callers :
           HostSessionAtHand(c) \/ PyHostSessionCreated(c) \/ PyAttached(c) \/ PyObtained(c)
    \/ \E h \in Handles : PyAgentSessionClosed(h)

\* What the main loop owes a session that is being closed.
PyCloseProceeds == (\E h \in Handles : PyCloseEnds(h)) \/ PyCloseGoesOn \/ ReleaseHost

PyNext ==
    /\ crash = "no" /\ UNCHANGED constant
    /\ \/ \E c \in Callers :
              \/ \E p \in Pids : PyObtainSession(c, p)
              \/ \E h \in Handles : PyCloseSession(c, h)
       \/ PyCallProceeds \/ PyCloseProceeds \/ HostReleased
       \/ \E h \in Handles : PyAgentVanishes(h)

PySpec == PyInit /\ [][PyNext]_pyVars

-----------------------------------------------------------------------------
(* Properties.                                                             *)

PyOK ==
    /\ TypeOK /\ idles \in Nat /\ releases \in Nat
    /\ dropped \in BOOLEAN /\ hasty \in BOOLEAN

\* pyfrida's host session is there as long as a session needs it: as long as no
\* obtain_session_for overlaps a release, none meets a null host session or
\* provider, no assertion of _release_session fails, and every session in the maps
\* is reached through a provider that will announce its agent's end.
HostServesItsSessions ==
    ~hasty =>
        /\ crash = "no"
        /\ byHandle # {} => localSession # None /\ provider # None /\ ~dropped
        /\ \A h \in byHandle : manager[h] => Live(h) \/ h \in notices

\* ... and once the last sessions are being closed, by their clients or by their agents'
\* ends, it is released, unless there is another session by then or one is being obtained.
HostIsReleased ==
    byHandle # {} /\ (\A h \in byHandle : ~manager[h]) /\ ~hasty ~>
        hasty \/ Obtains \/ localSession = None \/ \E h \in byHandle : manager[h]
=============================================================================
