--------------------------- MODULE SessionManager ---------------------------
(***************************************************************************)
(* Frida.SessionManager, Frida.Session and Frida.Script                    *)
(* (zed/src/core/session-manager.vala).                                    *)
(*                                                                         *)
(* Client threads block in API calls; each call is a coroutine that runs   *)
(* on the one main-loop thread and is cut into atomic steps by its         *)
(* "yield"s.  An action below is the code between two yields.  Remote      *)
(* calls (attach_to, create_script, ...) reach an agent that may vanish at *)
(* any time; a vanished agent is reported by agent_session_closed.         *)
(*                                                                         *)
(* A Session object is named by the agent session handle it was built      *)
(* from: attach_to never returns the same handle twice.                    *)
(***************************************************************************)
EXTENDS Naturals, FiniteSets

CONSTANTS
    Callers,        \* client threads
    Pids,           \* processes that can be attached to
    Handles,        \* agent session handles, one per Session object
    Scripts,        \* script handles, one per Script object
    Services,       \* HostSessionService objects, and their one provider
    None,           \* the null reference
    SerialObtain    \* clients never overlap two obtain_session_for calls

ASSUME SerialObtainAssumption == SerialObtain \in BOOLEAN
ASSUME NoneAssumption ==
    /\ None \notin Handles /\ None \notin Scripts
    /\ None \notin Services /\ None \notin Pids
ASSUME ServicesAssumption == {"unborn", "gone"} \cap Services = {}
ASSUME HandlesAssumption == "unborn" \notin Handles /\ "unborn" # None

VARIABLES
    inTurn,         \* clients make one call at a time on Sessions and Scripts
    closed,         \* SessionManager.closed
    finalized,      \* dispose has run to the end: the object is gone
    service,        \* SessionManager.service
    running,        \* the services whose backend has been started
    provider,       \* SessionManager.local_provider (named by its service)
    localSession,   \* SessionManager.local_session (named by its provider)
    byPid,          \* session_by_pid
    byHandle,       \* the keys of session_by_handle
    pid,            \* Session.pid
    manager,        \* Session.manager is not null
    internal,       \* Session.internal_session is not null
    scripts,        \* the values of Session.script_by_id
    closer,         \* where the body of _do_close of each Session stands
    todo,           \* ... the part of its script snapshot not yet unloaded
    unloading,      \* ... the script whose destroy_script it waits for
    mayBlock,       \* ... and its argument may_block
    closedSignals,  \* how often Session.closed was emitted
    owner,          \* Script.session, "unborn" before the Script exists
    agent,          \* "unborn", "gone", or the service a live agent is reached by
    agentScripts,   \* the scripts alive inside each agent
    notices,        \* agents whose agent_session_closed is still to be emitted
    op,             \* the API call each client thread is blocked in
    arg,            \* ... and its argument
    disposing,      \* sessions the manager's CloseTask has still to close
    crash           \* why the process died, or "no"

managerVars == <<closed, finalized, service, running, provider, localSession>>
mapVars     == <<byPid, byHandle, pid, manager>>
closeVars   == <<internal, closer, todo, unloading, mayBlock, closedSignals>>
scriptVars  == <<scripts, owner>>
agentVars   == <<agent, agentScripts, notices>>
callVars    == <<op, arg, disposing>>
vars == <<inTurn, managerVars, mapVars, closeVars, scriptVars, agentVars,
          callVars, crash>>

Ops == {"idle", "start", "create_host", "attach", "obtain_agent",
        "close", "create", "use", "unload", "dispose", "dispose_wait"}
Obtaining == {"start", "create_host", "attach", "obtain_agent"}
Closers == {"idle", "unload", "destroy", "agent", "done"}
Crashes == {"no", "assert_session_did_exist", "assert_handle",
            "null_session", "null_internal_session",
            "null_host_session", "null_provider"}  \* the last two in PySessionManager only

Live(h) == agent[h] \in Services

Init ==
    /\ inTurn \in BOOLEAN
    /\ closed = FALSE /\ finalized = FALSE
    /\ service = None /\ running = {} /\ provider = None /\ localSession = None
    /\ byPid = [p \in Pids |-> None] /\ byHandle = {}
    /\ pid = [h \in Handles |-> None]
    /\ manager = [h \in Handles |-> FALSE]
    /\ internal = [h \in Handles |-> FALSE]
    /\ scripts = [h \in Handles |-> {}]
    /\ closer = [h \in Handles |-> "idle"]
    /\ todo = [h \in Handles |-> {}]
    /\ unloading = [h \in Handles |-> None]
    /\ mayBlock = [h \in Handles |-> FALSE]
    /\ closedSignals = [h \in Handles |-> 0]
    /\ owner = [x \in Scripts |-> "unborn"]
    /\ agent = [h \in Handles |-> "unborn"]
    /\ agentScripts = [h \in Handles |-> {}]
    /\ notices = {}
    /\ op = [c \in Callers |-> "idle"]
    /\ arg = [c \in Callers |-> None]
    /\ disposing = {}
    /\ crash = "no"

-----------------------------------------------------------------------------
(* Client threads and the calls they are blocked in.                       *)

Enter(c, o, a) == op' = [op EXCEPT ![c] = o] /\ arg' = [arg EXCEPT ![c] = a]
Goto(c, o) == op' = [op EXCEPT ![c] = o] /\ UNCHANGED arg
Return(c) == Enter(c, "idle", None)

\* What clients that take turns look at before a thread starts a call on a
\* Session, on a Script, or the disposal of the manager; obtaining a session,
\* and agents that vanish, may still overlap it.
SessionsUnused ==
    inTurn => \A c \in Callers : op[c] \in Obtaining \cup {"idle"}

-----------------------------------------------------------------------------
(* Pieces of the handlers.  A definition whose name starts with "Mutant" is *)
(* a bug this code does not have; it stands in for the definition after it *)
(* when the sensitivity of a property is tested.                           *)

\* session_by_pid[pid] in ObtainSessionTask.
LookedUp(p) == byPid[p]

\* attach_to never hands out the handle of an earlier agent.
HandleFree(h) == agent[h] = "unborn"

\* manager = null in _do_close.
ForgetManager(h) == manager' = [manager EXCEPT ![h] = FALSE]

MutantScriptSnapshot(h) == {}
\* script_by_id.values.to_array () in _do_close.
ScriptSnapshot(h) == scripts[h]

\* on_agent_session_closed finds the session, and _do_close its manager.
IsOurs(h) == h \in byHandle /\ manager[h]

\* internal_session = null at the end of _do_close.
ForgetInternal(h) == internal' = [internal EXCEPT ![h] = FALSE]

MutantErrorIgnored(h) == FALSE
\* internal_session.close () throws: ignored_error.
ErrorIgnored(h) == ~Live(h)

\* script_by_id[sid.handle] = script.
ListScript(h, x) == scripts' = [scripts EXCEPT ![h] = @ \cup {x}]

MutantSessionSnapshot == {}
\* session_by_pid.values.to_array () in the manager's CloseTask.
SessionSnapshot == {byPid[p] : p \in Pids} \ {None}

-----------------------------------------------------------------------------
(* Obtaining a session.                                                    *)

\* ObtainSessionTask up to its first yield, including the start of
\* ensure_host_session_is_available.  The two early exits (manager closed,
\* session already in session_by_pid) change nothing.  The caller holds a
\* reference to the manager, so dispose has not begun.
ObtainSession(c, p) ==
    /\ op[c] = "idle" /\ ~closed /\ LookedUp(p) = None
    /\ SerialObtain => \A d \in Callers : op[d] \notin Obtaining
    /\ IF localSession = None
       THEN \E v \in Services \ running :
                /\ service' = v /\ running' = running \cup {v}
                /\ Enter(c, "start", p)
       ELSE Enter(c, "attach", p) /\ UNCHANGED <<service, running>>
    /\ UNCHANGED <<closed, finalized, provider, localSession, mapVars,
                   closeVars, scriptVars, agentVars, disposing, crash>>

\* service.start () has emitted provider_available; the 10 ms poll ends.
ServiceStarted(c) ==
    /\ op[c] = "start"
    /\ provider' = service
    /\ Goto(c, "create_host")
    /\ UNCHANGED <<closed, finalized, service, running, localSession, mapVars,
                   closeVars, scriptVars, agentVars, disposing, crash>>

\* local_provider.create () completes: a provider makes one HostSession only,
\* and throws when asked again.
HostSessionCreated(c) ==
    /\ op[c] = "create_host"
    /\ IF localSession = provider
       THEN Return(c) /\ UNCHANGED localSession
       ELSE localSession' = provider /\ Goto(c, "attach")
    /\ UNCHANGED <<closed, finalized, service, running, provider, mapVars,
                   closeVars, scriptVars, agentVars, disposing, crash>>

\* local_session.attach_to completes: an agent listens under a new handle.
Attached(c) ==
    /\ op[c] = "attach"
    /\ Goto(c, "obtain_agent")
    /\ UNCHANGED <<managerVars, mapVars, closeVars, scriptVars, agentVars,
                   disposing, crash>>

\* obtain_agent_session completes: the Session object is made and put into
\* both maps, over whatever session_by_pid holds by now.
SessionObtained(c, h) ==
    /\ op[c] = "obtain_agent"
    /\ HandleFree(h)
    /\ agent' = [agent EXCEPT ![h] = provider]
    /\ pid' = [pid EXCEPT ![h] = arg[c]]
    /\ manager' = [manager EXCEPT ![h] = TRUE]
    /\ internal' = [internal EXCEPT ![h] = TRUE]
    /\ byPid' = [byPid EXCEPT ![arg[c]] = h]
    /\ byHandle' = byHandle \cup {h}
    /\ Return(c)
    /\ UNCHANGED <<managerVars, closer, todo, unloading, mayBlock,
                   closedSignals, scriptVars, agentScripts, notices, disposing, crash>>

\* attach_to or obtain_agent_session throws: nothing has been recorded.
ObtainFailed(c) ==
    /\ op[c] \in {"attach", "obtain_agent"}
    /\ Return(c)
    /\ UNCHANGED <<managerVars, mapVars, closeVars, scriptVars, agentVars,
                   disposing, crash>>

-----------------------------------------------------------------------------
(* Closing a session.                                                      *)

\* _do_close from its entry to its first yield; the caller has seen that
\* manager is not null.  _release_session drops whatever session_by_pid holds
\* for the pid and asserts that it held something.
BeginClose(h, block) ==
    IF byPid[pid[h]] = None
    THEN /\ crash' = "assert_session_did_exist"
         /\ UNCHANGED <<mapVars, closeVars>>
    ELSE IF h \notin byHandle
    THEN /\ crash' = "assert_handle"
         /\ UNCHANGED <<mapVars, closeVars>>
    ELSE /\ byPid' = [byPid EXCEPT ![pid[h]] = None]
         /\ byHandle' = byHandle \ {h}
         /\ ForgetManager(h)
         /\ closer' = [closer EXCEPT ![h] = "unload"]
         /\ todo' = [todo EXCEPT ![h] = ScriptSnapshot(h)]
         /\ mayBlock' = [mayBlock EXCEPT ![h] = block]
         /\ UNCHANGED <<pid, internal, unloading, closedSignals, crash>>

\* Session.close () by a client.  A session whose manager is null already
\* returns at once.
CloseSession(c, h) ==
    /\ op[c] = "idle" /\ manager[h] /\ SessionsUnused
    /\ BeginClose(h, TRUE)
    /\ Enter(c, "close", h)
    /\ UNCHANGED <<managerVars, scriptVars, agentVars, disposing>>

\* Session.CloseTask returns when the body of _do_close has ended.
CloseReturns(c) ==
    /\ op[c] = "close" /\ closer[arg[c]] = "done"
    /\ Return(c)
    /\ UNCHANGED <<managerVars, mapVars, closeVars, scriptVars, agentVars,
                   disposing, crash>>

\* on_agent_session_closed: a session that is no longer in
\* session_by_handle is left alone.
AgentSessionClosed(h) ==
    /\ h \in notices /\ ~finalized
    /\ notices' = notices \ {h}
    /\ IF IsOurs(h)
       THEN BeginClose(h, FALSE)
       ELSE UNCHANGED <<mapVars, closeVars, crash>>
    /\ UNCHANGED <<managerVars, scriptVars, agent, agentScripts, callVars>>

\* The loop of _do_close takes the next script of its snapshot and runs
\* _do_unload on it up to the destroy_script call.  A script that lost its
\* session since the snapshot makes _do_unload work on a null Session: a
\* warning in _release_script, and then a null AgentSession if may_block.
CloseUnloadsScript(h, x) ==
    /\ closer[h] = "unload" /\ x \in todo[h]
    /\ todo' = [todo EXCEPT ![h] = @ \ {x}]
    /\ IF owner[x] = None
       THEN /\ crash' = IF mayBlock[h] THEN "null_session" ELSE crash
            /\ UNCHANGED <<scripts, owner, closer, unloading>>
       ELSE /\ owner' = [owner EXCEPT ![x] = None]
            /\ scripts' = [scripts EXCEPT ![owner[x]] = @ \ {x}]
            /\ IF mayBlock[h]
               THEN /\ closer' = [closer EXCEPT ![h] = "destroy"]
                    /\ unloading' = [unloading EXCEPT ![h] = x]
               ELSE UNCHANGED <<closer, unloading>>
            /\ UNCHANGED crash
    /\ UNCHANGED <<managerVars, mapVars, internal, mayBlock, closedSignals,
                   agentVars, callVars>>

\* destroy_script, called by _do_close, completes: the agent has dropped the
\* script, or is gone (ignored_error).
CloseScriptDestroyed(h) ==
    /\ closer[h] = "destroy"
    /\ closer' = [closer EXCEPT ![h] = "unload"]
    /\ unloading' = [unloading EXCEPT ![h] = None]
    /\ agentScripts' = [agentScripts EXCEPT ![h] = @ \ {unloading[h]}]
    /\ UNCHANGED <<managerVars, mapVars, internal, todo, mayBlock,
                   closedSignals, scriptVars, agent, notices, callVars, crash>>

\* All scripts are unloaded: a blocking close asks the agent to close.
CloseAsksAgent(h) ==
    /\ closer[h] = "unload" /\ todo[h] = {} /\ mayBlock[h]
    /\ closer' = [closer EXCEPT ![h] = "agent"]
    /\ UNCHANGED <<managerVars, mapVars, internal, todo, unloading, mayBlock,
                   closedSignals, scriptVars, agentVars, callVars, crash>>

\* A blocking close gets past internal_session.close () when the agent has
\* answered or is gone; the answering agent closes its connection, which is
\* reported like any other.
AgentIsClosed(h) ==
    \/ closer[h] = "unload" /\ todo[h] = {} /\ ~mayBlock[h]
       /\ UNCHANGED agentVars
    \/ closer[h] = "agent" /\ Live(h)
       /\ agent' = [agent EXCEPT ![h] = "gone"]
       /\ agentScripts' = [agentScripts EXCEPT ![h] = {}]
       /\ notices' = notices \cup {h}
    \/ closer[h] = "agent" /\ ErrorIgnored(h)
       /\ UNCHANGED agentVars

\* The end of _do_close: internal_session = null and closed ().
CloseEnds(h) ==
    /\ AgentIsClosed(h)
    /\ closer' = [closer EXCEPT ![h] = "done"]
    /\ ForgetInternal(h)
    /\ closedSignals' = [closedSignals EXCEPT ![h] = @ + 1]
    /\ UNCHANGED <<managerVars, mapVars, todo, unloading, mayBlock, scriptVars,
                   callVars, crash>>

-----------------------------------------------------------------------------
(* Scripts.                                                                *)

\* create_script, up to the remote call; refused when manager is null.
CreateScript(c, h) ==
    /\ op[c] = "idle" /\ manager[h] /\ SessionsUnused
    /\ Enter(c, "create", h)
    /\ UNCHANGED <<managerVars, mapVars, closeVars, scriptVars, agentVars,
                   disposing, crash>>

\* The remote create_script returns, and the Script joins script_by_id
\* whatever has become of the session meanwhile.
ScriptCreated(c, x) ==
    /\ op[c] = "create" /\ Live(arg[c]) /\ owner[x] = "unborn"
    /\ agentScripts' = [agentScripts EXCEPT ![arg[c]] = @ \cup {x}]
    /\ ListScript(arg[c], x)
    /\ owner' = [owner EXCEPT ![x] = arg[c]]
    /\ Return(c)
    /\ UNCHANGED <<managerVars, mapVars, closeVars, agent, notices, disposing,
                   crash>>

\* ... or throws: the source does not compile, or the agent is gone.
CreateFailed(c) ==
    /\ op[c] = "create"
    /\ Return(c)
    /\ UNCHANGED <<managerVars, mapVars, closeVars, scriptVars, agentVars,
                   disposing, crash>>

\* load and post_message: validated against Script.session, then sent to
\* session.internal_session.
UseScript(c, x) ==
    /\ op[c] = "idle" /\ owner[x] \in Handles /\ SessionsUnused
    /\ IF internal[owner[x]]
       THEN Enter(c, "use", x) /\ UNCHANGED crash
       ELSE crash' = "null_internal_session" /\ UNCHANGED <<op, arg>>
    /\ UNCHANGED <<managerVars, mapVars, closeVars, scriptVars, agentVars,
                   disposing>>

\* unload: _do_unload (true) up to the destroy_script call.
UnloadScript(c, x) ==
    /\ op[c] = "idle" /\ owner[x] \in Handles /\ SessionsUnused
    /\ owner' = [owner EXCEPT ![x] = None]
    /\ scripts' = [scripts EXCEPT ![owner[x]] = @ \ {x}]
    /\ IF internal[owner[x]]
       THEN Enter(c, "unload", x) /\ UNCHANGED crash
       ELSE crash' = "null_internal_session" /\ UNCHANGED <<op, arg>>
    /\ UNCHANGED <<managerVars, mapVars, closeVars, agentVars, disposing>>

\* The agent has answered load_script, post_message_to_script or
\* destroy_script, or is gone; the call returns.
ScriptCallReturns(c) ==
    /\ op[c] \in {"use", "unload"}
    /\ agentScripts' = IF op[c] = "unload"
                       THEN [h \in Handles |-> agentScripts[h] \ {arg[c]}]
                       ELSE agentScripts
    /\ Return(c)
    /\ UNCHANGED <<managerVars, mapVars, closeVars, scriptVars, agent, notices,
                   disposing, crash>>

-----------------------------------------------------------------------------
(* The end of the manager.                                                 *)

\* dispose, with the last reference gone: nobody is inside
\* obtain_session_for.  CloseTask runs up to its snapshot of the sessions.
Dispose(c) ==
    /\ op[c] = "idle" /\ ~closed /\ SessionsUnused
    /\ \A d \in Callers : op[d] \notin Obtaining
    /\ closed' = TRUE
    /\ IF service = None
       THEN finalized' = TRUE /\ UNCHANGED callVars
       ELSE /\ disposing' = SessionSnapshot
            /\ Goto(c, "dispose")
            /\ UNCHANGED finalized
    /\ UNCHANGED <<service, running, provider, localSession, mapVars, closeVars,
                   scriptVars, agentVars, crash>>

\* CloseTask closes the next session of its snapshot and waits for it, unless
\* somebody else has begun to close it.
DisposeCloses(c, h) ==
    /\ op[c] = "dispose" /\ h \in disposing
    /\ disposing' = disposing \ {h}
    /\ IF manager[h]
       THEN BeginClose(h, TRUE) /\ Enter(c, "dispose_wait", h)
       ELSE UNCHANGED <<mapVars, closeVars, crash, op, arg>>
    /\ UNCHANGED <<managerVars, scriptVars, agentVars>>

DisposeResumes(c) ==
    /\ op[c] = "dispose_wait" /\ closer[arg[c]] = "done"
    /\ Enter(c, "dispose", None)
    /\ UNCHANGED <<managerVars, mapVars, closeVars, scriptVars, agentVars,
                   disposing, crash>>

\* service.stop () closes the connections to the agents it serves, in silence.
ServiceStopped(c) ==
    /\ op[c] = "dispose" /\ disposing = {}
    /\ running' = running \ {service}
    /\ agent' = [h \in Handles |-> IF agent[h] = service THEN "gone" ELSE agent[h]]
    /\ agentScripts' = [h \in Handles |->
                           IF agent[h] = service THEN {} ELSE agentScripts[h]]
    /\ service' = None /\ provider' = None /\ localSession' = None
    /\ byPid' = [p \in Pids |-> None] /\ byHandle' = {}
    /\ finalized' = TRUE
    /\ Return(c)
    /\ UNCHANGED <<closed, pid, manager, closeVars, scriptVars, notices,
                   disposing, crash>>

-----------------------------------------------------------------------------
\* An agent vanishes: its process dies or its connection is cut.
AgentVanishes(h) ==
    /\ Live(h)
    /\ agent' = [agent EXCEPT ![h] = "gone"]
    /\ agentScripts' = [agentScripts EXCEPT ![h] = {}]
    /\ notices' = notices \cup {h}
    /\ UNCHANGED <<managerVars, mapVars, closeVars, scriptVars, callVars, crash>>

\* What the main loop and the services do for a call that is in flight.
CallProceeds(c) ==
    \/ ServiceStarted(c) \/ HostSessionCreated(c) \/ Attached(c)
    \/ (\E h \in Handles : SessionObtained(c, h)) \/ ObtainFailed(c)
    \/ CloseReturns(c)
    \/ (\E x \in Scripts : ScriptCreated(c, x)) \/ CreateFailed(c)
    \/ ScriptCallReturns(c)
    \/ (\E h \in Handles : DisposeCloses(c, h))
    \/ DisposeResumes(c) \/ ServiceStopped(c)

CloseProceeds(h) ==
    \/ \E x \in Scripts : CloseUnloadsScript(h, x)
    \/ CloseScriptDestroyed(h) \/ CloseAsksAgent(h) \/ CloseEnds(h)

ClientCalls(c) ==
    \/ \E p \in Pids : ObtainSession(c, p)
    \/ \E h \in Handles : CloseSession(c, h) \/ CreateScript(c, h)
    \/ \E x \in Scripts : UseScript(c, x) \/ UnloadScript(c, x)
    \/ Dispose(c)

Next ==
    /\ crash = "no" /\ UNCHANGED inTurn
    /\ \/ \E c \in Callers : ClientCalls(c) \/ CallProceeds(c)
       \/ \E h \in Handles :
              CloseProceeds(h) \/ AgentSessionClosed(h) \/ AgentVanishes(h)

Spec == Init /\ [][Next]_vars

-----------------------------------------------------------------------------
(* Properties.                                                             *)

TypeOK ==
    /\ inTurn \in BOOLEAN /\ closed \in BOOLEAN /\ finalized \in BOOLEAN
    /\ {service, provider, localSession} \subseteq Services \cup {None}
    /\ running \subseteq Services
    /\ byPid \in [Pids -> Handles \cup {None}]
    /\ byHandle \subseteq Handles
    /\ pid \in [Handles -> Pids \cup {None}]
    /\ manager \in [Handles -> BOOLEAN] /\ internal \in [Handles -> BOOLEAN]
    /\ scripts \in [Handles -> SUBSET Scripts]
    /\ closer \in [Handles -> Closers]
    /\ todo \in [Handles -> SUBSET Scripts]
    /\ unloading \in [Handles -> Scripts \cup {None}]
    /\ mayBlock \in [Handles -> BOOLEAN]
    /\ closedSignals \in [Handles -> Nat]
    /\ owner \in [Scripts -> Handles \cup {None, "unborn"}]
    /\ agent \in [Handles -> Services \cup {"unborn", "gone"}]
    /\ agentScripts \in [Handles -> SUBSET Scripts]
    /\ notices \subseteq Handles
    /\ op \in [Callers -> Ops]
    /\ arg \in [Callers -> Pids \cup Handles \cup Scripts \cup {None}]
    /\ disposing \subseteq Handles
    /\ crash \in Crashes

\* session_by_pid and session_by_handle hold the same sessions, each under its
\* own pid, and those are exactly the sessions whose manager is not null: the
\* condition both assertions of _release_session rest on.
MapsAgree ==
    /\ \A h \in Handles : manager[h] <=> h \in byHandle
    /\ \A h \in byHandle : pid[h] \in Pids /\ byPid[pid[h]] = h
    /\ \A p \in Pids : byPid[p] # None => byPid[p] \in byHandle /\ pid[byPid[p]] = p

\* assert (session_did_exist) and assert (handle != 0) in _release_session
\* never fail, whoever closes a session and whenever its agent vanishes.
NoReleaseAssertionFails ==
    crash \notin {"assert_session_did_exist", "assert_handle"}

\* A session a client can still obtain has a living agent, or its end is
\* about to be announced: no obtain_session_for returns a corpse for ever.
RegisteredSessionsAreWatched ==
    \A h \in byHandle : Live(h) \/ h \in notices

\* Session.manager is an unowned pointer: once dispose has run no Session may
\* still hold it.
NoDanglingManager == finalized => \A h \in Handles : ~manager[h]

\* If clients take turns, no Script stays attached to a Session that has
\* emitted closed (), and no operation works on a null Session or a null
\* AgentSession, however agents vanish meanwhile.
ScriptsDieWithTheirSession ==
    inTurn =>
        /\ \A h \in Handles : closer[h] = "done" =>
               scripts[h] = {} /\ \A x \in Scripts : owner[x] # h
        /\ crash \notin {"null_session", "null_internal_session"}

\* ... and every API call returns.
EveryCallReturns ==
    \A c \in Callers : inTurn /\ op[c] # "idle" ~> op[c] = "idle"

\* The life of a Session as its clients see it.
SessionState ==
    [h \in Handles |->
        CASE pid[h] = None -> "unborn"
          [] pid[h] # None /\ manager[h] -> "open"
          [] pid[h] # None /\ ~manager[h] /\ closedSignals[h] = 0 -> "closing"
          [] OTHER -> "closed"]

Registry == INSTANCE SessionRegistry WITH state <- SessionState, gone <- finalized

\* The manager implements the registry of sessions it promises: one open session per
\* process, each released once and then closed once, and none of them left with its
\* unowned pointer to the manager when that is gone.
ImplementsRegistry == Registry!Spec
=============================================================================
