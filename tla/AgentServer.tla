----------------------------- MODULE AgentServer -----------------------------
(***************************************************************************)
(* The agent inside a target process: AgentServer                          *)
(* (zed/lib/agent/agent.vala) and its ScriptEngine (script-engine.vala).   *)
(*                                                                         *)
(* The agent's thread runs one main loop.  A D-Bus server accepts peers on *)
(* threads of its own and queues new_connection on that loop; the signal   *)
(* closed of a connection is queued too, possibly first.  The agent leaves *)
(* the process when it is told to close or when its last peer has gone: it *)
(* stops listening and drops the script engine at once, closes the         *)
(* connections a little later, and then quits its loop.                    *)
(***************************************************************************)
EXTENDS Naturals, FiniteSets

CONSTANTS
    Conns,      \* the connections peers make
    MaxScripts  \* a bound on the scripts they create

ASSUME MaxScriptsIsNat == MaxScripts \in Nat
ASSUME ConnsIsFinite == IsFiniteSet(Conns)

ScriptIds == 1..MaxScripts

VARIABLES
    link,       \* each connection: "vanished" when its closed signal is queued
    arriving,   \* connections whose new_connection is queued
    watched,    \* connections on_connection_closed is connected to
    missed,     \* connections whose closed signal found no handler
    late,       \* connections that came when the last had been closed
    listening,  \* the server is started and not stopped
    closing,    \* AgentServer.closing
    active,     \* active_connections
    dead,       \* dead_connections
    registered, \* the keys of registration_id_by_connection
    shutdown,   \* where close_connections_and_schedule_shutdown is
    todo,       \* the connections its present array still holds
    engine,     \* script_engine is not null
    lastScript, \* ScriptEngine.last_script_id
    scripts,    \* the keys of instance_by_id
    loaded,     \* the scripts whose code runs in the process
    exit        \* "no", "quit" of the main loop, or "aborted" on a null engine

peers == <<link, arriving, watched, missed, late>>
server == <<listening, closing, active, dead, registered, shutdown, todo>>
script_vars == <<engine, lastScript, scripts, loaded>>
vars == <<peers, server, script_vars, exit>>

Init ==
    /\ link = [k \in Conns |-> "none"]
    /\ arriving = {} /\ watched = {} /\ missed = {} /\ late = {}
    /\ listening = TRUE /\ closing = FALSE
    /\ active = {} /\ dead = {} /\ registered = {}
    /\ shutdown = "none" /\ todo = {}
    /\ engine = TRUE /\ lastScript = 0 /\ scripts = {} /\ loaded = {}
    /\ exit = "no"

-----------------------------------------------------------------------------
(* Pieces of the handlers.  A definition whose name starts with "Mutant" is *)
(* a bug this code does not have; it stands in for the definition after it *)
(* when the sensitivity of a property is tested.                           *)

MutantRemains(n) == FALSE
\* active_connections.size != 0, on which close_active_connections loops.
Remains(n) == n # 0

\* unregister: unset the registration id and unregister the object.
Unregister(k) == registered' = registered \ {k}

MutantIsLast(rest) == FALSE
MutantIsLastTwo(rest) == Cardinality(rest) < 2
\* active_connections.is_empty in on_connection_closed.
IsLast(rest) == rest = {}

\* ScriptEngine.shutdown unloads every script there is.
Unloaded == scripts

\* close (): an error if it has been called before; else stop the server, shut the
\* script engine down and let go of it, and come back in 100 ms.
CloseServer ==
    IF closing
    THEN UNCHANGED <<closing, listening, engine, scripts, loaded, shutdown>>
    ELSE /\ closing' = TRUE
         /\ listening' = FALSE
         /\ engine' = FALSE
         /\ scripts' = {} /\ loaded' = loaded \ Unloaded
         /\ shutdown' = "delay"

-----------------------------------------------------------------------------
(* Connections.                                                            *)

\* A peer connects and authenticates; the server's thread queues new_connection.
PeerConnects(k) ==
    /\ listening /\ link[k] = "none"
    /\ link' = [link EXCEPT ![k] = "open"]
    /\ arriving' = arriving \cup {k}
    /\ UNCHANGED <<watched, missed, late, server, script_vars>>

\* The handler of new_connection.
NewConnection(k) ==
    /\ k \in arriving
    /\ arriving' = arriving \ {k}
    /\ watched' = watched \cup {k}
    /\ late' = late \cup IF shutdown = "delay2" THEN {k} ELSE {}
    /\ registered' = registered \cup {k}
    /\ active' = active \cup {k}
    /\ UNCHANGED <<link, missed, listening, closing, dead, shutdown, todo,
                   script_vars>>

\* Registering the object fails: the agent closes, and the server drops a
\* connection the handler does not claim.
RegistrationFails(k) ==
    /\ k \in arriving
    /\ arriving' = arriving \ {k}
    /\ link' = [link EXCEPT ![k] = "closed"]
    /\ CloseServer
    /\ UNCHANGED <<watched, missed, late, active, dead, registered, todo,
                   lastScript>>

\* The peer's process ends, or it closes its end.
PeerVanishes(k) ==
    /\ link[k] = "open"
    /\ link' = [link EXCEPT ![k] = "vanished"]
    /\ UNCHANGED <<arriving, watched, missed, late, server, script_vars>>

\* closed is dispatched.  The connection is forgotten; without active connections
\* the agent closes, otherwise reap_dead_connections takes the dead ones.
ConnectionClosed(k) ==
    /\ link[k] = "vanished"
    /\ link' = [link EXCEPT ![k] = "closed"]
    /\ IF k \notin watched
       THEN /\ missed' = missed \cup {k}
            /\ UNCHANGED <<server, script_vars>>
       ELSE /\ Unregister(k)
            /\ active' = active \ {k}
            /\ IF IsLast(active \ {k})
               THEN CloseServer /\ dead' = dead \cup {k}
               ELSE /\ dead' = {}
                    /\ UNCHANGED <<closing, listening, shutdown, engine, scripts,
                                   loaded>>
            /\ UNCHANGED <<missed, todo, lastScript>>
    /\ UNCHANGED <<arriving, watched, late>>

-----------------------------------------------------------------------------
(* Calls of AgentSession's methods.                                        *)

\* GDBus dispatches a call of a connection the object is registered on.
Called(k) == link[k] = "open" /\ k \in registered

\* close (), by a peer.
CallClose(k) ==
    /\ Called(k)
    /\ CloseServer
    /\ UNCHANGED <<peers, active, dead, registered, todo, lastScript, exit>>

\* Every other method goes to script_engine, null or not.
OnEngine(k, Effect) ==
    /\ Called(k)
    /\ IF engine THEN Effect /\ UNCHANGED exit
       ELSE exit' = "aborted" /\ UNCHANGED <<lastScript, scripts, loaded>>
    /\ UNCHANGED <<peers, server, engine>>

CreateScript(k) ==
    /\ lastScript < MaxScripts
    /\ OnEngine(k, /\ lastScript' = lastScript + 1
                   /\ scripts' = scripts \cup {lastScript + 1}
                   /\ UNCHANGED loaded)

\* An unknown id is an error.
DestroyScript(k, s) ==
    OnEngine(k, /\ scripts' = scripts \ {s}
                /\ loaded' = IF s \in scripts THEN loaded \ {s} ELSE loaded
                /\ UNCHANGED lastScript)

LoadScript(k, s) ==
    OnEngine(k, /\ loaded' = IF s \in scripts THEN loaded \cup {s} ELSE loaded
                /\ UNCHANGED <<lastScript, scripts>>)

PostMessageToScript(k) == OnEngine(k, UNCHANGED <<lastScript, scripts, loaded>>)

-----------------------------------------------------------------------------
(* Shutting down.                                                          *)

Shutdown(from, to) == shutdown = from /\ shutdown' = to

\* 100 ms after close: reap_dead_connections, which closes what is closed.
ReapDeadConnections ==
    /\ Shutdown("delay", "reaped")
    /\ dead' = {}
    /\ UNCHANGED <<peers, listening, closing, active, registered, todo,
                   script_vars>>

\* close_active_connections takes all active connections into an array; when
\* there are none it returns, and the loop is to quit in 100 ms.
CloseActiveConnections ==
    /\ shutdown = "reaped" /\ todo = {}
    /\ IF Remains(Cardinality(active))
       THEN /\ todo' = active /\ active' = {}
            /\ UNCHANGED shutdown
       ELSE shutdown' = "delay2" /\ UNCHANGED <<todo, active>>
    /\ UNCHANGED <<peers, listening, closing, dead, registered, script_vars>>

\* The next one of the array is unregistered and closed.
CloseNext(k) ==
    /\ shutdown = "reaped" /\ k \in todo
    /\ todo' = todo \ {k}
    /\ Unregister(k)
    /\ link' = [link EXCEPT ![k] = IF @ = "open" THEN "closed" ELSE @]
    /\ UNCHANGED <<arriving, watched, missed, late, listening, closing, active,
                   dead, shutdown, script_vars>>

\* main_loop.quit ().
Quit ==
    /\ Shutdown("delay2", "over")
    /\ exit' = "quit"
    /\ UNCHANGED <<peers, listening, closing, active, dead, registered, todo,
                   script_vars>>

-----------------------------------------------------------------------------
Connections == \E k \in Conns :
    \/ PeerConnects(k) \/ NewConnection(k) \/ RegistrationFails(k)
    \/ PeerVanishes(k) \/ ConnectionClosed(k)

Calls == \E k \in Conns :
    \/ CallClose(k) \/ CreateScript(k) \/ PostMessageToScript(k)
    \/ \E s \in ScriptIds : DestroyScript(k, s) \/ LoadScript(k, s)

ClosesDown ==
    \/ ReapDeadConnections \/ CloseActiveConnections
    \/ \E k \in Conns : CloseNext(k)

\* What the main loop owes the agent.
Dispatches == ClosesDown \/ \E k \in Conns : NewConnection(k) \/ ConnectionClosed(k)

\* Nothing happens after the loop has quit or the process has been aborted.
Next ==
    /\ exit = "no"
    /\ \/ (Connections \/ ClosesDown) /\ UNCHANGED exit
       \/ Calls \/ Quit

Spec == Init /\ [][Next]_vars

-----------------------------------------------------------------------------
(* Properties.                                                             *)

TypeOK ==
    /\ link \in [Conns -> {"none", "open", "vanished", "closed"}]
    /\ arriving \subseteq Conns /\ watched \subseteq Conns
    /\ missed \subseteq Conns /\ late \subseteq Conns
    /\ listening \in BOOLEAN /\ closing \in BOOLEAN /\ engine \in BOOLEAN
    /\ active \subseteq Conns /\ dead \subseteq Conns /\ registered \subseteq Conns
    /\ shutdown \in {"none", "delay", "reaped", "delay2", "over"}
    /\ todo \subseteq Conns
    /\ lastScript \in 0..MaxScripts
    /\ scripts \subseteq 1..lastScript /\ loaded \subseteq scripts
    /\ exit \in {"no", "quit", "aborted"}

\* The object is registered on exactly the connections that are active or are yet
\* to be closed by the shutdown, so a peer that was accepted can call the agent
\* until one end closes, and no object stays behind on a connection the agent has
\* seen close; and an agent that has had a peer and has none left is closing.
RegisteredWhileServed ==
    /\ registered = active \cup {k \in todo : link[k] # "closed" \/ k \in missed}
    /\ active # {} \/ watched = {} \/ closing

\* When the loop quits, every connection that came before the last one had been
\* closed is closed itself and unregistered, and no script's code is left running
\* in a process the agent's library may be unloaded from.
QuitLeavesNothingBehind ==
    exit = "quit" =>
        /\ registered \subseteq late
        /\ \A k \in watched \ late : link[k] # "open"
        /\ loaded = {}

\* The engine goes when a peer has closed the agent or could not be registered, or
\* else with the last peer: then the object is registered nowhere, so that nobody
\* who was being served calls a null engine, which is fatal to the target process.
EngineGoesWithItsLastPeer ==
    [][(\E k \in Conns : ConnectionClosed(k)) /\ ~engine' => ~engine \/ registered' = {}]_vars

\* The agent leaves its process once it has been told to, and once all the peers
\* that have connected are gone, unless the end of one was missed.
AgentLeaves ==
    /\ closing ~> exit # "no"
    /\ (\A k \in Conns : link[k] \in {"vanished", "closed"}) ~>
           exit # "no" \/ missed # {}
=============================================================================
