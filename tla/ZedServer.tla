------------------------------ MODULE ZedServer ------------------------------
(***************************************************************************)
(* zed-server (zed/src/zed-server.vala): a D-Bus server as the agent's is, *)
(* which lends its host session to whoever connects, and goes away when    *)
(* nobody has been connected for a while.  Of AgentServer it has the peers *)
(* and their connections, the registrations and the main loop; "active"    *)
(* are its connections.                                                    *)
(*                                                                         *)
(* The host session's close is in LinuxHost and, for what they share, in   *)
(* DBusHostSession.  The option that switches the idle timer off is not.   *)
(***************************************************************************)
EXTENDS AgentServer

VARIABLES
    idleTimer,      \* a timeout source is attached: shutdown_source
    hostSession     \* "open", "closing" or "closed"; "none" where there is no zed-server

zedVars == <<vars, idleTimer, hostSession>>

\* What zed-server has not, or does not need: it watches whom it has accepted.
noneOfZed == <<watched, late, closing, dead, shutdown, todo, script_vars>>

ZedInit == Init /\ idleTimer = TRUE /\ hostSession = "open"

-----------------------------------------------------------------------------
MutantCancels(n) == FALSE
\* connections.size == 1, when one was added: cancel_shutdown.
Cancels(n) == n = 1

\* The handler of new_connection, and the server, drop a connection that comes when
\* the server has been stopped, and one the object cannot be registered on.
Accept(k) ==
    /\ k \in arriving /\ arriving' = arriving \ {k}
    /\ \/ /\ listening
          /\ registered' = registered \cup {k} /\ active' = active \cup {k}
          /\ idleTimer' = (idleTimer /\ ~Cancels(Cardinality(active')))
          /\ UNCHANGED link
       \/ /\ link' = [link EXCEPT ![k] = "closed"]
          /\ UNCHANGED <<registered, active, idleTimer>>
    /\ UNCHANGED <<missed, listening, hostSession, exit>>

\* on_connection_closed, of a connection that has been accepted: without any the
\* timer is started anew.
ConnectionGone(k) ==
    /\ link[k] = "vanished" /\ link' = [link EXCEPT ![k] = "closed"]
    /\ IF k \in arriving
       THEN missed' = missed \cup {k} /\ UNCHANGED <<registered, active, idleTimer>>
       ELSE /\ Unregister(k) /\ active' = active \ {k}
            /\ idleTimer' = (idleTimer \/ active' = {})
            /\ UNCHANGED missed
    /\ UNCHANGED <<arriving, listening, hostSession, exit>>

\* The timer fires: the server is stopped and the host session closed ...
IdleTimeout ==
    /\ idleTimer /\ idleTimer' = FALSE
    /\ listening' = FALSE /\ hostSession' = "closing"
    /\ UNCHANGED <<link, arriving, missed, active, registered, exit>>

\* ... and the main loop quits.
HostSessionClosed ==
    /\ hostSession = "closing" /\ hostSession' = "closed"
    /\ exit' = "quit"
    /\ UNCHANGED <<link, arriving, missed, listening, active, registered, idleTimer>>

ZedPeers == \E k \in Conns : PeerConnects(k) \/ PeerVanishes(k)

ZedProceeds ==
    \/ \E k \in Conns : Accept(k) \/ ConnectionGone(k)
    \/ IdleTimeout \/ HostSessionClosed

ZedNext ==
    /\ exit = "no"
    /\ \/ ZedPeers /\ UNCHANGED <<exit, idleTimer, hostSession>>
       \/ ZedProceeds /\ UNCHANGED noneOfZed

ZedSpec == ZedInit /\ [][ZedNext]_zedVars

-----------------------------------------------------------------------------
(* Properties.                                                             *)

ZedOK == TypeOK /\ idleTimer \in BOOLEAN /\ hostSession \in {"none", "open", "closing", "closed"}

\* The timer runs exactly while nobody is connected, however peers come and go
\* around its end: once the server has begun to close its host session nobody is
\* using it, or ever will.
NobodyIsCutOff ==
    /\ hostSession = "open" => (idleTimer <=> active = {})
    /\ hostSession \in {"closing", "closed"} => active = {} /\ registered = {} /\ ~listening
=============================================================================
