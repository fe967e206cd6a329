--------------------------- MODULE DBusHostSession ---------------------------
(***************************************************************************)
(* The list of D-Bus connections kept by BaseDBusHostSession               *)
(* (zed/src/core/host-session-service.vala), by TcpHostSessionProvider     *)
(* (zed/src/core/tcp/tcp-host-session.vala) and by                         *)
(* FruityHostSessionProvider (zed/src/core/fruity/fruity-host-session      *)
(* .vala), which reaches a device's ports through usbmuxd: connections are *)
(* opened to agents that are still starting, to the remote zed-server by   *)
(* create, are closed by close, and close by themselves when the peer      *)
(* vanishes.                                                               *)
(*                                                                         *)
(* All of it is on one main loop.  GDBus makes connections on a thread of  *)
(* its own and queues on the loop the completion of new_for_address and    *)
(* the signal closed, the second possibly first.  Each connection stands   *)
(* for one call of obtain_agent_session or create and for the peer it      *)
(* talks to.                                                               *)
(***************************************************************************)
EXTENDS Naturals, Sequences, SequencesExt, FiniteSets

CONSTANTS
    AgentConns,         \* connections of obtain_agent_session
    ServerConns,        \* connections of create
    MaxAttempts,        \* the bound of the retry loops, 2 * 20 in the code
    ObtainsWhileClosing \* whether close may find an obtain under way, or one follow

ASSUME ConnsAreDisjoint == AgentConns \cap ServerConns = {}
ASSUME MaxAttemptsIsPositive == MaxAttempts \in Nat \ {0}
ASSUME ObtainsWhileClosingIsBoolean == ObtainsWhileClosing \in BOOLEAN

Conns == AgentConns \cup ServerConns

VARIABLES
    usbmuxd,    \* whether the provider is Fruity's
    peer,       \* the process at the other end of each connection
    obtain,     \* where its obtain_agent_session or create is suspended
    attempt,    \* the i of its loop
    link,       \* the connection: "vanished" when its closed signal is queued
    watched,    \* connections on_connection_closed is connected to
    entries,    \* the list entries, by connection
    announced,  \* how often agent_session_closed was emitted for it
    missed,     \* closed signals that found no handler
    closing,    \* the coroutine close: "open", "awaiting" an entry's, "done"
    walk,       \* its loop over entries: the index, the size at the start, and
                \* the entry whose close is awaited
    crash       \* the assertion that has failed

obtaining == <<usbmuxd, peer, obtain, attempt>>
listed == <<watched, entries, announced, missed>>
closes == <<closing, walk>>
vars == <<obtaining, link, listed, closes, crash>>

Init ==
    /\ usbmuxd \in BOOLEAN
    /\ peer = [k \in Conns |-> "starting"]
    /\ obtain = [k \in Conns |-> "idle"]
    /\ attempt = [k \in Conns |-> 0]
    /\ link = [k \in Conns |-> "none"]
    /\ watched = {} /\ entries = <<>>
    /\ announced = [k \in Conns |-> 0] /\ missed = {}
    /\ closing = "open" /\ walk = [index |-> 0, size |-> 0, awaited |-> {}]
    /\ crash = "no"

-----------------------------------------------------------------------------
(* Pieces of the handlers.  A definition whose name starts with "Mutant" is *)
(* a bug this code does not have; it stands in for the definition after it *)
(* when the sensitivity of a property is tested.                           *)

MutantWatch(k) == watched
\* connection.closed.connect (on_connection_closed).
Watch(k) == watched \cup {k}

\* entries.get (n) is the entry that is found for the connection k, the first.
IsEntryOf(n, k) == entries[n] = k /\ \A m \in 1..n - 1 : entries[m] # k

\* entries.remove (entry_to_remove).
Without(n) == RemoveAt(entries, n)

\* agent_session_closed is emitted, unless the entry is that of a HostSession.
Announced(k) == IF k \in AgentConns THEN [announced EXCEPT ![k] = @ + 1]
                ELSE announced

MutantNextAttempt(k) == attempt[k]
\* i++.
NextAttempt(k) == attempt[k] + 1

\* i != 2 * 20.
TriesAgain(k) == attempt[k] # MaxAttempts

MutantClosedByUs(k) == TRUE
\* A connection this end has closed reports neither a vanished peer nor an
\* error; the signal of one whose peer is gone goes on to the entry.
ClosedByUs(k) == link[k] # "vanished"

-----------------------------------------------------------------------------
(* obtain_agent_session and create.                                        *)

UnderWay == {"dialing", "sleeping", "handshaking", "connected"}

Goto(k, place) == obtain' = [obtain EXCEPT ![k] = place]

\* The first attempt.
Obtain(k) ==
    /\ obtain[k] = "idle"
    /\ ObtainsWhileClosing \/ closing = "open"
    /\ Goto(k, "dialing")
    /\ attempt' = [attempt EXCEPT ![k] = 1]
    /\ UNCHANGED <<usbmuxd, peer, link, listed, closes, crash>>

\* connect_to_port returns: new_for_stream begins on the client's connection.
PortConnected(k) ==
    /\ usbmuxd /\ obtain[k] = "dialing" /\ peer[k] = "listening"
    /\ Goto(k, "handshaking")
    /\ UNCHANGED <<usbmuxd, peer, attempt, link, listed, closes, crash>>

\* GDBus's thread has connected and authenticated; the completion is queued.
Connected(k) ==
    /\ obtain[k] = (IF usbmuxd THEN "handshaking" ELSE "dialing")
    /\ peer[k] = "listening"
    /\ Goto(k, "connected")
    /\ link' = [link EXCEPT ![k] = "open"]
    /\ UNCHANGED <<usbmuxd, peer, attempt, listed, closes, crash>>

\* Nobody listens, or obtain meets another error: wait 50 ms, or give up, which
\* create does at once on a device.
Refused(k) ==
    /\ obtain[k] = "dialing"
    /\ peer[k] # "listening" \/ k \in AgentConns
    /\ Goto(k, IF usbmuxd /\ k \in ServerConns THEN "failed"
               ELSE IF TriesAgain(k) THEN "sleeping" ELSE "timed_out")
    /\ UNCHANGED <<usbmuxd, peer, attempt, link, listed, closes, crash>>

\* The errors that are not retried: in create one that is not a refusal; with
\* usbmuxd that it cannot be reached, or that the peer goes in the handshake.
Fails(k) ==
    /\ \/ obtain[k] = "dialing" /\ (usbmuxd \/ k \in ServerConns)
       \/ obtain[k] = "handshaking" /\ peer[k] = "gone"
    /\ Goto(k, "failed")
    /\ UNCHANGED <<usbmuxd, peer, attempt, link, listed, closes, crash>>

\* The TimeoutSource resumes the coroutine.
TriesNext(k) ==
    /\ obtain[k] = "sleeping"
    /\ Goto(k, "dialing")
    /\ attempt' = [attempt EXCEPT ![k] = NextAttempt(k)]
    /\ UNCHANGED <<usbmuxd, peer, link, listed, closes, crash>>

\* new_for_address returns: the proxy is made (a peer that has gone does not
\* make get_proxy_sync fail), the entry added and the handler connected.
Obtained(k) ==
    /\ obtain[k] = "connected"
    /\ Goto(k, "returned")
    /\ entries' = Append(entries, k)
    /\ watched' = Watch(k)
    /\ UNCHANGED <<usbmuxd, peer, attempt, link, announced, missed, closes,
                   crash>>

-----------------------------------------------------------------------------
(* The peers.                                                              *)

PeerListens(k) ==
    /\ peer[k] = "starting"
    /\ peer' = [peer EXCEPT ![k] = "listening"]
    /\ UNCHANGED <<usbmuxd, obtain, attempt, link, listed, closes, crash>>

\* The process ends, and the connection with it: closed is queued.
PeerVanishes(k) ==
    /\ peer[k] # "gone"
    /\ peer' = [peer EXCEPT ![k] = "gone"]
    /\ link' = [link EXCEPT ![k] = IF @ = "open" THEN "vanished" ELSE @]
    /\ UNCHANGED <<usbmuxd, obtain, attempt, listed, closes, crash>>

\* closed is dispatched to on_connection_closed, if that is connected already.
ConnectionClosed(k) ==
    /\ link[k] = "vanished"
    /\ link' = [link EXCEPT ![k] = "closed"]
    /\ IF k \notin watched
       THEN missed' = missed \cup {k} /\ UNCHANGED <<entries, announced, crash>>
       ELSE /\ UNCHANGED missed
            /\ IF ClosedByUs(k)
               THEN UNCHANGED <<entries, announced, crash>>
               ELSE \/ \E n \in 1..Len(entries) :
                           /\ IsEntryOf(n, k) /\ entries' = Without(n)
                           /\ announced' = Announced(k)
                           /\ UNCHANGED crash
                    \/ /\ ~Contains(entries, k)
                       /\ crash' = "entry_to_remove"
                       /\ UNCHANGED <<entries, announced>>
    /\ UNCHANGED <<obtaining, watched, closes>>

-----------------------------------------------------------------------------
(* close.                                                                  *)

\* foreach goes by index up to the size the list had: to the next entry, whose close
\* it awaits, or to the end, where the list is cleared; a list that has shrunk fails
\* get's assertion on the index.
WalkFrom(index, size) ==
    \/ /\ index >= size
       /\ closing' = "done" /\ entries' = <<>>
       /\ walk' = [index |-> index, size |-> size, awaited |-> {}]
       /\ UNCHANGED <<link, crash>>
    \/ /\ index < size /\ index >= Len(entries)
       /\ crash' = "index"
       /\ UNCHANGED <<closes, entries, link>>
    \/ /\ index < size /\ index < Len(entries)
       /\ closing' = "awaiting"
       /\ LET k == entries[index + 1]
          IN  /\ link' = [link EXCEPT ![k] = IF @ = "open" THEN "closed" ELSE @]
              /\ walk' = [index |-> index + 1, size |-> size, awaited |-> {k}]
       /\ UNCHANGED <<entries, crash>>

\* An empty list is cleared at once.
Close ==
    /\ closing = "open"
    /\ ObtainsWhileClosing \/ \A k \in Conns : obtain[k] \notin UnderWay
    /\ WalkFrom(0, Len(entries))
    /\ UNCHANGED <<obtaining, watched, announced, missed>>

\* connection.close () completes and the loop goes on; on a connection whose peer was
\* gone already it fails, and that is queued behind the closed signal.
EntryClosed ==
    /\ closing = "awaiting"
    /\ \A k \in walk.awaited : link[k] = "closed"
    /\ WalkFrom(walk.index, walk.size)
    /\ UNCHANGED <<obtaining, watched, announced, missed>>

-----------------------------------------------------------------------------
HostSteps ==
    \/ \E k \in Conns :
           \/ Obtain(k) \/ PortConnected(k) \/ Connected(k) \/ Refused(k)
           \/ Fails(k) \/ TriesNext(k) \/ Obtained(k) \/ ConnectionClosed(k)
    \/ Close \/ EntryClosed

PeerSteps == \E k \in Conns : PeerListens(k) \/ PeerVanishes(k)

\* A failed assertion ends the program.
Next == crash = "no" /\ (HostSteps \/ PeerSteps)

Spec == Init /\ [][Next]_vars

\* The main loop dispatches what is ready and GDBus's thread works; nobody has to
\* obtain or to close, and peers may take for ever to listen.
Fairness ==
    /\ \A k \in Conns :
           /\ WF_vars(crash = "no" /\ (\/ PortConnected(k) \/ Connected(k)
                                      \/ Refused(k) \/ Fails(k)))
           /\ WF_vars(crash = "no" /\ TriesNext(k))
           /\ WF_vars(crash = "no" /\ Obtained(k))
           /\ WF_vars(crash = "no" /\ ConnectionClosed(k))
    /\ WF_vars(crash = "no" /\ EntryClosed)

FairSpec == Spec /\ Fairness

-----------------------------------------------------------------------------
(* Properties.                                                             *)

TypeOK ==
    /\ peer \in [Conns -> {"starting", "listening", "gone"}]
    /\ obtain \in [Conns -> UnderWay \cup {"idle", "returned", "timed_out",
                                         "failed"}]
    /\ attempt \in [Conns -> 0..MaxAttempts]
    /\ link \in [Conns -> {"none", "open", "vanished", "closed"}]
    /\ watched \subseteq Conns /\ missed \subseteq Conns
    /\ entries \in Seq(Conns)
    /\ announced \in [Conns -> Nat]
    /\ closing \in {"open", "awaiting", "done"}
    /\ walk \in [index : Nat, size : Nat, awaited : SUBSET Conns]
    /\ crash \in {"no", "entry_to_remove", "index"}

\* entries holds every connection that was handed out and is not closed, once, until
\* close has cleared it; so assert (entry_to_remove != null) holds whenever a peer
\* vanishes, before, during or after close.  The end of an agent is announced at most
\* once, only when the agent is gone and this end had not closed it; and its entry
\* does not outlive the announcement.
EntriesAreTheConnections ==
    /\ \A m, n \in 1..Len(entries) : entries[m] = entries[n] => m = n
    /\ \A k \in Conns : obtain[k] = "returned" /\ link[k] \in {"open", "vanished"} =>
           Contains(entries, k) /\ k \in watched
    /\ \A k \in Conns : announced[k] > 0 =>
           /\ announced[k] = 1 /\ k \in AgentConns
           /\ peer[k] = "gone" /\ link[k] = "closed"
           /\ ~Contains(entries, k)
    /\ crash # "entry_to_remove"

\* assert (entry_to_remove != null) in on_connection_closed.
EntryIsFound == crash # "entry_to_remove"

\* A client that was handed an agent session whose agent goes away is told so,
\* unless the agent was gone before its closed handler was connected, or close
\* has begun.
EachEndIsAnnounced ==
    \A k \in AgentConns :
        (obtain[k] = "returned" /\ peer[k] = "gone") ~>
            announced[k] = 1 \/ k \in missed \/ closing # "open"

\* An obtain or create ends, at the latest after MaxAttempts attempts; close ends
\* too, unless a peer that vanished meanwhile has shortened the list under it.
EveryCallEnds ==
    /\ \A k \in Conns : obtain[k] \in UnderWay ~>
           obtain[k] \notin UnderWay \/ crash # "no"
    /\ closing = "awaiting" ~> closing = "done" \/ crash # "no"
=============================================================================
