---------------------------- MODULE FruityControl ----------------------------
(***************************************************************************)
(* FruityBackend with the usbmuxd clients of its start                     *)
(* (zed/src/core/fruity/fruity-client.vala): a first client probes the     *)
(* version of the protocol, a second, the control client, listens.  Each   *)
(* makes one query; a coroutine, process_incoming_messages, reads its      *)
(* result and, after it, the reports.  The connection may break at any     *)
(* time.  Every step is one of FruityBackend's or leaves it as it is.      *)
(*                                                                         *)
(* usbmuxd answers a request it has got in full, if ever.  What is unread  *)
(* when the connection breaks is lost.                                     *)
(***************************************************************************)
EXTENDS FruityBackend

VARIABLES
    client,     \* the client that start has made last: "none", "probe", "control"
    connection, \* its connection to usbmuxd: "none", "up", "lost"
    reader,     \* its process_incoming_messages: "none", "reading", "cancelled",
                \* "ended"
    query,      \* its Listen query: "none", "writing", "waiting"
    answer,     \* the result usbmuxd has sent: "none", "success", "failure"
    unwritten,  \* the clients with a pending response whose query has thrown
    misresumed  \* a query was resumed when it did not wait for its response

clients == <<client, connection, reader, query, answer, unwritten, misresumed>>
allVars == <<vars, clients>>

ControlInit ==
    /\ Init
    /\ client = "none" /\ connection = "none" /\ reader = "none"
    /\ query = "none" /\ answer = "none"
    /\ unwritten = {} /\ misresumed = FALSE

-----------------------------------------------------------------------------
(* Pieces of the handlers.                                                 *)

\* start has a client whose establish has not returned yet.
Establishing == client # "none" /\ reader = "none" /\ backend = "probing"

\* is_processing_messages.
IsProcessing == reader = "reading"

\* The version the probe has found.
VersionOf(result) == IF result = "success" THEN 1 ELSE 2

\* create_client returns another client, and start begins to establish it.
ControlClient(v) ==
    /\ CreateClient(v)
    /\ client' = "control"
    /\ connection' = "none" /\ reader' = "none" /\ query' = "none"

\* The query of enable_listen_mode returns, to create_client or to start.
Listened(result) ==
    /\ answer' = "none"
    /\ IF client = "probe"
       THEN ControlClient(VersionOf(result))
       ELSE /\ IF result = "success" THEN Listen ELSE ListenFails
            /\ query' = "none" /\ UNCHANGED <<client, connection>>

\* reset ends the loop of a reader.
ReaderEnds ==
    /\ reader' = "ended"
    /\ UNCHANGED <<vars, client, connection, query, answer>>

MutantCompleted == ReaderEnds
\* A read has failed: the response that is pending is completed with an error.  If
\* it was the probe's, start has another client when reset is called.
Completed ==
    IF query = "waiting"
    THEN Listened("failure") /\ (client = "control" => reader' = "ended")
    ELSE ReaderEnds

-----------------------------------------------------------------------------
(* Establishing and asking.                                                *)

StartProbing ==
    /\ Start /\ client' = "probe"
    /\ UNCHANGED <<connection, reader, query, answer, unwritten, misresumed>>

\* The reader starts, establish returns, and the request is written.
Established ==
    /\ Establishing
    /\ connection' = "up" /\ reader' = "reading" /\ query' = "writing"
    /\ UNCHANGED <<vars, client, answer, unwritten, misresumed>>

\* usbmuxd cannot be reached.  Without it the version is taken to be 1.
EstablishFails ==
    /\ Establishing
    /\ IF client = "probe" THEN ControlClient(1)
       ELSE ListenFails /\ UNCHANGED <<client, connection, reader, query>>
    /\ UNCHANGED <<answer, unwritten, misresumed>>

WriteCompletes ==
    /\ query = "writing" /\ query' = "waiting"
    /\ UNCHANGED <<vars, client, connection, reader, answer, unwritten, misresumed>>

\* The query throws, and its response stays pending.
WriteFails ==
    /\ query = "writing" /\ connection = "lost"
    /\ Listened("failure")
    /\ client = "control" => UNCHANGED reader
    /\ unwritten' = unwritten \cup {client}
    /\ UNCHANGED misresumed

-----------------------------------------------------------------------------
(* usbmuxd.                                                                *)

\* Having said yes it reports.
Answer(result) ==
    /\ query = "waiting" /\ connection = "up" /\ answer = "none"
    /\ answer' = result
    /\ IF client = "control" /\ result = "success" THEN Ask ELSE UNCHANGED vars
    /\ UNCHANGED <<client, connection, reader, query, unwritten, misresumed>>

ConnectionBreaks ==
    /\ connection = "up" /\ connection' = "lost"
    /\ answer' = "none"
    /\ IF backend = "listening" THEN ConnectionLost ELSE UNCHANGED vars
    /\ UNCHANGED <<client, reader, query, unwritten, misresumed>>

-----------------------------------------------------------------------------
(* Reading.                                                                *)

\* handle_result_message completes the response that is pending.
ReadResult ==
    /\ IsProcessing /\ answer # "none"
    /\ Listened(answer)
    /\ client = "control" => UNCHANGED reader
    /\ UNCHANGED <<unwritten, misresumed>>

\* The connection is lost or close has cancelled the read.  A query that is still
\* writing, or is over, is resumed as well.
ReadFails ==
    /\ reader = "cancelled" \/ (IsProcessing /\ connection = "lost")
    /\ IF query = "writing" \/ client \in unwritten
       THEN /\ misresumed' = TRUE
            /\ UNCHANGED <<vars, client, connection, reader, query, answer>>
       ELSE Completed /\ UNCHANGED misresumed
    /\ UNCHANGED unwritten

\* So it is by the reader of the probe, which start has left behind.
ProbeReadFails ==
    /\ "probe" \in unwritten /\ client # "probe"
    /\ misresumed' = TRUE
    /\ UNCHANGED <<vars, client, connection, reader, query, answer, unwritten>>

-----------------------------------------------------------------------------
(* Closing.                                                                *)

\* close cancels the read, unless there is none: then it throws at once.
Cancelled == IF IsProcessing THEN "cancelled" ELSE reader

Close ==
    /\ Stop
    /\ reader' = Cancelled
    /\ UNCHANGED <<client, connection, query, answer, unwritten, misresumed>>

\* Its idle source has a low priority, and comes after the reader.
Closed ==
    /\ ~IsProcessing /\ reader # "cancelled"
    /\ StopWalks
    /\ connection' = "none"
    /\ UNCHANGED <<client, reader, query, answer, unwritten, misresumed>>

-----------------------------------------------------------------------------
Asking ==
    \/ StartProbing \/ Established \/ EstablishFails
    \/ WriteCompletes \/ WriteFails

Reading == ReadResult \/ ReadFails \/ ProbeReadFails

\* The steps the clients have no part in, or only that of emitting a signal.
Others ==
    /\ \/ DeviceDetached \/ ReportIgnored \/ ProviderClosed \/ StopEnds
       \/ \E d \in Devices : Attach(d) \/ Detach(d)
       \/ \E p \in Providers :
              \/ OpenSucceeds(p) \/ OpenFails(p) \/ StopVisits(p)
              \/ \E succeeds \in BOOLEAN : DeviceAttached(p, succeeds)
    /\ UNCHANGED clients

Alive == ~crash /\ ~misresumed

ControlNext ==
    /\ Alive
    /\ \/ Asking \/ Reading \/ Close \/ Closed \/ ConnectionBreaks \/ Others
       \/ \E result \in {"success", "failure"} : Answer(result)

ControlSpec == ControlInit /\ [][ControlNext]_allVars

\* The timer of open fires; establish and writing end; what can be read is read; and
\* the coroutine stop goes on.  usbmuxd need not answer.
Fairness ==
    /\ \A p \in Providers :
           WF_allVars(/\ Alive /\ (OpenSucceeds(p) \/ OpenFails(p))
                      /\ UNCHANGED clients)
    /\ WF_allVars(Alive /\ (Established \/ EstablishFails))
    /\ WF_allVars(Alive /\ (WriteCompletes \/ WriteFails))
    /\ WF_allVars(Alive /\ (ReadResult \/ ReadFails))
    /\ WF_allVars(Alive /\ Closed)
    /\ WF_allVars(Alive /\ Stops /\ UNCHANGED clients)

FairSpec == ControlSpec /\ Fairness

-----------------------------------------------------------------------------
(* Properties.                                                             *)

ClientsOK ==
    /\ client \in {"none", "probe", "control"}
    /\ client = "none" => reader = "none" /\ query = "none"
    /\ connection \in {"none", "up", "lost"}
    /\ reader \in {"none", "reading", "cancelled", "ended"}
    /\ query \in {"none", "writing", "waiting"}
    /\ answer \in {"none", "success", "failure"}
    /\ unwritten \subseteq {"probe", "control"} /\ misresumed \in BOOLEAN

\* Whether usbmuxd has reported a device before start returned, after, or not at
\* all because it was attached earlier: once every report is read, the backend has
\* providers for the devices that are attached, and no other, but for devices
\* whose opening has failed.
MapFollowsPlugs ==
    backend = "listening" /\ reports = <<>> =>
        \A d \in Devices :
            \/ provider[d] # None <=> d \in plugged
            \/ \E p \in Providers : device[p] = d /\ opening[p] = "failed"

\* start returns, whether usbmuxd cannot be reached, refuses, or breaks off at any point
\* of either query, that between its answer and the reading of it included -- unless
\* the connection stays up and usbmuxd never answers, or a connection that breaks makes
\* the reader resume the query too early.
StartReturns ==
    backend \in {"probing", "asking"} ~>
        \/ backend \notin {"probing", "asking"} \/ misresumed
        \/ [](query = "waiting" /\ connection = "up" /\ answer = "none")

\* Every opening ends in a minute, and stop ends, unless an opening that fails
\* meanwhile changes the map it walks.
EverythingSettles ==
    /\ \A p \in Providers :
           opening[p] = "waiting" ~> opening[p] # "waiting" \/ ~Alive
    /\ backend = "closing" ~> backend = "stopped" \/ ~Alive
=============================================================================
