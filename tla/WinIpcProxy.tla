----------------------------- MODULE WinIpcProxy -----------------------------
(***************************************************************************)
(* The two ends of a WinIpc pipe (zed/lib/winipc/proxy.vala and            *)
(* proxy-glue.c): ServerProxy and ClientProxy, how they are established    *)
(* and closed, the handlers registered with them, and the queries and      *)
(* notifications that go both ways.                                        *)
(*                                                                         *)
(* Each end is a main loop of its own; the pipe between them carries       *)
(* messages in order.  A coroutine, process_messages, reads them, and      *)
(* query waits for the response with its request's id.  Windows' side is   *)
(* modelled from how the code uses it: a server that disconnects throws    *)
(* away what its client has not read, a client that closes its handle does *)
(* not, and a read that had completed when its handle was closed still     *)
(* delivers its message.                                                   *)
(***************************************************************************)
EXTENDS Naturals, Sequences, FiniteSets

CONSTANTS
    ServerQueries, ClientQueries,    \* bounds on the queries made at each end,
    ServerNotifies, ClientNotifies,  \* on the notifications it emits,
    ServerChanges, ClientChanges,    \* and on the changes of its handlers
    Handlers,                        \* what its owner registers to begin with
    Verbs                            \* the verbs queried: see below

ASSUME BoundsAreNat ==
    /\ ServerQueries \in Nat /\ ClientQueries \in Nat
    /\ ServerNotifies \in Nat /\ ClientNotifies \in Nat
    /\ ServerChanges \in Nat /\ ClientChanges \in Nat
\* Verbs that have a handler that returns at once, an asynchronous one, or none
\* that accepts the argument.
ASSUME VerbsAreKnown == Verbs \subseteq {"sync", "async", "unknown"}

Peers == {"server", "client"}
Handled == {"sync", "async", "notify"}
ASSUME HandlersAreKnown == Handlers \in [Peers -> SUBSET Handled]

Other(p) == IF p = "server" THEN "client" ELSE "server"
MaxQueries(p) == IF p = "server" THEN ServerQueries ELSE ClientQueries
MaxNotifies(p) == IF p = "server" THEN ServerNotifies ELSE ClientNotifies
MaxChanges(p) == IF p = "server" THEN ServerChanges ELSE ClientChanges
Ids == 1..(IF ServerQueries > ClientQueries THEN ServerQueries
           ELSE ClientQueries)

VARIABLES
    pipe,        \* whether Proxy.pipe is not null
    namedPipe,   \* the named pipe: "listening", "connected", "broken", "gone"
    phase,       \* how far establish has got
    sources,     \* the sources of the server's win_ipc_proxy_wait_for_operation
    completions, \* how often that operation has completed
    reading,     \* process_messages waits for a message
    hasBeenClosed,
    signals,     \* remote_peer_vanished of the closed signals emitted
    chan,        \* the messages on their way to an end
    lastRequest, \* Proxy.last_request_id
    pending,     \* ids in Proxy.pending_responses
    verb,        \* the verb of each query
    result,      \* what each query has returned
    busy,        \* ids of the requests whose asynchronous handler is at work
    handled,     \* how often the other end has run a handler for a query
    registered,  \* what an end has a handler for: verbs, and "notify"
    changes,     \* how often that has changed
    emitted,     \* the number of notifications an end has written
    heard        \* the other's notifications its handlers were called with

pipe_vars == <<pipe, namedPipe, phase, sources, completions, hasBeenClosed, signals>>
query_vars == <<lastRequest, pending, verb, result, busy, handled>>
handler_vars == <<registered, changes>>
notify_vars == <<emitted, heard>>
proxyVars == <<pipe_vars, reading, chan, query_vars, handler_vars, notify_vars>>

Requests == [type : {"request"}, id : Ids, verb : Verbs]
Responses == [type : {"response"}, id : Ids, success : BOOLEAN]
Notifications == [type : {"notify"}, number : Nat]
Waiting == [status |-> "waiting"]
NotAsked == [status |-> "none"]
Results == [status : {"returned"}, from : Ids, success : BOOLEAN]

\* create_named_pipe makes one instance of the pipe.
NewPipe == "listening"

ProxyInit ==
    /\ pipe = [p \in Peers |-> p = "server"]
    /\ namedPipe = NewPipe
    /\ phase = [p \in Peers |-> "new"]
    /\ sources = {} /\ completions = 0
    /\ reading = [p \in Peers |-> FALSE]
    /\ hasBeenClosed = [p \in Peers |-> FALSE]
    /\ signals = [p \in Peers |-> <<>>]
    /\ chan = [p \in Peers |-> <<>>]
    /\ lastRequest = [p \in Peers |-> 1]
    /\ pending = [p \in Peers |-> {}]
    /\ verb = [p \in Peers |-> [i \in Ids |-> "unknown"]]
    /\ result = [p \in Peers |-> [i \in Ids |-> NotAsked]]
    /\ busy = [p \in Peers |-> {}]
    /\ handled = [p \in Peers |-> [i \in Ids |-> 0]]
    /\ registered = Handlers
    /\ changes = [p \in Peers |-> 0]
    /\ emitted = [p \in Peers |-> 0]
    /\ heard = [p \in Peers |-> <<>>]

-----------------------------------------------------------------------------
(* Pieces of the handlers.  A definition whose name starts with "Mutant" is *)
(* a bug this code does not have; it stands in for the definition after it *)
(* when the sensitivity of a property is tested.                           *)

\* Whichever source is dispatched first destroys the other.
SourcesLeft(fired) == {}

\* closed () is emitted unless the proxy has been closed before.
Signalled(p, vanished) ==
    IF hasBeenClosed[p] THEN signals[p] ELSE Append(signals[p], vanished)

MutantMatches(p, id) == IF pending[p] = {} THEN {}
                        ELSE {CHOOSE i \in pending[p] :
                                  \A j \in pending[p] : i <= j}
\* The pending response a response belongs to, if there is one.
Matches(p, id) == pending[p] \cap {id}

\* process_response removes the pending response it has completed.
StillPending(p, matches) == pending[p] \ matches

MutantNextRequest(p) == lastRequest[p]
\* last_request_id++.
NextRequest(p) == lastRequest[p] + 1

\* connect_named_pipe: an operation that is pending, or its result.
ConnectResult ==
    CASE namedPipe = "listening" -> "pending"
      [] namedPipe = "connected" -> "success"
      [] OTHER -> "error"

\* open_pipe finds an instance of the server's pipe that is free, or throws.
CanOpen == namedPipe = "listening"

\* The pipe when p has disconnected or closed its handle.
Unlinked(p) ==
    CASE namedPipe = "connected" -> "broken"
      [] namedPipe = "listening" /\ p = "server" -> "gone"
      [] OTHER -> namedPipe

\* read_message has a message of this type.
Arrived(p, type) ==
    reading[p] /\ chan[p] # <<>> /\ Head(chan[p]).type = type

MutantReadError(p) == ~pipe[p]
\* A read fails: the other end has closed the pipe and its messages are read, or
\* this one has.
ReadError(p) == ~pipe[p] \/ (namedPipe = "broken" /\ chan[p] = <<>>)

\* There is a handler for the verb, that accepts the argument.
Accepts(p, v) == v \in registered[p] \ {"notify"}

\* process_notify calls the handlers there are.
Heard(p, n) == IF "notify" \in registered[p] THEN Append(heard[p], n)
               ELSE heard[p]

\* What reaches the other end when p writes m.
Sent(p, m) == IF pipe[p] /\ namedPipe = "connected" THEN <<m>> ELSE <<>>

\* p reads the first message there is and writes the messages out; its loop
\* goes on if its pipe has not been closed meanwhile.
ReadAndWrite(p, out) ==
    /\ chan' = [chan EXCEPT ![p] = Tail(@), ![Other(p)] = @ \o out]
    /\ reading' = [reading EXCEPT ![p] = pipe[p]]

\* The message of send_response.
Response(i, success) == [type |-> "response", id |-> i, success |-> success]

-----------------------------------------------------------------------------
(* Establishing.                                                           *)

\* ClientProxy.establish: open_pipe finds the server's pipe, free, or throws.
ClientEstablish ==
    /\ phase["client"] = "new" /\ ~hasBeenClosed["client"]
    /\ IF CanOpen
       THEN /\ pipe' = [pipe EXCEPT !["client"] = TRUE]
            /\ namedPipe' = "connected"
            /\ phase' = [phase EXCEPT !["client"] = "up"]
            /\ reading' = [reading EXCEPT !["client"] = TRUE]
       ELSE /\ phase' = [phase EXCEPT !["client"] = "failed"]
            /\ UNCHANGED <<pipe, namedPipe, reading>>
    /\ UNCHANGED <<sources, completions, hasBeenClosed, signals, chan,
                   query_vars, handler_vars, notify_vars>>

\* ServerProxy.establish, up to its yield: the client may be there already, or
\* have come and gone, which is an error.
ServerEstablish(timeout) ==
    /\ phase["server"] = "new"
    /\ phase' = [phase EXCEPT !["server"] =
                     CASE ConnectResult = "pending" -> "connecting"
                       [] ConnectResult = "success" -> "up"
                       [] ConnectResult = "error" -> "failed"]
    /\ sources' = IF ConnectResult # "pending" THEN {}
                  ELSE {"wait"} \cup (IF timeout THEN {"timeout"} ELSE {})
    /\ reading' = [reading EXCEPT !["server"] = ConnectResult = "success"]
    /\ UNCHANGED <<pipe, namedPipe, completions, hasBeenClosed, signals, chan,
                   query_vars, handler_vars, notify_vars>>

\* win_ipc_proxy_wait_satisfied: the client has connected, or the server has
\* closed its own pipe.
WaitSatisfied ==
    /\ "wait" \in sources /\ namedPipe # "listening"
    /\ sources' = SourcesLeft("wait")
    /\ completions' = completions + 1
    /\ phase' = [phase EXCEPT !["server"] =
                     IF namedPipe = "gone" THEN "failed" ELSE "up"]
    /\ reading' = [reading EXCEPT !["server"] = namedPipe # "gone" /\ pipe["server"]]
    /\ UNCHANGED <<pipe, namedPipe, hasBeenClosed, signals, chan, query_vars,
                   handler_vars, notify_vars>>

WaitTimedOut ==
    /\ "timeout" \in sources
    /\ sources' = SourcesLeft("timeout")
    /\ completions' = completions + 1
    /\ phase' = [phase EXCEPT !["server"] = "failed"]
    /\ UNCHANGED <<pipe, namedPipe, reading, hasBeenClosed, signals, chan,
                   query_vars, handler_vars, notify_vars>>

-----------------------------------------------------------------------------
(* Closing.                                                                *)

\* ServerProxy.close or ClientProxy.close, which end in Proxy.close.  Of what a
\* closing server has written, only a read that has completed keeps its message.
CloseProxy(p) ==
    /\ pipe[p] \/ ~hasBeenClosed[p]
    /\ pipe' = [pipe EXCEPT ![p] = FALSE]
    /\ namedPipe' = Unlinked(p)
    /\ IF p = "server" /\ namedPipe = "connected"
       THEN \E kept \in {0, 1} :
                chan' = [chan EXCEPT !["client"] =
                            SubSeq(@, 1, IF @ = <<>> THEN 0 ELSE kept)]
       ELSE UNCHANGED chan
    /\ hasBeenClosed' = [hasBeenClosed EXCEPT ![p] = TRUE]
    /\ signals' = [signals EXCEPT ![p] = Signalled(p, FALSE)]
    /\ UNCHANGED <<phase, sources, completions, reading, query_vars,
                   handler_vars, notify_vars>>

\* process_messages ends.
ReadFails(p) ==
    /\ reading[p] /\ ReadError(p)
    /\ reading' = [reading EXCEPT ![p] = FALSE]
    /\ hasBeenClosed' = [hasBeenClosed EXCEPT ![p] = TRUE]
    /\ signals' = [signals EXCEPT ![p] = Signalled(p, TRUE)]
    /\ UNCHANGED <<pipe, namedPipe, phase, sources, completions, chan, query_vars,
                   handler_vars, notify_vars>>

-----------------------------------------------------------------------------
(* Queries.                                                                *)

\* query, up to its yield.  A write that fails is not noticed: the query waits.
Query(p, v) ==
    /\ phase[p] = "up" /\ lastRequest[p] <= MaxQueries(p)
    /\ LET i == lastRequest[p]
       IN  /\ pending' = [pending EXCEPT ![p] = @ \cup {i}]
           /\ verb' = [verb EXCEPT ![p][i] = v]
           /\ result' = [result EXCEPT ![p][i] = Waiting]
           /\ chan' = [chan EXCEPT ![Other(p)] =
                          @ \o Sent(p, [type |-> "request", id |-> i, verb |-> v])]
    /\ lastRequest' = [lastRequest EXCEPT ![p] = NextRequest(p)]
    /\ UNCHANGED <<pipe_vars, reading, busy, handled, handler_vars, notify_vars>>

\* process_request.
ReadRequest(p) ==
    /\ Arrived(p, "request")
    /\ LET m == Head(chan[p])
           accepted == Accepts(p, m.verb)
           later == accepted /\ m.verb = "async"
       IN  /\ handled' = IF accepted
                         THEN [handled EXCEPT ![Other(p)][m.id] = @ + 1]
                         ELSE handled
           /\ busy' = IF later THEN [busy EXCEPT ![p] = @ \cup {m.id}] ELSE busy
           /\ ReadAndWrite(p, IF later THEN <<>>
                              ELSE Sent(p, Response(m.id, accepted)))
    /\ UNCHANGED <<pipe_vars, lastRequest, pending, verb, result, handler_vars,
                   notify_vars>>

\* An asynchronous handler returns, and its response is sent.
HandlerReturns(p, i) ==
    /\ i \in busy[p]
    /\ busy' = [busy EXCEPT ![p] = @ \ {i}]
    /\ chan' = [chan EXCEPT ![Other(p)] = @ \o Sent(p, Response(i, TRUE))]
    /\ UNCHANGED <<pipe_vars, reading, lastRequest, pending, verb, result,
                   handled, handler_vars, notify_vars>>

\* process_response, which resumes the query.
ReadResponse(p) ==
    /\ Arrived(p, "response")
    /\ LET m == Head(chan[p])
           matches == Matches(p, m.id)
       IN  /\ result' = [result EXCEPT ![p] = [i \in Ids |->
                  IF i \in matches
                  THEN [status |-> "returned", from |-> m.id,
                        success |-> m.success]
                  ELSE result[p][i]]]
           /\ pending' = [pending EXCEPT ![p] = StillPending(p, matches)]
    /\ ReadAndWrite(p, <<>>)
    /\ UNCHANGED <<pipe_vars, lastRequest, verb, busy, handled, handler_vars,
                   notify_vars>>

-----------------------------------------------------------------------------
(* Handlers and notifications.                                             *)

\* unregister_query_handler, remove_notify_handler.  A handler at work goes on.
Unregister(p, what) ==
    /\ changes[p] < MaxChanges(p) /\ what \in registered[p]
    /\ registered' = [registered EXCEPT ![p] = @ \ {what}]
    /\ changes' = [changes EXCEPT ![p] = @ + 1]
    /\ UNCHANGED <<pipe_vars, reading, chan, query_vars, notify_vars>>

\* register_query_sync_handler and register_query_async_handler assert that there
\* is none for the verb yet; add_notify_handler.
Register(p, what) ==
    /\ changes[p] < MaxChanges(p) /\ what \notin registered[p]
    /\ registered' = [registered EXCEPT ![p] = @ \cup {what}]
    /\ changes' = [changes EXCEPT ![p] = @ + 1]
    /\ UNCHANGED <<pipe_vars, reading, chan, query_vars, notify_vars>>

\* emit.  One that cannot write throws, and leaves no trace.
Emit(p) ==
    /\ emitted[p] < MaxNotifies(p)
    /\ LET out == Sent(p, [type |-> "notify", number |-> emitted[p] + 1])
       IN  /\ out # <<>>
           /\ chan' = [chan EXCEPT ![Other(p)] = @ \o out]
    /\ emitted' = [emitted EXCEPT ![p] = @ + 1]
    /\ UNCHANGED <<pipe_vars, reading, query_vars, handler_vars, heard>>

\* process_notify.
ReadNotify(p) ==
    /\ Arrived(p, "notify")
    /\ heard' = [heard EXCEPT ![p] = Heard(p, Head(chan[p]).number)]
    /\ ReadAndWrite(p, <<>>)
    /\ UNCHANGED <<pipe_vars, query_vars, handler_vars, emitted>>

-----------------------------------------------------------------------------
ProxyNext ==
    \/ ClientEstablish \/ WaitSatisfied \/ WaitTimedOut
    \/ \E timeout \in BOOLEAN : ServerEstablish(timeout)
    \/ \E p \in Peers :
           \/ CloseProxy(p) \/ ReadFails(p) \/ ReadRequest(p) \/ ReadResponse(p)
           \/ Emit(p) \/ ReadNotify(p)
           \/ \E what \in Handled :
                  Unregister(p, what) \/ Register(p, what)
           \/ \E v \in Verbs : Query(p, v)
           \/ \E i \in Ids : HandlerReturns(p, i)

ProxySpec == ProxyInit /\ [][ProxyNext]_proxyVars

\* Each end's loop dispatches what is ready, and handlers return.
ProxyFairness ==
    /\ WF_proxyVars(WaitSatisfied)
    /\ \A p \in Peers :
           /\ WF_proxyVars(ReadFails(p)) /\ WF_proxyVars(ReadRequest(p))
           /\ WF_proxyVars(ReadResponse(p)) /\ WF_proxyVars(ReadNotify(p))
           /\ \A i \in Ids : WF_proxyVars(HandlerReturns(p, i))

ProxyFairSpec == ProxySpec /\ ProxyFairness

-----------------------------------------------------------------------------
(* Properties.                                                             *)

ProxyOK ==
    /\ pipe \in [Peers -> BOOLEAN]
    /\ namedPipe \in {"listening", "connected", "broken", "gone"}
    /\ phase \in [Peers -> {"new", "connecting", "up", "failed"}]
    /\ sources \subseteq {"wait", "timeout"} /\ completions \in 0..1
    /\ reading \in [Peers -> BOOLEAN]
    /\ hasBeenClosed \in [Peers -> BOOLEAN]
    /\ signals \in [Peers -> Seq(BOOLEAN)]
    /\ chan \in [Peers -> Seq(Requests \cup Responses \cup Notifications)]
    /\ lastRequest \in [Peers -> Nat \ {0}]
    /\ pending \in [Peers -> SUBSET Ids]
    /\ verb \in [Peers -> [Ids -> {"sync", "async", "unknown"}]]
    /\ result \in [Peers -> [Ids -> {NotAsked, Waiting} \cup Results]]
    /\ busy \in [Peers -> SUBSET Ids]
    /\ handled \in [Peers -> [Ids -> Nat]]
    /\ registered \in [Peers -> SUBSET Handled]
    /\ changes \in [Peers -> Nat] /\ emitted \in [Peers -> Nat]
    /\ heard \in [Peers -> Seq(Nat)]

\* An end emits closed () once, and if it says that its peer has vanished, then
\* that peer has said of itself that it closed: never do both ends, or neither,
\* blame the other (the harness and the sudden_disconnect tests of
\* test-winipc.vala).
OneSideClosed ==
    \A p \in Peers :
        /\ Len(signals[p]) <= 1
        /\ signals[p] = <<TRUE>> => signals[Other(p)] = <<FALSE>>

\* Each response on its way, and each handler at work, has a query waiting for
\* it and none has two, nor does the client's coming complete the server's wait
\* again that its timeout has ended: no coroutine is resumed twice.  And though
\* responses may overtake one another, a query returns what was sent for itself,
\* whatever handlers have come and gone; and notifications are heard in the order
\* in which they were emitted, none of them twice; nor is the closing ever heard
\* of twice, or blamed on each other.
MessagesAreServedOnce ==
    /\ OneSideClosed /\ completions <= 1
    /\ \A p \in Peers, i \in Ids :
        LET coming == {n \in 1..Len(chan[p]) : /\ chan[p][n].type = "response"
                                               /\ chan[p][n].id = i}
        IN  /\ Cardinality(coming) <= 1
            /\ coming # {} => i \in pending[p] /\ i \notin busy[Other(p)]
            /\ i \in busy[Other(p)] => i \in pending[p]
            /\ result[p][i].status = "returned" => result[p][i].from = i
    /\ \A p \in Peers : \A m, n \in 1..Len(heard[p]) :
           m < n => heard[p][m] < heard[p][n]

Calls == Peers \X Ids

\* Each end's queries are at-most-once calls of the other's handlers.
Abstract ==
    INSTANCE AtMostOnceCall
    WITH asked <- {c \in Calls : result[c[1]][c[2]] # NotAsked},
         done <- {c \in Calls : handled[c[1]][c[2]] > 0},
         returned <- {r \in Calls \X BOOLEAN :
                          \E from \in Ids : result[r[1][1]][r[1][2]] =
                              [status |-> "returned", from |-> from,
                               success |-> r[2]]}

ImplementsAtMostOnceCall == Abstract!Spec

\* A query returns unless an end closes or the server's establish has failed; one
\* that is waiting then waits for ever.
EveryQueryReturns ==
    \A p \in Peers, i \in Ids :
        result[p][i] = Waiting ~>
            \/ result[p][i].status = "returned"
            \/ namedPipe # "connected" \/ phase["server"] \in {"new", "failed"}

\* What has got into the pipe when an end emits a notification, as the injector
\* and its manager do to stop the helpers, reaches the other end's handler, or the
\* other end sees the pipe break or closes it itself: a helper that was told to
\* stop learns of it one way or the other.  Not so if it never gets to read.
NotificationsArrive ==
    \A p \in Peers : \A number \in 1..MaxNotifies(Other(p)) :
        (\E n \in 1..Len(chan[p]) : chan[p][n] = [type |-> "notify",
                                                  number |-> number])
            ~> \/ \E n \in 1..Len(heard[p]) : heard[p][n] = number
               \/ "notify" \notin registered[p] \/ signals[p] # <<>>
               \/ phase[p] \in {"new", "failed"}

\* Both: what one end sends is answered, or heard, or its end is told.
NothingSentIsLost == EveryQueryReturns /\ NotificationsArrive
=============================================================================
