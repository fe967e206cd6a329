--------------------------- MODULE WinjectorHelper ---------------------------
(***************************************************************************)
(* The helper process of the Windows injector                              *)
(* (zed/src/core/windows/winjector-helper.vala and                         *)
(* winjector-helper-services.c): a manager serves its parent through one   *)
(* service process for each architecture, which it registers with the      *)
(* service control manager or, when it may not, spawns itself; the         *)
(* services inject agents, one at a time into each target.                 *)
(***************************************************************************)
EXTENDS Naturals, FiniteSets

CONSTANTS
    Queries,        \* the Inject queries of the parent
    Targets,        \* the processes that are injected into
    Targets64,      \* those that are 64-bit processes
    MaxWaits        \* how often a service looks at a busy target, 40 in the code

ASSUME SomeTargetsAre64 == Targets64 \subseteq Targets
ASSUME MaxWaitsIsNat == MaxWaits \in Nat

Kinds == {"managed", "standalone"}
Services == Kinds \X {"32", "64"}       \* the service processes there may be

VARIABLES
    arches,     \* {"32"} or, if winjector_system_is_x64, both architectures
    manager,    \* "starting", then the pipe establish waits for: "32", "64" or
                \* "parent"; "up", "stopping", "quitting", "ended", "crashed"
    hosting,    \* the context: "none" when it is NULL, else how services run
    handles,    \* the architectures of its handles that are not NULL
    registered, \* the services in the database of the service control manager
    service,    \* the processes: "none", "pending" before SERVICE_RUNNING is
                \* reported, "running", "told" to stop, "gone"
    tried,      \* those that have tried to open their pipe
    link,       \* who is at the other end of the pipe of each architecture
    early,      \* services told to stop before they had reported to be running
    parent,     \* the parent: "present", "linked", "gone"
    place,      \* of each query: "idle", "asked", "waiting" in the service for its
                \* target or "misled" to the other, its result on the way, "cut"
                \* when the service has injected and died before it answered, or
                \* "lost" with the manager
    target,     \* the process it is about
    waits,      \* the i of inject
    agents,     \* the agents running in each target
    ended,      \* targets whose agent's end has not been dispatched yet
    busy,       \* thread_handle_by_pid
    injected    \* the queries that have injected an agent

hosts == <<arches, hosting, handles, registered>>
processes == <<service, tried, link, early>>
queries == <<place, target, waits, agents, ended, busy, injected>>
vars == <<hosts, manager, processes, parent, queries>>

Init ==
    /\ arches \in {{"32"}, {"32", "64"}}
    /\ manager = "starting" /\ parent = "present"
    /\ hosting = "none" /\ handles = {} /\ registered = {}
    /\ service = [s \in Services |-> "none"]
    /\ tried = {} /\ early = {}
    /\ link = [a \in {"32", "64"} |-> "free"]
    /\ place = [q \in Queries |-> "idle"]
    /\ target \in [Queries -> Targets]
    /\ waits = [q \in Queries |-> 0]
    /\ agents = [t \in Targets |-> 0]
    /\ ended = {} /\ busy = {} /\ injected = {}

-----------------------------------------------------------------------------
(* Pieces of the handlers.  A definition whose name starts with "Mutant" is *)
(* a bug this code does not have; it stands in for the definition after it *)
(* when the sensitivity of a property is tested.                           *)

MutantUnregistered(created) == created \ {"32"}
\* unregister_service of everything that was created.
Unregistered(created) == {}

\* Closing a handle also resets the context's field.
Released(open) == {}

MutantIsFree(t) == TRUE
\* !thread_handle_by_pid.has_key (target_pid).
IsFree(t) == t \notin busy

\* i != 40.
WaitsOn(q) == waits[q] # MaxWaits

MutantLost == place
\* The queries nobody will answer any more.
Lost == [q \in Queries |->
            IF place[q] # "idle" THEN "lost" ELSE place[q]]

Arch(t) == IF t \in Targets64 /\ "64" \in arches THEN "64" ELSE "32"

Alive(s) == service[s] \in {"pending", "running", "told"}

Managed(as) == {"managed"} \X as
Standalone(as) == {"standalone"} \X as

\* The processes of S go from what they are to st.
Become(S, st) == [s \in Services |-> IF s \in S THEN st ELSE service[s]]

-----------------------------------------------------------------------------
(* start_services: it returns after all of its calls, so it is one action    *)
(* with the outcomes of the calls as its inputs.                             *)

\* register_and_start_services succeeds.
StartManaged ==
    /\ manager = "starting" /\ manager' = "32"
    /\ hosting' = "managed" /\ handles' = arches /\ registered' = arches
    /\ service' = Become(Managed(arches), "pending")
    /\ UNCHANGED <<arches, tried, link, early, parent, queries>>

\* spawn_standalone_services: when the second process cannot be spawned the first
\* is killed; without services the context is NULL, and the manager waits for them
\* nevertheless.
SpawnStandalone(before) ==
    \/ /\ hosting' = "standalone" /\ handles' = arches
       /\ service' = [s \in Services |->
                         IF s \in Standalone(arches) THEN "running" ELSE before[s]]
    \/ /\ hosting' = "none" /\ handles' = {}
       /\ \/ service' = before
          \/ /\ "64" \in arches
             /\ service' = [before EXCEPT ![<<"standalone", "32">>] = "gone"]

\* The service control manager cannot be opened, a service cannot be created or
\* the first one not started: what was created is unregistered.
FallBack ==
    /\ manager = "starting" /\ manager' = "32"
    /\ \E created \in SUBSET arches : registered' = Unregistered(created)
    /\ SpawnStandalone(service)
    /\ UNCHANGED <<arches, tried, link, early, parent, queries>>

\* The first service was started and the second cannot be: the first is told to
\* stop, which it does not accept before it has reported to be running.
FallBackAfterStart ==
    /\ manager = "starting" /\ manager' = "32" /\ "64" \in arches
    /\ registered' = Unregistered(arches)
    /\ LET first == <<"managed", "32">>
       IN  \/ /\ SpawnStandalone([service EXCEPT ![first] = "told"])
              /\ UNCHANGED early
           \/ /\ SpawnStandalone([service EXCEPT ![first] = "pending"])
              /\ early' = early \cup {first}
    /\ UNCHANGED <<arches, tried, link, parent, queries>>

-----------------------------------------------------------------------------
(* The service processes.                                                  *)

ReportsRunning(s) ==
    /\ service[s] = "pending"
    /\ service' = [service EXCEPT ![s] = "running"]
    /\ UNCHANGED <<hosts, manager, tried, link, early, parent, queries>>

\* Service.establish opens the pipe of its architecture, whose one instance
\* another process may have taken; it does not try again.
Establishes(s) ==
    /\ service[s] \in {"running", "told"} /\ s \notin tried
    /\ tried' = tried \cup {s}
    /\ link' = IF link[s[2]] = "free" /\ manager \notin {"ended", "crashed"}
               THEN [link EXCEPT ![s[2]] = s[1]] ELSE link
    /\ UNCHANGED <<hosts, manager, service, early, parent, queries>>

\* A process that was told to stop quits its main loop; any may die.
Dies(s) ==
    /\ Alive(s)
    /\ service' = [service EXCEPT ![s] = "gone"]
    /\ link' = IF link[s[2]] = s[1] THEN [link EXCEPT ![s[2]] = "broken"] ELSE link

Exits(s) ==
    /\ Dies(s)
    /\ UNCHANGED <<hosts, manager, tried, early, parent, queries>>

-----------------------------------------------------------------------------
(* The manager.                                                            *)

\* establish: the services' pipes one after the other, without a timeout.
ServiceEstablished(a) ==
    /\ manager = a /\ link[a] \in Kinds
    /\ manager' = IF a = "32" /\ "64" \in arches THEN "64" ELSE "parent"
    /\ UNCHANGED <<hosts, processes, parent, queries>>

ParentEstablished ==
    /\ manager = "parent" /\ parent = "present"
    /\ manager' = "up" /\ parent' = "linked"
    /\ UNCHANGED <<hosts, processes, queries>>

\* The other end has gone already: the main loop quits.
EstablishFails ==
    /\ \/ manager \in {"32", "64"} /\ link[manager] = "broken"
       \/ manager = "parent" /\ parent = "gone"
    /\ manager' = "quitting"
    /\ UNCHANGED <<hosts, processes, parent, queries>>

\* stop, at the parent's notification or when it has vanished: the services are
\* notified, which standalone ones heed.
Stop ==
    /\ manager = "up"
    /\ manager' = "stopping"
    /\ service' = Become({s \in Standalone(arches) :
                              service[s] = "running" /\ link[s[2]] = s[1]}, "told")
    /\ UNCHANGED <<hosts, tried, link, early, parent, queries>>

\* 100 ms later.
Quit ==
    /\ manager = "stopping" /\ manager' = "quitting"
    /\ UNCHANGED <<hosts, processes, parent, queries>>

\* SERVICE_CONTROL_STOP is accepted once SERVICE_RUNNING has been reported; its
\* handler has the service's main loop quit.
Accepts(s) == service[s] = "running"

\* stop_services with managed ones: each that runs is told to stop, and all are
\* unregistered.
StopManaged ==
    /\ manager = "quitting" /\ hosting = "managed" /\ manager' = "ended"
    /\ service' = Become({s \in Managed(arches) : Accepts(s)}, "told")
    /\ early' = early \cup {s \in Managed(arches) : service[s] = "pending"}
    /\ registered' = Unregistered(registered)
    /\ handles' = Released(handles)
    /\ place' = Lost
    /\ UNCHANGED <<arches, hosting, tried, link, parent, target, waits, agents, ended,
                   busy, injected>>

\* Without a context: a service that was told to stop in vain had connected and
\* gone, so establish has failed; NULL is dereferenced.
StopNothing ==
    /\ manager = "quitting" /\ hosting = "none" /\ manager' = "crashed"
    /\ UNCHANGED <<hosts, processes, parent, queries>>

\* With standalone ones: they are joined, for 5 s each, and killed unless both are
\* gone by then.
JoinStandalone ==
    /\ manager = "quitting" /\ hosting = "standalone" /\ manager' = "ended"
    /\ service' = Become(Standalone(arches), "gone")
    /\ link' = [a \in {"32", "64"} |->
                   IF link[a] = "standalone" THEN "broken" ELSE link[a]]
    /\ handles' = Released(handles)
    /\ place' = Lost
    /\ UNCHANGED <<arches, hosting, registered, tried, early, parent, target, waits,
                   agents, ended, busy, injected>>

-----------------------------------------------------------------------------
(* Queries.                                                                *)

\* The parent, or the pipe to it, goes.
ParentVanishes ==
    /\ parent # "gone" /\ parent' = "gone"
    /\ UNCHANGED <<hosts, manager, processes, queries>>

Ask(q) ==
    /\ parent = "linked" /\ place[q] = "idle" /\ manager # "ended"
    /\ place' = [place EXCEPT ![q] = "asked"]
    /\ UNCHANGED <<hosts, manager, processes, parent, target, waits, agents, ended,
                   busy, injected>>

\* Manager.handle_query passes the query to the service for the target; if it cannot
\* open a 64-bit process it takes it for a 32-bit one.  Nobody looks whether the query
\* could be written.
Forward(q) ==
    /\ place[q] = "asked" /\ manager \in {"up", "stopping"}
    /\ \/ place' = [place EXCEPT ![q] = "waiting"]
       \/ Arch(target[q]) = "64" /\ place' = [place EXCEPT ![q] = "misled"]
    /\ UNCHANGED <<hosts, manager, processes, parent, target, waits, agents, ended,
                   busy, injected>>

ArchOf(q) == IF place[q] = "misled" THEN "32" ELSE Arch(target[q])
ServiceOf(q) == <<link[ArchOf(q)], ArchOf(q)>>

\* Service.inject finds the target busy and waits for 50 ms, or gives up.
TargetIsBusy(q) ==
    /\ place[q] = "waiting" /\ ServiceOf(q) \in Services /\ ~IsFree(target[q])
    /\ IF WaitsOn(q)
       THEN waits' = [waits EXCEPT ![q] = @ + 1] /\ UNCHANGED place
       ELSE place' = [place EXCEPT ![q] = "failed"] /\ UNCHANGED waits
    /\ UNCHANGED <<hosts, manager, processes, parent, target, agents, ended, busy,
                   injected>>

\* Process.inject: the agent's thread is created, and its end will be waited for.
Injects(q) ==
    /\ place[q] = "waiting" /\ ServiceOf(q) \in Services /\ IsFree(target[q])
    /\ agents' = [agents EXCEPT ![target[q]] = @ + 1]
    /\ busy' = busy \cup {target[q]}
    /\ injected' = injected \cup {q}
    /\ UNCHANGED <<hosts, manager, tried, early, parent, target, waits, ended>>

InjectAgent(q) ==
    /\ Injects(q)
    /\ place' = [place EXCEPT ![q] = "ok"]
    /\ UNCHANGED <<service, link>>

\* The service does so and dies before it has answered.
InjectsAndDies(q) ==
    /\ Injects(q) /\ Dies(ServiceOf(q))
    /\ place' = [place EXCEPT ![q] = "cut"]

\* One of its calls is denied or fails: what it allocated is freed.  A process of the
\* other architecture is given no thread, and is none that a service takes for busy.
InjectFails(q, error) ==
    /\ place[q] = "misled" \/ (place[q] = "waiting" /\ IsFree(target[q]))
    /\ ServiceOf(q) \in Services
    /\ place' = [place EXCEPT ![q] = error]
    /\ UNCHANGED <<hosts, manager, processes, parent, target, waits, agents, ended,
                   busy, injected>>

\* The agent leaves the target.
AgentEnds(t) ==
    /\ agents[t] > 0
    /\ agents' = [agents EXCEPT ![t] = @ - 1]
    /\ ended' = ended \cup {t}
    /\ UNCHANGED <<hosts, manager, processes, parent, place, target, waits, busy,
                   injected>>

\* The wait source of the thread's handle is dispatched.
EndNoticed(t) ==
    /\ t \in ended
    /\ ended' = ended \ {t} /\ busy' = busy \ {t}
    /\ UNCHANGED <<hosts, manager, processes, parent, place, target, waits, agents,
                   injected>>

-----------------------------------------------------------------------------
StartServices == StartManaged \/ FallBack \/ FallBackAfterStart

Serves(q) ==
    \/ Forward(q) \/ TargetIsBusy(q) \/ InjectAgent(q)
    \/ \E error \in {"denied", "failed"} : InjectFails(q, error)

Manages ==
    \/ ParentEstablished \/ EstablishFails \/ Quit \/ StopManaged \/ JoinStandalone
    \/ StopNothing
    \/ \E a \in arches : ServiceEstablished(a)

Next ==
    \/ StartServices \/ Manages \/ Stop \/ ParentVanishes
    \/ \E s \in Services : ReportsRunning(s) \/ Establishes(s) \/ Exits(s)
    \/ \E q \in Queries : Ask(q) \/ Serves(q) \/ InjectsAndDies(q)
    \/ \E t \in Targets : AgentEnds(t) \/ EndNoticed(t)

Spec == Init /\ [][Next]_vars

-----------------------------------------------------------------------------
(* Properties.                                                             *)

TypeOK ==
    /\ arches \in {{"32"}, {"32", "64"}}
    /\ manager \in {"starting", "32", "64", "parent", "up", "stopping", "quitting",
                    "ended", "crashed"}
    /\ hosting \in {"none"} \cup Kinds
    /\ handles \subseteq arches /\ registered \subseteq arches
    /\ service \in [Services -> {"none", "pending", "running", "told", "gone"}]
    /\ tried \subseteq Services /\ early \subseteq Services
    /\ link \in [{"32", "64"} -> {"free", "broken"} \cup Kinds]
    /\ parent \in {"present", "linked", "gone"}
    /\ place \in [Queries -> {"idle", "asked", "waiting", "misled", "ok", "denied",
                              "failed", "cut", "lost"}]
    /\ target \in [Queries -> Targets] /\ waits \in [Queries -> 0..MaxWaits]
    /\ agents \in [Targets -> Nat]
    /\ ended \subseteq Targets /\ busy \subseteq Targets
    /\ injected \subseteq Queries

\* A manager that has given up the services it registered, or has ended, leaves
\* none in the database; when it has ended the assertions of
\* winjector_service_context_free hold, no standalone service runs, and a managed
\* one runs on only if it was told to stop before it had reported to be running
\* and so could accept that.
NothingLeftBehind ==
    /\ manager # "starting" /\ hosting # "managed" => registered = {}
    /\ manager = "ended" =>
           /\ handles = {} /\ registered = {}
           /\ \A s \in Services : Alive(s) =>
                  s[1] = "managed" /\ (service[s] = "told" \/ s \in early)

\* A second agent is injected into a target only after the first has left it, with
\* any number of queries waiting for that; a query is answered that it succeeded only
\* if it has injected an agent, and one that has is never answered that it failed.
OneAgentPerTarget ==
    /\ \A t \in Targets : agents[t] <= 1
    /\ \A q \in Queries :
           /\ place[q] = "ok" => q \in injected
           /\ q \in injected => place[q] \in {"ok", "cut", "lost"}

\* The service that has been given q is gone: WinIpc's query is never resumed then.
Unanswered(q) ==
    \/ place[q] = "cut"
    \/ place[q] \in {"waiting", "misled"} /\ link[ArchOf(q)] = "broken"

\* Every query is answered unless the manager has ended, or the service it was passed
\* to has gone before or since -- so that again and again no other is left (there are
\* finitely many, and each is made once); a manager that was up ends once its parent
\* has vanished, with whatever queries; and one that waits for its services gets on or
\* gives up, whatever is left of those it had to fall back from, unless there are none
\* or one of them has died.
QueriesEnd ==
    /\ []<>(\A q \in Queries :
               place[q] \in {"idle", "ok", "denied", "failed", "lost"} \/ Unanswered(q))
    /\ manager = "up" /\ parent = "gone" ~> manager = "ended"
    /\ manager \in {"32", "64"} ~>
           \/ manager \notin {"32", "64"} \/ hosting = "none"
           \/ \E s \in Services : s[1] = hosting /\ service[s] = "gone"
=============================================================================
