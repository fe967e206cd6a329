------------------------- MODULE MCWinjectorHelper -------------------------
(***************************************************************************)
(* The helper's services on one target of each architecture, and what its  *)
(* and the other injectors' glue does to a process call by call.  The      *)
(* former takes the latter for one step.  A behaviour is one of the two    *)
(* ("part"), and leaves the variables of the other alone.                  *)
(***************************************************************************)
EXTENDS WinjectorHelper, RemoteInjection

VARIABLE part

allVars == <<part, vars, injectionVars>>

MCInit ==
    /\ part \in {"services", "glue"}
    /\ Init /\ InjectionInit
    /\ part = "services" => platform = "windows"
    /\ part = "glue" => arches = {"32"} /\ \A q \in Queries : target[q] \in Targets64

ServicesDo(step) == part = "services" /\ step /\ UNCHANGED <<part, injectionVars>>
GlueDoes(step) == part = "glue" /\ step /\ UNCHANGED <<part, vars>>

MCNext ==
    \/ part = "services" /\ Next /\ UNCHANGED <<part, injectionVars>>
    \/ part = "glue" /\ InjectionNext /\ UNCHANGED <<part, vars>>

\* The manager's and the services' main loops run, what was told to stop exits, a
\* service that has been started connects, and the manager hears that its parent has
\* vanished.  A query takes few steps: none can keep the others from being served.
ServicesFairness ==
    /\ WF_allVars(ServicesDo(\E s \in Services : ReportsRunning(s) \/ Establishes(s)))
    /\ WF_allVars(ServicesDo(Manages))
    /\ WF_allVars(ServicesDo(parent = "gone" /\ Stop))
    /\ WF_allVars(ServicesDo(\E q \in Queries : Serves(q)))
    /\ WF_allVars(ServicesDo(\E s \in Services : service[s] = "told" /\ Exits(s)))

\* The main loop and the dispatch queue go on with what they have begun or can
\* dispatch; the scheduler of the process runs its threads.  Nobody has to
\* inject, and an agent may stay for ever.
Calls(i) == LinuxCalls(i) \/ WindowsCalls(i) \/ DarwinCalls(i)
GlueFairness ==
    /\ WF_allVars(GlueDoes(\E i \in Injections : at[i] # "idle" /\ Calls(i)))
    /\ WF_allVars(GlueDoes(\E i \in Injections : ThreadEnds(i)))

MCSpec == MCInit /\ [][MCNext]_allVars /\ ServicesFairness /\ GlueFairness
=============================================================================
