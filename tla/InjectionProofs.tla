---------------------------- MODULE InjectionProofs ----------------------------
(***************************************************************************)
(* Theorems about WinjectorHelper, for any queries, targets and patience;  *)
(* and about RemoteInjection, the remote calls it and the other injectors  *)
(* make, for any number of injections on each of the platforms: what a     *)
(* failed injection leaves behind, that the process runs on its own        *)
(* registers, when it may be left stopped, and that the payload is not     *)
(* unmapped under its thread.                                              *)
(***************************************************************************)
EXTENDS WinjectorHelper, RemoteInjection, TLAPS

(* The inductive invariant. *)

\* An agent that runs, or has ended unnoticed, keeps its target busy.
AgentsAreTended ==
    \A t \in Targets :
        /\ agents[t] <= 1
        /\ agents[t] = 1 => t \in busy /\ t \notin ended
        /\ t \in ended => t \in busy

\* Only an injection makes a query succeed, and its answer is not taken back.
AnswersFit ==
    \A q \in Queries :
        /\ place[q] = "ok" => q \in injected
        /\ q \in injected => place[q] \in {"ok", "cut", "lost"}

\* Which services may be alive: those of the architectures there are, standalone
\* ones only when the context says so.
ServicesFit ==
    /\ manager = "starting" =>
           hosting = "none" /\ \A s \in Services : service[s] = "none"
    /\ \A s \in Services : Alive(s) =>
           /\ s[2] \in arches
           /\ s[1] = "standalone" => hosting = "standalone"

\* A managed service the manager has given up has been told to stop, in vain if it
\* was told too early.
GivenUp(s) == Alive(s) /\ s[1] = "managed" => service[s] = "told" \/ s \in early

ManagedAreGivenUp ==
    manager # "starting" /\ hosting # "managed" =>
        registered = {} /\ \A s \in Services : GivenUp(s)

EndedIsClean ==
    manager = "ended" =>
        /\ handles = {} /\ registered = {}
        /\ \A s \in Services : GivenUp(s) /\ (Alive(s) => s[1] = "managed")

IInv ==
    /\ TypeOK /\ AgentsAreTended /\ AnswersFit
    /\ ServicesFit /\ ManagedAreGivenUp /\ EndedIsClean

-----------------------------------------------------------------------------
LEMMA InitEstablishesIInv == Init => IInv
<1> SUFFICES ASSUME Init
             PROVE  IInv
  OBVIOUS
<1> USE DEF Init
<1>1. /\ link \in [{"32", "64"} -> {"free", "broken"} \cup Kinds]
      /\ service \in [Services -> {"none", "pending", "running", "told", "gone"}]
      /\ \A s \in Services : service[s] = "none"
  BY DEF Services, Kinds
<1>2. /\ waits \in [Queries -> 0..MaxWaits]
      /\ place \in [Queries -> {"idle", "asked", "waiting", "misled", "ok", "denied",
                                "failed", "cut", "lost"}]
      /\ agents \in [Targets -> Nat]
  BY MaxWaitsIsNat
<1>3. TypeOK
  BY <1>1, <1>2 DEF TypeOK
<1>4. AgentsAreTended /\ AnswersFit
  BY DEF AgentsAreTended, AnswersFit
<1>5. ServicesFit /\ ManagedAreGivenUp /\ EndedIsClean
  BY <1>1 DEF ServicesFit, Alive, ManagedAreGivenUp, EndedIsClean
<1>6. QED
  BY <1>3, <1>4, <1>5 DEF IInv

\* What no step of a query touches, and what only such a step does.
LEMMA ServicesUntouched ==
  ASSUME IInv, UNCHANGED <<hosts, manager, service, early>>
  PROVE  ServicesFit' /\ ManagedAreGivenUp' /\ EndedIsClean'
  BY DEF IInv, hosts, ServicesFit, ManagedAreGivenUp, EndedIsClean, GivenUp, Alive

LEMMA QueriesUntouched ==
  ASSUME IInv, UNCHANGED queries
  PROVE  AgentsAreTended' /\ AnswersFit'
  BY DEF IInv, queries, AgentsAreTended, AnswersFit

-----------------------------------------------------------------------------
(* The service processes and the manager.                                  *)

\* What spawn_standalone_services does to the processes there are.
LEMMA SpawnStandaloneFits ==
  ASSUME TypeOK, NEW before, SpawnStandalone(before),
         before \in [Services -> {"none", "pending", "running", "told", "gone"}],
         \A s \in Services : s[1] = "standalone" => before[s] = "none"
  PROVE  /\ hosting' \in {"none", "standalone"} /\ handles' \subseteq arches
         /\ service' \in [Services -> {"none", "pending", "running", "told", "gone"}]
         /\ \A s \in Services : s[1] = "managed" => service'[s] = before[s]
         /\ \A s \in Services :
                s[1] = "standalone" /\ service'[s] \in {"pending", "running", "told"}
                => s[2] \in arches /\ hosting' = "standalone"
<1> USE DEF Services, Kinds, Standalone, TypeOK
<1>1. CASE /\ hosting' = "standalone" /\ handles' = arches
           /\ service' = [s \in Services |->
                             IF s \in Standalone(arches) THEN "running"
                             ELSE before[s]]
  BY <1>1
<1>2. CASE hosting' = "none" /\ handles' = {} /\ service' = before
  BY <1>2
<1>3. CASE /\ hosting' = "none" /\ handles' = {}
           /\ service' = [before EXCEPT ![<<"standalone", "32">>] = "gone"]
  BY <1>3
<1>4. QED
  BY <1>1, <1>2, <1>3 DEF SpawnStandalone

LEMMA StartManagedKeeps ==
  ASSUME IInv, StartManaged
  PROVE  IInv'
<1> USE DEF IInv, StartManaged
<1>1. /\ service' \in [Services -> {"none", "pending", "running", "told", "gone"}]
      /\ \A s \in Services : service'[s] # "none" => s \in Managed(arches)
  BY DEF TypeOK, ServicesFit, Become
<1>2. TypeOK'
  BY <1>1 DEF TypeOK, queries, Kinds
<1>3. ServicesFit' /\ ManagedAreGivenUp' /\ EndedIsClean'
  <2>1. \A s \in Services : s \in Managed(arches) => s[1] = "managed" /\ s[2] \in arches
    BY DEF Managed, Services
  <2>2. manager' = "32" /\ hosting' = "managed" /\ arches' = arches
    OBVIOUS
  <2>3. \A s \in Services : Alive(s)' => s[1] = "managed" /\ s[2] \in arches
    BY <1>1, <2>1 DEF Alive
  <2>4. QED
    BY <2>2, <2>3 DEF ServicesFit, ManagedAreGivenUp, EndedIsClean
<1>4. QED
  BY <1>2, <1>3, QueriesUntouched

LEMMA FallBackKeeps ==
  ASSUME IInv, FallBack
  PROVE  IInv'
<1> USE DEF IInv, FallBack
<1>1. /\ hosting' \in {"none", "standalone"} /\ handles' \subseteq arches
      /\ service' \in [Services -> {"none", "pending", "running", "told", "gone"}]
      /\ \A s \in Services : s[1] = "managed" => service'[s] = service[s]
      /\ \A s \in Services :
             s[1] = "standalone" /\ service'[s] \in {"pending", "running", "told"}
             => s[2] \in arches /\ hosting' = "standalone"
  BY SpawnStandaloneFits DEF TypeOK, ServicesFit
<1>2. registered' = {} /\ manager' = "32"
  BY DEF Unregistered
<1>3. TypeOK'
  BY <1>1, <1>2 DEF TypeOK, queries, Kinds
<1>4. ServicesFit' /\ ManagedAreGivenUp' /\ EndedIsClean'
  <2>1. \A s \in Services : s[1] = "managed" => service'[s] = "none"
    BY <1>1 DEF ServicesFit
  <2>2. \A s \in Services : s[1] \in Kinds
    BY DEF Services
  <2>3. \A s \in Services :
           Alive(s)' => s[1] = "standalone" /\ s[2] \in arches /\ hosting' = "standalone"
    BY <1>1, <2>1, <2>2 DEF Alive, Kinds
  <2>4. \A s \in Services : GivenUp(s)'
    BY <2>1 DEF GivenUp, Alive
  <2>5. QED
    BY <1>2, <2>3, <2>4 DEF ServicesFit, ManagedAreGivenUp, EndedIsClean
<1>5. QED
  BY <1>3, <1>4, QueriesUntouched

LEMMA FallBackAfterStartKeeps ==
  ASSUME IInv, FallBackAfterStart
  PROVE  IInv'
<1> DEFINE first == <<"managed", "32">>
<1> USE DEF IInv
<1>1. PICK st \in {"told", "pending"} :
          /\ SpawnStandalone([service EXCEPT ![first] = st])
          /\ st = "pending" => early' = early \cup {first}
          /\ st = "told" => early' = early
  BY DEF FallBackAfterStart
<1> DEFINE before == [service EXCEPT ![first] = st]
<1>2. /\ first \in Services /\ first[1] = "managed" /\ first[2] = "32"
      /\ before \in [Services -> {"none", "pending", "running", "told", "gone"}]
      /\ \A s \in Services : before[s] = IF s = first THEN st ELSE "none"
      /\ "32" \in arches
  BY DEF FallBackAfterStart, ServicesFit, TypeOK, Services, Kinds
<1>3. /\ hosting' \in {"none", "standalone"} /\ handles' \subseteq arches
      /\ service' \in [Services -> {"none", "pending", "running", "told", "gone"}]
      /\ \A s \in Services : s[1] = "managed" => service'[s] = before[s]
      /\ \A s \in Services :
             s[1] = "standalone" /\ service'[s] \in {"pending", "running", "told"}
             => s[2] \in arches /\ hosting' = "standalone"
  <2>1. \A s \in Services : s[1] = "standalone" => before[s] = "none"
    BY <1>2
  <2> HIDE DEF before
  <2>2. SpawnStandalone(before)
    BY <1>1 DEF before
  <2>3. QED
    BY <1>2, <2>1, <2>2, SpawnStandaloneFits
<1>4. /\ registered' = {} /\ manager' = "32" /\ arches' = arches
      /\ UNCHANGED <<tried, link, parent, queries>>
  BY DEF FallBackAfterStart, Unregistered
<1>5. early' \subseteq Services /\ (st = "pending" => first \in early')
  BY <1>1, <1>2 DEF TypeOK
<1>6. TypeOK'
  BY <1>3, <1>4, <1>5 DEF TypeOK, queries, Kinds
<1>7. ServicesFit' /\ ManagedAreGivenUp' /\ EndedIsClean'
  <2>1. \A s \in Services : s[1] = "managed" =>
           service'[s] = IF s = first THEN st ELSE "none"
    BY <1>2, <1>3
  <2>2. \A s \in Services : s[1] \in Kinds
    BY DEF Services
  <2>3. \A s \in Services :
           Alive(s)' => /\ s[2] \in arches
                        /\ s[1] = "standalone" => hosting' = "standalone"
    BY <1>2, <1>3, <2>1, <2>2 DEF Alive, Kinds
  <2>4. \A s \in Services : GivenUp(s)'
    BY <1>5, <2>1 DEF GivenUp, Alive
  <2>5. QED
    BY <1>4, <2>3, <2>4 DEF ServicesFit, ManagedAreGivenUp, EndedIsClean
<1>8. QED
  BY <1>4, <1>6, <1>7, QueriesUntouched

\* A step that takes no service back from what it was told, and starts none.
LEMMA ProcessesKeep ==
  ASSUME IInv, manager # "starting",
         UNCHANGED <<arches, hosting>>, manager' # "starting",
         service' \in [Services -> {"none", "pending", "running", "told", "gone"}],
         \A s \in Services :
             Alive(s)' => Alive(s) /\ (service[s] = "told" => service'[s] = "told"),
         early \subseteq early', registered' \subseteq registered,
         manager' = "ended" => manager = "ended" /\ handles' = handles
  PROVE  ServicesFit' /\ ManagedAreGivenUp' /\ EndedIsClean'
<1> USE DEF IInv
<1>1. \A s \in Services : GivenUp(s) => GivenUp(s)'
  BY DEF GivenUp
<1>2. ServicesFit'
  BY DEF ServicesFit
<1>3. ManagedAreGivenUp'
  BY <1>1 DEF ManagedAreGivenUp
<1>4. EndedIsClean'
  BY <1>1 DEF EndedIsClean
<1>5. QED
  BY <1>2, <1>3, <1>4

LEMMA ReportsRunningKeeps ==
  ASSUME IInv, NEW s \in Services, ReportsRunning(s)
  PROVE  IInv'
<1> USE DEF IInv, ReportsRunning
<1>1. manager # "starting"
  BY DEF ServicesFit
<1>2. TypeOK'
  BY DEF TypeOK, hosts, queries
<1>3. \A x \in Services :
         Alive(x)' => Alive(x) /\ (service[x] = "told" => service'[x] = "told")
  BY DEF Alive, TypeOK
<1>4. ServicesFit' /\ ManagedAreGivenUp' /\ EndedIsClean'
  BY <1>1, <1>2, <1>3, ProcessesKeep DEF hosts, TypeOK
<1>5. QED
  BY <1>2, <1>4, QueriesUntouched

LEMMA EstablishesKeeps ==
  ASSUME IInv, NEW s \in Services, Establishes(s)
  PROVE  IInv'
<1> USE DEF IInv, Establishes
<1>1. s[1] \in Kinds
  BY DEF Services
<1>2. link' \in [{"32", "64"} -> {"free", "broken"} \cup Kinds]
  BY <1>1 DEF TypeOK
<1>3. TypeOK'
  BY <1>2 DEF TypeOK, hosts, queries
<1>4. QED
  BY <1>3, ServicesUntouched, QueriesUntouched

LEMMA ExitsKeeps ==
  ASSUME IInv, NEW s \in Services, Exits(s)
  PROVE  IInv'
<1> USE DEF IInv, Exits, Dies
<1>1. manager # "starting"
  BY DEF ServicesFit, Alive
<1>2. link' \in [{"32", "64"} -> {"free", "broken"} \cup Kinds]
  BY DEF TypeOK
<1>3. TypeOK'
  BY <1>2 DEF TypeOK, hosts, queries
<1>4. \A x \in Services :
         Alive(x)' => Alive(x) /\ (service[x] = "told" => service'[x] = "told")
  BY DEF Alive, TypeOK
<1>5. ServicesFit' /\ ManagedAreGivenUp' /\ EndedIsClean'
  BY <1>1, <1>3, <1>4, ProcessesKeep DEF hosts, TypeOK
<1>6. QED
  BY <1>3, <1>5, QueriesUntouched

\* The manager gets on, without touching a service.
LEMMA ManagerGetsOnKeeps ==
  ASSUME IInv, manager # "starting", UNCHANGED <<hosts, processes, queries>>,
         manager' \in {"32", "64", "parent", "up", "stopping", "quitting", "crashed"},
         parent' \in {"present", "linked", "gone"}
  PROVE  IInv'
<1> USE DEF IInv, hosts, processes
<1>1. TypeOK'
  BY DEF TypeOK, queries
<1>2. \A x \in Services :
         Alive(x)' => Alive(x) /\ (service[x] = "told" => service'[x] = "told")
  BY DEF Alive
<1>3. ServicesFit' /\ ManagedAreGivenUp' /\ EndedIsClean'
  BY <1>1, <1>2, ProcessesKeep DEF TypeOK
<1>4. QED
  BY <1>1, <1>3, QueriesUntouched

LEMMA StopKeeps ==
  ASSUME IInv, Stop
  PROVE  IInv'
<1> USE DEF IInv, Stop
<1>1. service' \in [Services -> {"none", "pending", "running", "told", "gone"}]
  BY DEF Become, TypeOK
<1>2. TypeOK'
  BY <1>1 DEF TypeOK, hosts, queries
<1>3. \A x \in Services :
         Alive(x)' => Alive(x) /\ (service[x] = "told" => service'[x] = "told")
  BY DEF Become, Alive
<1>4. ServicesFit' /\ ManagedAreGivenUp' /\ EndedIsClean'
  BY <1>1, <1>3, ProcessesKeep DEF hosts
<1>5. QED
  BY <1>2, <1>4, QueriesUntouched

\* The manager has ended: what becomes of the queries.
LEMMA LostKeeps ==
  ASSUME IInv, place' = Lost,
         UNCHANGED <<target, waits, agents, ended, busy, injected>>
  PROVE  /\ AgentsAreTended' /\ AnswersFit'
         /\ place' \in [Queries -> {"idle", "asked", "waiting", "misled", "ok",
                                    "denied", "failed", "cut", "lost"}]
<1>1. AgentsAreTended'
  BY DEF IInv, AgentsAreTended
<1>2. place' \in [Queries -> {"idle", "asked", "waiting", "misled", "ok", "denied",
                              "failed", "cut", "lost"}]
  BY DEF IInv, TypeOK, Lost
<1>3. AnswersFit'
  BY DEF IInv, AnswersFit, Lost
<1>4. QED
  BY <1>1, <1>2, <1>3

LEMMA StopManagedKeeps ==
  ASSUME IInv, StopManaged
  PROVE  IInv'
<1> USE DEF IInv, StopManaged, Accepts
<1>1. /\ registered' = {} /\ handles' = {} /\ manager' = "ended"
      /\ UNCHANGED <<arches, hosting, tried, link, parent>>
  BY DEF Unregistered, Released
<1>2. /\ service' \in [Services -> {"none", "pending", "running", "told", "gone"}]
      /\ early' \subseteq Services
  <2>1. service' \in [Services -> {"none", "pending", "running", "told", "gone"}]
    BY DEF Become, TypeOK
  <2>2. Managed(arches) \subseteq Services
    BY DEF Managed, Services, Kinds, TypeOK
  <2>3. QED
    BY <2>1, <2>2 DEF TypeOK
<1>3. TypeOK'
  BY <1>1, <1>2, LostKeeps DEF TypeOK
<1>4. ASSUME NEW s \in Services, Alive(s)'
      PROVE  s[1] = "managed" /\ s[2] \in arches /\ GivenUp(s)'
  <2>1. Alive(s)
    BY <1>4 DEF Become, Alive
  <2>2. s[1] = "managed" /\ s[2] \in arches
    BY <2>1 DEF ServicesFit, Services, Kinds
  <2>3. s \in Managed(arches)
    BY <2>2 DEF Managed, Services
  <2>4. service'[s] = "told" \/ s \in early'
    BY <1>4, <2>1, <2>3 DEF Become, Alive, TypeOK
  <2>5. QED
    BY <2>2, <2>4 DEF GivenUp
<1>5. \A s \in Services : GivenUp(s)'
  BY <1>4 DEF GivenUp
<1>6. ServicesFit' /\ ManagedAreGivenUp' /\ EndedIsClean'
  BY <1>1, <1>4, <1>5 DEF ServicesFit, ManagedAreGivenUp, EndedIsClean
<1>7. QED
  BY <1>3, <1>6, LostKeeps

LEMMA JoinStandaloneKeeps ==
  ASSUME IInv, JoinStandalone
  PROVE  IInv'
<1> USE DEF IInv, JoinStandalone
<1>1. /\ handles' = {} /\ manager' = "ended"
      /\ UNCHANGED <<arches, hosting, registered, tried, early, parent>>
  BY DEF Released
<1>2. /\ service' \in [Services -> {"none", "pending", "running", "told", "gone"}]
      /\ link' \in [{"32", "64"} -> {"free", "broken"} \cup Kinds]
  BY DEF Become, TypeOK
<1>3. TypeOK'
  BY <1>1, <1>2, LostKeeps DEF TypeOK
<1>4. ASSUME NEW s \in Services, Alive(s)'
      PROVE  Alive(s) /\ service'[s] = service[s] /\ s[1] = "managed"
  <2>1. s \notin Standalone(arches) /\ service'[s] = service[s]
    BY <1>4 DEF Become, Alive
  <2>2. Alive(s)
    BY <1>4, <2>1 DEF Alive
  <2>3. s[2] \in arches
    BY <2>2 DEF ServicesFit
  <2>4. QED
    BY <2>1, <2>2, <2>3 DEF Standalone, Services, Kinds
<1>5. registered' = {} /\ \A s \in Services : GivenUp(s)'
  BY <1>1, <1>4 DEF ManagedAreGivenUp, GivenUp
<1>6. ServicesFit' /\ ManagedAreGivenUp' /\ EndedIsClean'
  BY <1>1, <1>4, <1>5 DEF ServicesFit, ManagedAreGivenUp, EndedIsClean
<1>7. QED
  BY <1>3, <1>6, LostKeeps

LEMMA ManagesKeeps ==
  ASSUME IInv, Manages
  PROVE  IInv'
<1>1. ASSUME \/ ParentEstablished \/ EstablishFails \/ Quit \/ StopNothing
             \/ \E a \in arches : ServiceEstablished(a)
      PROVE  IInv'
  <2>1. /\ manager # "starting" /\ UNCHANGED <<hosts, processes, queries>>
        /\ manager' \in {"32", "64", "parent", "up", "stopping", "quitting",
                         "crashed"}
        /\ parent' \in {"present", "linked", "gone"}
    BY <1>1 DEF IInv, TypeOK, ParentEstablished, EstablishFails, Quit, StopNothing,
                ServiceEstablished
  <2>2. QED
    BY <2>1, ManagerGetsOnKeeps
<1>2. QED
  BY <1>1, StopManagedKeeps, JoinStandaloneKeeps DEF Manages

LEMMA ParentVanishesKeeps ==
  ASSUME IInv, ParentVanishes
  PROVE  IInv'
<1>1. TypeOK'
  BY DEF IInv, TypeOK, ParentVanishes, hosts, processes, queries
<1>2. QED
  BY <1>1, ServicesUntouched, QueriesUntouched
     DEF IInv, ParentVanishes, processes, queries

-----------------------------------------------------------------------------
(* The queries.                                                            *)

\* A query gets on, and is not answered that it succeeded.
LEMMA QueryGetsOnKeeps ==
  ASSUME IInv, NEW q \in Queries,
         UNCHANGED <<hosts, manager, processes, parent, target, agents, ended, busy,
                     injected>>,
         place[q] \in {"idle", "asked", "waiting", "misled"},
         NEW to \in {"asked", "waiting", "misled", "denied", "failed"},
         place' = [place EXCEPT ![q] = to],
         waits' \in [Queries -> 0..MaxWaits]
  PROVE  IInv'
<1> USE DEF IInv
<1>1. TypeOK'
  BY DEF TypeOK, hosts, processes
<1>2. AgentsAreTended'
  BY DEF AgentsAreTended
<1>3. AnswersFit'
  BY DEF AnswersFit, TypeOK
<1>4. QED
  BY <1>1, <1>2, <1>3, ServicesUntouched DEF hosts, processes

LEMMA TargetIsBusyKeeps ==
  ASSUME IInv, NEW q \in Queries, TargetIsBusy(q)
  PROVE  IInv'
<1> USE DEF IInv, TargetIsBusy
<1>1. CASE waits' = [waits EXCEPT ![q] = @ + 1] /\ place' = place /\ waits[q] # MaxWaits
  <2>1. waits' \in [Queries -> 0..MaxWaits]
    BY <1>1, MaxWaitsIsNat DEF TypeOK
  <2>2. TypeOK'
    BY <1>1, <2>1 DEF TypeOK, hosts, processes
  <2>3. AgentsAreTended' /\ AnswersFit'
    BY <1>1 DEF AgentsAreTended, AnswersFit
  <2>4. QED
    BY <2>2, <2>3, ServicesUntouched DEF hosts, processes
<1>2. CASE place' = [place EXCEPT ![q] = "failed"] /\ waits' = waits
  <2>1. waits' \in [Queries -> 0..MaxWaits]
    BY <1>2 DEF TypeOK
  <2>2. QED
    BY <1>2, <2>1, QueryGetsOnKeeps
<1>3. QED
  BY <1>1, <1>2 DEF WaitsOn

\* What an injection does to its target and, unless the query is answered that it
\* failed, to the answers.
LEMMA InjectsFits ==
  ASSUME IInv, NEW q \in Queries, Injects(q),
         NEW to \in {"ok", "cut"}, place' = [place EXCEPT ![q] = to]
  PROVE  /\ AgentsAreTended' /\ AnswersFit'
         /\ agents' \in [Targets -> Nat] /\ busy' \subseteq Targets
         /\ injected' \subseteq Queries
         /\ place' \in [Queries -> {"idle", "asked", "waiting", "misled", "ok",
                                    "denied", "failed", "cut", "lost"}]
<1> USE DEF IInv
<1> DEFINE t == target[q]
<1>1. /\ place[q] = "waiting" /\ t \in Targets /\ t \notin busy /\ agents[t] \in Nat
      /\ agents' = [agents EXCEPT ![t] = agents[t] + 1]
      /\ busy' = busy \cup {t} /\ injected' = injected \cup {q}
      /\ ended' = ended
  BY DEF Injects, IsFree, TypeOK
<1>2. agents[t] = 0 /\ t \notin ended
  BY <1>1 DEF AgentsAreTended
<1>3. AgentsAreTended'
  BY <1>1, <1>2 DEF AgentsAreTended, TypeOK
<1>4. AnswersFit'
  BY <1>1 DEF AnswersFit, TypeOK
<1>5. QED
  BY <1>1, <1>3, <1>4 DEF TypeOK

LEMMA InjectAgentKeeps ==
  ASSUME IInv, NEW q \in Queries, InjectAgent(q)
  PROVE  IInv'
<1> USE DEF IInv
<1>1. /\ Injects(q) /\ place' = [place EXCEPT ![q] = "ok"]
      /\ UNCHANGED <<hosts, manager, processes, parent, target, waits, ended>>
  BY DEF InjectAgent, Injects, processes
<1>2. AgentsAreTended' /\ AnswersFit'
  BY <1>1, InjectsFits
<1>3. TypeOK'
  BY <1>1, InjectsFits DEF TypeOK, hosts, processes
<1>4. QED
  BY <1>1, <1>2, <1>3, ServicesUntouched DEF hosts, processes

LEMMA InjectsAndDiesKeeps ==
  ASSUME IInv, NEW q \in Queries, InjectsAndDies(q)
  PROVE  IInv'
<1> USE DEF IInv
<1> DEFINE s == ServiceOf(q)
<1>1. /\ Injects(q) /\ Dies(s) /\ place' = [place EXCEPT ![q] = "cut"]
      /\ s \in Services /\ Alive(s)
      /\ service' = [service EXCEPT ![s] = "gone"]
      /\ UNCHANGED <<hosts, manager, tried, early, parent, target, waits, ended>>
  BY DEF InjectsAndDies, Injects, Dies
<1>2. AgentsAreTended' /\ AnswersFit'
  BY <1>1, InjectsFits
<1>3. manager # "starting"
  BY <1>1 DEF ServicesFit, Alive
<1>4. /\ service' \in [Services -> {"none", "pending", "running", "told", "gone"}]
      /\ link' \in [{"32", "64"} -> {"free", "broken"} \cup Kinds]
  BY <1>1 DEF TypeOK, Dies
<1>5. TypeOK'
  BY <1>1, <1>4, InjectsFits DEF TypeOK, hosts
<1>6. \A x \in Services :
         Alive(x)' => Alive(x) /\ (service[x] = "told" => service'[x] = "told")
  BY <1>1 DEF Alive, TypeOK
<1>7. ServicesFit' /\ ManagedAreGivenUp' /\ EndedIsClean'
  BY <1>1, <1>3, <1>4, <1>6, ProcessesKeep DEF hosts
<1>8. QED
  BY <1>2, <1>5, <1>7

LEMMA QueriesKeep ==
  ASSUME IInv, NEW q \in Queries, Ask(q) \/ Serves(q) \/ InjectsAndDies(q)
  PROVE  IInv'
<1>1. waits \in [Queries -> 0..MaxWaits]
  BY DEF IInv, TypeOK
<1>2. ASSUME \/ Ask(q) \/ Forward(q)
             \/ \E error \in {"denied", "failed"} : InjectFails(q, error)
      PROVE  IInv'
  <2>1. /\ UNCHANGED <<hosts, manager, processes, parent, target, waits, agents,
                       ended, busy, injected>>
        /\ place[q] \in {"idle", "asked", "waiting", "misled"}
        /\ \E to \in {"asked", "waiting", "misled", "denied", "failed"} :
               place' = [place EXCEPT ![q] = to]
    BY <1>2 DEF Ask, Forward, InjectFails
  <2>2. QED
    BY <1>1, <2>1, QueryGetsOnKeeps
<1>3. QED
  BY <1>2, TargetIsBusyKeeps, InjectAgentKeeps, InjectsAndDiesKeeps DEF Serves

LEMMA AgentEndsKeeps ==
  ASSUME IInv, NEW t \in Targets, AgentEnds(t)
  PROVE  IInv'
<1> USE DEF IInv
<1>0. agents[t] = 1
  BY DEF AgentEnds, AgentsAreTended, TypeOK
<1>1. /\ agents[t] = 1 /\ t \in busy /\ t \notin ended
      /\ agents' = [agents EXCEPT ![t] = 0] /\ ended' = ended \cup {t}
      /\ UNCHANGED <<hosts, manager, processes, parent, place, target, waits, busy,
                     injected>>
  BY <1>0 DEF AgentEnds, AgentsAreTended
<1>2. TypeOK'
  BY <1>1 DEF TypeOK, hosts, processes
<1>3. AgentsAreTended' /\ AnswersFit'
  BY <1>1 DEF AgentsAreTended, AnswersFit, TypeOK
<1>4. QED
  BY <1>1, <1>2, <1>3, ServicesUntouched DEF hosts, processes

LEMMA EndNoticedKeeps ==
  ASSUME IInv, NEW t \in Targets, EndNoticed(t)
  PROVE  IInv'
<1> USE DEF IInv, EndNoticed
<1>1. agents[t] = 0
  BY DEF AgentsAreTended, TypeOK
<1>2. TypeOK'
  BY DEF TypeOK, hosts, processes
<1>3. AgentsAreTended' /\ AnswersFit'
  BY <1>1 DEF AgentsAreTended, AnswersFit
<1>4. QED
  BY <1>2, <1>3, ServicesUntouched DEF hosts, processes

-----------------------------------------------------------------------------
LEMMA NextKeepsIInv == IInv /\ [Next]_vars => IInv'
<1> SUFFICES ASSUME IInv, [Next]_vars
             PROVE  IInv'
  OBVIOUS
<1>1. CASE UNCHANGED vars
  <2>1. TypeOK'
    BY <1>1 DEF IInv, TypeOK, vars, hosts, processes, queries
  <2>2. QED
    BY <1>1, <2>1, ServicesUntouched, QueriesUntouched
       DEF IInv, vars, processes
<1>2. CASE StartServices
  BY <1>2, StartManagedKeeps, FallBackKeeps, FallBackAfterStartKeeps
     DEF StartServices
<1>3. CASE Manages \/ Stop \/ ParentVanishes
  BY <1>3, ManagesKeeps, StopKeeps, ParentVanishesKeeps
<1>4. CASE \E s \in Services : ReportsRunning(s) \/ Establishes(s) \/ Exits(s)
  BY <1>4, ReportsRunningKeeps, EstablishesKeeps, ExitsKeeps
<1>5. CASE \E q \in Queries : Ask(q) \/ Serves(q) \/ InjectsAndDies(q)
  BY <1>5, QueriesKeep
<1>6. CASE \E t \in Targets : AgentEnds(t) \/ EndNoticed(t)
  BY <1>6, AgentEndsKeeps, EndNoticedKeeps
<1>7. QED
  BY <1>1, <1>2, <1>3, <1>4, <1>5, <1>6 DEF Next

LEMMA IInvHolds == Spec => []IInv
  BY InitEstablishesIInv, NextKeepsIInv, PTL DEF Spec

\* Every variable keeps its type; no query waits longer than MaxWaits.
THEOREM TypeCorrect == Spec => []TypeOK
<1>1. IInv => TypeOK
  BY DEF IInv
<1>2. QED
  BY IInvHolds, <1>1, PTL

\* However start_services fails and the manager ends, it leaves no service in the
\* database and none running that could have been told to stop.
THEOREM NothingIsLeft == Spec => []NothingLeftBehind
<1>1. IInv => NothingLeftBehind
  BY DEF IInv, ManagedAreGivenUp, EndedIsClean, GivenUp, NothingLeftBehind
<1>2. QED
  BY IInvHolds, <1>1, PTL

\* No target ever has two agents, and a query's success means an injection.
THEOREM NeverTwoAgents == Spec => []OneAgentPerTarget
<1>1. IInv => OneAgentPerTarget
  BY DEF IInv, AgentsAreTended, AnswersFit, OneAgentPerTarget
<1>2. QED
  BY IInvHolds, <1>1, PTL

-----------------------------------------------------------------------------
(* RemoteInjection.                                                        *)

(* The strengthening that is inductive: what holds at each place.          *)

Resting == {"idle", "injected", "dead", "freed"}

\* The places of an injection that has stopped the process.
Stopped == {"alloc", "write", "exec", "detach", "dealloc", "redetach"}

Living == {"entering", "agent", "leaving"}

\* The main loop is in one call at a time.
OneAtATime ==
    \A i, j \in Injections :
        at[i] \notin Resting /\ at[j] \notin Resting => i = j

\* Nothing happens before an injection has begun, and a result is returned once
\* it is known.
ResultFits(i) ==
    /\ at[i] = "idle" => holds[i] = {} /\ ~mapped[i] /\ thread[i] = "none"
    /\ at[i] \in {"idle", "attach", "alloc", "write", "exec", "detach",
                  "task", "fill", "create", "beach"} => result[i] = "yet"
    /\ at[i] \in {"injected", "dead", "dealloc", "redetach"} =>
           result[i] = "id"
    /\ at[i] = "freed" => result[i] # "yet"
    /\ result[i] = "error" => at[i] = "freed" /\ holds[i] = {}
    /\ at[i] \in {"attach", "task", "alloc", "write", "exec", "fill", "create"} =>
           thread[i] = "none"
    /\ at[i] \in {"attach", "task", "alloc"} => ~mapped[i] /\ "payload" \notin holds[i]

LinuxPlaces ==
    {"idle", "attach", "alloc", "write", "exec", "detach", "injected", "free",
     "dealloc", "redetach", "close", "freed", "aborted"}

\* A failure leaves something behind only with the process stopped; a success
\* that is being freed has seen its thread leave.
LinuxFits(i) ==
    /\ at[i] \in LinuxPlaces
    /\ at[i] \in Stopped /\ alive => traced
    /\ at[i] \in {"exec", "detach", "injected"} /\ alive => mapped[i]
    /\ at[i] = "free" /\ result[i] = "id" /\ alive => mapped[i]
    /\ at[i] \in {"free", "dealloc", "redetach", "close", "freed"}
       /\ result[i] = "id" => thread[i] \in {"leaving", "gone"}
    /\ /\ at[i] \in {"free", "close"} /\ result[i] = "yet" /\ alive
       /\ "payload" \in holds[i] \/ mapped[i] \/ thread[i] \in Living
       => traced
    /\ result[i] = "error" /\ (mapped[i] \/ thread[i] \in Living) =>
           traced /\ \A j \in Injections : at[j] \notin Stopped

WindowsPlaces ==
    {"idle", "alloc", "write", "create", "beach", "injected", "freed"}

WindowsFits(i) ==
    /\ at[i] \in WindowsPlaces
    /\ at[i] \in {"write", "create"} /\ alive => mapped[i]
    /\ at[i] \in {"alloc", "write", "create"} => "waitable" \notin holds[i]
    /\ at[i] = "create" => "payload" \in holds[i]
    /\ at[i] = "beach" => /\ "payload" \notin holds[i] => ~mapped[i]
                          /\ "waitable" \notin holds[i] => thread[i] = "none"
    /\ result[i] = "error" => ~mapped[i] /\ thread[i] = "none"

DarwinPlaces ==
    {"idle", "task", "alloc", "write", "fill", "create", "injected", "dead",
     "free", "freed"}

DarwinFits(i) ==
    /\ at[i] \in DarwinPlaces
    /\ at[i] \in {"write", "fill", "create"} =>
           "payload" \in holds[i] /\ (alive => mapped[i])
    /\ at[i] = "free" /\ result[i] = "yet" =>
           thread[i] = "none" /\ (mapped[i] => "payload" \in holds[i])
    /\ at[i] \in {"dead", "free", "freed"} /\ result[i] = "id" =>
           thread[i] \in DeadWhen
    /\ result[i] = "error" => ~mapped[i] /\ thread[i] = "none"

PlatformFits ==
    /\ platform = "linux" => \A i \in Injections : LinuxFits(i)
    /\ platform = "windows" => \A i \in Injections : WindowsFits(i)
    /\ platform = "darwin" => \A i \in Injections : DarwinFits(i)

ProcessFits ==
    /\ traced => platform = "linux" /\ alive
    /\ RunsOnItsOwnRegisters
    /\ ~alive => \A i \in Injections : ~mapped[i] /\ thread[i] \notin Living

\* Who has left the process stopped, or is at it.
Explains(i) ==
    \/ at[i] \in Stopped
    \/ at[i] \in {"free", "close"} /\ result[i] = "yet"
    \/ at[i] = "close" /\ mapped[i]
    \/ at[i] = "freed" /\ (result[i] = "error" \/ mapped[i])

StopIsExplained == traced => \E i \in Injections : Explains(i)

GlueInv ==
    /\ InjectionTypeOK /\ OneAtATime /\ (\A i \in Injections : ResultFits(i))
    /\ PlatformFits /\ ProcessFits /\ StopIsExplained
    /\ PayloadOutlivesItsThread
-----------------------------------------------------------------------------
USE DEF process, Resting, Stopped, Living, LinuxPlaces, WindowsPlaces,
        DarwinPlaces, Handles, Places, DeadWhen, Idle, Go, Returns, Takes,
        SetMapped, Errs, AttachTo, DetachFrom, Restored, SetRegs, Stops,
        Expected, Writable, Created, WriteFailed, ThreadGoes,
        RunsOnItsOwnRegisters, LeftAt

LEMMA ReleasesUnmap == Unmaps
<1>1. 3 \in 1..4 /\ 4 \in 1..4 /\ 3 < 4
  OBVIOUS
<1>2. Releases[3] = "payload" /\ Releases[4] = "task"
  BY DEF Releases
<1>3. QED
  BY <1>1, <1>2 DEF Unmaps

LEMMA LinuxNewKeeps ==
  ASSUME GlueInv, NEW i \in Injections, LinuxNew(i)
  PROVE  GlueInv'
<1> USE DEF GlueInv, LinuxNew
<1>1. InjectionTypeOK'
  BY DEF InjectionTypeOK
<1>2. OneAtATime'
  BY DEF InjectionTypeOK, OneAtATime
<1>3. \A j \in Injections : ResultFits(j)'
  BY DEF InjectionTypeOK, ResultFits, PlatformFits, LinuxFits, WindowsFits,
         DarwinFits
<1>4. PlatformFits'
  BY DEF InjectionTypeOK, OneAtATime, ResultFits, PlatformFits, LinuxFits,
         WindowsFits, DarwinFits, ProcessFits, PayloadOutlivesItsThread
<1>5. ProcessFits' /\ PayloadOutlivesItsThread'
  BY DEF InjectionTypeOK, OneAtATime, ResultFits, PlatformFits, LinuxFits,
         WindowsFits, DarwinFits, ProcessFits, PayloadOutlivesItsThread
<1>6. StopIsExplained'
  BY DEF InjectionTypeOK, OneAtATime, ResultFits, PlatformFits, LinuxFits,
         ProcessFits, StopIsExplained, Explains
<1>7. QED
  BY <1>1, <1>2, <1>3, <1>4, <1>5, <1>6

LEMMA LinuxAttachKeeps ==
  ASSUME GlueInv, NEW i \in Injections, LinuxAttach(i)
  PROVE  GlueInv'
<1> USE DEF GlueInv, LinuxAttach
<1>1. InjectionTypeOK'
  BY DEF InjectionTypeOK
<1>2. OneAtATime'
  BY DEF InjectionTypeOK, OneAtATime
<1>3. \A j \in Injections : ResultFits(j)'
  BY DEF InjectionTypeOK, ResultFits, PlatformFits, LinuxFits, WindowsFits,
         DarwinFits
<1>4. PlatformFits'
  BY DEF InjectionTypeOK, OneAtATime, ResultFits, PlatformFits, LinuxFits,
         WindowsFits, DarwinFits, ProcessFits, PayloadOutlivesItsThread
<1>5. ProcessFits' /\ PayloadOutlivesItsThread'
  BY DEF InjectionTypeOK, OneAtATime, ResultFits, PlatformFits, LinuxFits,
         WindowsFits, DarwinFits, ProcessFits, PayloadOutlivesItsThread
<1>6. ASSUME traced'
      PROVE  \E j \in Injections : Explains(j)'
  <2> USE <1>6 DEF InjectionTypeOK, ResultFits, PlatformFits, LinuxFits, ProcessFits,
                   Explains
  <2>1. CASE traced
    <3>1. PICK k \in Injections : Explains(k)
      BY <2>1 DEF StopIsExplained
    <3>2. Explains(k)' \/ Explains(i)'
      BY <2>1, <3>1
    <3>3. QED
      BY <3>2
  <2>2. CASE ~traced
    <3>1. Explains(i)'
      BY <2>2
    <3>2. QED
      BY <3>1
  <2>3. QED
    BY <2>1, <2>2
<1>7. QED
  BY <1>1, <1>2, <1>3, <1>4, <1>5, <1>6 DEF StopIsExplained

LEMMA LinuxAllocKeeps ==
  ASSUME GlueInv, NEW i \in Injections, LinuxAlloc(i)
  PROVE  GlueInv'
<1> USE DEF GlueInv, LinuxAlloc
<1>1. InjectionTypeOK'
  BY DEF InjectionTypeOK
<1>2. OneAtATime'
  BY DEF InjectionTypeOK, OneAtATime
<1>3. \A j \in Injections : ResultFits(j)'
  BY DEF InjectionTypeOK, ResultFits, PlatformFits, LinuxFits, WindowsFits,
         DarwinFits
<1>4. PlatformFits'
  BY DEF InjectionTypeOK, OneAtATime, ResultFits, PlatformFits, LinuxFits,
         WindowsFits, DarwinFits, ProcessFits, PayloadOutlivesItsThread
<1>5. ProcessFits' /\ PayloadOutlivesItsThread'
  BY DEF InjectionTypeOK, OneAtATime, ResultFits, PlatformFits, LinuxFits,
         WindowsFits, DarwinFits, ProcessFits, PayloadOutlivesItsThread
<1>6. ASSUME traced'
      PROVE  \E j \in Injections : Explains(j)'
  <2> USE <1>6 DEF InjectionTypeOK, ResultFits, PlatformFits, LinuxFits, ProcessFits,
                   Explains
  <2>1. CASE traced
    <3>1. PICK k \in Injections : Explains(k)
      BY <2>1 DEF StopIsExplained
    <3>2. Explains(k)' \/ Explains(i)'
      BY <2>1, <3>1
    <3>3. QED
      BY <3>2
  <2>2. CASE ~traced
    <3>1. Explains(i)'
      BY <2>2
    <3>2. QED
      BY <3>1
  <2>3. QED
    BY <2>1, <2>2
<1>7. QED
  BY <1>1, <1>2, <1>3, <1>4, <1>5, <1>6 DEF StopIsExplained

LEMMA LinuxWriteKeeps ==
  ASSUME GlueInv, NEW i \in Injections, LinuxWrite(i)
  PROVE  GlueInv'
<1> USE DEF GlueInv, LinuxWrite
<1>1. InjectionTypeOK'
  BY DEF InjectionTypeOK
<1>2. OneAtATime'
  BY DEF InjectionTypeOK, OneAtATime
<1>3. \A j \in Injections : ResultFits(j)'
  BY DEF InjectionTypeOK, ResultFits, PlatformFits, LinuxFits, WindowsFits,
         DarwinFits
<1>4. PlatformFits'
  BY DEF InjectionTypeOK, OneAtATime, ResultFits, PlatformFits, LinuxFits,
         WindowsFits, DarwinFits, ProcessFits, PayloadOutlivesItsThread
<1>5. ProcessFits' /\ PayloadOutlivesItsThread'
  BY DEF InjectionTypeOK, OneAtATime, ResultFits, PlatformFits, LinuxFits,
         WindowsFits, DarwinFits, ProcessFits, PayloadOutlivesItsThread
<1>6. StopIsExplained'
  BY DEF InjectionTypeOK, OneAtATime, ResultFits, PlatformFits, LinuxFits,
         ProcessFits, StopIsExplained, Explains
<1>7. QED
  BY <1>1, <1>2, <1>3, <1>4, <1>5, <1>6

LEMMA LinuxExecKeeps ==
  ASSUME GlueInv, NEW i \in Injections, LinuxExec(i)
  PROVE  GlueInv'
<1> USE DEF GlueInv, LinuxExec
<1>1. InjectionTypeOK'
  BY DEF InjectionTypeOK
<1>2. OneAtATime'
  BY DEF InjectionTypeOK, OneAtATime
<1>3. \A j \in Injections : ResultFits(j)'
  BY DEF InjectionTypeOK, ResultFits, PlatformFits, LinuxFits, WindowsFits,
         DarwinFits
<1>4. PlatformFits'
  BY DEF InjectionTypeOK, OneAtATime, ResultFits, PlatformFits, LinuxFits,
         WindowsFits, DarwinFits, ProcessFits, PayloadOutlivesItsThread
<1>5. ProcessFits' /\ PayloadOutlivesItsThread'
  BY DEF InjectionTypeOK, OneAtATime, ResultFits, PlatformFits, LinuxFits,
         WindowsFits, DarwinFits, ProcessFits, PayloadOutlivesItsThread
<1>6. ASSUME traced'
      PROVE  \E j \in Injections : Explains(j)'
  <2> USE <1>6 DEF InjectionTypeOK, ResultFits, PlatformFits, LinuxFits, ProcessFits,
                   Explains
  <2>1. CASE traced
    <3>1. PICK k \in Injections : Explains(k)
      BY <2>1 DEF StopIsExplained
    <3>2. Explains(k)' \/ Explains(i)'
      BY <2>1, <3>1
    <3>3. QED
      BY <3>2
  <2>2. CASE ~traced
    <3>1. Explains(i)'
      BY <2>2
    <3>2. QED
      BY <3>1
  <2>3. QED
    BY <2>1, <2>2
<1>7. QED
  BY <1>1, <1>2, <1>3, <1>4, <1>5, <1>6 DEF StopIsExplained

LEMMA LinuxDetachKeeps ==
  ASSUME GlueInv, NEW i \in Injections, LinuxDetach(i)
  PROVE  GlueInv'
<1> USE DEF GlueInv, LinuxDetach
<1>1. InjectionTypeOK'
  BY DEF InjectionTypeOK
<1>2. OneAtATime'
  BY DEF InjectionTypeOK, OneAtATime
<1>3. \A j \in Injections : ResultFits(j)'
  BY DEF InjectionTypeOK, ResultFits, PlatformFits, LinuxFits, WindowsFits,
         DarwinFits
<1>4. PlatformFits'
  BY DEF InjectionTypeOK, OneAtATime, ResultFits, PlatformFits, LinuxFits,
         WindowsFits, DarwinFits, ProcessFits, PayloadOutlivesItsThread
<1>5. ProcessFits' /\ PayloadOutlivesItsThread'
  BY DEF InjectionTypeOK, OneAtATime, ResultFits, PlatformFits, LinuxFits,
         WindowsFits, DarwinFits, ProcessFits, PayloadOutlivesItsThread
<1>6. StopIsExplained'
  BY DEF InjectionTypeOK, OneAtATime, ResultFits, PlatformFits, LinuxFits,
         ProcessFits, StopIsExplained, Explains
<1>7. QED
  BY <1>1, <1>2, <1>3, <1>4, <1>5, <1>6

LEMMA LinuxEndKeeps ==
  ASSUME GlueInv, NEW i \in Injections, LinuxEnd(i)
  PROVE  GlueInv'
<1> USE DEF GlueInv, LinuxEnd
<1>1. InjectionTypeOK'
  BY DEF InjectionTypeOK
<1>2. OneAtATime'
  BY DEF InjectionTypeOK, OneAtATime
<1>3. \A j \in Injections : ResultFits(j)'
  BY DEF InjectionTypeOK, ResultFits, PlatformFits, LinuxFits, WindowsFits,
         DarwinFits
<1>4. PlatformFits'
  BY DEF InjectionTypeOK, OneAtATime, ResultFits, PlatformFits, LinuxFits,
         WindowsFits, DarwinFits, ProcessFits, PayloadOutlivesItsThread
<1>5. ProcessFits' /\ PayloadOutlivesItsThread'
  BY DEF InjectionTypeOK, OneAtATime, ResultFits, PlatformFits, LinuxFits,
         WindowsFits, DarwinFits, ProcessFits, PayloadOutlivesItsThread
<1>6. StopIsExplained'
  BY DEF InjectionTypeOK, OneAtATime, ResultFits, PlatformFits, LinuxFits,
         ProcessFits, StopIsExplained, Explains
<1>7. QED
  BY <1>1, <1>2, <1>3, <1>4, <1>5, <1>6

LEMMA LinuxFreeKeeps ==
  ASSUME GlueInv, NEW i \in Injections, LinuxFree(i)
  PROVE  GlueInv'
<1> USE DEF GlueInv, LinuxFree
<1>1. InjectionTypeOK'
  BY DEF InjectionTypeOK
<1>2. OneAtATime'
  BY DEF InjectionTypeOK, OneAtATime
<1>3. \A j \in Injections : ResultFits(j)'
  BY DEF InjectionTypeOK, ResultFits, PlatformFits, LinuxFits, WindowsFits,
         DarwinFits
<1>4. PlatformFits'
  BY DEF InjectionTypeOK, OneAtATime, ResultFits, PlatformFits, LinuxFits,
         WindowsFits, DarwinFits, ProcessFits, PayloadOutlivesItsThread
<1>5. ProcessFits' /\ PayloadOutlivesItsThread'
  BY DEF InjectionTypeOK, OneAtATime, ResultFits, PlatformFits, LinuxFits,
         WindowsFits, DarwinFits, ProcessFits, PayloadOutlivesItsThread
<1>6. ASSUME traced'
      PROVE  \E j \in Injections : Explains(j)'
  <2> USE <1>6 DEF InjectionTypeOK, ResultFits, PlatformFits, LinuxFits, ProcessFits,
                   Explains
  <2>1. CASE traced
    <3>1. PICK k \in Injections : Explains(k)
      BY <2>1 DEF StopIsExplained
    <3>2. Explains(k)' \/ Explains(i)'
      BY <2>1, <3>1
    <3>3. QED
      BY <3>2
  <2>2. CASE ~traced
    <3>1. Explains(i)'
      BY <2>2
    <3>2. QED
      BY <3>1
  <2>3. QED
    BY <2>1, <2>2
<1>7. QED
  BY <1>1, <1>2, <1>3, <1>4, <1>5, <1>6 DEF StopIsExplained

LEMMA LinuxDeallocKeeps ==
  ASSUME GlueInv, NEW i \in Injections, LinuxDealloc(i)
  PROVE  GlueInv'
<1> USE DEF GlueInv, LinuxDealloc
<1>1. InjectionTypeOK'
  BY DEF InjectionTypeOK
<1>2. OneAtATime'
  BY DEF InjectionTypeOK, OneAtATime
<1>3. \A j \in Injections : ResultFits(j)'
  BY DEF InjectionTypeOK, ResultFits, PlatformFits, LinuxFits, WindowsFits,
         DarwinFits
<1>4. PlatformFits'
  BY DEF InjectionTypeOK, OneAtATime, ResultFits, PlatformFits, LinuxFits,
         WindowsFits, DarwinFits, ProcessFits, PayloadOutlivesItsThread
<1>5. ProcessFits' /\ PayloadOutlivesItsThread'
  BY DEF InjectionTypeOK, OneAtATime, ResultFits, PlatformFits, LinuxFits,
         WindowsFits, DarwinFits, ProcessFits, PayloadOutlivesItsThread
<1>6. StopIsExplained'
  BY DEF InjectionTypeOK, OneAtATime, ResultFits, PlatformFits, LinuxFits,
         ProcessFits, StopIsExplained, Explains
<1>7. QED
  BY <1>1, <1>2, <1>3, <1>4, <1>5, <1>6

LEMMA LinuxRedetachKeeps ==
  ASSUME GlueInv, NEW i \in Injections, LinuxRedetach(i)
  PROVE  GlueInv'
<1> USE DEF GlueInv, LinuxRedetach
<1>1. InjectionTypeOK'
  BY DEF InjectionTypeOK
<1>2. OneAtATime'
  BY DEF InjectionTypeOK, OneAtATime
<1>3. \A j \in Injections : ResultFits(j)'
  BY DEF InjectionTypeOK, ResultFits, PlatformFits, LinuxFits, WindowsFits,
         DarwinFits
<1>4. PlatformFits'
  BY DEF InjectionTypeOK, OneAtATime, ResultFits, PlatformFits, LinuxFits,
         WindowsFits, DarwinFits, ProcessFits, PayloadOutlivesItsThread
<1>5. ProcessFits' /\ PayloadOutlivesItsThread'
  BY DEF InjectionTypeOK, OneAtATime, ResultFits, PlatformFits, LinuxFits,
         WindowsFits, DarwinFits, ProcessFits, PayloadOutlivesItsThread
<1>6. StopIsExplained'
  BY DEF InjectionTypeOK, OneAtATime, ResultFits, PlatformFits, LinuxFits,
         ProcessFits, StopIsExplained, Explains
<1>7. QED
  BY <1>1, <1>2, <1>3, <1>4, <1>5, <1>6

LEMMA LinuxAbortsKeeps ==
  ASSUME GlueInv, NEW i \in Injections, LinuxAborts(i)
  PROVE  GlueInv'
<1> USE DEF GlueInv, LinuxAborts
<1>1. InjectionTypeOK'
  BY DEF InjectionTypeOK
<1>2. OneAtATime'
  BY DEF InjectionTypeOK, OneAtATime
<1>3. \A j \in Injections : ResultFits(j)'
  BY DEF InjectionTypeOK, ResultFits, PlatformFits, LinuxFits, WindowsFits,
         DarwinFits
<1>4. PlatformFits'
  BY DEF InjectionTypeOK, OneAtATime, ResultFits, PlatformFits, LinuxFits,
         WindowsFits, DarwinFits, ProcessFits, PayloadOutlivesItsThread
<1>5. ProcessFits' /\ PayloadOutlivesItsThread'
  BY DEF InjectionTypeOK, OneAtATime, ResultFits, PlatformFits, LinuxFits,
         WindowsFits, DarwinFits, ProcessFits, PayloadOutlivesItsThread
<1>6. StopIsExplained'
  BY DEF InjectionTypeOK, OneAtATime, ResultFits, PlatformFits, LinuxFits,
         ProcessFits, StopIsExplained, Explains
<1>7. QED
  BY <1>1, <1>2, <1>3, <1>4, <1>5, <1>6

LEMMA LinuxCloseKeeps ==
  ASSUME GlueInv, NEW i \in Injections, LinuxClose(i)
  PROVE  GlueInv'
<1> USE DEF GlueInv, LinuxClose
<1>1. InjectionTypeOK'
  BY DEF InjectionTypeOK
<1>2. OneAtATime'
  BY DEF InjectionTypeOK, OneAtATime
<1>3. \A j \in Injections : ResultFits(j)'
  BY DEF InjectionTypeOK, ResultFits, PlatformFits, LinuxFits, WindowsFits,
         DarwinFits
<1>4. PlatformFits'
  BY DEF InjectionTypeOK, OneAtATime, ResultFits, PlatformFits, LinuxFits,
         WindowsFits, DarwinFits, ProcessFits, PayloadOutlivesItsThread
<1>5. ProcessFits' /\ PayloadOutlivesItsThread'
  BY DEF InjectionTypeOK, OneAtATime, ResultFits, PlatformFits, LinuxFits,
         WindowsFits, DarwinFits, ProcessFits, PayloadOutlivesItsThread
<1>6. StopIsExplained'
  BY DEF InjectionTypeOK, OneAtATime, ResultFits, PlatformFits, LinuxFits,
         ProcessFits, StopIsExplained, Explains
<1>7. QED
  BY <1>1, <1>2, <1>3, <1>4, <1>5, <1>6

LEMMA WindowsOpenKeeps ==
  ASSUME GlueInv, NEW i \in Injections, WindowsOpen(i)
  PROVE  GlueInv'
<1> USE DEF GlueInv, WindowsOpen
<1>1. InjectionTypeOK'
  BY DEF InjectionTypeOK
<1>2. OneAtATime'
  BY DEF InjectionTypeOK, OneAtATime
<1>3. \A j \in Injections : ResultFits(j)'
  BY DEF InjectionTypeOK, ResultFits, PlatformFits, LinuxFits, WindowsFits,
         DarwinFits
<1>4. PlatformFits'
  BY DEF InjectionTypeOK, OneAtATime, ResultFits, PlatformFits, LinuxFits,
         WindowsFits, DarwinFits, ProcessFits, PayloadOutlivesItsThread
<1>5. ProcessFits' /\ PayloadOutlivesItsThread'
  BY DEF InjectionTypeOK, OneAtATime, ResultFits, PlatformFits, LinuxFits,
         WindowsFits, DarwinFits, ProcessFits, PayloadOutlivesItsThread
<1>6. StopIsExplained'
  BY DEF InjectionTypeOK, OneAtATime, ResultFits, PlatformFits, LinuxFits,
         ProcessFits, StopIsExplained, Explains
<1>7. QED
  BY <1>1, <1>2, <1>3, <1>4, <1>5, <1>6

LEMMA WindowsAllocKeeps ==
  ASSUME GlueInv, NEW i \in Injections, WindowsAlloc(i)
  PROVE  GlueInv'
<1> USE DEF GlueInv, WindowsAlloc
<1>1. InjectionTypeOK'
  BY DEF InjectionTypeOK
<1>2. OneAtATime'
  BY DEF InjectionTypeOK, OneAtATime
<1>3. \A j \in Injections : ResultFits(j)'
  BY DEF InjectionTypeOK, ResultFits, PlatformFits, LinuxFits, WindowsFits,
         DarwinFits
<1>4. PlatformFits'
  BY DEF InjectionTypeOK, OneAtATime, ResultFits, PlatformFits, LinuxFits,
         WindowsFits, DarwinFits, ProcessFits, PayloadOutlivesItsThread
<1>5. ProcessFits' /\ PayloadOutlivesItsThread'
  BY DEF InjectionTypeOK, OneAtATime, ResultFits, PlatformFits, LinuxFits,
         WindowsFits, DarwinFits, ProcessFits, PayloadOutlivesItsThread
<1>6. StopIsExplained'
  BY DEF InjectionTypeOK, OneAtATime, ResultFits, PlatformFits, LinuxFits,
         ProcessFits, StopIsExplained, Explains
<1>7. QED
  BY <1>1, <1>2, <1>3, <1>4, <1>5, <1>6

LEMMA WindowsWriteKeeps ==
  ASSUME GlueInv, NEW i \in Injections, WindowsWrite(i)
  PROVE  GlueInv'
<1> USE DEF GlueInv, WindowsWrite
<1>1. InjectionTypeOK'
  <2> USE DEF InjectionTypeOK
  <2>1. mapped' \in [Injections -> BOOLEAN]
    OBVIOUS
  <2>2. holds' \in [Injections -> SUBSET Handles]
    OBVIOUS
  <2>3. at' \in [Injections -> Places]
    OBVIOUS
  <2>4. QED
    BY <2>1, <2>2, <2>3
<1>2. OneAtATime'
  BY DEF InjectionTypeOK, OneAtATime
<1>3. \A j \in Injections : ResultFits(j)'
  BY DEF InjectionTypeOK, ResultFits, PlatformFits, LinuxFits, WindowsFits,
         DarwinFits
<1>4. PlatformFits'
  BY DEF InjectionTypeOK, OneAtATime, ResultFits, PlatformFits, LinuxFits,
         WindowsFits, DarwinFits, ProcessFits, PayloadOutlivesItsThread
<1>5. ProcessFits' /\ PayloadOutlivesItsThread'
  BY DEF InjectionTypeOK, OneAtATime, ResultFits, PlatformFits, LinuxFits,
         WindowsFits, DarwinFits, ProcessFits, PayloadOutlivesItsThread
<1>6. StopIsExplained'
  BY DEF InjectionTypeOK, OneAtATime, ResultFits, PlatformFits, LinuxFits,
         ProcessFits, StopIsExplained, Explains
<1>7. QED
  BY <1>1, <1>2, <1>3, <1>4, <1>5, <1>6

LEMMA WindowsCreateKeeps ==
  ASSUME GlueInv, NEW i \in Injections, WindowsCreate(i)
  PROVE  GlueInv'
<1> USE DEF GlueInv, WindowsCreate
<1>1. InjectionTypeOK'
  BY DEF InjectionTypeOK
<1>2. OneAtATime'
  BY DEF InjectionTypeOK, OneAtATime
<1>3. \A j \in Injections : ResultFits(j)'
  BY DEF InjectionTypeOK, ResultFits, PlatformFits, LinuxFits, WindowsFits,
         DarwinFits
<1>4. PlatformFits'
  BY DEF InjectionTypeOK, OneAtATime, ResultFits, PlatformFits, LinuxFits,
         WindowsFits, DarwinFits, ProcessFits, PayloadOutlivesItsThread
<1>5. ProcessFits' /\ PayloadOutlivesItsThread'
  BY DEF InjectionTypeOK, OneAtATime, ResultFits, PlatformFits, LinuxFits,
         WindowsFits, DarwinFits, ProcessFits, PayloadOutlivesItsThread
<1>6. StopIsExplained'
  BY DEF InjectionTypeOK, OneAtATime, ResultFits, PlatformFits, LinuxFits,
         ProcessFits, StopIsExplained, Explains
<1>7. QED
  BY <1>1, <1>2, <1>3, <1>4, <1>5, <1>6

LEMMA WindowsBeachKeeps ==
  ASSUME GlueInv, NEW i \in Injections, WindowsBeach(i)
  PROVE  GlueInv'
<1> USE DEF GlueInv, WindowsBeach
<1>1. InjectionTypeOK'
  BY DEF InjectionTypeOK
<1>2. OneAtATime'
  BY DEF InjectionTypeOK, OneAtATime
<1>3. \A j \in Injections : ResultFits(j)'
  BY DEF InjectionTypeOK, ResultFits, PlatformFits, LinuxFits, WindowsFits,
         DarwinFits
<1>4. PlatformFits'
  BY DEF InjectionTypeOK, OneAtATime, ResultFits, PlatformFits, LinuxFits,
         WindowsFits, DarwinFits, ProcessFits, PayloadOutlivesItsThread
<1>5. ProcessFits' /\ PayloadOutlivesItsThread'
  BY DEF InjectionTypeOK, OneAtATime, ResultFits, PlatformFits, LinuxFits,
         WindowsFits, DarwinFits, ProcessFits, PayloadOutlivesItsThread
<1>6. StopIsExplained'
  BY DEF InjectionTypeOK, OneAtATime, ResultFits, PlatformFits, LinuxFits,
         ProcessFits, StopIsExplained, Explains
<1>7. QED
  BY <1>1, <1>2, <1>3, <1>4, <1>5, <1>6

LEMMA WindowsEndKeeps ==
  ASSUME GlueInv, NEW i \in Injections, WindowsEnd(i)
  PROVE  GlueInv'
<1> USE DEF GlueInv, WindowsEnd
<1>1. InjectionTypeOK'
  BY DEF InjectionTypeOK
<1>2. OneAtATime'
  BY DEF InjectionTypeOK, OneAtATime
<1>3. \A j \in Injections : ResultFits(j)'
  BY DEF InjectionTypeOK, ResultFits, PlatformFits, LinuxFits, WindowsFits,
         DarwinFits
<1>4. PlatformFits'
  BY DEF InjectionTypeOK, OneAtATime, ResultFits, PlatformFits, LinuxFits,
         WindowsFits, DarwinFits, ProcessFits, PayloadOutlivesItsThread
<1>5. ProcessFits' /\ PayloadOutlivesItsThread'
  BY DEF InjectionTypeOK, OneAtATime, ResultFits, PlatformFits, LinuxFits,
         WindowsFits, DarwinFits, ProcessFits, PayloadOutlivesItsThread
<1>6. StopIsExplained'
  BY DEF InjectionTypeOK, OneAtATime, ResultFits, PlatformFits, LinuxFits,
         ProcessFits, StopIsExplained, Explains
<1>7. QED
  BY <1>1, <1>2, <1>3, <1>4, <1>5, <1>6

LEMMA DarwinNewKeeps ==
  ASSUME GlueInv, NEW i \in Injections, DarwinNew(i)
  PROVE  GlueInv'
<1> USE DEF GlueInv, DarwinNew
<1>1. InjectionTypeOK'
  BY DEF InjectionTypeOK
<1>2. OneAtATime'
  BY DEF InjectionTypeOK, OneAtATime
<1>3. \A j \in Injections : ResultFits(j)'
  BY DEF InjectionTypeOK, ResultFits, PlatformFits, LinuxFits, WindowsFits,
         DarwinFits
<1>4. PlatformFits'
  BY DEF InjectionTypeOK, OneAtATime, ResultFits, PlatformFits, LinuxFits,
         WindowsFits, DarwinFits, ProcessFits, PayloadOutlivesItsThread
<1>5. ProcessFits' /\ PayloadOutlivesItsThread'
  BY DEF InjectionTypeOK, OneAtATime, ResultFits, PlatformFits, LinuxFits,
         WindowsFits, DarwinFits, ProcessFits, PayloadOutlivesItsThread
<1>6. StopIsExplained'
  BY DEF InjectionTypeOK, OneAtATime, ResultFits, PlatformFits, LinuxFits,
         ProcessFits, StopIsExplained, Explains
<1>7. QED
  BY <1>1, <1>2, <1>3, <1>4, <1>5, <1>6

LEMMA DarwinTaskKeeps ==
  ASSUME GlueInv, NEW i \in Injections, DarwinTask(i)
  PROVE  GlueInv'
<1> USE DEF GlueInv, DarwinTask
<1>1. InjectionTypeOK'
  BY DEF InjectionTypeOK
<1>2. OneAtATime'
  BY DEF InjectionTypeOK, OneAtATime
<1>3. \A j \in Injections : ResultFits(j)'
  BY DEF InjectionTypeOK, ResultFits, PlatformFits, LinuxFits, WindowsFits,
         DarwinFits
<1>4. PlatformFits'
  BY DEF InjectionTypeOK, OneAtATime, ResultFits, PlatformFits, LinuxFits,
         WindowsFits, DarwinFits, ProcessFits, PayloadOutlivesItsThread
<1>5. ProcessFits' /\ PayloadOutlivesItsThread'
  BY DEF InjectionTypeOK, OneAtATime, ResultFits, PlatformFits, LinuxFits,
         WindowsFits, DarwinFits, ProcessFits, PayloadOutlivesItsThread
<1>6. StopIsExplained'
  BY DEF InjectionTypeOK, OneAtATime, ResultFits, PlatformFits, LinuxFits,
         ProcessFits, StopIsExplained, Explains
<1>7. QED
  BY <1>1, <1>2, <1>3, <1>4, <1>5, <1>6

LEMMA DarwinAllocateKeeps ==
  ASSUME GlueInv, NEW i \in Injections, DarwinAllocate(i)
  PROVE  GlueInv'
<1> USE DEF GlueInv, DarwinAllocate
<1>1. InjectionTypeOK'
  <2> USE DEF InjectionTypeOK
  <2>1. mapped' \in [Injections -> BOOLEAN]
    OBVIOUS
  <2>2. holds' \in [Injections -> SUBSET Handles]
    OBVIOUS
  <2>3. at' \in [Injections -> Places]
    OBVIOUS
  <2>4. QED
    BY <2>1, <2>2, <2>3
<1>2. OneAtATime'
  BY DEF InjectionTypeOK, OneAtATime
<1>3. \A j \in Injections : ResultFits(j)'
  BY DEF InjectionTypeOK, ResultFits, PlatformFits, LinuxFits, WindowsFits,
         DarwinFits
<1>4. PlatformFits'
  BY DEF InjectionTypeOK, OneAtATime, ResultFits, PlatformFits, LinuxFits,
         WindowsFits, DarwinFits, ProcessFits, PayloadOutlivesItsThread
<1>5. ProcessFits' /\ PayloadOutlivesItsThread'
  BY DEF InjectionTypeOK, OneAtATime, ResultFits, PlatformFits, LinuxFits,
         WindowsFits, DarwinFits, ProcessFits, PayloadOutlivesItsThread
<1>6. StopIsExplained'
  BY DEF InjectionTypeOK, OneAtATime, ResultFits, PlatformFits, LinuxFits,
         ProcessFits, StopIsExplained, Explains
<1>7. QED
  BY <1>1, <1>2, <1>3, <1>4, <1>5, <1>6

LEMMA DarwinWriteKeeps ==
  ASSUME GlueInv, NEW i \in Injections, DarwinWrite(i)
  PROVE  GlueInv'
<1> USE DEF GlueInv, DarwinWrite
<1>1. InjectionTypeOK'
  BY DEF InjectionTypeOK
<1>2. OneAtATime'
  BY DEF InjectionTypeOK, OneAtATime
<1>3. \A j \in Injections : ResultFits(j)'
  BY DEF InjectionTypeOK, ResultFits, PlatformFits, LinuxFits, WindowsFits,
         DarwinFits
<1>4. PlatformFits'
  BY DEF InjectionTypeOK, OneAtATime, ResultFits, PlatformFits, LinuxFits,
         WindowsFits, DarwinFits, ProcessFits, PayloadOutlivesItsThread
<1>5. ProcessFits' /\ PayloadOutlivesItsThread'
  BY DEF InjectionTypeOK, OneAtATime, ResultFits, PlatformFits, LinuxFits,
         WindowsFits, DarwinFits, ProcessFits, PayloadOutlivesItsThread
<1>6. StopIsExplained'
  BY DEF InjectionTypeOK, OneAtATime, ResultFits, PlatformFits, LinuxFits,
         ProcessFits, StopIsExplained, Explains
<1>7. QED
  BY <1>1, <1>2, <1>3, <1>4, <1>5, <1>6

LEMMA DarwinFillKeeps ==
  ASSUME GlueInv, NEW i \in Injections, DarwinFill(i)
  PROVE  GlueInv'
<1> USE DEF GlueInv, DarwinFill
<1>1. InjectionTypeOK'
  BY DEF InjectionTypeOK
<1>2. OneAtATime'
  BY DEF InjectionTypeOK, OneAtATime
<1>3. \A j \in Injections : ResultFits(j)'
  BY DEF InjectionTypeOK, ResultFits, PlatformFits, LinuxFits, WindowsFits,
         DarwinFits
<1>4. PlatformFits'
  BY DEF InjectionTypeOK, OneAtATime, ResultFits, PlatformFits, LinuxFits,
         WindowsFits, DarwinFits, ProcessFits, PayloadOutlivesItsThread
<1>5. ProcessFits' /\ PayloadOutlivesItsThread'
  BY DEF InjectionTypeOK, OneAtATime, ResultFits, PlatformFits, LinuxFits,
         WindowsFits, DarwinFits, ProcessFits, PayloadOutlivesItsThread
<1>6. StopIsExplained'
  BY DEF InjectionTypeOK, OneAtATime, ResultFits, PlatformFits, LinuxFits,
         ProcessFits, StopIsExplained, Explains
<1>7. QED
  BY <1>1, <1>2, <1>3, <1>4, <1>5, <1>6

LEMMA DarwinCreateKeeps ==
  ASSUME GlueInv, NEW i \in Injections, DarwinCreate(i)
  PROVE  GlueInv'
<1> USE DEF GlueInv, DarwinCreate
<1>1. InjectionTypeOK'
  BY DEF InjectionTypeOK
<1>2. OneAtATime'
  BY DEF InjectionTypeOK, OneAtATime
<1>3. \A j \in Injections : ResultFits(j)'
  BY DEF InjectionTypeOK, ResultFits, PlatformFits, LinuxFits, WindowsFits,
         DarwinFits
<1>4. PlatformFits'
  BY DEF InjectionTypeOK, OneAtATime, ResultFits, PlatformFits, LinuxFits,
         WindowsFits, DarwinFits, ProcessFits, PayloadOutlivesItsThread
<1>5. ProcessFits' /\ PayloadOutlivesItsThread'
  BY DEF InjectionTypeOK, OneAtATime, ResultFits, PlatformFits, LinuxFits,
         WindowsFits, DarwinFits, ProcessFits, PayloadOutlivesItsThread
<1>6. StopIsExplained'
  BY DEF InjectionTypeOK, OneAtATime, ResultFits, PlatformFits, LinuxFits,
         ProcessFits, StopIsExplained, Explains
<1>7. QED
  BY <1>1, <1>2, <1>3, <1>4, <1>5, <1>6

LEMMA DarwinDeadKeeps ==
  ASSUME GlueInv, NEW i \in Injections, DarwinDead(i)
  PROVE  GlueInv'
<1> USE DEF GlueInv, DarwinDead
<1>1. InjectionTypeOK'
  BY DEF InjectionTypeOK
<1>2. OneAtATime'
  BY DEF InjectionTypeOK, OneAtATime
<1>3. \A j \in Injections : ResultFits(j)'
  BY DEF InjectionTypeOK, ResultFits, PlatformFits, LinuxFits, WindowsFits,
         DarwinFits
<1>4. PlatformFits'
  BY DEF InjectionTypeOK, OneAtATime, ResultFits, PlatformFits, LinuxFits,
         WindowsFits, DarwinFits, ProcessFits, PayloadOutlivesItsThread
<1>5. ProcessFits' /\ PayloadOutlivesItsThread'
  BY DEF InjectionTypeOK, OneAtATime, ResultFits, PlatformFits, LinuxFits,
         WindowsFits, DarwinFits, ProcessFits, PayloadOutlivesItsThread
<1>6. StopIsExplained'
  BY DEF InjectionTypeOK, OneAtATime, ResultFits, PlatformFits, LinuxFits,
         ProcessFits, StopIsExplained, Explains
<1>7. QED
  BY <1>1, <1>2, <1>3, <1>4, <1>5, <1>6

LEMMA DarwinIdleKeeps ==
  ASSUME GlueInv, NEW i \in Injections, DarwinIdle(i)
  PROVE  GlueInv'
<1> USE DEF GlueInv, DarwinIdle
<1>1. InjectionTypeOK'
  BY DEF InjectionTypeOK
<1>2. OneAtATime'
  BY DEF InjectionTypeOK, OneAtATime
<1>3. \A j \in Injections : ResultFits(j)'
  BY DEF InjectionTypeOK, ResultFits, PlatformFits, LinuxFits, WindowsFits,
         DarwinFits
<1>4. PlatformFits'
  BY DEF InjectionTypeOK, OneAtATime, ResultFits, PlatformFits, LinuxFits,
         WindowsFits, DarwinFits, ProcessFits, PayloadOutlivesItsThread
<1>5. ProcessFits' /\ PayloadOutlivesItsThread'
  BY DEF InjectionTypeOK, OneAtATime, ResultFits, PlatformFits, LinuxFits,
         WindowsFits, DarwinFits, ProcessFits, PayloadOutlivesItsThread
<1>6. StopIsExplained'
  BY DEF InjectionTypeOK, OneAtATime, ResultFits, PlatformFits, LinuxFits,
         ProcessFits, StopIsExplained, Explains
<1>7. QED
  BY <1>1, <1>2, <1>3, <1>4, <1>5, <1>6

LEMMA DarwinFreeKeeps ==
  ASSUME GlueInv, NEW i \in Injections, DarwinFree(i)
  PROVE  GlueInv'
<1> USE DEF GlueInv, DarwinFree
<1>1. InjectionTypeOK'
  BY DEF InjectionTypeOK
<1>2. OneAtATime'
  BY DEF InjectionTypeOK, OneAtATime
<1>3. \A j \in Injections : ResultFits(j)'
  BY ReleasesUnmap DEF InjectionTypeOK, ResultFits, PlatformFits, LinuxFits, WindowsFits,
         DarwinFits
<1>4. PlatformFits'
  BY ReleasesUnmap DEF InjectionTypeOK, OneAtATime, ResultFits, PlatformFits, LinuxFits,
         WindowsFits, DarwinFits, ProcessFits, PayloadOutlivesItsThread
<1>5. ProcessFits' /\ PayloadOutlivesItsThread'
  BY DEF InjectionTypeOK, OneAtATime, ResultFits, PlatformFits, LinuxFits,
         WindowsFits, DarwinFits, ProcessFits, PayloadOutlivesItsThread
<1>6. StopIsExplained'
  BY DEF InjectionTypeOK, OneAtATime, ResultFits, PlatformFits, LinuxFits,
         ProcessFits, StopIsExplained, Explains
<1>7. QED
  BY <1>1, <1>2, <1>3, <1>4, <1>5, <1>6

LEMMA EnterAgentKeeps ==
  ASSUME GlueInv, NEW i \in Injections, EnterAgent(i)
  PROVE  GlueInv'
<1> USE DEF GlueInv, EnterAgent
<1>1. InjectionTypeOK'
  BY DEF InjectionTypeOK
<1>2. OneAtATime'
  BY DEF InjectionTypeOK, OneAtATime
<1>3. \A j \in Injections : ResultFits(j)'
  BY DEF InjectionTypeOK, ResultFits, PlatformFits, LinuxFits, WindowsFits,
         DarwinFits
<1>4. PlatformFits'
  BY DEF InjectionTypeOK, OneAtATime, ResultFits, PlatformFits, LinuxFits,
         WindowsFits, DarwinFits, ProcessFits, PayloadOutlivesItsThread
<1>5. ProcessFits' /\ PayloadOutlivesItsThread'
  BY DEF InjectionTypeOK, OneAtATime, ResultFits, PlatformFits, LinuxFits,
         WindowsFits, DarwinFits, ProcessFits, PayloadOutlivesItsThread
<1>6. StopIsExplained'
  BY DEF InjectionTypeOK, OneAtATime, ResultFits, PlatformFits, LinuxFits,
         ProcessFits, StopIsExplained, Explains
<1>7. QED
  BY <1>1, <1>2, <1>3, <1>4, <1>5, <1>6

LEMMA DarwinEnterKeeps ==
  ASSUME GlueInv, NEW i \in Injections, DarwinEnter(i)
  PROVE  GlueInv'
<1> USE DEF GlueInv, DarwinEnter
<1>1. InjectionTypeOK'
  BY DEF InjectionTypeOK
<1>2. OneAtATime'
  BY DEF InjectionTypeOK, OneAtATime
<1>3. \A j \in Injections : ResultFits(j)'
  BY DEF InjectionTypeOK, ResultFits, PlatformFits, LinuxFits, WindowsFits,
         DarwinFits
<1>4. PlatformFits'
  BY DEF InjectionTypeOK, OneAtATime, ResultFits, PlatformFits, LinuxFits,
         WindowsFits, DarwinFits, ProcessFits, PayloadOutlivesItsThread
<1>5. ProcessFits' /\ PayloadOutlivesItsThread'
  BY DEF InjectionTypeOK, OneAtATime, ResultFits, PlatformFits, LinuxFits,
         WindowsFits, DarwinFits, ProcessFits, PayloadOutlivesItsThread
<1>6. StopIsExplained'
  BY DEF InjectionTypeOK, OneAtATime, ResultFits, PlatformFits, LinuxFits,
         ProcessFits, StopIsExplained, Explains
<1>7. QED
  BY <1>1, <1>2, <1>3, <1>4, <1>5, <1>6

LEMMA NoPthreadKeeps ==
  ASSUME GlueInv, NEW i \in Injections, NoPthread(i)
  PROVE  GlueInv'
<1> USE DEF GlueInv, NoPthread
<1>1. InjectionTypeOK'
  BY DEF InjectionTypeOK
<1>2. OneAtATime'
  BY DEF InjectionTypeOK, OneAtATime
<1>3. \A j \in Injections : ResultFits(j)'
  BY DEF InjectionTypeOK, ResultFits, PlatformFits, LinuxFits, WindowsFits,
         DarwinFits
<1>4. PlatformFits'
  BY DEF InjectionTypeOK, OneAtATime, ResultFits, PlatformFits, LinuxFits,
         WindowsFits, DarwinFits, ProcessFits, PayloadOutlivesItsThread
<1>5. ProcessFits' /\ PayloadOutlivesItsThread'
  BY DEF InjectionTypeOK, OneAtATime, ResultFits, PlatformFits, LinuxFits,
         WindowsFits, DarwinFits, ProcessFits, PayloadOutlivesItsThread
<1>6. StopIsExplained'
  BY DEF InjectionTypeOK, OneAtATime, ResultFits, PlatformFits, LinuxFits,
         ProcessFits, StopIsExplained, Explains
<1>7. QED
  BY <1>1, <1>2, <1>3, <1>4, <1>5, <1>6

LEMMA LeaveAgentKeeps ==
  ASSUME GlueInv, NEW i \in Injections, LeaveAgent(i)
  PROVE  GlueInv'
<1> USE DEF GlueInv, LeaveAgent
<1>1. InjectionTypeOK'
  BY DEF InjectionTypeOK
<1>2. OneAtATime'
  BY DEF InjectionTypeOK, OneAtATime
<1>3. \A j \in Injections : ResultFits(j)'
  BY DEF InjectionTypeOK, ResultFits, PlatformFits, LinuxFits, WindowsFits,
         DarwinFits
<1>4. PlatformFits'
  BY DEF InjectionTypeOK, OneAtATime, ResultFits, PlatformFits, LinuxFits,
         WindowsFits, DarwinFits, ProcessFits, PayloadOutlivesItsThread
<1>5. ProcessFits' /\ PayloadOutlivesItsThread'
  BY DEF InjectionTypeOK, OneAtATime, ResultFits, PlatformFits, LinuxFits,
         WindowsFits, DarwinFits, ProcessFits, PayloadOutlivesItsThread
<1>6. StopIsExplained'
  BY DEF InjectionTypeOK, OneAtATime, ResultFits, PlatformFits, LinuxFits,
         ProcessFits, StopIsExplained, Explains
<1>7. QED
  BY <1>1, <1>2, <1>3, <1>4, <1>5, <1>6

LEMMA ThreadEndsKeeps ==
  ASSUME GlueInv, NEW i \in Injections, ThreadEnds(i)
  PROVE  GlueInv'
<1> USE DEF GlueInv, ThreadEnds
<1>1. InjectionTypeOK'
  BY DEF InjectionTypeOK
<1>2. OneAtATime'
  BY DEF InjectionTypeOK, OneAtATime
<1>3. \A j \in Injections : ResultFits(j)'
  BY DEF InjectionTypeOK, ResultFits, PlatformFits, LinuxFits, WindowsFits,
         DarwinFits
<1>4. PlatformFits'
  BY DEF InjectionTypeOK, OneAtATime, ResultFits, PlatformFits, LinuxFits,
         WindowsFits, DarwinFits, ProcessFits, PayloadOutlivesItsThread
<1>5. ProcessFits' /\ PayloadOutlivesItsThread'
  BY DEF InjectionTypeOK, OneAtATime, ResultFits, PlatformFits, LinuxFits,
         WindowsFits, DarwinFits, ProcessFits, PayloadOutlivesItsThread
<1>6. StopIsExplained'
  BY DEF InjectionTypeOK, OneAtATime, ResultFits, PlatformFits, LinuxFits,
         ProcessFits, StopIsExplained, Explains
<1>7. QED
  BY <1>1, <1>2, <1>3, <1>4, <1>5, <1>6

LEMMA ProcessDiesKeeps ==
  ASSUME GlueInv, ProcessDies
  PROVE  GlueInv'
<1> USE DEF GlueInv, ProcessDies
<1>1. InjectionTypeOK'
  BY DEF InjectionTypeOK
<1>2. OneAtATime'
  BY DEF InjectionTypeOK, OneAtATime
<1>3. \A j \in Injections : ResultFits(j)'
  BY DEF InjectionTypeOK, ResultFits
<1>4. PlatformFits'
  BY DEF InjectionTypeOK, ResultFits, PlatformFits, LinuxFits, WindowsFits, DarwinFits
<1>5. ProcessFits' /\ PayloadOutlivesItsThread'
  BY DEF InjectionTypeOK, ProcessFits, PayloadOutlivesItsThread
<1>6. StopIsExplained'
  BY DEF StopIsExplained
<1>7. QED
  BY <1>1, <1>2, <1>3, <1>4, <1>5, <1>6
-----------------------------------------------------------------------------
LEMMA InitEstablishesGlueInv == InjectionInit => GlueInv
<1> SUFFICES ASSUME InjectionInit PROVE GlueInv
  OBVIOUS
<1> USE DEF InjectionInit
<1>1. InjectionTypeOK
  BY DEF InjectionTypeOK
<1>2. OneAtATime /\ ProcessFits /\ StopIsExplained /\ PayloadOutlivesItsThread
  BY DEF OneAtATime, ProcessFits, StopIsExplained, PayloadOutlivesItsThread
<1>3. \A i \in Injections : ResultFits(i)
  BY DEF ResultFits
<1>4. PlatformFits
  BY DEF PlatformFits, LinuxFits, WindowsFits, DarwinFits
<1>5. QED
  BY <1>1, <1>2, <1>3, <1>4 DEF GlueInv

LEMMA NextKeepsGlueInv ==
  ASSUME GlueInv, [InjectionNext]_injectionVars
  PROVE  GlueInv'
<1>1. CASE UNCHANGED injectionVars
  BY <1>1 DEF injectionVars, GlueInv, InjectionTypeOK, OneAtATime, ResultFits, PlatformFits,
              LinuxFits, WindowsFits, DarwinFits, ProcessFits,
              StopIsExplained, Explains, PayloadOutlivesItsThread
<1>2. ASSUME NEW i \in Injections, LinuxCalls(i)
      PROVE  GlueInv'
  BY <1>2, LinuxNewKeeps, LinuxAttachKeeps, LinuxAllocKeeps, LinuxWriteKeeps,
     LinuxExecKeeps, LinuxDetachKeeps, LinuxEndKeeps, LinuxFreeKeeps,
     LinuxDeallocKeeps, LinuxRedetachKeeps, LinuxAbortsKeeps, LinuxCloseKeeps
  DEF LinuxCalls
<1>3. ASSUME NEW i \in Injections, WindowsCalls(i)
      PROVE  GlueInv'
  BY <1>3, WindowsOpenKeeps, WindowsAllocKeeps, WindowsWriteKeeps,
     WindowsCreateKeeps, WindowsBeachKeeps, WindowsEndKeeps DEF WindowsCalls
<1>4. ASSUME NEW i \in Injections, DarwinCalls(i)
      PROVE  GlueInv'
  BY <1>4, DarwinNewKeeps, DarwinTaskKeeps, DarwinAllocateKeeps, DarwinWriteKeeps,
     DarwinFillKeeps, DarwinCreateKeeps, DarwinDeadKeeps, DarwinIdleKeeps,
     DarwinFreeKeeps DEF DarwinCalls
<1>5. ASSUME NEW i \in Injections,
             EnterAgent(i) \/ DarwinEnter(i) \/ NoPthread(i) \/ LeaveAgent(i)
             \/ ThreadEnds(i)
      PROVE  GlueInv'
  BY <1>5, EnterAgentKeeps, DarwinEnterKeeps, NoPthreadKeeps, LeaveAgentKeeps,
     ThreadEndsKeeps
<1>6. QED
  BY <1>1, <1>2, <1>3, <1>4, <1>5, ProcessDiesKeeps DEF InjectionNext

LEMMA GlueInvHolds == InjectionSpec => []GlueInv
<1>1. GlueInv /\ [InjectionNext]_injectionVars => GlueInv'
  BY NextKeepsGlueInv
<1>2. QED
  BY InitEstablishesGlueInv, <1>1, PTL DEF InjectionSpec

\* Type correctness.
THEOREM GlueTypeCorrect == InjectionSpec => []InjectionTypeOK
<1>1. GlueInv => InjectionTypeOK
  BY DEF GlueInv
<1>2. QED
  BY GlueInvHolds, <1>1, PTL

\* A failed injection leaves no handle in the injector and nothing in the
\* process, unless it leaves the process stopped.
THEOREM NothingIsLeftByFailure == InjectionSpec => []NothingLeftByFailure
<1>1. GlueInv => NothingLeftByFailure
  BY DEF GlueInv, InjectionTypeOK, ResultFits, PlatformFits, LinuxFits, WindowsFits,
         DarwinFits, NothingLeftByFailure
<1>2. QED
  BY GlueInvHolds, <1>1, PTL

\* The process never goes on with the registers of a call it was made to do, unless
\* the injector aborts in the middle of it.
THEOREM AlwaysOnItsOwnRegisters == InjectionSpec => []RunsOnItsOwnRegisters
<1>1. GlueInv => RunsOnItsOwnRegisters
  BY DEF GlueInv, ProcessFits
<1>2. QED
  BY GlueInvHolds, <1>1, PTL

\* The process is left stopped only by a call that has failed.
THEOREM StopsAreExplained == InjectionSpec => []StoppedOnlyByFailure
<1>1. GlueInv => StoppedOnlyByFailure
  BY DEF GlueInv, InjectionTypeOK, ResultFits, StopIsExplained, Explains,
         StoppedOnlyByFailure
<1>2. QED
  BY GlueInvHolds, <1>1, PTL

\* The payload is not unmapped under the thread that runs in it.
THEOREM PayloadStays == InjectionSpec => []PayloadOutlivesItsThread
<1>1. GlueInv => PayloadOutlivesItsThread
  BY DEF GlueInv
<1>2. QED
  BY GlueInvHolds, <1>1, PTL
=============================================================================
