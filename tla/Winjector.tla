------------------------------ MODULE Winjector ------------------------------
(***************************************************************************)
(* Winjector and its helper factories (zed/src/core/windows/winjector.vala):*)
(* an injection is first tried by a helper process of the user's own        *)
(* privileges and, when that is denied access, by an elevated one.  Either  *)
(* helper is launched by a thread when it is first needed, is shared by all *)
(* injections and is stopped by close.                                      *)
(*                                                                         *)
(* A helper stands for one obtain_worker, the Helper it makes and the       *)
(* process that is executed.                                                *)
(***************************************************************************)
EXTENDS Naturals

CONSTANTS
    Injections,     \* calls of inject
    Helpers,        \* the helpers that may be launched
    None            \* no helper

ASSUME NoneIsNoHelper == None \notin Helpers

Levels == {"normal", "elevated"}

VARIABLES
    store,      \* the levels whose resource_store Winjector has
    lent,       \* the levels whose HelperFactory.resource_store is set
    helper,     \* HelperFactory.helper
    requests,   \* HelperFactory.obtain_requests: the injections that wait
    phase,      \* of each helper: "unborn", "executing" in its thread, "launched"
                \* or "refused", "opening", and then "open" or "abandoned"
    level,      \* its privilege level
    process,    \* its process: "none", "running", "stopping", "gone"
    place,      \* where inject is suspended, or how it has ended
    at,         \* the level it has come to
    using,      \* the helper it has obtained
    reply,      \* the helper's answer, on its way
    performed,  \* pairs of an injection and a helper that performed it
    closing,    \* the coroutine close: "open", the level it has come to, "done"
    awaiting,   \* it polls the process of that level's helper
    crash       \* obtain_worker has used a resource store that is gone

factories == <<store, lent, helper, requests>>
helpers == <<phase, level, process>>
injecting == <<place, at, using, reply, performed>>
closer == <<closing, awaiting>>
vars == <<factories, helpers, injecting, closer, crash>>

Init ==
    /\ store = {} /\ lent = {}
    /\ helper = [l \in Levels |-> None]
    /\ requests = [l \in Levels |-> {}]
    /\ phase = [h \in Helpers |-> "unborn"]
    /\ level = [h \in Helpers |-> "normal"]
    /\ process = [h \in Helpers |-> "none"]
    /\ place = [i \in Injections |-> "idle"]
    /\ at = [i \in Injections |-> "normal"]
    /\ using = [i \in Injections |-> None]
    /\ reply = [i \in Injections |-> "none"]
    /\ performed = {}
    /\ closing = "open" /\ awaiting = FALSE
    /\ crash = FALSE

-----------------------------------------------------------------------------
(* Pieces of the handlers.  A definition whose name starts with "Mutant" is *)
(* a bug this code does not have; it stands in for the definition after it *)
(* when the sensitivity of a property is tested.                           *)

MutantIsFirst(l) == TRUE
\* obtain_requests.size == 0.
IsFirst(l) == requests[l] = {}

MutantGoesOn(answer) == answer \in {"ok", "denied"}
\* if (!injected): the first helper has not succeeded, and no error but ACCESS_DENIED
\* been thrown to the caller.
GoesOn(answer) == answer = "denied"

\* foreach (var request in obtain_requests).
Served(l) == requests[l]

\* is_process_still_running does not hold.
HasExited(h) == process[h] = "gone"

MutantTold(h) == process
\* manager_proxy.emit ("Stop").
Told(h) == [process EXCEPT ![h] = IF @ = "running" THEN "stopping" ELSE @]

Alive(h) == process[h] \in {"running", "stopping"}

-----------------------------------------------------------------------------
(* Injecting.                                                              *)

Ends(i, outcome) ==
    /\ place' = [place EXCEPT ![i] = outcome]
    /\ UNCHANGED <<factories, helpers, at, using>>

\* obtain at level l: the helper there is, or a request for the one that is being
\* launched; the first request starts the thread that launches it.
Obtain(i, l) ==
    /\ at' = [at EXCEPT ![i] = l]
    /\ using' = [using EXCEPT ![i] = helper[l]]
    /\ \/ /\ helper[l] # None
          /\ place' = [place EXCEPT ![i] = "obtained"]
          /\ UNCHANGED <<requests, phase, level>>
       \/ /\ helper[l] = None
          /\ place' = [place EXCEPT ![i] = "obtaining"]
          /\ requests' = [requests EXCEPT ![l] = @ \cup {i}]
          /\ IF IsFirst(l)
             THEN \E h \in Helpers :
                      /\ phase[h] = "unborn"
                      /\ phase' = [phase EXCEPT ![h] = "executing"]
                      /\ level' = [level EXCEPT ![h] = l]
             ELSE UNCHANGED <<phase, level>>
    /\ UNCHANGED <<helper, process>>

\* Make the resource store of level l and lend it to the factory, once.
MakesStore(l) ==
    /\ store' = store \cup {l}
    /\ lent' = lent \cup ({l} \ store)

\* The agent is copied into it, and the factory's helper obtained.
TryAt(i, l) == MakesStore(l) /\ Obtain(i, l)

\* The helpers cannot be written into a new store, which is not kept then, or the
\* agent not into one that is.
CannotTry(i, l) ==
    /\ MakesStore(l) \/ UNCHANGED <<store, lent>>
    /\ place' = [place EXCEPT ![i] = "failed"]
    /\ UNCHANGED <<helper, requests, helpers, at, using>>

Inject(i) ==
    /\ place[i] = "idle" /\ closing # "done"
    /\ TryAt(i, "normal") \/ CannotTry(i, "normal")
    /\ UNCHANGED <<reply, performed, closer, crash>>

\* obtain returned at once: now the helper is queried.
Query(i) ==
    /\ place[i] = "obtained"
    /\ place' = [place EXCEPT ![i] = "querying"]
    /\ UNCHANGED <<factories, helpers, at, using, reply, performed, closer, crash>>

\* The helper process answers.
Answer(i, answer) ==
    /\ place[i] = "querying" /\ reply[i] = "none" /\ Alive(using[i])
    /\ reply' = [reply EXCEPT ![i] = answer]
    /\ performed' = performed \cup IF answer = "ok" THEN {<<i, using[i]>>} ELSE {}
    /\ UNCHANGED <<factories, helpers, place, at, using, closer, crash>>

\* It performs the injection and dies without an answer.
PerformsAndDies(i) ==
    /\ place[i] = "querying" /\ reply[i] = "none" /\ Alive(using[i])
    /\ process' = [process EXCEPT ![using[i]] = "gone"]
    /\ performed' = performed \cup {<<i, using[i]>>}
    /\ UNCHANGED <<factories, phase, level, place, at, using, reply, closer, crash>>

\* The helper's response resumes the query; without one it waits for ever, whatever
\* becomes of the helper.  Success is reported, another error thrown; what the user's
\* own helper is denied the elevated one is asked for.
QueryReturns(i) ==
    /\ place[i] = "querying" /\ reply[i] # "none"
    /\ reply' = [reply EXCEPT ![i] = "none"]
    /\ LET further == at[i] = "normal" /\ GoesOn(reply[i])
       IN  \/ further /\ (TryAt(i, "elevated") \/ CannotTry(i, "elevated"))
           \/ ~further /\ Ends(i, IF reply[i] = "ok" THEN "injected" ELSE "failed")
    /\ UNCHANGED <<performed, closer, crash>>

-----------------------------------------------------------------------------
(* Launching a helper.                                                     *)

\* ShellExecuteExW: it may fail, and the user refuse the elevation.
Executes(h) ==
    \/ /\ phase' = [phase EXCEPT ![h] = "launched"]
       /\ process' = [process EXCEPT ![h] = "running"]
    \/ /\ phase' = [phase EXCEPT ![h] = "refused"]
       /\ UNCHANGED process

\* The thread executes the helper32 of the resource store, which must be there.
WorkerExecutes(h) ==
    /\ phase[h] = "executing"
    /\ IF level[h] \in lent
       THEN Executes(h) /\ UNCHANGED crash
       ELSE crash' = TRUE /\ UNCHANGED <<phase, process>>
    /\ UNCHANGED <<factories, level, injecting, closer>>

\* The idle source calls complete_obtain, which waits for the helper to connect.
CompleteObtain(h) ==
    /\ phase[h] = "launched"
    /\ phase' = [phase EXCEPT ![h] = "opening"]
    /\ UNCHANGED <<factories, level, process, injecting, closer, crash>>

\* The end of complete_obtain: the factory keeps the helper or forgets the last,
\* and every request is completed, each injection going on or failing at once.
Completed(h, instance) ==
    LET l == level[h]
    IN  /\ helper' = [helper EXCEPT ![l] = instance]
        /\ place' = [i \in Injections |->
                        IF i \notin Served(l) THEN place[i]
                        ELSE IF instance = None THEN "failed" ELSE "querying"]
        /\ using' = [i \in Injections |->
                        IF i \in Served(l) THEN instance ELSE using[i]]
        /\ requests' = [requests EXCEPT ![l] = {}]

OpenSucceeds(h) ==
    /\ phase[h] = "opening" /\ Alive(h)
    /\ phase' = [phase EXCEPT ![h] = "open"]
    /\ Completed(h, h)
    /\ UNCHANGED <<store, lent, level, process, at, reply, performed, closer, crash>>

\* Nothing was executed, or nothing connects within ESTABLISH_TIMEOUT_MSEC: the
\* Helper is dropped, and its process left alone.
OpenFails(h) ==
    /\ phase[h] \in {"refused", "opening"}
    /\ phase' = [phase EXCEPT ![h] = "abandoned"]
    /\ Completed(h, None)
    /\ UNCHANGED <<store, lent, level, process, at, reply, performed, closer, crash>>

\* A helper process may end at any time.
ProcessExits(h) ==
    /\ Alive(h)
    /\ process' = [process EXCEPT ![h] = "gone"]
    /\ UNCHANGED <<factories, phase, level, injecting, closer, crash>>

-----------------------------------------------------------------------------
(* Closing.                                                                *)

Close ==
    /\ closing = "open" /\ closing' = "normal"
    /\ UNCHANGED <<factories, helpers, injecting, awaiting, crash>>

\* HelperFactory.close with a helper tells it to stop and polls its process.
StopHelper(l) ==
    /\ closing = l /\ ~awaiting /\ helper[l] # None
    /\ process' = Told(helper[l])
    /\ awaiting' = TRUE
    /\ UNCHANGED <<factories, phase, level, injecting, closing, crash>>

\* HelperFactory.close ends, at once without a helper and else when the process has
\* exited; after the second factory Winjector drops its stores.
CloseReturns(l) ==
    /\ closing = l
    /\ IF awaiting THEN HasExited(helper[l]) ELSE helper[l] = None
    /\ helper' = [helper EXCEPT ![l] = None]
    /\ lent' = lent \ {l}
    /\ awaiting' = FALSE
    /\ IF l = "normal"
       THEN closing' = "elevated" /\ UNCHANGED store
       ELSE closing' = "done" /\ store' = {}
    /\ UNCHANGED <<requests, helpers, injecting, crash>>

Closes == Close \/ \E l \in Levels : StopHelper(l) \/ CloseReturns(l)

-----------------------------------------------------------------------------
Injects(i) == Inject(i) \/ Query(i) \/ QueryReturns(i)

Answers(i) == \E answer \in {"ok", "denied", "failed"} : Answer(i, answer)

Launches(h) ==
    WorkerExecutes(h) \/ CompleteObtain(h) \/ OpenSucceeds(h) \/ OpenFails(h)

Next ==
    /\ ~crash
    /\ \/ \E i \in Injections : Injects(i) \/ Answers(i) \/ PerformsAndDies(i)
       \/ \E h \in Helpers : Launches(h) \/ ProcessExits(h)
       \/ Closes

Spec == Init /\ [][Next]_vars

\* Threads, sources and timeouts run, a helper that lives answers its queries, and
\* one that was told to stop exits.
Fairness ==
    /\ \A i \in Injections :
           WF_vars(~crash /\ (Query(i) \/ QueryReturns(i) \/ Answers(i)))
    /\ \A h \in Helpers :
           /\ WF_vars(~crash /\ Launches(h))
           /\ WF_vars(~crash /\ process[h] = "stopping" /\ ProcessExits(h))
    /\ \A l \in Levels : WF_vars(~crash /\ (StopHelper(l) \/ CloseReturns(l)))

FairSpec == Spec /\ Fairness

-----------------------------------------------------------------------------
(* Properties.                                                             *)

Outcomes == {"injected", "failed"}

\* The types, and that the requests of a factory are those of the injections that
\* wait for it: complete_obtain leaves none behind when it clears the list.
TypeOK ==
    /\ store \subseteq Levels /\ lent \subseteq Levels
    /\ helper \in [Levels -> Helpers \cup {None}]
    /\ requests \in [Levels -> SUBSET Injections]
    /\ \A l \in Levels :
           requests[l] = {i \in Injections : place[i] = "obtaining" /\ at[i] = l}
    /\ phase \in [Helpers -> {"unborn", "executing", "launched", "refused",
                              "opening", "open", "abandoned"}]
    /\ level \in [Helpers -> Levels]
    /\ process \in [Helpers -> {"none", "running", "stopping", "gone"}]
    /\ place \in [Injections ->
                     {"idle", "obtaining", "obtained", "querying"} \cup Outcomes]
    /\ at \in [Injections -> Levels]
    /\ using \in [Injections -> Helpers \cup {None}]
    /\ reply \in [Injections -> {"none", "ok", "denied", "failed"}]
    /\ performed \subseteq Injections \X Helpers
    /\ closing \in {"open", "done"} \cup Levels
    /\ awaiting \in BOOLEAN /\ crash \in BOOLEAN

Launching(l) ==
    {h \in Helpers : level[h] = l
                     /\ phase[h] \in {"executing", "launched", "refused", "opening"}}

\* However injections overlap with each other and with close, a factory launches
\* one helper at a time and none while it has one, and it never forgets a helper
\* that has connected while the process of that helper runs: close can stop it.
HelpersAreKnown ==
    /\ \A l \in Levels :
           /\ \A g, h \in Launching(l) : g = h
           /\ helper[l] # None => Launching(l) = {}
    /\ \A h \in Helpers : phase[h] = "open" /\ Alive(h) => helper[level[h]] = h

\* As long as nobody closes, the thread finds the store to launch a helper from.  And
\* when a factory's close returns, no helper it can have known runs any more, whatever
\* has become of those it launched: one that does is being launched just then, or
\* nobody could connect to it.
CloseStopsHelpers ==
    [][/\ crash' => closing # "open"
       /\ \A l \in Levels : CloseReturns(l) =>
              \A h \in Helpers : level[h] = l /\ Alive(h) =>
                  h \in Launching(l) \/ phase[h] = "abandoned"]_vars

\* An injection is performed once at most, whichever helpers it went through; one
\* that is reported to have succeeded was performed, and one that is reported to have
\* failed was not: nobody who tries it again injects twice.
InjectedOnce ==
    \A i \in Injections :
        LET by == {h \in Helpers : <<i, h>> \in performed}
        IN  /\ \A g, h \in by : g = h
            /\ place[i] = "injected" => using[i] \in by
            /\ place[i] = "failed" => by = {}

\* Its helper has died, or was stopped, with the query unanswered: process_messages
\* does not complete the pending responses of a pipe that has broken.
Unanswered(i) ==
    place[i] = "querying" /\ reply[i] = "none" /\ process[using[i]] = "gone"

\* Every call of inject returns, also those that waited for a helper that could not
\* be launched -- unless its helper dies or is stopped under its query, which then
\* waits for ever, or the worker has crashed.  And close returns while injections go
\* on, those that will never end included.
CallsReturn ==
    /\ \A i \in Injections :
           place[i] # "idle" ~> place[i] \in Outcomes \/ Unanswered(i) \/ crash
    /\ closing # "open" ~> closing = "done" \/ crash
=============================================================================
