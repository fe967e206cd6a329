-------------------------- MODULE MCSessionManager --------------------------
(***************************************************************************)
(* Small instances of the two session managers for TLC: the core's, and    *)
(* pyfrida's, which is a variant of it.  A behaviour is one of the two     *)
(* ("binding").                                                            *)
(***************************************************************************)
EXTENDS PySessionManager

VARIABLE binding

allVars == <<binding, pyVars>>

MCInit ==
    /\ binding \in {"core", "python"}
    /\ IF binding = "core" THEN Init ELSE PyInit
    /\ idles = 0 /\ releases = 0 /\ dropped = FALSE
    /\ hasty = (binding = "core")  \* what is said of pyfrida's is not of the core's

Core(step) ==
    binding = "core" /\ crash = "no" /\ step /\ UNCHANGED <<binding, inTurn, hostVars>>
Python(step) ==
    binding = "python" /\ crash = "no" /\ step /\ UNCHANGED <<binding, constant>>

MCNext ==
    \/ binding = "core" /\ Next /\ UNCHANGED <<binding, hostVars>>
    \/ binding = "python" /\ PyNext /\ UNCHANGED binding

MCCoreSpec == MCInit /\ binding = "core" /\ [][MCNext]_allVars

\* The main loop goes on with a coroutine when what it awaits is complete, emits
\* what the services report, and dispatches idle sources; clients call as they like
\* and agents vanish as they like.
MCFairness ==
    /\ \A c \in Callers : WF_allVars(Core(CallProceeds(c)))
    /\ WF_allVars(Core(\E h \in Handles : CloseProceeds(h) \/ AgentSessionClosed(h)))
    /\ WF_allVars(Python(PyCloseProceeds))

MCSpec == MCInit /\ [][MCNext]_allVars /\ MCFairness
=============================================================================
