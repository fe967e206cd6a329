---------------------------- MODULE MCAgentServer ----------------------------
(***************************************************************************)
(* A few peers and scripts for three specifications that have to do with   *)
(* an agent's server: the agent's, zed-server's, which is made like it, and *)
(* the page's that is served by either.  A behaviour is one of the three   *)
(* ("part"), and leaves the variables of the others alone.                 *)
(***************************************************************************)
EXTENDS ZedServer, CloudSpyRoot

VARIABLE part

zedOnly == <<idleTimer, hostSession>>
allVars == <<part, zedVars, rootVars>>

MCInit ==
    /\ part \in {"agent", "zed", "page"}
    /\ IF part = "zed" THEN ZedInit ELSE Init /\ idleTimer = FALSE /\ hostSession = "none"
    /\ RootInit

Agent(step) == part = "agent" /\ exit = "no" /\ step /\ UNCHANGED <<part, zedOnly, rootVars>>
Zed(step) == part = "zed" /\ exit = "no" /\ step /\ UNCHANGED <<part, noneOfZed, rootVars>>
Page(step) == part = "page" /\ rootCrash = "no" /\ step /\ UNCHANGED <<part, zedVars>>

MCNext ==
    \/ part = "agent" /\ Next /\ UNCHANGED <<part, zedOnly, rootVars>>
    \/ part = "zed" /\ ZedNext /\ UNCHANGED <<part, rootVars>>
    \/ part = "page" /\ RootNext /\ UNCHANGED <<part, zedVars>>

\* A main loop dispatches what is queued and its timers, and goes on with a
\* coroutine when what it awaits is complete; peers, pages and agents do as they
\* like.
MCFairness ==
    /\ WF_allVars(Agent(Quit \/ (Dispatches /\ UNCHANGED exit)))
    /\ WF_allVars(Zed(ZedProceeds))
    /\ WF_allVars(Page(DestroyProceeds))

MCSpec == MCInit /\ [][MCNext]_allVars /\ MCFairness
=============================================================================
