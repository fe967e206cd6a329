--------------------------- MODULE SessionRegistry ---------------------------
(***************************************************************************)
(* What a SessionManager promises its clients: a session is opened for a   *)
(* process that has no open session, is released once, and then emits      *)
(* closed () once; and the manager goes when none is open, since each open *)
(* one holds an unowned pointer to it.  No threads, agents or scripts.     *)
(***************************************************************************)
CONSTANTS Pids, Handles, None

VARIABLES
    state,  \* the life of each session
    pid,    \* the process it was opened for
    gone    \* the manager has been disposed of

vars == <<state, pid, gone>>

Init ==
    /\ state = [h \in Handles |-> "unborn"]
    /\ pid = [h \in Handles |-> None]
    /\ gone = FALSE

Open(h, p) ==
    /\ state[h] = "unborn" /\ ~gone
    /\ \A g \in Handles : state[g] = "open" => pid[g] # p
    /\ state' = [state EXCEPT ![h] = "open"]
    /\ pid' = [pid EXCEPT ![h] = p]
    /\ UNCHANGED gone

Release(h) ==
    /\ state[h] = "open"
    /\ state' = [state EXCEPT ![h] = "closing"]
    /\ UNCHANGED <<pid, gone>>

EmitClosed(h) ==
    /\ state[h] = "closing"
    /\ state' = [state EXCEPT ![h] = "closed"]
    /\ UNCHANGED <<pid, gone>>

Dispose ==
    /\ \A h \in Handles : state[h] # "open"
    /\ gone' = TRUE /\ UNCHANGED <<state, pid>>

Next ==
    \/ \E h \in Handles : (\E p \in Pids : Open(h, p)) \/ Release(h) \/ EmitClosed(h)
    \/ Dispose

Spec == Init /\ [][Next]_vars
=============================================================================
