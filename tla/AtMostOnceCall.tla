---------------------------- MODULE AtMostOnceCall ----------------------------
(***************************************************************************)
(* What WinIpc promises to the callers of query, whichever end they are    *)
(* at: a call is carried out at most once by the other end, and it returns *)
(* at most once, with a result only if it has been carried out.            *)
(***************************************************************************)
CONSTANTS Calls

VARIABLES
    asked,    \* the calls that have been made
    done,     \* those that have been carried out
    returned  \* <<call, success>>: those that have returned

vars == <<asked, done, returned>>

Init == asked = {} /\ done = {} /\ returned = {}

Ask(c) ==
    /\ c \notin asked
    /\ asked' = asked \cup {c}
    /\ UNCHANGED <<done, returned>>

CarryOut(c) ==
    /\ c \in asked \ done
    /\ done' = done \cup {c}
    /\ UNCHANGED <<asked, returned>>

Return(c, success) ==
    /\ c \in asked /\ \A s \in BOOLEAN : <<c, s>> \notin returned
    /\ success <=> c \in done
    /\ returned' = returned \cup {<<c, success>>}
    /\ UNCHANGED <<asked, done>>

Next ==
    \E c \in Calls :
        Ask(c) \/ CarryOut(c) \/ \E success \in BOOLEAN : Return(c, success)

Spec == Init /\ [][Next]_vars
=============================================================================
