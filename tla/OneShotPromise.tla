--------------------------- MODULE OneShotPromise ---------------------------
(***************************************************************************)
(* What a promise is to the script that holds it: it is settled at most    *)
(* once, and every callback hung on it runs at most once, after the        *)
(* settling, and only if it asked for that outcome.                        *)
(***************************************************************************)
CONSTANTS Callbacks, None

VARIABLES
    outcome,  \* "pending" until the promise is settled
    asked,    \* the method a callback was hung on with
    ran       \* the callbacks that have run

vars == <<outcome, asked, ran>>

Fits(method, o) ==
    \/ method = "done" /\ o = "success"
    \/ method = "fail" /\ o = "failure"
    \/ method = "always" /\ o # "pending"

Init ==
    /\ outcome = "pending"
    /\ asked = [k \in Callbacks |-> None]
    /\ ran = {}

Settle(o) ==
    /\ outcome = "pending"
    /\ outcome' = o
    /\ UNCHANGED <<asked, ran>>

Hang(k, method) ==
    /\ asked[k] = None
    /\ asked' = [asked EXCEPT ![k] = method]
    /\ UNCHANGED <<outcome, ran>>

Run(k) ==
    /\ k \notin ran /\ Fits(asked[k], outcome)
    /\ ran' = ran \cup {k}
    /\ UNCHANGED <<outcome, asked>>

Next ==
    \/ \E o \in {"success", "failure"} : Settle(o)
    \/ \E k \in Callbacks :
           Run(k) \/ \E method \in {"done", "fail", "always"} : Hang(k, method)

Spec == Init /\ [][Next]_vars
=============================================================================
