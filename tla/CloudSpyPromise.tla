--------------------------- MODULE CloudSpyPromise ---------------------------
(***************************************************************************)
(* The promise a script gets from an asynchronous CloudSpy method          *)
(* (zed/bindings/cloud-spy/cloud-spy-promise.cpp, and the invocation that  *)
(* settles it, cloud-spy-object.cpp).                                      *)
(*                                                                         *)
(* Two threads share it under its mutex: the main loop's thread delivers   *)
(* the result, and the browser's thread hangs callbacks on it and runs     *)
(* them.  A callback may hang further callbacks, so the browser's thread   *)
(* holds a stack of interrupted flushes.  A critical section is one step;  *)
(* the order inside one GPtrArray is left open.                            *)
(***************************************************************************)
EXTENDS Naturals, Sequences

CONSTANTS
    Callbacks,  \* function objects, each handed over once
    None        \* no function object, no method

ASSUME NoneIsNoCallback == None \notin Callbacks
ASSUME NoneIsNoMethod == None \notin {"done", "fail", "always"}

VARIABLES
    result,     \* CloudSpyPromise.result
    method,     \* the method each callback was passed to
    waiting,    \* on_success, on_failure and on_complete, told apart by method
    stack,      \* the flushes the browser's thread is inside of, innermost last
    calls,      \* how often each callback has been invoked
    invocation, \* the CloudSpyInvokeContext on the main loop's thread
    flush,      \* the pluginthreadasynccall of deliver
    scriptHolds,\* the script still refers to the promise
    refs        \* the reference count of the NPObject

vars == <<result, method, waiting, stack, calls, invocation, flush,
          scriptHolds, refs>>

Methods == {"done", "fail", "always"}
Results == {"success", "failure"}
Frames == [todo : SUBSET Callbacks, running : Callbacks \cup {None}]

Init ==
    /\ result = "pending"
    /\ method = [k \in Callbacks |-> None]
    /\ waiting = {}
    /\ stack = <<>>
    /\ calls = [k \in Callbacks |-> 0]
    /\ invocation = "working"
    /\ flush = "none"
    /\ scriptHolds = TRUE
    /\ refs = 2

-----------------------------------------------------------------------------
(* Pieces of the handlers.  A definition whose name starts with "Mutant" is *)
(* a bug this code does not have; it stands in for the definition after it *)
(* when the sensitivity of a property is tested.                           *)

\* The arrays flush_unlocked walks: on_success or on_failure, and on_complete.
Wants(m, r) ==
    \/ m = "done" /\ r = "success"
    \/ m = "fail" /\ r = "failure"
    \/ m = "always"

\* g_ptr_array_add (callbacks, callback).
Joined(w, k) == w \cup {k}

MutantLeft(w) == w
\* flush_unlocked leaves three fresh, empty arrays behind.
Left(w) == {}

\* The dispatcher calls cloud_spy_object_invoke_ready once.
MayDeliver == invocation = "working"

\* deliver retains the promise for the flush it schedules.
Retained == refs + 1

MutantScheduled == "done"
\* pluginthreadasynccall (self->npp, cloud_spy_promise_flush, self).
Scheduled == "scheduled"

Innermost == stack[Len(stack)]

\* flush_unlocked on arrays that hold the callbacks w, passed to m: an empty
\* walk is over at once, another puts a flush on the stack.
FlushUnlocked(w, m) ==
    LET batch == {k \in w : Wants(m[k], result)}
    IN  /\ waiting' = Left(w)
        /\ stack' = IF batch = {} THEN stack
                    ELSE Append(stack, [todo |-> batch, running |-> None])

-----------------------------------------------------------------------------
(* The main loop's thread.                                                 *)

\* cloud_spy_promise_resolve or _reject: the critical section of deliver.
Deliver(r) ==
    /\ MayDeliver
    /\ result' = r
    /\ invocation' = "delivered"
    /\ UNCHANGED <<method, waiting, stack, calls, flush, scriptHolds, refs>>

\* The rest of deliver.
ScheduleFlush ==
    /\ invocation = "delivered"
    /\ refs' = Retained
    /\ flush' = Scheduled
    /\ invocation' = "scheduled"
    /\ UNCHANGED <<result, method, waiting, stack, calls, scriptHolds>>

\* cloud_spy_object_invoke_ready releases ctx->promise and frees ctx.
ReleaseContext ==
    /\ invocation = "scheduled"
    /\ refs' = refs - 1
    /\ invocation' = "gone"
    /\ UNCHANGED <<result, method, waiting, stack, calls, flush, scriptHolds>>

-----------------------------------------------------------------------------
(* The browser's thread.                                                   *)

\* The script runs: from the event loop, or inside a callback.
ScriptRuns ==
    IF stack = <<>> THEN flush # "running" ELSE Innermost.running # None

\* promise.done, .fail or .always: the callback joins its array, and the
\* arrays are flushed at once if the result is there.
Hang(k, m) ==
    /\ ScriptRuns /\ scriptHolds /\ method[k] = None
    /\ method' = [method EXCEPT ![k] = m]
    /\ IF result = "pending"
       THEN waiting' = Joined(waiting, k) /\ UNCHANGED stack
       ELSE FlushUnlocked(Joined(waiting, k), method')
    /\ UNCHANGED <<result, calls, invocation, flush, scriptHolds, refs>>

\* The innermost flush invokes one of its callbacks; those of on_complete
\* come last.
InvokeCallback(k) ==
    /\ stack # <<>> /\ Innermost.running = None /\ k \in Innermost.todo
    /\ method[k] = "always" =>
           \A j \in Innermost.todo : method[j] = "always"
    /\ stack' = [stack EXCEPT ![Len(stack)] =
                     [todo |-> @.todo \ {k}, running |-> k]]
    /\ calls' = [calls EXCEPT ![k] = @ + 1]
    /\ UNCHANGED <<result, method, waiting, invocation, flush, scriptHolds,
                   refs>>

\* A callback returns; a flush that has run its last one is over.
CallbackReturns ==
    /\ stack # <<>> /\ Innermost.running # None
    /\ stack' = IF Innermost.todo = {}
                THEN SubSeq(stack, 1, Len(stack) - 1)
                ELSE [stack EXCEPT ![Len(stack)] =
                          [todo |-> @.todo, running |-> None]]
    /\ UNCHANGED <<result, method, waiting, calls, invocation, flush,
                   scriptHolds, refs>>

\* The browser gets to the call deliver has scheduled.
Flush ==
    /\ flush = "scheduled" /\ stack = <<>>
    /\ flush' = "running"
    /\ IF result = "pending"
       THEN UNCHANGED <<waiting, stack>>
       ELSE FlushUnlocked(waiting, method)
    /\ UNCHANGED <<result, method, calls, invocation, scriptHolds, refs>>

\* cloud_spy_promise_flush releases its reference.
FlushEnds ==
    /\ flush = "running" /\ stack = <<>>
    /\ flush' = "done"
    /\ refs' = refs - 1
    /\ UNCHANGED <<result, method, waiting, stack, calls, invocation,
                   scriptHolds>>

\* The script's last reference is collected; a promise whose method is on the
\* stack is still referred to.
ScriptDrops ==
    /\ scriptHolds
    /\ Len(stack) <= IF flush = "running" THEN 1 ELSE 0
    /\ scriptHolds' = FALSE
    /\ refs' = refs - 1
    /\ UNCHANGED <<result, method, waiting, stack, calls, invocation, flush>>

-----------------------------------------------------------------------------
Next ==
    \/ \E r \in Results : Deliver(r)
    \/ ScheduleFlush \/ ReleaseContext
    \/ \E k \in Callbacks, m \in Methods : Hang(k, m)
    \/ \E k \in Callbacks : InvokeCallback(k)
    \/ CallbackReturns \/ Flush \/ FlushEnds \/ ScriptDrops

Spec == Init /\ [][Next]_vars

-----------------------------------------------------------------------------
(* Properties.                                                             *)

TypeOK ==
    /\ result \in Results \cup {"pending"}
    /\ method \in [Callbacks -> Methods \cup {None}]
    /\ waiting \subseteq Callbacks
    /\ stack \in Seq(Frames)
    /\ calls \in [Callbacks -> Nat]
    /\ invocation \in {"working", "delivered", "scheduled", "gone"}
    /\ flush \in {"none", "scheduled", "running", "done"}
    /\ scriptHolds \in BOOLEAN
    /\ refs \in Nat

\* No callback runs twice, before the promise is settled, or for an outcome it
\* did not ask for -- however flushes nest and whichever thread comes first.
CalledOnceForItsOutcome ==
    \A k \in Callbacks : calls[k] > 0 =>
        calls[k] = 1 /\ result # "pending" /\ Wants(method[k], result)

\* A callback that waits although the promise is settled is one the scheduled
\* flush will find: deliver sets the result before it schedules.
NoLostCallback ==
    (result # "pending" /\ waiting # {}) =>
        invocation = "delivered" \/ flush = "scheduled"

\* A callback that asked for the outcome there is has run, waits for the flush
\* or is the business of a flush under way; none falls between the arrays.
NoCallbackDropped ==
    \A k \in Callbacks :
        (result # "pending" /\ method[k] # None /\ Wants(method[k], result)) =>
            \/ calls[k] = 1 \/ k \in waiting
            \/ \E i \in 1..Len(stack) : k \in stack[i].todo

\* The promise is freed only when nobody is going to touch it any more.
FreedWhenUnused ==
    refs = 0 => /\ invocation = "gone" /\ ~scriptHolds
                /\ flush \notin {"scheduled", "running"} /\ stack = <<>>

\* A settled promise keeps its outcome, as g_assert (self->result ==
\* CLOUD_SPY_PROMISE_PENDING) in deliver demands: state () never goes back, and
\* the callbacks of two flushes see the same result.
SettledForGood == [][result # "pending" => result' = result]_vars

Abstract ==
    INSTANCE OneShotPromise
    WITH outcome <- result, asked <- method,
         ran <- {k \in Callbacks : calls[k] > 0}

\* The promise implements the one-shot promise it is to a script.
ImplementsOneShot == Abstract!Spec
=============================================================================
