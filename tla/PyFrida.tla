------------------------------ MODULE PyFrida ------------------------------
(***************************************************************************)
(* pyfrida's extension module (zed/bindings/pyfrida/pyfrida.c): the Python *)
(* objects around the native Session and Script objects.                   *)
(*                                                                         *)
(* Python threads, and the main loop's thread while it is in a callback,   *)
(* run Python code and C code of the module while they have the global     *)
(* interpreter lock (GIL).  The code between two points at which the GIL   *)
(* may change hands is one step.  PySession and PyScript are the same code *)
(* but for the names of the signal and of the calls; a "native" is either  *)
(* and a wrapper is named by its address, which may be used again after it *)
(* is freed.                                                               *)
(*                                                                         *)
(* The session manager is PySessionManager's; here a call is served by the *)
(* main loop, whatever it answers.  A callback is a function, as those of  *)
(* frida.py and example.py are: no Python code runs when it is freed.      *)
(***************************************************************************)
EXTENDS Naturals, FiniteSets, SequencesExt

CONSTANTS
    Threads,        \* Python's threads
    Loop,           \* the thread of run_main_loop
    Natives,        \* Session and Script objects
    Addresses,      \* where wrappers are allocated
    Callbacks,      \* Python functions
    Null,           \* the null reference
    MaxVariables,   \* bound: how many references Python code has to wrappers
    MaxHung         \* bound: how many callbacks are hung on one wrapper

ASSUME PyFridaAssumption ==
    /\ Loop \notin Threads /\ Null \notin Threads \cup {Loop}
    /\ Null \notin Natives /\ Null \notin Addresses
    /\ IsFiniteSet(Threads) /\ IsFiniteSet(Addresses)
    /\ MaxVariables \in Nat /\ MaxHung \in Nat

VARIABLES
    gil,            \* the thread that has the GIL
    at,             \* where each thread stands
    about,          \* ... and the native or the wrapper that it is there about
    requests,       \* the threads whose task is attached to main_context
    pyobject,       \* the "pyobject" data of each native
    nativeRefs,     \* the references to a native that the module has to drop
    handle,         \* the native of the wrapper at an address, Null if freed
    refs,           \* its reference count
    hung,           \* its on_close or on_message
    connected,      \* the wrappers that handle the signal of each native
    named,          \* the callbacks that Python code refers to
    uses,           \* the reference count of each callback
    emission,       \* what the main loop is emitting
    wild            \* a freed wrapper or callback was used

runVars     == <<gil, at, about, requests>>
wrapperVars == <<pyobject, nativeRefs, handle, refs>>
signalVars  == <<hung, connected, named, uses>>
bindingVars == <<runVars, wrapperVars, signalVars, emission, wild>>

Runners == Threads \cup {Loop}
NoEmission == [native |-> Null, wrapper |-> Null, copy |-> <<>>, next |-> 1]

BindingInit ==
    /\ gil = Null /\ requests = {}
    /\ at = [r \in Runners |-> IF r = Loop THEN "loop" ELSE "code"]
    /\ about = [r \in Runners |-> Null]
    /\ pyobject = [n \in Natives |-> Null] /\ nativeRefs = [n \in Natives |-> 0]
    /\ handle = [w \in Addresses |-> Null] /\ refs = [w \in Addresses |-> 0]
    /\ hung = [w \in Addresses |-> <<>>] /\ connected = [n \in Natives |-> {}]
    /\ named = Callbacks /\ uses = [c \in Callbacks |-> 1]
    /\ emission = NoEmission /\ wild = FALSE

-----------------------------------------------------------------------------
(* Threads and the GIL.  A definition whose name starts with "Mutant" is a *)
(* bug this code does not have; it stands in for the definition after it   *)
(* when the sensitivity of a property is tested.                           *)

Runs(r) == gil = r /\ at[r] = "code"
Goes(r, place, what) ==
    /\ at' = [at EXCEPT ![r] = place] /\ about' = [about EXCEPT ![r] = what]

MutantAllowThreads(r) == gil' = r
\* Py_BEGIN_ALLOW_THREADS.
AllowThreads(r) == gil' = Null

\* A thread that runs Python code gets the GIL, and gives way at some bytecode.
Resumes(r) ==
    /\ at[r] = "code" /\ gil = Null /\ gil' = r
    /\ UNCHANGED <<at, about, requests, wrapperVars, signalVars, emission, wild>>
GivesWay(r) ==
    /\ Runs(r) /\ gil' = Null
    /\ UNCHANGED <<at, about, requests, wrapperVars, signalVars, emission, wild>>

\* AsyncTask.start_and_wait_for_completion, with the GIL released.
WaitForLoop(r, place, what) ==
    /\ Goes(r, place, what)
    /\ requests' = requests \cup {r}
    /\ AllowThreads(r)

-----------------------------------------------------------------------------
(* References.                                                             *)

Occurrences(list, c) == Cardinality({i \in DOMAIN list : list[i] = c})
Ref(list) == uses' = [c \in Callbacks |-> uses[c] + Occurrences(list, c)]
Unref(list) == uses' = [c \in Callbacks |-> uses[c] - Occurrences(list, c)]

\* The calls in progress each have a reference to their wrapper.
CallsOn(w) == {r \in Runners : at[r] \in {"calling", "called"} /\ about[r] = w}
HasVariable(w) == refs[w] > Cardinality(CallsOn(w))

\* g_object_set_data (..., "pyobject", NULL).
ForgetWrapper(n) == pyobject' = [pyobject EXCEPT ![n] = Null]

\* Py_DECREF of a wrapper; the last one runs its dealloc, which lets other threads
\* in while it drops the native.
Unreference(r, w) ==
    /\ refs' = [refs EXCEPT ![w] = @ - 1]
    /\ IF refs[w] > 1
       THEN /\ Goes(r, "code", Null) /\ gil' = r
            /\ UNCHANGED <<pyobject, hung, connected, uses>>
       ELSE /\ connected' = [connected EXCEPT ![handle[w]] = @ \ {w}]
            /\ Unref(hung[w]) /\ hung' = [hung EXCEPT ![w] = <<>>]
            /\ ForgetWrapper(handle[w])
            /\ Goes(r, "dealloc", w) /\ AllowThreads(r)
    /\ UNCHANGED <<requests, nativeRefs, handle, named, emission, wild>>

DropsVariable(r, w) == Runs(r) /\ HasVariable(w) /\ Unreference(r, w)

DropsNative(r) ==
    /\ at[r] = "dealloc"
    /\ nativeRefs' = [nativeRefs EXCEPT ![handle[about[r]]] = @ - 1]
    /\ Goes(r, "free", about[r])
    /\ UNCHANGED <<gil, requests, pyobject, handle, refs, signalVars, emission, wild>>

FreesWrapper(r) ==
    /\ at[r] = "free" /\ gil = Null /\ gil' = r
    /\ handle' = [handle EXCEPT ![about[r]] = Null]
    /\ Goes(r, "code", Null)
    /\ UNCHANGED <<requests, pyobject, nativeRefs, refs, signalVars, emission, wild>>

-----------------------------------------------------------------------------
(* Calls.                                                                  *)

Asking == {r \in Runners : at[r] \in {"asking", "answered"}}

\* The bound on how many wrappers Python code refers to, or will.
FewVariables == FoldFunction(+, Cardinality(Asking), refs) < MaxVariables

\* attach and create_script.
AsksForNative(r) ==
    /\ FewVariables /\ Runs(r) /\ WaitForLoop(r, "asking", Null)
    /\ UNCHANGED <<wrapperVars, signalVars, emission, wild>>

\* close, load, unload and post_message.
CallsNative(r, w) ==
    /\ Runs(r) /\ HasVariable(w)
    /\ refs' = [refs EXCEPT ![w] = @ + 1]
    /\ WaitForLoop(r, "calling", w)
    /\ UNCHANGED <<pyobject, nativeRefs, handle, signalVars, emission, wild>>

\* The main loop runs a task to its end.  A new reference is returned to whoever
\* asked for a native, or an error.
Serves(r) ==
    /\ at[Loop] = "loop" /\ r \in requests
    /\ requests' = requests \ {r}
    /\ \/ /\ at[r] = "calling" /\ Goes(r, "called", about[r])
          /\ UNCHANGED nativeRefs
       \/ /\ at[r] = "asking" /\ Goes(r, "failed", Null)
          /\ UNCHANGED nativeRefs
       \/ \E n \in Natives :
              /\ at[r] = "asking" /\ Goes(r, "answered", n)
              /\ nativeRefs' = [nativeRefs EXCEPT ![n] = @ + 1]
    /\ UNCHANGED <<gil, pyobject, handle, refs, signalVars, emission, wild>>

CallReturns(r) == at[r] = "called" /\ gil = Null /\ Unreference(r, about[r])

AskingFails(r) ==
    /\ at[r] = "failed" /\ gil = Null /\ gil' = r
    /\ Goes(r, "code", Null)
    /\ UNCHANGED <<requests, wrapperVars, signalVars, emission, wild>>

\* PySession_from_handle and PyScript_from_handle.
FromHandle(r, n) ==
    /\ at[r] = "answered" /\ about[r] = n /\ gil = Null /\ gil' = r
    /\ Goes(r, "code", Null)
    /\ IF pyobject[n] = Null
       THEN \E w \in Addresses :
                /\ handle[w] = Null /\ handle' = [handle EXCEPT ![w] = n]
                /\ refs' = [refs EXCEPT ![w] = 1]
                /\ pyobject' = [pyobject EXCEPT ![n] = w]
                /\ UNCHANGED nativeRefs
       ELSE /\ nativeRefs' = [nativeRefs EXCEPT ![n] = @ - 1]
            /\ refs' = [refs EXCEPT ![pyobject[n]] = @ + 1]
            /\ UNCHANGED <<pyobject, handle>>
    /\ UNCHANGED <<requests, signalVars, emission, wild>>

-----------------------------------------------------------------------------
(* Callbacks.                                                              *)

Hang(r, w, c) ==
    /\ Runs(r) /\ HasVariable(w) /\ c \in named /\ Len(hung[w]) < MaxHung
    /\ connected' = IF hung[w] = <<>>
                    THEN [connected EXCEPT ![handle[w]] = @ \cup {w}]
                    ELSE connected
    /\ hung' = [hung EXCEPT ![w] = Append(@, c)] /\ Ref(<<c>>)
    /\ UNCHANGED <<runVars, wrapperVars, named, emission, wild>>

\* "off" of a callback that was never hung raises ValueError.
TakeOff(r, w, c) ==
    /\ Runs(r) /\ HasVariable(w) /\ c \in named
    /\ \E n \in DOMAIN hung[w] :
           /\ hung[w][n] = c /\ \A m \in 1..(n - 1) : hung[w][m] # c
           /\ hung' = [hung EXCEPT ![w] = RemoveAt(@, n)] /\ Unref(<<c>>)
    /\ connected' = IF hung'[w] = <<>>
                    THEN [connected EXCEPT ![handle[w]] = @ \ {w}]
                    ELSE connected
    /\ UNCHANGED <<runVars, wrapperVars, named, emission, wild>>

\* Python code has no more use for a callback of its own.
ForgetsCallback(r, c) ==
    /\ Runs(r) /\ c \in named /\ named' = named \ {c} /\ Unref(<<c>>)
    /\ UNCHANGED <<runVars, wrapperVars, hung, connected, emission, wild>>

\* The main loop emits "closed" or "message", and waits for the GIL in the handler.
Emits(n, w) ==
    /\ at[Loop] = "loop" /\ w \in connected[n]
    /\ emission' = [NoEmission EXCEPT !.native = n, !.wrapper = w]
    /\ Goes(Loop, "handler", Null)
    /\ UNCHANGED <<gil, requests, wrapperVars, signalVars, wild>>

MutantStillWraps(n, w) == TRUE
\* The wrapper may have been freed since, and even its address be used again.
StillWraps(n, w) == pyobject[n] = w

HandlerBegins ==
    /\ at[Loop] = "handler" /\ gil = Null
    /\ LET w == emission.wrapper IN
       IF StillWraps(emission.native, w)
       THEN /\ wild' = (handle[w] # emission.native \/ refs[w] = 0)
            /\ emission' = [emission EXCEPT !.copy = hung[w]] /\ Ref(hung[w])
            /\ Goes(Loop, "between", Null) /\ gil' = Loop
       ELSE /\ emission' = NoEmission /\ Goes(Loop, "loop", Null)
            /\ UNCHANGED <<gil, uses, wild>>
    /\ UNCHANGED <<requests, wrapperVars, hung, connected, named>>

\* PyObject_CallFunction: a callback may do all that Python code may do.
CallsCallback ==
    /\ at[Loop] = "between" /\ emission.next <= Len(emission.copy)
    /\ wild' = (uses[emission.copy[emission.next]] = 0)
    /\ emission' = [emission EXCEPT !.next = @ + 1]
    /\ Goes(Loop, "code", Null)
    /\ UNCHANGED <<gil, requests, wrapperVars, signalVars>>

CallbackReturns ==
    /\ Runs(Loop) /\ Goes(Loop, "between", Null)
    /\ UNCHANGED <<gil, requests, wrapperVars, signalVars, emission, wild>>

HandlerEnds ==
    /\ at[Loop] = "between" /\ emission.next > Len(emission.copy)
    /\ Unref(emission.copy) /\ emission' = NoEmission
    /\ Goes(Loop, "loop", Null) /\ gil' = Null
    /\ UNCHANGED <<requests, wrapperVars, hung, connected, named, wild>>

-----------------------------------------------------------------------------
\* Where a thread goes on in C code once it gets the GIL or need not have it.
GoesOn(r) ==
    \/ DropsNative(r) \/ FreesWrapper(r)
    \/ CallReturns(r) \/ AskingFails(r) \/ \E n \in Natives : FromHandle(r, n)

\* What Python code does.
PythonRuns(r) ==
    \/ AsksForNative(r)
    \/ \E w \in Addresses :
           \/ DropsVariable(r, w) \/ CallsNative(r, w)
           \/ \E c \in Callbacks : Hang(r, w, c) \/ TakeOff(r, w, c)
    \/ \E c \in Callbacks : ForgetsCallback(r, c)

HandlerRuns == HandlerBegins \/ CallsCallback \/ HandlerEnds

BindingNext ==
    /\ ~wild
    /\ \/ \E r \in Runners :
              Resumes(r) \/ GivesWay(r) \/ GoesOn(r) \/ PythonRuns(r) \/ Serves(r)
       \/ \E n \in Natives, w \in Addresses : Emits(n, w)
       \/ HandlerRuns \/ CallbackReturns

\* A thread that waits for the GIL again and again finds it free, and gets it in the
\* end; the main loop dispatches what is attached to its context; callbacks return.
BindingFairness ==
    /\ \A r \in Runners : SF_bindingVars(GoesOn(r) \/ Serves(r))
    /\ SF_bindingVars(Resumes(Loop) \/ HandlerRuns)
    /\ SF_bindingVars(CallbackReturns)
    /\ WF_bindingVars(\E r \in Runners : GivesWay(r))

BindingSpec == BindingInit /\ [][BindingNext]_bindingVars /\ BindingFairness

-----------------------------------------------------------------------------
(* Properties.                                                             *)

BindingTypeOK ==
    /\ gil \in Runners \cup {Null}
    /\ at \in [Runners -> {"loop", "handler", "between", "code", "asking", "answered",
                           "failed", "calling", "called", "dealloc", "free"}]
    /\ about \in [Runners -> Natives \cup Addresses \cup {Null}]
    /\ requests \subseteq Runners
    /\ pyobject \in [Natives -> Addresses \cup {Null}]
    /\ nativeRefs \in [Natives -> Nat]
    /\ handle \in [Addresses -> Natives \cup {Null}]
    /\ refs \in [Addresses -> Nat]
    /\ hung \in [Addresses -> Seq(Callbacks)]
    /\ connected \in [Natives -> SUBSET Addresses]
    /\ named \subseteq Callbacks /\ uses \in [Callbacks -> Nat]
    /\ emission \in [native : Natives \cup {Null}, wrapper : Addresses \cup {Null},
                      copy : Seq(Callbacks), next : Nat]
    /\ wild \in BOOLEAN

\* A callback has made a call, and waits for the main loop whose thread it runs on
\* (start_and_wait_for_completion does not look at who owns the main context).
LoopWaitsForItself == at[Loop] \in {"asking", "calling"}

Wrappers(n) == {w \in Addresses : handle[w] = n}
BeingFreed == {about[r] : r \in {q \in Runners : at[q] = "free"}}
Answered(n) == {r \in Runners : at[r] = "answered" /\ about[r] = n}

\* Whatever the threads do while the main loop's thread waits for the GIL in a
\* handler, or runs callbacks: no freed wrapper and no freed callback is touched;
\* Python code never sees two objects for one Session or Script; every native is
\* unreferenced as often as it was referenced, and every callback that is hung or
\* about to be called is alive; a wrapper handles its native's signal just while
\* callbacks are hung on it.
WrappersAreTheirNatives ==
    /\ ~wild
    /\ \A n \in Natives :
        /\ {w \in Wrappers(n) : refs[w] > 0} = {pyobject[n]} \ {Null}
        /\ nativeRefs[n] = Cardinality(Wrappers(n) \ BeingFreed) + Cardinality(Answered(n))
        /\ connected[n] = {w \in Wrappers(n) : hung[w] # <<>>}
    /\ \A c \in Callbacks :
        uses[c] = Cardinality({c} \cap named) + Occurrences(emission.copy, c) +
                  Cardinality({x \in Addresses \X (1..MaxHung) :
                                  x[2] \in DOMAIN hung[x[1]] /\ hung[x[1]][x[2]] = c})

\* The GIL and the main loop are never waited for in a circle: unless a callback calls
\* in itself, every call of Python's returns, and every signal's handler.
NobodyWaitsForEver ==
    /\ \A r \in Threads : at[r] # "code" ~> at[r] = "code" \/ LoopWaitsForItself
    /\ at[Loop] # "loop" ~> at[Loop] = "loop" \/ LoopWaitsForItself
=============================================================================
