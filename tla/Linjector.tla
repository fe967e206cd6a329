------------------------------- MODULE Linjector -------------------------------
(***************************************************************************)
(* Injecting the agent into Linux processes: Linjector                     *)
(* (zed/src/core/linux/linjector.vala), its ptrace glue                    *)
(* (linjector-glue.c) and the close of the LinuxHostSession that owns it   *)
(* (linux-host-session.vala).  LinuxHost adds what is around them.         *)
(*                                                                         *)
(* The injector lives on one main loop: inject, _monitor_instance and      *)
(* close are coroutines that interleave at their yields, and the glue      *)
(* blocks the loop, so a call of it is one step.  The injected worker      *)
(* thread runs in the target meanwhile, and the target may die at any      *)
(* time.  A FIFO tells the injector how far the worker has got: the worker *)
(* opens it, writes one byte, runs the agent, and closes it.               *)
(***************************************************************************)
EXTENDS Naturals, FiniteSets

CONSTANTS
    Pids,           \* the processes
    None,           \* no process
    MaxInjections,  \* a bound on the calls of inject
    ReadsFail       \* whether reading the FIFO may fail with an IOError

ASSUME NoneIsNoPid == None \notin Pids
ASSUME MaxInjectionsIsNat == MaxInjections \in Nat
ASSUME ReadsFailIsBoolean == ReadsFail \in BOOLEAN

Ids == 1..MaxInjections

VARIABLES
    lastId,     \* Linjector.last_id
    instances,  \* the keys of instance_by_id
    pid,        \* ZedInjectionInstance.pid
    tasks,      \* <<task, id>>: the coroutines and the idle source at work
    returned,   \* ids inject has returned to its caller
    uninjected, \* ids the signal uninjected has been emitted with
    fifos,      \* pids whose fifo_path exists
    writer,     \* the FIFO's write end: "never" opened, "open", "closed"
    byte,       \* the worker's byte is in the FIFO
    worker,     \* the thread in the target
    payload,    \* the memory mapped in the target for the worker's code
    alive,      \* the processes that live
    traced,     \* the processes stopped under ptrace
    closing,    \* LinuxHostSession.close
    handlers,   \* how many handlers close has connected to uninjected
    lateResume, \* close was resumed after it had completed
    unread,     \* ids a read of whose FIFO has failed
    aborted     \* the assertion that has failed, and with it the program

target == <<writer, byte, worker, payload, alive, traced>>
caller == <<returned, uninjected, closing, handlers, lateResume>>
vars == <<lastId, instances, pid, tasks, fifos, unread, aborted, target, caller>>

Init ==
    /\ lastId = 1
    /\ instances = {} /\ tasks = {} /\ returned = {} /\ uninjected = {}
    /\ pid = [i \in Ids |-> None]
    /\ fifos = {}
    /\ writer = [i \in Ids |-> "never"]
    /\ byte = [i \in Ids |-> FALSE]
    /\ worker = [i \in Ids |-> "none"]
    /\ payload = [i \in Ids |-> "none"]
    /\ alive = Pids /\ traced = {}
    /\ closing = "open" /\ handlers = 0 /\ lateResume = FALSE
    /\ unread = {}
    /\ aborted = "no"

-----------------------------------------------------------------------------
(* Pieces of the handlers.  A definition whose name starts with "Mutant" is *)
(* a bug this code does not have; it stands in for the definition after it *)
(* when the sensitivity of a property is tested.                           *)

MutantAfterFirstByte == "uninject"
\* inject goes on to watch the worker when it has heard from it.
AfterFirstByte == "monitor"

\* zed_injection_instance_free: unlink (instance->fifo_path).
Unlinked(p) == fifos \ {p}

MutantFinished(t, i) == IF t = "inject" THEN tasks \ {<<t, i>>} ELSE tasks
\* A coroutine that has uninjected its instance returns; so does an idle source.
Finished(t, i) == tasks \ {<<t, i>>}

\* any_still_injected, on which close loops.
StillInjected(s) == s # {}

\* Each of the n times round its loop close connects a handler more.
Connected(n) == handlers + n

\* PTRACE_ATTACH succeeds on a live process nobody traces.
Attachable(p) == p \in alive /\ p \notin traced

\* What zed_injection_instance_free makes of the target: the payload is
\* unmapped if the target can be attached to, and a target that stops with
\* another signal than the expected one is not let go of.
FreeOutcomes(i) ==
    IF payload[i] = "mapped" /\ Attachable(pid[i])
    THEN {<<"unmapped", {}>>, <<"unmapped", {pid[i]}>>, <<"mapped", {pid[i]}>>}
    ELSE {<<payload[i], {}>>}

\* The handlers of uninjected resume close one after the other.  The first
\* resumption that finds nothing injected completes it; a resumption after that
\* is one too many.
ResumeClose(still) ==
    IF handlers > 0 /\ closing = "waiting" /\ StillInjected(still)
    THEN /\ handlers' = Connected(handlers)
         /\ UNCHANGED <<closing, lateResume>>
    ELSE /\ closing' = IF handlers > 0 THEN "done" ELSE closing
         /\ lateResume' =
                (lateResume \/ handlers > IF closing = "waiting" THEN 1 ELSE 0)
         /\ UNCHANGED handlers

\* _on_uninject (id), called by the task t.
OnUninject(t, i) ==
    IF i \notin instances
    THEN /\ aborted' = "found"
         /\ UNCHANGED <<lastId, instances, pid, tasks, fifos, unread, target,
                        caller>>
    ELSE /\ instances' = instances \ {i}
         /\ fifos' = Unlinked(pid[i])
         /\ \E o \in FreeOutcomes(i) :
                /\ payload' = [payload EXCEPT ![i] = o[1]]
                /\ traced' = traced \cup o[2]
         /\ uninjected' = uninjected \cup {i}
         /\ tasks' = Finished(t, i)
         /\ ResumeClose(instances')
         /\ UNCHANGED <<lastId, pid, returned, writer, byte, worker, alive,
                        aborted>>

-----------------------------------------------------------------------------
(* Injecting.                                                              *)

MayAttach(p) ==
    /\ aborted = "no" /\ lastId \in Ids /\ closing # "done"

\* A path that exists already fails the assertion on mkfifo.
MkfifoFails(p) ==
    /\ MayAttach(p) /\ p \in fifos
    /\ aborted' = "mkfifo"
    /\ UNCHANGED <<lastId, instances, pid, tasks, fifos, unread, target, caller>>

\* attach_to and the synchronous part of inject, all of which went well.
Inject(p) ==
    /\ MayAttach(p) /\ p \notin fifos /\ Attachable(p)
    /\ lastId' = lastId + 1
    /\ pid' = [pid EXCEPT ![lastId] = p]
    /\ fifos' = fifos \cup {p}
    /\ payload' = [payload EXCEPT ![lastId] = "mapped"]
    /\ worker' = [worker EXCEPT ![lastId] = "created"]
    /\ instances' = instances \cup {lastId}
    /\ tasks' = tasks \cup {<<"inject", lastId>>}
    /\ UNCHANGED <<unread, aborted, writer, byte, alive, traced, caller>>

\* _do_inject goes to its beach and inject throws.  Nothing there detaches from
\* the target: once attached to, it stays stopped, and the payload mapped in it
\* cannot be unmapped.  The thread a failed injection may have started is not
\* followed.
InjectFails(p, attached, mapped) ==
    /\ MayAttach(p) /\ p \notin fifos
    /\ attached => Attachable(p)
    /\ mapped => attached
    /\ lastId' = lastId + 1
    /\ pid' = [pid EXCEPT ![lastId] = p]
    /\ fifos' = Unlinked(p)
    /\ payload' = [payload EXCEPT ![lastId] = IF mapped THEN "mapped" ELSE @]
    /\ traced' = IF attached THEN traced \cup {p} ELSE traced
    /\ UNCHANGED <<instances, tasks, unread, aborted, writer, byte, worker,
                   alive, caller>>

\* inject's read_async completes with the worker's byte.
InjectReadsByte(i) ==
    /\ aborted = "no" /\ <<"inject", i>> \in tasks /\ byte[i]
    /\ byte' = [byte EXCEPT ![i] = FALSE]
    /\ tasks' = Finished("inject", i) \cup {<<AfterFirstByte, i>>}
    /\ returned' = returned \cup {i}
    /\ UNCHANGED <<lastId, instances, pid, fifos, unread, aborted, writer,
                   worker, payload, alive, traced, uninjected, closing,
                   handlers, lateResume>>

ReadsNothing(i) ==
    /\ aborted = "no" /\ <<"inject", i>> \in tasks
    /\ ~byte[i] /\ writer[i] = "closed"

MutantReadsOn(i) == FALSE
\* The worker has closed the FIFO, or died, without writing: inject leaves
\* _on_uninject to an idle source, and returns.
InjectReadsNothing(i) ==
    /\ ReadsNothing(i)
    /\ tasks' = Finished("inject", i) \cup {<<"uninject", i>>}
    /\ returned' = returned \cup {i}
    /\ UNCHANGED <<lastId, instances, pid, fifos, unread, aborted, target,
                   uninjected, closing, handlers, lateResume>>

\* It throws: inject does not catch the error, and the instance stays behind.
InjectReadFails(i) ==
    /\ aborted = "no" /\ ReadsFail /\ <<"inject", i>> \in tasks
    /\ tasks' = Finished("inject", i)
    /\ unread' = unread \cup {i}
    /\ UNCHANGED <<lastId, instances, pid, fifos, aborted, target, caller>>

\* The idle source.
IdleUninject(i) ==
    /\ aborted = "no" /\ <<"uninject", i>> \in tasks
    /\ OnUninject("uninject", i)
    /\ UNCHANGED unread

\* _monitor_instance reads the end of the FIFO.
MonitorReads(i) ==
    /\ aborted = "no" /\ <<"monitor", i>> \in tasks
    /\ ~byte[i] /\ writer[i] = "closed"
    /\ OnUninject("monitor", i)
    /\ UNCHANGED unread

\* It catches the error.
MonitorReadFails(i) ==
    /\ aborted = "no" /\ ReadsFail /\ <<"monitor", i>> \in tasks
    /\ OnUninject("monitor", i)
    /\ unread' = unread \cup {i}

-----------------------------------------------------------------------------
(* The worker thread in the target.                                        *)

WorkerOpens(i) ==
    /\ worker[i] = "created" /\ pid[i] \in fifos
    /\ worker' = [worker EXCEPT ![i] = "opened"]
    /\ writer' = [writer EXCEPT ![i] = "open"]
    /\ UNCHANGED <<lastId, instances, pid, tasks, fifos, unread, aborted, byte,
                   payload, alive, traced, caller>>

WorkerWrites(i) ==
    /\ worker[i] = "opened"
    /\ worker' = [worker EXCEPT ![i] = "agent"]
    /\ byte' = [byte EXCEPT ![i] = TRUE]
    /\ UNCHANGED <<lastId, instances, pid, tasks, fifos, unread, aborted, writer,
                   payload, alive, traced, caller>>

\* zed_agent_main has returned: dlclose, then close on the FIFO.
WorkerCloses(i) ==
    /\ worker[i] = "agent"
    /\ worker' = [worker EXCEPT ![i] = "leaving"]
    /\ writer' = [writer EXCEPT ![i] = "closed"]
    /\ UNCHANGED <<lastId, instances, pid, tasks, fifos, unread, aborted, byte,
                   payload, alive, traced, caller>>

\* The last instructions of the payload: add, pop, ret.
WorkerReturns(i) ==
    /\ worker[i] = "leaving"
    /\ worker' = [worker EXCEPT ![i] = "gone"]
    /\ UNCHANGED <<lastId, instances, pid, tasks, fifos, unread, aborted, writer,
                   byte, payload, alive, traced, caller>>

TargetDies(p) ==
    /\ p \in alive
    /\ alive' = alive \ {p} /\ traced' = traced \ {p}
    /\ worker' = [i \in Ids |-> IF pid[i] = p THEN "gone" ELSE worker[i]]
    /\ payload' = [i \in Ids |-> IF pid[i] = p THEN "none" ELSE payload[i]]
    /\ writer' = [i \in Ids |-> IF pid[i] = p /\ writer[i] = "open"
                                THEN "closed" ELSE writer[i]]
    /\ UNCHANGED <<lastId, instances, pid, tasks, fifos, unread, aborted, byte,
                   caller>>

-----------------------------------------------------------------------------
(* LinuxHostSession.close.                                                 *)

Close ==
    /\ aborted = "no" /\ closing = "open"
    /\ closing' = "base"
    /\ UNCHANGED <<lastId, instances, pid, tasks, fifos, unread, aborted, target,
                   returned, uninjected, handlers, lateResume>>

\* base.close () is over and the loop begins.
BaseClosed ==
    /\ aborted = "no" /\ closing = "base"
    /\ IF StillInjected(instances)
       THEN closing' = "waiting" /\ handlers' = Connected(1)
       ELSE closing' = "done" /\ UNCHANGED handlers
    /\ UNCHANGED <<lastId, instances, pid, tasks, fifos, unread, aborted, target,
                   returned, uninjected, lateResume>>

-----------------------------------------------------------------------------
Next ==
    \/ \E p \in Pids :
           \/ MkfifoFails(p) \/ Inject(p) \/ TargetDies(p)
           \/ \E attached, mapped \in BOOLEAN : InjectFails(p, attached, mapped)
    \/ \E i \in Ids :
           \/ InjectReadsByte(i) \/ InjectReadsNothing(i)
           \/ InjectReadFails(i) \/ IdleUninject(i)
           \/ MonitorReads(i) \/ MonitorReadFails(i)
           \/ WorkerOpens(i) \/ WorkerWrites(i) \/ WorkerCloses(i)
           \/ WorkerReturns(i)
    \/ Close \/ BaseClosed

Spec == Init /\ [][Next]_vars

-----------------------------------------------------------------------------
(* Properties.                                                             *)

TypeOK ==
    /\ lastId \in 1..(MaxInjections + 1)
    /\ instances \subseteq Ids /\ returned \subseteq Ids
    /\ uninjected \subseteq Ids /\ unread \subseteq Ids
    /\ pid \in [Ids -> Pids \cup {None}]
    /\ tasks \subseteq {"inject", "monitor", "uninject"} \X Ids
    /\ fifos \subseteq Pids /\ alive \subseteq Pids /\ traced \subseteq alive
    /\ writer \in [Ids -> {"never", "open", "closed"}]
    /\ byte \in [Ids -> BOOLEAN]
    /\ worker \in [Ids -> {"none", "created", "opened", "agent", "leaving",
                           "gone"}]
    /\ payload \in [Ids -> {"none", "mapped", "unmapped"}]
    /\ closing \in {"open", "base", "waiting", "done"}
    /\ handlers \in Nat
    /\ lateResume \in BOOLEAN /\ aborted \in {"no", "mkfifo", "found"}

\* An instance in the map has its FIFO in the file system and one coroutine or
\* idle source that will take both out, unless a failed read has left it behind;
\* so it is taken out once, assert (found) in _on_uninject holds, and its pid can
\* be injected again from then on.
EachInstanceIsTended ==
    /\ fifos = {pid[i] : i \in instances}
    /\ \A i \in instances : i \in unread \/ \E t \in tasks : t[2] = i
    /\ \A t, u \in tasks : t[2] = u[2] => t = u
    /\ \A t \in tasks : t[2] \in instances
    /\ aborted # "found"

\* Whoever hears that an instance is gone has been told its id before: inject
\* has returned it.
ReturnedBeforeUninjected == [][uninjected' \subseteq returned]_vars

\* The memory the agent's thread runs in is unmapped only when that thread has
\* closed the FIFO (or when reading the FIFO failed and the code gave up).
AgentKeepsItsMemory ==
    \A i \in Ids : payload[i] = "unmapped" /\ i \notin unread =>
        worker[i] \in {"leaving", "gone"}

\* close completes when nothing is injected any more; and though its loop
\* connects one handler for each time round and disconnects none, with one time
\* round it is not resumed after it has completed.
CloseEndsOnce ==
    /\ closing = "done" => instances = {}
    /\ handlers <= 1 => ~lateResume
=============================================================================
