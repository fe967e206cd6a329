---------------------------- MODULE RemoteInjection ----------------------------
(***************************************************************************)
(* One call after the other, how the agent gets into a process: the glue   *)
(* under the three injectors.                                              *)
(*   linux    _zed_linjector_do_inject (zed/src/core/linux/linjector-glue.c)*)
(*            stops the process with ptrace, has its thread call mmap and   *)
(*            then a payload that creates the agent's thread;              *)
(*   windows  winjector_process_inject (windows/winjector-helper-core.c)   *)
(*            writes a worker and its context and creates a thread on it;  *)
(*   darwin   _zed_fruitjector_do_inject (darwin/fruitjector-glue.c)       *)
(*            creates a Mach thread, which creates and joins a pthread.    *)
(* Every call may fail, the process may die between any two of them, and   *)
(* the thread they create runs while the injector goes on.  The modules    *)
(* Linjector and WinjectorHelper take a whole injection for one step; this *)
(* one is about what each of its failures leaves behind, in the injector   *)
(* and in the process.                                                     *)
(*                                                                         *)
(* There is one process.  Injections, frees and idle sources run on one    *)
(* main loop, and the glue does not yield: while one is at work no other   *)
(* one starts.                                                             *)
(***************************************************************************)
EXTENDS Naturals

CONSTANTS
    Injections   \* the calls of inject; their number is a bound

VARIABLES
    platform,  \* which of the three, chosen once
    at,        \* where the injection is: the call that comes next
    result,    \* what inject returned: an "id", an "error", or not "yet"
    holds,     \* what the instance records: the injector's own handles, and
               \* "payload" for an address in the process
    mapped,    \* the payload is mapped in the process
    thread,    \* the agent's thread in the process
    alive,     \* the process lives
    traced,    \* its thread is stopped under ptrace
    regs       \* that thread's registers: its "own", those of a "call", or those
               \* of a call "left" there by an injector that has aborted

process == <<alive, traced, regs>>
injectionVars == <<platform, at, result, holds, mapped, thread, process>>

InjectionInit ==
    /\ platform \in {"linux", "windows", "darwin"}
    /\ at = [i \in Injections |-> "idle"]
    /\ result = [i \in Injections |-> "yet"]
    /\ holds = [i \in Injections |-> {}]
    /\ mapped = [i \in Injections |-> FALSE]
    /\ thread = [i \in Injections |-> "none"]
    /\ alive = TRUE /\ traced = FALSE /\ regs = "own"

-----------------------------------------------------------------------------
(* Pieces of the calls.  A definition whose name starts with "Mutant" is a *)
(* bug this code does not have; it stands in for the definition after it   *)
(* when the sensitivity of a property is tested.                           *)

\* The main loop is in none of the calls, and has not been aborted in one.
Idle == \A i \in Injections : at[i] \in {"idle", "injected", "dead", "freed"}

Go(i, here, to) ==
    /\ at[i] = here
    /\ at' = [at EXCEPT ![i] = to]

Returns(i, what) == result' = [result EXCEPT ![i] = what]

Takes(i, what) == holds' = [holds EXCEPT ![i] = @ \cup what]

SetMapped(i, b) == mapped' = [mapped EXCEPT ![i] = b]

\* The injection fails and returns when it has cleaned up.
Errs(i) == IF result[i] = "yet" THEN Returns(i, "error") ELSE UNCHANGED result

\* zed_attach_to_process: PTRACE_ATTACH may be refused, and is for a process
\* that is traced or dead; if the process stops with another signal than
\* SIGSTOP, the call fails with the process attached to.
AttachTo(i, here, ok, no) ==
    \/ /\ Go(i, here, no)
       /\ UNCHANGED process
    \/ /\ alive /\ ~traced
       /\ traced' = TRUE
       /\ \E to \in {ok, no} : Go(i, here, to)
       /\ UNCHANGED <<alive, regs>>

\* How a thread stops that was made to call a function: at a breakpoint it
\* returns to (zed_find_landing_strip), or with another signal - one that came
\* before, or the fault of returning to nowhere if there is no breakpoint.
Stops == {"breakpoint", "other"}

\* zed_wait_for_child_signal (pid, SIGTRAP).
Expected(stop) == stop = "breakpoint"

\* Setting a call up in the registers of the stopped thread: PTRACE_SETREGS.
SetRegs == regs' = "call" /\ UNCHANGED <<alive, traced>>

\* PTRACE_SETREGS with the registers saved when it was attached to.
Restored(own) == own

MutantDetachFrom(i, here, ok, no) ==
    /\ Go(i, here, IF alive THEN ok ELSE no)
    /\ regs' = IF alive THEN "own" ELSE regs
    /\ UNCHANGED <<alive, traced>>

\* zed_detach_from_process: it fails only if the process is dead.
DetachFrom(i, here, ok, no) ==
    IF alive
    THEN /\ Go(i, here, ok)
         /\ regs' = Restored("own") /\ traced' = FALSE
         /\ UNCHANGED alive
    ELSE /\ Go(i, here, no)
         /\ UNCHANGED process

-----------------------------------------------------------------------------
(* Linux.                                                                  *)

\* zed_injection_instance_new.  A second instance for a process would fail the
\* assertion on mkfifo; the module Linjector has that.
LinuxNew(i) ==
    /\ platform = "linux" /\ Idle
    /\ \A j \in Injections : "fifo" \notin holds[j]
    /\ Go(i, "idle", "attach")
    /\ Takes(i, {"fifo"})
    /\ UNCHANGED <<platform, result, mapped, thread, process>>

LinuxAttach(i) ==
    /\ platform = "linux"
    /\ AttachTo(i, "attach", "alloc", "free")
    /\ UNCHANGED <<platform, result, holds, mapped, thread>>

\* zed_remote_alloc has the thread call mmap.  It fails if the thread stops
\* otherwise than expected, whether or not mmap has run; what mmap returned is
\* not looked at.
LinuxAlloc(i) ==
    /\ platform = "linux" /\ at[i] = "alloc"
    /\ IF alive
       THEN /\ SetRegs
            /\ \E done \in BOOLEAN : SetMapped(i, done)
            /\ \E stop \in Stops :
                   IF Expected(stop)
                   THEN Go(i, "alloc", "write") /\ Takes(i, {"payload"})
                   ELSE Go(i, "alloc", "free") /\ UNCHANGED holds
       ELSE /\ Go(i, "alloc", "free")
            /\ UNCHANGED <<holds, mapped, process>>
    /\ UNCHANGED <<platform, result, thread>>

\* zed_remote_write: PTRACE_POKEDATA fails where nothing is mapped.
Writable(i) == mapped[i]

\* zed_emit_and_remote_execute, which writes the payload and its data first.
LinuxWrite(i) ==
    /\ platform = "linux"
    /\ Go(i, "write", IF Writable(i) THEN "exec" ELSE "free")
    /\ UNCHANGED <<platform, result, holds, mapped, thread, process>>

\* The first part of zed_emit_payload_code calls pthread_create and stops, and
\* does not look at what pthread_create returned.
Created == {"none", "entering"}

\* zed_remote_exec.  Another signal may come before the thread is created or
\* after.
LinuxExec(i) ==
    /\ platform = "linux" /\ at[i] = "exec"
    /\ IF alive
       THEN /\ SetRegs
            /\ \E t \in Created : thread' = [thread EXCEPT ![i] = t]
            /\ \E stop \in Stops :
                   Go(i, "exec", IF Expected(stop) THEN "detach" ELSE "free")
       ELSE /\ Go(i, "exec", "free")
            /\ UNCHANGED <<thread, process>>
    /\ UNCHANGED <<platform, result, holds, mapped>>

LinuxDetach(i) ==
    /\ platform = "linux"
    /\ DetachFrom(i, "detach", "injected", "free")
    /\ IF alive THEN Returns(i, "id") ELSE UNCHANGED result
    /\ UNCHANGED <<platform, holds, mapped, thread>>

\* The injector reads the end of the FIFO, whose other end the agent's thread
\* had open, and frees the instance.
LinuxEnd(i) ==
    /\ platform = "linux" /\ Idle
    /\ thread[i] \in {"leaving", "gone"}
    /\ Go(i, "injected", "free")
    /\ UNCHANGED <<platform, result, holds, mapped, thread, process>>

\* zed_injection_instance_free attaches once more to unmap the payload.
LinuxFree(i) ==
    /\ platform = "linux"
    /\ IF "payload" \in holds[i]
       THEN AttachTo(i, "free", "dealloc", "close")
       ELSE Go(i, "free", "close") /\ UNCHANGED process
    /\ UNCHANGED <<platform, result, holds, mapped, thread>>

\* zed_remote_dealloc; its failure is ignored.
LinuxDealloc(i) ==
    /\ platform = "linux"
    /\ Go(i, "dealloc", "redetach")
    /\ IF alive
       THEN SetRegs /\ \E done \in BOOLEAN : SetMapped(i, mapped[i] /\ ~done)
       ELSE UNCHANGED <<mapped, process>>
    /\ UNCHANGED <<platform, result, holds, thread>>

LinuxRedetach(i) ==
    /\ platform = "linux"
    /\ DetachFrom(i, "redetach", "close", "close")
    /\ UNCHANGED <<platform, result, holds, mapped, thread>>

\* The registers an abort leaves the process with: looking a function up comes
\* before they are set for its call, but the payload is put together, and needs
\* pthread_create, after those of mmap were set.
LeftAt(here) ==
    IF alive /\ here # "dealloc"
    THEN {"left"} \cup IF here = "alloc" THEN {"own"} ELSE {}
    ELSE {"own"}

\* zed_resolve_remote_library_function asserts that the process has the library,
\* under the injector's own path: a process that is gone, is linked statically or,
\* for pthread_create, has no threads takes the injector with it.  So does a call
\* of mmap that stops before it has run.  The kernel then lets the process go.
LinuxAborts(i) ==
    /\ platform = "linux" /\ at[i] \in {"alloc", "write", "dealloc"}
    /\ Go(i, at[i], "aborted")
    /\ traced' = FALSE
    /\ regs' \in LeftAt(at[i])
    /\ UNCHANGED <<platform, result, holds, mapped, thread, alive>>

LinuxClose(i) ==
    /\ platform = "linux"
    /\ Go(i, "close", "freed")
    /\ Errs(i)
    /\ holds' = [holds EXCEPT ![i] = {}]
    /\ UNCHANGED <<platform, mapped, thread, process>>

-----------------------------------------------------------------------------
(* Windows.                                                                *)

\* The DLL is looked for and the process opened.
WindowsOpen(i) ==
    /\ platform = "windows" /\ Idle
    /\ \/ Go(i, "idle", "beach") /\ UNCHANGED holds
       \/ alive /\ Go(i, "idle", "alloc") /\ Takes(i, {"process"})
    /\ UNCHANGED <<platform, result, mapped, thread, process>>

\* initialize_remote_worker_context, as far as VirtualAllocEx.
WindowsAlloc(i) ==
    /\ platform = "windows"
    /\ \/ Go(i, "alloc", "beach") /\ UNCHANGED mapped
       \/ alive /\ Go(i, "alloc", "write") /\ SetMapped(i, TRUE)
    /\ UNCHANGED <<platform, result, holds, thread, process>>

MutantWriteFailed(i) == UNCHANGED mapped
\* error_common: cleanup_remote_worker_context.
WriteFailed(i) == SetMapped(i, FALSE)

\* Its two calls of WriteProcessMemory.
WindowsWrite(i) ==
    /\ platform = "windows"
    /\ \/ Go(i, "write", "beach") /\ WriteFailed(i) /\ UNCHANGED holds
       \/ alive /\ Go(i, "write", "create") /\ Takes(i, {"payload"})
          /\ UNCHANGED mapped
    /\ UNCHANGED <<platform, result, thread, process>>

\* CreateRemoteThread.
WindowsCreate(i) ==
    /\ platform = "windows"
    /\ Go(i, "create", "beach")
    /\ \/ UNCHANGED <<holds, thread>>
       \/ /\ alive
          /\ Takes(i, {"waitable"})
          /\ thread' = [thread EXCEPT ![i] = "entering"]
    /\ UNCHANGED <<platform, result, mapped, process>>

\* beach: without success the payload is freed, and the process is closed in
\* any case.  From here on the payload is its own thread's to free.
WindowsBeach(i) ==
    /\ platform = "windows"
    /\ LET success == "waitable" \in holds[i] IN
       /\ Go(i, "beach", IF success THEN "injected" ELSE "freed")
       /\ Returns(i, IF success THEN "id" ELSE "error")
       /\ SetMapped(i, mapped[i] /\ ~("payload" \in holds[i] /\ ~success))
    /\ holds' = [holds EXCEPT ![i] = @ \cap {"waitable"}]
    /\ UNCHANGED <<platform, thread, process>>

\* The wait handle source is dispatched, and closes the handle it owns.
WindowsEnd(i) ==
    /\ platform = "windows" /\ Idle
    /\ thread[i] \in {"gone", "lost"}
    /\ Go(i, "injected", "freed")
    /\ holds' = [holds EXCEPT ![i] = {}]
    /\ UNCHANGED <<platform, result, mapped, thread, process>>

-----------------------------------------------------------------------------
(* Darwin.                                                                 *)

\* zed_cpu_type_from_pid.
DarwinNew(i) ==
    /\ platform = "darwin" /\ Idle
    /\ \/ Go(i, "idle", "free")
       \/ alive /\ Go(i, "idle", "task")
    /\ UNCHANGED <<platform, result, holds, mapped, thread, process>>

\* task_for_pid.
DarwinTask(i) ==
    /\ platform = "darwin"
    /\ \/ Go(i, "task", "free") /\ UNCHANGED holds
       \/ alive /\ Go(i, "task", "alloc") /\ Takes(i, {"task"})
    /\ UNCHANGED <<platform, result, mapped, thread, process>>

DarwinAllocate(i) ==
    /\ platform = "darwin"
    /\ \/ Go(i, "alloc", "free") /\ UNCHANGED <<holds, mapped>>
       \/ /\ alive /\ Go(i, "alloc", "write")
          /\ Takes(i, {"payload"}) /\ SetMapped(i, TRUE)
    /\ UNCHANGED <<platform, result, thread, process>>

\* The guard page is protected and the two stubs are written.
DarwinWrite(i) ==
    /\ platform = "darwin"
    /\ \/ Go(i, "write", "free")
       \/ alive /\ Go(i, "write", "fill")
    /\ UNCHANGED <<platform, result, holds, mapped, thread, process>>

\* zed_fill_agent_context resolves nine functions, in this process or, for
\* another CPU type, in the target; the context is written and the code
\* protected.
DarwinFill(i) ==
    /\ platform = "darwin"
    /\ \/ Go(i, "fill", "free")
       \/ alive /\ Go(i, "fill", "create")
    /\ UNCHANGED <<platform, result, holds, mapped, thread, process>>

\* thread_create_running; then the instance is kept, and its thread monitored on
\* the dispatch queue.
DarwinCreate(i) ==
    /\ platform = "darwin"
    /\ \/ Go(i, "create", "free") /\ UNCHANGED <<result, holds, thread>>
       \/ /\ alive /\ Go(i, "create", "injected")
          /\ Takes(i, {"thread", "monitor"})
          /\ thread' = [thread EXCEPT ![i] = "entering"]
          /\ Returns(i, "id")
    /\ UNCHANGED <<platform, mapped, process>>

\* The Mach thread, which is monitored, joins its pthread before it terminates.
DeadWhen == {"gone", "lost"}

\* zed_injection_instance_handle_event, on the dispatch queue, has the main loop
\* free the instance.
DarwinDead(i) ==
    /\ platform = "darwin"
    /\ thread[i] \in DeadWhen
    /\ Go(i, "injected", "dead")
    /\ UNCHANGED <<platform, result, holds, mapped, thread, process>>

\* _on_instance_dead's idle source.
DarwinIdle(i) ==
    /\ platform = "darwin" /\ Idle
    /\ Go(i, "dead", "free")
    /\ UNCHANGED <<platform, result, holds, mapped, thread, process>>

MutantReleases == <<"monitor", "thread", "task", "payload">>
\* The order in which zed_injection_instance_free releases what it holds.
Releases == <<"monitor", "thread", "payload", "task">>

\* vm_deallocate goes through the task's port.
Unmaps ==
    \E p, t \in 1..4 : p < t /\ Releases[p] = "payload" /\ Releases[t] = "task"

DarwinFree(i) ==
    /\ platform = "darwin"
    /\ Go(i, "free", "freed")
    /\ Errs(i)
    /\ SetMapped(i, mapped[i] /\ ~("payload" \in holds[i] /\ Unmaps))
    /\ holds' = [holds EXCEPT ![i] = {}]
    /\ UNCHANGED <<platform, thread, process>>

-----------------------------------------------------------------------------
(* The agent's thread, and the process.                                    *)

ThreadGoes(i, here, to) ==
    /\ alive /\ thread[i] = here
    /\ thread' = [thread EXCEPT ![i] = to]

\* The payload opens the FIFO (linux), loads the library and calls the agent.
EnterAgent(i) ==
    /\ platform # "darwin"
    /\ ThreadGoes(i, "entering", "agent")
    /\ UNCHANGED <<platform, at, result, holds, mapped, process>>

\* The Mach thread's stub makes itself known as a pthread and creates another, whose
\* stub loads the library and calls the agent, while the first joins it.
DarwinEnter(i) ==
    /\ platform = "darwin"
    /\ ThreadGoes(i, "entering", "agent")
    /\ UNCHANGED <<platform, at, result, holds, mapped, process>>

\* pthread_create has failed, which the Mach thread's stub does not look at.
NoPthread(i) ==
    /\ platform = "darwin"
    /\ ThreadGoes(i, "entering", "leaving")
    /\ UNCHANGED <<platform, at, result, holds, mapped, process>>

\* The agent returns; the library is unloaded, and on Linux the FIFO closed.
LeaveAgent(i) ==
    /\ ThreadGoes(i, "agent", "leaving")
    /\ UNCHANGED <<platform, at, result, holds, mapped, process>>

\* The thread returns; on Windows it does so by way of VirtualFree.
ThreadEnds(i) ==
    /\ ThreadGoes(i, "leaving", "gone")
    /\ SetMapped(i, mapped[i] /\ platform # "windows")
    /\ UNCHANGED <<platform, at, result, holds, process>>

ProcessDies ==
    /\ alive
    /\ alive' = FALSE /\ traced' = FALSE /\ regs' = "own"
    /\ mapped' = [i \in Injections |-> FALSE]
    /\ thread' =
           [i \in Injections |-> CASE thread[i] = "entering" -> "lost"
                                   [] thread[i] \in {"agent", "leaving"} -> "gone"
                                   [] OTHER -> thread[i]]
    /\ UNCHANGED <<platform, at, result, holds>>

-----------------------------------------------------------------------------
LinuxCalls(i) ==
    \/ LinuxNew(i) \/ LinuxAttach(i) \/ LinuxAlloc(i) \/ LinuxWrite(i)
    \/ LinuxExec(i) \/ LinuxDetach(i) \/ LinuxEnd(i) \/ LinuxFree(i)
    \/ LinuxDealloc(i) \/ LinuxRedetach(i) \/ LinuxClose(i)
    \/ LinuxAborts(i)

WindowsCalls(i) ==
    \/ WindowsOpen(i) \/ WindowsAlloc(i) \/ WindowsWrite(i)
    \/ WindowsCreate(i) \/ WindowsBeach(i) \/ WindowsEnd(i)

DarwinCalls(i) ==
    \/ DarwinNew(i) \/ DarwinTask(i) \/ DarwinAllocate(i) \/ DarwinWrite(i)
    \/ DarwinFill(i) \/ DarwinCreate(i) \/ DarwinDead(i) \/ DarwinIdle(i)
    \/ DarwinFree(i)

InjectionNext ==
    \/ \E i \in Injections :
           \/ LinuxCalls(i) \/ WindowsCalls(i) \/ DarwinCalls(i)
           \/ EnterAgent(i) \/ DarwinEnter(i) \/ NoPthread(i)
           \/ LeaveAgent(i) \/ ThreadEnds(i)
    \/ ProcessDies

InjectionSpec == InjectionInit /\ [][InjectionNext]_injectionVars

-----------------------------------------------------------------------------
Handles ==
    {"fifo", "payload", "process", "waitable", "task", "thread", "monitor"}

Places ==
    {"idle", "attach", "alloc", "write", "exec", "detach", "free", "dealloc",
     "redetach", "close", "create", "beach", "task", "fill", "injected",
     "dead", "freed", "aborted"}

InjectionTypeOK ==
    /\ platform \in {"linux", "windows", "darwin"}
    /\ at \in [Injections -> Places]
    /\ result \in [Injections -> {"yet", "id", "error"}]
    /\ holds \in [Injections -> SUBSET Handles]
    /\ mapped \in [Injections -> BOOLEAN]
    /\ thread \in
           [Injections ->
               {"none", "entering", "agent", "leaving", "gone", "lost"}]
    /\ alive \in BOOLEAN /\ traced \in BOOLEAN
    /\ regs \in {"own", "call", "left"}

\* Whatever call of an injection fails, it leaves no handle in the injector, and
\* no memory and no thread in the process - unless, on Linux, it leaves the
\* process stopped: zed_injection_instance_free cannot attach to it again.
NothingLeftByFailure ==
    \A i \in Injections :
        at[i] = "freed" /\ result[i] = "error" =>
            /\ holds[i] = {}
            /\ mapped[i] \/ thread[i] \in {"entering", "agent", "leaving"} =>
                   platform = "linux" /\ traced

\* The process does not go on with the registers of a call the injector has made
\* it do: each way to PTRACE_DETACH restores its own first, and where that is not
\* possible the process is not let go - unless the injector aborts in between.
RunsOnItsOwnRegisters ==
    /\ ~traced => regs # "call"
    /\ regs = "left" => \E i \in Injections : at[i] = "aborted"

\* When the injector is at rest the process is stopped only if a call has
\* failed: an injection that has returned an error, or a free that has left the
\* payload where it was.
StoppedOnlyByFailure ==
    Idle /\ traced =>
        \E i \in Injections :
            at[i] = "freed" /\ (result[i] = "error" \/ mapped[i])

\* The payload is not unmapped under a thread that runs in it.  On Linux the
\* injector takes the closing of the FIFO for the thread's end, which it is but
\* for the last instructions of the payload (linjector-glue.c:353-355): these
\* are not covered.
PayloadOutlivesItsThread ==
    \A i \in Injections :
        \/ thread[i] \in {"entering", "agent"}
        \/ thread[i] = "leaving" /\ platform # "linux"
        => mapped[i]

\* An injection whose thread has ended is cleaned up, so that again and again all of
\* them are: the injector lets go of what it held, and the payload is gone, unmapped
\* by its thread on Windows and by the injector on Darwin, and on Linux if it can
\* attach to the process - unless an assertion about another process has ended the
\* injector.
EndsAreCleanedUp ==
    []<>(\/ \E j \in Injections : at[j] = "aborted"
         \/ \A i \in Injections :
                result[i] = "id" /\ thread[i] = "gone" =>
                    /\ at[i] = "freed" /\ holds[i] = {}
                    /\ mapped[i] => platform = "linux")
=============================================================================
