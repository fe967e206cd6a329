# Frida (zed): TLA+ models, model checks and proofs

This directory holds TLA+ specifications of the program in `../src`, configurations with which TLC
checks them on small instances, and proofs that the TLA+ proof system checks for every instance.
`PROJECT.json` lists the components, the runs, the source lines each definition stands for, the
hazards and the theorems; this file explains them.

## 1. The system

Frida injects an *agent* (a shared library with a script engine) into another process and lets a
client run scripts there. `zed/` is the program; `org.boblycat.frida.*` is an older, separate
disassembly workbench and `cloud-spy/` a web page that embeds the browser plugin.

```
 client threads            main loop of the host process                target process
 ---------------           ------------------------------               --------------
 SessionManager --idle-->  SessionManager tasks
 (AsyncTask blocks)          |  HostSessionProvider / HostSession
 browser thread              |     Linjector / Winjector / Fruitjector --ptrace, helper--> payload
 Promise, Object  <------->  |     BaseDBusHostSession entries <======= D-Bus =======> AgentServer
                             |     Tcp, Fruity (usbmuxd) providers                     ScriptEngine
```

Everything in the host process but the client threads runs on one main loop: a coroutine is
suspended at each `yield`, and signals, timers and other coroutines run in between. That is where
almost all the hazards are, together with the processes at the far end, which may die at any time.

### Inventory

| Component | State it keeps | Operations | What makes it correct |
|---|---|---|---|
| `SessionManager`, `Session`, `Script` (`src/core/session-manager.vala`) | two maps of sessions, the service, each session's scripts and unowned manager pointer | obtain, close, create/load/post/unload, dispose, `agent_session_closed`; each API call blocks its thread while a task runs on the main loop | the two maps agree, one open session per process, released once and closed once, no dead session in the map, nothing null is used |
| pyfrida's `SessionManager` (`bindings/pyfrida/session-manager.vala`) | as above, a host session made when one is needed, idle sources that release it | as above, release the host session | a host session is there as long as a session needs it, and is released after the last one |
| pyfrida's extension module (`bindings/pyfrida/pyfrida.c`) | wrappers of sessions and scripts with their counts, callbacks hung on them, the GIL | attach, close, load, post, on and off; dealloc; a signal's handler | one wrapper per native, nothing freed is used, nobody waits in a circle for the GIL and the main loop |
| `HostSessionService`, `BaseDBusHostSession` (`src/core/host-session-service.vala`), Tcp provider | a list of backends; a list of entries (connection, proxy), the last port | start and stop; allocate, obtain an agent session (40 attempts), a connection closes, close | every entry's connection is watched, each agent's end is announced once, close closes them all |
| `Linjector` and `LinuxHostSession` (`src/core/linux`) | instances by id, FIFOs, the traced target, the file of the agent's library | inject, monitor, uninject, close | each instance is taken out once, after its id is known; neither the agent's memory nor its library is taken from under it; close ends |
| `Fruitjector`, `DarwinHostSession` (`src/core/darwin`) | instances, dispatch sources | as above | as above |
| The remote calls under the three injectors (`linjector-glue.c`, `winjector-helper-core.c`, `fruitjector-glue.c`) | what an instance holds: FIFO, process, task, thread, the payload's address | attach, allocate, write, execute, detach, free | a call that fails leaves neither handles nor memory nor a thread, and the process runs on as it was |
| `Winjector`, `WinjectorHelperFactory` (`src/core/windows/winjector.vala`) | two helper factories, pending obtains | inject, obtain a helper, close | one helper at a time, every waiter is answered, none survives close |
| Winjector's helper process (`winjector-helper*.{vala,c}`) | Manager, one service per architecture, the threads it created | start and stop services, inject, stop | rollback leaves no service behind, at most one agent thread per process |
| `WinIpc.Proxy` (`lib/winipc`) | the pipe, pending responses, handlers | establish, query, notify, close | answers go to their own query, at most once; one end at most blames the other |
| `AgentServer`, `ScriptEngine` (`lib/agent`) | connections, registrations, scripts | create, load, post, destroy, close; connections open and close | the agent leaves its process when its last peer has gone; no call reaches a script engine that is gone |
| Fruity client (`src/core/fruity/fruity-client.vala`) | the connection to usbmuxd, a reader, pending responses, mode | establish, listen, connect to a port, close | every query is answered or ends with its connection, no report is lost, a query is resumed only while it waits |
| Fruity backend and provider (`fruity-host-session.vala`) | provider by device id, host session entries | attach, detach, open a provider, obtain | a provider is announced exactly while its device is attached |
| `zed-server` (`src/zed-server.vala`) | connections, an idle timer, its host session | accept, connection closed, time out, close the host session | the timer runs exactly while nobody is connected, so that nobody is cut off |
| Cloud Spy plugin (`bindings/cloud-spy/*.cpp`, `cloud-spy-api-glue.c`) | instances and their roots, the logging instance, promises, two threads with the sources and calls between them | new, get value, destroy, shut down; invoke, get a property, listen; hang callbacks | each callback runs once for its outcome; nothing is freed under a thread or the script that uses it; the browser's thread never waits for ever |
| Cloud Spy root and devices (`bindings/cloud-spy/cloud-spy-root.vala`) | a list of devices, each with agent sessions and scripts by process | enumerate, attach, post, detach; providers come and go; destroy | a script the page is told of runs, one that runs is tracked, destroy leaves nothing |
| System queries, icons, property lists, resource compiler, bindings, command line | none of their own | conversions and calls | not modelled |

The sources of each part, and the reason where a part is left out, are under `components` in
`PROJECT.json`; every place where a test would hardly reach is under `hazards`.

## 2. Modules

### `SessionManager` (with `SessionRegistry`, `MCSessionManager`, `SessionManagerProofs`)

Callers are client threads; each runs one blocking call at a time. `op[c]` says at which `yield` its
task is suspended and `arg[c]` what it works on; an action is a task's run from one suspension to
the next (`ObtainSession`, `ServiceStarted`, `HostSessionCreated`, `Attached`, `SessionObtained`;
`CloseSession` ... `CloseEnds`, which `Session.close`, `dispose` and `agent_session_closed` share;
`CreateScript`, `ScriptCreated`, `UseScript`, `UnloadScript`; `Dispose`, `DisposeCloses`,
`ServiceStopped`). The maps are `byPid` and `byHandle`, a session's unowned pointer is `manager`, its agent
session `internal`, its scripts `scripts`. `AgentVanishes` is the environment: the agent dies, and a
notice is queued that `AgentSessionClosed` handles. A failed assertion or a null dereference puts
its name in `crash`, which stops the process. Clients of the code are not serialised by it, so the
model says what it assumes of them: the constant `SerialObtain` (no two overlapping obtains), and the
variable `inTurn`, chosen once, which is true in the behaviours where the clients make their calls on
sessions and scripts one at a time. What needs that says so (`inTurn => ...`).

`SessionRegistry` is what a client sees: unborn, open, closing, closed; one open session per
process; and a manager that goes (`gone`, here `finalized`) only when no session is open, since an
open one holds an unowned pointer to it. `SessionManager` implements it under the mapping
`SessionState`.

### `PySessionManager` (with `MCSessionManager`, `SessionManagerProofs`)

pyfrida's variant, which EXTENDS the core's and reuses its actions where the code is the same.
Different are the host session, which `PyObtainSession` makes when there is none and an idle source
(`idles`, `ReleaseHost`) releases when no session is left, and closing, where a session counts as
closed at once but is in the maps until the end. Between `local_provider.close ()` and
`local_provider = null` there is a yield (`releases`, `HostReleased`), so a provider that is in use may be
dropped (`dropped`); `hasty` remembers that an obtain and a release have
overlapped, and the properties say what holds as long as they have not. `MCSessionManager` checks both
managers, of which a behaviour has one (`binding`).

### `PyFrida` (with `MCPyFrida`, `SessionManagerProofs`)

The C code under Python's objects. A step is the code between two points where the GIL may change
hands; `gil` is who has it, `at` where each thread stands. A native (a session or a script; the
code is the same) is a value with a count of the references the module must drop (`nativeRefs`); a
wrapper is an address, so that the one a signal was emitted for (`emission`) can be freed, and its
address used again, before the handler gets the GIL, which is what `StillWraps` looks for. `uses` counts
the references to each callback: Python's own, those in `hung`, and those in the copy the handler
works on. A call is served by the main loop (`WaitForLoop`, `Serves`) with the GIL released. A
callback may itself call in; its thread then waits for the loop it runs on, which
`start_and_wait_for_completion` does not look for, and `LoopWaitsForItself` names that case. A callback is assumed
to be a function, as those of `frida.py` and `example.py`: freeing one runs no Python code.

### `CloudSpyPlugin` and `CloudSpyPromise` (with `OneShotPromise`, `MCCloudSpyPlugin`, `CloudSpyProofs`)

`CloudSpyPlugin` is the browser plugin with its two threads, and EXTENDS `CloudSpyPromise`, the
promise of one method call. `roots` is the table `cloud_spy_plugin_roots`, `objects` the reference
counts of the roots, `posted` the sources attached to the main context, which `Dispatch` takes by
priority. The browser's thread waits (`wait`, `completed`) in `PluginDestroy`, `GetProperty` and
`Shutdown`; what it does otherwise needs that it does not wait. `PromiseReleases` joins the two: the
promise that is freed releases its root. Of the browser it is assumed, as its API promises, that a
call made with `pluginthreadasynccall` for an instance that is gone is not run, and that the plugin is
shut down when no instance and no page is left.

An event is emitted on the main loop's thread, by an agent on a device the root has listed (`device`).
The closure uses its root without a reference, and nothing disconnects it: not `NPP_Destroy`, and not
the close of a device that was unplugged, which nobody waits for (`"stray"`). So `SignalEmitted` does
not ask whether the instance lives. Where the root is freed, what follows is undefined; the model takes
one outcome, that the main loop does no more (`loop = "wild"`), and the properties name it:
`NothingFreedInUse` says that only a stray device leads there, the liveness properties except it. One device
of each root is followed, any of them; the list and the walk of `destroy` over it are `CloudSpyRoot`'s.

The promise and the asynchronous invocation that settles it: the main loop's thread
delivers and schedules a flush on the browser's, where the script hangs callbacks, whose bodies may
hang more. `stack` holds the flushes under way: `flush_unlocked` takes the arrays, leaves empty ones, and runs what
it took without the lock. `refs` counts the references. `OneShotPromise` is the promise as a script
sees it: an outcome, once, and each callback that asked for it, once.

### `Linjector` and `LinuxHost` (with `MCLinjector`, `LinjectorProofs`)

The injector's coroutines (`tasks`), the instances map, the FIFO and its two ends, the target
process and its worker thread, and the host session's `close` loop. The ptrace glue is one action
per outcome: `Inject`, or `InjectFails` with how far it got. `ReadsFail` lets a read throw.

`LinuxHost` EXTENDS it with what owns the injector: the service that starts its backends and stops them
one after the other (`service`), the provider's host session (`session`), and the temporary file of the
agent's library (`library`), which is written with the first injection and deleted with the injector, while a worker may
have yet to open it (`loaded`). Every step of it is one of `Linjector`'s or leaves its state
alone (`HostImplementsLinjector`), so what is proved of the injector holds of both. Clients call the host
session only while the provider is announced, and nothing else starts `close`.

### `RemoteInjection` (with `InjectionProofs`)

One call after the other, how an agent gets into a process on each of the three platforms
(`platform`, chosen once). `at` is the call that comes next, `holds` what the instance records,
`mapped` and `thread` what there is of it in the process; the process itself is `alive`, `traced`
and has `regs`. Every call has its failures, and what the code does after each: `goto beach`,
`error_common`, `error_epilogue`. Where the code asserts instead (the lookup of a function in the
other process), the injector aborts, the kernel lets the
process go, and `LeftAt` says with which registers: its own, or those of a call it was made to do. On Darwin the agent's thread begins as a bare Mach
thread that turns itself into a POSIX one (`DarwinEnter`). `Linjector` and `WinjectorHelper` take a whole injection for one step; `MCWinjectorHelper` checks it
beside the latter. The
stealth mode of the Windows helper is a constant of the source that is off, and is left out.

### `WinIpcProxy` (with `AtMostOnceCall`, `MCWinIpcProxy`, `ConnectionProofs`)

A server end and a client end of a named pipe: `chan` is what is under way to an end, `pending` the
coroutines that wait for a response, `busy` the handlers at work, `emitted` and `heard` the
notifications one end has sent and the other has taken. `registered` are the handlers an end answers
with, which come and go (`Register`, `Unregister`) while queries for them are under way. Establishing
has a wait source and a timeout source that complete one operation. `AtMostOnceCall` is what a query
promises: done before it returns, and done at most once. As in the code, the server is the
injector's end and the client the helper's, which answers queries and is told to stop by a
notification.

### `DBusHostSession` (with `MCDBusHostSession`, `ConnectionProofs`)

A connection of the model stands for one `obtain_agent_session` (`AgentConns`) or one
`TcpHostSessionProvider.create` (`ServerConns`) and for the peer it talks to. Fruity's provider, which
reaches both kinds of peer through usbmuxd (`usbmuxd`), is the same code but for a step more: the port
is connected to (`PortConnected`, then `"handshaking"`) before D-Bus begins, and any of it may fail
(`Fails`). `obtain` says where the
coroutine is suspended, `attempt` counts its loop, `entries` is the list the code keeps. GDBus's
worker thread is in `link`: a connection may be `"vanished"` (its `closed` signal is queued) before
the coroutine has connected a handler, and then the signal goes to `missed`. `close` is `Close` and
`EntryClosed`, each of which runs to the next await (`WalkFrom`): it walks the list with an index while
the list may shrink, and clears it in the same step as it finds no further entry.

### `AgentServer` (with `MCAgentServer`, `AgentServerProofs`)

The agent's main loop in the target process. `NewConnection` and `ConnectionClosed` are the two
signal handlers, `OnEngine` every method that goes to `script_engine`, and the four steps of
`close_connections_and_schedule_shutdown` are `ReapDeadConnections`, `CloseActiveConnections`,
`CloseNext` and `Quit`. `exit = "aborted"` is the fatal criticism of a call on a null engine: `close`
lets go of the engine at once, and `EngineGoesWithItsLastPeer` says whom that may hit: a peer that had told
the agent to close, or came after somebody had.

### `ZedServer` (with `MCAgentServer`, `AgentServerProofs`)

`zed-server` accepts, watches and loses connections as the agent does, and EXTENDS `AgentServer` for
the peers, links and registrations. Its own are the timer that runs while nobody is connected
(`idleTimer`) and the host session it closes before its loop quits (`hostSession`).

### `CloudSpyRoot` (with `MCAgentServer`, `CloudSpyProofs`)

The root object of the browser plugin. Each of the page's method calls (`call`, `PageCalls` of them at
once) is a coroutine with its `yield`s; so are `destroy`, which walks the list of devices by index
(`walk`), and the close of a device that was unplugged (`closers`, `toClose`). `agentBy`, `mapped`
and `scriptBy` are the three tables of a device, `up` the agents that live, `ended` those whose end is
yet to be told, `runs` the scripts that run. Nothing in the code keeps calls for one process
apart: what overlapping ones do to each other is modelled, `raced` remembers it, and the
property is about behaviours in which it has not happened; `DestroyEnds` excepts only the list's own
assertion. `MCAgentServer` checks the agent, `zed-server` and the page, of which a behaviour is one (`part`).

### `FruityBackend` and `FruityControl` (with `MCFruityControl`, `FruityBackendProofs`)

usbmuxd reports devices (`reports`), the backend makes a provider of each, and `open` retries for a
minute (`attempt`). Between `Ask` and `Listen` usbmuxd reports already what is attached; a control
connection that breaks (`ConnectionLost`) leaves the backend deaf, and `start` returns even if it never
listened (`ListenFails`). `stop` walks the map of providers, and a provider whose opening fails meanwhile
changes the map (`stale`), which Gee's iterator asserts against (`crash`).

`FruityControl` EXTENDS it with the clients `start` makes: one that probes usbmuxd's version and the
control client that listens (`client`). `query` is where `enable_listen_mode` is suspended, `reader` is
`process_incoming_messages`, `answer` what usbmuxd has sent. A `ConnectionBreaks` fails the reader, the
query's write, or both: `unwritten` remembers a response that stays pending when its query has thrown,
and `misresumed` that the reader then resumes a query that does not wait for it. usbmuxd is assumed to
keep its own protocol and to answer only requests it has got in full; it need not answer. A call of
`stop` while `start` is suspended, which the code permits, is not modelled. Between the providers `stop` visits, other steps may
come in (`StopWalks`, `StopVisits`), which is more than the code allows; what passes with them
passes without. Each step of
`FruityControl` is one of `FruityBackend`'s or leaves its state alone (`ControlImplementsBackend`), so
that what is proved of the backend holds of both.

### `Winjector` (with `MCWinjector`, `WinjectorProofs`)

`inject` goes to the normal and then the elevated factory; a factory's first waiter launches a helper
in a thread, and all waiters get it. The store of files a helper needs is made by the first injection (`MakesStore`), and
is kept though an agent that cannot be copied ends the injection. `phase` follows a helper through its thread and its opening,
`place` an injection, `closing` the coroutine `close`, which drops the store though a thread may be
about to use it (`crash`): `CloseStopsHelpers` says that only then a launch fails for want of it,
and which helpers a factory's `close` may leave running. `GoesOn` is what decides that a failed
injection is tried again at the next level. A query ends only with the helper's answer: when the helper dies
or is stopped first, `WinIpc.Proxy` does not complete the response that is pending, and `inject` stays
suspended. `CallsReturn` excepts that case (`Unanswered`) and no other. A call of `inject` that begins after
`close` is not modelled.

### `WinjectorHelper` (with `MCWinjectorHelper`, `InjectionProofs`)

The helper's processes: the manager (`manager`), the services it starts through the service control
manager or by itself (`service`, `hosting`, `registered`, `handles`), their pipes (`link`), and the
queries they carry out in the targets (`place`, `agents`, `busy`). `start_services` returns after all
its calls, so each of its outcomes is one action: `StartManaged`, `FallBack`, `FallBackAfterStart`,
the two last of which end in `SpawnStandalone`. Where no process could be spawned either, the manager
waits for a service that never comes, and what it is told to stop is nothing (`StopNothing`).

`Forward` passes a query to the service of the target's architecture and does not notice when that is
gone: the proxy ignores the failure to write, and the query is never resumed. A service that dies leaves
its queries behind in the same way; one that dies between injecting and answering leaves the query
`"cut"`. `QueriesEnd` excepts these (`Unanswered`). A 64-bit process whose architecture cannot be queried is taken
for a 32-bit one (`"misled"`, `ArchOf`); it is assumed of Windows that creating a thread in it then fails.

### How the modules fit together

Each module draws its line where the code has one: a D-Bus or WinIpc connection, or a provider
signal. `SessionManager` sees of a host session what `DBusHostSession` promises (an obtain that
returns or fails, one notice of an agent's end). `DBusHostSession` takes an injection for granted and
leaves it to `Linjector` or `Winjector`; `Winjector` sees a helper as one process that answers a
query, and `WinjectorHelper` what happens inside; both rest on `WinIpcProxy` for queries. Under all injectors is `RemoteInjection`.
`AgentServer` is the peer of
`DBusHostSession`'s agent connections, `ZedServer` that of its server connections and of
`PySessionManager`'s. `PyFrida` sees a call of the manager as an answer of the main loop; `CloudSpyRoot` is
a root of `CloudSpyPlugin`'s table, whose method it sees as one invocation. `SessionRegistry`,
`OneShotPromise` and `AtMostOnceCall` are the abstract specifications; the detailed modules have them
as properties through `INSTANCE ... WITH`.

## 3. Runs

An MC module EXTENDS its specification; the constants are in the `.cfg`. Where it EXTENDS several that
share neither state nor steps, a variable of the MC module says which of them a behaviour is of, and
the MC module states the fairness of each. `CHECK_DEADLOCK FALSE`
everywhere: every part may come to its end.

| Run | Instance | Distinct states | What it shows |
|---|---|---|---|
| `session` | either manager: 2 callers, 2 processes, 2 sessions, 1 script, 1 service | 190 621 | refinement of `SessionRegistry`; with clients in turn, scripts die with their session and every call returns; pyfrida's host session serves its sessions and is released |
| `pyfrida` | 2 Python threads and the main loop's, 1 native, 2 addresses for its wrappers, 1 callback | 40 360 | counts of wrappers, natives and callbacks, no use after a free, nobody waits for ever |
| `session_two_obtains` | two obtains overlap | stops at the violation | the assertion of `_release_session` fails (section 6) |
| `plugin` | 2 instances, one of which listens to events, 1 event on its way, 2 callbacks | 355 340 | once-only callbacks, freeing of the promise and of the roots, and which device alone may find a root freed; until one does, every wait of the browser's thread ends and a settled promise is served |
| `linjector` | 2 processes, 2 injections, reads may throw, the service stops | 46 092 | instances, the agent's memory and library, `close`, every agent's end is noticed |
| `winipc` | 2 queries and 2 notifications of the server, 1 change of the client's handlers | 99 259 | answers, order of notifications, who blames whom; what was sent is answered or arrives, or the pipe is seen to break; refinement of `AtMostOnceCall` |
| `host_session` | 2 agent connections, 1 server connection, 2 attempts | 110 585 | the list of entries, announcements, every call ends |
| `host_session_closing` | obtains go on while `close` runs | stops at the violation | an assertion of `on_connection_closed` fails (section 6) |
| `agent` | one of: 3 peers and 2 scripts of an agent; 3 peers of `zed-server`; a page with 1 call, 1 local and 1 tethered device, 1 process each, 2 agents, 2 scripts | 205 225 | the engine and the shutdown of the agent, and that it leaves; that `zed-server` cuts nobody off; scripts of the page, and that `destroy` ends |
| `fruity_backend` | 2 devices, 2 providers, 3 attempts, 2 unread reports | 142 256 | the map follows the devices, announcements, `start` returns, `stop` |
| `winjector` | 2 injections, 3 helpers | 147 256 | what `close` stops, once-only injection; every call returns, but for one whose helper is gone before it has answered |
| `winjector_helper` | either 2 queries, 2 targets, 1 wait; or 3 injections into one process, call by call | 213 505 | services, one agent per target; every query ends, but for one whose service is gone before it has answered; what a failed injection leaves, when a process stays stopped, cleaning up after the agent |

Why these bounds are enough. The hazards are about two actors in an order nobody wrote a test for:
two clients, two injections, two connections, a device and its successor. A third connection
(`agent`) or injection (`winjector_helper`) or helper (`winjector`) lets something happen between the two. The
retry loops are 40, 60 and 40 times round in the code; the loop's body is the same each time, so two or three times
round show the first, a middle and the last attempt. Processes, sessions and scripts do not interact except
through the maps, where two keys are enough for a wrong one to be taken. What the bounds cut off is
listed with the CONSTANTS: `MaxAttempts`, `MaxInjections`, `MaxReports`, `MaxScripts`, `MaxWaits`, `MaxEvents`, `Listeners`,
`PageCalls`, `MaxAgents`, `MaxPageScripts`, `MaxVariables`, `MaxHung`,
`ServerQueries`, `ClientQueries`,
`ServerNotifies`, `ClientNotifies`, `ServerChanges`, `ClientChanges`. The two ends of a pipe run the same
code, so the run lets one of them call and the other answer. The page makes one call at a time: it may
still meet `destroy`, an unplugged device and the end of an agent at every yield; overlapping calls are
the case `raced` excepts. Two references to wrappers and one callback hung twice are enough in `pyfrida` for
a wrapper to be freed, another to be made at its address, and a callback to be taken off while it is called.

Every property is paired in `PROJECT.json` with a bug in one definition (a `Mutant...` operator next
to it) that makes TLC find it violated.

## 4. Fairness

Liveness is checked under weak fairness of the steps the program's own scheduling takes: a main loop
dispatches what is queued and its timers, a coroutine goes on when what it awaits is complete, a
thread goes on with what it has begun. The environment has none: clients, scripts, peers, devices
and targets may do nothing for ever, or die. Six assumptions need a word.

- `SessionManager`: a call over D-Bus to an agent returns, or fails when the agent is gone; GDBus
  promises as much with a dead connection, and a live agent's loop answers.
- `WinIpcProxy`: an asynchronous handler returns. The code's handlers do; the property excludes
  queries that wait when an end closes, since nothing resumes these. `Winjector` and
  `WinjectorHelper`, which query through it, except the same.
- `WinjectorHelper`: a process that was told to stop exits; for standalone services the code itself
  makes sure of that after 5 s.

- `FruityControl`: establishing and writing end, as GLib's do on a socket; usbmuxd need not answer.
  `StartReturns` excepts the behaviours in which from some time on a query waits, the connection stays
  up and no answer comes, and those with a query resumed by mistake; a connection that breaks in the middle of
  either client's start is no exception.
- `CloudSpyPlugin`: the browser gets to a call made of it, and a callback that has begun returns,
  although the script may read properties in between, which disables these steps again and again;
  so the two have strong fairness. The browser takes its calls in order and cannot pass one over.
- `PyFrida`: a thread that waits for the GIL finds it free again and again rather than for good, so
  taking it has strong fairness, which the interpreter's lock gives; Python code gives way in the end and a
  callback returns. No other module has strong fairness.

## 5. Proofs

The proofs are about the specifications without fairness, for every value of the constants under the
named `ASSUME`s of the modules (bounds are natural numbers, `None` and `Null` are no members of the
sets, sets of connections, threads and addresses are finite); TLC evaluates these on every run. For
each specification a proofs module defines an inductive invariant as a conjunction of named parts,
proves one lemma per action, and derives the theorems. TLC has checked each of these invariants on
small instances before it was proved.

| Module | Theorems | The inductive invariant |
|---|---|---|
| `SessionManagerProofs`, the manager | `MapsAlwaysAgree`, `ReleaseNeverAsserts`, `RegisteredSessionsStayWatched`, `ManagerNeverDangles`, `ManagerImplementsRegistry` | `IInv`: where each caller's task is suspended determines which session it holds and whether that is registered; assumes `SerialObtain`, without which `session_two_obtains` refutes the second theorem |
| | `TypeCorrect`, `ScriptsDie`, without that assumption | `ScriptInv`: a script is listed by the session that owns it, and a session that has its manager is not being closed; while clients take turns, one call at most is on a session or a script, and the snapshot of a close holds all scripts the session still has |
| pyfrida's manager | `PyTypeCorrect`, `HostIsThereForItsSessions` (assumes `SerialObtain`) | `PyIInv`: as long as no obtain and release have overlapped (`hasty`), both maps hold the same sessions, one thread obtains at a time, and a host session has its provider, which no release is about to drop |
| pyfrida's binding | `BindingTypeCorrect`, `NoDanglingWrapper` | `BindingInv`: the references to a native and to a callback are as many as there are holders of them; a thread that frees a wrapper is alone at it; a wrapper that is referred to and its native point at each other |
| `CloudSpyProofs`, the promise and the plugin | `TypeCorrect`, `CallbacksRunOnce`, `NoCallbackIsLost`, `FreedOnlyWhenUnused`, `SettledStays`, `OneShot` of the promise; `PluginUsesPromise`, which carries them over to the plugin; `PluginTypeCorrect`, `FreedInTime`, `LoggingHasALiveInstance` | `IInv`, `PluginInv`: the reference counts are the numbers of holders; a callback in an array or in a flush has not run, and is in one place only; what is attached to the main context or under way is what the browser's thread waits for, and it waits only for an instance in the table or in the script's hands; a device that is listed or closing is that of a root that lives. The flush stack may nest to any depth, which no run can show |
| the root object | `RootTypeCorrect`, `ScriptsAreTracked` | `RootInv`: as long as nothing has raced, one call at most is under way, the three tables of a device agree with each other and with the agents that live, a device has one closer, and what the walk of `destroy` has passed is closed |
| `AgentServerProofs`, the agent | `TypeCorrect`, `RegistrationsMatch`, `QuitIsClean`, `EngineServesToTheLast` | `IInv`: an open connection the agent watches is active or in the array being closed; from the last look at the active connections only late ones join |
| `zed-server` | `ZedTypeCorrect`, `IdleTimerCutsNobodyOff` | `ZedIInv`: a connection is queued or accepted and never both, and the accepted ones are those it has registered |
| `InjectionProofs`, `RemoteInjection` | `GlueTypeCorrect`, `NothingIsLeftByFailure`, `StopsAreExplained`, `AlwaysOnItsOwnRegisters`, `PayloadStays` | `GlueInv`: what an instance holds, is mapped and runs is determined by the call that comes next; the process is stopped, or runs with the registers of a call, only while one injection is between attaching and detaching, or after one has failed |
| the helper process | `TypeCorrect`, `NothingIsLeft`, `NeverTwoAgents` | `IInv`: an agent that runs, or has ended unnoticed, keeps its target busy; a managed service that was given up has been told to stop or was told too early |
| `LinjectorProofs` | `TypeCorrect`, `InstancesAreTended`, `AgentsKeepTheirMemory`, `CloseEndsProperly`, `AnnouncedAfterReturn` of `Linjector`; `HostImplementsLinjector`, which carries them over to `LinuxHost`; `HostTypeCorrect`, `LibraryLasts` | `IInv`, `HostInv`: an instance in the map has one reader or one pending idle source, and its worker, FIFO and payload are as far as that reader knows; the file is deleted only once `close` is done, the service has stopped its backend only without a host session, and a worker that may need the file is that of an instance in the map, unless its FIFO could not be read |
| `WinjectorProofs` | `TypeCorrect`, `HelpersStayKnown`, `CloseStopsThem`, `NeverInjectedTwice` | `IInv`: a helper is launched for a factory only while requests wait for it; an injection was performed only by the helper it is using, whose answer has been read, is under way or can no longer come; none that has failed was performed |
| `FruityBackendProofs` | `TypeCorrect`, `AnnouncedAreKnown`, `ControlImplementsBackend`, `ClientsCorrect` | `IInv`: a provider is known under the device it was made for; while it is open and not withdrawn it is available |
| | `MapIsUpToDate` | `MapInv`: the last unread report about a device says how the device is now, and a device that no report is about is in the map as it is, unless its opening has failed |
| `ConnectionProofs`, the pipe | `ProxyTypeCorrect`, `MessagesServedOnce`, `ProxyImplementsCall` | `ProxyInv`: a query that waits is at one place at most: its request is on its way, its handler at work, or its response on its way, which says whether it was handled; notifications on their way are in their order and after all that were heard; an end announces that it has closed once, and blames the other only if that has not blamed it |
| host sessions over D-Bus | `ListIsTheConnections` (assumes that nothing is obtained while `close` is under way, `ObtainsWhileClosing = FALSE`) | `IInv`: what is listed has been obtained and is watched; the loop of `close` reaches the size the list had only if no entry has gone before the last one was visited |
| | `HostTypeCorrect`, `EndsAreAnnouncedOnce`, without that assumption | `OverlapInv`: what has an entry or was announced has been obtained; an entry goes with the announcement |

`OneShot`, `ManagerImplementsRegistry` and `ProxyImplementsCall` are refinements: initial states map to
initial states, and each step to a step of `OneShotPromise`, of `SessionRegistry`, of `AtMostOnceCall`, or
to a stutter. The invariants of the runs alone are not inductive: `OneAgentPerTarget`, for
one, needs that a target is not taken for free while the end of its agent is undispatched,
`QuitLeavesNothingBehind` that what a shutdown leaves in `active` is late, and
`WrappersAreTheirNatives` that whoever is about to free a wrapper has found no other holder.

Where a theorem supposes something of the clients, it is what the code leaves to them, and a run
shows what happens without it: `SerialObtain` (`session_two_obtains`), `ObtainsWhileClosing = FALSE`
(`host_session_closing`).

Every invariant, every property of a single step and every refinement that a passing run checks is
also a theorem above. Proved, and therefore not repeated in the runs: the type invariants of all
modules; `OneShotPromise` and the properties of `CloudSpyPromise` and `CloudSpyPlugin` that the run
`plugin` does not list; `RunsOnItsOwnRegisters` and `PayloadOutlivesItsThread` of `RemoteInjection`;
`MapsAgree`, `RegisteredSessionsAreWatched` and `NoDanglingManager` of `SessionManager`;
`ReturnedBeforeUninjected` and `CloseEndsOnce` of `Linjector`; `RegisteredWhileServed` of `AgentServer`;
`HelpersAreKnown` of `Winjector`; `EndsAnnouncedOnce` of `DBusHostSession`.

Only model-checked: the liveness properties, since the prover has no rules for fairness and ENABLED.
They are `EveryCallReturns`, `CallsReturn`, `HostIsReleased`,
`NobodyWaitsForEver`, `EveryWaitEnds`, `SettledPromiseIsServed`, `EveryEndIsNoticed`, `QueriesEnd`,
`EndsAreCleanedUp`, `NothingSentIsLost`, `EachEndIsAnnounced`, `EveryCallEnds`, `AgentLeaves`,
`DestroyEnds`, `StartReturns` and `EverythingSettles`.

## 6. What disagrees with the source's own assertions

- `session_two_obtains`: `ObtainSessionTask` looks `session_by_pid` up before three yields and stores
  its new `Session` after them. Two overlapping calls for one process both build one; the second
  replaces the first in the map, and closing both fails `assert (session_did_exist)`
  (`src/core/session-manager.vala:40`).
- `host_session_closing`: an agent session obtained while `close` awaits another connection is cleared from
  the list with the rest, but its `closed` handler stays connected; when its agent leaves, the
  handler finds no entry and its assertion fails (`src/core/host-session-service.vala`, see
  `findings` in `PROJECT.json`).

Other runs reach states the source promises nothing about: an iterator's assertion in Fruity's
`stop`, a call on a script engine that is gone, a helper process without a context, a provider of
pyfrida's that is dropped under its host session, calls of the page that overlap, a signal for a root of the
plugin that is freed, a query whose helper is gone. The properties say where they
except these, and with what (`crash`, `hasty`, `raced`, `exit`, `loop`, `Unanswered`), so that nothing else hides behind them.

## 7. What is left, and the plan

Not modelled, and why: `components` in `PROJECT.json` has every part. In short: queries of the
operating system, conversions, generated glue and the web site have no state; the rest is scheduled:

1. An abstract injector (inject returns an id, later uninjected once) that `Linjector` and
   `RemoteInjection` implement.
2. The Darwin and Windows host sessions around their injectors, as `LinuxHost` is around `Linjector`.
3. The rest of `fruity-client.vala`: the layout of its messages and an usbmuxd that breaks its protocol,
   and the change of mode that connecting to a port makes.
4. The pure algorithms (usbmuxd's property lists, the resource compiler, basic blocks and code
   matching of the disassembly workbench) as operators, checked against a reference definition.
5. The command line client, `frida.py` and `frida-clr`, which call the session manager that is modelled.
6. Proofs: that `LinuxHost`, `ZedServer` and `PyFrida` keep what is proved of the modules they stand on
   when the models grow with 1 to 3; the abstract injector of 1 as a refinement, step by step.
