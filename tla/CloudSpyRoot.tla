----------------------------- MODULE CloudSpyRoot -----------------------------
(***************************************************************************)
(* The root object of the browser plugin: its devices and their agent      *)
(* sessions (zed/bindings/cloud-spy/cloud-spy-root.vala).                  *)
(*                                                                         *)
(* The page's method calls are coroutines on the main loop, and so are     *)
(* destroy, when the page goes, and the close of a device that is          *)
(* unplugged; an action is the code between two yields.  Nothing keeps two *)
(* of them apart, and "raced" remembers that two may have met: what they   *)
(* do to one another is modelled, but not much holds of it.                *)
(*                                                                         *)
(* Local and tethered devices are as on Mac and Windows; where the root    *)
(* makes no Fruity backend, Tethers is empty.                              *)
(***************************************************************************)
EXTENDS Naturals, Sequences, SequencesExt

CONSTANTS
    PageCalls,      \* the method calls that may be under way at once
    Locals,         \* LocalDevice objects
    Tethers,        \* devices of the Fruity backend
    Processes,      \* processes of a device
    MaxAgents,      \* a bound on the agent sessions obtained
    MaxPageScripts  \* a bound on the scripts created

ASSUME DevicesAreDistinct ==
    /\ Locals \cap Tethers = {} /\ "destroy" \notin Locals \cup Tethers
ASSUME RootBoundsAreNat == MaxAgents \in Nat /\ MaxPageScripts \in Nat

Devices == Locals \cup Tethers
Targets == Devices \X Processes

VARIABLES
    root,       \* the root: "alive", "closing" its devices, "stopping", "gone"
    devices,    \* Root.devices
    made,       \* the devices that have been made
    backends,   \* Fruity backends that are started; Root.fruity is the last
    host,       \* devices whose host_session is not null
    agentBy,    \* agent_by_pid of the devices; 0 is no agent session
    mapped,     \* agent sessions in pid_by_agent_id of their device
    scriptBy,   \* script_by_pid of the devices; 0 is no script
    home,       \* the device and process of each agent session there was
    up,         \* agent sessions that live
    ended,      \* those that died in a device's maps, with agent_session_closed yet
                \* to be emitted
    inAgent,    \* the agent session each script was created in
    runs,       \* scripts that are loaded and run
    call,       \* the page's calls
    walk,       \* destroy's place in the list of devices, and the size it had
    closers,    \* the bodies of Device.close under way, of a device each: destroy's,
                \* and those of devices that were unplugged
    toClose,    \* ... and the agent sessions they have yet to close
    raced,      \* calls overlapped each other, or the end of what they work on
    rootCrash   \* why the process died, or "no"

listVars == <<devices, made, backends>>
tableVars == <<agentBy, mapped, scriptBy>>
remoteVars == <<home, up, ended, inAgent, runs>>
closeDeviceVars == <<root, walk, closers, toClose>>
rootVars == <<listVars, host, tableVars, remoteVars, closeDeviceVars, call, raced, rootCrash>>

Bodies == {"destroy"} \cup Tethers
NoCall == [kind |-> "none", at |-> "none", of |-> <<>>, agent |-> 0, script |-> 0, old |-> 0]

RootInit ==
    /\ root = "alive" /\ devices = <<>> /\ made = {} /\ backends = 0 /\ host = {}
    /\ agentBy = [t \in Targets |-> 0] /\ mapped = {} /\ scriptBy = [t \in Targets |-> 0]
    /\ home = <<>> /\ up = {} /\ ended = {} /\ inAgent = <<>> /\ runs = {}
    /\ call = [c \in PageCalls |-> NoCall]
    /\ walk = [at |-> 0, size |-> 0]
    /\ closers = {} /\ toClose = [b \in Bodies |-> {}]
    /\ raced = FALSE /\ rootCrash = "no"

-----------------------------------------------------------------------------
(* Pieces of the handlers.  A definition whose name starts with "Mutant" is *)
(* a bug this code does not have; it stands in for the definition after it *)
(* when the sensitivity of a property is tested.                           *)

Listed == {devices[i] : i \in DOMAIN devices}
UnderWay == {c \in PageCalls : call[c] # NoCall}
Ends(c) == call' = [call EXCEPT ![c] = NoCall]

\* attach_to has called detach_from, to replace a script.
Replaces(c) == call[c].kind = "attach" /\ call[c].old # 0

\* obtain_host_session asks the provider if there is no host session, and comes
\* back a turn of the loop later if there is.
ToHost(r) == [r EXCEPT !.at = IF r.of[1] \in host THEN "host" ELSE "connect"]

MutantWithoutScript(t) == scriptBy
\* script_by_pid.unset (pid), in agent_session_closed.
WithoutScript(t) == [scriptBy EXCEPT ![t] = 0]

\* agent_by_pid.values.to_array () in Device.close.
AgentsOf(d) == {agentBy[t] : t \in {d} \X Processes} \ {0}

MutantAfter(i) == i
\* destroy's foreach goes on to the next index.
After(i) == i + 1

-----------------------------------------------------------------------------
(* Devices.                                                                *)

\* The page makes calls as long as the root lives.
PageBegins(c, r) ==
    /\ root = "alive" /\ call[c] = NoCall
    /\ call' = [call EXCEPT ![c] = r]
    /\ raced' = (raced \/ UnderWay # {})
    /\ UNCHANGED <<agentBy, mapped, remoteVars, closeDeviceVars, rootCrash>>

\* enumerate_devices when there are none: a LocalDevice is made and opened.
EnumerateDevices(c, d) ==
    /\ devices = <<>> /\ d \in Locals \ made
    /\ made' = made \cup {d}
    /\ PageBegins(c, [NoCall EXCEPT !.kind = "devices", !.at = "open", !.of = <<d>>])
    /\ UNCHANGED <<devices, backends, host, scriptBy>>

\* ... has its host session and is added, and a Fruity backend is started.
LocalOpened(c) ==
    /\ call[c].at = "open"
    /\ host' = host \cup {call[c].of[1]}
    /\ devices' = Append(devices, call[c].of[1])
    /\ backends' = IF Tethers = {} THEN 0 ELSE backends + 1
    /\ call' = [call EXCEPT ![c].at = "start"]
    /\ UNCHANGED <<made, tableVars, remoteVars, closeDeviceVars, raced, rootCrash>>

\* Fruity's provider_available.
ProviderAvailable(d) ==
    /\ backends > 0 /\ d \notin made
    /\ made' = made \cup {d} /\ devices' = Append(devices, d)
    /\ UNCHANGED <<backends, host, tableVars, remoteVars, closeDeviceVars, call, raced, rootCrash>>

\* The part of Device.close before its first yield; detach is emitted for the
\* scripts that were tracked.
BeginsClose(b, d) ==
    /\ agentBy' = [t \in Targets |-> IF t[1] = d THEN 0 ELSE agentBy[t]]
    /\ scriptBy' = [t \in Targets |-> IF t[1] = d THEN 0 ELSE scriptBy[t]]
    /\ mapped' = {a \in mapped : home[a][1] # d}
    /\ closers' = closers \cup {<<b, d>>}
    /\ toClose' = [toClose EXCEPT ![b] = AgentsOf(d)]

\* provider_unavailable closes the device, without waiting for it, and takes the one
\* it has found out of the list.
ProviderUnavailable(d) ==
    /\ backends > 0
    /\ \E n \in DOMAIN devices :
           /\ devices[n] = d /\ \A m \in 1..n - 1 : devices[m] # d
           /\ devices' = RemoveAt(devices, n)
    /\ BeginsClose(d, d)
    /\ raced' = (raced \/ root = "closing" \/ \E c \in UnderWay : call[c].of[1] = d)
    /\ UNCHANGED <<made, backends, host, remoteVars, root, walk, call, rootCrash>>

\* agent.close () returns or throws: the agent is gone.
AgentClosed(b, a) ==
    /\ a \in toClose[b]
    /\ toClose' = [toClose EXCEPT ![b] = @ \ {a}]
    /\ up' = up \ {a} /\ runs' = {x \in runs : inAgent[x] # a}
    /\ UNCHANGED <<listVars, host, tableVars, home, ended, inAgent, root, walk, closers, call,
                   raced, rootCrash>>

\* The end of Device.close (and of a LocalDevice's provider); destroy goes on.
DeviceClosed(b, d) ==
    /\ <<b, d>> \in closers /\ toClose[b] = {}
    /\ closers' = closers \ {<<b, d>>} /\ host' = host \ {d}
    /\ walk' = IF b = "destroy" THEN [walk EXCEPT !.at = After(@)] ELSE walk
    /\ UNCHANGED <<listVars, tableVars, remoteVars, root, toClose, call, raced, rootCrash>>

\* destroy: the foreach remembers the size of the list.
Destroy ==
    /\ root = "alive" /\ root' = "closing"
    /\ walk' = [at |-> 1, size |-> Len(devices)]
    /\ raced' = (raced \/ UnderWay # {})
    /\ UNCHANGED <<listVars, host, tableVars, remoteVars, closers, toClose, call, rootCrash>>

\* It takes the next device, which the list asserts there is, or clears the list
\* and stops the Fruity backend.
DestroyGoesOn ==
    /\ root = "closing" /\ \A d \in Devices : <<"destroy", d>> \notin closers
    /\ IF walk.at > walk.size
       THEN /\ root' = "stopping" /\ devices' = <<>>
            /\ UNCHANGED <<tableVars, closers, toClose, rootCrash>>
       ELSE IF walk.at > Len(devices)
       THEN /\ rootCrash' = "assert_index"
            /\ UNCHANGED <<root, devices, tableVars, closers, toClose>>
       ELSE /\ BeginsClose("destroy", devices[walk.at])
            /\ UNCHANGED <<root, devices, rootCrash>>
    /\ UNCHANGED <<made, backends, host, remoteVars, walk, call, raced>>

Destroyed ==
    /\ root = "stopping" /\ root' = "gone"
    /\ backends' = IF backends > 0 THEN backends - 1 ELSE 0
    /\ UNCHANGED <<devices, made, host, tableVars, remoteVars, walk, closers, toClose, call,
                   raced, rootCrash>>

-----------------------------------------------------------------------------
(* What the page asks of a device.                                         *)

\* enumerate_processes, attach_to, post_message and detach_from, of a device that
\* is listed; the two last throw at once if no script is tracked, and detach_from
\* tracks it no more.
PageCalled(c, t) == \E kind \in {"processes", "attach", "post", "detach"} :
    /\ t[1] \in Listed
    /\ kind \in {"post", "detach"} => scriptBy[t] # 0
    /\ LET old == IF kind = "detach" THEN scriptBy[t] ELSE 0 IN
       PageBegins(c, ToHost([NoCall EXCEPT !.kind = kind, !.of = t, !.old = old]))
    /\ scriptBy' = IF kind = "detach" THEN [scriptBy EXCEPT ![t] = 0] ELSE scriptBy
    /\ UNCHANGED <<listVars, host>>

\* obtain_agent_session has returned agent a: create_script or destroy_script is
\* called.  What remains of post_message is a call that changes nothing here.
UsesAgent(c, a) ==
    LET r == call[c]
        at == IF r.old # 0 THEN "destroy" ELSE "create"
    IN  call' = [call EXCEPT ![c] = IF r.kind = "post" THEN NoCall
                                    ELSE [r EXCEPT !.agent = a, !.at = at]]

\* There is a host session, which can be asked for its processes;
\* obtain_agent_session looks for the agent, and works on the field, which may be
\* null again, if there is none.
HostSessionObtained(c) ==
    LET r == call[c] IN
    /\ r.at \in {"host", "connect"}
    /\ host' = IF r.at = "connect" THEN host \cup {r.of[1]} ELSE host
    /\ IF r.kind # "processes" /\ agentBy[r.of] = 0 /\ r.of[1] \notin host'
       THEN rootCrash' = "null_host_session" /\ UNCHANGED call
       ELSE /\ IF r.kind = "processes" THEN Ends(c)
               ELSE IF agentBy[r.of] = 0 THEN call' = [call EXCEPT ![c].at = "inject"]
               ELSE UsesAgent(c, agentBy[r.of])
            /\ UNCHANGED rootCrash
    /\ UNCHANGED <<listVars, tableVars, remoteVars, closeDeviceVars, raced>>

\* attach_to and obtain_agent_session return.  The agent session is put into the
\* maps, over what they hold by now.
AgentSessionObtained(c) ==
    LET a == Len(home) + 1 IN
    /\ call[c].at = "inject" /\ a <= MaxAgents
    /\ home' = Append(home, call[c].of)
    /\ up' = up \cup {a} /\ mapped' = mapped \cup {a}
    /\ agentBy' = [agentBy EXCEPT ![call[c].of] = a]
    /\ UsesAgent(c, a)
    /\ UNCHANGED <<listVars, host, scriptBy, ended, inAgent, runs, closeDeviceVars, 
                   raced, rootCrash>>

\* create_script and load_script return.  attach_to tracks the script; one that is
\* tracked already is detached from first.
ScriptLoaded(c) ==
    LET r == call[c]
        x == Len(inAgent) + 1
        old == scriptBy[r.of]
    IN
    /\ r.at = "create" /\ r.agent \in up /\ x <= MaxPageScripts
    /\ inAgent' = Append(inAgent, r.agent) /\ runs' = runs \cup {x}
    /\ scriptBy' = [scriptBy EXCEPT ![r.of] = IF old = 0 THEN x ELSE 0]
    /\ IF old = 0 THEN Ends(c)
       ELSE call' = [call EXCEPT ![c] = ToHost([r EXCEPT !.script = x, !.old = old])]
    /\ UNCHANGED <<listVars, host, agentBy, mapped, home, up, ended, closeDeviceVars, 
                   raced, rootCrash>>

\* The call returns; attach_to does once it has replaced a script, whatever came
\* of the old one.
Finishes(c) ==
    /\ scriptBy' = IF Replaces(c) THEN [scriptBy EXCEPT ![call[c].of] = call[c].script]
                   ELSE scriptBy
    /\ Ends(c)
    /\ UNCHANGED <<listVars, host, agentBy, mapped, home, up, ended, inAgent, closeDeviceVars,
                   raced, rootCrash>>

RemoteReturns(c) ==
    /\ call[c].at \in {"start", "destroy"}
    /\ call[c].at = "destroy" => call[c].agent \in up
    /\ runs' = {x \in runs : x # call[c].old \/ inAgent[x] # call[c].agent}
    /\ Finishes(c)

\* Any of it throws: the agent or the host session is gone, or refuses.  Destroying
\* a script does not fail in an agent that lives.
CallFails(c) ==
    /\ call[c].at \in {"open", "connect", "inject", "create", "destroy"}
    /\ call[c].at = "destroy" => call[c].agent \notin up
    /\ UNCHANGED runs
    /\ Finishes(c)

-----------------------------------------------------------------------------
(* Agents.                                                                 *)

\* An agent vanishes; one that is being closed anyway is AgentClosed's.
AgentDies(a) ==
    /\ a \in up \ UNION {toClose[b] : b \in Bodies}
    /\ up' = up \ {a} /\ ended' = ended \cup ({a} \cap mapped)
    /\ runs' = {x \in runs : inAgent[x] # a}
    /\ raced' = (raced \/ \E c \in UnderWay : Replaces(c) /\ inAgent[call[c].script] = a)
    /\ UNCHANGED <<listVars, host, tableVars, home, inAgent, closeDeviceVars, call, rootCrash>>

\* The provider's agent_session_closed: detach is emitted if a script was tracked.
AgentSessionGone(a) ==
    /\ a \in ended /\ ended' = ended \ {a}
    /\ mapped' = mapped \ {a}
    /\ IF a \in mapped
       THEN /\ agentBy' = [agentBy EXCEPT ![home[a]] = 0]
            /\ scriptBy' = WithoutScript(home[a])
       ELSE UNCHANGED <<agentBy, scriptBy>>
    /\ UNCHANGED <<listVars, host, home, up, inAgent, runs, closeDeviceVars, call, 
                   raced, rootCrash>>

-----------------------------------------------------------------------------
RootCallProceeds(c) ==
    \/ LocalOpened(c) \/ HostSessionObtained(c) \/ AgentSessionObtained(c)
    \/ ScriptLoaded(c) \/ RemoteReturns(c) \/ CallFails(c)

\* destroy, and the ends of the devices it does or does not wait for.
DestroyProceeds ==
    \/ DestroyGoesOn \/ Destroyed
    \/ \E b \in Bodies : \/ \E a \in 1..MaxAgents : AgentClosed(b, a)
                         \/ \E d \in Devices : DeviceClosed(b, d)

RootNext ==
    /\ rootCrash = "no"
    /\ \/ \E c \in PageCalls :
              \/ \E d \in Devices : EnumerateDevices(c, d)
              \/ \E t \in Targets : PageCalled(c, t)
              \/ RootCallProceeds(c)
       \/ \E d \in Tethers : ProviderAvailable(d) \/ ProviderUnavailable(d)
       \/ Destroy \/ DestroyProceeds
       \/ \E a \in 1..MaxAgents : AgentDies(a) \/ AgentSessionGone(a)

RootSpec == RootInit /\ [][RootNext]_rootVars

-----------------------------------------------------------------------------
(* Properties.                                                             *)

RootOK ==
    /\ root \in {"alive", "closing", "stopping", "gone"}
    /\ devices \in Seq(Devices) /\ made \subseteq Devices /\ backends \in Nat
    /\ host \subseteq Devices
    /\ agentBy \in [Targets -> 0..MaxAgents] /\ scriptBy \in [Targets -> 0..MaxPageScripts]
    /\ mapped \cup up \cup ended \subseteq DOMAIN home /\ home \in Seq(Targets)
    /\ runs \subseteq DOMAIN inAgent /\ inAgent \in Seq(1..MaxAgents)
    /\ DOMAIN call = PageCalls
    /\ walk \in [at : Nat, size : Nat]
    /\ closers \subseteq Bodies \X Devices /\ toClose \in [Bodies -> SUBSET (1..MaxAgents)]
    /\ raced \in BOOLEAN /\ rootCrash \in {"no", "assert_index", "null_host_session"}

\* As long as calls overlap neither each other nor the end of what they work on:
\* every script the page is told it is attached to runs, or the end of its agent
\* will be announced and detach emitted; and every script that runs is tracked, so
\* that the page can detach from it, or is being replaced, detached or closed.  And
\* when the root is gone so are its agents, except those of an unplugged device that
\* are still being closed, and no host session is held.
TrackedScriptsRun ==
    ~raced =>
        /\ rootCrash = "no"
        /\ \A t \in Targets :
               LET x == scriptBy[t] IN
               x # 0 => /\ inAgent[x] \in mapped /\ home[inAgent[x]] = t
                        /\ x \in runs \/ inAgent[x] \in ended
        /\ \A x \in runs :
               \/ \E t \in Targets : scriptBy[t] = x
               \/ \E c \in PageCalls : x \in {call[c].script, call[c].old}
               \/ \E b \in Bodies : inAgent[x] \in toClose[b]
        /\ root = "gone" =>
               /\ up \subseteq UNION {toClose[b] : b \in Tethers}
               /\ host \subseteq {d \in Tethers : <<d, d>> \in closers}

\* destroy ends, whatever is attached, plugged in or unplugged meanwhile, unless the
\* list's assertion fails under it; what is under way then need not come to an end.
DestroyEnds == root = "closing" ~> root = "gone" \/ rootCrash # "no"
=============================================================================
