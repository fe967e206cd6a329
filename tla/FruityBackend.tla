---------------------------- MODULE FruityBackend ----------------------------
(***************************************************************************)
(* FruityHostSessionBackend and the opening of its providers               *)
(* (zed/src/core/fruity/fruity-host-session.vala): usbmuxd reports devices *)
(* that are attached and detached, each attached device gets a provider,   *)
(* whose details may take a minute to become available, and the backend    *)
(* announces providers once they are open and again when they go away.     *)
(* FruityControl has the details of how the backend talks to usbmuxd.      *)
(***************************************************************************)
EXTENDS Naturals, Sequences, FiniteSets

CONSTANTS
    Devices,        \* the ids usbmuxd gives to devices
    Providers,      \* the provider objects
    None,           \* no provider
    MaxAttempts,    \* the bound of open's retry loop, 60 in the code
    MaxReports      \* a bound on the reports of usbmuxd that are unread

ASSUME NoneIsNoProvider == None \notin Providers
ASSUME ThereAreRetries == MaxAttempts \in Nat \ {0, 1}
ASSUME MaxReportsIsNat == MaxReports \in Nat

VARIABLES
    backend,    \* "new", "probing", "asking" when usbmuxd has been asked to report,
                \* "listening", "deaf" when it could not or does no more, "closing"
                \* the control client, "walking", "awaiting", "stopped"
    version,    \* protocol_version, 0 as long as the control client is not made
    plugged,    \* the devices that are attached
    reports,    \* what usbmuxd has reported and the control client not read
    provider,   \* provider_by_device_id
    device,     \* FruityHostSessionProvider.device_id
    opening,    \* where open is: "unborn", "waiting", "open", "failed"
    attempt,    \* the i of its loop
    signals,    \* the signals emitted for each provider
    todo,       \* the providers stop has still to visit
    stale,      \* the map has changed since stop began to walk it
    late,       \* providers that were open only when the backend had forgotten
                \* them or, stopping, passed them
    evicted,    \* providers the failure of another has removed from the map
    crash       \* the assertion on Gee's iterator has failed

usbmuxd == <<plugged, reports>>
providers == <<provider, device, opening, attempt, signals, late, evicted>>
vars == <<backend, version, usbmuxd, providers, todo, stale, crash>>

Init ==
    /\ backend = "new" /\ version = 0
    /\ plugged = {} /\ reports = <<>>
    /\ provider = [d \in Devices |-> None]
    /\ device = [p \in Providers |-> None]
    /\ opening = [p \in Providers |-> "unborn"]
    /\ attempt = [p \in Providers |-> 0]
    /\ signals = [p \in Providers |-> <<>>]
    /\ todo = {} /\ stale = FALSE
    /\ late = {} /\ evicted = {}
    /\ crash = FALSE

-----------------------------------------------------------------------------
(* Pieces of the handlers.  A definition whose name starts with "Mutant" is *)
(* a bug this code does not have; it stands in for the definition after it *)
(* when the sensitivity of a property is tested.                           *)

MutantIsOpen(p) == TRUE
\* provider.is_open.
IsOpen(p) == opening[p] = "open"

MutantForgotten(d) == provider
\* provider_by_device_id.unset.
Forgotten(d) == [provider EXCEPT ![d] = None]

MutantNextAttempt(p) == (attempt[p] + 1) % MaxAttempts
\* i++.
NextAttempt(p) == attempt[p] + 1

\* i != 60 does not hold.
GivesUp(i) == i = MaxAttempts

Mapped == {provider[d] : d \in Devices} \ {None}

Reported == backend \in {"asking", "listening"}
Walking == backend \in {"walking", "awaiting"}

\* The backend will hear of p: it knows it, and is not past it on its last walk.
Expected(p) == p \in Mapped /\ (Walking => p \in todo)

-----------------------------------------------------------------------------
(* usbmuxd.                                                                *)

Attach(d) ==
    /\ d \notin plugged /\ Len(reports) < MaxReports
    /\ plugged' = plugged \cup {d}
    /\ reports' = IF Reported
                  THEN Append(reports, [type |-> "attached", id |-> d])
                  ELSE reports
    /\ UNCHANGED <<backend, version, providers, todo, stale, crash>>

Detach(d) ==
    /\ d \in plugged /\ Len(reports) < MaxReports
    /\ plugged' = plugged \ {d}
    /\ reports' = IF Reported
                  THEN Append(reports, [type |-> "detached", id |-> d])
                  ELSE reports
    /\ UNCHANGED <<backend, version, providers, todo, stale, crash>>

-----------------------------------------------------------------------------
(* Starting.                                                               *)

Start ==
    /\ backend = "new" /\ backend' = "probing"
    /\ UNCHANGED <<version, usbmuxd, providers, todo, stale, crash>>

\* create_client: the first client of protocol version 1 finds no service, or one
\* that lets it listen, or one that wants version 2.
CreateClient(v) ==
    /\ backend = "probing" /\ version = 0
    /\ version' = v
    /\ UNCHANGED <<backend, usbmuxd, providers, todo, stale, crash>>

\* usbmuxd is asked to report, and begins with what is attached already.
Ask ==
    /\ backend = "probing" /\ version # 0
    /\ backend' = "asking"
    /\ \E order \in {s \in [1..Cardinality(plugged) -> plugged] :
                         \A d \in plugged : \E n \in DOMAIN s : s[n] = d} :
           reports' = [n \in DOMAIN order |-> [type |-> "attached",
                                               id |-> order[n]]]
    /\ UNCHANGED <<version, plugged, providers, todo, stale, crash>>

\* It says that it will, and start returns.
Listen ==
    /\ backend = "asking" /\ backend' = "listening"
    /\ UNCHANGED <<version, usbmuxd, providers, todo, stale, crash>>

\* Establishing or listening fails: start returns nevertheless.
ListenFails ==
    /\ backend \in {"probing", "asking"} /\ version # 0
    /\ backend' = "deaf" /\ reports' = <<>>
    /\ UNCHANGED <<version, plugged, providers, todo, stale, crash>>

\* The control client's connection to usbmuxd breaks; the backend is not told.
ConnectionLost ==
    /\ backend = "listening" /\ backend' = "deaf"
    /\ reports' = <<>>
    /\ UNCHANGED <<version, plugged, providers, todo, stale, crash>>

-----------------------------------------------------------------------------
(* Devices come and go.                                                    *)

\* open has the details: is_open is set and open_provider announces the provider.
\* (When the first attempt succeeds that is done by an idle source, which runs
\* before the next report has been read or stop has closed the control client.)
Opened(p) ==
    /\ opening' = [opening EXCEPT ![p] = "open"]
    /\ signals' = [signals EXCEPT ![p] = Append(@, "available")]

\* device_attached: a new provider, whose opening begins, for a device that has
\* none yet.
DeviceAttached(p, succeeds) ==
    /\ backend = "listening" /\ reports # <<>>
    /\ Head(reports).type = "attached" /\ provider[Head(reports).id] = None
    /\ opening[p] = "unborn"
    /\ LET d == Head(reports).id
       IN  /\ provider' = [provider EXCEPT ![d] = p]
           /\ device' = [device EXCEPT ![p] = d]
    /\ attempt' = [attempt EXCEPT ![p] = 1]
    /\ IF succeeds
       THEN Opened(p)
       ELSE /\ opening' = [opening EXCEPT ![p] = "waiting"]
            /\ UNCHANGED signals
    /\ reports' = Tail(reports)
    /\ UNCHANGED <<backend, version, plugged, late, evicted, todo, stale, crash>>

\* device_detached: the provider is forgotten and, if it is open, announced to be
\* unavailable.
DeviceDetached ==
    /\ backend = "listening" /\ reports # <<>>
    /\ Head(reports).type = "detached" /\ provider[Head(reports).id] # None
    /\ LET d == Head(reports).id
           p == provider[d]
       IN  /\ provider' = Forgotten(d)
           /\ signals' = [signals EXCEPT ![p] =
                              IF IsOpen(p) THEN Append(@, "unavailable") ELSE @]
    /\ reports' = Tail(reports)
    /\ UNCHANGED <<backend, version, plugged, device, opening, attempt, late,
                   evicted, todo, stale, crash>>

\* A device that has a provider is attached, or one without is detached.
ReportIgnored ==
    /\ backend = "listening" /\ reports # <<>>
    /\ (Head(reports).type = "attached") <=> (provider[Head(reports).id] # None)
    /\ reports' = Tail(reports)
    /\ UNCHANGED <<backend, version, plugged, providers, todo, stale, crash>>

\* A second later open tries again and succeeds.
OpenSucceeds(p) ==
    /\ opening[p] = "waiting"
    /\ attempt' = [attempt EXCEPT ![p] = NextAttempt(p)]
    /\ Opened(p)
    /\ late' = late \cup IF Expected(p) THEN {} ELSE {p}
    /\ UNCHANGED <<backend, version, usbmuxd, provider, device, evicted, todo,
                   stale, crash>>

\* It tries again and fails: it waits for another second or, after the last
\* attempt, open_provider forgets whatever provider the device has.
OpenFails(p) ==
    /\ opening[p] = "waiting"
    /\ attempt' = [attempt EXCEPT ![p] = NextAttempt(p)]
    /\ IF GivesUp(NextAttempt(p))
       THEN /\ opening' = [opening EXCEPT ![p] = "failed"]
            /\ provider' = Forgotten(device[p])
            /\ evicted' = evicted \cup ({provider[device[p]]} \ {p, None})
            /\ stale' = (stale \/ (Walking /\ provider[device[p]] # None))
       ELSE UNCHANGED <<opening, provider, evicted, stale>>
    /\ UNCHANGED <<backend, version, usbmuxd, device, signals, late, todo, crash>>

-----------------------------------------------------------------------------
(* Stopping.                                                               *)

\* The control client stops to read, and is closed.
Stop ==
    /\ backend \in {"listening", "deaf"} /\ backend' = "closing"
    /\ reports' = <<>>
    /\ UNCHANGED <<version, plugged, providers, todo, stale, crash>>

\* foreach begins to walk the map's values.
StopWalks ==
    /\ backend = "closing" /\ backend' = "walking"
    /\ todo' = Mapped /\ stale' = FALSE
    /\ UNCHANGED <<version, usbmuxd, providers, crash>>

\* The next value, unless the map has changed since the walk began: that fails an
\* assertion of its iterator.
StopVisits(p) ==
    /\ backend = "walking" /\ p \in todo
    /\ IF stale
       THEN crash' = TRUE /\ UNCHANGED <<backend, todo, signals>>
       ELSE /\ backend' = "awaiting"
            /\ todo' = todo \ {p}
            /\ signals' = [signals EXCEPT ![p] =
                               IF IsOpen(p) THEN Append(@, "unavailable") ELSE @]
            /\ UNCHANGED crash
    /\ UNCHANGED <<version, usbmuxd, provider, device, opening, attempt, late,
                   evicted, stale>>

\* provider.close () has closed what the provider had open.
ProviderClosed ==
    /\ backend = "awaiting" /\ backend' = "walking"
    /\ UNCHANGED <<version, usbmuxd, providers, todo, stale, crash>>

\* No value is left: the map is cleared.
StopEnds ==
    /\ backend = "walking" /\ todo = {}
    /\ IF stale
       THEN crash' = TRUE /\ UNCHANGED <<backend, provider>>
       ELSE /\ backend' = "stopped"
            /\ provider' = [d \in Devices |-> None]
            /\ UNCHANGED crash
    /\ UNCHANGED <<version, usbmuxd, device, opening, attempt, signals, late,
                   evicted, todo, stale>>

-----------------------------------------------------------------------------
Starts == Start \/ Ask \/ Listen \/ ListenFails \/ \E v \in 1..2 : CreateClient(v)

Stops == Stop \/ StopWalks \/ ProviderClosed \/ StopEnds
         \/ \E p \in Providers : StopVisits(p)

Next ==
    /\ ~crash
    /\ \/ Starts \/ ConnectionLost \/ Stops \/ DeviceDetached \/ ReportIgnored
       \/ \E d \in Devices : Attach(d) \/ Detach(d)
       \/ \E p \in Providers :
              \/ OpenSucceeds(p) \/ OpenFails(p)
              \/ \E succeeds \in BOOLEAN : DeviceAttached(p, succeeds)

Spec == Init /\ [][Next]_vars

-----------------------------------------------------------------------------
(* Properties.                                                             *)

TypeOK ==
    /\ backend \in {"new", "probing", "asking", "listening", "deaf", "closing",
                    "walking", "awaiting", "stopped"}
    /\ version \in 0..2
    /\ plugged \subseteq Devices
    /\ reports \in Seq([type : {"attached", "detached"}, id : Devices])
    /\ provider \in [Devices -> Providers \cup {None}]
    /\ device \in [Providers -> Devices \cup {None}]
    /\ opening \in [Providers -> {"unborn", "waiting", "open", "failed"}]
    /\ attempt \in [Providers -> 0..MaxAttempts]
    /\ signals \in [Providers -> Seq({"available", "unavailable"})]
    /\ todo \subseteq Providers /\ stale \in BOOLEAN
    /\ late \subseteq Providers /\ evicted \subseteq Providers
    /\ crash \in BOOLEAN

Available(p) == signals[p] = <<"available">>

\* A provider is announced once, and becomes unavailable once and only when it
\* has been available, as both assertions of the harness of
\* zed/tests/test-host-session.vala demand; and while it is available the backend
\* still knows it -- unless its device was detached, or the backend stopped, while
\* it was being opened, or the failure of an earlier provider of the device has
\* removed it.
AnnouncedWhileKnown ==
    \A p \in Providers :
        /\ signals[p] \in {<<>>, <<"available">>, <<"available", "unavailable">>}
        /\ Available(p) => p \in Mapped \cup late \cup evicted
=============================================================================
