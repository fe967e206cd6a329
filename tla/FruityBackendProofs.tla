-------------------------- MODULE FruityBackendProofs --------------------------
(***************************************************************************)
(* Proofs about FruityBackend for any devices and providers: providers are *)
(* announced once, and stay known to the backend while they are available; *)
(* and the backend's map follows what is plugged in.                       *)
(***************************************************************************)
EXTENDS FruityControl, FiniteSetTheorems, SequenceTheorems, TLAPS

(* What a provider has had announced.                                      *)

Silent == <<>>
Announced == <<"available">>
Withdrawn == <<"available", "unavailable">>

(* The strengthening that is inductive.                                    *)

Born(p) == opening[p] # "unborn"

\* The map has p under the id of its device.
Known(p) == Born(p) /\ provider[device[p]] = p

\* A provider is announced when its opening has succeeded, not before; the backend
\* maps devices to providers of theirs.
ProvidersFit ==
    /\ IsFiniteSet(plugged)
    /\ signals \in [Providers -> {Silent, Announced, Withdrawn}]
    /\ \A p \in Providers :
           /\ opening[p] # "open" <=> signals[p] = Silent
           /\ opening[p] = "waiting" => attempt[p] < MaxAttempts
           /\ Born(p) => device[p] \in Devices
    /\ \A d \in Devices : provider[d] # None =>
           device[provider[d]] = d /\ Born(provider[d])

\* A provider that is open and has not been visited by stop is available.
KnownAreAvailable ==
    \A p \in Providers :
        /\ ~Walking /\ backend # "stopped" /\ Known(p) /\ IsOpen(p) =>
               signals[p] = Announced
        /\ Walking /\ p \in todo /\ IsOpen(p) => signals[p] = Announced

\* The reasons why a provider that is available may not be known.
AvailableAreKnown ==
    \A p \in Providers :
        signals[p] = Announced =>
            /\ Known(p) \/ p \in late \cup evicted
            /\ Walking => p \in todo \cup late \cup evicted

Fits == ProvidersFit /\ KnownAreAvailable /\ AvailableAreKnown

IInv == TypeOK /\ Fits

-----------------------------------------------------------------------------
USE NoneIsNoProvider, ThereAreRetries, MaxReportsIsNat

\* Two sequences of two elements are the same if the elements are.
LEMMA PairsEqual ==
  ASSUME NEW T, NEW s \in Seq(T), NEW t \in Seq(T), Len(s) = 2, Len(t) = 2,
         s[1] = t[1], s[2] = t[2]
  PROVE  s = t
<1>1. \A i \in 1..Len(s) : s[i] = t[i]
  OBVIOUS
<1>2. QED
  BY <1>1, SeqEqual

\* A function on the first numbers is a sequence.
LEMMA SequencesAreFunctions ==
  ASSUME NEW T, NEW n \in Nat, NEW f \in [1..n -> T]
  PROVE  f \in Seq(T)
OBVIOUS

\* What announcing and withdrawing a provider make of its signals.
LEMMA OneSignalMore ==
  /\ Append(Silent, "available") = Announced
  /\ Append(Announced, "unavailable") = Withdrawn
  /\ Silent # Announced /\ Silent # Withdrawn /\ Announced # Withdrawn
<1> DEFINE T == {"available", "unavailable"}
<1>1. Append(Silent, "available") = Announced
  BY SMT DEF Silent, Announced
<1>2. Append(Announced, "unavailable") = Withdrawn
  <2> DEFINE s == Append(<<"available">>, "unavailable")
             t == <<"available", "unavailable">>
  <2>1. <<"available">> \in Seq(T)
    OBVIOUS
  <2>2. s \in Seq(T) /\ t \in Seq(T)
    BY <2>1, AppendProperties
  <2>3. Len(s) = 2
    BY <2>1, AppendProperties
  <2>4. Len(t) = 2
    OBVIOUS
  <2>5. s[1] = "available" /\ s[2] = "unavailable"
    BY <2>1, AppendProperties
  <2>6. t[1] = "available" /\ t[2] = "unavailable"
    OBVIOUS
  <2>7. s[1] = t[1] /\ s[2] = t[2]
    BY <2>5, <2>6
  <2>8. s = t
    BY <2>2, <2>3, <2>4, <2>7, PairsEqual, Zenon
  <2>9. QED
    BY <2>8 DEF Announced, Withdrawn
<1>3. Silent # Announced
  BY SMT DEF Silent, Announced
<1>4. Silent # Withdrawn
  BY SMT DEF Silent, Withdrawn
<1>5. Announced # Withdrawn
  BY SMT DEF Announced, Withdrawn
<1>6. QED
  BY <1>1, <1>2, <1>3, <1>4, <1>5

\* These are sequences of signals.
LEMMA SignalsAreSequences ==
  {Silent, Announced, Withdrawn} \subseteq Seq({"available", "unavailable"})
BY DEF Silent, Announced, Withdrawn

\* Looking for a provider in the map, and under its device.
LEMMA MappedAreKnown ==
  ASSUME TypeOK, ProvidersFit, NEW p \in Providers
  PROVE  p \in Mapped <=> Known(p)
<1>1. ASSUME p \in Mapped PROVE Known(p)
  BY <1>1 DEF Mapped, TypeOK, ProvidersFit, Known, Born
<1>2. ASSUME Known(p) PROVE p \in Mapped
  BY <1>2 DEF Mapped, TypeOK, ProvidersFit, Known, Born
<1>3. QED
  BY <1>1, <1>2

\* Steps that are not about providers.
LEMMA QuietKeeps ==
  ASSUME Fits, IsFiniteSet(plugged)', UNCHANGED <<providers, todo>>,
         Walking' <=> Walking, backend' = "stopped" <=> backend = "stopped"
  PROVE  Fits'
BY DEF Fits, ProvidersFit, KnownAreAvailable, AvailableAreKnown, Known, Born,
       IsOpen, providers

-----------------------------------------------------------------------------
(* Each action keeps IInv.                                                 *)

LEMMA AttachKeeps ==
  ASSUME IInv, NEW d \in Devices, Attach(d)
  PROVE  IInv'
<1> USE DEF IInv, Attach
<1>1. reports' \in Seq([type : {"attached", "detached"}, id : Devices])
  BY AppendProperties DEF TypeOK
<1>2. TypeOK'
  BY <1>1 DEF TypeOK, providers
<1>3. IsFiniteSet(plugged)'
  BY FS_AddElement DEF Fits, ProvidersFit
<1>4. QED
  BY <1>2, <1>3, QuietKeeps DEF Walking

LEMMA DetachKeeps ==
  ASSUME IInv, NEW d \in Devices, Detach(d)
  PROVE  IInv'
<1> USE DEF IInv, Detach
<1>1. reports' \in Seq([type : {"attached", "detached"}, id : Devices])
  BY AppendProperties DEF TypeOK
<1>2. TypeOK'
  BY <1>1 DEF TypeOK, providers
<1>3. IsFiniteSet(plugged)'
  BY FS_RemoveElement DEF Fits, ProvidersFit
<1>4. QED
  BY <1>2, <1>3, QuietKeeps DEF Walking

\* Becoming deaf drops the reports that are unread.
LEMMA DeafKeeps ==
  ASSUME IInv, ~Walking, backend # "stopped", backend' = "deaf", reports' = <<>>,
         UNCHANGED <<version, plugged, providers, todo, stale, crash>>
  PROVE  IInv'
<1>1. TypeOK'
  BY DEF IInv, TypeOK, providers
<1>2. QED
  BY <1>1, QuietKeeps DEF IInv, Fits, ProvidersFit, Walking

LEMMA StartsKeep ==
  ASSUME IInv, Starts
  PROVE  IInv'
<1>1. CASE Start
  BY <1>1, QuietKeeps
     DEF Start, IInv, Fits, ProvidersFit, TypeOK, Walking, usbmuxd, providers
<1>2. CASE \E v \in 1..2 : CreateClient(v)
  BY <1>2, QuietKeeps
     DEF CreateClient, IInv, Fits, ProvidersFit, TypeOK, Walking, usbmuxd, providers
<1>3. CASE Ask
  <2> USE <1>3 DEF IInv
  <2>1. Cardinality(plugged) \in Nat
    BY FS_CardinalityType DEF Fits, ProvidersFit
  <2>2. PICK order \in [1..Cardinality(plugged) -> plugged] :
            reports' = [n \in DOMAIN order |-> [type |-> "attached",
                                                id |-> order[n]]]
    BY DEF Ask
  <2>3. reports' \in
            [1..Cardinality(plugged) ->
                [type : {"attached", "detached"}, id : Devices]]
    BY <2>2 DEF TypeOK
  <2>4. reports' \in Seq([type : {"attached", "detached"}, id : Devices])
    BY <2>1, <2>3, SequencesAreFunctions
  <2>5. TypeOK'
    <3>1. /\ backend' = "asking"
          /\ UNCHANGED <<version, plugged, providers, todo, stale, crash>>
      BY DEF Ask
    <3>2. QED
      BY <2>4, <3>1 DEF TypeOK, providers
  <2>6. QED
    BY <2>5, QuietKeeps DEF Ask, Fits, ProvidersFit, Walking
<1>4. CASE Listen
  BY <1>4, QuietKeeps
     DEF Listen, IInv, Fits, ProvidersFit, TypeOK, Walking, usbmuxd, providers
<1>5. CASE ListenFails
  BY <1>5, DeafKeeps DEF ListenFails, IInv, TypeOK, Walking
<1>6. QED
  BY <1>1, <1>2, <1>3, <1>4, <1>5 DEF Starts

\* The first report, and what is left of the reports without it.
LEMMA ReadingAReport ==
  ASSUME TypeOK, reports # <<>>
  PROVE  /\ Head(reports).id \in Devices
         /\ Tail(reports) \in Seq([type : {"attached", "detached"}, id : Devices])
<1>1. reports \in Seq([type : {"attached", "detached"}, id : Devices])
  BY DEF TypeOK
<1>2. Head(reports) \in [type : {"attached", "detached"}, id : Devices]
  BY <1>1, HeadTailProperties
<1>3. Tail(reports) \in Seq([type : {"attached", "detached"}, id : Devices])
  BY <1>1, HeadTailProperties
<1>4. QED
  BY <1>2, <1>3

LEMMA ReportIgnoredKeeps ==
  ASSUME IInv, ReportIgnored
  PROVE  IInv'
<1>1. TypeOK'
  BY ReadingAReport DEF IInv, ReportIgnored, TypeOK, providers
<1>2. QED
  BY <1>1, QuietKeeps DEF ReportIgnored, IInv, Fits, ProvidersFit, Walking

LEMMA DeviceAttachedKeeps ==
  ASSUME IInv, NEW p \in Providers, NEW succeeds \in BOOLEAN,
         DeviceAttached(p, succeeds)
  PROVE  IInv'
<1> DEFINE d == Head(reports).id
<1>1. d \in Devices
  BY ReadingAReport DEF IInv, DeviceAttached
<1>2. /\ provider[d] = None /\ opening[p] = "unborn" /\ backend = "listening"
      /\ provider' = [provider EXCEPT ![d] = p]
      /\ device' = [device EXCEPT ![p] = d]
      /\ attempt' = [attempt EXCEPT ![p] = 1]
      /\ UNCHANGED <<backend, plugged, late, evicted, todo>>
  BY DEF DeviceAttached
<1>4. reports' \in Seq([type : {"attached", "detached"}, id : Devices])
  BY ReadingAReport DEF IInv, DeviceAttached
<1> HIDE DEF d
<1>5. signals[p] = Silent
  BY <1>2 DEF IInv, Fits, ProvidersFit, TypeOK
<1>3. \E o \in {"open", "waiting"} :
          /\ opening' = [opening EXCEPT ![p] = o]
          /\ signals' = [signals EXCEPT ![p] =
                             IF o = "open" THEN Announced ELSE Silent]
  BY <1>5, OneSignalMore DEF DeviceAttached, Opened, IInv, Fits, ProvidersFit
<1>6. ProvidersFit'
  BY <1>1, <1>2, <1>3, <1>5, OneSignalMore
     DEF IInv, TypeOK, Fits, ProvidersFit, Born
<1>7. TypeOK'
  <2>1. signals' \in [Providers -> Seq({"available", "unavailable"})]
    BY <1>6, SignalsAreSequences DEF ProvidersFit
  <2>2. UNCHANGED <<version, stale, crash>>
    BY DEF DeviceAttached
  <2>3. QED
    BY <1>1, <1>2, <1>3, <1>4, <2>1, <2>2 DEF IInv, TypeOK
<1>8. KnownAreAvailable'
  BY <1>1, <1>2, <1>3, <1>5, OneSignalMore
     DEF IInv, TypeOK, Fits, ProvidersFit, KnownAreAvailable, Known, Born, IsOpen,
         Walking
<1>9. AvailableAreKnown'
  BY <1>1, <1>2, <1>3, <1>5, OneSignalMore
     DEF IInv, TypeOK, Fits, ProvidersFit, AvailableAreKnown, Known, Born, Walking
<1>10. QED
  BY <1>6, <1>7, <1>8, <1>9 DEF IInv, Fits

LEMMA DeviceDetachedKeeps ==
  ASSUME IInv, DeviceDetached
  PROVE  IInv'
<1> DEFINE d == Head(reports).id  p == provider[d]
<1>1. d \in Devices
  BY ReadingAReport DEF IInv, DeviceDetached
<1>2. /\ p # None /\ backend = "listening"
      /\ provider' = [provider EXCEPT ![d] = None]
      /\ signals' = [signals EXCEPT ![p] =
                         IF IsOpen(p) THEN Append(@, "unavailable") ELSE @]
      /\ UNCHANGED <<backend, plugged, device, opening, attempt, late, evicted,
                     todo>>
  BY DEF DeviceDetached, Forgotten
<1>3. reports' \in Seq([type : {"attached", "detached"}, id : Devices])
  BY ReadingAReport DEF IInv, DeviceDetached
<1>4. p \in Providers /\ device[p] = d /\ Born(p)
  BY <1>1, <1>2 DEF IInv, TypeOK, Fits, ProvidersFit
<1>5. signals[p] = IF IsOpen(p) THEN Announced ELSE Silent
  BY <1>2, <1>4
     DEF IInv, Fits, ProvidersFit, KnownAreAvailable, Known, IsOpen, Walking
<1>6. signals' = [signals EXCEPT ![p] = IF IsOpen(p) THEN Withdrawn ELSE Silent]
  BY <1>2, <1>4, <1>5, OneSignalMore DEF IInv, Fits, ProvidersFit
<1>7. provider[d] = p
  OBVIOUS
<1> HIDE DEF d, p
<1>8. ProvidersFit'
  BY <1>1, <1>2, <1>4, <1>5, <1>6, <1>7, OneSignalMore
     DEF IInv, TypeOK, Fits, ProvidersFit, Born, IsOpen
<1>9. TypeOK'
  <2>1. signals' \in [Providers -> Seq({"available", "unavailable"})]
    BY <1>8, SignalsAreSequences DEF ProvidersFit
  <2>2. UNCHANGED <<version, stale, crash>>
    BY DEF DeviceDetached
  <2>3. QED
    BY <1>1, <1>2, <1>3, <2>1, <2>2 DEF IInv, TypeOK
<1>10. KnownAreAvailable'
  BY <1>1, <1>2, <1>4, <1>6, <1>7
     DEF IInv, TypeOK, Fits, ProvidersFit, KnownAreAvailable, Known, Born, IsOpen,
         Walking
<1>11. AvailableAreKnown'
  BY <1>1, <1>2, <1>4, <1>5, <1>6, <1>7, OneSignalMore
     DEF IInv, TypeOK, Fits, ProvidersFit, AvailableAreKnown, Known, Born, IsOpen,
         Walking
<1>12. QED
  BY <1>8, <1>9, <1>10, <1>11 DEF IInv, Fits

LEMMA OpenSucceedsKeeps ==
  ASSUME IInv, NEW p \in Providers, OpenSucceeds(p)
  PROVE  IInv'
<1> USE DEF IInv, OpenSucceeds, Opened
<1>1. signals[p] = Silent /\ signals' = [signals EXCEPT ![p] = Announced]
  BY OneSignalMore DEF Fits, ProvidersFit
<1>2. Expected(p) => Known(p) /\ (Walking => p \in todo)
  BY MappedAreKnown DEF Expected, Fits
<1>3. ProvidersFit'
  BY <1>1, OneSignalMore
     DEF TypeOK, Fits, ProvidersFit, Born, usbmuxd, NextAttempt
<1>4. attempt' \in [Providers -> 0..MaxAttempts]
  BY DEF TypeOK, Fits, ProvidersFit, NextAttempt
<1>5. TypeOK'
  <2>1. signals' \in [Providers -> Seq({"available", "unavailable"})]
    BY <1>3, SignalsAreSequences DEF ProvidersFit
  <2>2. QED
    BY <1>4, <2>1 DEF TypeOK, usbmuxd
<1>6. KnownAreAvailable'
  BY <1>1 DEF TypeOK, Fits, ProvidersFit, KnownAreAvailable, Known, Born, IsOpen,
              Walking
<1>7. AvailableAreKnown'
  BY <1>1, <1>2 DEF TypeOK, Fits, ProvidersFit, AvailableAreKnown, Known, Born,
                    Walking
<1>8. QED
  BY <1>3, <1>5, <1>6, <1>7 DEF Fits

LEMMA OpenFailsKeeps ==
  ASSUME IInv, NEW p \in Providers, OpenFails(p)
  PROVE  IInv'
<1> DEFINE q == provider[device[p]]
<1>1. device[p] \in Devices /\ signals[p] = Silent /\ Born(p)
  BY OneSignalMore DEF IInv, OpenFails, Fits, ProvidersFit, Born
<1>2. attempt' = [attempt EXCEPT ![p] = @ + 1] /\ attempt[p] + 1 \in 0..MaxAttempts
  BY DEF IInv, TypeOK, OpenFails, NextAttempt, Fits, ProvidersFit
<1>3. UNCHANGED <<backend, version, usbmuxd, device, signals, late, todo, crash>>
  BY DEF OpenFails
<1>4. CASE attempt[p] + 1 # MaxAttempts
  <2>1. UNCHANGED <<opening, provider, evicted, stale>>
    BY <1>4 DEF OpenFails, NextAttempt, GivesUp
  <2>2. ProvidersFit'
    BY <1>1, <1>2, <1>3, <1>4, <2>1
       DEF IInv, TypeOK, Fits, ProvidersFit, Born, usbmuxd
  <2>3. TypeOK'
    BY <1>2, <1>3, <2>1 DEF IInv, TypeOK, usbmuxd
  <2>4. KnownAreAvailable' /\ AvailableAreKnown'
    BY <1>3, <2>1 DEF IInv, Fits, KnownAreAvailable, AvailableAreKnown, Known,
                      Born, IsOpen, Walking
  <2>5. QED
    BY <2>2, <2>3, <2>4 DEF IInv, Fits
<1>5. CASE attempt[p] + 1 = MaxAttempts
  <2>1. /\ opening' = [opening EXCEPT ![p] = "failed"]
        /\ provider' = [provider EXCEPT ![device[p]] = None]
        /\ evicted' = evicted \cup ({q} \ {p, None})
        /\ stale' \in BOOLEAN
    BY <1>5 DEF OpenFails, NextAttempt, GivesUp, Forgotten, IInv, TypeOK
  <2>2. q \in Providers \cup {None}
    BY <1>1 DEF IInv, TypeOK
  <2>3. opening[p] = "waiting"
    BY DEF OpenFails
  <2>4. ProvidersFit'
    BY <1>1, <1>2, <1>3, <2>1, <2>3
       DEF IInv, TypeOK, Fits, ProvidersFit, Born, usbmuxd
  <2>5. TypeOK'
    BY <1>1, <1>2, <1>3, <2>1, <2>2 DEF IInv, TypeOK, usbmuxd
  <2>6. KnownAreAvailable'
    BY <1>1, <1>3, <2>1, <2>3
       DEF IInv, TypeOK, Fits, ProvidersFit, KnownAreAvailable, Known, Born,
           IsOpen, Walking
  <2>7. AvailableAreKnown'
    BY <1>1, <1>3, <2>1, <2>3, OneSignalMore
       DEF IInv, TypeOK, Fits, ProvidersFit, AvailableAreKnown, Known, Born,
           Walking
  <2>8. QED
    BY <2>4, <2>5, <2>6, <2>7 DEF IInv, Fits
<1>6. QED
  BY <1>4, <1>5

LEMMA ConnectionLostKeeps ==
  ASSUME IInv, ConnectionLost
  PROVE  IInv'
BY DeafKeeps DEF ConnectionLost, Walking

LEMMA StopKeeps ==
  ASSUME IInv, Stop
  PROVE  IInv'
<1>1. TypeOK'
  BY DEF IInv, Stop, TypeOK, providers
<1>2. QED
  BY <1>1, QuietKeeps DEF Stop, IInv, Fits, ProvidersFit, Walking

LEMMA StopWalksKeeps ==
  ASSUME IInv, StopWalks
  PROVE  IInv'
<1> USE DEF IInv, StopWalks
<1>1. \A p \in Providers : p \in todo' <=> Known(p)
  BY MappedAreKnown DEF Fits
<1>2. TypeOK'
  <2>1. Mapped \subseteq Providers
    BY DEF TypeOK, Mapped
  <2>2. todo' \subseteq Providers /\ stale' \in BOOLEAN
    BY <2>1
  <2>3. QED
    BY <2>2 DEF TypeOK, usbmuxd, providers
<1>3. ProvidersFit'
  BY DEF Fits, ProvidersFit, Born, usbmuxd, providers
<1>4. KnownAreAvailable' /\ AvailableAreKnown'
  BY <1>1 DEF Fits, KnownAreAvailable, AvailableAreKnown, Known, Born, IsOpen,
              Walking, providers
<1>5. QED
  BY <1>2, <1>3, <1>4 DEF Fits

LEMMA StopVisitsKeeps ==
  ASSUME IInv, NEW p \in Providers, StopVisits(p)
  PROVE  IInv'
<1>1. CASE stale
  <2>1. TypeOK' /\ UNCHANGED <<backend, plugged, providers, todo>>
    BY <1>1 DEF IInv, TypeOK, StopVisits, usbmuxd, providers
  <2>2. QED
    BY <2>1, QuietKeeps DEF IInv, Fits, ProvidersFit, Walking
<1>2. CASE ~stale
  <2>1. /\ backend = "walking" /\ backend' = "awaiting"
        /\ p \in todo /\ todo' = todo \ {p}
        /\ UNCHANGED <<version, usbmuxd, provider, device, opening, attempt, late,
                       evicted, stale, crash>>
    BY <1>2 DEF StopVisits
  <2>2. signals[p] = IF IsOpen(p) THEN Announced ELSE Silent
    BY <2>1 DEF IInv, Fits, ProvidersFit, KnownAreAvailable, IsOpen, Walking
  <2>3. signals' = [signals EXCEPT ![p] = IF IsOpen(p) THEN Withdrawn ELSE Silent]
    BY <1>2, <2>2, OneSignalMore DEF StopVisits, IInv, Fits, ProvidersFit
  <2>4. ProvidersFit'
    BY <2>1, <2>2, <2>3, OneSignalMore
       DEF IInv, TypeOK, Fits, ProvidersFit, Born, IsOpen, usbmuxd
  <2>5. TypeOK'
    <3>1. signals' \in [Providers -> Seq({"available", "unavailable"})]
      BY <2>4, SignalsAreSequences DEF ProvidersFit
    <3>2. QED
      BY <2>1, <3>1 DEF IInv, TypeOK, usbmuxd
  <2>6. KnownAreAvailable'
    BY <2>1, <2>3 DEF IInv, Fits, ProvidersFit, KnownAreAvailable, Known, Born,
                      IsOpen, Walking
  <2>7. AvailableAreKnown'
    BY <2>1, <2>3, OneSignalMore
       DEF IInv, Fits, ProvidersFit, AvailableAreKnown, Known, Born, IsOpen, Walking
  <2>8. QED
    BY <2>4, <2>5, <2>6, <2>7 DEF IInv, Fits
<1>3. QED
  BY <1>1, <1>2

LEMMA ProviderClosedKeeps ==
  ASSUME IInv, ProviderClosed
  PROVE  IInv'
<1>1. TypeOK'
  BY DEF IInv, ProviderClosed, TypeOK, usbmuxd, providers
<1>2. QED
  BY <1>1, QuietKeeps
     DEF ProviderClosed, IInv, Fits, ProvidersFit, Walking, usbmuxd

LEMMA StopEndsKeeps ==
  ASSUME IInv, StopEnds
  PROVE  IInv'
<1>1. CASE stale
  <2>1. TypeOK' /\ UNCHANGED <<backend, plugged, providers, todo>>
    BY <1>1 DEF IInv, TypeOK, StopEnds, usbmuxd, providers
  <2>2. QED
    BY <2>1, QuietKeeps DEF IInv, Fits, ProvidersFit, Walking
<1>2. CASE ~stale
  <2> USE <1>2 DEF StopEnds, IInv
  <2>1. TypeOK'
    BY DEF TypeOK, usbmuxd
  <2>2. ProvidersFit'
    BY DEF Fits, ProvidersFit, Born, usbmuxd
  <2>3. KnownAreAvailable'
    BY DEF KnownAreAvailable, Walking
  <2>4. AvailableAreKnown'
    BY DEF Fits, AvailableAreKnown, Walking
  <2>5. QED
    BY <2>1, <2>2, <2>3, <2>4 DEF Fits
<1>3. QED
  BY <1>1, <1>2

LEMMA InitFits == Init => IInv
<1> SUFFICES ASSUME Init PROVE IInv
  OBVIOUS
<1>1. ProvidersFit
  BY FS_EmptySet DEF Init, ProvidersFit, Born, Silent
<1>2. TypeOK
  <2>1. signals \in [Providers -> Seq({"available", "unavailable"})]
    BY <1>1, SignalsAreSequences DEF ProvidersFit
  <2>2. reports \in Seq([type : {"attached", "detached"}, id : Devices])
    BY EmptySeq DEF Init
  <2>3. attempt \in [Providers -> 0..MaxAttempts]
    BY DEF Init
  <2>4. /\ backend = "new" /\ version \in 0..2
        /\ plugged \subseteq Devices /\ todo \subseteq Providers
        /\ late \subseteq Providers /\ evicted \subseteq Providers
    BY DEF Init
  <2>5. /\ provider \in [Devices -> Providers \cup {None}]
        /\ device \in [Providers -> Devices \cup {None}]
        /\ opening \in [Providers -> {"unborn", "waiting", "open", "failed"}]
    BY DEF Init
  <2>6. stale \in BOOLEAN /\ crash \in BOOLEAN
    BY Zenon DEF Init
  <2>7. QED
    BY <2>1, <2>2, <2>3, <2>4, <2>5, <2>6 DEF TypeOK
<1>3. \A p \in Providers : signals[p] = Silent
  BY DEF Init, Silent
<1>4. KnownAreAvailable /\ AvailableAreKnown
  BY <1>3, OneSignalMore
     DEF Init, KnownAreAvailable, AvailableAreKnown, Known, Born, IsOpen, Walking
<1>5. QED
  BY <1>1, <1>2, <1>4 DEF IInv, Fits

LEMMA NextKeeps == IInv /\ [Next]_vars => IInv'
<1> SUFFICES ASSUME IInv, [Next]_vars PROVE IInv'
  OBVIOUS
<1>1. CASE Starts
  BY <1>1, StartsKeep
<1>2. CASE Stops
  BY <1>2, StopKeeps, StopWalksKeeps, StopVisitsKeeps, ProviderClosedKeeps,
     StopEndsKeeps DEF Stops
<1>3. CASE DeviceDetached
  BY <1>3, DeviceDetachedKeeps
<1>4. CASE ReportIgnored
  BY <1>4, ReportIgnoredKeeps
<1>5. CASE \E d \in Devices : Attach(d) \/ Detach(d)
  BY <1>5, AttachKeeps, DetachKeeps
<1>6. CASE \E p \in Providers :
               \/ OpenSucceeds(p) \/ OpenFails(p)
               \/ \E succeeds \in BOOLEAN : DeviceAttached(p, succeeds)
  BY <1>6, OpenSucceedsKeeps, OpenFailsKeeps, DeviceAttachedKeeps
<1>7. CASE ConnectionLost
  BY <1>7, ConnectionLostKeeps
<1>8. CASE UNCHANGED vars
  <2>1. TypeOK'
    BY <1>8 DEF IInv, TypeOK, vars, usbmuxd, providers
  <2>2. QED
    BY <1>8, <2>1, QuietKeeps
       DEF IInv, Fits, ProvidersFit, Walking, vars, usbmuxd
<1>9. QED
  BY <1>1, <1>2, <1>3, <1>4, <1>5, <1>6, <1>7, <1>8 DEF Next

LEMMA Inductive == Spec => []IInv
BY InitFits, NextKeeps, PTL DEF Spec

\* However a query of enable_listen_mode ends, start takes one of its steps.
LEMMA ListenedStarts ==
  ASSUME NEW result, Listened(result)
  PROVE  Starts
BY DEF Listened, ControlClient, VersionOf, Starts

-----------------------------------------------------------------------------
(* The map of the backend follows the devices, with the delay of the       *)
(* reports that are unread: this needs an invariant of its own.            *)

\* The i-th unread report is the last about its device.
LastOf(i) == \A j \in 1..Len(reports) : j > i => reports[j].id # reports[i].id

Failing(d) == \E p \in Providers : device[p] = d /\ opening[p] = "failed"

Agrees(d) == (provider[d] # None <=> d \in plugged) \/ Failing(d)

\* The last report about a device says how the device is now, and what no report is
\* about is in the map as it is.
ReportsEndWithPlugs ==
    /\ \A i \in 1..Len(reports) :
           LastOf(i) => (reports[i].type = "attached" <=> reports[i].id \in plugged)
    /\ \A d \in Devices : (\A i \in 1..Len(reports) : reports[i].id # d) => Agrees(d)

MapInv ==
    /\ Reported => ReportsEndWithPlugs
    /\ backend \in {"new", "probing", "asking"} => \A d \in Devices : provider[d] = None

\* An opening that has failed stays failed.
LEMMA FailuresStay ==
  ASSUME \A p \in Providers : opening[p] = "failed" =>
             opening'[p] = "failed" /\ device'[p] = device[p]
  PROVE  \A d \in Devices : Failing(d) => Failing(d)'
BY DEF Failing

\* Reading a report makes the map agree with it, as far as its device goes.
LEMMA ReadingFollows ==
  ASSUME TypeOK, ReportsEndWithPlugs, reports # <<>>,
         reports' = Tail(reports), UNCHANGED plugged,
         \A d \in Devices : d # Head(reports).id => provider'[d] = provider[d],
         \A d \in Devices : Failing(d) => Failing(d)',
         provider'[Head(reports).id] # None <=> Head(reports).type = "attached"
  PROVE  ReportsEndWithPlugs'
<1> DEFINE R == [type : {"attached", "detached"}, id : Devices]
<1>1. /\ reports \in Seq(R) /\ Head(reports) = reports[1] /\ 1 \in 1..Len(reports)
      /\ Len(reports) \in Nat
  BY DEF TypeOK
<1>2. /\ Len(reports') = Len(reports) - 1
      /\ \A i \in 1..Len(reports') : reports'[i] = reports[i + 1]
  BY <1>1, HeadTailProperties
<1>3. \A j \in 1..Len(reports) : j = 1 \/ j - 1 \in 1..Len(reports')
  BY <1>1, <1>2
<1>4. \A i \in 1..Len(reports') : i + 1 \in 1..Len(reports)
  BY <1>1, <1>2
<1>5. ASSUME NEW i \in 1..Len(reports'), LastOf(i)'
      PROVE  reports'[i].type = "attached" <=> reports'[i].id \in plugged'
  <2>1. LastOf(i + 1)
    <3> SUFFICES ASSUME NEW j \in 1..Len(reports), j > i + 1
                 PROVE  reports[j].id # reports[i + 1].id
      BY DEF LastOf
    <3>1. j - 1 \in 1..Len(reports') /\ j - 1 > i
      BY <1>3, <1>5
    <3>2. reports'[j - 1].id # reports'[i].id
      BY <1>5, <3>1 DEF LastOf
    <3>3. reports'[j - 1] = reports[j] /\ reports'[i] = reports[i + 1]
      BY <1>1, <1>2, <1>5, <3>1
    <3>4. QED
      BY <3>2, <3>3
  <2>2. QED
    BY <1>2, <1>4, <1>5, <2>1 DEF ReportsEndWithPlugs
<1>6. ASSUME NEW d \in Devices, \A i \in 1..Len(reports') : reports'[i].id # d
      PROVE  Agrees(d)'
  <2>1. \A j \in 1..Len(reports) : j # 1 => reports[j].id # d
    <3> SUFFICES ASSUME NEW j \in 1..Len(reports), j # 1
                 PROVE  reports[j].id # d
      OBVIOUS
    <3>1. j - 1 \in 1..Len(reports')
      BY <1>3
    <3>2. reports'[j - 1] = reports[j]
      BY <1>1, <1>2, <3>1
    <3>3. QED
      BY <1>6, <3>1, <3>2
  <2>2. CASE d = reports[1].id
    <3>1. LastOf(1)
      BY <2>1, <2>2 DEF LastOf
    <3>2. reports[1].type = "attached" <=> d \in plugged
      BY <1>1, <2>2, <3>1 DEF ReportsEndWithPlugs
    <3>3. QED
      BY <1>1, <2>2, <3>2 DEF Agrees
  <2>3. CASE d # reports[1].id
    <3>1. Agrees(d)
      BY <2>1, <2>3 DEF ReportsEndWithPlugs
    <3>2. QED
      BY <1>1, <2>3, <3>1 DEF Agrees
  <2>4. QED
    BY <2>2, <2>3
<1>7. QED
  BY <1>5, <1>6 DEF ReportsEndWithPlugs

\* A device comes or goes, and usbmuxd says so if it has been asked to.
LEMMA PlugsKeepMapInv ==
  ASSUME IInv, MapInv, NEW d \in Devices, Attach(d) \/ Detach(d)
  PROVE  MapInv'
<1> DEFINE R == [type : {"attached", "detached"}, id : Devices]
<1>1. /\ backend' = backend /\ UNCHANGED providers
      /\ \A e \in Devices : e # d => (e \in plugged' <=> e \in plugged)
  BY DEF Attach, Detach
<1>2. CASE ~Reported
  BY <1>1, <1>2 DEF MapInv, Reported, providers
<1>3. CASE Reported
  <2>1. PICK t \in {"attached", "detached"} :
            /\ reports' = Append(reports, [type |-> t, id |-> d])
            /\ t = "attached" <=> d \in plugged'
    BY <1>3 DEF Attach, Detach, Reported
  <2> DEFINE r == [type |-> t, id |-> d]
             n == Len(reports) + 1
  <2>2. reports \in Seq(R) /\ r \in R /\ Len(reports) \in Nat
    BY DEF IInv, TypeOK
  <2>3. /\ Len(reports') = n /\ reports'[n] = r
        /\ \A i \in 1..Len(reports) : reports'[i] = reports[i]
    BY <2>1, <2>2, AppendProperties
  <2>4. 1..n = 1..Len(reports) \cup {n} /\ \A i \in 1..Len(reports) : n > i
    BY <2>2
  <2> HIDE DEF n
  <2>5. ASSUME NEW i \in 1..n, LastOf(i)'
        PROVE  reports'[i].type = "attached" <=> reports'[i].id \in plugged'
    <3>1. CASE i = n
      BY <2>1, <2>3, <3>1
    <3>2. CASE i \in 1..Len(reports)
      <4>1. reports[i].id # d
        BY <2>3, <2>4, <2>5, <3>2 DEF LastOf
      <4>2. LastOf(i)
        BY <2>3, <2>4, <2>5, <3>2 DEF LastOf
      <4>3. reports[i].id \in Devices
        <5>1. reports[i] \in R
          BY <2>2, <3>2, ElementOfSeq
        <5>2. QED
          BY <5>1
      <4>4. QED
        BY <1>1, <1>3, <2>3, <3>2, <4>1, <4>2, <4>3 DEF MapInv, ReportsEndWithPlugs
    <3>3. QED
      BY <2>4, <2>5, <3>1, <3>2
  <2>6. ASSUME NEW e \in Devices, \A i \in 1..n : reports'[i].id # e
        PROVE  Agrees(e)'
    <3>1. e # d /\ \A i \in 1..Len(reports) : reports[i].id # e
      BY <2>3, <2>4, <2>6
    <3>2. Agrees(e)
      BY <1>3, <3>1 DEF MapInv, ReportsEndWithPlugs
    <3>3. QED
      BY <1>1, <3>1, <3>2 DEF Agrees, Failing, providers
  <2>7. ReportsEndWithPlugs'
    BY <2>3, <2>5, <2>6 DEF ReportsEndWithPlugs
  <2>8. QED
    BY <1>1, <2>7 DEF MapInv, Reported, providers
<1>4. QED
  BY <1>2, <1>3

\* usbmuxd begins with what is attached already, while the map is empty.
LEMMA AskKeepsMapInv ==
  ASSUME IInv, MapInv, Ask
  PROVE  MapInv'
<1>1. PICK order \in [1..Cardinality(plugged) -> plugged] :
          /\ \A d \in plugged : \E n \in DOMAIN order : order[n] = d
          /\ reports' = [n \in DOMAIN order |-> [type |-> "attached", id |-> order[n]]]
  BY DEF Ask
<1>2. Cardinality(plugged) \in Nat
  BY FS_CardinalityType DEF IInv, Fits, ProvidersFit
<1>3. /\ backend' = "asking" /\ UNCHANGED <<plugged, providers>>
      /\ \A d \in Devices : provider[d] = None
  BY DEF Ask, MapInv
<1>4. /\ Len(reports') = Cardinality(plugged)
      /\ \A i \in 1..Cardinality(plugged) :
             reports'[i].type = "attached" /\ reports'[i].id = order[i]
  BY <1>1, <1>2
<1>5. ReportsEndWithPlugs'
  <2>1. \A i \in 1..Len(reports') :
            reports'[i].type = "attached" /\ reports'[i].id \in plugged'
    BY <1>3, <1>4
  <2>2. ASSUME NEW d \in Devices, \A i \in 1..Len(reports') : reports'[i].id # d
        PROVE  d \notin plugged' /\ provider'[d] = None
    <3>1. \A i \in 1..Cardinality(plugged) : order[i] # d
      BY <1>4, <2>2
    <3>2. d \notin plugged
      BY <1>1, <3>1
    <3>3. QED
      BY <1>3, <3>2 DEF providers
  <2>3. QED
    BY <2>1, <2>2 DEF ReportsEndWithPlugs, Agrees
<1>6. QED
  BY <1>3, <1>5 DEF MapInv, providers

\* What reports are unread is read, and the map made to agree.
LEMMA ReadsKeepMapInv ==
  ASSUME IInv, MapInv,
         \/ DeviceDetached \/ ReportIgnored
         \/ \E p \in Providers : \E succeeds \in BOOLEAN : DeviceAttached(p, succeeds)
  PROVE  MapInv'
<1>1. /\ backend = "listening" /\ backend' = "listening" /\ reports # <<>>
      /\ reports' = Tail(reports) /\ UNCHANGED plugged /\ ReportsEndWithPlugs
      /\ TypeOK
  BY DEF DeviceDetached, ReportIgnored, DeviceAttached, providers, MapInv, Reported, IInv
<1>2. Head(reports).id \in Devices /\ Head(reports).type \in {"attached", "detached"}
  <2>1. Head(reports) \in [type : {"attached", "detached"}, id : Devices]
    BY <1>1, HeadTailProperties DEF TypeOK
  <2>2. QED
    BY <2>1
<1>3. CASE DeviceDetached
  <2>1. \A d \in Devices : Failing(d) => Failing(d)'
    BY <1>3, FailuresStay DEF DeviceDetached
  <2>2. provider' = [provider EXCEPT ![Head(reports).id] = None]
            /\ Head(reports).type = "detached"
    BY <1>3 DEF DeviceDetached, Forgotten
  <2>3. ReportsEndWithPlugs'
    BY <1>1, <1>2, <2>1, <2>2, ReadingFollows DEF TypeOK
  <2>4. QED
    BY <1>1, <2>3 DEF MapInv
<1>4. CASE ReportIgnored
  <2>1. UNCHANGED providers
            /\ (Head(reports).type = "attached" <=> provider[Head(reports).id] # None)
    BY <1>4 DEF ReportIgnored
  <2>2. \A d \in Devices : Failing(d) => Failing(d)'
    BY <2>1, FailuresStay DEF providers
  <2>3. ReportsEndWithPlugs'
    BY <1>1, <1>2, <2>1, <2>2, ReadingFollows DEF providers
  <2>4. QED
    BY <1>1, <2>3 DEF MapInv
<1>5. ASSUME NEW p \in Providers, NEW succeeds \in BOOLEAN, DeviceAttached(p, succeeds)
      PROVE  MapInv'
  <2>1. /\ opening[p] = "unborn"
        /\ \A q \in Providers : q # p => opening'[q] = opening[q] /\ device'[q] = device[q]
    BY <1>1, <1>5 DEF DeviceAttached, Opened, TypeOK
  <2>2. \A d \in Devices : Failing(d) => Failing(d)'
    BY <2>1, FailuresStay
  <2>3. provider' = [provider EXCEPT ![Head(reports).id] = p]
            /\ Head(reports).type = "attached"
    BY <1>5 DEF DeviceAttached
  <2>4. ReportsEndWithPlugs'
    BY <1>1, <1>2, <2>2, <2>3, ReadingFollows DEF TypeOK
  <2>5. QED
    BY <1>1, <2>4 DEF MapInv
<1>6. QED
  BY <1>3, <1>4, <1>5

\* An opening ends; if it fails, the device is one whose opening has failed.
LEMMA OpeningKeepsMapInv ==
  ASSUME IInv, MapInv, NEW p \in Providers, OpenSucceeds(p) \/ OpenFails(p)
  PROVE  MapInv'
<1>1. UNCHANGED <<backend, reports, plugged, device>> /\ opening[p] = "waiting"
      /\ \A q \in Providers : q # p => opening'[q] = opening[q]
  BY DEF OpenSucceeds, OpenFails, Opened, usbmuxd, IInv, TypeOK
<1>2. \A d \in Devices : Failing(d) => Failing(d)'
  BY <1>1, FailuresStay
<1>3. \A d \in Devices :
          provider'[d] = provider[d] \/ (provider'[d] = None /\ Failing(d)')
  <2>1. CASE OpenSucceeds(p) \/ UNCHANGED provider
    BY <2>1 DEF OpenSucceeds
  <2>2. CASE opening' = [opening EXCEPT ![p] = "failed"]
             /\ provider' = [provider EXCEPT ![device[p]] = None]
    BY <1>1, <2>2 DEF Failing, IInv, TypeOK
  <2>3. QED
    BY <2>1, <2>2 DEF OpenFails, Forgotten
<1>4. \A d \in Devices : Agrees(d) => Agrees(d)'
  BY <1>1, <1>2, <1>3 DEF Agrees
<1>5. QED
  BY <1>1, <1>3, <1>4 DEF MapInv, Reported, ReportsEndWithPlugs, LastOf

LEMMA NextKeepsMapInv == IInv /\ MapInv /\ [Next]_vars => MapInv'
<1> SUFFICES ASSUME IInv, MapInv, [Next]_vars PROVE MapInv'
  OBVIOUS
<1>1. CASE UNCHANGED vars
  BY <1>1 DEF vars, usbmuxd, providers, MapInv, Reported, ReportsEndWithPlugs, LastOf,
              Agrees, Failing
<1>2. CASE Listen \/ Start \/ \E v \in 1..2 : CreateClient(v)
  BY <1>2 DEF Listen, Start, CreateClient, usbmuxd, providers, MapInv, Reported,
              ReportsEndWithPlugs, LastOf, Agrees, Failing
<1>3. CASE ListenFails \/ ConnectionLost \/ Stops
  BY <1>3 DEF ListenFails, ConnectionLost, Stops, Stop, StopWalks, StopVisits,
              ProviderClosed, StopEnds, MapInv, Reported
<1>4. CASE Ask
  BY <1>4, AskKeepsMapInv
<1>5. QED
  BY <1>1, <1>2, <1>3, <1>4, PlugsKeepMapInv, ReadsKeepMapInv, OpeningKeepsMapInv
     DEF Next, Starts

LEMMA MapInvHolds == Spec => []MapInv
<1>1. Init => MapInv
  BY DEF Init, MapInv, Reported
<1>2. QED
  BY Inductive, NextKeepsMapInv, <1>1, PTL DEF Spec

-----------------------------------------------------------------------------
(* The theorems.                                                           *)

\* Every variable keeps its type; in particular every report is about a device and
\* an opening is not attempted more often than the bound of its loop.
THEOREM TypeCorrect == Spec => []TypeOK
<1>1. IInv => TypeOK
  BY DEF IInv
<1>2. QED
  BY <1>1, Inductive, PTL

\* A provider is announced at most once and withdrawn at most once, afterwards; and
\* while it is available the backend knows it, but for the three ways named there
\* (open_provider and the signal handlers of start).
THEOREM AnnouncedAreKnown == Spec => []AnnouncedWhileKnown
<1>1. IInv => AnnouncedWhileKnown
  <2> SUFFICES ASSUME IInv, NEW p \in Providers
               PROVE  /\ signals[p] \in {Silent, Announced, Withdrawn}
                      /\ signals[p] = Announced => p \in Mapped \cup late \cup evicted
    BY DEF AnnouncedWhileKnown, Available, Silent, Announced, Withdrawn
  <2>1. signals[p] \in {Silent, Announced, Withdrawn}
    BY DEF IInv, Fits, ProvidersFit
  <2>2. signals[p] = Announced => p \in Mapped \cup late \cup evicted
    BY MappedAreKnown DEF IInv, Fits, AvailableAreKnown
  <2>3. QED
    BY <2>1, <2>2
<1>2. QED
  BY <1>1, Inductive, PTL

\* With all they do, the usbmuxd clients of start take the backend through no step
\* but its own: what is proved of it holds of FruityControl, too.
THEOREM ControlImplementsBackend == ControlSpec => Spec
<1>1. ControlInit => Init
  BY DEF ControlInit
<1>2. ASSUME ControlNext PROVE [Next]_vars
  <2>1. ~crash
    BY <1>2 DEF ControlNext, Alive
  <2>2. Starts \/ Close \/ ConnectionLost \/ StopWalks \/ Others \/ UNCHANGED vars
    <3>1. CASE Asking
      <4>1. CASE StartProbing
        BY <4>1 DEF StartProbing, Starts
      <4>2. CASE Established \/ WriteCompletes
        BY <4>2 DEF Established, WriteCompletes
      <4>3. CASE EstablishFails
        BY <4>3 DEF EstablishFails, ControlClient, Starts
      <4>4. CASE WriteFails
        BY <4>4, ListenedStarts DEF WriteFails
      <4>5. QED
        BY <3>1, <4>1, <4>2, <4>3, <4>4 DEF Asking
    <3>2. CASE Reading
      BY <3>2, ListenedStarts
         DEF Reading, ReadResult, ReadFails, ProbeReadFails, Completed, ReaderEnds
    <3>3. CASE \E result \in {"success", "failure"} : Answer(result)
      BY <3>3 DEF Answer, Starts
    <3>4. CASE ConnectionBreaks
      BY <3>4 DEF ConnectionBreaks
    <3>5. CASE Closed
      BY <3>5 DEF Closed
    <3>6. QED
      BY <1>2, <3>1, <3>2, <3>3, <3>4, <3>5 DEF ControlNext
  <2>3. QED
    BY <2>1, <2>2 DEF Next, Close, Others, Stops
<1>3. ASSUME UNCHANGED allVars PROVE UNCHANGED vars
  BY <1>3 DEF allVars
<1>4. QED
  BY <1>1, <1>2, <1>3, PTL DEF ControlSpec, Spec

\* Every variable of the clients keeps its type; the reader has no other states.
THEOREM ClientsCorrect == ControlSpec => []ClientsOK
<1>1. ControlInit => ClientsOK
  BY DEF ControlInit, ClientsOK
<1>2. ASSUME ClientsOK, ControlNext PROVE ClientsOK'
  <2> USE <1>2 DEF ClientsOK
  <2>1. CASE Asking
    BY <2>1
       DEF Asking, StartProbing, Establishing, Established, EstablishFails,
           WriteCompletes, WriteFails, Listened, ControlClient
  <2>2. CASE Reading
    <3>1. CASE ReadResult
      BY <3>1 DEF ReadResult, IsProcessing, Listened, ControlClient
    <3>2. CASE ReadFails
      BY <3>2 DEF ReadFails, IsProcessing, Completed, ReaderEnds, Listened,
                  ControlClient
    <3>3. CASE ProbeReadFails
      BY <3>3 DEF ProbeReadFails
    <3>4. QED
      BY <2>2, <3>1, <3>2, <3>3 DEF Reading
  <2>3. CASE Close \/ Closed
    BY <2>3 DEF Close, Closed, Cancelled, IsProcessing
  <2>4. CASE ConnectionBreaks \/ Others
    BY <2>4 DEF ConnectionBreaks, Others, clients
  <2>5. CASE \E result \in {"success", "failure"} : Answer(result)
    BY <2>5 DEF Answer
  <2>6. QED
    BY <2>1, <2>2, <2>3, <2>4, <2>5 DEF ControlNext
<1>3. ASSUME ClientsOK, UNCHANGED allVars PROVE ClientsOK'
  BY <1>3 DEF ClientsOK, allVars, clients
<1>4. QED
  BY <1>1, <1>2, <1>3, PTL DEF ControlSpec

\* Whenever the backend has read all that usbmuxd has reported, it has providers for
\* exactly the devices that are attached, but for those whose opening has failed: in
\* whatever order devices come and go, before start returns and after.
THEOREM MapIsUpToDate == ControlSpec => []MapFollowsPlugs
<1>1. IInv /\ MapInv => MapFollowsPlugs
  <2> SUFFICES ASSUME IInv, MapInv, backend = "listening", reports = <<>>,
                      NEW d \in Devices
               PROVE  Agrees(d)
    BY DEF MapFollowsPlugs, Agrees, Failing
  <2>1. \A i \in 1..Len(reports) : reports[i].id # d
    OBVIOUS
  <2>2. QED
    BY <2>1 DEF MapInv, Reported, ReportsEndWithPlugs
<1>2. QED
  BY ControlImplementsBackend, Inductive, MapInvHolds, <1>1, PTL
=============================================================================
