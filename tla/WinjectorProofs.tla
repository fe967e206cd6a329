---------------------------- MODULE WinjectorProofs ----------------------------
(***************************************************************************)
(* Proofs about Winjector for any number of injections and helpers: a      *)
(* factory has one helper at most and knows the one it has, and an         *)
(* injection is performed once at most.                                    *)
(***************************************************************************)
EXTENDS Winjector, TLAPS

(* The strengthening that is inductive.                                    *)

\* A helper is being launched only while requests wait for it, and the helper a
\* factory has is one of its level that has connected.
FactoriesFit ==
    /\ \A l \in Levels : requests[l] = {} => Launching(l) = {}
    /\ \A l \in Levels :
           helper[l] # None => level[helper[l]] = l /\ phase[helper[l]] = "open"
    /\ \A h \in Helpers :
           phase[h] \in {"unborn", "executing"} => process[h] = "none"
    /\ awaiting => closing \in Levels /\ helper[closing] # None

\* An injection was performed by the helper it uses, whose answer has been read, is on
\* its way or can no longer come.
PerformedFits ==
    /\ \A i \in Injections :
           /\ place[i] \in {"obtained", "querying", "injected"} =>
                  using[i] \in Helpers
           /\ reply[i] # "none" => place[i] = "querying"
           /\ reply[i] = "ok" => <<i, using[i]>> \in performed
    /\ \A i \in Injections, h \in Helpers :
           <<i, h>> \in performed =>
               /\ place[i] \in {"querying", "injected"}
               /\ using[i] = h
               /\ \/ place[i] = "injected" \/ reply[i] = "ok"
                  \/ reply[i] = "none" /\ process[h] = "gone"

IInv ==
    /\ TypeOK /\ HelpersAreKnown /\ InjectedOnce
    /\ FactoriesFit /\ PerformedFits
-----------------------------------------------------------------------------
USE NoneIsNoHelper
USE DEF Levels, Outcomes, Alive, Ends, IsFirst, GoesOn, Served, HasExited,
        Told, factories, helpers, injecting, closer

LEMMA QueryKeeps ==
  ASSUME IInv, NEW i \in Injections,
         Query(i)
  PROVE  IInv'
<1> USE DEF IInv, Query
<1>1. TypeOK'
  BY DEF TypeOK
<1>2. HelpersAreKnown'
  BY DEF TypeOK, HelpersAreKnown, FactoriesFit, Launching
<1>3. InjectedOnce'
  BY DEF TypeOK, InjectedOnce, PerformedFits
<1>4. FactoriesFit'
  BY DEF TypeOK, HelpersAreKnown, FactoriesFit, Launching
<1>5. PerformedFits'
  BY DEF TypeOK, PerformedFits, FactoriesFit, InjectedOnce
<1>6. QED
  BY <1>1, <1>2, <1>3, <1>4, <1>5

LEMMA AnswerKeeps ==
  ASSUME IInv, NEW i \in Injections, NEW answer \in {"ok", "denied", "failed"},
         Answer(i, answer)
  PROVE  IInv'
<1> USE DEF IInv, Answer
<1>1. TypeOK'
  <2>1. <<i, using[i]>> \in Injections \X Helpers
    BY DEF PerformedFits
  <2>2. QED
    BY <2>1 DEF TypeOK
<1>2. HelpersAreKnown'
  BY DEF TypeOK, HelpersAreKnown, FactoriesFit, Launching
<1>3. InjectedOnce'
  BY DEF TypeOK, InjectedOnce, PerformedFits
<1>4. FactoriesFit'
  BY DEF TypeOK, HelpersAreKnown, FactoriesFit, Launching
<1>5. PerformedFits'
  BY DEF TypeOK, PerformedFits, FactoriesFit, InjectedOnce
<1>6. QED
  BY <1>1, <1>2, <1>3, <1>4, <1>5

LEMMA PerformsAndDiesKeeps ==
  ASSUME IInv, NEW i \in Injections,
         PerformsAndDies(i)
  PROVE  IInv'
<1> USE DEF IInv, PerformsAndDies
<1>1. TypeOK'
  <2>1. <<i, using[i]>> \in Injections \X Helpers
    BY DEF PerformedFits
  <2>2. QED
    BY <2>1 DEF TypeOK
<1>2. HelpersAreKnown'
  BY DEF TypeOK, HelpersAreKnown, FactoriesFit, Launching
<1>3. InjectedOnce'
  BY DEF TypeOK, InjectedOnce, PerformedFits
<1>4. FactoriesFit'
  BY DEF TypeOK, HelpersAreKnown, FactoriesFit, Launching
<1>5. PerformedFits'
  BY DEF TypeOK, PerformedFits, FactoriesFit, InjectedOnce
<1>6. QED
  BY <1>1, <1>2, <1>3, <1>4, <1>5

\* Obtaining a helper keeps the invariant, for an injection that has not been
\* performed and has no answer under way.
LEMMA ObtainKeeps ==
  ASSUME IInv, NEW i \in Injections, NEW l \in Levels,
         place[i] \in {"idle", "querying"}, reply'[i] = "none",
         \A h \in Helpers : <<i, h>> \notin performed,
         reply' = [reply EXCEPT ![i] = "none"], TryAt(i, l),
         UNCHANGED <<performed, closer, crash>>
  PROVE  IInv'
<1> USE DEF IInv, TryAt, MakesStore, Obtain
<1>1. TypeOK'
  <2> USE DEF TypeOK
  <2>1. store' \subseteq Levels /\ lent' \subseteq Levels
    OBVIOUS
  <2>2. /\ requests' \in [Levels -> SUBSET Injections]
        /\ phase' \in [Helpers -> {"unborn", "executing", "launched", "refused",
                                   "opening", "open", "abandoned"}]
        /\ level' \in [Helpers -> Levels]
    OBVIOUS
  <2>3. \A k \in Levels :
            requests'[k] = {j \in Injections : place'[j] = "obtaining"
                                               /\ at'[j] = k}
    OBVIOUS
  <2>4. /\ place' \in [Injections -> {"idle", "obtaining", "obtained",
                                      "querying", "injected", "failed"}]
        /\ at' \in [Injections -> Levels]
        /\ using' \in [Injections -> Helpers \cup {None}]
    OBVIOUS
  <2>5. QED
    BY <2>1, <2>2, <2>3, <2>4
<1>2. HelpersAreKnown'
  BY DEF TypeOK, HelpersAreKnown, FactoriesFit, Launching
<1>3. InjectedOnce'
  BY DEF TypeOK, InjectedOnce, PerformedFits
<1>4. FactoriesFit'
  BY DEF TypeOK, HelpersAreKnown, FactoriesFit, Launching
<1>5. PerformedFits'
  <2>1. place'[i] \in {"obtained", "obtaining"} /\ using'[i] = helper[l]
        /\ (place'[i] = "obtained" => helper[l] # None)
    BY DEF TypeOK
  <2>2. \A j \in Injections : j # i => place'[j] = place[j]
            /\ using'[j] = using[j] /\ reply'[j] = reply[j]
    BY DEF TypeOK
  <2>3. UNCHANGED <<performed, process>>
    OBVIOUS
  <2> HIDE DEF TryAt, Obtain
  <2>4. QED
    BY <2>1, <2>2, <2>3 DEF TypeOK, PerformedFits
<1>6. QED
  BY <1>1, <1>2, <1>3, <1>4, <1>5

\* An injection that ends keeps it, if it ends as it was performed, and whether or not
\* it has made a resource store before.
LEMMA EndsKeeps ==
  ASSUME IInv, NEW i \in Injections, NEW outcome \in {"injected", "failed"},
         place' = [place EXCEPT ![i] = outcome],
         store' \subseteq Levels, lent' \subseteq Levels,
         UNCHANGED <<helper, requests, helpers, at, using>>,
         reply' = [reply EXCEPT ![i] = "none"],
         UNCHANGED <<performed, closer, crash>>,
         outcome = "injected" => using[i] \in Helpers
                                 /\ <<i, using[i]>> \in performed,
         outcome = "failed" => \A h \in Helpers : <<i, h>> \notin performed,
         place[i] \in {"idle", "querying"}
  PROVE  IInv'
<1> USE DEF IInv
<1>1. TypeOK'
  BY DEF TypeOK
<1>2. HelpersAreKnown' /\ FactoriesFit'
  BY DEF TypeOK, HelpersAreKnown, FactoriesFit, Launching
<1>3. InjectedOnce'
  BY DEF TypeOK, InjectedOnce, PerformedFits
<1>4. PerformedFits'
  BY DEF TypeOK, PerformedFits
<1>5. QED
  BY <1>1, <1>2, <1>3, <1>4

LEMMA CannotTryEnds ==
  ASSUME IInv, NEW i \in Injections, NEW l \in Levels, CannotTry(i, l)
  PROVE  /\ place' = [place EXCEPT ![i] = "failed"]
         /\ store' \subseteq Levels /\ lent' \subseteq Levels
         /\ UNCHANGED <<helper, requests, helpers, at, using>>
  BY DEF IInv, TypeOK, CannotTry, MakesStore

LEMMA InjectKeeps ==
  ASSUME IInv, NEW i \in Injections, Inject(i)
  PROVE  IInv'
<1> USE DEF IInv, Inject
<1>1. /\ reply[i] = "none" /\ reply' = [reply EXCEPT ![i] = "none"]
      /\ \A h \in Helpers : <<i, h>> \notin performed
  <2>1. place[i] = "idle" /\ reply[i] = "none"
    BY DEF PerformedFits
  <2>2. reply' = [reply EXCEPT ![i] = "none"]
    BY <2>1 DEF TypeOK
  <2>3. QED
    BY <2>1, <2>2 DEF PerformedFits
<1>2. CASE TryAt(i, "normal")
  BY <1>1, <1>2, ObtainKeeps
<1>3. CASE CannotTry(i, "normal")
  BY <1>1, <1>3, CannotTryEnds, EndsKeeps
<1>4. QED
  BY <1>2, <1>3

LEMMA QueryReturnsKeeps ==
  ASSUME IInv, NEW i \in Injections, QueryReturns(i)
  PROVE  IInv'
<1> USE DEF IInv
<1>1. /\ reply[i] \in {"ok", "denied", "failed"}
      /\ \/ reply[i] = "denied" /\ (TryAt(i, "elevated") \/ CannotTry(i, "elevated"))
         \/ Ends(i, IF reply[i] = "ok" THEN "injected" ELSE "failed")
  BY DEF QueryReturns, TypeOK
<1>2. /\ place[i] = "querying" /\ reply' = [reply EXCEPT ![i] = "none"]
      /\ UNCHANGED <<performed, closer, crash>> /\ using[i] \in Helpers
      /\ reply'[i] = "none"
  <2>1. place[i] = "querying" /\ reply' = [reply EXCEPT ![i] = "none"]
    BY DEF QueryReturns
  <2>2. UNCHANGED <<performed, closer, crash>>
    BY DEF QueryReturns
  <2>3. using[i] \in Helpers
    BY <2>1 DEF PerformedFits
  <2>4. reply'[i] = "none"
    BY <2>1 DEF TypeOK
  <2>5. QED
    BY <2>1, <2>2, <2>3, <2>4
<1>3. reply[i] = "ok" => <<i, using[i]>> \in performed
  BY DEF PerformedFits
<1>4. reply[i] # "ok" => \A h \in Helpers : <<i, h>> \notin performed
  BY <1>1, <1>2 DEF PerformedFits
<1>. store \subseteq Levels /\ lent \subseteq Levels
  BY DEF TypeOK
<1>5. CASE reply[i] = "ok" /\ Ends(i, "injected")
  BY <1>2, <1>3, <1>5, EndsKeeps DEF Ends
<1>6. CASE reply[i] = "denied" /\ TryAt(i, "elevated")
  BY <1>2, <1>4, <1>6, ObtainKeeps
<1>7. CASE reply[i] # "ok" /\ Ends(i, "failed")
  BY <1>2, <1>4, <1>7, EndsKeeps DEF Ends
<1>8. CASE reply[i] = "denied" /\ CannotTry(i, "elevated")
  BY <1>2, <1>4, <1>8, CannotTryEnds, EndsKeeps
<1>9. QED
  BY <1>1, <1>5, <1>6, <1>7, <1>8

LEMMA WorkerExecutesKeeps ==
  ASSUME IInv, NEW h \in Helpers,
         WorkerExecutes(h)
  PROVE  IInv'
<1> USE DEF IInv, WorkerExecutes, Executes
<1>1. TypeOK'
  <2> USE DEF TypeOK
  <2>1. CASE level[h] \in lent
    BY <2>1
  <2>2. CASE level[h] \notin lent
    BY <2>2
  <2>3. QED
    BY <2>1, <2>2
<1>2. HelpersAreKnown'
  BY DEF TypeOK, HelpersAreKnown, FactoriesFit, Launching
<1>3. InjectedOnce'
  <2>1. \A g \in Helpers : process[g] = "gone" => process'[g] = "gone"
    BY DEF TypeOK, FactoriesFit
  <2>2. UNCHANGED <<place, using, performed>>
    OBVIOUS
  <2>3. QED
    BY <2>1, <2>2 DEF InjectedOnce
<1>4. FactoriesFit'
  BY DEF TypeOK, HelpersAreKnown, FactoriesFit, Launching
<1>5. PerformedFits'
  BY DEF TypeOK, PerformedFits, FactoriesFit, InjectedOnce
<1>6. QED
  BY <1>1, <1>2, <1>3, <1>4, <1>5

LEMMA CompleteObtainKeeps ==
  ASSUME IInv, NEW h \in Helpers,
         CompleteObtain(h)
  PROVE  IInv'
<1> USE DEF IInv, CompleteObtain
<1>1. TypeOK'
  BY DEF TypeOK
<1>2. HelpersAreKnown'
  BY DEF TypeOK, HelpersAreKnown, FactoriesFit, Launching
<1>3. InjectedOnce'
  BY DEF TypeOK, InjectedOnce, PerformedFits
<1>4. FactoriesFit'
  BY DEF TypeOK, HelpersAreKnown, FactoriesFit, Launching
<1>5. PerformedFits'
  BY DEF TypeOK, PerformedFits, FactoriesFit, InjectedOnce
<1>6. QED
  BY <1>1, <1>2, <1>3, <1>4, <1>5

LEMMA OpenSucceedsKeeps ==
  ASSUME IInv, NEW h \in Helpers,
         OpenSucceeds(h)
  PROVE  IInv'
<1> USE DEF IInv, OpenSucceeds, Completed
<1>1. TypeOK'
  BY DEF TypeOK
<1>2. HelpersAreKnown'
  BY DEF TypeOK, HelpersAreKnown, FactoriesFit, Launching
<1>3. InjectedOnce'
  BY DEF TypeOK, InjectedOnce, PerformedFits
<1>4. FactoriesFit'
  BY DEF TypeOK, HelpersAreKnown, FactoriesFit, Launching
<1>5. PerformedFits'
  <2>1. \A i \in requests[level[h]] :
            place[i] = "obtaining" /\ reply[i] = "none" /\ i \in Injections
    <3>1. level[h] \in Levels
      BY DEF TypeOK
    <3>2. \A i \in requests[level[h]] : i \in Injections /\ place[i] = "obtaining"
      BY <3>1 DEF TypeOK
    <3>3. \A i \in Injections : place[i] = "obtaining" => reply[i] = "none"
      BY DEF PerformedFits
    <3>4. QED
      BY <3>2, <3>3
  <2>2. \A i \in Injections :
            i \notin requests[level[h]] =>
                place'[i] = place[i] /\ using'[i] = using[i]
    OBVIOUS
  <2>3. \A i \in requests[level[h]] :
            /\ place'[i] \in {"querying", "failed"}
            /\ place'[i] = "querying" => using'[i] \in Helpers
    <3>1. h # None
      OBVIOUS
    <3>2. \A i \in requests[level[h]] :
              place'[i] = "querying" /\ using'[i] = h
      BY <2>1, <3>1 DEF Completed
    <3>3. QED
      BY <3>2
  <2>4. \A i \in requests[level[h]], g \in Helpers : <<i, g>> \notin performed
    BY <2>1 DEF PerformedFits
  <2>5. UNCHANGED <<reply, performed, process>>
    OBVIOUS
  <2> HIDE DEF Completed, IInv
  <2>6. QED
    BY <2>1, <2>2, <2>3, <2>4, <2>5 DEF PerformedFits, IInv
<1>6. QED
  BY <1>1, <1>2, <1>3, <1>4, <1>5

LEMMA OpenFailsKeeps ==
  ASSUME IInv, NEW h \in Helpers,
         OpenFails(h)
  PROVE  IInv'
<1> USE DEF IInv, OpenFails, Completed
<1>1. TypeOK'
  BY DEF TypeOK
<1>2. HelpersAreKnown'
  BY DEF TypeOK, HelpersAreKnown, FactoriesFit, Launching
<1>3. InjectedOnce'
  BY DEF TypeOK, InjectedOnce, PerformedFits
<1>4. FactoriesFit'
  BY DEF TypeOK, HelpersAreKnown, FactoriesFit, Launching
<1>5. PerformedFits'
  <2>1. \A i \in requests[level[h]] :
            place[i] = "obtaining" /\ reply[i] = "none" /\ i \in Injections
    <3>1. level[h] \in Levels
      BY DEF TypeOK
    <3>2. \A i \in requests[level[h]] : i \in Injections /\ place[i] = "obtaining"
      BY <3>1 DEF TypeOK
    <3>3. \A i \in Injections : place[i] = "obtaining" => reply[i] = "none"
      BY DEF PerformedFits
    <3>4. QED
      BY <3>2, <3>3
  <2>2. \A i \in Injections :
            i \notin requests[level[h]] =>
                place'[i] = place[i] /\ using'[i] = using[i]
    OBVIOUS
  <2>3. \A i \in requests[level[h]] :
            /\ place'[i] \in {"querying", "failed"}
            /\ place'[i] = "querying" => using'[i] \in Helpers
    <3>1. \A i \in requests[level[h]] : place'[i] = "failed"
      BY <2>1 DEF Completed
    <3>2. QED
      BY <3>1
  <2>4. \A i \in requests[level[h]], g \in Helpers : <<i, g>> \notin performed
    BY <2>1 DEF PerformedFits
  <2>5. UNCHANGED <<reply, performed, process>>
    OBVIOUS
  <2> HIDE DEF Completed, IInv
  <2>6. QED
    BY <2>1, <2>2, <2>3, <2>4, <2>5 DEF PerformedFits, IInv
<1>6. QED
  BY <1>1, <1>2, <1>3, <1>4, <1>5

LEMMA ProcessExitsKeeps ==
  ASSUME IInv, NEW h \in Helpers,
         ProcessExits(h)
  PROVE  IInv'
<1> USE DEF IInv, ProcessExits
<1>1. TypeOK'
  BY DEF TypeOK
<1>2. HelpersAreKnown'
  BY DEF TypeOK, HelpersAreKnown, FactoriesFit, Launching
<1>3. InjectedOnce'
  BY DEF TypeOK, InjectedOnce, PerformedFits
<1>4. FactoriesFit'
  BY DEF TypeOK, HelpersAreKnown, FactoriesFit, Launching
<1>5. PerformedFits'
  BY DEF TypeOK, PerformedFits, FactoriesFit, InjectedOnce
<1>6. QED
  BY <1>1, <1>2, <1>3, <1>4, <1>5

LEMMA CloseKeeps ==
  ASSUME IInv,
         Close
  PROVE  IInv'
<1> USE DEF IInv, Close
<1>1. TypeOK'
  BY DEF TypeOK
<1>2. HelpersAreKnown'
  BY DEF TypeOK, HelpersAreKnown, FactoriesFit, Launching
<1>3. InjectedOnce'
  BY DEF TypeOK, InjectedOnce, PerformedFits
<1>4. FactoriesFit'
  BY DEF TypeOK, HelpersAreKnown, FactoriesFit, Launching
<1>5. PerformedFits'
  BY DEF TypeOK, PerformedFits, FactoriesFit, InjectedOnce
<1>6. QED
  BY <1>1, <1>2, <1>3, <1>4, <1>5

LEMMA StopHelperKeeps ==
  ASSUME IInv, NEW l \in Levels,
         StopHelper(l)
  PROVE  IInv'
<1> USE DEF IInv, StopHelper
<1>1. TypeOK'
  BY DEF TypeOK
<1>2. HelpersAreKnown'
  BY DEF TypeOK, HelpersAreKnown, FactoriesFit, Launching
<1>3. InjectedOnce'
  BY DEF TypeOK, InjectedOnce, PerformedFits
<1>4. FactoriesFit'
  BY DEF TypeOK, HelpersAreKnown, FactoriesFit, Launching
<1>5. PerformedFits'
  BY DEF TypeOK, PerformedFits, FactoriesFit, InjectedOnce
<1>6. QED
  BY <1>1, <1>2, <1>3, <1>4, <1>5

LEMMA CloseReturnsKeeps ==
  ASSUME IInv, NEW l \in Levels,
         CloseReturns(l)
  PROVE  IInv'
<1> USE DEF IInv, CloseReturns
<1>1. TypeOK'
  BY DEF TypeOK
<1>2. HelpersAreKnown'
  BY DEF TypeOK, HelpersAreKnown, FactoriesFit, Launching
<1>3. InjectedOnce'
  BY DEF TypeOK, InjectedOnce, PerformedFits
<1>4. FactoriesFit'
  BY DEF TypeOK, HelpersAreKnown, FactoriesFit, Launching
<1>5. PerformedFits'
  BY DEF TypeOK, PerformedFits, FactoriesFit, InjectedOnce
<1>6. QED
  BY <1>1, <1>2, <1>3, <1>4, <1>5
-----------------------------------------------------------------------------
LEMMA InitEstablishesIInv == Init => IInv
<1> SUFFICES ASSUME Init PROVE IInv
  OBVIOUS
<1> USE DEF Init
<1>1. TypeOK
  BY DEF TypeOK
<1>2. HelpersAreKnown /\ FactoriesFit
  BY DEF HelpersAreKnown, FactoriesFit, Launching
<1>3. InjectedOnce /\ PerformedFits
  BY DEF InjectedOnce, PerformedFits
<1>4. QED
  BY <1>1, <1>2, <1>3 DEF IInv

LEMMA NextKeepsIInv ==
  ASSUME IInv, [Next]_vars
  PROVE  IInv'
<1>1. CASE UNCHANGED vars
  BY <1>1 DEF vars, IInv, TypeOK, HelpersAreKnown, InjectedOnce, FactoriesFit,
              PerformedFits, Launching
<1>2. ASSUME NEW i \in Injections,
             Injects(i) \/ Answers(i) \/ PerformsAndDies(i)
      PROVE  IInv'
  BY <1>2, InjectKeeps, QueryKeeps, QueryReturnsKeeps, AnswerKeeps,
     PerformsAndDiesKeeps DEF Injects, Answers
<1>3. ASSUME NEW h \in Helpers, Launches(h) \/ ProcessExits(h)
      PROVE  IInv'
  BY <1>3, WorkerExecutesKeeps, CompleteObtainKeeps, OpenSucceedsKeeps,
     OpenFailsKeeps, ProcessExitsKeeps DEF Launches
<1>4. CASE Closes
  BY <1>4, CloseKeeps, StopHelperKeeps, CloseReturnsKeeps DEF Closes
<1>5. QED
  BY <1>1, <1>2, <1>3, <1>4 DEF Next

LEMMA IInvHolds == Spec => []IInv
<1>1. IInv /\ [Next]_vars => IInv'
  BY NextKeepsIInv
<1>2. QED
  BY InitEstablishesIInv, <1>1, PTL DEF Spec

\* Type correctness, and the requests of a factory are the injections that wait.
THEOREM TypeCorrect == Spec => []TypeOK
<1>1. IInv => TypeOK
  BY DEF IInv
<1>2. QED
  BY IInvHolds, <1>1, PTL

\* A factory launches one helper at a time and forgets none that runs.
THEOREM HelpersStayKnown == Spec => []HelpersAreKnown
<1>1. IInv => HelpersAreKnown
  BY DEF IInv
<1>2. QED
  BY IInvHolds, <1>1, PTL

\* An injection is performed once at most, one that is reported to have succeeded was
\* performed, and one that is reported to have failed was not.
THEOREM NeverInjectedTwice == Spec => []InjectedOnce
<1>1. IInv => InjectedOnce
  BY DEF IInv
<1>2. QED
  BY IInvHolds, <1>1, PTL

-----------------------------------------------------------------------------
(* What close and the launching thread leave to each other.                *)

\* Until somebody closes, the factories have the stores Winjector has made, and one
\* that launches a helper has one.
StoresFit ==
    closing = "open" =>
        /\ ~crash /\ lent = store
        /\ \A h \in Helpers : phase[h] = "executing" => level[h] \in lent

LEMMA TryAtKeepsStores ==
  ASSUME IInv, StoresFit, NEW i \in Injections, NEW l \in Levels,
         TryAt(i, l) \/ CannotTry(i, l), UNCHANGED <<closing, crash>>
  PROVE  StoresFit'
<1>1. CASE TryAt(i, l)
  BY <1>1 DEF TryAt, MakesStore, Obtain, StoresFit, IInv, TypeOK
<1>2. CASE CannotTry(i, l)
  BY <1>2 DEF CannotTry, MakesStore, StoresFit, IInv, TypeOK
<1>3. QED
  BY <1>1, <1>2

LEMMA NextKeepsStores ==
  ASSUME IInv, StoresFit, [Next]_vars
  PROVE  StoresFit'
<1>1. CASE UNCHANGED vars
  BY <1>1 DEF vars, StoresFit
<1>2. ASSUME NEW i \in Injections,
             Injects(i) \/ Answers(i) \/ PerformsAndDies(i)
      PROVE  StoresFit'
  <2>1. CASE Inject(i)
    BY <2>1, TryAtKeepsStores DEF Inject
  <2>2. CASE QueryReturns(i)
    <3>1. CASE TryAt(i, "elevated") \/ CannotTry(i, "elevated")
      BY <2>2, <3>1, TryAtKeepsStores DEF QueryReturns
    <3>2. CASE UNCHANGED <<factories, helpers>>
      BY <2>2, <3>2 DEF QueryReturns, StoresFit
    <3>3. QED
      BY <2>2, <3>1, <3>2 DEF QueryReturns
  <2>3. CASE Query(i) \/ Answers(i) \/ PerformsAndDies(i)
    BY <2>3 DEF Query, Answers, Answer, PerformsAndDies, StoresFit
  <2>4. QED
    BY <1>2, <2>1, <2>2, <2>3 DEF Injects
<1>3. ASSUME NEW h \in Helpers, Launches(h) \/ ProcessExits(h)
      PROVE  StoresFit'
  BY <1>3 DEF Launches, WorkerExecutes, Executes, CompleteObtain, OpenSucceeds,
              OpenFails, Completed, ProcessExits, StoresFit, IInv, TypeOK
<1>4. CASE Closes
  BY <1>4 DEF Closes, Close, StopHelper, CloseReturns, StoresFit, IInv, TypeOK
<1>5. QED
  BY <1>1, <1>2, <1>3, <1>4 DEF Next

\* While nobody closes, a launching thread finds its store; and when the close of a
\* factory returns, no helper runs that it can have known.
THEOREM CloseStopsThem == Spec => CloseStopsHelpers
<1>1. Init => StoresFit
  BY DEF Init, StoresFit
<1>2. ASSUME IInv, NEW l \in Levels, CloseReturns(l),
             NEW h \in Helpers, level[h] = l, Alive(h)
      PROVE  h \in Launching(l) \/ phase[h] = "abandoned"
  <2>1. phase[h] # "open"
    BY <1>2 DEF IInv, HelpersAreKnown, CloseReturns
  <2>2. phase[h] # "unborn"
    BY <1>2 DEF IInv, FactoriesFit
  <2>3. QED
    BY <1>2, <2>1, <2>2 DEF IInv, TypeOK, Launching
<1>3. IInv /\ StoresFit /\ [Next]_vars => IInv' /\ StoresFit'
  BY NextKeepsIInv, NextKeepsStores
<1>4. ASSUME IInv, StoresFit, StoresFit', Next
      PROVE  crash' => closing # "open"
  <2>1. SUFFICES ASSUME closing = "open", crash'
                 PROVE  FALSE
    OBVIOUS
  <2>2. closing' # "open"
    BY <1>4, <2>1 DEF StoresFit
  <2>3. CASE Closes
    BY <1>4, <2>1, <2>3 DEF Closes, Close, StopHelper, CloseReturns, StoresFit, Next
  <2>4. CASE UNCHANGED closing
    BY <2>1, <2>2, <2>4
  <2>5. QED
    BY <1>4, <2>3, <2>4
    DEF Next, Injects, Inject, Query, QueryReturns, Answers, Answer, PerformsAndDies,
        Launches, WorkerExecutes, CompleteObtain, OpenSucceeds, OpenFails, ProcessExits
<1>5. IInv /\ StoresFit /\ StoresFit' /\ [Next]_vars =>
          [/\ crash' => closing # "open"
           /\ \A l \in Levels : CloseReturns(l) =>
                  \A h \in Helpers : level[h] = l /\ Alive(h) =>
                      h \in Launching(l) \/ phase[h] = "abandoned"]_vars
  BY <1>2, <1>4
<1>6. QED
  BY InitEstablishesIInv, <1>1, <1>3, <1>5, PTL DEF Spec, CloseStopsHelpers
=============================================================================
