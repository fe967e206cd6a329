---------------------------- MODULE LinjectorProofs ----------------------------
(***************************************************************************)
(* Proofs about Linjector for any processes and any number of injections:  *)
(* every instance in the map is tended, its id is returned before it is    *)
(* announced gone, the agent keeps its memory, and close ends when nothing *)
(* is injected.  And about LinuxHost: it implements Linjector, and the     *)
(* agent's library lasts until it has been loaded.                         *)
(***************************************************************************)
EXTENDS LinuxHost, TLAPS

(* The strengthening that is inductive.                                    *)

\* Ids are handed out in order, and an id stands for one process.
IdsFit ==
    /\ \A i \in Ids : i >= lastId =>
           /\ i \notin instances \cup returned \cup uninjected \cup unread
           /\ pid[i] = None /\ worker[i] = "none" /\ payload[i] = "none"
           /\ writer[i] = "never"
    /\ \A i \in instances : pid[i] \in Pids
    /\ \A i, j \in instances : pid[i] = pid[j] => i = j

\* What the FIFO says of the worker.
FifoFits ==
    /\ \A i \in Ids : writer[i] = "closed" => worker[i] \in {"leaving", "gone"}
    /\ \A i \in Ids : <<"uninject", i>> \in tasks => writer[i] = "closed"

\* inject has returned when it leaves its instance to another task.
ReturnedFits ==
    /\ \A i \in Ids :
           <<"monitor", i>> \in tasks \/ <<"uninject", i>> \in tasks =>
               i \in returned
    /\ uninjected \subseteq returned

CloseFits ==
    /\ handlers > 0 => closing \in {"waiting", "done"}
    /\ closing = "waiting" => handlers > 0

IInv ==
    /\ TypeOK /\ EachInstanceIsTended /\ AgentKeepsItsMemory /\ CloseEndsOnce
    /\ IdsFit /\ FifoFits /\ ReturnedFits /\ CloseFits
-----------------------------------------------------------------------------
USE NoneIsNoPid, MaxInjectionsIsNat, ReadsFailIsBoolean
USE DEF Ids, target, caller

\* What _on_uninject does to an instance that is in the map.
LEMMA OnUninjectTakesOut ==
  ASSUME IInv, NEW t \in {"monitor", "uninject"}, NEW i \in instances,
         OnUninject(t, i)
  PROVE  /\ instances' = instances \ {i} /\ fifos' = fifos \ {pid[i]}
         /\ tasks' = tasks \ {<<t, i>>} /\ uninjected' = uninjected \cup {i}
         /\ payload' \in {payload, [payload EXCEPT ![i] = "unmapped"]}
         /\ traced \subseteq traced' /\ traced' \subseteq alive
         /\ ResumeClose(instances \ {i})
         /\ UNCHANGED <<lastId, pid, returned, writer, byte, worker, alive,
                        aborted>>
<1>1. i \in Ids /\ payload = [payload EXCEPT ![i] = payload[i]]
      /\ payload = [payload EXCEPT ![i] = payload[i]] /\ traced \subseteq alive
  BY DEF IInv, TypeOK
<1>2. PICK o \in FreeOutcomes(i) :
          /\ payload' = [payload EXCEPT ![i] = o[1]]
          /\ traced' = traced \cup o[2]
  BY DEF OnUninject
<1>3. o[1] \in {payload[i], "unmapped"} /\ o[2] \subseteq alive
  BY <1>2 DEF FreeOutcomes, Attachable
<1>4. payload' \in {payload, [payload EXCEPT ![i] = "unmapped"]}
  BY <1>1, <1>2, <1>3
<1>5. QED
  BY <1>1, <1>2, <1>3, <1>4 DEF OnUninject, Unlinked, Finished

\* It keeps the invariant if its worker has closed the FIFO, or could not be heard.
LEMMA OnUninjectKeeps ==
  ASSUME IInv, NEW t \in {"monitor", "uninject"}, NEW i \in Ids,
         <<t, i>> \in tasks, aborted = "no", OnUninject(t, i),
         unread' = unread \/ unread' = unread \cup {i},
         writer[i] = "closed" \/ i \in unread'
  PROVE  IInv' /\ i \in returned
<1> USE DEF IInv
<1>1. i \in instances /\ i \in returned
  BY DEF EachInstanceIsTended, ReturnedFits
<1>2. /\ instances' = instances \ {i} /\ fifos' = fifos \ {pid[i]}
      /\ tasks' = tasks \ {<<t, i>>} /\ uninjected' = uninjected \cup {i}
      /\ payload' \in {payload, [payload EXCEPT ![i] = "unmapped"]}
      /\ traced \subseteq traced' /\ traced' \subseteq alive
      /\ ResumeClose(instances \ {i})
      /\ UNCHANGED <<lastId, pid, returned, writer, byte, worker, alive,
                     aborted>>
  BY <1>1, OnUninjectTakesOut
<1>3. /\ closing' \in {"open", "base", "waiting", "done"}
      /\ handlers' \in Nat /\ lateResume' \in BOOLEAN
      /\ CloseEndsOnce' /\ CloseFits'
  <2> USE <1>1, <1>2 DEF StillInjected, Connected, CloseEndsOnce, CloseFits,
                         TypeOK
  <2>1. closing # "done"
    OBVIOUS
  <2>2. CASE handlers > 0 /\ instances \ {i} # {}
    BY <2>1, <2>2 DEF ResumeClose
  <2>3. CASE handlers > 0 /\ instances \ {i} = {}
    <3>1. closing = "waiting"
      BY <2>1, <2>3 DEF CloseFits
    <3>2. closing' = "done" /\ UNCHANGED handlers
      BY <2>3 DEF ResumeClose
    <3>3. lateResume' = (lateResume \/ handlers > 1)
      BY <2>3, <3>1 DEF ResumeClose
    <3>4. lateResume' \in BOOLEAN
      BY <3>3
    <3>5. handlers <= 1 => ~lateResume'
      BY <3>3
    <3>6. QED
      BY <2>3, <3>2, <3>4, <3>5
  <2>4. CASE handlers = 0
    BY <2>1, <2>4 DEF ResumeClose
  <2>5. QED
    BY <2>2, <2>3, <2>4
<1>4. TypeOK'
  BY <1>1, <1>2, <1>3 DEF TypeOK
<1>5. EachInstanceIsTended'
  <2>1. fifos' = {pid[j] : j \in instances'}
    BY <1>1, <1>2 DEF EachInstanceIsTended, IdsFit
  <2>2. \A j \in instances' : j \in unread' \/ \E u \in tasks' : u[2] = j
    BY <1>1, <1>2 DEF EachInstanceIsTended
  <2>3. \A u \in tasks' : u[2] \in instances'
    BY <1>1, <1>2 DEF EachInstanceIsTended
  <2>4. QED
    BY <1>2, <2>1, <2>2, <2>3 DEF EachInstanceIsTended
<1>6. AgentKeepsItsMemory'
  BY <1>1, <1>2 DEF AgentKeepsItsMemory, FifoFits, TypeOK
<1>7. IdsFit'
  BY <1>1, <1>2 DEF IdsFit, TypeOK
<1>8. FifoFits' /\ ReturnedFits'
  BY <1>1, <1>2 DEF FifoFits, ReturnedFits
<1>9. QED
  BY <1>1, <1>3, <1>4, <1>5, <1>6, <1>7, <1>8

LEMMA MkfifoFailsKeeps ==
  ASSUME IInv, NEW p \in Pids, MkfifoFails(p)
  PROVE  IInv'
<1> USE DEF IInv, MkfifoFails, MayAttach
<1>1. TypeOK'
  BY DEF TypeOK
<1>2. EachInstanceIsTended'
  BY DEF TypeOK, EachInstanceIsTended, IdsFit
<1>3. AgentKeepsItsMemory' /\ FifoFits' /\ ReturnedFits'
  BY DEF TypeOK, AgentKeepsItsMemory, EachInstanceIsTended, IdsFit, FifoFits,
         ReturnedFits
<1>4. CloseEndsOnce' /\ CloseFits'
  BY DEF TypeOK, CloseEndsOnce, CloseFits
<1>5. IdsFit'
  BY DEF TypeOK, EachInstanceIsTended, IdsFit
<1>6. QED
  BY <1>1, <1>2, <1>3, <1>4, <1>5

LEMMA InjectKeeps ==
  ASSUME IInv, NEW p \in Pids, Inject(p)
  PROVE  IInv'
<1> USE DEF IInv, Inject, MayAttach, Attachable
<1>1. TypeOK'
  BY DEF TypeOK
<1>2. EachInstanceIsTended'
  <2>1. fifos' = {pid'[j] : j \in instances'}
    BY DEF TypeOK, EachInstanceIsTended, IdsFit
  <2>2. \A u \in tasks : u[2] # lastId
    BY DEF EachInstanceIsTended, IdsFit, TypeOK
  <2>3. \A u, w \in tasks' : u[2] = w[2] => u = w
    BY <2>2 DEF EachInstanceIsTended
  <2>4. \A j \in instances' : j \in unread' \/ \E u \in tasks' : u[2] = j
    <3>1. <<"inject", lastId>> \in tasks' /\ <<"inject", lastId>>[2] = lastId
      OBVIOUS
    <3>2. QED
      BY <3>1 DEF EachInstanceIsTended
  <2>5. QED
    BY <2>1, <2>3, <2>4 DEF EachInstanceIsTended
<1>3. AgentKeepsItsMemory' /\ FifoFits' /\ ReturnedFits'
  BY DEF TypeOK, AgentKeepsItsMemory, EachInstanceIsTended, IdsFit, FifoFits,
         ReturnedFits
<1>4. CloseEndsOnce' /\ CloseFits'
  BY DEF TypeOK, CloseEndsOnce, CloseFits
<1>5. IdsFit'
  BY DEF TypeOK, EachInstanceIsTended, IdsFit
<1>6. QED
  BY <1>1, <1>2, <1>3, <1>4, <1>5

LEMMA InjectFailsKeeps ==
  ASSUME IInv, NEW p \in Pids,
         NEW attached \in BOOLEAN, NEW mapped \in BOOLEAN, InjectFails(p, attached, mapped)
  PROVE  IInv'
<1> USE DEF IInv, InjectFails, MayAttach, Attachable, Unlinked
<1>1. TypeOK'
  BY DEF TypeOK
<1>2. EachInstanceIsTended'
  BY DEF TypeOK, EachInstanceIsTended, IdsFit
<1>3. AgentKeepsItsMemory' /\ FifoFits' /\ ReturnedFits'
  BY DEF TypeOK, AgentKeepsItsMemory, EachInstanceIsTended, IdsFit, FifoFits,
         ReturnedFits
<1>4. CloseEndsOnce' /\ CloseFits'
  BY DEF TypeOK, CloseEndsOnce, CloseFits
<1>5. IdsFit'
  BY DEF TypeOK, EachInstanceIsTended, IdsFit
<1>6. QED
  BY <1>1, <1>2, <1>3, <1>4, <1>5

LEMMA InjectReadsByteKeeps ==
  ASSUME IInv, NEW i \in Ids, InjectReadsByte(i)
  PROVE  IInv'
<1> USE DEF IInv, InjectReadsByte, Finished, AfterFirstByte
<1>1. TypeOK'
  BY DEF TypeOK
<1>2. EachInstanceIsTended'
  <2>1. tasks' = (tasks \ {<<"inject", i>>}) \cup {<<"monitor", i>>}
    BY DEF Finished
  <2>2. <<"inject", i>>[2] = i /\ <<"monitor", i>>[2] = i
    OBVIOUS
  <2>3. \A u, w \in tasks' : u[2] = w[2] => u = w
    BY <2>1, <2>2 DEF EachInstanceIsTended
  <2>4. \A j \in instances' : j \in unread' \/ \E u \in tasks' : u[2] = j
    BY <2>1, <2>2 DEF EachInstanceIsTended
  <2>5. \A u \in tasks' : u[2] \in instances'
    BY <2>1, <2>2 DEF EachInstanceIsTended
  <2>6. QED
    BY <2>3, <2>4, <2>5 DEF EachInstanceIsTended
<1>3. AgentKeepsItsMemory' /\ FifoFits' /\ ReturnedFits'
  BY DEF TypeOK, AgentKeepsItsMemory, EachInstanceIsTended, IdsFit, FifoFits,
         ReturnedFits
<1>4. CloseEndsOnce' /\ CloseFits'
  BY DEF TypeOK, CloseEndsOnce, CloseFits
<1>5. IdsFit'
  BY DEF TypeOK, EachInstanceIsTended, IdsFit
<1>6. QED
  BY <1>1, <1>2, <1>3, <1>4, <1>5

LEMMA InjectReadsNothingKeeps ==
  ASSUME IInv, NEW i \in Ids, InjectReadsNothing(i)
  PROVE  IInv'
<1> USE DEF IInv, InjectReadsNothing, Finished, ReadsNothing
<1>1. TypeOK'
  BY DEF TypeOK
<1>2. EachInstanceIsTended'
  <2>1. tasks' = (tasks \ {<<"inject", i>>}) \cup {<<"uninject", i>>}
    BY DEF Finished
  <2>2. <<"inject", i>>[2] = i /\ <<"uninject", i>>[2] = i
    OBVIOUS
  <2>3. \A u, w \in tasks' : u[2] = w[2] => u = w
    BY <2>1, <2>2 DEF EachInstanceIsTended
  <2>4. \A j \in instances' : j \in unread' \/ \E u \in tasks' : u[2] = j
    BY <2>1, <2>2 DEF EachInstanceIsTended
  <2>5. \A u \in tasks' : u[2] \in instances'
    BY <2>1, <2>2 DEF EachInstanceIsTended
  <2>6. QED
    BY <2>3, <2>4, <2>5 DEF EachInstanceIsTended
<1>3. AgentKeepsItsMemory' /\ FifoFits' /\ ReturnedFits'
  BY DEF TypeOK, AgentKeepsItsMemory, EachInstanceIsTended, IdsFit, FifoFits,
         ReturnedFits
<1>4. CloseEndsOnce' /\ CloseFits'
  BY DEF TypeOK, CloseEndsOnce, CloseFits
<1>5. IdsFit'
  BY DEF TypeOK, EachInstanceIsTended, IdsFit
<1>6. QED
  BY <1>1, <1>2, <1>3, <1>4, <1>5

LEMMA InjectReadFailsKeeps ==
  ASSUME IInv, NEW i \in Ids, InjectReadFails(i)
  PROVE  IInv'
<1> USE DEF IInv, InjectReadFails, Finished
<1>1. TypeOK'
  BY DEF TypeOK
<1>2. EachInstanceIsTended'
  BY DEF TypeOK, EachInstanceIsTended, IdsFit
<1>3. AgentKeepsItsMemory' /\ FifoFits' /\ ReturnedFits'
  BY DEF TypeOK, AgentKeepsItsMemory, EachInstanceIsTended, IdsFit, FifoFits,
         ReturnedFits
<1>4. CloseEndsOnce' /\ CloseFits'
  BY DEF TypeOK, CloseEndsOnce, CloseFits
<1>5. IdsFit'
  BY DEF TypeOK, EachInstanceIsTended, IdsFit
<1>6. QED
  BY <1>1, <1>2, <1>3, <1>4, <1>5

LEMMA WorkerOpensKeeps ==
  ASSUME IInv, NEW i \in Ids, WorkerOpens(i)
  PROVE  IInv'
<1> USE DEF IInv, WorkerOpens
<1>1. TypeOK'
  BY DEF TypeOK
<1>2. EachInstanceIsTended'
  BY DEF TypeOK, EachInstanceIsTended, IdsFit
<1>3. AgentKeepsItsMemory' /\ FifoFits' /\ ReturnedFits'
  BY DEF TypeOK, AgentKeepsItsMemory, EachInstanceIsTended, IdsFit, FifoFits,
         ReturnedFits
<1>4. CloseEndsOnce' /\ CloseFits'
  BY DEF TypeOK, CloseEndsOnce, CloseFits
<1>5. IdsFit'
  BY DEF TypeOK, EachInstanceIsTended, IdsFit
<1>6. QED
  BY <1>1, <1>2, <1>3, <1>4, <1>5

LEMMA WorkerWritesKeeps ==
  ASSUME IInv, NEW i \in Ids, WorkerWrites(i)
  PROVE  IInv'
<1> USE DEF IInv, WorkerWrites
<1>1. TypeOK'
  BY DEF TypeOK
<1>2. EachInstanceIsTended'
  BY DEF TypeOK, EachInstanceIsTended, IdsFit
<1>3. AgentKeepsItsMemory' /\ FifoFits' /\ ReturnedFits'
  BY DEF TypeOK, AgentKeepsItsMemory, EachInstanceIsTended, IdsFit, FifoFits,
         ReturnedFits
<1>4. CloseEndsOnce' /\ CloseFits'
  BY DEF TypeOK, CloseEndsOnce, CloseFits
<1>5. IdsFit'
  BY DEF TypeOK, EachInstanceIsTended, IdsFit
<1>6. QED
  BY <1>1, <1>2, <1>3, <1>4, <1>5

LEMMA WorkerClosesKeeps ==
  ASSUME IInv, NEW i \in Ids, WorkerCloses(i)
  PROVE  IInv'
<1> USE DEF IInv, WorkerCloses
<1>1. TypeOK'
  BY DEF TypeOK
<1>2. EachInstanceIsTended'
  BY DEF TypeOK, EachInstanceIsTended, IdsFit
<1>3. AgentKeepsItsMemory' /\ FifoFits' /\ ReturnedFits'
  BY DEF TypeOK, AgentKeepsItsMemory, EachInstanceIsTended, IdsFit, FifoFits,
         ReturnedFits
<1>4. CloseEndsOnce' /\ CloseFits'
  BY DEF TypeOK, CloseEndsOnce, CloseFits
<1>5. IdsFit'
  BY DEF TypeOK, EachInstanceIsTended, IdsFit
<1>6. QED
  BY <1>1, <1>2, <1>3, <1>4, <1>5

LEMMA WorkerReturnsKeeps ==
  ASSUME IInv, NEW i \in Ids, WorkerReturns(i)
  PROVE  IInv'
<1> USE DEF IInv, WorkerReturns
<1>1. TypeOK'
  BY DEF TypeOK
<1>2. EachInstanceIsTended'
  BY DEF TypeOK, EachInstanceIsTended, IdsFit
<1>3. AgentKeepsItsMemory' /\ FifoFits' /\ ReturnedFits'
  BY DEF TypeOK, AgentKeepsItsMemory, EachInstanceIsTended, IdsFit, FifoFits,
         ReturnedFits
<1>4. CloseEndsOnce' /\ CloseFits'
  BY DEF TypeOK, CloseEndsOnce, CloseFits
<1>5. IdsFit'
  BY DEF TypeOK, EachInstanceIsTended, IdsFit
<1>6. QED
  BY <1>1, <1>2, <1>3, <1>4, <1>5

LEMMA TargetDiesKeeps ==
  ASSUME IInv, NEW p \in Pids, TargetDies(p)
  PROVE  IInv'
<1> USE DEF IInv, TargetDies
<1>1. TypeOK'
  BY DEF TypeOK
<1>2. EachInstanceIsTended'
  BY DEF TypeOK, EachInstanceIsTended, IdsFit
<1>3. AgentKeepsItsMemory' /\ FifoFits' /\ ReturnedFits'
  BY DEF TypeOK, AgentKeepsItsMemory, EachInstanceIsTended, IdsFit, FifoFits,
         ReturnedFits
<1>4. CloseEndsOnce' /\ CloseFits'
  BY DEF TypeOK, CloseEndsOnce, CloseFits
<1>5. IdsFit'
  BY DEF TypeOK, EachInstanceIsTended, IdsFit
<1>6. QED
  BY <1>1, <1>2, <1>3, <1>4, <1>5

LEMMA CloseKeeps ==
  ASSUME IInv, Close
  PROVE  IInv'
<1> USE DEF IInv, Close
<1>1. TypeOK'
  BY DEF TypeOK
<1>2. EachInstanceIsTended'
  BY DEF TypeOK, EachInstanceIsTended, IdsFit
<1>3. AgentKeepsItsMemory' /\ FifoFits' /\ ReturnedFits'
  BY DEF TypeOK, AgentKeepsItsMemory, EachInstanceIsTended, IdsFit, FifoFits,
         ReturnedFits
<1>4. CloseEndsOnce' /\ CloseFits'
  BY DEF TypeOK, CloseEndsOnce, CloseFits
<1>5. IdsFit'
  BY DEF TypeOK, EachInstanceIsTended, IdsFit
<1>6. QED
  BY <1>1, <1>2, <1>3, <1>4, <1>5

LEMMA BaseClosedKeeps ==
  ASSUME IInv, BaseClosed
  PROVE  IInv'
<1> USE DEF IInv, BaseClosed, StillInjected, Connected
<1>1. TypeOK'
  BY DEF TypeOK
<1>2. EachInstanceIsTended'
  BY DEF TypeOK, EachInstanceIsTended, IdsFit
<1>3. AgentKeepsItsMemory' /\ FifoFits' /\ ReturnedFits'
  BY DEF TypeOK, AgentKeepsItsMemory, EachInstanceIsTended, IdsFit, FifoFits,
         ReturnedFits
<1>4. CloseEndsOnce' /\ CloseFits'
  BY DEF TypeOK, CloseEndsOnce, CloseFits
<1>5. IdsFit'
  BY DEF TypeOK, EachInstanceIsTended, IdsFit
<1>6. QED
  BY <1>1, <1>2, <1>3, <1>4, <1>5

LEMMA UninjectingKeeps ==
  ASSUME IInv, NEW i \in Ids,
         IdleUninject(i) \/ MonitorReads(i) \/ MonitorReadFails(i)
  PROVE  IInv' /\ i \in returned /\ uninjected' \subseteq uninjected \cup {i}
<1>1. PICK t \in {"monitor", "uninject"} :
          /\ <<t, i>> \in tasks /\ aborted = "no" /\ OnUninject(t, i)
          /\ unread' = unread \/ unread' = unread \cup {i}
          /\ writer[i] = "closed" \/ i \in unread'
  BY DEF IdleUninject, MonitorReads, MonitorReadFails, IInv, FifoFits
<1>2. i \in instances
  BY <1>1 DEF IInv, EachInstanceIsTended
<1>3. uninjected' = uninjected \cup {i}
  BY <1>1, <1>2, OnUninjectTakesOut
<1>4. QED
  BY <1>1, <1>3, OnUninjectKeeps
-----------------------------------------------------------------------------
LEMMA InitEstablishesIInv == Init => IInv
<1> SUFFICES ASSUME Init PROVE IInv
  OBVIOUS
<1> USE DEF Init
<1>1. TypeOK
  <2>1. lastId \in 1..(MaxInjections + 1) /\ handlers \in Nat
    OBVIOUS
  <2>2. QED
    BY <2>1 DEF TypeOK
<1>2. /\ EachInstanceIsTended /\ IdsFit /\ AgentKeepsItsMemory
      /\ CloseEndsOnce
  BY DEF EachInstanceIsTended, IdsFit, AgentKeepsItsMemory, CloseEndsOnce
<1>3. FifoFits /\ ReturnedFits /\ CloseFits
  BY DEF FifoFits, ReturnedFits, CloseFits
<1>4. QED
  BY <1>1, <1>2, <1>3 DEF IInv

\* A step keeps the invariant, and announces only what inject has returned.
LEMMA NextKeepsIInv ==
  ASSUME IInv, [Next]_vars
  PROVE  IInv' /\ uninjected' \subseteq uninjected \cup returned
<1>1. CASE UNCHANGED vars
  BY <1>1 DEF vars, IInv, TypeOK, EachInstanceIsTended, AgentKeepsItsMemory,
              CloseEndsOnce, IdsFit, FifoFits, ReturnedFits, CloseFits
<1>2. ASSUME NEW p \in Pids, MkfifoFails(p) \/ Inject(p) \/ TargetDies(p)
      PROVE  IInv' /\ UNCHANGED uninjected
  BY <1>2, MkfifoFailsKeeps, InjectKeeps, TargetDiesKeeps
     DEF MkfifoFails, Inject, TargetDies
<1>3. ASSUME NEW p \in Pids, NEW attached \in BOOLEAN, NEW mapped \in BOOLEAN,
             InjectFails(p, attached, mapped)
      PROVE  IInv' /\ UNCHANGED uninjected
  BY <1>3, InjectFailsKeeps DEF InjectFails
<1>4. ASSUME NEW i \in Ids,
             \/ InjectReadsByte(i) \/ InjectReadsNothing(i)
             \/ InjectReadFails(i)
      PROVE  IInv' /\ UNCHANGED uninjected
  BY <1>4, InjectReadsByteKeeps, InjectReadsNothingKeeps, InjectReadFailsKeeps
     DEF InjectReadsByte, InjectReadsNothing, InjectReadFails
<1>5. ASSUME NEW i \in Ids,
             IdleUninject(i) \/ MonitorReads(i) \/ MonitorReadFails(i)
      PROVE  IInv' /\ uninjected' \subseteq uninjected \cup returned
  BY <1>5, UninjectingKeeps
<1>6. ASSUME NEW i \in Ids,
             \/ WorkerOpens(i) \/ WorkerWrites(i) \/ WorkerCloses(i)
             \/ WorkerReturns(i)
      PROVE  IInv' /\ UNCHANGED uninjected
  BY <1>6, WorkerOpensKeeps, WorkerWritesKeeps, WorkerClosesKeeps,
     WorkerReturnsKeeps
     DEF WorkerOpens, WorkerWrites, WorkerCloses, WorkerReturns
<1>7. CASE Close \/ BaseClosed
  BY <1>7, CloseKeeps, BaseClosedKeeps DEF Close, BaseClosed
<1>8. QED
  BY <1>1, <1>2, <1>3, <1>4, <1>5, <1>6, <1>7 DEF Next

LEMMA IInvHolds == Spec => []IInv
<1>1. IInv /\ [Next]_vars => IInv'
  BY NextKeepsIInv
<1>2. QED
  BY InitEstablishesIInv, <1>1, PTL DEF Spec

\* Type correctness.
THEOREM TypeCorrect == Spec => []TypeOK
<1>1. IInv => TypeOK
  BY DEF IInv
<1>2. QED
  BY IInvHolds, <1>1, PTL

\* An instance in the map has its FIFO and one task that will take it out, or a
\* failed read has left it behind; assert (found) never fails.
THEOREM InstancesAreTended == Spec => []EachInstanceIsTended
<1>1. IInv => EachInstanceIsTended
  BY DEF IInv
<1>2. QED
  BY IInvHolds, <1>1, PTL

\* The agent's memory is not unmapped before its thread has closed the FIFO.
THEOREM AgentsKeepTheirMemory == Spec => []AgentKeepsItsMemory
<1>1. IInv => AgentKeepsItsMemory
  BY DEF IInv
<1>2. QED
  BY IInvHolds, <1>1, PTL

\* close completes when nothing is injected, and once if it went round once.
THEOREM CloseEndsProperly == Spec => []CloseEndsOnce
<1>1. IInv => CloseEndsOnce
  BY DEF IInv
<1>2. QED
  BY IInvHolds, <1>1, PTL

\* uninjected is emitted only with ids that inject has returned.
THEOREM AnnouncedAfterReturn == Spec => ReturnedBeforeUninjected
<1>1. IInv /\ [Next]_vars => [uninjected' \subseteq returned]_vars
  BY NextKeepsIInv DEF IInv, ReturnedFits
<1>2. QED
  BY IInvHolds, <1>1, PTL DEF Spec, ReturnedBeforeUninjected
-----------------------------------------------------------------------------
(* LinuxHost.                                                              *)

USE DEF host

LEMMA HostStep ==
  ASSUME IInv, [HostNext]_allVars
  PROVE  [Next]_vars
<1>1. CASE UNCHANGED allVars
  BY <1>1 DEF allVars
<1>2. CASE Service
  <2>1. CASE StopService
    BY <2>1 DEF StopService, Next
  <2>2. CASE ~StopService
    BY <1>2, <2>2 DEF Service, StartService, ServiceStarted, CreateHostSession,
                      LocalStopped, ServiceStopped
  <2>3. QED
    BY <2>1, <2>2
<1>3. CASE Ending
  BY <1>3 DEF Ending, Next
<1>4. CASE Others
  BY <1>4 DEF Others, Next
<1>5. ASSUME NEW p \in Pids, AttachTo(p)
      PROVE  Next
  BY <1>5 DEF AttachTo, Next
<1>6. ASSUME NEW i \in Ids, WorkerLoads(i)
      PROVE  UNCHANGED vars
  BY <1>6 DEF WorkerLoads
<1>7. ASSUME NEW i \in Ids, WorkerCrashes(i)
      PROVE  Next
  <2>1. pid[i] \in Pids
    BY <1>7 DEF WorkerCrashes, TargetDies, IInv, TypeOK
  <2>2. QED
    BY <1>7, <2>1 DEF WorkerCrashes, Next
<1>8. QED
  BY <1>1, <1>2, <1>3, <1>4, <1>5, <1>6, <1>7 DEF HostNext

\* What keeps the file where it is: an agent on its way is in the map, and while
\* the map is not empty nobody has closed the host session.
HostInv ==
    /\ HostOK
    /\ library = "deleted" => closing = "done"
    /\ closing = "done" => library # "there"
    /\ instances # {} => library = "there"
    /\ ~session => instances = {} /\ library # "there"
    /\ service \in {"tcp", "stopped"} => ~session
    /\ \A i \in Ids \ unread :
           worker[i] \in {"created", "opened", "agent"} => i \in instances

LEMMA AttachToKeeps ==
  ASSUME IInv, HostInv, NEW p \in Pids, AttachTo(p)
  PROVE  HostInv'
<1> USE DEF HostInv, HostOK, AttachTo, Written, MayAttach
<1>1. CASE MkfifoFails(p)
  BY <1>1 DEF MkfifoFails
<1>2. CASE Inject(p)
  BY <1>2 DEF Inject, IInv, TypeOK
<1>3. CASE \E attached, mapped \in BOOLEAN : InjectFails(p, attached, mapped)
  BY <1>3 DEF InjectFails
<1>4. QED
  BY <1>1, <1>2, <1>3

LEMMA UninjectingKeepsLibrary ==
  ASSUME IInv, IInv', HostInv, NEW i \in Ids,
         IdleUninject(i) \/ MonitorReads(i) \/ MonitorReadFails(i),
         LibraryKept, UNCHANGED <<service, session, loaded>>
  PROVE  HostInv'
<1>1. PICK t \in {"monitor", "uninject"} :
          /\ <<t, i>> \in tasks /\ OnUninject(t, i)
          /\ unread' = unread \/ unread' = unread \cup {i}
          /\ writer[i] = "closed" \/ i \in unread'
  BY DEF IdleUninject, MonitorReads, MonitorReadFails, IInv, FifoFits
<1>2. i \in instances
  BY <1>1 DEF IInv, EachInstanceIsTended
<1>3. instances' = instances \ {i} /\ UNCHANGED worker
  BY <1>1, <1>2, OnUninjectTakesOut
<1>4. worker[i] \in {"leaving", "gone"} \/ i \in unread'
  BY <1>1 DEF IInv, FifoFits
<1>5. closing' = "done" => instances' = {}
  BY DEF IInv, CloseEndsOnce
<1>6. library = "there" /\ session
  BY <1>2 DEF HostInv
<1>7. library' = IF closing' = "done" THEN "deleted" ELSE "there"
  BY <1>6 DEF LibraryKept, Owned
<1>8. QED
  BY <1>1, <1>3, <1>4, <1>5, <1>6, <1>7 DEF HostInv, HostOK

LEMMA HostNextKeepsHostInv ==
  ASSUME IInv, IInv', HostInv, [HostNext]_allVars
  PROVE  HostInv'
<1>1. CASE UNCHANGED allVars
  BY <1>1 DEF allVars, vars, target, caller, HostInv, HostOK
<1>2. CASE Service
  <2> USE DEF HostInv, HostOK
  <2>1. CASE StartService \/ ServiceStarted \/ ServiceStopped
    <3>1. UNCHANGED <<closing, instances, worker, unread, session, library, loaded>>
      BY <2>1 DEF StartService, ServiceStarted, ServiceStopped, vars
    <3>2. /\ service' \in {"starting", "started", "stopped"}
          /\ service' = "stopped" => service = "tcp"
      BY <2>1 DEF StartService, ServiceStarted, ServiceStopped
    <3>3. QED
      BY <3>1, <3>2
  <2>2. CASE CreateHostSession
    BY <2>2 DEF CreateHostSession, Available, vars
  <2>3. CASE StopService
    BY <2>3 DEF StopService, Close, vars
  <2>4. CASE LocalStopped
    BY <2>4 DEF LocalStopped, Awaited, vars, IInv, CloseEndsOnce
  <2>5. QED
    BY <1>2, <2>1, <2>2, <2>3, <2>4 DEF Service
<1>3. CASE Ending
  <2>1. CASE BaseClosed
    <3>1. /\ closing = "base" /\ closing' \in {"waiting", "done"}
          /\ closing' = "done" => instances = {}
          /\ UNCHANGED <<instances, worker, unread>>
      BY <2>1 DEF BaseClosed, StillInjected
    <3>2. library' = IF library = "there" /\ closing' = "done"
                     THEN "deleted" ELSE library
      BY <1>3 DEF Ending, LibraryKept, Owned
    <3>3. QED
      BY <1>3, <3>1, <3>2 DEF Ending, HostInv, HostOK
  <2>2. QED
    BY <1>3, <2>1, UninjectingKeepsLibrary DEF Ending
<1>4. CASE Others
  <2> USE <1>4 DEF Others, HostInv, HostOK
  <2>1. CASE \E p \in Pids : TargetDies(p)
    BY <2>1 DEF TargetDies
  <2>2. ASSUME NEW i \in Ids,
               \/ InjectReadsByte(i) \/ InjectReadsNothing(i)
               \/ InjectReadFails(i)
        PROVE  HostInv'
    BY <2>2 DEF InjectReadsByte, InjectReadsNothing, InjectReadFails
  <2>3. ASSUME NEW i \in Ids,
               WorkerOpens(i) \/ WorkerWrites(i) \/ WorkerReturns(i) \/ WorkerCloses(i)
        PROVE  HostInv'
    BY <2>3 DEF WorkerOpens, WorkerWrites, WorkerReturns, WorkerCloses, IInv, TypeOK
  <2>4. QED
    BY <2>1, <2>2, <2>3
<1>5. CASE \E i \in Ids : WorkerLoads(i)
  BY <1>5 DEF WorkerLoads, vars, HostInv, HostOK
<1>6. CASE \E i \in Ids : WorkerCrashes(i)
  BY <1>6 DEF WorkerCrashes, TargetDies, HostInv, HostOK
<1>7. QED
  BY <1>1, <1>2, <1>3, <1>4, <1>5, <1>6, AttachToKeeps DEF HostNext

LEMMA HostInvHolds == HostSpec => [](IInv /\ HostInv)
<1>1. HostInit => IInv /\ HostInv
  BY InitEstablishesIInv DEF HostInit, HostInv, HostOK, Init
<1>2. IInv /\ HostInv /\ [HostNext]_allVars => IInv' /\ HostInv'
  BY HostStep, NextKeepsIInv, HostNextKeepsHostInv
<1>3. QED
  BY <1>1, <1>2, PTL DEF HostSpec

\* Every behaviour of the service, the provider and the injector is one of Linjector,
\* whose theorems therefore hold of it.
THEOREM HostImplementsLinjector == HostSpec => Spec
<1>1. HostInit => Init
  BY DEF HostInit
<1>2. IInv /\ [HostNext]_allVars => [Next]_vars
  BY HostStep
<1>3. QED
  BY <1>1, <1>2, HostInvHolds, PTL DEF HostSpec, Spec

\* What the service, the provider and the library's file are in is always of its type.
THEOREM HostTypeCorrect == HostSpec => []HostOK
<1>1. HostInv => HostOK
  BY DEF HostInv
<1>2. QED
  BY HostInvHolds, <1>1, PTL

\* The agent's library is there until every worker on its way has loaded it, and
\* deleted when the service has stopped, whose close is resumed no more.
THEOREM LibraryLasts == HostSpec => []LibraryLastsAsNeeded
<1>1. IInv /\ HostInv => LibraryLastsAsNeeded
  BY DEF HostInv, IInv, LibraryLastsAsNeeded, Needs
<1>2. QED
  BY HostInvHolds, <1>1, PTL
=============================================================================
