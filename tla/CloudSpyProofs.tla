--------------------------- MODULE CloudSpyProofs ---------------------------
(***************************************************************************)
(* Proofs about CloudSpyPromise for any set of callbacks and any nesting   *)
(* of flushes: every callback runs at most once and only for the outcome   *)
(* it asked for, none is lost between the arrays, the promise is not freed *)
(* under anybody's feet, and it implements OneShotPromise.  The plugin of  *)
(* CloudSpyPlugin uses the promise as CloudSpyPromise says, so all of this *)
(* holds there; and for any instances no root is freed under anybody's     *)
(* feet either.                                                            *)
(*                                                                         *)
(* The second part is about the root object itself, CloudSpyRoot: for any  *)
(* devices, processes and calls of the page the variables keep their       *)
(* types, and as long as nothing races, the scripts that run are those the *)
(* page has been told of.                                                  *)
(***************************************************************************)
EXTENDS CloudSpyPlugin, CloudSpyRoot, SequenceTheorems, TLAPS

\* A list without one of its elements, such as the root's list of devices.
LEMMA OneDeviceLess ==
  ASSUME NEW T, NEW s \in Seq(T), NEW n \in 1..Len(s)
  PROVE  /\ RemoveAt(s, n) \in Seq(T)
         /\ Len(RemoveAt(s, n)) = Len(s) - 1
         /\ \A m \in 1..Len(s) - 1 :
                RemoveAt(s, n)[m] = IF m < n THEN s[m] ELSE s[m + 1]
<1> DEFINE a == SubSeq(s, 1, n - 1)
           b == SubSeq(s, n + 1, Len(s))
<1>1. Len(s) \in Nat /\ n \in Int
  OBVIOUS
<1>2. /\ a \in Seq(T) /\ Len(a) = n - 1
      /\ \A m \in 1..n - 1 : a[m] = s[m]
  BY <1>1, SubSeqProperties
<1>3. /\ b \in Seq(T) /\ Len(b) = Len(s) - n
      /\ \A m \in 1..Len(s) - n : b[m] = s[m + n]
  BY <1>1, SubSeqProperties
<1> HIDE DEF a, b
<1>4. /\ a \o b \in Seq(T) /\ Len(a \o b) = Len(s) - 1
      /\ \A m \in 1..Len(s) - 1 : (a \o b)[m] = IF m <= n - 1 THEN a[m] ELSE b[m - (n - 1)]
  <2>1. Len(a) + Len(b) = Len(s) - 1
    BY <1>1, <1>2, <1>3
  <2>2. /\ a \o b \in Seq(T) /\ Len(a \o b) = Len(a) + Len(b)
        /\ \A m \in 1..Len(a) + Len(b) :
               (a \o b)[m] = IF m <= Len(a) THEN a[m] ELSE b[m - Len(a)]
    BY <1>2, <1>3, ConcatProperties
  <2>3. QED
    BY <1>2, <2>1, <2>2
<1>5. \A m \in 1..Len(s) - 1 : (a \o b)[m] = IF m < n THEN s[m] ELSE s[m + 1]
  BY <1>1, <1>2, <1>3, <1>4
<1>6. RemoveAt(s, n) = a \o b
  BY DEF RemoveAt, a, b
<1>7. QED
  BY <1>4, <1>5, <1>6

-----------------------------------------------------------------------------
(* The inductive invariant.                                                *)

\* Who holds a reference.
RefsCounted ==
    refs = (IF scriptHolds THEN 1 ELSE 0)
         + (IF invocation # "gone" THEN 1 ELSE 0)
         + (IF flush \in {"scheduled", "running"} THEN 1 ELSE 0)

\* How far the invocation, the result and the flush have got with each other.
PhasesFit ==
    /\ result = "pending" <=> invocation = "working"
    /\ flush = "none" <=> invocation \in {"working", "delivered"}
    /\ result = "pending" => stack = <<>>
    /\ stack # <<>> => scriptHolds \/ flush = "running"

\* A callback in an array has been hung on the promise and has not run.
WaitingNotCalled ==
    \A k \in waiting : method[k] \in Methods /\ calls[k] = 0

\* A callback a flush is to invoke asked for the outcome and has not run, is
\* no longer in an array, and is the business of that one flush.
TodoNotCalled ==
    \A i \in 1..Len(stack) : \A k \in stack[i].todo :
        /\ method[k] \in Methods /\ Wants(method[k], result) /\ calls[k] = 0
        /\ k \notin waiting
        /\ \A j \in 1..Len(stack) : k \in stack[j].todo => j = i

CalledWanted ==
    \A k \in Callbacks : calls[k] > 0 =>
        /\ calls[k] = 1 /\ result # "pending"
        /\ method[k] \in Methods /\ Wants(method[k], result)

IInv ==
    /\ TypeOK /\ RefsCounted /\ PhasesFit /\ WaitingNotCalled
    /\ TodoNotCalled /\ CalledWanted /\ NoLostCallback

-----------------------------------------------------------------------------
USE NoneIsNoCallback, NoneIsNoMethod DEF Methods, Results, Frames

\* The frames of a stack, and the innermost one.
LEMMA FramesOfStack ==
  ASSUME NEW s \in Seq(Frames)
  PROVE  /\ Len(s) \in Nat
         /\ s # <<>> => Len(s) \in 1..Len(s)
         /\ \A i \in 1..Len(s) : /\ s[i] \in Frames
                                 /\ s[i].todo \subseteq Callbacks
                                 /\ s[i].todo \in SUBSET Callbacks
<1>1. Len(s) \in Nat /\ (s # <<>> => Len(s) \in 1..Len(s))
  OBVIOUS
<1>2. \A i \in 1..Len(s) : s[i] \in Frames
  <2> HIDE DEF Frames
  <2> QED OBVIOUS
<1>3. QED
  BY <1>1, <1>2

\* What is left of a stack when its innermost frame is taken off.
LEMMA PopLeavesTheRest ==
  ASSUME NEW F, NEW s \in Seq(F), s # <<>>,
         NEW t, t = SubSeq(s, 1, Len(s) - 1)
  PROVE  /\ t \in Seq(F) /\ Len(t) = Len(s) - 1
         /\ \A i \in 1..(Len(s) - 1) : t[i] = s[i]
<1>1. Len(s) \in Nat /\ Len(s) > 0 /\ \A i \in 1..Len(s) : s[i] \in F
  OBVIOUS
<1> DEFINE m == Len(s) - 1
<1>2. m \in Nat /\ \A i \in 1..m : s[i] \in F
  BY <1>1
<1> HIDE DEF m
<1>3. /\ SubSeq(s, 1, m) \in Seq(F)
      /\ Len(SubSeq(s, 1, m)) = IF 1 <= m THEN m - 1 + 1 ELSE 0
      /\ \A i \in 1..(m - 1 + 1) : SubSeq(s, 1, m)[i] = s[1 + i - 1]
  BY <1>2, SubSeqProperties
<1>4. t = SubSeq(s, 1, m)
  BY DEF m
<1>5. t \in Seq(F) /\ Len(t) = m /\ \A i \in 1..m : t[i] = s[i]
  BY <1>2, <1>3, <1>4
<1>6. QED
  BY <1>5 DEF m

LEMMA InitEstablishesIInv == Init => IInv
  BY DEF Init, IInv, TypeOK, RefsCounted, PhasesFit, WaitingNotCalled,
         TodoNotCalled, CalledWanted, NoLostCallback

LEMMA DeliverKeeps ==
  ASSUME IInv, NEW r \in Results, Deliver(r)
  PROVE  IInv'
<1> USE DEF IInv, Deliver, MayDeliver
<1>1. TypeOK' /\ RefsCounted' /\ PhasesFit'
  BY DEF TypeOK, RefsCounted, PhasesFit
<1>2. WaitingNotCalled' /\ NoLostCallback'
  BY DEF WaitingNotCalled, NoLostCallback
<1>3. TodoNotCalled' /\ CalledWanted'
  BY DEF TodoNotCalled, CalledWanted, PhasesFit, TypeOK
<1>4. QED
  BY <1>1, <1>2, <1>3

LEMMA BackgroundKeeps ==
  ASSUME IInv, ScheduleFlush \/ ReleaseContext \/ FlushEnds \/ ScriptDrops
  PROVE  IInv'
<1> USE DEF IInv, ScheduleFlush, ReleaseContext, FlushEnds, ScriptDrops,
            Retained, Scheduled
<1>1. RefsCounted' /\ PhasesFit'
  BY DEF TypeOK, RefsCounted, PhasesFit
<1>2. TypeOK'
  <2>1. refs' \in Nat
    BY DEF TypeOK, RefsCounted
  <2>2. /\ invocation' \in {"working", "delivered", "scheduled", "gone"}
        /\ flush' \in {"none", "scheduled", "running", "done"}
        /\ scriptHolds' \in BOOLEAN
        /\ UNCHANGED <<result, method, waiting, stack, calls>>
    BY DEF TypeOK
  <2>3. QED
    BY <2>1, <2>2 DEF TypeOK
<1>3. WaitingNotCalled' /\ NoLostCallback'
  BY DEF WaitingNotCalled, NoLostCallback, PhasesFit
<1>4. TodoNotCalled' /\ CalledWanted'
  BY DEF TodoNotCalled, CalledWanted
<1>5. QED
  BY <1>1, <1>2, <1>3, <1>4

\* Pushing a flush of callbacks that wait, asked for the outcome and have not
\* run; m is the table of methods the new arrays are read with.
LEMMA PushKeeps ==
  ASSUME IInv, result # "pending", NEW w \in SUBSET Callbacks, FlushUnlocked(w, method'),
         method' \in [Callbacks -> Methods \cup {None}],
         \A k \in w : method'[k] \in Methods /\ calls[k] = 0,
         \A k \in w : \A i \in 1..Len(stack) : k \notin stack[i].todo,
         \A k \in Callbacks : method[k] # None => method'[k] = method[k],
         UNCHANGED <<result, calls>>
  PROVE  /\ stack' \in Seq(Frames) /\ waiting' = {}
         /\ TodoNotCalled' /\ CalledWanted'
<1> DEFINE batch == {k \in w : Wants(method'[k], result)}
<1>1. waiting' = {}
  BY DEF FlushUnlocked, Left
<1>2. CalledWanted'
  BY DEF IInv, CalledWanted, TypeOK
<1>3. CASE batch = {}
  <2>1. stack' = stack
    BY <1>3 DEF FlushUnlocked
  <2>2. stack \in Seq(Frames)
    BY DEF IInv, TypeOK
  <2>3. \A i \in 1..Len(stack) : \A k \in stack[i].todo :
          k \in Callbacks /\ method'[k] = method[k]
    BY <2>2, FramesOfStack DEF IInv, TodoNotCalled
  <2>4. TodoNotCalled'
    BY <1>1, <2>1, <2>3 DEF IInv, TodoNotCalled
  <2>5. QED
    BY <1>1, <1>2, <2>1, <2>2, <2>4
<1>4. CASE batch # {}
  <2>1. stack' = Append(stack, [todo |-> batch, running |-> None])
    BY <1>4 DEF FlushUnlocked
  <2>2. stack' \in Seq(Frames)
    BY <2>1 DEF IInv, TypeOK
  <2>3. /\ Len(stack') = Len(stack) + 1
        /\ \A i \in 1..Len(stack) : stack'[i] = stack[i]
        /\ stack'[Len(stack) + 1].todo = batch
    BY <2>1 DEF IInv, TypeOK
  <2>4. ASSUME NEW i \in 1..Len(stack'), NEW k \in stack'[i].todo
        PROVE  /\ method'[k] \in Methods /\ Wants(method'[k], result)
               /\ calls[k] = 0
               /\ \A j \in 1..Len(stack') : k \in stack'[j].todo => j = i
    <3>1. CASE i = Len(stack) + 1
      <4>1. k \in batch
        BY <2>3, <3>1
      <4>2. \A j \in 1..Len(stack) : k \notin stack'[j].todo
        BY <2>3, <4>1
      <4>3. \A j \in 1..Len(stack') : j = i \/ j \in 1..Len(stack)
        BY <2>3, <3>1, FramesOfStack DEF IInv, TypeOK
      <4>4. QED
        BY <4>1, <4>2, <4>3
    <3>2. CASE i \in 1..Len(stack)
      <4>0. k \in stack[i].todo
        BY <2>3, <3>2
      <4>1. k \in stack[i].todo /\ k \in Callbacks
        BY <4>0, <3>2, FramesOfStack DEF IInv, TypeOK
      <4>2. method[k] \in Methods /\ Wants(method[k], result) /\ calls[k] = 0
        BY <3>2, <4>1 DEF IInv, TodoNotCalled
      <4>3. method'[k] = method[k]
        BY <4>1, <4>2
      <4>4. k \notin batch
        BY <3>2, <4>1
      <4>5. \A j \in 1..Len(stack) : k \in stack[j].todo => j = i
        BY <3>2, <4>1 DEF IInv, TodoNotCalled
      <4>6. method'[k] \in Methods /\ Wants(method'[k], result)
        BY <4>2, <4>3
      <4>7. Len(stack) \in Nat
        BY FramesOfStack DEF IInv, TypeOK
      <4>8. ASSUME NEW j \in 1..Len(stack'), k \in stack'[j].todo
            PROVE  j = i
        <5>1. j # Len(stack) + 1
          BY <2>3, <4>4, <4>8
        <5>2. j \in 1..Len(stack)
          BY <2>3, <4>7, <5>1
        <5>3. stack'[j] = stack[j]
          BY <2>3, <5>2
        <5>4. QED
          BY <4>5, <4>8, <5>2, <5>3
      <4>9. QED
        BY <4>2, <4>6, <4>8
    <3>3. QED
      BY <2>3, <3>1, <3>2 DEF IInv, TypeOK
  <2>5. TodoNotCalled'
    BY <1>1, <2>4 DEF TodoNotCalled
  <2>6. QED
    BY <1>1, <1>2, <2>2, <2>5
<1>5. QED
  BY <1>3, <1>4

LEMMA HangKeeps ==
  ASSUME IInv, NEW k \in Callbacks, NEW m \in Methods, Hang(k, m)
  PROVE  IInv'
<1> USE DEF IInv
<1>1. /\ method[k] = None /\ method' = [method EXCEPT ![k] = m] /\ scriptHolds
      /\ UNCHANGED <<result, calls, invocation, flush, scriptHolds, refs>>
  BY DEF Hang
<1>2. /\ method' \in [Callbacks -> Methods \cup {None}] /\ method'[k] = m
      /\ \A j \in Callbacks : j # k => method'[j] = method[j]
  BY <1>1 DEF TypeOK
<1>3. calls[k] = 0 /\ k \notin waiting
  BY <1>1 DEF TypeOK, CalledWanted, WaitingNotCalled
<1>4. \A i \in 1..Len(stack) : k \notin stack[i].todo
  BY <1>1 DEF TodoNotCalled
<1>5. RefsCounted'
  BY <1>1 DEF RefsCounted
<1>6. CASE result = "pending"
  <2>1. waiting' = waiting \cup {k} /\ stack' = stack
    BY <1>6 DEF Hang, Joined
  <2>2. TypeOK' /\ PhasesFit'
    BY <1>1, <1>2, <2>1 DEF TypeOK, PhasesFit
  <2>3. WaitingNotCalled' /\ NoLostCallback'
    BY <1>1, <1>2, <1>3, <1>6, <2>1
       DEF WaitingNotCalled, NoLostCallback, TypeOK
  <2>4. TodoNotCalled' /\ CalledWanted'
    BY <1>1, <1>6, <2>1 DEF TodoNotCalled, CalledWanted, PhasesFit
  <2>5. QED
    BY <1>5, <2>2, <2>3, <2>4
<1>7. CASE result # "pending"
  <2> DEFINE w == waiting \cup {k}
  <2>1. FlushUnlocked(w, method')
    BY <1>7 DEF Hang, Joined
  <2>2. w \in SUBSET Callbacks /\ \A j \in w : method'[j] \in Methods /\ calls[j] = 0
    BY <1>2, <1>3 DEF TypeOK, WaitingNotCalled
  <2>3. \A j \in w : \A i \in 1..Len(stack) : j \notin stack[i].todo
    BY <1>4 DEF TodoNotCalled
  <2>4. \A j \in Callbacks : method[j] # None => method'[j] = method[j]
    BY <1>1, <1>2
  <2> HIDE DEF w
  <2>5. stack' \in Seq(Frames) /\ waiting' = {} /\ TodoNotCalled' /\ CalledWanted'
    BY <1>1, <1>2, <1>7, <2>1, <2>2, <2>3, <2>4, PushKeeps
  <2>6. TypeOK' /\ PhasesFit'
    BY <1>1, <1>2, <1>7, <2>5 DEF TypeOK, PhasesFit
  <2>7. WaitingNotCalled' /\ NoLostCallback'
    BY <2>5 DEF WaitingNotCalled, NoLostCallback
  <2>8. QED
    BY <1>5, <2>5, <2>6, <2>7
<1>8. QED
  BY <1>6, <1>7

LEMMA FlushKeeps ==
  ASSUME IInv, Flush
  PROVE  IInv'
<1> USE DEF IInv
<1>1. /\ result # "pending" /\ FlushUnlocked(waiting, method) /\ stack = <<>>
      /\ flush = "scheduled" /\ flush' = "running"
      /\ UNCHANGED <<result, method, calls, invocation, scriptHolds, refs>>
  BY DEF Flush, PhasesFit
<1>2. FlushUnlocked(waiting, method')
  BY <1>1 DEF FlushUnlocked
<1>3. /\ waiting \in SUBSET Callbacks
      /\ method' \in [Callbacks -> Methods \cup {None}]
      /\ \A k \in waiting : method'[k] \in Methods /\ calls[k] = 0
      /\ \A k \in waiting : \A i \in 1..Len(stack) : k \notin stack[i].todo
      /\ \A k \in Callbacks : method[k] # None => method'[k] = method[k]
  BY <1>1 DEF TypeOK, WaitingNotCalled, TodoNotCalled
<1>4. stack' \in Seq(Frames) /\ waiting' = {} /\ TodoNotCalled' /\ CalledWanted'
  BY <1>1, <1>2, <1>3, PushKeeps
<1>5. TypeOK' /\ PhasesFit' /\ RefsCounted'
  BY <1>1, <1>4 DEF TypeOK, PhasesFit, RefsCounted
<1>6. WaitingNotCalled' /\ NoLostCallback'
  BY <1>4 DEF WaitingNotCalled, NoLostCallback
<1>7. QED
  BY <1>4, <1>5, <1>6

LEMMA InvokeCallbackKeeps ==
  ASSUME IInv, NEW k \in Callbacks, InvokeCallback(k)
  PROVE  IInv'
<1> USE DEF IInv
<1> DEFINE n == Len(stack)
<1>1. /\ n \in 1..n /\ stack[n] \in Frames /\ k \in stack[n].todo
  BY FramesOfStack DEF InvokeCallback, Innermost, TypeOK
<1>2. /\ Len(stack') = n /\ stack' \in Seq(Frames) /\ stack' # <<>>
      /\ \A i \in 1..n : i # n => stack'[i] = stack[i]
      /\ stack'[n].todo = stack[n].todo \ {k}
  BY <1>1 DEF InvokeCallback, TypeOK
<1>3. /\ calls' = [calls EXCEPT ![k] = @ + 1] /\ stack # <<>>
      /\ UNCHANGED <<result, method, waiting, invocation, flush, scriptHolds,
                     refs>>
  BY DEF InvokeCallback
<1>4. /\ method[k] \in Methods /\ Wants(method[k], result) /\ calls[k] = 0
      /\ k \notin waiting
      /\ \A j \in 1..n : k \in stack[j].todo => j = n
  BY <1>1 DEF TodoNotCalled
<1>5. TypeOK'
  BY <1>2, <1>3 DEF TypeOK
<1>6. RefsCounted' /\ PhasesFit' /\ NoLostCallback'
  BY <1>2, <1>3 DEF RefsCounted, PhasesFit, NoLostCallback
<1>7. WaitingNotCalled'
  BY <1>3, <1>4 DEF WaitingNotCalled, TypeOK
<1>8. CalledWanted'
  BY <1>3, <1>4 DEF CalledWanted, TypeOK, PhasesFit
<1>9. TodoNotCalled'
  <2> SUFFICES ASSUME NEW i \in 1..n, NEW j \in stack'[i].todo
               PROVE  /\ method[j] \in Methods /\ Wants(method[j], result)
                      /\ calls'[j] = 0 /\ j \notin waiting
                      /\ \A l \in 1..n : j \in stack'[l].todo => l = i
    BY <1>2, <1>3 DEF TodoNotCalled
  <2>1. j \in stack[i].todo /\ j # k
    BY <1>2, <1>4
  <2>2. j \in Callbacks
    BY <2>1, FramesOfStack DEF TypeOK
  <2>3. /\ method[j] \in Methods /\ Wants(method[j], result)
        /\ calls[j] = 0 /\ j \notin waiting
        /\ \A l \in 1..n : j \in stack[l].todo => l = i
    BY <2>1 DEF TodoNotCalled
  <2>4. QED
    BY <1>2, <1>3, <2>1, <2>2, <2>3 DEF TypeOK
<1>10. QED
  BY <1>5, <1>6, <1>7, <1>8, <1>9

LEMMA CallbackReturnsKeeps ==
  ASSUME IInv, CallbackReturns
  PROVE  IInv'
<1> USE DEF IInv
<1> DEFINE n == Len(stack)
<1>1. /\ stack # <<>> /\ n \in 1..n /\ stack[n] \in Frames
      /\ UNCHANGED <<result, method, waiting, calls, invocation, flush,
                     scriptHolds, refs>>
  BY FramesOfStack DEF CallbackReturns, TypeOK
<1>2. /\ stack' \in Seq(Frames) /\ Len(stack') \in 0..n
      /\ \A i \in 1..Len(stack') : stack'[i].todo = stack[i].todo
  <2>1. CASE Innermost.todo = {}
    <3>1. stack' = SubSeq(stack, 1, n - 1)
      BY <2>1 DEF CallbackReturns
    <3>2. /\ stack' \in Seq(Frames) /\ Len(stack') = n - 1
          /\ \A i \in 1..(n - 1) : stack'[i] = stack[i]
      <4>1. stack \in Seq(Frames) /\ stack # <<>>
        BY <1>1 DEF TypeOK
      <4> HIDE DEF Frames, IInv
      <4>2. QED
        BY <3>1, <4>1, PopLeavesTheRest
    <3>3. QED
      BY <1>1, <3>2
  <2>2. CASE Innermost.todo # {}
    <3>1. stack' = [stack EXCEPT ![n] = [todo |-> @.todo, running |-> None]]
      BY <2>2 DEF CallbackReturns
    <3>2. QED
      BY <1>1, <3>1 DEF TypeOK
  <2>3. QED
    BY <2>1, <2>2
<1>3. TypeOK' /\ RefsCounted' /\ PhasesFit' /\ NoLostCallback'
  BY <1>1, <1>2 DEF TypeOK, RefsCounted, PhasesFit, NoLostCallback
<1>4. WaitingNotCalled' /\ CalledWanted'
  BY <1>1 DEF WaitingNotCalled, CalledWanted
<1>5. TodoNotCalled'
  BY <1>1, <1>2 DEF TodoNotCalled
<1>6. QED
  BY <1>3, <1>4, <1>5

LEMMA NextKeepsIInv ==
  ASSUME IInv, [Next]_vars
  PROVE  IInv'
<1>1. CASE UNCHANGED vars
  BY <1>1 DEF vars, IInv, TypeOK, RefsCounted, PhasesFit, WaitingNotCalled,
              TodoNotCalled, CalledWanted, NoLostCallback
<1>2. CASE Next
  BY <1>2, DeliverKeeps, BackgroundKeeps, HangKeeps, FlushKeeps,
     InvokeCallbackKeeps, CallbackReturnsKeeps DEF Next
<1>3. QED
  BY <1>1, <1>2

LEMMA IInvHolds == Spec => []IInv
<1>1. IInv /\ [Next]_vars => IInv'
  BY NextKeepsIInv
<1>2. QED
  BY InitEstablishesIInv, <1>1, PTL DEF Spec

\* Every variable keeps its type: the reference count never falls below zero.
THEOREM TypeCorrect == Spec => []TypeOK
<1>1. IInv => TypeOK
  BY DEF IInv
<1>2. QED
  BY IInvHolds, <1>1, PTL

\* No callback runs twice, too early, or for an outcome it did not ask for.
THEOREM CallbacksRunOnce == Spec => []CalledOnceForItsOutcome
<1>1. IInv => CalledOnceForItsOutcome
  BY DEF IInv, CalledWanted, CalledOnceForItsOutcome
<1>2. QED
  BY IInvHolds, <1>1, PTL

\* A settled promise with waiting callbacks has a flush coming.
THEOREM NoCallbackIsLost == Spec => []NoLostCallback
<1>1. IInv => NoLostCallback
  BY DEF IInv
<1>2. QED
  BY IInvHolds, <1>1, PTL

\* The promise is freed only when nobody is going to touch it any more.
THEOREM FreedOnlyWhenUnused == Spec => []FreedWhenUnused
<1>1. IInv => FreedWhenUnused
  BY DEF IInv, TypeOK, RefsCounted, PhasesFit, FreedWhenUnused
<1>2. QED
  BY IInvHolds, <1>1, PTL

\* Once settled, the outcome never changes.
THEOREM SettledStays == Spec => SettledForGood
<1>1. IInv /\ [Next]_vars => [result # "pending" => result' = result]_vars
  BY DEF IInv, PhasesFit, Next, vars, Deliver, MayDeliver, ScheduleFlush,
         ReleaseContext, Hang, InvokeCallback, CallbackReturns, Flush,
         FlushEnds, ScriptDrops
<1>2. QED
  BY IInvHolds, <1>1, PTL DEF Spec, SettledForGood

\* The promise implements the one-shot promise: settling, hanging and invoking
\* a callback are the steps of OneShotPromise, all others are invisible to it.
THEOREM OneShot == Spec => ImplementsOneShot
<1>1. Init => Abstract!Init
  BY DEF Init, Abstract!Init
<1>2. IInv /\ [Next]_vars => [Abstract!Next]_(Abstract!vars)
  <2> SUFFICES ASSUME IInv, [Next]_vars
               PROVE  [Abstract!Next]_(Abstract!vars)
    OBVIOUS
  <2> USE DEF IInv, Abstract!Next, Abstract!vars
  <2>1. ASSUME NEW r \in Results, Deliver(r)
        PROVE  Abstract!Settle(r)
    BY <2>1 DEF Deliver, MayDeliver, PhasesFit, Abstract!Settle
  <2>2. ASSUME NEW k \in Callbacks, NEW m \in Methods, Hang(k, m)
        PROVE  Abstract!Hang(k, m)
    BY <2>2 DEF Hang, Abstract!Hang
  <2>3. ASSUME NEW k \in Callbacks, InvokeCallback(k)
        PROVE  Abstract!Run(k)
    <3>1. /\ Len(stack) \in 1..Len(stack) /\ k \in stack[Len(stack)].todo
          /\ stack # <<>>
      BY <2>3 DEF InvokeCallback, Innermost, TypeOK
    <3>2. /\ method[k] \in Methods /\ Wants(method[k], result) /\ calls[k] = 0
          /\ result # "pending"
      BY <3>1 DEF TodoNotCalled, PhasesFit
    <3>3. Abstract!Fits(method[k], result)
      BY <3>2 DEF Wants, Abstract!Fits
    <3>4. calls' = [calls EXCEPT ![k] = @ + 1] /\ UNCHANGED <<result, method>>
      BY <2>3 DEF InvokeCallback
    <3>5. {j \in Callbacks : calls'[j] > 0} = {j \in Callbacks : calls[j] > 0} \cup {k}
      BY <3>2, <3>4 DEF TypeOK
    <3>6. QED
      BY <3>2, <3>3, <3>4, <3>5 DEF Abstract!Run
  <2>4. CASE \/ ScheduleFlush \/ ReleaseContext \/ CallbackReturns \/ Flush
             \/ FlushEnds \/ ScriptDrops \/ UNCHANGED vars
    BY <2>4 DEF ScheduleFlush, ReleaseContext, CallbackReturns, Flush,
                FlushEnds, ScriptDrops, vars
  <2>5. QED
    BY <2>1, <2>2, <2>3, <2>4 DEF Next
<1>3. QED
  BY IInvHolds, <1>1, <1>2, PTL DEF Spec, ImplementsOneShot, Abstract!Spec

-----------------------------------------------------------------------------
(* The plugin.                                                             *)

USE CallerIsAnInstance, NoneIsNoInstance, MaxEventsIsNat, ListenersAreInstances

\* Each step of the plugin is one of the promise, or leaves it alone.
LEMMA PluginStepsArePromiseSteps == [PluginNext]_pluginVars => [Next]_vars
<1> SUFFICES ASSUME [PluginNext]_pluginVars
             PROVE  [Next]_vars
  OBVIOUS
<1>1. CASE Invoked
  BY <1>1 DEF Invoked, MethodEnds, Next
<1>2. CASE PromiseCalled
  BY <1>2 DEF PromiseCalled, Next
<1>3. CASE PromiseRuns
  BY <1>3 DEF PromiseRuns, Next
<1>4. CASE ScriptDropsPromise
  BY <1>4 DEF ScriptDropsPromise, Next
<1>5. ASSUME NEW i \in Instances,
             \/ PluginNew(i) \/ PluginGetValue(i) \/ PluginDestroy(i)
             \/ DoDestroy(i) \/ DestroyCloses(i) \/ DestroyClosed(i)
             \/ DestroyReady(i) \/ DestroyReturns(i)
             \/ DeviceListed(i) \/ DeviceUnplugged(i)
             \/ GetProperty(i) \/ DoGetProperty(i)
             \/ AddEventListener(i) \/ SignalEmitted(i) \/ ClosureInvoke(i)
             \/ ScriptDropsRoot(i)
      PROVE  UNCHANGED promise
  BY <1>5, Zenon DEF PluginNew, PluginGetValue, PluginDestroy, DoDestroy, DestroyReady,
              DestroyReturns, DestroyCloses, DestroyClosed, DeviceListed,
              DeviceUnplugged, GetProperty, DoGetProperty, AddEventListener,
              SignalEmitted, ClosureInvoke, ScriptDropsRoot, Removed
<1>6. CASE \/ GetPropertyReturns \/ DoInvoke \/ Shutdown \/ StopMainLoop
           \/ ShutdownReturns \/ DeviceStrays \/ UNCHANGED pluginVars
  BY <1>6, Zenon DEF GetPropertyReturns, DeviceStrays, DoInvoke, Shutdown, StopMainLoop, ShutdownReturns,
              pluginVars, promise, vars
<1>7. UNCHANGED promise => UNCHANGED vars
  BY DEF promise, vars
<1>8. QED
  BY <1>1, <1>2, <1>3, <1>4, <1>5, <1>6, <1>7 DEF PluginNext

\* The plugin uses its promise as CloudSpyPromise describes it: what is proved of
\* the promise above holds in the plugin.
THEOREM PluginUsesPromise == PluginSpec => Spec
<1>1. PluginInit => Init
  BY DEF PluginInit
<1>2. QED
  BY <1>1, PluginStepsArePromiseSteps, PTL DEF PluginSpec, Spec

(* What the plugin keeps, beside the promise. *)

PluginTypeOK ==
    /\ roots \in [Instances -> {"unborn", "empty", "root", "gone"}]
    /\ logger \in Instances \cup {None}
    /\ objects \in [Instances -> Nat]
    /\ held \subseteq Instances /\ listening \subseteq Instances
    /\ events \in [Instances -> Nat]
    /\ device \in [Instances -> {"none", "listed", "closing", "stray"}]
    /\ loop \in {"running", "stopped", "freed", "wild"}
    /\ destroying \subseteq Instances
    /\ posted \subseteq [job : {"invoke", "destroy", "get", "quit"},
                         of : Instances \cup {None}]
    /\ wait \in [job : {"nothing", "get", "destroy", "quit"},
                 of : Instances \cup {None}]

\* Who refers to a root: the table, the script, the promise.
RootsCounted ==
    \A i \in Instances :
        objects[i] = (IF roots[i] = "root" THEN 1 ELSE 0)
                   + (IF i \in held THEN 1 ELSE 0)
                   + (IF i = Caller /\ refs > 0 THEN 1 ELSE 0)

\* What is attached or under way, but for the method, is what the browser's thread
\* waits for, and it is not told so too early.
Awaited ==
    /\ \A s \in posted : s.job # "invoke" => s = wait /\ ~completed
    /\ \A i \in destroying :
           wait = [job |-> "destroy", of |-> i] /\ wait \notin posted /\ ~completed
    /\ loop \in {"stopped", "freed"} => \A s \in posted : s.job # "quit"

\* It waits for an instance that is in the table or in the hands of the script.
WaitsForLive ==
    /\ wait.job = "destroy" => wait.of \in Instances /\ roots[wait.of] = "root"
    /\ wait.job = "get" => wait.of \in held
    /\ wait.job \in {"nothing", "quit"} => wait.of = None

\* Roots are made before they are listened to, and events are on their way only while
\* they are in the table.
ListensToRoots ==
    \A i \in Instances :
        /\ \/ i \in held \cup listening \/ i = Caller
           \/ device[i] # "none"
           => roots[i] \in {"root", "gone"}
        /\ events[i] > 0 => roots[i] = "root"

\* A device that is listed or being closed has its root in the table, and the thread
\* that destroys it is not told yet that it may go on; what runs wild does so by a device
\* that is neither.
DevicesWatched ==
    /\ \A i \in Instances : device[i] \in {"listed", "closing"} =>
           roots[i] = "root" /\ ~(wait = [job |-> "destroy", of |-> i] /\ completed)
    /\ loop = "wild" => \E i \in Instances : objects[i] = 0 /\ device[i] = "stray"

Roots ==
    /\ PluginTypeOK /\ RootsCounted /\ Awaited /\ WaitsForLive /\ ListensToRoots
    /\ DevicesWatched
PluginInv == IInv /\ Roots /\ LogsToALiveInstance

LEMMA PluginInit_Inv == PluginInit => Roots /\ LogsToALiveInstance
<1> SUFFICES ASSUME PluginInit
             PROVE  Roots /\ LogsToALiveInstance
  OBVIOUS
<1> USE DEF PluginInit, Init, Nothing, Invocation
<1>1. PluginTypeOK /\ RootsCounted
  BY DEF PluginTypeOK, RootsCounted
<1>2. Awaited /\ WaitsForLive
  BY DEF Awaited, WaitsForLive
<1>3. ListensToRoots /\ DevicesWatched /\ LogsToALiveInstance
  BY DEF ListensToRoots, DevicesWatched, LogsToALiveInstance, Live
<1>4. QED
  BY <1>1, <1>2, <1>3 DEF Roots

\* What a step of the threads does: no root is made, dropped or listened to.
ThreadStep ==
    /\ PluginTypeOK' /\ Awaited' /\ WaitsForLive' /\ DevicesWatched'
    /\ UNCHANGED <<promise, table, objects, page>>

\* A source is attached that the browser's thread waits for.
LEMMA WaitingBegins ==
  ASSUME Roots, wait = Nothing,
         NEW job \in {"destroy", "get", "quit"}, NEW i \in Instances \cup {None},
         loop = "running" \/ job # "quit",
         \/ job = "destroy" /\ i \in Instances /\ roots[i] = "root"
         \/ job = "get" /\ i \in held
         \/ job = "quit" /\ i = None,
         PostAndWait(job, i),
         UNCHANGED <<promise, table, objects, page, destroying, loop>>
  PROVE  ThreadStep
<1> USE DEF Roots, PostAndWait, Nothing
<1>1. (\A s \in posted : s.job = "invoke") /\ destroying = {}
  BY DEF Awaited, PluginTypeOK
<1>2. PluginTypeOK'
  BY DEF PluginTypeOK, table, page
<1>3. Awaited'
  BY <1>1 DEF Awaited
<1>4. WaitsForLive'
  BY DEF WaitsForLive, table, page
<1>5. DevicesWatched'
  BY DEF DevicesWatched, table, page
<1>6. QED
  BY <1>2, <1>3, <1>4, <1>5 DEF ThreadStep

\* The browser's thread begins to wait.
LEMMA BrowserWaits ==
  ASSUME Roots,
         \/ \E i \in Instances :
                (roots[i] = "root" /\ PluginDestroy(i)) \/ GetProperty(i)
         \/ Shutdown
  PROVE  ThreadStep
<1>1. ASSUME NEW i \in Instances, roots[i] = "root", PluginDestroy(i)
      PROVE  ThreadStep
  <2>1. /\ PostAndWait("destroy", i) /\ wait = Nothing
        /\ UNCHANGED <<promise, table, objects, page, destroying, loop>>
    BY <1>1 DEF PluginDestroy, EventLoop
  <2>2. QED
    BY <1>1, <2>1, WaitingBegins
<1>2. ASSUME NEW i \in Instances, GetProperty(i)
      PROVE  ThreadStep
  <2>1. /\ PostAndWait("get", i) /\ wait = Nothing /\ i \in held
        /\ UNCHANGED <<promise, table, objects, page, destroying, loop>>
    BY <1>2 DEF GetProperty, MayCall
  <2>2. QED
    BY <2>1, WaitingBegins
<1>3. CASE Shutdown
  <2>1. /\ PostAndWait("quit", None) /\ wait = Nothing /\ loop = "running"
        /\ UNCHANGED <<promise, table, objects, page, destroying, loop>>
    BY <1>3 DEF Shutdown, EventLoop
  <2>2. QED
    BY <2>1, WaitingBegins
<1>4. QED
  BY <1>1, <1>2, <1>3

\* The main loop dispatches a source or ends a coroutine, or the browser's thread
\* has waited enough.
LEMMA LoopRuns ==
  ASSUME Roots,
         \/ \E i \in Instances :
                DoDestroy(i) \/ DestroyReady(i) \/ DoGetProperty(i)
         \/ GetPropertyReturns \/ DoInvoke \/ StopMainLoop \/ ShutdownReturns
  PROVE  ThreadStep
<1> USE DEF Roots, PluginTypeOK, Awaited, WaitsForLive, DevicesWatched, ThreadStep, table,
            page
<1>1. ASSUME NEW i \in Instances, DoDestroy(i)
      PROVE  ThreadStep
  BY <1>1 DEF DoDestroy, Dispatch
<1>2. ASSUME NEW i \in Instances, DestroyReady(i)
      PROVE  ThreadStep
  BY <1>2 DEF DestroyReady, Watched
<1>3. ASSUME NEW i \in Instances, DoGetProperty(i)
      PROVE  ThreadStep
  BY <1>3 DEF DoGetProperty, Dispatch
<1>4. CASE GetPropertyReturns
  BY <1>4 DEF GetPropertyReturns, Nothing
<1>5. CASE DoInvoke
  BY <1>5 DEF DoInvoke, Dispatch
<1>6. CASE StopMainLoop
  BY <1>6 DEF StopMainLoop, Dispatch
<1>7. CASE ShutdownReturns
  BY <1>7 DEF ShutdownReturns, Nothing
<1>8. QED
  BY <1>1, <1>2, <1>3, <1>4, <1>5, <1>6, <1>7

\* Threads leave the roots and the logging alone.
LEMMA ThreadStepKeeps ==
  ASSUME Roots, LogsToALiveInstance, ThreadStep
  PROVE  Roots' /\ LogsToALiveInstance'
BY DEF ThreadStep, Roots, RootsCounted, ListensToRoots, LogsToALiveInstance, Live,
       promise, table, page

\* An instance is made.
LEMMA PluginNewKeeps ==
  ASSUME Roots, LogsToALiveInstance, NEW i \in Instances, PluginNew(i)
  PROVE  Roots' /\ LogsToALiveInstance'
<1> USE DEF Roots, PluginNew, EventLoop, Nothing, promise, page, threads
<1>1. PluginTypeOK' /\ RootsCounted'
  BY DEF PluginTypeOK, RootsCounted, ListensToRoots
<1>2. Awaited' /\ WaitsForLive'
  BY DEF PluginTypeOK, Awaited, WaitsForLive
<1>3. ListensToRoots' /\ LogsToALiveInstance'
  BY DEF PluginTypeOK, ListensToRoots, LogsToALiveInstance, Live
<1>4. DevicesWatched'
  BY DEF PluginTypeOK, DevicesWatched
<1>5. QED
  BY <1>1, <1>2, <1>3, <1>4

\* The root is asked for.
LEMMA GetValueKeeps ==
  ASSUME Roots, LogsToALiveInstance, NEW i \in Instances, PluginGetValue(i)
  PROVE  Roots' /\ LogsToALiveInstance'
<1> USE DEF Roots, PluginGetValue, MayCall, Live, promise, page, threads
<1>1. PluginTypeOK'
  BY DEF PluginTypeOK, References, RetainedFor
<1>2. RootsCounted'
  BY DEF PluginTypeOK, RootsCounted, ListensToRoots, References, RetainedFor
<1>3. Awaited' /\ WaitsForLive'
  BY DEF PluginTypeOK, Awaited, WaitsForLive, Nothing
<1>4. ListensToRoots' /\ LogsToALiveInstance'
  BY DEF PluginTypeOK, ListensToRoots, LogsToALiveInstance
<1>5. DevicesWatched'
  BY DEF PluginTypeOK, DevicesWatched, RootsCounted, ListensToRoots
<1>6. QED
  BY <1>1, <1>2, <1>3, <1>4, <1>5

\* The entry is removed.
LEMMA RemovedKeeps ==
  ASSUME Roots, LogsToALiveInstance, NEW i \in Instances, Live(i), Removed(i)
  PROVE  /\ roots' = [roots EXCEPT ![i] = "gone"]
         /\ UNCHANGED <<held, refs, listening, device>>
         /\ logger' \in Instances \cup {None} /\ events' \in [Instances -> Nat]
         /\ ListensToRoots' /\ LogsToALiveInstance'
<1> USE DEF Roots, PluginTypeOK, Removed
<1>1. CASE logger # i
  BY <1>1 DEF promise, ListensToRoots, LogsToALiveInstance, Live
<1>2. CASE logger = i
  BY <1>2 DEF promise, ListensToRoots, LogsToALiveInstance, Live, Remaining
<1>3. QED
  BY <1>1, <1>2

\* An instance without a root is destroyed.
LEMMA DestroyEmptyKeeps ==
  ASSUME Roots, LogsToALiveInstance, NEW i \in Instances,
         roots[i] = "empty", PluginDestroy(i)
  PROVE  Roots' /\ LogsToALiveInstance'
<1>1. Removed(i) /\ UNCHANGED <<objects, threads>>
  BY DEF PluginDestroy
<1>2. /\ roots' = [roots EXCEPT ![i] = "gone"]
      /\ UNCHANGED <<held, refs, listening, device>>
      /\ logger' \in Instances \cup {None} /\ events' \in [Instances -> Nat]
      /\ ListensToRoots' /\ LogsToALiveInstance'
  BY <1>1, RemovedKeeps DEF Live
<1> USE DEF Roots, threads
<1>3. PluginTypeOK' /\ RootsCounted'
  BY <1>1, <1>2 DEF PluginTypeOK, RootsCounted
<1>4. Awaited' /\ WaitsForLive' /\ DevicesWatched'
  BY <1>1, <1>2 DEF PluginTypeOK, Awaited, WaitsForLive, DevicesWatched
<1>5. QED
  BY <1>2, <1>3, <1>4

\* An instance with a root is destroyed.
LEMMA DestroyReturnsKeeps ==
  ASSUME Roots, LogsToALiveInstance, NEW i \in Instances, DestroyReturns(i)
  PROVE  Roots' /\ LogsToALiveInstance'
<1>1. roots[i] = "root" /\ Removed(i)
  BY DEF Roots, WaitsForLive, DestroyReturns
<1>2. /\ roots' = [roots EXCEPT ![i] = "gone"]
      /\ UNCHANGED <<held, refs, listening, device>>
      /\ logger' \in Instances \cup {None} /\ events' \in [Instances -> Nat]
      /\ ListensToRoots' /\ LogsToALiveInstance'
  BY <1>1, RemovedKeeps DEF Live
<1>3. objects[i] \in Nat \ {0}
  BY <1>1 DEF Roots, PluginTypeOK, RootsCounted
<1> USE DEF Roots, DestroyReturns, Nothing
<1>4. PluginTypeOK' /\ RootsCounted'
  BY <1>1, <1>2, <1>3 DEF PluginTypeOK, RootsCounted
<1>5. Awaited' /\ WaitsForLive'
  BY DEF PluginTypeOK, Awaited, WaitsForLive
<1>6. DevicesWatched'
  BY <1>2, <1>3 DEF PluginTypeOK, DevicesWatched
<1>7. QED
  BY <1>2, <1>4, <1>5, <1>6

\* The script adds a listener or drops a root; an event is sent or handled.
LEMMA PageKeeps ==
  ASSUME Roots, LogsToALiveInstance, NEW i \in Instances,
         \/ AddEventListener(i) \/ SignalEmitted(i) \/ ClosureInvoke(i)
         \/ ScriptDropsRoot(i)
  PROVE  Roots' /\ LogsToALiveInstance'
<1> USE DEF Roots, MayCall, EventLoop, Live, Nothing, promise, table, threads
<1>1. PluginTypeOK' /\ RootsCounted'
  <2>1. CASE ScriptDropsRoot(i)
    <3>0. i \in held /\ objects[i] \in Nat
      BY <2>1 DEF ScriptDropsRoot, PluginTypeOK
    <3>1. objects[i] \in Nat \ {0}
      <4>1. objects[i] = (IF roots[i] = "root" THEN 1 ELSE 0) + 1
                       + (IF i = Caller /\ refs > 0 THEN 1 ELSE 0)
        BY <3>0 DEF RootsCounted
      <4> HIDE DEF Roots
      <4>2. QED
        BY <3>0, <4>1
    <3>2. PluginTypeOK'
      BY <2>1, <3>1 DEF ScriptDropsRoot, PluginTypeOK
    <3>3. RootsCounted'
      BY <2>1, <3>1 DEF ScriptDropsRoot, PluginTypeOK, RootsCounted
    <3>4. QED
      BY <3>2, <3>3
  <2>2. CASE AddEventListener(i) \/ ClosureInvoke(i)
    <3>1. /\ listening' \subseteq Instances /\ events' \in [Instances -> Nat]
          /\ UNCHANGED <<promise, table, objects, held, device, threads>>
      BY <2>2 DEF AddEventListener, ClosureInvoke, PluginTypeOK
    <3>2. QED
      BY <3>1 DEF PluginTypeOK, RootsCounted
  <2>3. CASE SignalEmitted(i)
    <3>1. /\ events' \in [Instances -> Nat] /\ loop' \in {"running", "wild"}
          /\ UNCHANGED <<promise, table, objects, held, listening, device, posted,
                         destroying, wait, completed>>
      BY <2>3 DEF SignalEmitted, MainLoop, PluginTypeOK
    <3>2. QED
      BY <3>1 DEF PluginTypeOK, RootsCounted
  <2>4. QED
    BY <2>1, <2>2, <2>3
<1>2. Awaited' /\ WaitsForLive' /\ LogsToALiveInstance'
  <2>1. CASE AddEventListener(i) \/ ClosureInvoke(i) \/ ScriptDropsRoot(i)
    BY <2>1 DEF AddEventListener, ClosureInvoke, ScriptDropsRoot, Awaited, WaitsForLive,
                LogsToALiveInstance, PluginTypeOK
  <2>2. CASE SignalEmitted(i)
    <3>1. /\ loop' \in {"running", "wild"}
          /\ UNCHANGED <<table, held, posted, destroying, wait, completed>>
      BY <2>2 DEF SignalEmitted, MainLoop
    <3>2. QED
      BY <3>1 DEF Awaited, WaitsForLive, LogsToALiveInstance
  <2>3. QED
    BY <2>1, <2>2
<1>3. ListensToRoots'
  BY DEF AddEventListener, SignalEmitted, ClosureInvoke, ScriptDropsRoot,
         ListensToRoots, PluginTypeOK
<1>4. DevicesWatched'
  <2>1. CASE SignalEmitted(i)
    <3>1. ~Live(i) => device[i] = "stray"
      BY <2>1 DEF SignalEmitted, DevicesWatched
    <3>2. QED
      BY <2>1, <3>1 DEF SignalEmitted, DevicesWatched
  <2>2. CASE AddEventListener(i) \/ ClosureInvoke(i)
    BY <2>2 DEF AddEventListener, ClosureInvoke, DevicesWatched
  <2>3. CASE ScriptDropsRoot(i)
    <3>1. i \in held /\ objects' = [objects EXCEPT ![i] = @ - 1] /\ UNCHANGED device
      BY <2>3 DEF ScriptDropsRoot
    <3>2. objects[i] # 0
      BY <3>1 DEF RootsCounted, PluginTypeOK
    <3>3. \A j \in Instances : objects[j] = 0 => objects'[j] = 0
      BY <3>1, <3>2 DEF PluginTypeOK
    <3>4. QED
      BY <2>3, <3>1, <3>3 DEF ScriptDropsRoot, DevicesWatched
  <2>4. QED
    BY <2>1, <2>2, <2>3
<1>5. QED
  BY <1>1, <1>2, <1>3, <1>4

\* A device is opened, unplugged or closed.
LEMMA DeviceKeeps ==
  ASSUME Roots, LogsToALiveInstance,
         \/ \E i \in Instances :
                \/ DestroyCloses(i) \/ DestroyClosed(i)
                \/ DeviceListed(i) \/ DeviceUnplugged(i)
         \/ DeviceStrays
  PROVE  Roots' /\ LogsToALiveInstance'
<1> USE DEF Roots
<1>1. PICK i \in Instances, now \in {"none", "listed", "closing", "stray"} :
          /\ device' = [device EXCEPT ![i] = now]
          /\ now \in {"listed", "closing"} =>
                 roots[i] = "root" /\ ~(wait = [job |-> "destroy", of |-> i] /\ completed)
          /\ now # "none" => roots[i] \in {"root", "gone"}
          /\ device[i] # "stray"
          /\ UNCHANGED <<promise, table, objects, held, listening, events, threads>>
  <2>1. ASSUME NEW i \in Instances, DestroyCloses(i) \/ DestroyClosed(i) \/ DeviceUnplugged(i)
        PROVE  /\ device[i] \in {"listed", "closing"}
               /\ \E now \in {"none", "closing", "stray"} :
                      device' = [device EXCEPT ![i] = now]
               /\ UNCHANGED <<promise, table, objects, held, listening, events, threads>>
    BY <2>1 DEF DestroyCloses, DestroyClosed, DeviceUnplugged
  <2>2. ASSUME NEW i \in Instances, DestroyCloses(i) \/ DestroyClosed(i) \/ DeviceUnplugged(i)
        PROVE  /\ roots[i] = "root" /\ ~(wait = [job |-> "destroy", of |-> i] /\ completed)
               /\ device[i] # "stray"
    BY <2>1, <2>2 DEF DevicesWatched
  <2>3. ASSUME NEW i \in Instances, DeviceListed(i)
        PROVE  /\ device' = [device EXCEPT ![i] = "listed"] /\ device[i] # "stray"
               /\ roots[i] = "root" /\ ~(wait = [job |-> "destroy", of |-> i] /\ completed)
               /\ UNCHANGED <<promise, table, objects, held, listening, events, threads>>
    BY <2>3 DEF DeviceListed, DestroyBegun, Awaited
  <2>4. ASSUME DeviceStrays
        PROVE  /\ device' = [device EXCEPT ![Caller] = "stray"] /\ device[Caller] # "stray"
               /\ roots[Caller] \in {"root", "gone"}
               /\ UNCHANGED <<promise, table, objects, held, listening, events, threads>>
    BY <2>4 DEF DeviceStrays, ListensToRoots
  <2>5. QED
    BY <2>1, <2>2, <2>3, <2>4
<1>2. PluginTypeOK' /\ RootsCounted'
  BY <1>1 DEF PluginTypeOK, RootsCounted, promise, table, threads
<1>3. Awaited' /\ WaitsForLive' /\ LogsToALiveInstance'
  BY <1>1 DEF Awaited, WaitsForLive, LogsToALiveInstance, Live, table, threads
<1>4. ListensToRoots' /\ DevicesWatched'
  <2>1. device'[i] = now /\ \A j \in Instances : j # i => device'[j] = device[j]
    BY <1>1 DEF PluginTypeOK
  <2>2. QED
    BY <1>1, <2>1 DEF ListensToRoots, DevicesWatched, table, threads
<1>5. QED
  BY <1>2, <1>3, <1>4


\* A step of the promise: a promise that is freed is not referred to again.
LEMMA PromiseKeeps ==
  ASSUME IInv, IInv', Roots, LogsToALiveInstance,
         Invoked \/ PromiseCalled \/ PromiseRuns \/ ScriptDropsPromise
  PROVE  Roots' /\ LogsToALiveInstance'
<1>1. UNCHANGED <<table, page, threads>>
  BY DEF Invoked, PromiseCalled, PromiseRuns, ScriptDropsPromise
<1>2. refs \in Nat /\ refs' \in Nat
  BY DEF IInv, TypeOK
<1>3. PromiseReleases \/ UNCHANGED <<objects, refs>>
  BY DEF Invoked, PromiseCalled, PromiseRuns, ScriptDropsPromise, Hang, Flush
<1>4. refs = 0 => refs' = 0
  <2> SUFFICES ASSUME refs = 0
               PROVE  refs' = 0
    OBVIOUS
  <2>1. /\ invocation = "gone" /\ ~scriptHolds /\ stack = <<>>
        /\ flush \notin {"scheduled", "running"}
    BY DEF IInv, TypeOK, RefsCounted, PhasesFit
  <2>2. QED
    BY <2>1, <1>2 DEF Invoked, MethodEnds, PromiseCalled, PromiseRuns,
       ScriptDropsPromise, Deliver, MayDeliver, ScheduleFlush, ReleaseContext, Hang,
       Flush, InvokeCallback, CallbackReturns, FlushEnds, ScriptDrops
<1> USE DEF Roots
<1>5. PluginTypeOK' /\ RootsCounted'
  <2>1. objects[Caller] \in Nat /\ (refs > 0 => objects[Caller] > 0)
    BY <1>2 DEF PluginTypeOK, RootsCounted
  <2>2. QED
    BY <1>1, <1>2, <1>3, <1>4, <2>1 DEF PromiseReleases, PluginTypeOK, RootsCounted,
       table, page, threads
<1>6. Awaited' /\ WaitsForLive' /\ ListensToRoots' /\ LogsToALiveInstance'
  BY <1>1 DEF Awaited, WaitsForLive, ListensToRoots, LogsToALiveInstance, Live,
              table, page, threads
<1>7. DevicesWatched'
  <2>1. \A i \in Instances : objects[i] = 0 => objects'[i] = 0
    BY <1>2, <1>3, <1>4 DEF PromiseReleases, PluginTypeOK, RootsCounted
  <2>2. QED
    BY <1>1, <2>1 DEF DevicesWatched, table, page, threads
<1>8. QED
  BY <1>5, <1>6, <1>7

LEMMA PluginNextKeepsInv ==
  ASSUME PluginInv, [PluginNext]_pluginVars
  PROVE  PluginInv'
<1> USE DEF PluginInv
<1>1. IInv'
  BY PluginStepsArePromiseSteps, NextKeepsIInv
<1>2. CASE Invoked \/ PromiseCalled \/ PromiseRuns \/ ScriptDropsPromise
  BY <1>1, <1>2, PromiseKeeps
<1>3. ASSUME NEW i \in Instances, PluginDestroy(i)
      PROVE  Roots' /\ LogsToALiveInstance'
  <2>1. roots[i] \in {"empty", "root"}
    BY <1>3 DEF PluginDestroy
  <2>2. QED
    BY <1>3, <2>1, DestroyEmptyKeeps, BrowserWaits, ThreadStepKeeps
<1>4. ASSUME NEW i \in Instances,
             \/ PluginNew(i) \/ PluginGetValue(i) \/ DestroyReturns(i)
             \/ AddEventListener(i) \/ SignalEmitted(i) \/ ClosureInvoke(i)
             \/ ScriptDropsRoot(i)
      PROVE  Roots' /\ LogsToALiveInstance'
  BY <1>4, PluginNewKeeps, GetValueKeeps, DestroyReturnsKeeps, PageKeeps
<1>5. ASSUME NEW i \in Instances,
             \/ DoDestroy(i) \/ DestroyReady(i) \/ DoGetProperty(i)
             \/ DestroyCloses(i) \/ DestroyClosed(i)
             \/ DeviceListed(i) \/ DeviceUnplugged(i)
      PROVE  Roots' /\ LogsToALiveInstance'
  BY <1>5, LoopRuns, ThreadStepKeeps, DeviceKeeps
<1>6. ASSUME NEW i \in Instances, GetProperty(i)
      PROVE  Roots' /\ LogsToALiveInstance'
  BY <1>6, BrowserWaits, ThreadStepKeeps
<1>7. CASE \/ GetPropertyReturns \/ DoInvoke \/ StopMainLoop \/ ShutdownReturns
           \/ Shutdown \/ DeviceStrays
  BY <1>1, <1>7, LoopRuns, BrowserWaits, ThreadStepKeeps, DeviceKeeps
<1>8. CASE UNCHANGED pluginVars
  BY <1>1, <1>8 DEF pluginVars, Roots, PluginTypeOK, RootsCounted, Awaited, WaitsForLive,
              ListensToRoots, DevicesWatched, LogsToALiveInstance, Live, promise, table, page,
              threads
<1>9. QED
  BY <1>1, <1>2, <1>3, <1>4, <1>5, <1>6, <1>7, <1>8 DEF PluginNext

LEMMA PluginInvHolds == PluginSpec => []PluginInv
<1>1. PluginInit => PluginInv
  BY PluginInit_Inv, InitEstablishesIInv DEF PluginInv, PluginInit
<1>2. PluginInv /\ [PluginNext]_pluginVars => PluginInv'
  BY PluginNextKeepsInv
<1>3. QED
  BY <1>1, <1>2, PTL DEF PluginSpec

\* The table of roots, their counts, the attached sources and what the two threads
\* are at keep their types; no count falls below zero.
THEOREM PluginTypeCorrect == PluginSpec => []PluginTypeOK
<1>1. PluginInv => PluginTypeOK
  BY DEF PluginInv, Roots
<1>2. QED
  BY PluginInvHolds, <1>1, PTL

\* Neither the promise nor a root is freed before the table, the script, the promise
\* of a method, both threads and every device that is listed or being closed for the
\* destroy have all done with it; the one thing that can find a freed root is a closure,
\* by the signal of a device nobody waits for.
THEOREM FreedInTime == PluginSpec => []NothingFreedInUse
<1>1. PluginInv => NothingFreedInUse
  <2>0. PluginInv => FreedWhenUnused /\ LogsToALiveInstance
    BY DEF PluginInv, IInv, TypeOK, RefsCounted, PhasesFit, FreedWhenUnused
  <2> SUFFICES ASSUME PluginInv, NEW i \in Instances, ~(objects[i] > 0)
               PROVE  /\ roots[i] # "root" /\ events[i] = 0 /\ wait.of # i
                      /\ i \notin held \cup destroying
                      /\ device[i] \notin {"listed", "closing"}
                      /\ i = Caller => refs = 0
    BY <2>0 DEF NothingFreedInUse, PluginInv, Roots, DevicesWatched
  <2> USE DEF PluginInv, Roots
  <2>1. /\ roots[i] # "root" /\ i \notin held
        /\ i = Caller => refs = 0
    BY DEF PluginTypeOK, RootsCounted, IInv, TypeOK
  <2>2. wait.of # i /\ i \notin destroying
    BY <2>1 DEF PluginTypeOK, Awaited, WaitsForLive
  <2>3. events[i] = 0 /\ device[i] \notin {"listed", "closing"}
    BY <2>1 DEF PluginTypeOK, ListensToRoots, DevicesWatched
  <2>4. QED
    BY <2>1, <2>2, <2>3
<1>2. QED
  BY PluginInvHolds, <1>1, PTL

\* Messages are logged to the console of a live instance as long as there is one.
THEOREM LoggingHasALiveInstance == PluginSpec => []LogsToALiveInstance
<1>1. PluginInv => LogsToALiveInstance
  BY DEF PluginInv
<1>2. QED
  BY PluginInvHolds, <1>1, PTL

-----------------------------------------------------------------------------
(* CloudSpyRoot.  The strengthening of TrackedScriptsRun that is inductive. *)

Steps == {"host", "connect", "inject", "create", "destroy"}
PageCallRecords ==
    [kind : {"none", "devices", "processes", "attach", "post", "detach"},
     at : {"none", "open", "start"} \cup Steps,
     of : {<<>>} \cup {<<d>> : d \in Locals} \cup Targets,
     agent : 0..MaxAgents, script : 0..MaxPageScripts, old : 0..MaxPageScripts]

\* What holds of one call whatever the others do.
PageCallFits(r) ==
    /\ r.at = "none" => r = NoCall
    /\ r.at = "open" => r.of \in {<<d>> : d \in Locals}
    /\ r.at \in Steps => r.of \in Targets /\ r.kind \notin {"none", "devices"}
    /\ r.at = "inject" => r.kind # "processes"
    /\ r.at = "create" => r.kind = "attach" /\ r.old = 0
    /\ r.at = "destroy" => r.old # 0
    /\ r.kind = "detach" => r.old # 0
    /\ r.old # 0 => r.at \in Steps /\ r.kind \in {"attach", "detach"}
    /\ r.script # 0 => r.kind = "attach" /\ r.old # 0

RootTypes ==
    /\ RootOK
    /\ call \in [PageCalls -> PageCallRecords] /\ \A c \in PageCalls : PageCallFits(call[c])
    /\ Len(home) <= MaxAgents /\ Len(inAgent) <= MaxPageScripts
    /\ root = "closing" => walk.at >= 1

\* There is one call at most, and it is made while the root lives, to a listed device.
OneCall ==
    /\ \A c, e \in UnderWay : c = e
    /\ root # "alive" => UnderWay = {}

\* Devices are listed once, and never again when they have been unplugged; the host
\* sessions are those of listed devices and of those that are being closed.
DevicesFit ==
    /\ Listed \subseteq made
    /\ \A m, n \in DOMAIN devices : devices[m] = devices[n] => m = n
    /\ \A k \in closers : k[2] \in made
    /\ \A k \in closers : k[1] # "destroy" => k[1] = k[2] /\ k[2] \notin Listed
    /\ \A b \in Bodies : toClose[b] # {} => \E d \in Devices : <<b, d>> \in closers
    /\ host \subseteq Listed \cup {d \in Tethers : <<d, d>> \in closers}

\* The two maps of agent sessions agree; one that lives is in them or being closed.
AgentsFit ==
    /\ \A t \in Targets : agentBy[t] # 0 => agentBy[t] \in mapped /\ home[agentBy[t]] = t
    /\ \A a \in mapped : /\ agentBy[home[a]] = a
                         /\ home[a][1] \in Listed \cap host
                         /\ \A b \in Bodies : a \notin toClose[b]
    /\ ended \cap up = {}
    /\ \A a \in up : a \in mapped \/ \E b \in Bodies : a \in toClose[b]
    /\ \A b \in Bodies : toClose[b] \subseteq DOMAIN home

MappedAt(x, t) == inAgent[x] \in mapped /\ home[inAgent[x]] = t

ScriptsTracked ==
    /\ \A t \in Targets : \A x \in 1..MaxPageScripts : scriptBy[t] = x =>
           /\ x \in DOMAIN inAgent /\ MappedAt(x, t)
           /\ x \in runs \/ inAgent[x] \in ended
    /\ \A x \in runs :
           /\ inAgent[x] \in up
           /\ \/ \E t \in Targets : scriptBy[t] = x
              \/ \E c \in PageCalls : x \in {call[c].script, call[c].old}
              \/ \E b \in Bodies : inAgent[x] \in toClose[b]

\* What the call works on: its agent session is in the maps while it lives, the script
\* it detaches or replaces is not tracked, nor is the one that replaces it yet.
CallWorks(r) ==
    /\ r.at = "open" => r.of[1] \in made \ Listed
    /\ r.at \in Steps => r.of[1] \in Listed
    /\ r.at \in Steps \ {"connect"} => r.of[1] \in host
    /\ r.at = "inject" => agentBy[r.of] = 0
    /\ r.at \in {"create", "destroy"} =>
           /\ r.agent \in DOMAIN home /\ home[r.agent] = r.of
           /\ r.agent \in up => r.agent \in mapped
    /\ r.old # 0 =>
           /\ scriptBy[r.of] = 0 /\ r.old \in DOMAIN inAgent
           /\ r.old \in runs =>
                  /\ MappedAt(r.old, r.of) /\ r.at \in {"host", "destroy"}
                  /\ r.at = "destroy" => r.agent = inAgent[r.old]
    /\ r.old # 0 /\ r.kind = "attach" =>
           /\ r.script \in runs \ {r.old} /\ MappedAt(r.script, r.of)
           /\ r.at \in {"host", "destroy"}
           /\ r.at = "destroy" => r.agent = inAgent[r.script]

CallsWork == \A c \in PageCalls : CallWorks(call[c])

\* destroy has closed the devices up to its place in the list, and nothing is obtained
\* from those that come after it began.
WalkFits ==
    /\ \A k \in closers : k[1] = "destroy" =>
           /\ root = "closing" /\ walk.at <= walk.size /\ k[2] = devices[walk.at]
           /\ \A a \in mapped : home[a][1] # k[2]
    /\ root = "closing" =>
           /\ walk.at <= walk.size + 1 /\ walk.size <= Len(devices)
           /\ \A n \in DOMAIN devices : n < walk.at \/ n > walk.size =>
                  devices[n] \notin host /\ \A a \in mapped : home[a][1] # devices[n]
    /\ root \in {"stopping", "gone"} =>
           mapped = {} /\ host \subseteq {d \in Tethers : <<d, d>> \in closers}

Unraced ==
    /\ rootCrash = "no" /\ OneCall /\ DevicesFit /\ AgentsFit /\ ScriptsTracked /\ CallsWork
    /\ WalkFits

RootInv == RootTypes /\ (~raced => Unraced)

-----------------------------------------------------------------------------
USE DevicesAreDistinct, RootBoundsAreNat
USE DEF listVars, tableVars, remoteVars, closeDeviceVars, Devices, Bodies

(* The types, which hold whatever overlaps.                                *)

\* A call goes on, begins or ends.
LEMMA CallGoesOn ==
  ASSUME RootTypes, NEW c \in PageCalls, NEW r \in PageCallRecords, PageCallFits(r),
         call' = [call EXCEPT ![c] = r]
  PROVE  /\ call' \in [PageCalls -> PageCallRecords] /\ DOMAIN call' = PageCalls
         /\ \A e \in PageCalls : PageCallFits(call'[e])
         /\ call'[c] = r /\ \A e \in PageCalls : e # c => call'[e] = call[e]
<1>1. call \in [PageCalls -> PageCallRecords] /\ \A e \in PageCalls : PageCallFits(call[e])
  BY DEF RootTypes
<1>2. /\ call' \in [PageCalls -> PageCallRecords]
      /\ call'[c] = r /\ \A e \in PageCalls : e # c => call'[e] = call[e]
  BY <1>1
<1>3. \A e \in PageCalls : PageCallFits(call'[e])
  BY <1>1, <1>2
<1>4. QED
  BY <1>2, <1>3

LEMMA NoCallFits == NoCall \in PageCallRecords /\ PageCallFits(NoCall)
  BY DEF NoCall, PageCallRecords, PageCallFits, Steps

LEMMA TargetsHaveDevices ==
  /\ \A t \in Targets : t[1] \in Devices
  /\ \A d \in Locals : <<d>>[1] = d /\ d \in Devices
  BY DEF Targets

LEMMA ToHostFits ==
  ASSUME NEW r \in PageCallRecords, r.of \in Targets
  PROVE  LET s == ToHost(r)
         IN  /\ s \in PageCallRecords /\ s.kind = r.kind /\ s.of = r.of /\ s.old = r.old
             /\ s.script = r.script /\ s.agent = r.agent /\ s.at \in {"host", "connect"}
             /\ s.at = IF r.of[1] \in host THEN "host" ELSE "connect"
<1> DEFINE at == IF r.of[1] \in host THEN "host" ELSE "connect"
           s == [r EXCEPT !.at = at]
<1>1. at \in {"host", "connect"}
  OBVIOUS
<1>2. ToHost(r) = s
  BY DEF ToHost
<1> HIDE DEF at
<1>3. /\ s \in PageCallRecords /\ s.kind = r.kind /\ s.of = r.of /\ s.old = r.old
      /\ s.script = r.script /\ s.agent = r.agent /\ s.at = at
  BY <1>1 DEF PageCallRecords, Steps
<1> HIDE DEF s
<1>4. QED
  BY <1>1, <1>2, <1>3 DEF at

\* What a page asks for.
Asked(kind, t, old) == ToHost([NoCall EXCEPT !.kind = kind, !.of = t, !.old = old])

LEMMA AskedFits ==
  ASSUME RootTypes, NEW t \in Targets, NEW old \in 0..MaxPageScripts,
         NEW kind \in {"processes", "attach", "post", "detach"},
         kind = "detach" <=> old # 0,
         NEW r, r = Asked(kind, t, old)
  PROVE  /\ r \in PageCallRecords /\ PageCallFits(r)
         /\ r.kind = kind /\ r.of = t /\ r.old = old /\ r.script = 0
         /\ t[1] \in host => r.at = "host"
         /\ t[1] \notin host => r.at = "connect"
<1> DEFINE s == [NoCall EXCEPT !.kind = kind, !.of = t, !.old = old]
<1>6. r = ToHost(s)
  BY DEF Asked
<1>1. NoCall \in PageCallRecords /\ NoCall.script = 0
  BY NoCallFits DEF NoCall
<1>2. /\ s \in PageCallRecords /\ s.kind = kind /\ s.of = t /\ s.old = old
      /\ s.script = NoCall.script
  BY <1>1 DEF PageCallRecords
<1> HIDE DEF s
<1>3. /\ r \in PageCallRecords
      /\ r.kind = kind /\ r.of = t /\ r.old = old /\ r.script = 0
      /\ r.at \in {"host", "connect"} /\ r.at = IF t[1] \in host THEN "host" ELSE "connect"
  BY <1>1, <1>2, <1>6, ToHostFits
<1>4. PageCallFits(r)
  BY <1>3 DEF PageCallFits, Steps
<1>5. QED
  BY <1>3, <1>4

LEMMA EnumerateTypes ==
  ASSUME RootTypes, NEW c \in PageCalls, NEW d \in Devices, EnumerateDevices(c, d)
  PROVE  RootTypes'
<1> DEFINE r == [NoCall EXCEPT !.kind = "devices", !.at = "open", !.of = <<d>>]
<1>1. r \in PageCallRecords /\ PageCallFits(r)
  <2>1. d \in Locals
    BY DEF EnumerateDevices
  <2>2. <<d>> \in {<<e>> : e \in Locals}
    BY <2>1
  <2>3. NoCall \in PageCallRecords /\ NoCall.script = 0 /\ NoCall.old = 0
    BY NoCallFits DEF NoCall
  <2> DEFINE of == <<d>>
  <2> HIDE DEF of
  <2>4. /\ [NoCall EXCEPT !.kind = "devices", !.at = "open", !.of = of] \in PageCallRecords
        /\ PageCallFits([NoCall EXCEPT !.kind = "devices", !.at = "open", !.of = of])
    <3> DEFINE s == [NoCall EXCEPT !.kind = "devices", !.at = "open", !.of = of]
    <3>1. of \in {<<e>> : e \in Locals}
      BY <2>2 DEF of
    <3>2. /\ s \in PageCallRecords /\ s.kind = "devices" /\ s.at = "open" /\ s.of = of
          /\ s.script = 0 /\ s.old = 0
      BY <2>3, <3>1 DEF PageCallRecords
    <3> HIDE DEF s
    <3>3. PageCallFits(s)
      BY <3>1, <3>2 DEF PageCallFits, Steps
    <3>4. QED
      BY <3>2, <3>3 DEF s
  <2>5. r = [NoCall EXCEPT !.kind = "devices", !.at = "open", !.of = of]
    BY DEF of
  <2> HIDE DEF r
  <2>6. QED
    BY <2>4, <2>5
<1>2. call' = [call EXCEPT ![c] = r]
  BY DEF EnumerateDevices, PageBegins
<1> HIDE DEF r
<1>3. /\ call' \in [PageCalls -> PageCallRecords] /\ DOMAIN call' = PageCalls
      /\ \A e \in PageCalls : PageCallFits(call'[e])
  BY <1>1, <1>2, CallGoesOn
<1>4. /\ UNCHANGED <<devices, backends, host, tableVars, remoteVars, closeDeviceVars, rootCrash>>
      /\ made' \subseteq Devices /\ raced' \in BOOLEAN
  BY DEF EnumerateDevices, PageBegins, RootTypes, RootOK
<1>5. RootOK'
  BY <1>3, <1>4 DEF RootTypes, RootOK
<1>6. QED
  BY <1>3, <1>4, <1>5 DEF RootTypes

LEMMA LocalOpenedTypes ==
  ASSUME RootTypes, NEW c \in PageCalls, LocalOpened(c)
  PROVE  /\ RootTypes' /\ call[c].of[1] \in Locals /\ call[c].old = 0 /\ call[c].script = 0
         /\ call'[c].at = "start" /\ call'[c].old = 0 /\ call'[c].script = 0
         /\ \A e \in PageCalls : e # c => call'[e] = call[e]
<1> DEFINE r == [call[c] EXCEPT !.at = "start"]
<1>1. call[c] \in PageCallRecords /\ PageCallFits(call[c]) /\ call[c].at = "open"
  BY DEF LocalOpened, RootTypes
<1>2. call[c].of \in {<<d>> : d \in Locals} /\ call[c].old = 0 /\ call[c].script = 0
  BY <1>1 DEF PageCallFits, Steps
<1>3. r \in PageCallRecords /\ PageCallFits(r) /\ r.at = "start" /\ r.old = 0 /\ r.script = 0
  BY <1>1, <1>2 DEF PageCallRecords, PageCallFits, Steps
<1>4. call' = [call EXCEPT ![c] = r]
  BY DEF LocalOpened
<1> HIDE DEF r
<1>5. /\ call' \in [PageCalls -> PageCallRecords] /\ DOMAIN call' = PageCalls
      /\ \A e \in PageCalls : PageCallFits(call'[e])
      /\ call'[c] = r /\ \A e \in PageCalls : e # c => call'[e] = call[e]
  BY <1>3, <1>4, CallGoesOn
<1>6. call[c].of[1] \in Locals
  BY <1>2
<1>7. /\ UNCHANGED <<made, tableVars, remoteVars, closeDeviceVars, raced, rootCrash>>
      /\ host' \subseteq Devices /\ devices' \in Seq(Devices) /\ backends' \in Nat
  BY <1>6 DEF LocalOpened, RootTypes, RootOK
<1>8. RootOK'
  BY <1>5, <1>7 DEF RootTypes, RootOK
<1>9. QED
  BY <1>2, <1>3, <1>5, <1>6, <1>7, <1>8 DEF RootTypes

LEMMA BeginsCloseTypes ==
  ASSUME RootTypes, NEW b \in Bodies, NEW d \in Devices, BeginsClose(b, d)
  PROVE  /\ agentBy' \in [Targets -> 0..MaxAgents] /\ scriptBy' \in [Targets -> 0..MaxPageScripts]
         /\ mapped' \subseteq mapped /\ closers' \subseteq Bodies \X Devices
         /\ AgentsOf(d) \subseteq 1..MaxAgents /\ toClose' \in [Bodies -> SUBSET (1..MaxAgents)]
         /\ toClose'[b] = AgentsOf(d)
         /\ \A e \in Bodies : e # b => toClose'[e] = toClose[e]
<1>1. agentBy \in [Targets -> 0..MaxAgents] /\ scriptBy \in [Targets -> 0..MaxPageScripts]
      /\ toClose \in [Bodies -> SUBSET (1..MaxAgents)] /\ closers \subseteq Bodies \X Devices
  BY DEF RootTypes, RootOK
<1>2. AgentsOf(d) \subseteq 1..MaxAgents
  <2>1. \A t \in {d} \X Processes : t \in Targets
    BY DEF Targets
  <2>2. QED
    BY <1>1, <2>1 DEF AgentsOf
<1>3. agentBy' \in [Targets -> 0..MaxAgents]
  BY <1>1 DEF BeginsClose
<1>4. scriptBy' \in [Targets -> 0..MaxPageScripts]
  BY <1>1 DEF BeginsClose
<1>5. mapped' \subseteq mapped /\ closers' \subseteq Bodies \X Devices
  BY <1>1 DEF BeginsClose
<1>6. /\ toClose' \in [Bodies -> SUBSET (1..MaxAgents)]
      /\ toClose'[b] = AgentsOf(d)
      /\ \A e \in Bodies : e # b => toClose'[e] = toClose[e]
  BY <1>1, <1>2 DEF BeginsClose
<1>7. QED
  BY <1>2, <1>3, <1>4, <1>5, <1>6

LEMMA DevicesTypes ==
  ASSUME RootTypes,
         \/ \E d \in Tethers : ProviderAvailable(d) \/ ProviderUnavailable(d)
         \/ \E b \in Bodies : \/ \E a \in 1..MaxAgents : AgentClosed(b, a)
                              \/ \E d \in Devices : DeviceClosed(b, d)
         \/ Destroy \/ DestroyGoesOn \/ Destroyed
  PROVE  RootTypes'
<1>1. ASSUME NEW d \in Tethers, ProviderAvailable(d) PROVE RootTypes'
  <2>1. /\ UNCHANGED <<backends, host, tableVars, remoteVars, closeDeviceVars, call, raced,
                       rootCrash>>
        /\ devices' \in Seq(Devices) /\ made' \subseteq Devices
    BY <1>1 DEF ProviderAvailable, RootTypes, RootOK
  <2>2. RootOK'
    BY <2>1 DEF RootTypes, RootOK
  <2>3. QED
    BY <2>1, <2>2 DEF RootTypes
<1>2. ASSUME NEW d \in Tethers, ProviderUnavailable(d) PROVE RootTypes'
  <2>1. BeginsClose(d, d) /\ d \in Bodies /\ d \in Devices
    BY <1>2 DEF ProviderUnavailable
  <2>2. /\ agentBy' \in [Targets -> 0..MaxAgents] /\ scriptBy' \in [Targets -> 0..MaxPageScripts]
        /\ mapped' \subseteq mapped /\ closers' \subseteq Bodies \X Devices
        /\ toClose' \in [Bodies -> SUBSET (1..MaxAgents)]
    BY <2>1, BeginsCloseTypes
  <2>3. devices' \in Seq(Devices)
    <3>1. PICK n \in DOMAIN devices : devices' = RemoveAt(devices, n)
      BY <1>2 DEF ProviderUnavailable
    <3>2. devices \in Seq(Devices)
      BY DEF RootTypes, RootOK
    <3>3. n \in 1..Len(devices)
      BY <3>1, <3>2
    <3>4. QED
      BY <3>1, <3>2, <3>3, OneDeviceLess
  <2>4. /\ UNCHANGED <<made, backends, host, remoteVars, root, walk, call, rootCrash>>
        /\ raced' \in BOOLEAN
    BY <1>2 DEF ProviderUnavailable, RootTypes, RootOK
  <2>5. RootOK'
    BY <2>2, <2>3, <2>4 DEF RootTypes, RootOK
  <2>6. QED
    BY <2>4, <2>5 DEF RootTypes
<1>3. ASSUME NEW b \in Bodies, NEW a \in 1..MaxAgents, AgentClosed(b, a) PROVE RootTypes'
  <2>1. /\ UNCHANGED <<listVars, host, tableVars, home, ended, inAgent, root, walk, closers,
                       call, raced, rootCrash>>
        /\ toClose' \in [Bodies -> SUBSET (1..MaxAgents)]
        /\ up' \subseteq up /\ runs' \subseteq runs
    BY <1>3 DEF AgentClosed, RootTypes, RootOK
  <2>2. RootOK'
    BY <2>1 DEF RootTypes, RootOK
  <2>3. QED
    BY <2>1, <2>2 DEF RootTypes
<1>4. ASSUME NEW b \in Bodies, NEW d \in Devices, DeviceClosed(b, d) PROVE RootTypes'
  <2>1. /\ UNCHANGED <<listVars, tableVars, remoteVars, root, toClose, call, raced, rootCrash>>
        /\ closers' \subseteq closers /\ host' \subseteq host
    BY <1>4 DEF DeviceClosed
  <2>2. walk' \in [at : Nat, size : Nat] /\ (walk.at >= 1 => walk'.at >= 1)
    <3>1. walk' = walk \/ walk' = [walk EXCEPT !.at = @ + 1]
      BY <1>4 DEF DeviceClosed, After
    <3>2. walk \in [at : Nat, size : Nat]
      BY DEF RootTypes, RootOK
    <3>3. QED
      BY <3>1, <3>2
  <2>3. RootOK'
    BY <2>1, <2>2 DEF RootTypes, RootOK
  <2>4. QED
    BY <2>1, <2>2, <2>3 DEF RootTypes
<1>5. CASE Destroy
  <2>1. /\ UNCHANGED <<listVars, host, tableVars, remoteVars, closers, toClose, call, rootCrash>>
        /\ root' = "closing" /\ walk' = [at |-> 1, size |-> Len(devices)]
        /\ raced' \in BOOLEAN
    BY <1>5 DEF Destroy, RootTypes, RootOK
  <2>2. walk' \in [at : Nat, size : Nat] /\ walk'.at >= 1
    BY <2>1 DEF RootTypes, RootOK
  <2>3. RootOK'
    BY <2>1, <2>2 DEF RootTypes, RootOK
  <2>4. QED
    BY <2>1, <2>2, <2>3 DEF RootTypes
<1>6. CASE DestroyGoesOn
  <2>1. UNCHANGED <<made, backends, host, remoteVars, walk, call, raced>> /\ root = "closing"
    BY <1>6 DEF DestroyGoesOn
  <2>2. CASE UNCHANGED <<tableVars, closers, toClose>>
    <3>1. /\ root' \in {"closing", "stopping"} /\ devices' \in Seq(Devices)
          /\ rootCrash' \in {"no", "assert_index", "null_host_session"}
      <4>1. devices \in Seq(Devices) /\ <<>> \in Seq(Devices) /\ rootCrash \in
                {"no", "assert_index", "null_host_session"}
        BY DEF RootTypes, RootOK
      <4>2. /\ root' = "stopping" \/ root' = root
            /\ devices' = <<>> \/ devices' = devices
            /\ rootCrash' = "assert_index" \/ rootCrash' = rootCrash
        BY <1>6 DEF DestroyGoesOn
      <4>3. QED
        BY <2>1, <4>1, <4>2
    <3>2. RootOK'
      BY <2>1, <2>2, <3>1 DEF RootTypes, RootOK
    <3>3. QED
      BY <2>1, <2>2, <3>1, <3>2 DEF RootTypes
  <2>3. CASE /\ walk.at <= walk.size /\ walk.at <= Len(devices)
             /\ BeginsClose("destroy", devices[walk.at]) /\ UNCHANGED <<root, devices, rootCrash>>
    <3>1. devices[walk.at] \in Devices
      BY <2>1, <2>3, ElementOfSeq DEF RootTypes, RootOK
    <3>2. /\ agentBy' \in [Targets -> 0..MaxAgents]
          /\ scriptBy' \in [Targets -> 0..MaxPageScripts]
          /\ mapped' \subseteq mapped /\ closers' \subseteq Bodies \X Devices
          /\ toClose' \in [Bodies -> SUBSET (1..MaxAgents)]
      BY <2>3, <3>1, BeginsCloseTypes
    <3>3. RootOK'
      BY <2>1, <2>3, <3>2 DEF RootTypes, RootOK
    <3>4. QED
      BY <2>1, <2>3, <3>3 DEF RootTypes
  <2>4. \/ UNCHANGED <<tableVars, closers, toClose>>
        \/ /\ ~(walk.at > walk.size) /\ ~(walk.at > Len(devices))
           /\ BeginsClose("destroy", devices[walk.at])
           /\ UNCHANGED <<root, devices, rootCrash>>
    BY <1>6 DEF DestroyGoesOn
  <2>5. walk.at \in Nat /\ walk.size \in Nat /\ Len(devices) \in Nat
    BY DEF RootTypes, RootOK
  <2>6. QED
    BY <2>2, <2>3, <2>4, <2>5
<1>7. CASE Destroyed
  <2>1. /\ UNCHANGED <<devices, made, host, tableVars, remoteVars, walk, closers, toClose, call,
                       raced, rootCrash>>
        /\ root' = "gone" /\ backends' \in Nat
    BY <1>7 DEF Destroyed, RootTypes, RootOK
  <2>2. RootOK'
    BY <2>1 DEF RootTypes, RootOK
  <2>3. QED
    BY <2>1, <2>2 DEF RootTypes
<1>8. QED
  BY <1>1, <1>2, <1>3, <1>4, <1>5, <1>6, <1>7

LEMMA PageCalledTypes ==
  ASSUME RootTypes, NEW c \in PageCalls, NEW t \in Targets, PageCalled(c, t)
  PROVE  RootTypes'
<1>1. PICK kind \in {"processes", "attach", "post", "detach"} :
          LET old == IF kind = "detach" THEN scriptBy[t] ELSE 0
          IN  /\ kind \in {"post", "detach"} => scriptBy[t] # 0
              /\ PageBegins(c, ToHost([NoCall EXCEPT !.kind = kind, !.of = t, !.old = old]))
              /\ scriptBy' = IF kind = "detach" THEN [scriptBy EXCEPT ![t] = 0] ELSE scriptBy
              /\ UNCHANGED <<listVars, host>>
  BY DEF PageCalled
<1>2. scriptBy \in [Targets -> 0..MaxPageScripts]
  BY DEF RootTypes, RootOK
<1>3. PICK old \in 0..MaxPageScripts :
          old = (IF kind = "detach" THEN scriptBy[t] ELSE 0) /\ (kind = "detach" <=> old # 0)
  BY <1>1, <1>2
<1>10. PICK r : r = Asked(kind, t, old)
  OBVIOUS
<1>4. r \in PageCallRecords /\ PageCallFits(r)
  BY <1>3, <1>10, AskedFits
<1>5. call' = [call EXCEPT ![c] = r]
  BY <1>1, <1>3, <1>10 DEF PageBegins, Asked
<1>6. /\ call' \in [PageCalls -> PageCallRecords] /\ DOMAIN call' = PageCalls
      /\ \A e \in PageCalls : PageCallFits(call'[e])
  BY <1>4, <1>5, CallGoesOn
<1>7. /\ UNCHANGED <<agentBy, mapped, remoteVars, closeDeviceVars, rootCrash, listVars, host>>
      /\ scriptBy' \in [Targets -> 0..MaxPageScripts] /\ raced' \in BOOLEAN
  <2>1. UNCHANGED <<agentBy, mapped, remoteVars, closeDeviceVars, rootCrash, listVars, host>>
    BY <1>1 DEF PageBegins
  <2>2. scriptBy' \in [Targets -> 0..MaxPageScripts]
    BY <1>1, <1>2
  <2>3. raced' \in BOOLEAN
    BY <1>1 DEF PageBegins, RootTypes, RootOK
  <2>4. QED
    BY <2>1, <2>2, <2>3
<1>8. RootOK'
  BY <1>6, <1>7 DEF RootTypes, RootOK
<1>9. QED
  BY <1>6, <1>7, <1>8 DEF RootTypes

\* Where a call goes on that uses an agent session.
LEMMA UsesAgentFits ==
  ASSUME RootTypes, NEW c \in PageCalls, NEW a \in 0..MaxAgents, UsesAgent(c, a),
         call[c].at \in {"host", "connect", "inject"}, call[c].kind # "processes"
  PROVE  /\ call' \in [PageCalls -> PageCallRecords] /\ DOMAIN call' = PageCalls
         /\ \A e \in PageCalls : PageCallFits(call'[e])
         /\ \A e \in PageCalls : e # c => call'[e] = call[e]
         /\ \/ call'[c] = NoCall /\ call[c].old = 0 /\ call[c].script = 0
            \/ /\ call'[c].kind = call[c].kind /\ call'[c].of = call[c].of
               /\ call'[c].old = call[c].old /\ call'[c].script = call[c].script
               /\ call'[c].agent = a
               /\ call'[c].at = IF call[c].old # 0 THEN "destroy" ELSE "create"
<1> DEFINE r == call[c]
           at == IF r.old # 0 THEN "destroy" ELSE "create"
           s == [r EXCEPT !.agent = a, !.at = at]
<1>1. r \in PageCallRecords /\ PageCallFits(r)
  BY DEF RootTypes
<1>2. r.at \in Steps /\ r.of \in Targets /\ r.kind \in {"attach", "post", "detach"}
  BY <1>1 DEF PageCallFits, PageCallRecords, Steps
<1>3. CASE r.kind = "post"
  <2>1. call' = [call EXCEPT ![c] = NoCall] /\ r.old = 0 /\ r.script = 0
    BY <1>1, <1>3 DEF UsesAgent, PageCallFits
  <2>2. QED
    BY <2>1, CallGoesOn, NoCallFits
<1>4. CASE r.kind # "post"
  <2>1. call' = [call EXCEPT ![c] = s]
    BY <1>4 DEF UsesAgent
  <2> HIDE DEF r
  <2>2. /\ s \in PageCallRecords /\ s.at = at /\ s.agent = a
        /\ s.kind = r.kind /\ s.of = r.of /\ s.old = r.old /\ s.script = r.script
    BY <1>1 DEF PageCallRecords, Steps
  <2>3. PageCallFits(s)
    <3> HIDE DEF s
    <3>1. r.kind = "detach" => r.old # 0
      BY <1>1 DEF PageCallFits
    <3>2. QED
      BY <1>1, <1>2, <1>4, <2>2, <3>1 DEF PageCallFits, Steps
  <2> HIDE DEF s
  <2>4. QED
    BY <2>1, <2>2, <2>3, CallGoesOn DEF r
<1>5. QED
  BY <1>3, <1>4

LEMMA HostSessionTypes ==
  ASSUME RootTypes, NEW c \in PageCalls, HostSessionObtained(c)
  PROVE  RootTypes'
<1> DEFINE r == call[c]
<1>1. /\ r \in PageCallRecords /\ PageCallFits(r) /\ r.at \in {"host", "connect"}
      /\ r.of \in Targets /\ r.of[1] \in Devices /\ agentBy[r.of] \in 0..MaxAgents
  <2>1. r \in PageCallRecords /\ PageCallFits(r) /\ r.at \in {"host", "connect"}
    BY DEF RootTypes, HostSessionObtained
  <2>2. r.of \in Targets
    BY <2>1 DEF PageCallFits, Steps
  <2>3. QED
    BY <2>1, <2>2, TargetsHaveDevices DEF RootTypes, RootOK
<1>2. /\ UNCHANGED <<listVars, tableVars, remoteVars, closeDeviceVars, raced>>
      /\ host' \subseteq Devices
  BY <1>1 DEF HostSessionObtained, RootTypes, RootOK
<1>3. rootCrash' \in {"no", "assert_index", "null_host_session"}
  <2>1. rootCrash' \in {rootCrash, "null_host_session"}
    BY DEF HostSessionObtained
  <2>2. QED
    BY <2>1 DEF RootTypes, RootOK
<1>4. /\ call' \in [PageCalls -> PageCallRecords] /\ DOMAIN call' = PageCalls
      /\ \A e \in PageCalls : PageCallFits(call'[e])
  <2>1. CASE UNCHANGED call
    BY <2>1 DEF RootTypes, RootOK
  <2>2. CASE Ends(c)
    BY <2>2, CallGoesOn, NoCallFits DEF Ends
  <2>3. CASE r.kind # "processes" /\ call' = [call EXCEPT ![c].at = "inject"]
    <3> DEFINE s == [r EXCEPT !.at = "inject"]
    <3>1. call' = [call EXCEPT ![c] = s]
      BY <2>3
    <3> HIDE DEF r
    <3>2. /\ s \in PageCallRecords /\ s.at = "inject" /\ s.agent = r.agent
          /\ s.kind = r.kind /\ s.of = r.of /\ s.old = r.old /\ s.script = r.script
      BY <1>1 DEF PageCallRecords, Steps
    <3> HIDE DEF s
    <3>3. PageCallFits(s)
      BY <1>1, <2>3, <3>2 DEF PageCallFits, Steps
    <3>4. QED
      BY <3>1, <3>2, <3>3, CallGoesOn
  <2>4. CASE r.kind # "processes" /\ UsesAgent(c, agentBy[r.of])
    BY <1>1, <2>4, UsesAgentFits
  <2>5. QED
    BY <2>1, <2>2, <2>3, <2>4 DEF HostSessionObtained
<1>5. RootOK'
  BY <1>2, <1>3, <1>4 DEF RootTypes, RootOK
<1>6. QED
  BY <1>2, <1>4, <1>5 DEF RootTypes

LEMMA AgentObtainedTypes ==
  ASSUME RootTypes, NEW c \in PageCalls, AgentSessionObtained(c)
  PROVE  RootTypes'
<1> DEFINE a == Len(home) + 1
<1>1. /\ call[c] \in PageCallRecords /\ PageCallFits(call[c]) /\ call[c].at = "inject"
      /\ call[c].of \in Targets /\ call[c].kind # "processes"
  <2>1. call[c] \in PageCallRecords /\ PageCallFits(call[c]) /\ call[c].at = "inject"
    BY DEF RootTypes, AgentSessionObtained
  <2>2. QED
    BY <2>1 DEF PageCallFits, Steps
<1>2. home \in Seq(Targets) /\ a \in 1..MaxAgents /\ a <= MaxAgents
  BY DEF AgentSessionObtained, RootTypes, RootOK
<1>3. /\ home' = Append(home, call[c].of) /\ up' = up \cup {a} /\ mapped' = mapped \cup {a}
      /\ agentBy' = [agentBy EXCEPT ![call[c].of] = a] /\ UsesAgent(c, a)
      /\ UNCHANGED <<listVars, host, scriptBy, ended, inAgent, runs, closeDeviceVars, raced,
                     rootCrash>>
  BY DEF AgentSessionObtained
<1>4. /\ call' \in [PageCalls -> PageCallRecords] /\ DOMAIN call' = PageCalls
      /\ \A e \in PageCalls : PageCallFits(call'[e])
  <2> HIDE DEF a
  <2>1. a \in 0..MaxAgents
    BY <1>2
  <2>2. QED
    BY <1>1, <1>3, <2>1, UsesAgentFits
<1>5. home' \in Seq(Targets) /\ Len(home') = a /\ DOMAIN home' = DOMAIN home \cup {a}
  BY <1>1, <1>2, <1>3
<1> HIDE DEF a
<1>6. agentBy' \in [Targets -> 0..MaxAgents] /\ mapped' \cup up' \cup ended' \subseteq DOMAIN home'
  BY <1>1, <1>2, <1>3, <1>5 DEF RootTypes, RootOK
<1>7. RootOK'
  BY <1>3, <1>4, <1>5, <1>6 DEF RootTypes, RootOK
<1>8. QED
  BY <1>2, <1>3, <1>4, <1>5, <1>7 DEF RootTypes

LEMMA ScriptLoadedTypes ==
  ASSUME RootTypes, NEW c \in PageCalls, ScriptLoaded(c)
  PROVE  /\ RootTypes'
         /\ call[c].kind = "attach" /\ call[c].old = 0 /\ call[c].script = 0
         /\ \A e \in PageCalls : e # c => call'[e] = call[e]
         /\ LET old == scriptBy[call[c].of]
            IN  /\ old = 0 => call'[c] = NoCall
                /\ old # 0 =>
                       /\ call'[c].of = call[c].of /\ call'[c].old = old
                       /\ call'[c].script = Len(inAgent) + 1 /\ call'[c].kind = "attach"
                       /\ call'[c].at = IF call[c].of[1] \in host THEN "host" ELSE "connect"
<1> DEFINE r == call[c]
           x == Len(inAgent) + 1
           old == scriptBy[r.of]
<1>1. /\ r \in PageCallRecords /\ PageCallFits(r) /\ r.at = "create"
      /\ r.of \in Targets /\ r.kind = "attach" /\ r.old = 0 /\ r.script = 0
  <2>1. r \in PageCallRecords /\ PageCallFits(r) /\ r.at = "create"
    BY DEF RootTypes, ScriptLoaded
  <2>2. QED
    BY <2>1 DEF PageCallFits, Steps
<1>2. /\ inAgent \in Seq(1..MaxAgents) /\ x \in 1..MaxPageScripts /\ x <= MaxPageScripts
      /\ scriptBy \in [Targets -> 0..MaxPageScripts] /\ old \in 0..MaxPageScripts
      /\ r.agent \in 1..MaxAgents
  <2>1. /\ inAgent \in Seq(1..MaxAgents) /\ x <= MaxPageScripts
        /\ scriptBy \in [Targets -> 0..MaxPageScripts]
    BY DEF ScriptLoaded, RootTypes, RootOK
  <2>2. /\ r.agent \in up /\ up \subseteq DOMAIN home /\ home \in Seq(Targets)
        /\ Len(home) <= MaxAgents
    BY DEF ScriptLoaded, RootTypes, RootOK
  <2> HIDE DEF r
  <2>3. r.agent \in 1..Len(home) /\ Len(home) \in Nat
    BY <2>2
  <2>4. r.agent \in 1..MaxAgents
    BY <2>2, <2>3
  <2>5. x \in 1..MaxPageScripts
    BY <2>1
  <2>6. old \in 0..MaxPageScripts
    BY <1>1, <2>1
  <2>7. QED
    BY <2>1, <2>4, <2>5, <2>6
<1>3. /\ inAgent' = Append(inAgent, r.agent) /\ runs' = runs \cup {x}
      /\ scriptBy' = [scriptBy EXCEPT ![r.of] = IF old = 0 THEN x ELSE 0]
      /\ UNCHANGED <<listVars, host, agentBy, mapped, home, up, ended, closeDeviceVars, raced,
                     rootCrash>>
  BY DEF ScriptLoaded
<1>4. inAgent' \in Seq(1..MaxAgents) /\ Len(inAgent') = x
      /\ DOMAIN inAgent' = DOMAIN inAgent \cup {x}
  BY <1>2, <1>3
<1>5. /\ call' \in [PageCalls -> PageCallRecords] /\ DOMAIN call' = PageCalls
      /\ \A e \in PageCalls : PageCallFits(call'[e])
      /\ \A e \in PageCalls : e # c => call'[e] = call[e]
      /\ old = 0 => call'[c] = NoCall
      /\ old # 0 => /\ call'[c].of = r.of /\ call'[c].old = old /\ call'[c].script = x
                    /\ call'[c].kind = "attach"
                    /\ call'[c].at = IF r.of[1] \in host THEN "host" ELSE "connect"
  <2>1. CASE old = 0
    <3>1. call' = [call EXCEPT ![c] = NoCall]
      BY <2>1 DEF ScriptLoaded, Ends
    <3>2. QED
      BY <2>1, <3>1, CallGoesOn, NoCallFits
  <2>2. CASE old # 0
    <3> DEFINE p == [r EXCEPT !.script = x, !.old = old]
               s == ToHost(p)
    <3>1. call' = [call EXCEPT ![c] = s]
      BY <2>2 DEF ScriptLoaded
    <3> HIDE DEF r, x, old
    <3>6. x \in 0..MaxPageScripts /\ old \in 0..MaxPageScripts
      BY <1>2
    <3>2. /\ p \in PageCallRecords /\ p.kind = r.kind /\ p.of = r.of /\ p.script = x
          /\ p.old = old
      BY <1>1, <3>6 DEF PageCallRecords
    <3> HIDE DEF p
    <3>3. /\ s \in PageCallRecords /\ s.kind = "attach" /\ s.of = r.of /\ s.script = x
          /\ s.old = old /\ s.at \in {"host", "connect"}
          /\ s.at = IF r.of[1] \in host THEN "host" ELSE "connect"
      BY <1>1, <3>2, ToHostFits
    <3> HIDE DEF s
    <3>4. PageCallFits(s)
      BY <1>1, <1>2, <2>2, <3>3 DEF PageCallFits, Steps
    <3>5. QED
      BY <2>2, <3>1, <3>3, <3>4, CallGoesOn
  <2>3. QED
    BY <2>1, <2>2
<1>6. scriptBy' \in [Targets -> 0..MaxPageScripts] /\ runs' \subseteq DOMAIN inAgent'
  <2> HIDE DEF x, r, old
  <2>1. QED
    BY <1>1, <1>2, <1>3, <1>4 DEF RootTypes, RootOK
<1>7. RootOK'
  BY <1>3, <1>4, <1>5, <1>6 DEF RootTypes, RootOK
<1>8. RootTypes'
  BY <1>2, <1>3, <1>4, <1>5, <1>7 DEF RootTypes
<1>9. QED
  BY <1>1, <1>5, <1>8

LEMMA FinishesTypes ==
  ASSUME RootTypes, NEW c \in PageCalls, RemoteReturns(c) \/ CallFails(c)
  PROVE  /\ RootTypes' /\ call'[c] = NoCall
         /\ \A e \in PageCalls : e # c => call'[e] = call[e]
<1>1. /\ call' = [call EXCEPT ![c] = NoCall] /\ runs' \subseteq runs
      /\ UNCHANGED <<listVars, host, agentBy, mapped, home, up, ended, inAgent, closeDeviceVars,
                     raced, rootCrash>>
  BY DEF RemoteReturns, CallFails, Finishes, Ends
<1>2. /\ call' \in [PageCalls -> PageCallRecords] /\ DOMAIN call' = PageCalls
      /\ \A e \in PageCalls : PageCallFits(call'[e])
      /\ call'[c] = NoCall /\ \A e \in PageCalls : e # c => call'[e] = call[e]
  BY <1>1, CallGoesOn, NoCallFits
<1>3. scriptBy' \in [Targets -> 0..MaxPageScripts]
  <2>1. call[c] \in PageCallRecords /\ scriptBy \in [Targets -> 0..MaxPageScripts]
    BY DEF RootTypes, RootOK
  <2>2. call[c].script \in 0..MaxPageScripts
    BY <2>1 DEF PageCallRecords
  <2>3. scriptBy' = scriptBy \/ scriptBy' = [scriptBy EXCEPT ![call[c].of] = call[c].script]
    BY DEF RemoteReturns, CallFails, Finishes
  <2>4. QED
    BY <2>1, <2>2, <2>3
<1>4. RootOK'
  BY <1>1, <1>2, <1>3 DEF RootTypes, RootOK
<1>5. QED
  BY <1>1, <1>2, <1>4 DEF RootTypes

LEMMA AgentsTypes ==
  ASSUME RootTypes, NEW a \in 1..MaxAgents, AgentDies(a) \/ AgentSessionGone(a)
  PROVE  RootTypes'
<1>1. CASE AgentDies(a)
  <2>1. /\ UNCHANGED <<listVars, host, tableVars, home, inAgent, closeDeviceVars, call, rootCrash>>
        /\ up' \subseteq up /\ runs' \subseteq runs /\ ended' \subseteq ended \cup mapped
        /\ raced' \in BOOLEAN
    BY <1>1 DEF AgentDies, RootTypes, RootOK
  <2>2. RootOK'
    BY <2>1 DEF RootTypes, RootOK
  <2>3. QED
    BY <2>1, <2>2 DEF RootTypes
<1>2. CASE AgentSessionGone(a)
  <2>1. /\ UNCHANGED <<listVars, host, home, up, inAgent, runs, closeDeviceVars, call, raced,
                       rootCrash>>
        /\ ended' \subseteq ended /\ mapped' \subseteq mapped
    BY <1>2 DEF AgentSessionGone
  <2>2. agentBy' \in [Targets -> 0..MaxAgents] /\ scriptBy' \in [Targets -> 0..MaxPageScripts]
    <3>1. agentBy \in [Targets -> 0..MaxAgents] /\ scriptBy \in [Targets -> 0..MaxPageScripts]
      BY DEF RootTypes, RootOK
    <3>2. agentBy' = agentBy \/ agentBy' = [agentBy EXCEPT ![home[a]] = 0]
      BY <1>2 DEF AgentSessionGone
    <3>3. scriptBy' = scriptBy \/ scriptBy' = [scriptBy EXCEPT ![home[a]] = 0]
      BY <1>2 DEF AgentSessionGone, WithoutScript
    <3>4. agentBy' \in [Targets -> 0..MaxAgents]
      BY <3>1, <3>2
    <3>5. QED
      BY <3>1, <3>3, <3>4
  <2>3. RootOK'
    BY <2>1, <2>2 DEF RootTypes, RootOK
  <2>4. QED
    BY <2>1, <2>3 DEF RootTypes
<1>3. QED
  BY <1>1, <1>2

-----------------------------------------------------------------------------
(* What holds as long as nothing has raced.                                *)

LEMMA RootTyped ==
  ASSUME RootTypes
  PROVE  /\ agentBy \in [Targets -> 0..MaxAgents] /\ scriptBy \in [Targets -> 0..MaxPageScripts]
         /\ \A a \in DOMAIN home : a \in 1..MaxAgents /\ home[a] \in Targets
         /\ \A x \in DOMAIN inAgent : x \in 1..MaxPageScripts /\ inAgent[x] \in 1..MaxAgents
         /\ mapped \subseteq DOMAIN home /\ up \subseteq DOMAIN home /\ ended \subseteq DOMAIN home
         /\ runs \subseteq DOMAIN inAgent
         /\ \A c \in PageCalls : call[c] \in PageCallRecords /\ PageCallFits(call[c])
<1>1. /\ home \in Seq(Targets) /\ Len(home) \in Nat /\ Len(home) <= MaxAgents
      /\ inAgent \in Seq(1..MaxAgents) /\ Len(inAgent) \in Nat /\ Len(inAgent) <= MaxPageScripts
  BY DEF RootTypes, RootOK
<1>2. \A a \in DOMAIN home : a \in 1..MaxAgents /\ home[a] \in Targets
  <2> SUFFICES ASSUME NEW a \in DOMAIN home PROVE a \in 1..MaxAgents /\ home[a] \in Targets
    OBVIOUS
  <2>1. a \in 1..Len(home)
    BY <1>1
  <2>2. QED
    BY <1>1, <2>1, ElementOfSeq
<1>3. \A x \in DOMAIN inAgent : x \in 1..MaxPageScripts /\ inAgent[x] \in 1..MaxAgents
  <2> SUFFICES ASSUME NEW x \in DOMAIN inAgent
               PROVE  x \in 1..MaxPageScripts /\ inAgent[x] \in 1..MaxAgents
    OBVIOUS
  <2>1. x \in 1..Len(inAgent)
    BY <1>1
  <2>2. inAgent[x] \in 1..MaxAgents
    BY <1>1, <2>1, ElementOfSeq
  <2>3. QED
    BY <1>1, <2>1, <2>2
<1>4. QED
  BY <1>2, <1>3 DEF RootTypes, RootOK

LEMMA NoCallWorks ==
  /\ NoCall.at = "none" /\ NoCall.old = 0 /\ NoCall.script = 0
  /\ CallWorks(NoCall) /\ CallWorks(NoCall)'
<1>1. NoCall.at = "none" /\ NoCall.old = 0 /\ NoCall.script = 0
  BY DEF NoCall
<1>2. QED
  BY <1>1 DEF CallWorks, Steps

\* The call that goes on is the only one.
LEMMA AloneAtWork ==
  ASSUME RootTypes, Unraced, NEW c \in PageCalls, call[c].at # "none"
  PROVE  /\ root = "alive" /\ \A e \in PageCalls : e # c => call[e] = NoCall
         /\ CallWorks(call[c]) /\ \A k \in closers : k[1] # "destroy"
<1>1. call[c] # NoCall
  BY NoCallWorks
<1>2. root = "alive" /\ \A e \in PageCalls : e # c => call[e] = NoCall
  BY <1>1 DEF Unraced, OneCall, UnderWay
<1>3. QED
  BY <1>2 DEF Unraced, CallsWork, WalkFits

LEMMA NobodyAtWork ==
  ASSUME UnderWay = {}
  PROVE  \A e \in PageCalls : call[e] = NoCall
BY DEF UnderWay

LEMMA OneCallLeft ==
  ASSUME NEW c \in PageCalls, root' = "alive", CallWorks(call[c])',
         \A e \in PageCalls : e # c => call'[e] = NoCall
  PROVE  OneCall' /\ CallsWork'
<1>1. OneCall'
  BY DEF OneCall, UnderWay
<1>2. CallsWork'
  <2> SUFFICES ASSUME NEW e \in PageCalls PROVE CallWorks(call[e])'
    BY DEF CallsWork
  <2>1. CASE e = c
    BY <2>1
  <2>2. CASE e # c
    BY <2>2, NoCallWorks DEF CallWorks
  <2>3. QED
    BY <2>1, <2>2
<1>3. QED
  BY <1>1, <1>2

\* What does not depend on the calls.
LEMMA NothingElseMoves ==
  ASSUME Unraced, rootCrash' = "no",
         UNCHANGED <<devices, made, host, closers, toClose, agentBy, mapped, home, up, ended,
                     root, walk>>
  PROVE  DevicesFit' /\ AgentsFit' /\ WalkFits'
<1>1. DevicesFit'
  BY DEF Unraced, DevicesFit, Listed
<1>2. AgentsFit'
  BY DEF Unraced, AgentsFit, Listed
<1>3. WalkFits'
  BY DEF Unraced, WalkFits
<1>4. QED
  BY <1>1, <1>2, <1>3

LEMMA EnumerateKeeps ==
  ASSUME RootTypes, Unraced, rootCrash = "no", ~raced',
         NEW c \in PageCalls, NEW d \in Devices, EnumerateDevices(c, d)
  PROVE  Unraced'
<1> DEFINE r == [NoCall EXCEPT !.kind = "devices", !.at = "open", !.of = <<d>>]
<1>1. /\ d \in Locals /\ d \notin made /\ made' = made \cup {d} /\ devices = <<>>
      /\ root = "alive" /\ UnderWay = {}
      /\ UNCHANGED <<devices, backends, host, tableVars, remoteVars, closeDeviceVars, rootCrash>>
  BY DEF EnumerateDevices, PageBegins
<1>2. call' = [call EXCEPT ![c] = r] /\ call \in [PageCalls -> PageCallRecords]
  BY DEF EnumerateDevices, PageBegins, RootTypes
<1>3. r.at = "open" /\ r.of[1] = d /\ r.old = 0 /\ r.script = 0
  BY DEF NoCall
<1> HIDE DEF r
<1>4. call'[c] = r /\ \A e \in PageCalls : call[e] = NoCall /\ (e # c => call'[e] = NoCall)
  BY <1>1, <1>2, NobodyAtWork
<1>5. d \notin Listed'
  BY <1>1 DEF Listed
<1>6. CallWorks(r)'
  BY <1>1, <1>3, <1>5 DEF CallWorks, Steps
<1>7. OneCall' /\ CallsWork'
  BY <1>1, <1>4, <1>6, OneCallLeft DEF CallWorks
<1>8. DevicesFit'
  BY <1>1 DEF Unraced, DevicesFit, Listed
<1>9. AgentsFit'
  BY <1>1 DEF Unraced, AgentsFit, Listed
<1>10. WalkFits'
  BY <1>1 DEF Unraced, WalkFits
<1>11. ScriptsTracked'
  <2>1. /\ \A e \in PageCalls : call[e].script = 0 /\ call[e].old = 0
        /\ \A e \in PageCalls : call'[e].script = 0 /\ call'[e].old = 0
    BY <1>3, <1>4, NoCallWorks
  <2>2. QED
    BY <1>1, <2>1 DEF Unraced, ScriptsTracked, MappedAt
<1>12. QED
  BY <1>1, <1>7, <1>8, <1>9, <1>10, <1>11 DEF Unraced

LEMMA PageCalledKeeps ==
  ASSUME RootTypes, Unraced, rootCrash = "no", ~raced',
         NEW c \in PageCalls, NEW t \in Targets, PageCalled(c, t)
  PROVE  Unraced'
<1>1. PICK kind \in {"processes", "attach", "post", "detach"} :
          LET old == IF kind = "detach" THEN scriptBy[t] ELSE 0
          IN  /\ kind \in {"post", "detach"} => scriptBy[t] # 0
              /\ PageBegins(c, ToHost([NoCall EXCEPT !.kind = kind, !.of = t, !.old = old]))
              /\ scriptBy' = IF kind = "detach" THEN [scriptBy EXCEPT ![t] = 0] ELSE scriptBy
              /\ UNCHANGED <<listVars, host>>
  BY DEF PageCalled
<1>2. /\ t[1] \in Listed /\ root = "alive" /\ UnderWay = {}
      /\ UNCHANGED <<listVars, host, agentBy, mapped, remoteVars, closeDeviceVars, rootCrash>>
  BY <1>1 DEF PageCalled, PageBegins
<1>3. PICK old \in 0..MaxPageScripts :
          old = (IF kind = "detach" THEN scriptBy[t] ELSE 0) /\ (kind = "detach" <=> old # 0)
  BY <1>1, RootTyped
<1>14. PICK r : r = Asked(kind, t, old)
  OBVIOUS
<1>4. /\ r.kind = kind /\ r.of = t /\ r.old = old /\ r.script = 0
      /\ t[1] \in host => r.at = "host"
      /\ t[1] \notin host => r.at = "connect"
  BY <1>3, <1>14, AskedFits
<1>5. call' = [call EXCEPT ![c] = r] /\ call \in [PageCalls -> PageCallRecords]
  BY <1>1, <1>3, <1>14 DEF PageBegins, RootTypes, Asked
<1>6. scriptBy' = IF kind = "detach" THEN [scriptBy EXCEPT ![t] = 0] ELSE scriptBy
  BY <1>1
<1>7. call'[c] = r /\ \A e \in PageCalls : call[e] = NoCall /\ (e # c => call'[e] = NoCall)
  BY <1>2, <1>5, NobodyAtWork
<1>8. old # 0 => /\ scriptBy'[t] = 0 /\ old \in DOMAIN inAgent /\ MappedAt(old, t)
                 /\ r.at = "host" /\ kind = "detach"
  <2> SUFFICES ASSUME old # 0
               PROVE  /\ scriptBy'[t] = 0 /\ old \in DOMAIN inAgent /\ MappedAt(old, t)
                      /\ r.at = "host" /\ kind = "detach"
    OBVIOUS
  <2>1. kind = "detach" /\ old = scriptBy[t] /\ scriptBy'[t] = 0
    BY <1>3, <1>6, RootTyped
  <2>2. old \in DOMAIN inAgent /\ MappedAt(old, t)
    BY <1>3, <2>1 DEF Unraced, ScriptsTracked
  <2>3. t[1] \in host
    BY <2>2 DEF MappedAt, Unraced, AgentsFit
  <2>4. QED
    BY <1>4, <2>1, <2>2, <2>3
<1>9. CallWorks(r)'
  <2>1. Listed' = Listed /\ host' = host
    BY <1>2 DEF Listed
  <2>2. QED
    BY <1>2, <1>4, <1>8, <2>1 DEF CallWorks, MappedAt, Steps
<1>10. OneCall' /\ CallsWork'
  <2>1. CallWorks(call[c])'
    BY <1>7, <1>9 DEF CallWorks
  <2>2. root' = "alive" /\ \A e \in PageCalls : e # c => call'[e] = NoCall
    BY <1>2, <1>7
  <2>3. QED
    BY <2>1, <2>2, OneCallLeft
<1>11. DevicesFit' /\ AgentsFit' /\ WalkFits'
  BY <1>2, NothingElseMoves
<1>12. ScriptsTracked'
  <2>1. \A e \in PageCalls : call[e].script = 0 /\ call[e].old = 0
    BY <1>7, NoCallWorks
  <2>2. \A s \in Targets : scriptBy'[s] = scriptBy[s] \/ scriptBy'[s] = 0
    BY <1>6, RootTyped
  <2>3. \A x \in runs : (\E s \in Targets : scriptBy[s] = x) =>
            (\E s \in Targets : scriptBy'[s] = x) \/ x = call'[c].old
    BY <1>3, <1>4, <1>6, <1>7, RootTyped
  <2>4. \A s \in Targets : \A x \in 1..MaxPageScripts : scriptBy'[s] = x =>
            /\ x \in DOMAIN inAgent' /\ MappedAt(x, s)'
            /\ x \in runs' \/ inAgent'[x] \in ended'
    BY <1>2, <2>2 DEF Unraced, ScriptsTracked, MappedAt
  <2>5. \A x \in runs' :
           /\ inAgent'[x] \in up'
           /\ \/ \E s \in Targets : scriptBy'[s] = x
              \/ \E e \in PageCalls : x \in {call'[e].script, call'[e].old}
              \/ \E b \in Bodies : inAgent'[x] \in toClose'[b]
    <3> SUFFICES ASSUME NEW x \in runs
                 PROVE  /\ inAgent[x] \in up
                        /\ \/ \E s \in Targets : scriptBy'[s] = x
                           \/ \E e \in PageCalls : x \in {call'[e].script, call'[e].old}
                           \/ \E b \in Bodies : inAgent[x] \in toClose[b]
      BY <1>2
    <3>1. x # 0
      BY RootTyped
    <3>2. \/ \E s \in Targets : scriptBy[s] = x
          \/ \E b \in Bodies : inAgent[x] \in toClose[b]
      BY <2>1, <3>1 DEF Unraced, ScriptsTracked
    <3>3. inAgent[x] \in up
      BY DEF Unraced, ScriptsTracked
    <3>4. QED
      BY <2>3, <3>2, <3>3
  <2>6. QED
    BY <2>4, <2>5 DEF ScriptsTracked, MappedAt
<1>13. QED
  BY <1>2, <1>10, <1>11, <1>12 DEF Unraced

LEMMA LocalOpenedKeeps ==
  ASSUME RootTypes, Unraced, rootCrash = "no", NEW c \in PageCalls, LocalOpened(c)
  PROVE  Unraced'
<1>1. /\ call[c].at = "open" /\ call[c].of[1] \in Locals
      /\ call[c].old = 0 /\ call[c].script = 0
      /\ call'[c].at = "start" /\ call'[c].old = 0 /\ call'[c].script = 0
      /\ \A e \in PageCalls : e # c => call'[e] = call[e]
  BY LocalOpenedTypes DEF LocalOpened
<1>2. /\ root = "alive" /\ \A e \in PageCalls : e # c => call[e] = NoCall
      /\ CallWorks(call[c]) /\ \A k \in closers : k[1] # "destroy"
  BY <1>1, AloneAtWork
<1>3. PICK d : d = call[c].of[1] /\ d \in Locals
  BY <1>1
<1>4. d \in made \ Listed
  BY <1>1, <1>2, <1>3 DEF CallWorks
<1>5. /\ devices \in Seq(Devices) /\ devices' = Append(devices, d) /\ host' = host \cup {d}
      /\ UNCHANGED <<made, tableVars, remoteVars, closeDeviceVars, raced, rootCrash>>
  BY <1>3 DEF LocalOpened, RootTypes, RootOK
<1>6. /\ Len(devices) \in Nat /\ DOMAIN devices' = 1..Len(devices) + 1
      /\ DOMAIN devices = 1..Len(devices)
      /\ \A n \in 1..Len(devices) : devices'[n] = devices[n]
      /\ devices'[Len(devices) + 1] = d
  BY <1>5, <1>3
<1>7. Listed' = Listed \cup {d}
  BY <1>6 DEF Listed
<1>8. CallWorks(call[c])'
  BY <1>1 DEF CallWorks, Steps
<1>9. OneCall' /\ CallsWork'
  BY <1>1, <1>2, <1>5, <1>8, OneCallLeft
<1>10. DevicesFit'
  <2>1. Listed' \subseteq made' /\ \A k \in closers' : k[2] \in made'
    BY <1>4, <1>5, <1>7 DEF Unraced, DevicesFit
  <2>2. \A m, n \in DOMAIN devices' : devices'[m] = devices'[n] => m = n
    <3>1. \A n \in 1..Len(devices) : devices[n] # d
      BY <1>4, <1>6 DEF Listed
    <3>2. \A m, n \in 1..Len(devices) : devices[m] = devices[n] => m = n
      BY <1>6 DEF Unraced, DevicesFit
    <3>3. \A n \in DOMAIN devices' : n \in 1..Len(devices) \/ n = Len(devices) + 1
      BY <1>6
    <3>4. QED
      BY <1>6, <3>1, <3>2, <3>3
  <2>3. \A k \in closers' : k[1] # "destroy" => k[1] = k[2] /\ k[2] \notin Listed'
    <3> SUFFICES ASSUME NEW k \in closers, k[1] # "destroy"
                 PROVE  k[1] = k[2] /\ k[2] \notin Listed'
      BY <1>5
    <3>1. k[1] \in Tethers
      BY DEF RootTypes, RootOK
    <3>2. QED
      BY <1>3, <1>7, <3>1 DEF Unraced, DevicesFit
  <2>4. \A b \in Bodies : toClose'[b] # {} => \E e \in Devices : <<b, e>> \in closers'
    BY <1>5 DEF Unraced, DevicesFit
  <2>5. host' \subseteq Listed' \cup {e \in Tethers : <<e, e>> \in closers'}
    BY <1>5, <1>7 DEF Unraced, DevicesFit
  <2>6. QED
    BY <2>1, <2>2, <2>3, <2>4, <2>5 DEF DevicesFit
<1>11. AgentsFit'
  BY <1>5, <1>7 DEF Unraced, AgentsFit
<1>12. WalkFits'
  BY <1>2, <1>5 DEF WalkFits
<1>13. ScriptsTracked'
  <2>1. \A e \in PageCalls : call'[e].script = call[e].script /\ call'[e].old = call[e].old
    BY <1>1
  <2>2. QED
    BY <1>5, <2>1 DEF Unraced, ScriptsTracked, MappedAt
<1>14. QED
  BY <1>5, <1>9, <1>10, <1>11, <1>12, <1>13 DEF Unraced

\* The agent session in the map of a process is the only one there.
LEMMA OneAgentThere ==
  ASSUME RootTypes, Unraced, NEW t \in Targets, NEW a \in mapped, home[a] = t
  PROVE  agentBy[t] = a /\ a # 0
BY RootTyped DEF Unraced, AgentsFit

LEMMA HostSessionKeeps ==
  ASSUME RootTypes, Unraced, rootCrash = "no", NEW c \in PageCalls, HostSessionObtained(c)
  PROVE  Unraced'
<1>1. /\ call[c].at \in {"host", "connect"} /\ call[c].at \in Steps /\ call[c].at # "none"
      /\ call[c].of \in Targets /\ call[c].of[1] \in Devices /\ PageCallFits(call[c])
  <2>1. call[c].at \in {"host", "connect"} /\ PageCallFits(call[c])
    BY RootTyped DEF HostSessionObtained
  <2>2. call[c].of \in Targets
    BY <2>1 DEF PageCallFits, Steps
  <2>3. QED
    BY <2>1, <2>2, TargetsHaveDevices DEF Steps
<1>2. /\ root = "alive" /\ \A e \in PageCalls : e # c => call[e] = NoCall
      /\ CallWorks(call[c]) /\ \A k \in closers : k[1] # "destroy"
  BY <1>1, AloneAtWork
<1>3. PICK r : r = call[c]
  OBVIOUS
<1>4. /\ r.of[1] \in Listed /\ r.of[1] \in host' /\ agentBy[r.of] \in 0..MaxAgents
      /\ host' = host \cup {r.of[1]}
  <2>1. r.of[1] \in Listed /\ (r.at = "host" => r.of[1] \in host)
    BY <1>1, <1>2, <1>3 DEF CallWorks
  <2>2. QED
    BY <1>1, <1>3, <2>1, RootTyped DEF HostSessionObtained
<1>5. /\ UNCHANGED <<listVars, tableVars, remoteVars, closeDeviceVars, raced, rootCrash>>
      /\ \/ r.kind = "processes" /\ Ends(c)
         \/ r.kind # "processes" /\ agentBy[r.of] = 0 /\ call' = [call EXCEPT ![c].at = "inject"]
         \/ r.kind # "processes" /\ agentBy[r.of] # 0 /\ UsesAgent(c, agentBy[r.of])
  BY <1>3, <1>4 DEF HostSessionObtained
<1>6. call \in [PageCalls -> PageCallRecords] /\ r \in PageCallRecords /\ PageCallFits(r)
  BY <1>1, <1>3 DEF RootTypes
<1>7. /\ \A e \in PageCalls : e # c => call'[e] = NoCall
      /\ \/ call'[c] = NoCall /\ r.old = 0 /\ r.script = 0
         \/ /\ call'[c].of = r.of /\ call'[c].old = r.old /\ call'[c].script = r.script
            /\ call'[c].kind = r.kind
            /\ \/ call'[c].at = "inject" /\ agentBy[r.of] = 0
               \/ /\ call'[c].at = IF r.old # 0 THEN "destroy" ELSE "create"
                  /\ call'[c].agent = agentBy[r.of] /\ agentBy[r.of] # 0
  <2>1. CASE r.kind = "processes" /\ Ends(c)
    BY <1>2, <1>6, <2>1 DEF Ends, PageCallFits
  <2>2. CASE agentBy[r.of] = 0 /\ call' = [call EXCEPT ![c].at = "inject"]
    BY <1>2, <1>3, <1>6, <2>2 DEF PageCallRecords
  <2>3. CASE r.kind # "processes" /\ agentBy[r.of] # 0 /\ UsesAgent(c, agentBy[r.of])
    BY <1>1, <1>2, <1>3, <1>4, <2>3, UsesAgentFits
  <2>4. QED
    BY <1>5, <2>1, <2>2, <2>3
<1>8. Listed' = Listed
  BY <1>5 DEF Listed
<1>9. r.old # 0 => /\ scriptBy[r.of] = 0 /\ r.old \in DOMAIN inAgent
                   /\ r.old \in runs => agentBy[r.of] = inAgent[r.old] /\ agentBy[r.of] # 0
                                        /\ MappedAt(r.old, r.of)
  <2>1. r.old # 0 => /\ scriptBy[r.of] = 0 /\ r.old \in DOMAIN inAgent
                     /\ r.old \in runs => MappedAt(r.old, r.of)
    BY <1>2, <1>3 DEF CallWorks
  <2>2. QED
    BY <1>1, <1>3, <2>1, OneAgentThere DEF MappedAt
<1>10. r.old # 0 /\ r.kind = "attach" =>
           /\ r.script \in runs \ {r.old} /\ MappedAt(r.script, r.of)
           /\ agentBy[r.of] = inAgent[r.script] /\ agentBy[r.of] # 0
  <2>1. r.old # 0 /\ r.kind = "attach" => r.script \in runs \ {r.old} /\ MappedAt(r.script, r.of)
    BY <1>2, <1>3 DEF CallWorks
  <2>2. QED
    BY <1>1, <1>3, <2>1, OneAgentThere DEF MappedAt
<1>11. agentBy[r.of] # 0 =>
           agentBy[r.of] \in mapped /\ home[agentBy[r.of]] = r.of /\ agentBy[r.of] \in DOMAIN home
  BY <1>1, <1>3, RootTyped DEF Unraced, AgentsFit
<1>12. CallWorks(call[c])'
  <2>1. CASE call'[c] = NoCall
    BY <2>1, NoCallWorks DEF CallWorks
  <2>2. CASE /\ call'[c].of = r.of /\ call'[c].old = r.old /\ call'[c].script = r.script
             /\ call'[c].kind = r.kind /\ call'[c].at = "inject" /\ agentBy[r.of] = 0
    BY <1>4, <1>5, <1>8, <1>9, <1>10, <2>2 DEF CallWorks, MappedAt, Steps
  <2>3. CASE /\ call'[c].of = r.of /\ call'[c].old = r.old /\ call'[c].script = r.script
             /\ call'[c].kind = r.kind
             /\ call'[c].at = IF r.old # 0 THEN "destroy" ELSE "create"
             /\ call'[c].agent = agentBy[r.of] /\ agentBy[r.of] # 0
    BY <1>4, <1>5, <1>8, <1>9, <1>10, <1>11, <2>3 DEF CallWorks, MappedAt, Steps
  <2>4. QED
    BY <1>7, <2>1, <2>2, <2>3
<1>13. OneCall' /\ CallsWork'
  BY <1>2, <1>5, <1>7, <1>12, OneCallLeft
<1>14. DevicesFit'
  BY <1>4, <1>5, <1>8 DEF Unraced, DevicesFit
<1>15. AgentsFit'
  BY <1>4, <1>5, <1>8 DEF Unraced, AgentsFit
<1>16. WalkFits'
  BY <1>2, <1>5 DEF WalkFits
<1>17. ScriptsTracked'
  <2>1. \A e \in PageCalls : call'[e].script = call[e].script /\ call'[e].old = call[e].old
    BY <1>2, <1>3, <1>7, NoCallWorks
  <2>2. QED
    BY <1>5, <2>1 DEF Unraced, ScriptsTracked, MappedAt
<1>18. QED
  BY <1>5, <1>13, <1>14, <1>15, <1>16, <1>17 DEF Unraced

LEMMA AgentObtainedKeeps ==
  ASSUME RootTypes, Unraced, rootCrash = "no", NEW c \in PageCalls, AgentSessionObtained(c)
  PROVE  Unraced'
<1>1. /\ call[c].at = "inject" /\ call[c].at \in Steps /\ call[c].of \in Targets
      /\ call[c].kind # "processes" /\ call[c] \in PageCallRecords /\ PageCallFits(call[c])
  <2>1. call[c].at = "inject" /\ PageCallFits(call[c]) /\ call[c] \in PageCallRecords
    BY RootTyped DEF AgentSessionObtained
  <2>2. QED
    BY <2>1 DEF PageCallFits, Steps
<1>2. /\ root = "alive" /\ \A e \in PageCalls : e # c => call[e] = NoCall
      /\ CallWorks(call[c]) /\ \A k \in closers : k[1] # "destroy"
  BY <1>1, AloneAtWork
<1>3. PICK r : r = call[c]
  OBVIOUS
<1>4. PICK a \in 1..MaxAgents : a = Len(home) + 1
  BY DEF AgentSessionObtained, RootTypes, RootOK
<1>5. /\ home \in Seq(Targets) /\ home' = Append(home, r.of)
      /\ up' = up \cup {a} /\ mapped' = mapped \cup {a}
      /\ agentBy' = [agentBy EXCEPT ![r.of] = a] /\ UsesAgent(c, a)
      /\ UNCHANGED <<listVars, host, scriptBy, ended, inAgent, runs, closeDeviceVars, raced,
                     rootCrash>>
  BY <1>3, <1>4 DEF AgentSessionObtained, RootTypes, RootOK
<1>6. /\ DOMAIN home' = DOMAIN home \cup {a} /\ a \notin DOMAIN home
      /\ \A i \in DOMAIN home : home'[i] = home[i] /\ home'[a] = r.of
  BY <1>1, <1>3, <1>4, <1>5
<1>16. home'[a] = r.of
  BY <1>1, <1>3, <1>4, <1>5
<1>7. /\ \A e \in PageCalls : e # c => call'[e] = NoCall
      /\ \/ call'[c] = NoCall /\ r.old = 0 /\ r.script = 0
         \/ /\ call'[c].of = r.of /\ call'[c].old = r.old /\ call'[c].script = r.script
            /\ call'[c].kind = r.kind /\ call'[c].agent = a
            /\ call'[c].at = IF r.old # 0 THEN "destroy" ELSE "create"
  <2>1. a \in 0..MaxAgents
    OBVIOUS
  <2>2. QED
    BY <1>1, <1>2, <1>3, <1>5, <2>1, UsesAgentFits
<1>8. /\ r.of[1] \in Listed \cap host /\ agentBy[r.of] = 0
      /\ r.old # 0 => /\ scriptBy[r.of] = 0 /\ r.old \in DOMAIN inAgent /\ r.old \notin runs
                      /\ r.kind # "attach"
  BY <1>1, <1>2, <1>3 DEF CallWorks
<1>9. CallWorks(call[c])'
  <2>1. CASE call'[c] = NoCall
    BY <2>1, NoCallWorks DEF CallWorks
  <2>2. CASE /\ call'[c].of = r.of /\ call'[c].old = r.old /\ call'[c].script = r.script
             /\ call'[c].kind = r.kind /\ call'[c].agent = a
             /\ call'[c].at = IF r.old # 0 THEN "destroy" ELSE "create"
    BY <1>5, <1>6, <1>16, <1>8, <2>2 DEF CallWorks, Steps, Listed
  <2>3. QED
    BY <1>7, <2>1, <2>2
<1>10. OneCall' /\ CallsWork'
  BY <1>2, <1>5, <1>7, <1>9, OneCallLeft
<1>11. DevicesFit'
  <2>1. UNCHANGED <<devices, made, closers, toClose, host>>
    BY <1>5
  <2>2. QED
    BY <2>1 DEF Unraced, DevicesFit, Listed
<1>12. AgentsFit'
  <2>1. /\ agentBy \in [Targets -> 0..MaxAgents] /\ mapped \subseteq DOMAIN home
        /\ ended \subseteq DOMAIN home
        /\ \A i \in DOMAIN home : i \in 1..MaxAgents /\ home[i] \in Targets
    BY RootTyped
  <2>2. \A i \in mapped : home[i] # r.of
    BY <1>8, <2>1 DEF Unraced, AgentsFit
  <2>3. \A t \in Targets : agentBy'[t] # 0 => agentBy'[t] \in mapped' /\ home'[agentBy'[t]] = t
    <3> SUFFICES ASSUME NEW t \in Targets, agentBy'[t] # 0
                 PROVE  agentBy'[t] \in mapped' /\ home'[agentBy'[t]] = t
      OBVIOUS
    <3>1. CASE t = r.of
      BY <1>5, <1>16, <2>1, <3>1
    <3>2. CASE t # r.of
      BY <1>5, <1>6, <2>1, <3>2 DEF Unraced, AgentsFit
    <3>3. QED
      BY <3>1, <3>2
  <2>4. \A i \in mapped' : /\ agentBy'[home'[i]] = i /\ home'[i][1] \in Listed' \cap host'
                           /\ \A b \in Bodies : i \notin toClose'[b]
    <3>1. Listed' = Listed
      BY <1>5 DEF Listed
    <3>2. agentBy'[r.of] = a
      BY <1>1, <1>3, <1>5, <2>1
    <3>3. \A b \in Bodies : a \notin toClose[b]
      BY <1>6 DEF Unraced, AgentsFit
    <3>4. \A i \in mapped : agentBy'[home'[i]] = i
      BY <1>5, <1>6, <2>1, <2>2 DEF Unraced, AgentsFit
    <3>5. QED
      BY <1>5, <1>6, <1>16, <1>8, <2>1, <3>1, <3>2, <3>3, <3>4 DEF Unraced, AgentsFit
  <2>5. ended' \cap up' = {}
    BY <1>5, <1>6, <2>1 DEF Unraced, AgentsFit
  <2>6. /\ \A i \in up' : i \in mapped' \/ \E b \in Bodies : i \in toClose'[b]
        /\ \A b \in Bodies : toClose'[b] \subseteq DOMAIN home'
    BY <1>5, <1>6 DEF Unraced, AgentsFit
  <2>7. QED
    BY <2>3, <2>4, <2>5, <2>6 DEF AgentsFit
<1>13. WalkFits'
  BY <1>2, <1>5 DEF WalkFits
<1>14. ScriptsTracked'
  <2>1. \A e \in PageCalls : call'[e].script = call[e].script /\ call'[e].old = call[e].old
    BY <1>2, <1>3, <1>7, NoCallWorks
  <2>2. \A x, t : MappedAt(x, t) => MappedAt(x, t)'
    BY <1>5, <1>6, RootTyped DEF MappedAt
  <2>3. QED
    BY <1>5, <2>1, <2>2 DEF Unraced, ScriptsTracked
<1>15. QED
  BY <1>5, <1>10, <1>11, <1>12, <1>13, <1>14 DEF Unraced

LEMMA ScriptLoadedKeeps ==
  ASSUME RootTypes, Unraced, rootCrash = "no", NEW c \in PageCalls, ScriptLoaded(c)
  PROVE  Unraced'
<1>1. /\ call[c].at = "create" /\ call[c].at \in Steps /\ call[c].of \in Targets
      /\ call[c].kind = "attach" /\ call[c].old = 0 /\ call[c].script = 0
  <2>1. call[c].at = "create" /\ PageCallFits(call[c])
    BY RootTyped DEF ScriptLoaded
  <2>2. QED
    BY <2>1 DEF PageCallFits, Steps
<1>2. /\ root = "alive" /\ \A e \in PageCalls : e # c => call[e] = NoCall
      /\ CallWorks(call[c]) /\ \A k \in closers : k[1] # "destroy"
  BY <1>1, AloneAtWork
<1>3. PICK r : r = call[c]
  OBVIOUS
<1>4. PICK x \in 1..MaxPageScripts : x = Len(inAgent) + 1
  BY DEF ScriptLoaded, RootTypes, RootOK
<1>5. PICK old \in 0..MaxPageScripts : old = scriptBy[r.of]
  BY <1>1, <1>3, RootTyped
<1>6. /\ inAgent \in Seq(1..MaxAgents) /\ inAgent' = Append(inAgent, r.agent)
      /\ runs' = runs \cup {x} /\ r.agent \in up
      /\ scriptBy' = [scriptBy EXCEPT ![r.of] = IF old = 0 THEN x ELSE 0]
      /\ UNCHANGED <<listVars, host, agentBy, mapped, home, up, ended, closeDeviceVars, raced,
                     rootCrash>>
  BY <1>3, <1>4, <1>5 DEF ScriptLoaded, RootTypes, RootOK
<1>7. /\ DOMAIN inAgent' = DOMAIN inAgent \cup {x} /\ x \notin DOMAIN inAgent
      /\ \A i \in DOMAIN inAgent : inAgent'[i] = inAgent[i]
  BY <1>4, <1>6
<1>8. inAgent'[x] = r.agent
  BY <1>4, <1>6
<1>9. /\ \A e \in PageCalls : e # c => call'[e] = NoCall
      /\ old = 0 => call'[c] = NoCall
      /\ old # 0 => /\ call'[c].of = r.of /\ call'[c].old = old /\ call'[c].script = x
                    /\ call'[c].kind = "attach"
                    /\ call'[c].at = IF r.of[1] \in host THEN "host" ELSE "connect"
  BY <1>2, <1>3, <1>4, <1>5, ScriptLoadedTypes
<1>10. /\ r.of[1] \in Listed /\ r.of[1] \in host
       /\ r.agent \in mapped /\ home[r.agent] = r.of
  BY <1>1, <1>2, <1>3, <1>6 DEF CallWorks
<1>11. /\ scriptBy \in [Targets -> 0..MaxPageScripts] /\ runs \subseteq DOMAIN inAgent
       /\ \A i \in DOMAIN inAgent : i \in 1..MaxPageScripts
  BY RootTyped
<1>12. UNCHANGED <<mapped, home, up, ended, toClose, devices, made, closers, host, agentBy>>
  BY <1>6
<1>13. \A i \in DOMAIN inAgent : \A t : MappedAt(i, t) => MappedAt(i, t)'
  BY <1>7, <1>12 DEF MappedAt
<1>14. \A t : t = r.of => MappedAt(x, t)'
  BY <1>8, <1>10, <1>12 DEF MappedAt
<1>15. old # 0 => /\ old \in DOMAIN inAgent /\ MappedAt(old, r.of)
                  /\ old \in runs \/ inAgent[old] \in ended
  BY <1>1, <1>3, <1>5 DEF Unraced, ScriptsTracked
<1>16. scriptBy'[r.of] = IF old = 0 THEN x ELSE 0
  BY <1>1, <1>3, <1>6, <1>11
<1>17. CallWorks(call[c])'
  <2>1. CASE old = 0
    BY <1>9, <2>1, NoCallWorks DEF CallWorks
  <2>2. CASE old # 0
    <3>1. Listed' = Listed
      BY <1>12 DEF Listed
    <3>2. MappedAt(old, r.of)' /\ MappedAt(x, r.of)' /\ old # x /\ old \in DOMAIN inAgent'
      BY <1>7, <1>13, <1>14, <1>15, <2>2
    <3>3. call'[c].at = "host" /\ scriptBy'[r.of] = 0 /\ x \in runs'
      BY <1>6, <1>9, <1>10, <1>16, <2>2
    <3>4. QED
      BY <1>9, <1>10, <1>12, <2>2, <3>1, <3>2, <3>3 DEF CallWorks, Steps
  <2>3. QED
    BY <2>1, <2>2
<1>18. OneCall' /\ CallsWork'
  <2>1. root' = "alive"
    BY <1>2, <1>6
  <2>2. QED
    BY <1>9, <1>17, <2>1, OneCallLeft
<1>19. DevicesFit' /\ AgentsFit' /\ WalkFits'
  <2>1. UNCHANGED <<root, walk, rootCrash>>
    BY <1>6
  <2>2. QED
    BY <1>12, <2>1, NothingElseMoves
<1>20. ScriptsTracked'
  <2>1. ASSUME NEW t \in Targets, NEW i \in 1..MaxPageScripts, scriptBy'[t] = i
        PROVE  /\ i \in DOMAIN inAgent' /\ MappedAt(i, t)'
               /\ i \in runs' \/ inAgent'[i] \in ended'
    <3>1. CASE t = r.of
      <4>1. old = 0 /\ i = x
        BY <1>16, <2>1, <3>1
      <4>2. QED
        BY <1>6, <1>7, <1>14, <3>1, <4>1
    <3>2. CASE t # r.of
      <4>1. scriptBy[t] = i
        BY <1>6, <1>11, <2>1, <3>2
      <4>2. i \in DOMAIN inAgent /\ MappedAt(i, t) /\ (i \in runs \/ inAgent[i] \in ended)
        BY <4>1 DEF Unraced, ScriptsTracked
      <4>3. QED
        BY <1>6, <1>7, <1>12, <1>13, <4>2
    <3>3. QED
      BY <3>1, <3>2
  <2>2. ASSUME NEW i \in runs'
        PROVE  /\ inAgent'[i] \in up'
               /\ \/ \E t \in Targets : scriptBy'[t] = i
                  \/ \E e \in PageCalls : i \in {call'[e].script, call'[e].old}
                  \/ \E b \in Bodies : inAgent'[i] \in toClose'[b]
    <3>1. CASE i = x
      <4>1. scriptBy'[r.of] = i \/ call'[c].script = i
        BY <1>9, <1>16, <3>1
      <4>2. QED
        BY <1>1, <1>3, <1>6, <1>8, <1>12, <3>1, <4>1
    <3>2. CASE i # x
      <4>1. i \in runs /\ i \in DOMAIN inAgent /\ i # 0
        BY <1>6, <1>11, <2>2, <3>2
      <4>2. /\ inAgent[i] \in up
            /\ \/ \E t \in Targets : scriptBy[t] = i
               \/ \E e \in PageCalls : i \in {call[e].script, call[e].old}
               \/ \E b \in Bodies : inAgent[i] \in toClose[b]
        BY <4>1 DEF Unraced, ScriptsTracked
      <4>3. ~ \E e \in PageCalls : i \in {call[e].script, call[e].old}
        BY <1>1, <1>2, <4>1, NoCallWorks
      <4>4. ASSUME NEW t \in Targets, scriptBy[t] = i
            PROVE  scriptBy'[t] = i \/ call'[c].old = i
        <5>1. CASE t = r.of
          BY <1>5, <1>9, <4>1, <4>4, <5>1
        <5>2. CASE t # r.of
          BY <1>6, <1>11, <4>4, <5>2
        <5>3. QED
          BY <5>1, <5>2
      <4>5. inAgent'[i] = inAgent[i]
        BY <1>7, <4>1
      <4>6. QED
        BY <1>12, <4>2, <4>3, <4>4, <4>5
    <3>3. QED
      BY <3>1, <3>2
  <2>3. QED
    BY <2>1, <2>2 DEF ScriptsTracked
<1>21. rootCrash' = "no"
  BY <1>6
<1>22. QED
  BY <1>18, <1>19, <1>20, <1>21 DEF Unraced

LEMMA FinishesKeeps ==
  ASSUME RootTypes, Unraced, rootCrash = "no", NEW c \in PageCalls,
         RemoteReturns(c) \/ CallFails(c)
  PROVE  Unraced'
<1>1. /\ call[c].at # "none" /\ PageCallFits(call[c])
      /\ call'[c] = NoCall /\ \A e \in PageCalls : e # c => call'[e] = call[e]
  <2>1. call[c].at # "none"
    BY DEF RemoteReturns, CallFails
  <2>2. QED
    BY <2>1, RootTyped, FinishesTypes
<1>2. /\ root = "alive" /\ \A e \in PageCalls : e # c => call[e] = NoCall
      /\ CallWorks(call[c]) /\ \A k \in closers : k[1] # "destroy"
  BY <1>1, AloneAtWork
<1>3. PICK r : r = call[c]
  OBVIOUS
<1>4. /\ UNCHANGED <<listVars, host, agentBy, mapped, home, up, ended, inAgent, closeDeviceVars,
                     raced, rootCrash>>
      /\ scriptBy' = IF Replaces(c) THEN [scriptBy EXCEPT ![r.of] = r.script] ELSE scriptBy
  BY <1>3 DEF RemoteReturns, CallFails, Finishes
<1>5. Replaces(c) => /\ r.at = "destroy" /\ r.kind = "attach" /\ r.old # 0 /\ r.of \in Targets
                     /\ r.script \in runs \ {r.old} /\ MappedAt(r.script, r.of)
                     /\ r.agent = inAgent[r.script] /\ r.agent \in up /\ RemoteReturns(c)
  <2> SUFFICES ASSUME Replaces(c)
               PROVE  /\ r.at = "destroy" /\ r.kind = "attach" /\ r.old # 0 /\ r.of \in Targets
                      /\ r.script \in runs \ {r.old} /\ MappedAt(r.script, r.of)
                      /\ r.agent = inAgent[r.script] /\ r.agent \in up /\ RemoteReturns(c)
    OBVIOUS
  <2>1. r.kind = "attach" /\ r.old # 0
    BY <1>3 DEF Replaces
  <2>2. /\ r.script \in runs \ {r.old} /\ MappedAt(r.script, r.of) /\ r.at \in {"host", "destroy"}
        /\ r.at = "destroy" => r.agent = inAgent[r.script]
    BY <1>2, <1>3, <2>1 DEF CallWorks
  <2>3. r.at = "destroy" /\ r.of \in Targets
    BY <1>1, <1>3, <2>2 DEF RemoteReturns, CallFails, PageCallFits, Steps
  <2>4. r.agent \in up
    BY <2>2, <2>3 DEF Unraced, ScriptsTracked
  <2>5. ~CallFails(c)
    BY <1>3, <2>3, <2>4 DEF CallFails
  <2>6. QED
    BY <2>1, <2>2, <2>3, <2>4, <2>5
<1>6. /\ scriptBy \in [Targets -> 0..MaxPageScripts] /\ runs \subseteq DOMAIN inAgent
      /\ \A i \in DOMAIN inAgent : i \in 1..MaxPageScripts
  BY RootTyped
<1>7. r.old # 0 => scriptBy[r.of] = 0
  BY <1>2, <1>3 DEF CallWorks
\* The script that is no more is the one the call destroys.
<1>8. /\ runs' \subseteq runs
      /\ \A i \in runs : i \notin runs' =>
             i = r.old /\ r.old # 0 /\ inAgent[i] = r.agent /\ home[r.agent] = r.of
  <2>1. CASE CallFails(c)
    BY <2>1 DEF CallFails
  <2>2. CASE RemoteReturns(c)
    <3>1. runs' = {x \in runs : x # r.old \/ inAgent[x] # r.agent}
      BY <1>3, <2>2 DEF RemoteReturns
    <3>2. r.at = "destroy" => home[r.agent] = r.of
      BY <1>2, <1>3 DEF CallWorks
    <3>3. r.at = "start" => r.old = 0
      BY <1>1, <1>3 DEF PageCallFits, Steps
    <3>4. r.at \in {"start", "destroy"}
      BY <1>3, <2>2 DEF RemoteReturns
    <3>5. \A i \in runs : i # 0
      BY <1>6
    <3>6. QED
      BY <3>1, <3>2, <3>3, <3>4, <3>5
  <2>3. QED
    BY <2>1, <2>2
<1>9. r.old # 0 => r.old \notin runs'
  <2> SUFFICES ASSUME r.old # 0, r.old \in runs' PROVE FALSE
    OBVIOUS
  <2>1. /\ MappedAt(r.old, r.of) /\ r.at \in {"host", "destroy"}
        /\ r.at = "destroy" => r.agent = inAgent[r.old]
    BY <1>2, <1>3, <1>8 DEF CallWorks
  <2>2. r.at = "destroy"
    BY <1>3, <2>1 DEF RemoteReturns, CallFails
  <2>3. r.agent \in up
    BY <1>8, <2>1, <2>2 DEF Unraced, ScriptsTracked
  <2>4. RemoteReturns(c)
    BY <1>3, <2>2, <2>3 DEF CallFails
  <2>5. QED
    BY <1>3, <2>1, <2>2, <2>4 DEF RemoteReturns
<1>10. OneCall' /\ CallsWork'
  <2>1. CallWorks(call[c])'
    BY <1>1, NoCallWorks DEF CallWorks
  <2>2. root' = "alive" /\ \A e \in PageCalls : e # c => call'[e] = NoCall
    BY <1>1, <1>2, <1>4
  <2>3. QED
    BY <2>1, <2>2, OneCallLeft
<1>11. DevicesFit' /\ AgentsFit' /\ WalkFits'
  <2>1. /\ UNCHANGED <<devices, made, host, closers, toClose, agentBy, mapped, home, up, ended,
                       root, walk>>
        /\ rootCrash' = "no"
    BY <1>4
  <2>2. QED
    BY <2>1, NothingElseMoves
<1>12. UNCHANGED <<mapped, home, up, ended, inAgent, toClose>>
  BY <1>4
<1>13. ScriptsTracked'
  <2>1. ASSUME NEW t \in Targets, NEW i \in 1..MaxPageScripts, scriptBy'[t] = i
        PROVE  /\ i \in DOMAIN inAgent' /\ MappedAt(i, t)'
               /\ i \in runs' \/ inAgent'[i] \in ended'
    <3>1. CASE Replaces(c) /\ t = r.of
      <4>1. i = r.script
        BY <1>4, <1>5, <1>6, <2>1, <3>1
      <4>2. i \in runs' /\ i \in DOMAIN inAgent /\ MappedAt(i, t)
        BY <1>5, <1>6, <1>8, <3>1, <4>1
      <4>3. QED
        BY <1>12, <4>2 DEF MappedAt
    <3>2. CASE ~(Replaces(c) /\ t = r.of)
      <4>1. scriptBy[t] = i
        BY <1>4, <1>5, <1>6, <2>1, <3>2
      <4>2. i \in DOMAIN inAgent /\ MappedAt(i, t) /\ (i \in runs \/ inAgent[i] \in ended)
        BY <4>1 DEF Unraced, ScriptsTracked
      <4>3. i \in runs => i \in runs'
        <5> SUFFICES ASSUME i \in runs, i \notin runs' PROVE FALSE
          OBVIOUS
        <5>1. r.old # 0 /\ t = r.of
          BY <1>8, <4>2 DEF MappedAt
        <5>2. QED
          BY <1>7, <4>1, <5>1
      <4>4. QED
        BY <1>12, <4>2, <4>3 DEF MappedAt
    <3>3. QED
      BY <3>1, <3>2
  <2>2. ASSUME NEW i \in runs'
        PROVE  /\ inAgent'[i] \in up'
               /\ \/ \E t \in Targets : scriptBy'[t] = i
                  \/ \E e \in PageCalls : i \in {call'[e].script, call'[e].old}
                  \/ \E b \in Bodies : inAgent'[i] \in toClose'[b]
    <3>1. i \in runs /\ i # 0
      BY <1>6, <1>8
    <3>2. /\ inAgent[i] \in up
          /\ \/ \E t \in Targets : scriptBy[t] = i
             \/ \E e \in PageCalls : i \in {call[e].script, call[e].old}
             \/ \E b \in Bodies : inAgent[i] \in toClose[b]
      BY <3>1 DEF Unraced, ScriptsTracked
    <3>3. ASSUME NEW t \in Targets, scriptBy[t] = i
          PROVE  scriptBy'[t] = i
      <4>1. Replaces(c) => t # r.of
        BY <1>5, <1>7, <3>1, <3>3
      <4>2. QED
        BY <1>4, <1>5, <1>6, <3>3, <4>1
    <3>4. ASSUME NEW e \in PageCalls, i \in {call[e].script, call[e].old}
          PROVE  \E t \in Targets : scriptBy'[t] = i
      <4>1. i \in {r.script, r.old}
        BY <1>2, <1>3, <3>1, <3>4, NoCallWorks
      <4>2. i = r.script
        BY <1>9, <3>1, <4>1
      <4>3. Replaces(c)
        BY <1>1, <1>3, <3>1, <4>2 DEF Replaces, PageCallFits
      <4>4. QED
        BY <1>4, <1>5, <1>6, <4>2, <4>3
    <3>5. QED
      BY <1>12, <3>2, <3>3, <3>4
  <2>3. QED
    BY <2>1, <2>2 DEF ScriptsTracked
<1>14. rootCrash' = "no"
  BY <1>4
<1>15. QED
  BY <1>10, <1>11, <1>13, <1>14 DEF Unraced

LEMMA ProviderAvailableKeeps ==
  ASSUME RootTypes, Unraced, rootCrash = "no", NEW d \in Tethers, ProviderAvailable(d)
  PROVE  Unraced'
<1>1. /\ d \notin made /\ made' = made \cup {d} /\ devices' = Append(devices, d)
      /\ devices \in Seq(Devices)
      /\ UNCHANGED <<backends, host, tableVars, remoteVars, closeDeviceVars, call, raced,
                     rootCrash>>
  BY DEF ProviderAvailable, RootTypes, RootOK
<1>2. /\ Len(devices) \in Nat /\ DOMAIN devices' = 1..Len(devices) + 1
      /\ DOMAIN devices = 1..Len(devices)
      /\ \A n \in 1..Len(devices) : devices'[n] = devices[n]
      /\ devices'[Len(devices) + 1] = d
  BY <1>1
<1>3. Listed' = Listed \cup {d} /\ d \notin Listed
  BY <1>1, <1>2 DEF Listed, Unraced, DevicesFit
<1>4. /\ UNCHANGED <<host, agentBy, mapped, scriptBy, home, up, ended, inAgent, runs, root, walk,
                     closers, toClose, call, rootCrash>>
  BY <1>1
<1>5. DevicesFit'
  <2>1. Listed' \subseteq made' /\ \A k \in closers' : k[2] \in made'
    BY <1>1, <1>3, <1>4 DEF Unraced, DevicesFit
  <2>2. \A m, n \in DOMAIN devices' : devices'[m] = devices'[n] => m = n
    <3>1. \A n \in 1..Len(devices) : devices[n] # d
      BY <1>2, <1>3 DEF Listed
    <3>2. \A m, n \in 1..Len(devices) : devices[m] = devices[n] => m = n
      BY <1>2 DEF Unraced, DevicesFit
    <3>3. \A n \in DOMAIN devices' : n \in 1..Len(devices) \/ n = Len(devices) + 1
      BY <1>2
    <3>4. QED
      BY <1>2, <3>1, <3>2, <3>3
  <2>3. \A k \in closers' : k[1] # "destroy" => k[1] = k[2] /\ k[2] \notin Listed'
    BY <1>1, <1>3, <1>4 DEF Unraced, DevicesFit
  <2>4. \A b \in Bodies : toClose'[b] # {} => \E e \in Devices : <<b, e>> \in closers'
    BY <1>4 DEF Unraced, DevicesFit
  <2>5. host' \subseteq Listed' \cup {e \in Tethers : <<e, e>> \in closers'}
    BY <1>4, <1>3 DEF Unraced, DevicesFit
  <2>6. QED
    BY <2>1, <2>2, <2>3, <2>4, <2>5 DEF DevicesFit
<1>6. AgentsFit'
  BY <1>3, <1>4 DEF Unraced, AgentsFit
<1>7. ScriptsTracked'
  BY <1>4 DEF Unraced, ScriptsTracked, MappedAt
<1>8. OneCall'
  BY <1>4 DEF Unraced, OneCall, UnderWay
<1>9. CallsWork'
  <2> SUFFICES ASSUME NEW c \in PageCalls PROVE CallWorks(call[c])'
    BY DEF CallsWork
  <2>1. CallWorks(call[c]) /\ call'[c] = call[c]
    BY <1>4 DEF Unraced, CallsWork
  <2>2. call[c].at = "open" => call[c].of[1] # d
    <3> SUFFICES ASSUME call[c].at = "open" PROVE call[c].of[1] # d
      OBVIOUS
    <3>1. call[c].of \in {<<e>> : e \in Locals}
      BY RootTyped DEF PageCallFits
    <3>2. QED
      BY <3>1
  <2>3. QED
    BY <1>1, <1>3, <1>4, <2>1, <2>2 DEF CallWorks, MappedAt
<1>10. WalkFits'
  <2>1. d \notin host /\ \A a \in mapped : home[a][1] # d
    <3>1. d \notin host
      BY <1>1, <1>3 DEF Unraced, DevicesFit
    <3>2. \A a \in mapped : home[a][1] \in Listed
      BY DEF Unraced, AgentsFit
    <3>3. \A a \in mapped : home[a][1] # d
      BY <1>3, <3>2
    <3>4. QED
      BY <3>1, <3>3
  <2>2. \A k \in closers' : k[1] = "destroy" =>
           /\ root' = "closing" /\ walk'.at <= walk'.size /\ k[2] = devices'[walk'.at]
           /\ \A a \in mapped' : home'[a][1] # k[2]
    <3> SUFFICES ASSUME NEW k \in closers, k[1] = "destroy"
                 PROVE  /\ root = "closing" /\ walk.at <= walk.size /\ k[2] = devices'[walk.at]
                        /\ \A a \in mapped : home[a][1] # k[2]
      BY <1>4
    <3>1. /\ root = "closing" /\ walk.at <= walk.size /\ k[2] = devices[walk.at]
          /\ \A a \in mapped : home[a][1] # k[2]
      BY DEF Unraced, WalkFits
    <3>2. walk.at \in 1..Len(devices)
      BY <1>2, <3>1 DEF Unraced, WalkFits, RootTypes, RootOK
    <3>3. QED
      BY <1>2, <3>1, <3>2
  <2>3. root' = "closing" =>
           /\ walk'.at <= walk'.size + 1 /\ walk'.size <= Len(devices')
           /\ \A n \in DOMAIN devices' : n < walk'.at \/ n > walk'.size =>
                  devices'[n] \notin host' /\ \A a \in mapped' : home'[a][1] # devices'[n]
    <3> SUFFICES ASSUME root = "closing"
                 PROVE  /\ walk.at <= walk.size + 1 /\ walk.size <= Len(devices')
                        /\ \A n \in DOMAIN devices' : n < walk.at \/ n > walk.size =>
                               devices'[n] \notin host /\ \A a \in mapped : home[a][1] # devices'[n]
      BY <1>4
    <3>1. /\ walk.at <= walk.size + 1 /\ walk.size <= Len(devices)
          /\ walk \in [at : Nat, size : Nat]
          /\ \A n \in 1..Len(devices) : n < walk.at \/ n > walk.size =>
                 devices[n] \notin host /\ \A a \in mapped : home[a][1] # devices[n]
      BY <1>2 DEF Unraced, WalkFits, RootTypes, RootOK
    <3>2. Len(devices') = Len(devices) + 1
      BY <1>1
    <3>3. \A n \in DOMAIN devices' : n \in 1..Len(devices) \/ n = Len(devices) + 1
      BY <1>2
    <3>4. walk.size <= Len(devices')
      BY <1>2, <3>1, <3>2
    <3>5. QED
      BY <1>2, <2>1, <3>1, <3>3, <3>4
  <2>4. root' \in {"stopping", "gone"} =>
           mapped' = {} /\ host' \subseteq {e \in Tethers : <<e, e>> \in closers'}
    BY <1>4 DEF Unraced, WalkFits
  <2>5. QED
    BY <2>2, <2>3, <2>4 DEF WalkFits
<1>11. QED
  BY <1>4, <1>5, <1>6, <1>7, <1>8, <1>9, <1>10 DEF Unraced

\* The beginning of Device.close, of a body that closes nothing yet, for a device that no
\* call works on.
LEMMA BeginsCloseKeeps ==
  ASSUME RootTypes, Unraced, NEW b \in Bodies, NEW d \in Devices, BeginsClose(b, d),
         toClose[b] = {}, d \in Listed, Listed' \cup {d} = Listed,
         \A c \in PageCalls : call[c] # NoCall => call[c].of[1] # d,
         UNCHANGED <<made, host, home, up, ended, inAgent, runs, call>>
  PROVE  /\ AgentsFit' /\ ScriptsTracked' /\ CallsWork'
         /\ mapped' \subseteq mapped /\ \A a \in mapped' : home[a][1] # d
<1>1. /\ agentBy' \in [Targets -> 0..MaxAgents] /\ scriptBy' \in [Targets -> 0..MaxPageScripts]
      /\ AgentsOf(d) \subseteq 1..MaxAgents
      /\ toClose'[b] = AgentsOf(d) /\ \A e \in Bodies : e # b => toClose'[e] = toClose[e]
  BY BeginsCloseTypes
<1>2. /\ \A t \in Targets : agentBy'[t] = IF t[1] = d THEN 0 ELSE agentBy[t]
      /\ \A t \in Targets : scriptBy'[t] = IF t[1] = d THEN 0 ELSE scriptBy[t]
      /\ mapped' = {a \in mapped : home[a][1] # d}
  BY DEF BeginsClose
<1>3. \A e \in Bodies : toClose[e] \subseteq toClose'[e]
  BY <1>1
\* What is closed is what was in the maps.
<1>4. \A a \in mapped : home[a][1] = d => a \in AgentsOf(d)
  <2> SUFFICES ASSUME NEW a \in mapped, home[a][1] = d PROVE a \in AgentsOf(d)
    OBVIOUS
  <2>1. home[a] \in Targets /\ agentBy[home[a]] = a /\ a # 0
    BY RootTyped DEF Unraced, AgentsFit
  <2>2. home[a] \in {d} \X Processes
    BY <2>1 DEF Targets
  <2>3. QED
    BY <2>1, <2>2 DEF AgentsOf
<1>5. \A a \in AgentsOf(d) : a \in mapped /\ home[a][1] = d
  <2> SUFFICES ASSUME NEW a \in AgentsOf(d) PROVE a \in mapped /\ home[a][1] = d
    OBVIOUS
  <2>1. PICK t \in {d} \X Processes : agentBy[t] = a /\ a # 0
    BY DEF AgentsOf
  <2>2. t \in Targets /\ t[1] = d
    BY DEF Targets
  <2>3. QED
    BY <2>1, <2>2 DEF Unraced, AgentsFit
<1>6. \A t \in Targets : t[1] \in Devices
  BY TargetsHaveDevices
<1>7. AgentsFit'
  <2>1. \A t \in Targets : agentBy'[t] # 0 => agentBy'[t] \in mapped' /\ home'[agentBy'[t]] = t
    BY <1>2 DEF Unraced, AgentsFit
  <2>2. \A a \in mapped' : /\ agentBy'[home'[a]] = a /\ home'[a][1] \in Listed' \cap host'
                           /\ \A e \in Bodies : a \notin toClose'[e]
    <3> SUFFICES ASSUME NEW a \in mapped, home[a][1] # d
                 PROVE  /\ agentBy'[home[a]] = a /\ home[a][1] \in Listed' \cap host'
                        /\ \A e \in Bodies : a \notin toClose'[e]
      BY <1>2
    <3>1. home[a] \in Targets /\ agentBy[home[a]] = a /\ home[a][1] \in Listed \cap host
      BY RootTyped DEF Unraced, AgentsFit
    <3>2. \A e \in Bodies : a \notin toClose'[e]
      BY <1>1, <1>5 DEF Unraced, AgentsFit
    <3>3. QED
      BY <1>2, <3>1, <3>2
  <2>3. ended' \cap up' = {}
    BY DEF Unraced, AgentsFit
  <2>4. \A a \in up' : a \in mapped' \/ \E e \in Bodies : a \in toClose'[e]
    <3> SUFFICES ASSUME NEW a \in up PROVE a \in mapped' \/ \E e \in Bodies : a \in toClose'[e]
      OBVIOUS
    <3>1. a \in mapped \/ \E e \in Bodies : a \in toClose[e]
      BY DEF Unraced, AgentsFit
    <3>2. CASE a \in mapped
      BY <1>1, <1>2, <1>4, <3>2
    <3>3. QED
      BY <1>3, <3>1, <3>2
  <2>5. \A e \in Bodies : toClose'[e] \subseteq DOMAIN home'
    <3>1. AgentsOf(d) \subseteq DOMAIN home
      BY <1>5, RootTyped
    <3>2. QED
      BY <1>1, <3>1 DEF Unraced, AgentsFit
  <2>6. QED
    BY <2>1, <2>2, <2>3, <2>4, <2>5 DEF AgentsFit
<1>8. ScriptsTracked'
  <2>1. \A t \in Targets : \A x \in 1..MaxPageScripts : scriptBy'[t] = x =>
           /\ x \in DOMAIN inAgent' /\ MappedAt(x, t)'
           /\ x \in runs' \/ inAgent'[x] \in ended'
    BY <1>2 DEF Unraced, ScriptsTracked, MappedAt
  <2>2. ASSUME NEW x \in runs
        PROVE  /\ inAgent'[x] \in up'
               /\ \/ \E t \in Targets : scriptBy'[t] = x
                  \/ \E c \in PageCalls : x \in {call'[c].script, call'[c].old}
                  \/ \E e \in Bodies : inAgent'[x] \in toClose'[e]
    <3>1. /\ inAgent[x] \in up /\ x \in DOMAIN inAgent /\ x \in 1..MaxPageScripts
          /\ \/ \E t \in Targets : scriptBy[t] = x
             \/ \E c \in PageCalls : x \in {call[c].script, call[c].old}
             \/ \E e \in Bodies : inAgent[x] \in toClose[e]
      BY RootTyped DEF Unraced, ScriptsTracked
    <3>2. ASSUME NEW t \in Targets, scriptBy[t] = x
          PROVE  scriptBy'[t] = x \/ inAgent[x] \in toClose'[b]
      <4>1. inAgent[x] \in mapped /\ home[inAgent[x]] = t
        BY <3>1, <3>2 DEF Unraced, ScriptsTracked, MappedAt
      <4>2. CASE t[1] = d
        BY <1>1, <1>4, <4>1, <4>2
      <4>3. CASE t[1] # d
        BY <1>2, <3>2, <4>3
      <4>4. QED
        BY <4>2, <4>3
    <3>3. QED
      BY <1>3, <3>1, <3>2
  <2>3. QED
    BY <2>1, <2>2 DEF ScriptsTracked
<1>9. CallsWork'
  <2> SUFFICES ASSUME NEW c \in PageCalls PROVE CallWorks(call[c])'
    BY DEF CallsWork
  <2>1. CASE call[c] = NoCall
    BY <2>1, NoCallWorks DEF CallWorks
  <2>2. CASE call[c] # NoCall
    <3>1. PICK r : r = call[c]
      OBVIOUS
    <3>2. CallWorks(r) /\ r.of[1] # d /\ PageCallFits(r)
      BY <2>2, <3>1, RootTyped DEF Unraced, CallsWork
    <3>3. r.at \in Steps => r.of \in Targets
      BY <3>2 DEF PageCallFits
    <3>4. r.old # 0 => r.at \in Steps
      BY <3>2 DEF PageCallFits
    <3>5. r.of \in Targets => agentBy'[r.of] = agentBy[r.of] /\ scriptBy'[r.of] = scriptBy[r.of]
      BY <1>2, <3>2
    <3>6. \A x : MappedAt(x, r.of) => MappedAt(x, r.of)'
      BY <1>2, <3>2 DEF MappedAt
    <3>7. \A a : a \in mapped /\ home[a] = r.of => a \in mapped'
      BY <1>2, <3>2
    <3>8. Listed' \subseteq Listed /\ (r.of[1] \in Listed => r.of[1] \in Listed')
      BY <3>2
    <3>9. CallWorks(r)'
      BY <3>2, <3>3, <3>4, <3>5, <3>6, <3>7, <3>8 DEF CallWorks, Steps
    <3>10. QED
      BY <3>1, <3>9 DEF CallWorks
  <2>3. QED
    BY <2>1, <2>2
<1>10. QED
  BY <1>2, <1>7, <1>8, <1>9

LEMMA ProviderUnavailableKeeps ==
  ASSUME RootTypes, Unraced, rootCrash = "no", ~raced', NEW d \in Tethers,
         ProviderUnavailable(d)
  PROVE  Unraced'
<1>1. PICK n \in DOMAIN devices : devices[n] = d /\ devices' = RemoveAt(devices, n)
  BY DEF ProviderUnavailable
<1>2. /\ BeginsClose(d, d) /\ d \in Bodies /\ d \in Devices /\ d # "destroy"
      /\ root # "closing"
      /\ UNCHANGED <<made, backends, host, remoteVars, root, walk, call, rootCrash>>
  BY DevicesAreDistinct DEF ProviderUnavailable
<1>3. \A c \in PageCalls : call[c] # NoCall => call[c].of[1] # d
  BY DEF ProviderUnavailable, UnderWay
<1>4. devices \in Seq(Devices) /\ Len(devices) \in Nat /\ n \in 1..Len(devices)
  BY <1>1 DEF RootTypes, RootOK
<1>5. /\ Len(devices') = Len(devices) - 1 /\ devices' \in Seq(Devices)
      /\ \A m \in 1..Len(devices) - 1 :
             devices'[m] = IF m < n THEN devices[m] ELSE devices[m + 1]
  BY <1>1, <1>4, OneDeviceLess
<1>6. DOMAIN devices' = 1..Len(devices) - 1 /\ DOMAIN devices = 1..Len(devices)
  BY <1>4, <1>5
<1>7. \A l, m \in 1..Len(devices) : devices[l] = devices[m] => l = m
  BY <1>6 DEF Unraced, DevicesFit
<1>8. Listed' = Listed \ {d} /\ d \in Listed
  <2>1. d \in Listed
    BY <1>1 DEF Listed
  <2>2. ASSUME NEW m \in 1..Len(devices) - 1 PROVE devices'[m] \in Listed \ {d}
    <3>1. CASE m < n
      <4>1. devices'[m] = devices[m] /\ m \in 1..Len(devices) /\ m # n
        BY <1>4, <1>5, <3>1
      <4>2. QED
        BY <1>1, <1>4, <1>6, <1>7, <4>1 DEF Listed
    <3>2. CASE m >= n
      <4>1. devices'[m] = devices[m + 1] /\ m + 1 \in 1..Len(devices) /\ m + 1 # n
        BY <1>4, <1>5, <3>2
      <4>2. QED
        BY <1>1, <1>4, <1>6, <1>7, <4>1 DEF Listed
    <3>3. QED
      BY <1>4, <3>1, <3>2
  <2>3. ASSUME NEW m \in 1..Len(devices), m # n PROVE devices[m] \in Listed'
    <3>1. CASE m < n
      <4>1. devices'[m] = devices[m] /\ m \in 1..Len(devices) - 1
        BY <1>4, <1>5, <3>1
      <4>2. QED
        BY <1>6, <4>1 DEF Listed
    <3>2. CASE m > n
      <4>1. devices'[m - 1] = devices[m] /\ m - 1 \in 1..Len(devices) - 1
        BY <1>4, <1>5, <3>2
      <4>2. QED
        BY <1>6, <4>1 DEF Listed
    <3>3. QED
      BY <1>4, <2>3, <3>1, <3>2
  <2>4. Listed' \subseteq Listed \ {d}
    BY <1>6, <2>2 DEF Listed
  <2>5. Listed \ {d} \subseteq Listed'
    BY <1>1, <1>6, <2>3 DEF Listed
  <2>6. QED
    BY <2>1, <2>4, <2>5
<1>9. toClose[d] = {}
  <2> SUFFICES ASSUME toClose[d] # {} PROVE FALSE
    OBVIOUS
  <2>1. PICK e \in Devices : <<d, e>> \in closers
    BY <1>2 DEF Unraced, DevicesFit
  <2>2. \A k \in closers : k[1] # "destroy" => k[1] = k[2] /\ k[2] \notin Listed
    BY DEF Unraced, DevicesFit
  <2>3. PICK k \in closers : k = <<d, e>>
    BY <2>1
  <2>4. k[1] = d /\ k[2] = e
    BY <2>3
  <2>5. QED
    BY <1>2, <1>8, <2>2, <2>4
<1>10. UNCHANGED <<made, host, home, up, ended, inAgent, runs, call, root, walk, rootCrash>>
  BY <1>2
<1>11. /\ AgentsFit' /\ ScriptsTracked' /\ CallsWork'
       /\ mapped' \subseteq mapped /\ \A a \in mapped' : home[a][1] # d
  <2>1. Listed' \cup {d} = Listed
    BY <1>8
  <2>2. QED
    BY <1>2, <1>3, <1>8, <1>9, <1>10, <2>1, BeginsCloseKeeps
<1>12. closers' = closers \cup {<<d, d>>}
  BY <1>2 DEF BeginsClose
<1>13. DevicesFit'
  <2>1. Listed' \subseteq made' /\ \A k \in closers' : k[2] \in made'
    BY <1>8, <1>10, <1>12 DEF Unraced, DevicesFit
  <2>2. \A l, m \in DOMAIN devices' : devices'[l] = devices'[m] => l = m
    <3> SUFFICES ASSUME NEW l \in 1..Len(devices) - 1, NEW m \in 1..Len(devices) - 1,
                        devices'[l] = devices'[m]
                 PROVE  l = m
      BY <1>6
    <3> DEFINE f(i) == IF i < n THEN i ELSE i + 1
    <3>1. f(l) \in 1..Len(devices) /\ f(m) \in 1..Len(devices) /\ (f(l) = f(m) => l = m)
      BY <1>4
    <3>2. devices'[l] = devices[f(l)] /\ devices'[m] = devices[f(m)]
      BY <1>5
    <3> HIDE DEF f
    <3>3. f(l) = f(m)
      BY <1>7, <3>1, <3>2
    <3>4. QED
      BY <3>1, <3>3
  <2>3. \A k \in closers' : k[1] # "destroy" => k[1] = k[2] /\ k[2] \notin Listed'
    BY <1>8, <1>12 DEF Unraced, DevicesFit
  <2>4. \A b \in Bodies : toClose'[b] # {} => \E e \in Devices : <<b, e>> \in closers'
    <3>1. \A b \in Bodies : b # d => toClose'[b] = toClose[b]
      BY <1>2, BeginsCloseTypes
    <3>2. QED
      BY <1>2, <1>12, <3>1 DEF Unraced, DevicesFit
  <2>5. host' \subseteq Listed' \cup {e \in Tethers : <<e, e>> \in closers'}
    BY <1>8, <1>10, <1>12 DEF Unraced, DevicesFit
  <2>6. QED
    BY <2>1, <2>2, <2>3, <2>4, <2>5 DEF DevicesFit
<1>14. OneCall'
  BY <1>10 DEF Unraced, OneCall, UnderWay
<1>15. WalkFits'
  <2>1. \A k \in closers' : k[1] # "destroy"
    BY <1>2, <1>12 DEF Unraced, WalkFits
  <2>2. root' # "closing"
    BY <1>2
  <2>3. root' \in {"stopping", "gone"} =>
           mapped' = {} /\ host' \subseteq {e \in Tethers : <<e, e>> \in closers'}
    BY <1>10, <1>11, <1>12 DEF Unraced, WalkFits
  <2>4. QED
    BY <2>1, <2>2, <2>3 DEF WalkFits
<1>16. rootCrash' = "no"
  BY <1>2
<1>17. QED
  BY <1>11, <1>13, <1>14, <1>15, <1>16 DEF Unraced

LEMMA DestroyGoesOnKeeps ==
  ASSUME RootTypes, Unraced, rootCrash = "no", DestroyGoesOn
  PROVE  Unraced'
<1>1. /\ root = "closing" /\ \A e \in Devices : <<"destroy", e>> \notin closers
      /\ UNCHANGED <<made, host, home, up, ended, inAgent, runs, walk, call>>
  BY DEF DestroyGoesOn
<1>2. /\ devices \in Seq(Devices) /\ Len(devices) \in Nat /\ walk \in [at : Nat, size : Nat]
      /\ walk.at >= 1 /\ closers \subseteq Bodies \X Devices /\ DOMAIN devices = 1..Len(devices)
  BY <1>1 DEF RootTypes, RootOK
<1>3. /\ walk.at <= walk.size + 1 /\ walk.size <= Len(devices)
      /\ \A n \in DOMAIN devices : n < walk.at \/ n > walk.size =>
             devices[n] \notin host /\ \A a \in mapped : home[a][1] # devices[n]
  BY <1>1 DEF Unraced, WalkFits
<1>4. \A c \in PageCalls : call[c] = NoCall
  BY <1>1, NobodyAtWork DEF Unraced, OneCall
<1>5. OneCall'
  BY <1>1, <1>4 DEF OneCall, UnderWay
<1>6. CASE walk.at > walk.size
  <2>1. /\ root' = "stopping" /\ devices' = <<>>
        /\ UNCHANGED <<tableVars, closers, toClose, rootCrash>>
    BY <1>6 DEF DestroyGoesOn
  <2>2. \A e \in Listed : e \notin host /\ \A a \in mapped : home[a][1] # e
    BY <1>2, <1>3, <1>6 DEF Listed
  <2>3. mapped = {}
    BY <2>2 DEF Unraced, AgentsFit
  <2>4. host \subseteq {e \in Tethers : <<e, e>> \in closers}
    BY <2>2 DEF Unraced, DevicesFit
  <2>5. Listed' = {} /\ DOMAIN devices' = {}
    BY <2>1 DEF Listed
  <2>6. UNCHANGED <<agentBy, mapped, scriptBy, closers, toClose, rootCrash>>
    BY <2>1
  <2>7. DevicesFit'
    BY <1>1, <2>4, <2>5, <2>6 DEF Unraced, DevicesFit
  <2>8. AgentsFit'
    BY <1>1, <2>3, <2>5, <2>6 DEF Unraced, AgentsFit
  <2>9. ScriptsTracked'
    BY <1>1, <2>6 DEF Unraced, ScriptsTracked, MappedAt
  <2>10. CallsWork'
    BY <1>1, <1>4, NoCallWorks DEF CallsWork, CallWorks
  <2>11. WalkFits'
    <3>1. \A k \in closers' : k[1] # "destroy"
      <4> SUFFICES ASSUME NEW k \in closers, k[1] = "destroy" PROVE FALSE
        BY <2>6
      <4>1. k = <<"destroy", k[2]>> /\ k[2] \in Devices
        BY <1>2
      <4>2. QED
        BY <1>1, <4>1
    <3>2. QED
      BY <1>1, <2>1, <2>3, <2>4, <2>6, <3>1 DEF WalkFits
  <2>12. QED
    BY <1>5, <2>6, <2>7, <2>8, <2>9, <2>10, <2>11 DEF Unraced
<1>7. CASE walk.at <= walk.size
  <2>1. walk.at \in 1..Len(devices)
    BY <1>2, <1>3, <1>7
  <2>2. PICK d \in Devices : d = devices[walk.at]
    BY <1>2, <2>1, ElementOfSeq
  <2>3. BeginsClose("destroy", d) /\ UNCHANGED <<root, devices, rootCrash>>
    BY <1>2, <1>7, <2>1, <2>2 DEF DestroyGoesOn
  <2>4. Listed' = Listed /\ d \in Listed
    BY <1>2, <2>1, <2>2, <2>3 DEF Listed
  <2>5. toClose["destroy"] = {}
    BY <1>1 DEF Unraced, DevicesFit
  <2>6. /\ AgentsFit' /\ ScriptsTracked' /\ CallsWork'
        /\ mapped' \subseteq mapped /\ \A a \in mapped' : home[a][1] # d
    <3>1. Listed' \cup {d} = Listed /\ "destroy" \in Bodies
      BY <2>4
    <3>2. \A c \in PageCalls : call[c] # NoCall => call[c].of[1] # d
      BY <1>4
    <3>3. QED
      BY <1>1, <2>3, <2>4, <2>5, <3>1, <3>2, BeginsCloseKeeps
  <2>7. closers' = closers \cup {<<"destroy", d>>}
    BY <2>3 DEF BeginsClose
  <2>8. DevicesFit'
    <3>1. Listed' \subseteq made' /\ \A k \in closers' : k[2] \in made'
      BY <1>1, <2>4, <2>7 DEF Unraced, DevicesFit
    <3>2. \A l, m \in DOMAIN devices' : devices'[l] = devices'[m] => l = m
      BY <2>3 DEF Unraced, DevicesFit
    <3>3. \A k \in closers' : k[1] # "destroy" => k[1] = k[2] /\ k[2] \notin Listed'
      BY <2>4, <2>7 DEF Unraced, DevicesFit
    <3>4. \A b \in Bodies : toClose'[b] # {} => \E e \in Devices : <<b, e>> \in closers'
      <4>1. \A b \in Bodies : b # "destroy" => toClose'[b] = toClose[b]
        BY <2>3, BeginsCloseTypes
      <4>2. QED
        BY <2>7, <4>1 DEF Unraced, DevicesFit
    <3>5. host' \subseteq Listed' \cup {e \in Tethers : <<e, e>> \in closers'}
      BY <1>1, <2>4, <2>7 DEF Unraced, DevicesFit
    <3>6. QED
      BY <3>1, <3>2, <3>3, <3>4, <3>5 DEF DevicesFit
  <2>9. WalkFits'
    <3>1. ASSUME NEW k \in closers', k[1] = "destroy" PROVE k[2] = d
      <4>1. CASE k \in closers
        <5>1. k = <<"destroy", k[2]>> /\ k[2] \in Devices
          BY <1>2, <3>1, <4>1
        <5>2. QED
          BY <1>1, <4>1, <5>1
      <4>2. QED
        BY <2>7, <4>1
    <3>2. \A k \in closers' : k[1] = "destroy" =>
             /\ root' = "closing" /\ walk'.at <= walk'.size /\ k[2] = devices'[walk'.at]
             /\ \A a \in mapped' : home'[a][1] # k[2]
      BY <1>1, <1>7, <2>2, <2>3, <2>6, <3>1
    <3>3. root' = "closing" =>
             /\ walk'.at <= walk'.size + 1 /\ walk'.size <= Len(devices')
             /\ \A n \in DOMAIN devices' : n < walk'.at \/ n > walk'.size =>
                    devices'[n] \notin host' /\ \A a \in mapped' : home'[a][1] # devices'[n]
      BY <1>1, <1>3, <2>3, <2>6
    <3>4. root' = "closing"
      BY <1>1, <2>3
    <3>5. QED
      BY <3>2, <3>3, <3>4 DEF WalkFits
  <2>10. rootCrash' = "no"
    BY <2>3
  <2>11. QED
    BY <1>5, <2>6, <2>8, <2>9, <2>10 DEF Unraced
<1>8. QED
  BY <1>2, <1>6, <1>7

LEMMA AgentClosedKeeps ==
  ASSUME RootTypes, Unraced, rootCrash = "no", NEW b \in Bodies, NEW a \in 1..MaxAgents,
         AgentClosed(b, a)
  PROVE  Unraced'
<1>1. /\ a \in toClose[b] /\ up' = up \ {a} /\ runs' = {x \in runs : inAgent[x] # a}
      /\ \A e \in Bodies : toClose'[e] = IF e = b THEN toClose[b] \ {a} ELSE toClose[e]
  BY DEF AgentClosed, RootTypes, RootOK
<1>2. UNCHANGED <<devices, made, host, agentBy, mapped, scriptBy, home, ended, inAgent, root, walk,
                  closers, call, rootCrash>>
  BY DEF AgentClosed
<1>3. Listed' = Listed
  BY <1>2 DEF Listed
<1>4. a \notin mapped
  BY <1>1 DEF Unraced, AgentsFit
<1>5. DevicesFit'
  BY <1>1, <1>2, <1>3 DEF Unraced, DevicesFit
<1>6. AgentsFit'
  BY <1>1, <1>2, <1>3 DEF Unraced, AgentsFit
<1>7. ScriptsTracked'
  BY <1>1, <1>2, <1>4 DEF Unraced, ScriptsTracked, MappedAt
<1>8. OneCall' /\ WalkFits'
  BY <1>2 DEF Unraced, OneCall, UnderWay, WalkFits
<1>9. CallsWork'
  BY <1>1, <1>2, <1>3, <1>4 DEF Unraced, CallsWork, CallWorks, MappedAt
<1>10. QED
  BY <1>2, <1>5, <1>6, <1>7, <1>8, <1>9 DEF Unraced

LEMMA DeviceClosedKeeps ==
  ASSUME RootTypes, Unraced, rootCrash = "no", NEW b \in Bodies, NEW d \in Devices,
         DeviceClosed(b, d)
  PROVE  Unraced'
<1>1. /\ <<b, d>> \in closers /\ toClose[b] = {} /\ closers' = closers \ {<<b, d>>}
      /\ host' = host \ {d}
      /\ UNCHANGED <<devices, made, agentBy, mapped, scriptBy, home, up, ended, inAgent, runs,
                     root, toClose, call, rootCrash>>
  BY DEF DeviceClosed
<1>2. Listed' = Listed
  BY <1>1 DEF Listed
<1>3. PICK k \in closers : k = <<b, d>> /\ k[1] = b /\ k[2] = d
  BY <1>1
<1>4. \A a \in mapped : home[a][1] # d
  <2>1. CASE b = "destroy"
    BY <1>3, <2>1 DEF Unraced, WalkFits
  <2>2. CASE b # "destroy"
    <3>1. d \notin Listed
      BY <1>3, <2>2 DEF Unraced, DevicesFit
    <3>2. \A a \in mapped : home[a][1] \in Listed
      BY DEF Unraced, AgentsFit
    <3>3. QED
      BY <3>1, <3>2
  <2>3. QED
    BY <2>1, <2>2
<1>5. \A e \in Devices : \A g \in Bodies : <<g, e>> \in closers /\ g # b => <<g, e>> \in closers'
  BY <1>1
<1>6. DevicesFit'
  <2>1. /\ Listed' \subseteq made'
        /\ \A m, n \in DOMAIN devices' : devices'[m] = devices'[n] => m = n
        /\ \A j \in closers' : j[2] \in made'
        /\ \A j \in closers' : j[1] # "destroy" => j[1] = j[2] /\ j[2] \notin Listed'
    BY <1>1, <1>2 DEF Unraced, DevicesFit
  <2>2. \A g \in Bodies : toClose'[g] # {} => \E e \in Devices : <<g, e>> \in closers'
    BY <1>1, <1>5 DEF Unraced, DevicesFit
  <2>3. host' \subseteq Listed' \cup {e \in Tethers : <<e, e>> \in closers'}
    BY <1>1, <1>2 DEF Unraced, DevicesFit
  <2>4. QED
    BY <2>1, <2>2, <2>3 DEF DevicesFit
<1>7. AgentsFit'
  BY <1>1, <1>2, <1>4 DEF Unraced, AgentsFit
<1>8. ScriptsTracked'
  BY <1>1 DEF Unraced, ScriptsTracked, MappedAt
<1>9. OneCall'
  BY <1>1 DEF Unraced, OneCall, UnderWay
<1>10. CallsWork'
  <2> SUFFICES ASSUME NEW c \in PageCalls PROVE CallWorks(call[c])'
    BY DEF CallsWork
  <2>1. CASE call[c].at = "none"
    <3>1. call[c] = NoCall
      BY <2>1, RootTyped DEF PageCallFits
    <3>2. QED
      BY <1>1, <3>1, NoCallWorks DEF CallWorks
  <2>2. CASE call[c].at # "none"
    <3>1. CallWorks(call[c]) /\ b # "destroy"
      BY <1>3, <2>2, AloneAtWork
    <3>2. d \notin Listed
      BY <1>3, <3>1 DEF Unraced, DevicesFit
    <3>3. call[c].at \in Steps => call[c].of[1] # d
      BY <3>1, <3>2 DEF CallWorks
    <3>4. QED
      BY <1>1, <1>2, <3>1, <3>3 DEF CallWorks, MappedAt
  <2>3. QED
    BY <2>1, <2>2
<1>11. WalkFits'
  <2>1. \A e \in Tethers : e \in host' /\ <<e, e>> \in closers => <<e, e>> \in closers'
    BY <1>1
  <2>2. CASE b # "destroy"
    <3>1. walk' = walk
      BY <2>2 DEF DeviceClosed
    <3>2. QED
      BY <1>1, <2>1, <3>1 DEF Unraced, WalkFits
  <2>3. CASE b = "destroy"
    <3>1. root = "closing" /\ walk.at <= walk.size /\ d = devices[walk.at]
      BY <1>3, <2>3 DEF Unraced, WalkFits
    <3>2. walk.at \in Nat /\ walk.size \in Nat /\ devices \in Seq(Devices)
      BY DEF RootTypes, RootOK
    <3>3. walk'.at = walk.at + 1 /\ walk'.size = walk.size
      <4>1. walk \in [at : Nat, size : Nat] /\ walk' = [walk EXCEPT !.at = @ + 1]
        BY <2>3 DEF DeviceClosed, After, RootTypes, RootOK
      <4>2. QED
        BY <4>1
    <3>4. \A j \in closers' : j[1] # "destroy"
      <4> SUFFICES ASSUME NEW j \in closers', j[1] = "destroy" PROVE FALSE
        OBVIOUS
      <4>1. j \in closers /\ closers \subseteq Bodies \X Devices
        BY <1>1 DEF RootTypes, RootOK
      <4>2. j[2] = d
        BY <3>1, <4>1 DEF Unraced, WalkFits
      <4>3. j = <<"destroy", d>>
        BY <4>1, <4>2
      <4>4. QED
        BY <1>1, <2>3, <4>3
    <3>5. \A n \in DOMAIN devices : n < walk.at + 1 \/ n > walk.size =>
              devices[n] \notin host' /\ \A a \in mapped : home[a][1] # devices[n]
      <4> SUFFICES ASSUME NEW n \in DOMAIN devices, n < walk.at + 1 \/ n > walk.size
                   PROVE  devices[n] \notin host' /\ \A a \in mapped : home[a][1] # devices[n]
        OBVIOUS
      <4>1. n \in Nat
        BY <3>2
      <4>2. CASE n = walk.at
        BY <1>1, <1>4, <3>1, <4>2
      <4>3. CASE n # walk.at
        BY <1>1, <3>1, <3>2, <4>1, <4>3 DEF Unraced, WalkFits
      <4>4. QED
        BY <4>2, <4>3
    <3>6. walk.size <= Len(devices)
      BY <3>1 DEF Unraced, WalkFits
    <3>7. walk'.at <= walk'.size + 1
      BY <3>1, <3>2, <3>3
    <3>8. root' = "closing"
      BY <1>1, <3>1
    <3>9. QED
      BY <1>1, <3>3, <3>4, <3>5, <3>6, <3>7, <3>8 DEF WalkFits
  <2>4. QED
    BY <2>2, <2>3
<1>12. QED
  BY <1>1, <1>6, <1>7, <1>8, <1>9, <1>10, <1>11 DEF Unraced

LEMMA DestroyKeeps ==
  ASSUME RootTypes, Unraced, rootCrash = "no", ~raced', Destroy \/ Destroyed
  PROVE  Unraced'
<1>1. UNCHANGED <<devices, made, host, agentBy, mapped, scriptBy, home, up, ended, inAgent, runs,
                  closers, toClose, call, rootCrash>>
  BY DEF Destroy, Destroyed
<1>2. DevicesFit' /\ AgentsFit'
  BY <1>1 DEF Unraced, DevicesFit, AgentsFit, Listed
<1>3. ScriptsTracked' /\ CallsWork'
  <2>1. ScriptsTracked'
    BY <1>1 DEF Unraced, ScriptsTracked, MappedAt
  <2>2. Listed' = Listed
    BY <1>1 DEF Listed
  <2>3. CallsWork'
    BY <1>1, <2>2 DEF Unraced, CallsWork, CallWorks, MappedAt
  <2>4. QED
    BY <2>1, <2>3
<1>4. UnderWay = {}
  BY DEF Destroy, Destroyed, Unraced, OneCall
<1>5. OneCall'
  BY <1>1, <1>4 DEF OneCall, UnderWay
<1>6. WalkFits'
  <2>1. CASE Destroy
    <3>1. /\ root = "alive" /\ root' = "closing" /\ walk' = [at |-> 1, size |-> Len(devices)]
          /\ devices \in Seq(Devices)
      BY <2>1 DEF Destroy, RootTypes, RootOK
    <3>2. \A k \in closers' : k[1] # "destroy"
      BY <1>1, <3>1 DEF Unraced, WalkFits
    <3>3. \A n \in DOMAIN devices : ~(n < 1 \/ n > Len(devices))
      BY <3>1
    <3>4. walk'.at <= walk'.size + 1 /\ walk'.size <= Len(devices)
      BY <3>1
    <3>5. walk'.at = 1 /\ walk'.size = Len(devices)
      BY <3>1
    <3>6. devices' = devices /\ root' = "closing"
      BY <1>1, <3>1
    <3>7. QED
      BY <3>2, <3>3, <3>4, <3>5, <3>6 DEF WalkFits
  <2>2. CASE Destroyed
    <3>1. root = "stopping" /\ root' = "gone" /\ walk' = walk
      BY <2>2 DEF Destroyed
    <3>2. QED
      BY <1>1, <3>1 DEF Unraced, WalkFits
  <2>3. QED
    BY <2>1, <2>2
<1>7. QED
  BY <1>1, <1>2, <1>3, <1>5, <1>6 DEF Unraced

LEMMA AgentDiesKeeps ==
  ASSUME RootTypes, Unraced, rootCrash = "no", ~raced', NEW a \in 1..MaxAgents, AgentDies(a)
  PROVE  Unraced'
<1>1. /\ a \in up /\ up' = up \ {a} /\ ended' = ended \cup ({a} \cap mapped)
      /\ runs' = {x \in runs : inAgent[x] # a}
      /\ \A c \in UnderWay : Replaces(c) => inAgent[call[c].script] # a
  BY DEF AgentDies
<1>2. UNCHANGED <<devices, made, host, agentBy, mapped, scriptBy, home, inAgent, root, walk,
                  closers, toClose, call, rootCrash>>
  BY DEF AgentDies
<1>3. Listed' = Listed
  BY <1>2 DEF Listed
<1>4. DevicesFit' /\ OneCall' /\ WalkFits'
  BY <1>2, <1>3 DEF Unraced, DevicesFit, OneCall, UnderWay, WalkFits
<1>5. AgentsFit'
  BY <1>1, <1>2, <1>3 DEF Unraced, AgentsFit
<1>6. ScriptsTracked'
  BY <1>1, <1>2 DEF Unraced, ScriptsTracked, MappedAt
<1>7. CallsWork'
  <2> SUFFICES ASSUME NEW c \in PageCalls PROVE CallWorks(call[c])'
    BY DEF CallsWork
  <2>1. CallWorks(call[c]) /\ call'[c] = call[c]
    BY <1>2 DEF Unraced, CallsWork
  <2>2. call[c].old # 0 /\ call[c].kind = "attach" => inAgent[call[c].script] # a
    BY <1>1, NoCallWorks DEF UnderWay, Replaces
  <2>3. QED
    BY <1>1, <1>2, <1>3, <2>1, <2>2 DEF CallWorks, MappedAt
<1>8. QED
  BY <1>2, <1>4, <1>5, <1>6, <1>7 DEF Unraced

LEMMA AgentSessionGoneKeeps ==
  ASSUME RootTypes, Unraced, rootCrash = "no", NEW a \in 1..MaxAgents, AgentSessionGone(a)
  PROVE  Unraced'
<1>1. /\ a \in ended /\ ended' = ended \ {a} /\ mapped' = mapped \ {a}
      /\ UNCHANGED <<devices, made, host, home, up, inAgent, runs, root, walk, closers, toClose,
                     call, rootCrash>>
  BY DEF AgentSessionGone
<1>2. a \notin up /\ a \in DOMAIN home /\ home[a] \in Targets
  BY <1>1, RootTyped DEF Unraced, AgentsFit
<1>3. /\ agentBy \in [Targets -> 0..MaxAgents] /\ scriptBy \in [Targets -> 0..MaxPageScripts]
      /\ mapped \subseteq DOMAIN home /\ \A i \in DOMAIN home : home[i] \in Targets
      /\ runs \subseteq DOMAIN inAgent /\ \A x \in DOMAIN inAgent : x \in 1..MaxPageScripts
  BY RootTyped
<1>4. \A t \in Targets : IF a \in mapped /\ t = home[a]
                         THEN agentBy'[t] = 0 /\ scriptBy'[t] = 0
                         ELSE agentBy'[t] = agentBy[t] /\ scriptBy'[t] = scriptBy[t]
  BY <1>3 DEF AgentSessionGone, WithoutScript
<1>5. Listed' = Listed
  BY <1>1 DEF Listed
\* No other agent session is in the maps of the process.
<1>6. \A i \in mapped : a \in mapped /\ home[i] = home[a] => i = a
  BY DEF Unraced, AgentsFit
<1>7. DevicesFit' /\ OneCall'
  BY <1>1, <1>5 DEF Unraced, DevicesFit, OneCall, UnderWay
<1>8. WalkFits'
  BY <1>1 DEF Unraced, WalkFits
<1>9. AgentsFit'
  <2>1. \A t \in Targets : agentBy'[t] # 0 => agentBy'[t] \in mapped' /\ home'[agentBy'[t]] = t
    <3> SUFFICES ASSUME NEW t \in Targets, agentBy'[t] # 0
                 PROVE  agentBy'[t] \in mapped' /\ home'[agentBy'[t]] = t
      OBVIOUS
    <3>1. agentBy'[t] = agentBy[t] /\ ~(a \in mapped /\ t = home[a])
      BY <1>4
    <3>2. QED
      BY <1>1, <3>1 DEF Unraced, AgentsFit
  <2>2. \A i \in mapped' : /\ agentBy'[home'[i]] = i /\ home'[i][1] \in Listed' \cap host'
                           /\ \A b \in Bodies : i \notin toClose'[b]
    <3> SUFFICES ASSUME NEW i \in mapped, i # a
                 PROVE  /\ agentBy'[home[i]] = i /\ home[i][1] \in Listed \cap host
                        /\ \A b \in Bodies : i \notin toClose[b]
      BY <1>1, <1>5
    <3>1. home[i] \in Targets /\ ~(a \in mapped /\ home[i] = home[a])
      BY <1>3, <1>6
    <3>2. QED
      BY <1>4, <3>1 DEF Unraced, AgentsFit
  <2>3. ended' \cap up' = {}
    BY <1>1 DEF Unraced, AgentsFit
  <2>4. /\ \A i \in up' : i \in mapped' \/ \E b \in Bodies : i \in toClose'[b]
        /\ \A b \in Bodies : toClose'[b] \subseteq DOMAIN home'
    BY <1>1, <1>2 DEF Unraced, AgentsFit
  <2>5. QED
    BY <2>1, <2>2, <2>3, <2>4 DEF AgentsFit
<1>10. ScriptsTracked'
  <2>1. ASSUME NEW t \in Targets, NEW x \in 1..MaxPageScripts, scriptBy'[t] = x
        PROVE  /\ x \in DOMAIN inAgent' /\ MappedAt(x, t)'
               /\ x \in runs' \/ inAgent'[x] \in ended'
    <3>1. scriptBy[t] = x /\ ~(a \in mapped /\ t = home[a])
      BY <1>4, <2>1
    <3>2. x \in DOMAIN inAgent /\ MappedAt(x, t) /\ (x \in runs \/ inAgent[x] \in ended)
      BY <3>1 DEF Unraced, ScriptsTracked
    <3>3. inAgent[x] # a
      BY <3>1, <3>2 DEF MappedAt
    <3>4. QED
      BY <1>1, <3>2, <3>3 DEF MappedAt
  <2>2. ASSUME NEW x \in runs
        PROVE  /\ inAgent'[x] \in up'
               /\ \/ \E t \in Targets : scriptBy'[t] = x
                  \/ \E c \in PageCalls : x \in {call'[c].script, call'[c].old}
                  \/ \E b \in Bodies : inAgent'[x] \in toClose'[b]
    <3>1. /\ inAgent[x] \in up /\ x \in 1..MaxPageScripts
          /\ \/ \E t \in Targets : scriptBy[t] = x
             \/ \E c \in PageCalls : x \in {call[c].script, call[c].old}
             \/ \E b \in Bodies : inAgent[x] \in toClose[b]
      BY <1>3 DEF Unraced, ScriptsTracked
    <3>2. ASSUME NEW t \in Targets, scriptBy[t] = x PROVE scriptBy'[t] = x
      <4>1. MappedAt(x, t)
        BY <3>1, <3>2 DEF Unraced, ScriptsTracked
      <4>2. ~(a \in mapped /\ t = home[a])
        BY <1>2, <1>6, <3>1, <4>1 DEF MappedAt
      <4>3. QED
        BY <1>4, <3>2, <4>2
    <3>3. QED
      BY <1>1, <3>1, <3>2
  <2>3. QED
    BY <1>1, <2>1, <2>2 DEF ScriptsTracked
<1>11. CallsWork'
  <2> SUFFICES ASSUME NEW c \in PageCalls PROVE CallWorks(call[c])'
    BY DEF CallsWork
  <2>1. PICK r : r = call[c]
    OBVIOUS
  <2>2. CallWorks(r) /\ PageCallFits(r) /\ call'[c] = r
    BY <1>1, <2>1, RootTyped DEF Unraced, CallsWork
  <2>3. (r.at \in Steps => r.of \in Targets) /\ (r.old # 0 => r.at \in Steps)
    BY <2>2 DEF PageCallFits
  <2>4. r.of \in Targets => /\ agentBy[r.of] = 0 => agentBy'[r.of] = 0
                            /\ scriptBy[r.of] = 0 => scriptBy'[r.of] = 0
    BY <1>4
  <2>5. \A x \in runs : MappedAt(x, r.of) => MappedAt(x, r.of)'
    <3>1. \A x \in runs : inAgent[x] # a
      BY <1>2 DEF Unraced, ScriptsTracked
    <3>2. QED
      BY <1>1, <3>1 DEF MappedAt
  <2>6. r.agent \in up /\ r.agent \in mapped => r.agent \in mapped'
    BY <1>1, <1>2
  <2>7. CallWorks(r)'
    BY <1>1, <1>5, <2>2, <2>3, <2>4, <2>5, <2>6 DEF CallWorks, Steps
  <2>8. QED
    BY <2>2, <2>7 DEF CallWorks
<1>12. QED
  BY <1>1, <1>7, <1>8, <1>9, <1>10, <1>11 DEF Unraced

-----------------------------------------------------------------------------
LEMMA RootInitFits == RootInit => RootInv
<1> SUFFICES ASSUME RootInit PROVE RootInv
  OBVIOUS
<1>1. /\ root = "alive" /\ devices = <<>> /\ made = {} /\ host = {} /\ mapped = {} /\ home = <<>>
      /\ up = {} /\ ended = {} /\ inAgent = <<>> /\ runs = {} /\ closers = {} /\ backends = 0
      /\ rootCrash = "no" /\ raced = FALSE /\ walk = [at |-> 0, size |-> 0]
      /\ agentBy = [t \in Targets |-> 0] /\ scriptBy = [t \in Targets |-> 0]
      /\ call = [c \in PageCalls |-> NoCall] /\ toClose = [b \in Bodies |-> {}]
  BY DEF RootInit
<1>2. \A c \in PageCalls : call[c] = NoCall
  BY <1>1
<1>3. RootTypes
  <2>1. call \in [PageCalls -> PageCallRecords] /\ \A c \in PageCalls : PageCallFits(call[c])
    BY <1>1, NoCallFits
  <2>2. /\ agentBy \in [Targets -> 0..MaxAgents] /\ scriptBy \in [Targets -> 0..MaxPageScripts]
        /\ toClose \in [Bodies -> SUBSET (1..MaxAgents)] /\ walk \in [at : Nat, size : Nat]
    BY <1>1
  <2>3. /\ devices \in Seq(Devices) /\ home \in Seq(Targets) /\ inAgent \in Seq(1..MaxAgents)
        /\ Len(home) = 0 /\ Len(inAgent) = 0
    BY <1>1
  <2>4. DOMAIN call = PageCalls
    BY <1>1
  <2>5. RootOK
    BY <1>1, <2>2, <2>3, <2>4 DEF RootOK
  <2>6. QED
    BY <1>1, <2>1, <2>3, <2>5 DEF RootTypes
<1>4. DOMAIN devices = {} /\ Listed = {}
  BY <1>1 DEF Listed
<1>5. DevicesFit
  BY <1>1, <1>4 DEF DevicesFit
<1>6. AgentsFit
  BY <1>1 DEF AgentsFit
<1>7. ScriptsTracked
  BY <1>1 DEF ScriptsTracked
<1>8. OneCall /\ CallsWork
  BY <1>1, <1>2, NoCallWorks DEF OneCall, UnderWay, CallsWork
<1>9. WalkFits
  BY <1>1 DEF WalkFits
<1>10. QED
  BY <1>1, <1>3, <1>5, <1>6, <1>7, <1>8, <1>9 DEF RootInv, Unraced

LEMMA NextKeepsRootTypes ==
  ASSUME RootTypes, RootNext PROVE RootTypes'
BY EnumerateTypes, PageCalledTypes, LocalOpenedTypes, HostSessionTypes, AgentObtainedTypes,
   ScriptLoadedTypes, FinishesTypes, DevicesTypes, AgentsTypes
   DEF RootNext, RootCallProceeds, DestroyProceeds

\* Once calls have raced they have for good.
LEMMA RacedForGood ==
  ASSUME RootTypes, RootNext, raced PROVE raced'
BY DEF RootNext, RootCallProceeds, DestroyProceeds, EnumerateDevices, PageCalled, PageBegins,
       LocalOpened, HostSessionObtained, AgentSessionObtained, ScriptLoaded, RemoteReturns,
       CallFails, Finishes, ProviderAvailable, ProviderUnavailable, Destroy, DestroyGoesOn,
       Destroyed, AgentClosed, DeviceClosed, AgentDies, AgentSessionGone

LEMMA NextKeepsRootInv ==
  ASSUME RootInv, [RootNext]_rootVars PROVE RootInv'
<1>1. CASE RootNext
  <2>1. RootTypes'
    BY <1>1, NextKeepsRootTypes DEF RootInv
  <2> SUFFICES ASSUME ~raced' PROVE Unraced'
    BY <2>1 DEF RootInv
  <2>2. RootTypes /\ Unraced /\ rootCrash = "no"
    BY <1>1, RacedForGood DEF RootInv, RootNext
  <2>3. ASSUME NEW c \in PageCalls, \/ \E d \in Devices : EnumerateDevices(c, d)
                                    \/ \E t \in Targets : PageCalled(c, t)
                                    \/ RootCallProceeds(c)
        PROVE  Unraced'
    BY <2>2, <2>3, EnumerateKeeps, PageCalledKeeps, LocalOpenedKeeps, HostSessionKeeps,
       AgentObtainedKeeps, ScriptLoadedKeeps, FinishesKeeps DEF RootCallProceeds
  <2>4. ASSUME NEW d \in Tethers, ProviderAvailable(d) \/ ProviderUnavailable(d) PROVE Unraced'
    BY <2>2, <2>4, ProviderAvailableKeeps, ProviderUnavailableKeeps
  <2>5. CASE Destroy \/ DestroyProceeds
    BY <2>2, <2>5, DestroyKeeps, DestroyGoesOnKeeps, AgentClosedKeeps, DeviceClosedKeeps
       DEF DestroyProceeds
  <2>6. ASSUME NEW a \in 1..MaxAgents, AgentDies(a) \/ AgentSessionGone(a) PROVE Unraced'
    BY <2>2, <2>6, AgentDiesKeeps, AgentSessionGoneKeeps
  <2>7. QED
    BY <1>1, <2>3, <2>4, <2>5, <2>6 DEF RootNext
<1>2. CASE UNCHANGED rootVars
  <2>1. RootTypes'
    BY <1>2 DEF rootVars, RootInv, RootTypes, RootOK
  <2>2. ASSUME Unraced PROVE Unraced'
    <3>1. DevicesFit' /\ AgentsFit' /\ WalkFits'
      BY <1>2, <2>2, NothingElseMoves DEF rootVars, Unraced
    <3>2. OneCall' /\ ScriptsTracked'
      BY <1>2, <2>2 DEF rootVars, Unraced, OneCall, UnderWay, ScriptsTracked, MappedAt
    <3>3. CallsWork'
      BY <1>2, <2>2 DEF rootVars, Unraced, CallsWork, CallWorks, MappedAt, Listed
    <3>4. QED
      BY <1>2, <2>2, <3>1, <3>2, <3>3 DEF rootVars, Unraced
  <2>3. QED
    BY <1>2, <2>1, <2>2 DEF rootVars, RootInv
<1>3. QED
  BY <1>1, <1>2

LEMMA RootInvHolds == RootSpec => []RootInv
<1>1. RootInv /\ [RootNext]_rootVars => RootInv'
  BY NextKeepsRootInv
<1>2. QED
  BY RootInitFits, <1>1, PTL DEF RootSpec

\* Every variable of the root object keeps its type, whatever overlaps.
THEOREM RootTypeCorrect == RootSpec => []RootOK
<1>1. RootInv => RootOK
  BY DEF RootInv, RootTypes
<1>2. QED
  BY RootInvHolds, <1>1, PTL

\* Whatever the page asks for, however agents die, devices come and go and the page ends:
\* as long as calls overlap neither each other nor the end of what they work on, every
\* script the page believes it is attached to runs or detach will be emitted for it,
\* every script that runs can be detached from, and a root that is gone leaves nothing
\* that nobody closes.
THEOREM ScriptsAreTracked == RootSpec => []TrackedScriptsRun
<1>1. RootInv => TrackedScriptsRun
  <2> SUFFICES ASSUME RootTypes, Unraced PROVE TrackedScriptsRun
    BY DEF RootInv, TrackedScriptsRun
  <2>1. \A t \in Targets :
            LET x == scriptBy[t] IN
            x # 0 => /\ inAgent[x] \in mapped /\ home[inAgent[x]] = t
                     /\ x \in runs \/ inAgent[x] \in ended
    BY RootTyped DEF Unraced, ScriptsTracked, MappedAt
  <2>2. \A x \in runs :
            \/ \E t \in Targets : scriptBy[t] = x
            \/ \E c \in PageCalls : x \in {call[c].script, call[c].old}
            \/ \E b \in Bodies : inAgent[x] \in toClose[b]
    BY DEF Unraced, ScriptsTracked
  <2>3. root = "gone" =>
            /\ up \subseteq UNION {toClose[b] : b \in Tethers}
            /\ host \subseteq {d \in Tethers : <<d, d>> \in closers}
    <3> SUFFICES ASSUME root = "gone"
                 PROVE  /\ up \subseteq UNION {toClose[b] : b \in Tethers}
                        /\ host \subseteq {d \in Tethers : <<d, d>> \in closers}
      OBVIOUS
    <3>1. mapped = {} /\ host \subseteq {d \in Tethers : <<d, d>> \in closers}
      BY DEF Unraced, WalkFits
    <3>2. toClose["destroy"] = {}
      <4> SUFFICES ASSUME toClose["destroy"] # {} PROVE FALSE
        OBVIOUS
      <4>1. PICK d \in Devices : <<"destroy", d>> \in closers
        BY DEF Unraced, DevicesFit
      <4>2. PICK k \in closers : k[1] = "destroy"
        BY <4>1
      <4>3. QED
        BY <4>2 DEF Unraced, WalkFits
    <3>3. \A a \in up : \E b \in Tethers : a \in toClose[b]
      BY <3>1, <3>2 DEF Unraced, AgentsFit
    <3>4. QED
      BY <3>1, <3>3
  <2>4. QED
    BY <2>1, <2>2, <2>3 DEF TrackedScriptsRun, Unraced
<1>2. QED
  BY RootInvHolds, <1>1, PTL
=============================================================================
