-------------------------- MODULE ConnectionProofs --------------------------
(***************************************************************************)
(* Proofs about what two ends of a connection hold of it.                  *)
(*                                                                         *)
(* Of DBusHostSession, for any number of connections and of attempts: as   *)
(* long as no connection is obtained while close is under way, the list of *)
(* entries is the list of the open connections.                            *)
(*                                                                         *)
(* Of WinIpcProxy, for any number of queries, notifications and changes of *)
(* the handlers: what crosses the pipe is served once, and the queries     *)
(* implement AtMostOnceCall.                                               *)
(***************************************************************************)
EXTENDS DBusHostSession, WinIpcProxy, SequenceTheorems, FiniteSetTheorems, TLAPS

-----------------------------------------------------------------------------
(* DBusHostSession.  The strengthening of EntriesAreTheConnections that is *)
(* inductive.                                                              *)

Listed(k) == Contains(entries, k)

\* What is in the list has been obtained and is watched; a coroutine that sleeps may
\* try again; and close finds nothing under way.
ObtainsFit ==
    /\ \A k \in Conns : Listed(k) => obtain[k] = "returned" /\ k \in watched
    /\ \A k \in watched : obtain[k] = "returned"
    /\ \A k \in Conns : obtain[k] = "sleeping" => attempt[k] # MaxAttempts
    /\ \A k \in Conns : announced[k] > 0 => obtain[k] = "returned"
    /\ \A k \in Conns : link[k] = "vanished" => peer[k] = "gone"
    /\ closing # "open" => \A k \in Conns : obtain[k] \notin UnderWay

\* close has been here: the connection is closed, or close waits for that.
Visited(k) == link[k] = "closed" \/ k \in walk.awaited

\* The loop of close reaches the size the list had only if no entry has gone before
\* the last one was visited.
WalkFits ==
    /\ closing # "awaiting" => walk.awaited = {}
    /\ closing = "awaiting" =>
           /\ walk.index <= walk.size /\ Len(entries) <= walk.size
           /\ Len(entries) = walk.size =>
                  \A n \in 1..Len(entries) : n <= walk.index => Visited(entries[n])
           /\ walk.index = walk.size => \A k \in Conns : Listed(k) => Visited(k)
    /\ closing = "done" => entries = <<>>

IInv == TypeOK /\ ObtainsFit /\ WalkFits /\ EntriesAreTheConnections

-----------------------------------------------------------------------------
USE ConnsAreDisjoint, MaxAttemptsIsPositive, ObtainsWhileClosingIsBoolean
USE DEF obtaining, listed, closes, UnderWay

(* Lists of connections.                                                   *)

\* What removing the n-th element leaves.
LEMMA RemovedAt ==
  ASSUME NEW T, NEW s \in Seq(T), NEW n \in 1..Len(s)
  PROVE  /\ RemoveAt(s, n) \in Seq(T)
         /\ Len(RemoveAt(s, n)) = Len(s) - 1
         /\ \A m \in 1..Len(s) - 1 :
                RemoveAt(s, n)[m] = IF m < n THEN s[m] ELSE s[m + 1]
<1> DEFINE a == SubSeq(s, 1, n - 1)
           b == SubSeq(s, n + 1, Len(s))
<1>1. Len(s) \in Nat /\ n \in Int
  OBVIOUS
<1>2. /\ a \in Seq(T) /\ Len(a) = n - 1
      /\ \A m \in 1..n - 1 : a[m] = s[m]
  BY <1>1, SubSeqProperties
<1>3. /\ b \in Seq(T) /\ Len(b) = Len(s) - n
      /\ \A m \in 1..Len(s) - n : b[m] = s[m + n]
  BY <1>1, SubSeqProperties
<1> HIDE DEF a, b
<1>4. /\ a \o b \in Seq(T) /\ Len(a \o b) = Len(s) - 1
      /\ \A m \in 1..Len(s) - 1 : (a \o b)[m] = IF m <= n - 1 THEN a[m] ELSE b[m - (n - 1)]
  <2>1. Len(a) + Len(b) = Len(s) - 1
    BY <1>1, <1>2, <1>3
  <2>2. /\ a \o b \in Seq(T) /\ Len(a \o b) = Len(a) + Len(b)
        /\ \A m \in 1..Len(a) + Len(b) :
               (a \o b)[m] = IF m <= Len(a) THEN a[m] ELSE b[m - Len(a)]
    BY <1>2, <1>3, ConcatProperties
  <2>3. QED
    BY <1>2, <2>1, <2>2
<1>5. \A m \in 1..Len(s) - 1 : (a \o b)[m] = IF m < n THEN s[m] ELSE s[m + 1]
  BY <1>1, <1>2, <1>3, <1>4
<1>6. RemoveAt(s, n) = a \o b
  BY DEF RemoveAt, a, b
<1>7. QED
  BY <1>4, <1>5, <1>6

Distinct(s) == \A m, n \in 1..Len(s) : s[m] = s[n] => m = n

\* A list without doubles loses exactly the element that is removed.
LEMMA RemovedOnce ==
  ASSUME NEW T, NEW s \in Seq(T), Distinct(s), NEW n \in 1..Len(s)
  PROVE  /\ Distinct(RemoveAt(s, n))
         /\ \A e \in T : Contains(RemoveAt(s, n), e) <=> Contains(s, e) /\ e # s[n]
<1> DEFINE r == RemoveAt(s, n)
           from(m) == IF m < n THEN m ELSE m + 1
<1>1. Len(s) \in Nat /\ Len(r) = Len(s) - 1
  BY RemovedAt
<1>2. \A m \in 1..Len(r) : from(m) \in 1..Len(s) /\ from(m) # n /\ r[m] = s[from(m)]
  <2>1. \A m \in 1..Len(s) - 1 : r[m] = IF m < n THEN s[m] ELSE s[m + 1]
    BY RemovedAt
  <2> HIDE DEF r
  <2>2. QED
    BY <1>1, <2>1
<1>3. \A m \in 1..Len(s) : m # n => \E l \in 1..Len(r) : from(l) = m
  <2> SUFFICES ASSUME NEW m \in 1..Len(s), m # n
               PROVE  \E l \in 1..Len(r) : from(l) = m
    OBVIOUS
  <2>1. CASE m < n
    BY <1>1, <2>1
  <2>2. CASE m > n
    <3>1. m - 1 \in 1..Len(r) /\ from(m - 1) = m
      BY <1>1, <2>2
    <3>2. QED
      BY <3>1
  <2>3. QED
    BY <2>1, <2>2
<1>4. \A l, m \in 1..Len(r) : from(l) = from(m) => l = m
  BY <1>1
<1> HIDE DEF r, from
<1>5. Distinct(r)
  BY <1>2, <1>4 DEF Distinct
<1>6. \A e \in T : Contains(r, e) <=> Contains(s, e) /\ e # s[n]
  <2> TAKE e \in T
  <2>1. ASSUME Contains(r, e) PROVE Contains(s, e) /\ e # s[n]
    <3>1. PICK m \in 1..Len(r) : r[m] = e
      BY <2>1 DEF Contains
    <3>2. from(m) \in 1..Len(s) /\ from(m) # n /\ s[from(m)] = e
      BY <1>2, <3>1
    <3>3. QED
      BY <3>2 DEF Contains, Distinct
  <2>2. ASSUME Contains(s, e), e # s[n] PROVE Contains(r, e)
    <3>1. PICK m \in 1..Len(s) : s[m] = e
      BY <2>2 DEF Contains
    <3>2. PICK l \in 1..Len(r) : from(l) = m
      BY <1>3, <2>2, <3>1
    <3>3. r[l] = e
      BY <1>2, <3>1, <3>2
    <3>4. QED
      BY <3>3 DEF Contains
  <2>3. QED
    BY <2>1, <2>2
<1>7. QED
  BY <1>5, <1>6 DEF r

\* What appending an element adds.
LEMMA AppendedOnce ==
  ASSUME NEW T, NEW s \in Seq(T), NEW e \in T
  PROVE  /\ \A k \in T : Contains(Append(s, e), k) <=> Contains(s, k) \/ k = e
         /\ Distinct(s) /\ ~Contains(s, e) => Distinct(Append(s, e))
<1> DEFINE r == Append(s, e)
<1>1. /\ r \in Seq(T) /\ Len(r) = Len(s) + 1 /\ Len(s) \in Nat
      /\ \A n \in 1..Len(s) : r[n] = s[n]
      /\ r[Len(s) + 1] = e
  BY AppendProperties
<1>2. \A n \in 1..Len(r) : n \in 1..Len(s) \/ n = Len(s) + 1
  BY <1>1
<1>3. \A n \in 1..Len(s) : n \in 1..Len(r)
  BY <1>1
<1>4. Len(s) + 1 \in 1..Len(r)
  BY <1>1
<1> HIDE DEF r
<1>5. \A k \in T : Contains(r, k) <=> Contains(s, k) \/ k = e
  BY <1>1, <1>2, <1>3, <1>4 DEF Contains
<1>6. Distinct(s) /\ ~Contains(s, e) => Distinct(r)
  BY <1>1, <1>2 DEF Contains, Distinct
<1>7. QED
  BY <1>5, <1>6 DEF r

-----------------------------------------------------------------------------
(* Each action keeps IInv.                                                 *)

LEMMA InitEstablishesIInv == Init => IInv
<1> SUFFICES ASSUME Init PROVE IInv
  OBVIOUS
<1>1. entries = <<>> /\ entries \in Seq(Conns) /\ Len(entries) = 0
  BY DEF Init
<1>2. TypeOK
  BY <1>1 DEF Init, TypeOK
<1>3. ObtainsFit /\ WalkFits /\ EntriesAreTheConnections
  BY <1>1 DEF Init, ObtainsFit, WalkFits, EntriesAreTheConnections, Listed, Contains
<1>4. QED
  BY <1>2, <1>3 DEF IInv

\* Steps of obtain_agent_session and create that make no connection and no entry.
LEMMA TriesKeep ==
  ASSUME IInv, ObtainsWhileClosing = FALSE, NEW k \in Conns,
         Obtain(k) \/ PortConnected(k) \/ Refused(k) \/ Fails(k) \/ TriesNext(k)
  PROVE  IInv'
<1> USE DEF IInv
<1>1. /\ UNCHANGED <<peer, link, watched, entries, announced, missed, closing, walk,
                     crash>>
      /\ obtain[k] # "returned" /\ closing = "open"
  <2>1. CASE Obtain(k)
    BY <2>1 DEF Obtain
  <2>2. CASE PortConnected(k) \/ Refused(k) \/ Fails(k) \/ TriesNext(k)
    <3>1. obtain[k] \in UnderWay /\ obtain[k] # "returned"
      BY <2>2 DEF PortConnected, Refused, Fails, TriesNext
    <3>2. closing = "open"
      BY <3>1 DEF ObtainsFit
    <3>3. UNCHANGED <<peer, link, watched, entries, announced, missed, closing, walk,
                      crash>>
      BY <2>2 DEF PortConnected, Refused, Fails, TriesNext
    <3>4. QED
      BY <3>1, <3>2, <3>3
  <2>3. QED
    BY <2>1, <2>2
<1>2. TypeOK'
  <2>1. CASE Obtain(k)
    BY <2>1 DEF Obtain, Goto, TypeOK
  <2>2. CASE TriesNext(k)
    BY <2>2 DEF TriesNext, NextAttempt, Goto, TypeOK, ObtainsFit
  <2>3. CASE PortConnected(k) \/ Refused(k) \/ Fails(k)
    BY <2>3 DEF PortConnected, Refused, Fails, Goto, TypeOK
  <2>4. QED
    BY <2>1, <2>2, <2>3
<1>3. /\ \A j \in Conns : j # k => obtain'[j] = obtain[j] /\ attempt'[j] = attempt[j]
      /\ obtain'[k] # "returned"
      /\ obtain'[k] = "sleeping" => attempt'[k] # MaxAttempts
  <2>1. obtain \in [Conns -> UnderWay \cup {"idle", "returned", "timed_out", "failed"}]
        /\ attempt \in [Conns -> 0..MaxAttempts]
    BY DEF TypeOK
  <2>2. CASE Obtain(k)
    BY <2>1, <2>2 DEF Obtain, Goto
  <2>3. CASE PortConnected(k)
    BY <2>1, <2>3 DEF PortConnected, Goto
  <2>4. CASE Refused(k)
    BY <2>1, <2>4 DEF Refused, Goto, TriesAgain
  <2>5. CASE Fails(k)
    BY <2>1, <2>5 DEF Fails, Goto
  <2>6. CASE TriesNext(k)
    BY <2>1, <2>6 DEF TriesNext, Goto
  <2>7. QED
    BY <2>2, <2>3, <2>4, <2>5, <2>6
<1>7. ObtainsFit'
  <2>1. k \notin watched /\ ~Listed(k) /\ ~(announced[k] > 0)
    BY <1>1 DEF ObtainsFit
  <2>2. watched \subseteq Conns
    BY DEF TypeOK
  <2>3. \A j \in Conns : Listed(j)' <=> Listed(j)
    BY <1>1 DEF Listed
  <2>4. QED
    BY <1>1, <1>3, <2>1, <2>2, <2>3 DEF ObtainsFit
<1>4. WalkFits'
  BY <1>1 DEF WalkFits
<1>5. EntriesAreTheConnections'
  BY <1>1, <1>3 DEF EntriesAreTheConnections
<1>6. QED
  BY <1>2, <1>4, <1>5, <1>7

LEMMA ConnectedKeeps ==
  ASSUME IInv, NEW k \in Conns, Connected(k)
  PROVE  IInv'
<1> USE DEF IInv, Connected, Goto
<1>1. TypeOK'
  BY DEF TypeOK
<1>2. obtain[k] \in UnderWay /\ obtain[k] # "returned" /\ closing = "open"
  BY DEF ObtainsFit
<1>3. ObtainsFit'
  BY <1>2 DEF ObtainsFit, Listed, TypeOK
<1>4. WalkFits'
  BY <1>2 DEF WalkFits
<1>5. EntriesAreTheConnections'
  BY <1>2 DEF EntriesAreTheConnections, ObtainsFit, TypeOK
<1>6. QED
  BY <1>1, <1>3, <1>4, <1>5

LEMMA ObtainedKeeps ==
  ASSUME IInv, NEW k \in Conns, Obtained(k)
  PROVE  IInv'
<1> USE DEF IInv, Obtained, Goto, Watch
<1>1. entries \in Seq(Conns) /\ entries' = Append(entries, k)
  BY DEF TypeOK
<1>2. \A j \in Conns : Listed(j)' <=> Listed(j) \/ j = k
  BY <1>1, AppendedOnce DEF Listed
<1>3. obtain[k] = "connected" /\ ~Listed(k) /\ closing = "open" /\ announced[k] = 0
  <2>1. obtain[k] = "connected" /\ obtain[k] \in UnderWay
    OBVIOUS
  <2>2. closing = "open"
    BY <2>1 DEF ObtainsFit
  <2>3. ~Listed(k) /\ ~(announced[k] > 0)
    BY <2>1 DEF ObtainsFit
  <2>4. announced[k] \in Nat
    BY DEF TypeOK
  <2>5. QED
    BY <2>1, <2>2, <2>3, <2>4
<1>4. TypeOK'
  BY <1>1, AppendProperties DEF TypeOK
<1>5. ObtainsFit'
  BY <1>2, <1>3 DEF ObtainsFit, TypeOK
<1>6. WalkFits'
  BY <1>3 DEF WalkFits
<1>7. EntriesAreTheConnections'
  <2>1. Distinct(entries')
    BY <1>1, <1>3, AppendedOnce DEF EntriesAreTheConnections, Distinct, Listed
  <2>2. \A j \in Conns : Contains(entries', j) <=> Contains(entries, j) \/ j = k
    BY <1>2 DEF Listed
  <2>3. QED
    BY <1>3, <2>1, <2>2 DEF EntriesAreTheConnections, Distinct, TypeOK
<1>8. QED
  BY <1>4, <1>5, <1>6, <1>7

LEMMA PeersKeep ==
  ASSUME IInv, NEW k \in Conns, PeerListens(k) \/ PeerVanishes(k)
  PROVE  IInv'
<1> USE DEF IInv
<1>1. /\ UNCHANGED <<obtain, attempt, watched, entries, announced, missed, closing,
                     walk, crash>>
      /\ \A j \in Conns : j # k => peer'[j] = peer[j] /\ link'[j] = link[j]
      /\ link'[k] = link[k] \/ (link[k] = "open" /\ link'[k] = "vanished")
      /\ peer[k] # "gone" /\ (link'[k] = "vanished" => peer'[k] = "gone")
  BY DEF PeerListens, PeerVanishes, TypeOK, ObtainsFit
<1>2. TypeOK'
  BY DEF TypeOK, PeerListens, PeerVanishes
<1>3. ObtainsFit'
  BY <1>1 DEF ObtainsFit, Listed
<1>4. WalkFits'
  <2>1. \A j \in Conns : Visited(j) => Visited(j)'
    BY <1>1 DEF Visited
  <2>2. \A n \in 1..Len(entries) : entries[n] \in Conns
    BY DEF TypeOK
  <2>3. QED
    BY <1>1, <2>1, <2>2 DEF WalkFits, Listed
<1>5. EntriesAreTheConnections'
  BY <1>1 DEF EntriesAreTheConnections
<1>6. QED
  BY <1>2, <1>3, <1>4, <1>5

\* A peer that has gone and whose connection was handed out has an entry, which goes
\* with the announcement.
LEMMA ConnectionClosedKeeps ==
  ASSUME IInv, NEW k \in Conns, ConnectionClosed(k)
  PROVE  IInv'
<1> USE DEF IInv, ConnectionClosed
<1>1. /\ link[k] = "vanished" /\ link' = [link EXCEPT ![k] = "closed"]
      /\ UNCHANGED <<peer, obtain, attempt, watched, closing, walk>>
      /\ announced[k] = 0
  BY DEF EntriesAreTheConnections, TypeOK
<1>2. \A j \in Conns : (link[j] = "closed" => link'[j] = "closed")
                       /\ (Visited(j) => Visited(j)')
  BY <1>1 DEF Visited, TypeOK
<1>3. CASE k \notin watched
  <2>1. UNCHANGED <<entries, announced, crash>> /\ missed' = missed \cup {k}
    BY <1>3
  <2>2. TypeOK'
    BY <1>1, <2>1 DEF TypeOK
  <2>3. ObtainsFit'
    BY <1>1, <2>1 DEF ObtainsFit, Listed, TypeOK
  <2>4. WalkFits'
    <3>1. \A n \in 1..Len(entries) : entries[n] \in Conns
      BY DEF TypeOK
    <3>2. QED
      BY <1>1, <1>2, <2>1, <3>1 DEF WalkFits, Listed
  <2>5. EntriesAreTheConnections'
    BY <1>1, <2>1 DEF EntriesAreTheConnections, TypeOK
  <2>6. QED
    BY <2>2, <2>3, <2>4, <2>5
<1>4. CASE k \in watched
  <2>1. Listed(k) /\ obtain[k] = "returned"
    BY <1>1, <1>4 DEF ObtainsFit, EntriesAreTheConnections, Listed
  <2>2. PICK n \in 1..Len(entries) :
            /\ entries[n] = k /\ entries' = RemoveAt(entries, n)
            /\ announced' = Announced(k) /\ UNCHANGED <<missed, crash>>
    BY <1>1, <1>4, <2>1 DEF ClosedByUs, Listed, IsEntryOf, Without
  <2>3. entries \in Seq(Conns) /\ Distinct(entries) /\ Len(entries) \in Nat
    BY DEF TypeOK, EntriesAreTheConnections, Distinct
  <2>4. /\ entries' \in Seq(Conns) /\ Len(entries') = Len(entries) - 1
        /\ Distinct(entries')
    BY <2>2, <2>3, RemovedAt, RemovedOnce
  <2>5. \A j \in Conns : Listed(j)' <=> Listed(j) /\ j # k
    BY <2>2, <2>3, RemovedOnce DEF Listed
  <2>6. TypeOK'
    <3>1. announced' \in [Conns -> Nat]
      <4>1. announced \in [Conns -> Nat]
        BY DEF TypeOK
      <4>2. announced' = announced \/ announced' = [announced EXCEPT ![k] = @ + 1]
        BY <2>2 DEF Announced
      <4>3. QED
        BY <4>1, <4>2
    <3>2. link' \in [Conns -> {"none", "open", "vanished", "closed"}]
      BY <1>1 DEF TypeOK
    <3>3. /\ UNCHANGED <<peer, obtain, attempt, watched, missed, closing, walk, crash>>
          /\ entries' \in Seq(Conns)
      BY <1>1, <2>2, <2>4
    <3>4. QED
      BY <3>1, <3>2, <3>3 DEF TypeOK
  <2>7. ObtainsFit'
    BY <1>1, <2>1, <2>2, <2>5 DEF ObtainsFit, TypeOK, Announced
  <2>8. WalkFits'
    <3>1. closing # "done"
      BY <2>2, <2>3 DEF WalkFits
    <3>2. Len(entries') < Len(entries)
      BY <2>3, <2>4
    <3>3. walk' = walk /\ closing' = closing /\ walk.size \in Nat
      BY <1>1 DEF TypeOK
    <3>4. ASSUME closing = "awaiting"
          PROVE  Len(entries') < walk.size
      BY <2>3, <2>4, <3>2, <3>3, <3>4 DEF WalkFits
    <3>5. ASSUME closing = "awaiting", walk.index = walk.size,
                 NEW j \in Conns, Listed(j)'
          PROVE  Visited(j)'
      BY <1>2, <2>5, <3>5 DEF WalkFits
    <3>6. Len(entries') \in Nat
      BY <2>4
    <3>7. QED
      BY <3>1, <3>3, <3>4, <3>5, <3>6 DEF WalkFits
  <2>9. EntriesAreTheConnections'
    <3>1. \A j \in Conns : Contains(entries', j) <=> Contains(entries, j) /\ j # k
      BY <2>5 DEF Listed
    <3>2. peer[k] = "gone"
      BY <1>1 DEF ObtainsFit
    <3>3. announced' = IF k \in AgentConns THEN [announced EXCEPT ![k] = @ + 1]
                                           ELSE announced
      BY <2>2 DEF Announced
    <3>4. \A m, l \in 1..Len(entries') : entries'[m] = entries'[l] => m = l
      BY <2>4 DEF Distinct
    <3>5. \A j \in Conns : j # k => link'[j] = link[j] /\ announced'[j] = announced[j]
      BY <1>1, <3>3 DEF TypeOK
    <3>6. link'[k] = "closed" /\ obtain' = obtain /\ watched' = watched /\ peer' = peer
          /\ crash' = crash
      BY <1>1, <2>2 DEF TypeOK
    <3>7. announced'[k] = (IF k \in AgentConns THEN 1 ELSE 0)
      BY <1>1, <3>3 DEF TypeOK
    <3>8. \A j \in Conns : obtain'[j] = "returned" /\ link'[j] \in {"open", "vanished"} =>
              Contains(entries', j) /\ j \in watched'
      BY <3>1, <3>5, <3>6 DEF EntriesAreTheConnections
    <3>9. \A j \in Conns : announced'[j] > 0 =>
              /\ announced'[j] = 1 /\ j \in AgentConns
              /\ peer'[j] = "gone" /\ link'[j] = "closed"
              /\ ~Contains(entries', j)
      BY <3>1, <3>2, <3>5, <3>6, <3>7 DEF EntriesAreTheConnections
    <3>10. QED
      BY <3>4, <3>6, <3>8, <3>9 DEF EntriesAreTheConnections
  <2>10. QED
    BY <2>6, <2>7, <2>8, <2>9
<1>5. QED
  BY <1>3, <1>4

\* The loop's next step: the end, where every connection in the list is closed, or the
\* failure of the assertion on the index, or the next connection.
LEMMA WalkFromKeeps ==
  ASSUME IInv, NEW index \in Nat, NEW size \in Nat, WalkFrom(index, size),
         UNCHANGED <<obtaining, watched, announced, missed>>,
         \A k \in Conns : obtain[k] \notin UnderWay,
         index <= size, Len(entries) <= size,
         Len(entries) = size =>
             \A n \in 1..Len(entries) : n <= index => link[entries[n]] = "closed",
         index = size => \A k \in Conns : Listed(k) => link[k] = "closed"
  PROVE  IInv'
<1> USE DEF IInv
<1>1. Len(entries) \in Nat /\ entries \in Seq(Conns)
  BY DEF TypeOK
<1>2. CASE /\ index >= size
           /\ closing' = "done" /\ entries' = <<>>
           /\ walk' = [index |-> index, size |-> size, awaited |-> {}]
           /\ UNCHANGED <<link, crash>>
  <2>1. index = size /\ \A k \in Conns : Listed(k) => link[k] = "closed"
    BY <1>2
  <2>2. Len(entries') = 0 /\ entries' \in Seq(Conns)
    BY <1>2
  <2>3. \A k \in Conns : ~Contains(entries', k)
    BY <2>2 DEF Contains
  <2>4. walk' \in [index : Nat, size : Nat, awaited : SUBSET Conns] /\ walk'.awaited = {}
    BY <1>2
  <2>5. TypeOK'
    BY <1>2, <2>2, <2>4 DEF TypeOK
  <2>6. ObtainsFit'
    BY <1>2, <2>3 DEF ObtainsFit, Listed
  <2>7. WalkFits'
    BY <1>2, <2>4 DEF WalkFits
  <2>8. EntriesAreTheConnections'
    BY <1>2, <2>1, <2>2, <2>3 DEF EntriesAreTheConnections, Listed
  <2>9. QED
    BY <2>5, <2>6, <2>7, <2>8
<1>3. CASE crash' = "index" /\ UNCHANGED <<closing, walk, entries, link>>
  <2>1. TypeOK' /\ ObtainsFit' /\ EntriesAreTheConnections'
    BY <1>3 DEF TypeOK, ObtainsFit, Listed, EntriesAreTheConnections
  <2>2. WalkFits'
    BY <1>3 DEF WalkFits, Listed, Visited
  <2>3. QED
    BY <2>1, <2>2
<1>4. ASSUME NEW k, k = entries[index + 1], index < size, index < Len(entries),
             closing' = "awaiting", UNCHANGED <<entries, crash>>,
             link' = [link EXCEPT ![k] = IF @ = "open" THEN "closed" ELSE @],
             walk' = [index |-> index + 1, size |-> size, awaited |-> {k}]
      PROVE  IInv'
  <2>1. index + 1 \in 1..Len(entries) /\ k \in Conns
    BY <1>1, <1>4
  <2>2. walk'.index = index + 1 /\ walk'.size = size /\ walk'.awaited = {k}
    BY <1>4
  <2>3. walk' \in [index : Nat, size : Nat, awaited : SUBSET Conns]
    <3>1. index + 1 \in Nat /\ {k} \in SUBSET Conns
      BY <2>1
    <3>2. QED
      BY <1>4, <3>1
  <2>4. link' \in [Conns -> {"none", "open", "vanished", "closed"}]
    BY <1>4, <2>1 DEF TypeOK
  <2>5. TypeOK'
    BY <1>4, <2>3, <2>4 DEF TypeOK
  <2>6. ObtainsFit'
    BY <1>4, <2>1 DEF ObtainsFit, Listed, TypeOK
  <2>7. \A j \in Conns : (link[j] = "closed" => Visited(j)') /\ (j = k => Visited(j)')
    BY <1>4, <2>1, <2>2 DEF Visited, TypeOK
  <2>8. WalkFits'
    <3>1. ASSUME Len(entries) = size, NEW n \in 1..Len(entries), n <= index + 1
          PROVE  Visited(entries[n])'
      <4>1. entries[n] \in Conns /\ entries' = entries
        BY <1>1, <1>4
      <4>2. n <= index => link[entries[n]] = "closed"
        BY <3>1
      <4>3. n > index => entries[n] = k
        <5>1. n > index => n = index + 1
          BY <3>1
        <5>2. QED
          BY <1>4, <5>1
      <4>4. n <= index \/ n > index
        BY <1>1
      <4>5. \A j \in Conns : j = entries[n] => Visited(j)'
        BY <2>7, <4>1, <4>2, <4>3, <4>4
      <4>6. PICK j \in Conns : j = entries[n] /\ Visited(j)'
        BY <4>1, <4>5
      <4>7. QED
        BY <4>1, <4>6 DEF Visited
    <3>2. ASSUME index + 1 = size, NEW j \in Conns, Listed(j)
          PROVE  Visited(j)'
      <4>1. Len(entries) = size
        BY <1>1, <1>4, <3>2
      <4>2. PICK n \in 1..Len(entries) : entries[n] = j
        BY <3>2 DEF Listed, Contains
      <4>3. n <= index + 1
        BY <1>1, <3>2, <4>1, <4>2
      <4>4. Visited(entries[n])'
        BY <3>1, <4>1, <4>3
      <4>5. QED
        BY <1>4, <4>2, <4>4 DEF Visited
    <3>3. walk'.index <= walk'.size /\ Len(entries') <= walk'.size
      BY <1>1, <1>4, <2>2
    <3>4. QED
      BY <1>4, <2>2, <3>1, <3>2, <3>3 DEF WalkFits, Listed
  <2>9. EntriesAreTheConnections'
    BY <1>4, <2>1 DEF EntriesAreTheConnections, TypeOK
  <2>10. QED
    BY <2>5, <2>6, <2>8, <2>9
<1>5. QED
  BY <1>2, <1>3, <1>4 DEF WalkFrom

LEMMA CloseKeeps ==
  ASSUME IInv, ObtainsWhileClosing = FALSE, Close
  PROVE  IInv'
<1>1. /\ entries \in Seq(Conns) /\ Len(entries) \in Nat
      /\ WalkFrom(0, Len(entries)) /\ UNCHANGED <<obtaining, watched, announced, missed>>
      /\ \A k \in Conns : obtain[k] \notin UnderWay
  BY DEF IInv, TypeOK, Close
<1>2. \A n \in 1..Len(entries) : ~(n <= 0)
  BY <1>1
<1>3. Len(entries) = 0 => \A k \in Conns : ~Listed(k)
  BY <1>1 DEF Listed, Contains
<1>4. QED
  BY <1>1, <1>2, <1>3, WalkFromKeeps

LEMMA EntryClosedKeeps ==
  ASSUME IInv, EntryClosed
  PROVE  IInv'
<1> USE DEF IInv
<1>1. /\ closing = "awaiting" /\ walk.index \in Nat /\ walk.size \in Nat
      /\ \A k \in walk.awaited : link[k] = "closed"
      /\ WalkFrom(walk.index, walk.size)
      /\ UNCHANGED <<obtaining, watched, announced, missed>>
  BY DEF EntryClosed, TypeOK
<1>2. \A k : Visited(k) => link[k] = "closed"
  BY <1>1 DEF Visited
<1>3. \A k \in Conns : obtain[k] \notin UnderWay
  BY <1>1 DEF ObtainsFit
<1>4. /\ walk.index <= walk.size /\ Len(entries) <= walk.size
      /\ Len(entries) = walk.size =>
             \A n \in 1..Len(entries) : n <= walk.index => link[entries[n]] = "closed"
      /\ walk.index = walk.size => \A k \in Conns : Listed(k) => link[k] = "closed"
  BY <1>1, <1>2 DEF WalkFits
<1>5. QED
  BY <1>1, <1>3, <1>4, WalkFromKeeps

LEMMA NextKeepsIInv ==
  ASSUME ObtainsWhileClosing = FALSE
  PROVE  IInv /\ [Next]_vars => IInv'
<1>1. ASSUME IInv, UNCHANGED vars
      PROVE  IInv'
  <2>1. TypeOK' /\ ObtainsFit' /\ EntriesAreTheConnections'
    BY <1>1 DEF vars, IInv, TypeOK, ObtainsFit, Listed, EntriesAreTheConnections
  <2>2. WalkFits'
    BY <1>1 DEF vars, IInv, WalkFits, Listed, Visited
  <2>3. QED
    BY <2>1, <2>2 DEF IInv
<1>2. ASSUME IInv, Next
      PROVE  IInv'
  BY <1>2, TriesKeep, ConnectedKeeps, ObtainedKeeps, PeersKeep, ConnectionClosedKeeps,
     CloseKeeps, EntryClosedKeeps
     DEF Next, HostSteps, PeerSteps
<1>3. QED
  BY <1>1, <1>2

LEMMA IInvHolds ==
  ASSUME ObtainsWhileClosing = FALSE
  PROVE  Spec => []IInv
  BY InitEstablishesIInv, NextKeepsIInv, PTL DEF Spec

-----------------------------------------------------------------------------
\* The list holds every connection that was handed out and is not closed, once, an
\* agent's end is announced once and only when this end has not closed it, and the
\* assertion on the entry of a connection that vanishes holds, whenever peers vanish
\* while close walks the list: as long as nothing is obtained while it does.
THEOREM ListIsTheConnections ==
  ASSUME ObtainsWhileClosing = FALSE
  PROVE  Spec => []EntriesAreTheConnections
<1>1. IInv => EntriesAreTheConnections
  BY DEF IInv
<1>2. QED
  BY IInvHolds, <1>1, PTL

-----------------------------------------------------------------------------
(* DBusHostSession, whatever obtains overlap close.                        *)

\* What the loop and the entries that come behind it cannot upset: a connection has one
\* entry, and an agent's end is announced once, when the agent is gone and this end has
\* not closed the connection; the entry goes with the announcement.
EndsAnnouncedOnce ==
    /\ \A m, n \in 1..Len(entries) : entries[m] = entries[n] => m = n
    /\ \A k \in Conns : announced[k] > 0 =>
           /\ announced[k] = 1 /\ k \in AgentConns
           /\ peer[k] = "gone" /\ link[k] = "closed"
           /\ ~Contains(entries, k)

\* What has an entry or was announced has been obtained.
ObtainsGoFirst ==
    /\ \A k \in Conns : Listed(k) \/ announced[k] > 0 => obtain[k] = "returned"
    /\ \A k \in Conns : obtain[k] = "sleeping" => attempt[k] # MaxAttempts
    /\ \A k \in Conns : link[k] = "vanished" => peer[k] = "gone"

OverlapInv == TypeOK /\ ObtainsGoFirst /\ EndsAnnouncedOnce

LEMMA OverlapTriesKeep ==
  ASSUME OverlapInv, NEW k \in Conns,
         Obtain(k) \/ PortConnected(k) \/ Refused(k) \/ Fails(k) \/ TriesNext(k) \/ Connected(k)
  PROVE  OverlapInv'
<1> USE DEF OverlapInv
<1>1. /\ UNCHANGED <<peer, watched, entries, announced, missed, closing, walk, crash>>
      /\ obtain[k] # "returned"
      /\ link' = link \/ link' = [link EXCEPT ![k] = "open"]
  BY DEF Obtain, PortConnected, Connected, Refused, Fails, TriesNext
<1>2. /\ obtain \in [Conns -> UnderWay \cup {"idle", "returned", "timed_out", "failed"}]
      /\ attempt \in [Conns -> 0..MaxAttempts]
      /\ link \in [Conns -> {"none", "open", "vanished", "closed"}]
  BY DEF TypeOK
<1>3. /\ obtain' \in [Conns -> UnderWay \cup {"idle", "returned", "timed_out", "failed"}]
      /\ attempt' \in [Conns -> 0..MaxAttempts]
      /\ \A j \in Conns : j # k => obtain'[j] = obtain[j] /\ attempt'[j] = attempt[j]
      /\ obtain'[k] = "sleeping" => attempt'[k] # MaxAttempts
  <2>1. CASE Obtain(k)
    BY <1>2, <2>1 DEF Obtain, Goto
  <2>2. CASE PortConnected(k) \/ Connected(k)
    BY <1>2, <2>2 DEF PortConnected, Connected, Goto
  <2>3. CASE Refused(k)
    BY <1>2, <2>3 DEF Refused, Goto, TriesAgain
  <2>4. CASE Fails(k)
    BY <1>2, <2>4 DEF Fails, Goto
  <2>5. CASE TriesNext(k)
    BY <1>2, <2>5 DEF TriesNext, NextAttempt, Goto, ObtainsGoFirst
  <2>6. QED
    BY <2>1, <2>2, <2>3, <2>4, <2>5
<1>4. /\ link' \in [Conns -> {"none", "open", "vanished", "closed"}]
      /\ \A j \in Conns : j # k => link'[j] = link[j]
      /\ link'[k] = link[k] \/ link'[k] = "open"
  BY <1>1, <1>2
<1>5. TypeOK'
  BY <1>1, <1>3, <1>4 DEF TypeOK
<1>6. ~Listed(k) /\ ~(announced[k] > 0)
  BY <1>1 DEF ObtainsGoFirst
<1>7. \A j \in Conns : Listed(j)' <=> Listed(j)
  BY <1>1 DEF Listed
<1>8. ObtainsGoFirst'
  BY <1>1, <1>3, <1>4, <1>6, <1>7 DEF ObtainsGoFirst
<1>9. EndsAnnouncedOnce'
  BY <1>1, <1>4, <1>6 DEF EndsAnnouncedOnce
<1>10. QED
  BY <1>5, <1>8, <1>9

LEMMA OverlapObtainedKeeps ==
  ASSUME OverlapInv, NEW k \in Conns, Obtained(k)
  PROVE  OverlapInv'
<1> USE DEF OverlapInv, Obtained, Goto, Watch
<1>1. entries \in Seq(Conns) /\ entries' = Append(entries, k)
  BY DEF TypeOK
<1>2. \A j \in Conns : Contains(entries', j) <=> Contains(entries, j) \/ j = k
  BY <1>1, AppendedOnce
<1>3. obtain[k] = "connected" /\ ~Contains(entries, k) /\ ~(announced[k] > 0)
  BY DEF ObtainsGoFirst, Listed
<1>4. TypeOK'
  BY <1>1, AppendProperties DEF TypeOK
<1>5. ObtainsGoFirst'
  BY <1>2, <1>3 DEF ObtainsGoFirst, Listed, TypeOK
<1>6. EndsAnnouncedOnce'
  <2>1. Distinct(entries)
    BY DEF EndsAnnouncedOnce, Distinct
  <2>2. Distinct(entries')
    BY <1>1, <1>3, <2>1, AppendedOnce
  <2>3. QED
    BY <1>2, <1>3, <2>2 DEF EndsAnnouncedOnce, Distinct
<1>7. QED
  BY <1>4, <1>5, <1>6

LEMMA OverlapPeersKeep ==
  ASSUME OverlapInv, NEW k \in Conns, PeerListens(k) \/ PeerVanishes(k)
  PROVE  OverlapInv'
<1> USE DEF OverlapInv
<1>1. /\ UNCHANGED <<obtain, attempt, watched, entries, announced, missed, closing, walk, crash>>
      /\ \A j \in Conns : j # k => peer'[j] = peer[j] /\ link'[j] = link[j]
      /\ link'[k] = link[k] \/ (link[k] = "open" /\ link'[k] = "vanished")
      /\ peer[k] # "gone" /\ (link'[k] = "vanished" => peer'[k] = "gone")
  BY DEF PeerListens, PeerVanishes, TypeOK, ObtainsGoFirst
<1>2. TypeOK'
  BY DEF TypeOK, PeerListens, PeerVanishes
<1>3. ObtainsGoFirst' /\ EndsAnnouncedOnce'
  BY <1>1 DEF ObtainsGoFirst, Listed, EndsAnnouncedOnce
<1>4. QED
  BY <1>2, <1>3

LEMMA OverlapConnectionClosedKeeps ==
  ASSUME OverlapInv, NEW k \in Conns, ConnectionClosed(k)
  PROVE  OverlapInv'
<1> USE DEF OverlapInv, ConnectionClosed
<1>1. /\ link[k] = "vanished" /\ link' = [link EXCEPT ![k] = "closed"]
      /\ peer[k] = "gone" /\ ~(announced[k] > 0)
      /\ UNCHANGED <<peer, obtain, attempt, watched, closing, walk>>
  BY DEF ObtainsGoFirst, EndsAnnouncedOnce
<1>2. /\ link' \in [Conns -> {"none", "open", "vanished", "closed"}] /\ link'[k] = "closed"
      /\ \A j \in Conns : j # k => link'[j] = link[j]
  BY <1>1 DEF TypeOK
<1>3. CASE UNCHANGED <<entries, announced>>
  <2>1. missed' \subseteq Conns /\ crash' \in {"no", "entry_to_remove", "index"}
    BY <1>3 DEF TypeOK
  <2>2. TypeOK'
    BY <1>1, <1>2, <1>3, <2>1 DEF TypeOK
  <2>3. ObtainsGoFirst' /\ EndsAnnouncedOnce'
    BY <1>1, <1>2, <1>3 DEF ObtainsGoFirst, Listed, EndsAnnouncedOnce
  <2>4. QED
    BY <2>2, <2>3
<1>4. ASSUME NEW n \in 1..Len(entries), entries[n] = k, entries' = RemoveAt(entries, n),
             announced' = Announced(k), UNCHANGED <<missed, crash>>
      PROVE  OverlapInv'
  <2>1. entries \in Seq(Conns) /\ Distinct(entries) /\ announced \in [Conns -> Nat]
    BY DEF TypeOK, EndsAnnouncedOnce, Distinct
  <2>2. entries' \in Seq(Conns) /\ Distinct(entries')
    BY <1>4, <2>1, RemovedAt, RemovedOnce
  <2>3. \A j \in Conns : Contains(entries', j) <=> Contains(entries, j) /\ j # k
    BY <1>4, <2>1, RemovedOnce
  <2>4. /\ announced' \in [Conns -> Nat]
        /\ \A j \in Conns : j # k => announced'[j] = announced[j]
        /\ announced'[k] > 0 => announced'[k] = 1 /\ k \in AgentConns
    <3>1. announced[k] = 0
      BY <1>1, <2>1
    <3>2. CASE k \in AgentConns
      BY <1>4, <2>1, <3>1, <3>2 DEF Announced
    <3>3. CASE k \notin AgentConns
      BY <1>4, <2>1, <3>1, <3>3 DEF Announced
    <3>4. QED
      BY <3>2, <3>3
  <2>5. TypeOK'
    BY <1>1, <1>2, <1>4, <2>2, <2>4 DEF TypeOK
  <2>6. obtain[k] = "returned"
    BY <1>4 DEF ObtainsGoFirst, Listed, Contains
  <2>7. ObtainsGoFirst'
    BY <1>1, <1>2, <2>3, <2>4, <2>6 DEF ObtainsGoFirst, Listed
  <2>8. EndsAnnouncedOnce'
    BY <1>1, <1>2, <2>2, <2>3, <2>4 DEF EndsAnnouncedOnce, Distinct
  <2>9. QED
    BY <2>5, <2>7, <2>8
<1>5. CASE \E n \in 1..Len(entries) :
                /\ IsEntryOf(n, k) /\ entries' = Without(n)
                /\ announced' = Announced(k) /\ UNCHANGED <<missed, crash>>
  BY <1>4, <1>5 DEF Without, IsEntryOf
<1>6. \/ UNCHANGED <<entries, announced>>
      \/ \E n \in 1..Len(entries) :
             /\ IsEntryOf(n, k) /\ entries' = Without(n)
             /\ announced' = Announced(k) /\ UNCHANGED <<missed, crash>>
  OBVIOUS
<1>7. QED
  BY <1>3, <1>5, <1>6

LEMMA OverlapCloseKeeps ==
  ASSUME OverlapInv, Close \/ EntryClosed
  PROVE  OverlapInv'
<1> USE DEF OverlapInv
<1>1. /\ entries \in Seq(Conns) /\ Len(entries) \in Nat
      /\ UNCHANGED <<obtaining, watched, announced, missed>>
  BY DEF TypeOK, Close, EntryClosed
<1>2. PICK index \in Nat, size \in Nat : WalkFrom(index, size)
  <2>1. CASE Close
    BY <1>1, <2>1 DEF Close
  <2>2. CASE EntryClosed
    BY <2>2 DEF EntryClosed, TypeOK
  <2>3. QED
    BY <2>1, <2>2
<1>3. CASE /\ closing' = "done" /\ entries' = <<>>
           /\ walk' = [index |-> index, size |-> size, awaited |-> {}]
           /\ UNCHANGED <<link, crash>>
  <2>1. Len(entries') = 0 /\ entries' \in Seq(Conns) /\ \A k : ~Contains(entries', k)
    BY <1>3 DEF Contains
  <2>2. walk' \in [index : Nat, size : Nat, awaited : SUBSET Conns]
    BY <1>3
  <2>3. TypeOK'
    BY <1>1, <1>3, <2>1, <2>2 DEF TypeOK
  <2>4. ObtainsGoFirst' /\ EndsAnnouncedOnce'
    BY <1>1, <1>3, <2>1 DEF ObtainsGoFirst, Listed, EndsAnnouncedOnce
  <2>5. QED
    BY <2>3, <2>4
<1>4. CASE crash' = "index" /\ UNCHANGED <<closing, walk, entries, link>>
  <2>1. TypeOK'
    BY <1>1, <1>4 DEF TypeOK
  <2>2. ObtainsGoFirst' /\ EndsAnnouncedOnce'
    BY <1>1, <1>4 DEF ObtainsGoFirst, Listed, EndsAnnouncedOnce
  <2>3. QED
    BY <2>1, <2>2
<1>5. ASSUME NEW k, k = entries[index + 1], index < Len(entries),
             closing' = "awaiting", UNCHANGED <<entries, crash>>,
             link' = [link EXCEPT ![k] = IF @ = "open" THEN "closed" ELSE @],
             walk' = [index |-> index + 1, size |-> size, awaited |-> {k}]
      PROVE  OverlapInv'
  <2>1. k \in Conns
    <3>1. index + 1 \in 1..Len(entries)
      BY <1>1, <1>5
    <3>2. QED
      BY <1>1, <1>5, <3>1
  <2>2. walk' \in [index : Nat, size : Nat, awaited : SUBSET Conns]
    <3>1. index + 1 \in Nat /\ {k} \in SUBSET Conns
      BY <2>1
    <3>2. QED
      BY <1>5, <3>1
  <2>3. /\ link' \in [Conns -> {"none", "open", "vanished", "closed"}]
        /\ \A j \in Conns : link'[j] = link[j] \/ link'[j] = "closed"
    BY <1>5, <2>1 DEF TypeOK
  <2>4. TypeOK'
    BY <1>1, <1>5, <2>2, <2>3 DEF TypeOK
  <2>5. ObtainsGoFirst' /\ EndsAnnouncedOnce'
    BY <1>1, <1>5, <2>3 DEF ObtainsGoFirst, Listed, EndsAnnouncedOnce
  <2>6. QED
    BY <2>4, <2>5
<1>6. QED
  BY <1>2, <1>3, <1>4, <1>5 DEF WalkFrom

LEMMA OverlapInvHolds == Spec => []OverlapInv
<1>1. Init => OverlapInv
  <2> SUFFICES ASSUME Init PROVE OverlapInv
    OBVIOUS
  <2>1. entries \in Seq(Conns) /\ Len(entries) = 0 /\ \A k : ~Contains(entries, k)
    BY DEF Init, Contains
  <2>2. TypeOK
    BY <2>1 DEF Init, TypeOK
  <2>3. ObtainsGoFirst /\ EndsAnnouncedOnce
    BY <2>1 DEF Init, ObtainsGoFirst, EndsAnnouncedOnce, Listed
  <2>4. QED
    BY <2>2, <2>3 DEF OverlapInv
<1>2. OverlapInv /\ [Next]_vars => OverlapInv'
  <2>1. ASSUME OverlapInv, UNCHANGED vars
        PROVE  OverlapInv'
    BY <2>1 DEF vars, OverlapInv, TypeOK, ObtainsGoFirst, Listed, EndsAnnouncedOnce
  <2>2. ASSUME OverlapInv, Next
        PROVE  OverlapInv'
    BY <2>2, OverlapTriesKeep, OverlapObtainedKeeps, OverlapPeersKeep,
       OverlapConnectionClosedKeeps, OverlapCloseKeeps DEF Next, HostSteps, PeerSteps
  <2>3. QED
    BY <2>1, <2>2
<1>3. QED
  BY <1>1, <1>2, PTL DEF Spec

\* The state of the host session is always of its type, also when obtain_agent_session
\* overlaps close.
THEOREM HostTypeCorrect == Spec => []TypeOK
<1>1. OverlapInv => TypeOK
  BY DEF OverlapInv
<1>2. QED
  BY OverlapInvHolds, <1>1, PTL

\* Whatever obtain_agent_session and close overlap: agent_session_closed is emitted once at
\* most for a session, only when the agent has gone without this end closing it, and the
\* session is not in the list from then on; nor is any session ever in it twice.
THEOREM EndsAreAnnouncedOnce == Spec => []EndsAnnouncedOnce
<1>1. OverlapInv => EndsAnnouncedOnce
  BY DEF OverlapInv
<1>2. QED
  BY OverlapInvHolds, <1>1, PTL

-----------------------------------------------------------------------------
(* WinIpcProxy.  The strengthening of MessagesAreServedOnce that is inductive. *)

\* The pipe is connected only while both ends have it open and neither has closed, and
\* nobody reads before; the server's end is open as long as the pipe waits for a client.
EndsFit ==
    /\ \A p \in Peers : reading[p] => namedPipe \in {"connected", "broken"}
    /\ \A p \in Peers : reading[p] /\ ~pipe[p] => hasBeenClosed[p]
    /\ namedPipe = "connected" => \A p \in Peers : pipe[p] /\ ~hasBeenClosed[p]
    /\ namedPipe = "listening" => pipe["server"] /\ ~hasBeenClosed["server"]

\* closed is emitted once, by the end that closes first with nobody to blame, and then
\* by the other; and the wait for a client ends once.
ClosingFits ==
    /\ \A p \in Peers : signals[p] \in {<<>>, <<FALSE>>, <<TRUE>>}
    /\ \A p \in Peers : hasBeenClosed[p] <=> signals[p] # <<>>
    /\ \A p \in Peers : signals[p] = <<TRUE>> => signals[Other(p)] = <<FALSE>>
    /\ namedPipe = "broken" =>
           \A p \in Peers : hasBeenClosed[p] \/ signals[Other(p)] = <<FALSE>>
    /\ phase["server"] = "new" => completions = 0 /\ sources = {}
    /\ sources # {} => completions = 0 /\ phase["server"] = "connecting"

\* Request ids go up, and a query waits exactly while its response is pending.
QueriesFit ==
    \A p \in Peers, i \in Ids :
        /\ i >= lastRequest[p] => result[p][i] = NotAsked /\ handled[p][i] = 0
        /\ i \in pending[p] => result[p][i] = Waiting /\ i < lastRequest[p]
        /\ result[p][i].status = "returned" => result[p][i].from = i

Has(s, type, i) == \E n \in 1..Len(s) : s[n].type = type /\ s[n].id = i
OneAtMost(s, type, i) ==
    \A m, n \in 1..Len(s) :
        s[m].type = type /\ s[m].id = i /\ s[n].type = type /\ s[n].id = i => m = n

\* A query that waits is at one place at most: its request is on its way, its handler is
\* at work, or its response is on its way, which says whether it was handled.
CallFits(p, i) ==
    /\ OneAtMost(chan[Other(p)], "request", i) /\ OneAtMost(chan[p], "response", i)
    /\ Has(chan[Other(p)], "request", i) =>
           /\ i \in pending[p] /\ handled[p][i] = 0
           /\ i \notin busy[Other(p)] /\ ~Has(chan[p], "response", i)
    /\ i \in busy[Other(p)] =>
           /\ i \in pending[p] /\ handled[p][i] > 0 /\ ~Has(chan[p], "response", i)
    /\ Has(chan[p], "response", i) => i \in pending[p]
    /\ \A n \in 1..Len(chan[p]) : chan[p][n].type = "response" /\ chan[p][n].id = i =>
           (chan[p][n].success <=> handled[p][i] > 0)

MessagesFit == \A p \in Peers, i \in Ids : CallFits(p, i)

\* Notifications are numbered as they are emitted: those on their way in their order, and
\* after all that were heard.
NotesIn(s) == {s[n].number : n \in {m \in 1..Len(s) : s[m].type = "notify"}}
Rising(s) ==
    \A m, n \in 1..Len(s) :
        m < n /\ s[m].type = "notify" /\ s[n].type = "notify" => s[m].number < s[n].number

NotesFit ==
    \A p \in Peers :
        /\ Rising(chan[p])
        /\ \A k \in NotesIn(chan[p]) : k <= emitted[Other(p)]
        /\ \A n \in 1..Len(heard[p]) :
               /\ heard[p][n] <= emitted[Other(p)]
               /\ \A k \in NotesIn(chan[p]) : heard[p][n] < k
        /\ \A m, n \in 1..Len(heard[p]) : m < n => heard[p][m] < heard[p][n]

ProxyInv ==
    ProxyOK /\ EndsFit /\ ClosingFits /\ QueriesFit /\ MessagesFit /\ NotesFit

-----------------------------------------------------------------------------
HIDE DEF obtaining, listed, closes, UnderWay
USE BoundsAreNat, VerbsAreKnown, HandlersAreKnown
USE DEF pipe_vars, query_vars, handler_vars, notify_vars, Peers

Messages == Requests \cup Responses \cup Notifications

LEMMA PeersAreTwo ==
  /\ \A p \in Peers : Other(p) \in Peers /\ Other(p) # p /\ Other(Other(p)) = p
  /\ \A p, q \in Peers : q # p => q = Other(p)
  BY DEF Other

LEMMA IdsAreNat ==
  /\ \A i \in Ids : i \in Nat \ {0}
  /\ \A p \in Peers, i \in Nat \ {0} : i <= MaxQueries(p) => i \in Ids
  BY DEF Ids, MaxQueries

(* What reading and writing do to the messages on their way.               *)

\* t is s without its beginning or its end.
PartOf(t, s) ==
    \E d \in 0..1 : \A n \in 1..Len(t) : n + d \in 1..Len(s) /\ t[n] = s[n + d]

LEMMA PartsOfMessages ==
  ASSUME NEW s \in Seq(Messages)
  PROVE  /\ PartOf(s, s)
         /\ s # <<>> => Tail(s) \in Seq(Messages) /\ PartOf(Tail(s), s)
         /\ \A k \in {0, 1} : LET t == SubSeq(s, 1, IF s = <<>> THEN 0 ELSE k)
                              IN  t \in Seq(Messages) /\ PartOf(t, s)
<1>1. Len(s) \in Nat
  OBVIOUS
<1>2. PartOf(s, s)
  BY <1>1 DEF PartOf
<1>3. ASSUME s # <<>> PROVE Tail(s) \in Seq(Messages) /\ PartOf(Tail(s), s)
  <2>1. /\ Tail(s) \in Seq(Messages) /\ Len(Tail(s)) = Len(s) - 1
        /\ \A n \in 1..Len(Tail(s)) : Tail(s)[n] = s[n + 1]
    BY <1>3, HeadTailProperties
  <2>2. \A n \in 1..Len(Tail(s)) : n + 1 \in 1..Len(s) /\ Tail(s)[n] = s[n + 1]
    BY <1>1, <2>1
  <2>3. QED
    BY <2>1, <2>2 DEF PartOf
<1>4. ASSUME NEW k \in {0, 1}
      PROVE  LET t == SubSeq(s, 1, IF s = <<>> THEN 0 ELSE k)
             IN  t \in Seq(Messages) /\ PartOf(t, s)
  <2> DEFINE j == IF s = <<>> THEN 0 ELSE k
             t == SubSeq(s, 1, j)
  <2>1. j \in 0..Len(s)
    <3>1. s # <<>> => Len(s) >= 1
      BY <1>1, EmptySeq
    <3>2. QED
      BY <1>1, <3>1
  <2>2. /\ t \in Seq(Messages) /\ Len(t) = j
        /\ \A n \in 1..j : t[n] = s[n]
    <3> HIDE DEF j
    <3>1. 1 \in 1..Len(s) + 1 /\ j \in 1 - 1..Len(s)
      BY <1>1, <2>1
    <3>2. QED
      BY <1>1, <2>1, <3>1, SubSeqProperties
  <2> HIDE DEF t
  <2>3. \A n \in 1..Len(t) : n + 0 \in 1..Len(s) /\ t[n] = s[n + 0]
    BY <1>1, <2>1, <2>2
  <2>4. PartOf(t, s)
    BY <2>3 DEF PartOf
  <2>5. QED
    BY <2>2, <2>4 DEF t
<1>5. QED
  BY <1>2, <1>3, <1>4

LEMMA PartsHaveNoMore ==
  ASSUME NEW s \in Seq(Messages), NEW t \in Seq(Messages), PartOf(t, s)
  PROVE  /\ \A i, type : Has(t, type, i) => Has(s, type, i)
         /\ \A i, type : OneAtMost(s, type, i) => OneAtMost(t, type, i)
         /\ \A n \in 1..Len(t) : \E m \in 1..Len(s) : t[n] = s[m]
         /\ NotesIn(t) \subseteq NotesIn(s)
         /\ Rising(s) => Rising(t)
<1>1. PICK d \in 0..1 : \A n \in 1..Len(t) : n + d \in 1..Len(s) /\ t[n] = s[n + d]
  BY DEF PartOf
<1>2. Len(t) \in Nat /\ Len(s) \in Nat
  OBVIOUS
<1>3. \A i, type : Has(t, type, i) => Has(s, type, i)
  BY <1>1 DEF Has
<1>4. ASSUME NEW i, NEW type, OneAtMost(s, type, i) PROVE OneAtMost(t, type, i)
  <2> SUFFICES ASSUME NEW m \in 1..Len(t), NEW n \in 1..Len(t),
                      t[m].type = type, t[m].id = i, t[n].type = type, t[n].id = i
               PROVE  m = n
    BY DEF OneAtMost
  <2>1. m + d = n + d
    BY <1>1, <1>4 DEF OneAtMost
  <2>2. QED
    BY <1>2, <2>1
<1>5. NotesIn(t) \subseteq NotesIn(s)
  BY <1>1 DEF NotesIn
<1>6. ASSUME Rising(s) PROVE Rising(t)
  <2> SUFFICES ASSUME NEW m \in 1..Len(t), NEW n \in 1..Len(t), m < n,
                      t[m].type = "notify", t[n].type = "notify"
               PROVE  t[m].number < t[n].number
    BY DEF Rising
  <2>1. m + d < n + d
    BY <1>2
  <2>2. QED
    BY <1>1, <1>6, <2>1 DEF Rising
<1>7. QED
  BY <1>1, <1>3, <1>4, <1>5, <1>6

\* What the head was is not in the tail.
LEMMA HeadIsTaken ==
  ASSUME NEW s \in Seq(Messages), s # <<>>
  PROVE  /\ Head(s) \in Messages
         /\ \A i, type : Head(s).type = type /\ Head(s).id = i =>
                Has(s, type, i) /\ (OneAtMost(s, type, i) => ~Has(Tail(s), type, i))
         /\ Head(s).type = "notify" =>
                /\ Head(s).number \in NotesIn(s)
                /\ Rising(s) => \A k \in NotesIn(Tail(s)) : Head(s).number < k
<1>1. /\ Len(s) \in Nat /\ Len(s) >= 1 /\ Head(s) = s[1]
      /\ Len(Tail(s)) = Len(s) - 1 /\ \A n \in 1..Len(Tail(s)) : Tail(s)[n] = s[n + 1]
  BY EmptySeq, HeadTailProperties
<1>2. 1 \in 1..Len(s) /\ Head(s) \in Messages
  BY <1>1
<1>3. \A n \in 1..Len(Tail(s)) : n + 1 \in 1..Len(s) /\ n + 1 # 1 /\ 1 < n + 1
  BY <1>1
<1>4. ASSUME NEW i, NEW type, Head(s).type = type, Head(s).id = i
      PROVE  Has(s, type, i) /\ (OneAtMost(s, type, i) => ~Has(Tail(s), type, i))
  BY <1>1, <1>2, <1>3, <1>4 DEF Has, OneAtMost
<1>5. ASSUME Head(s).type = "notify"
      PROVE  /\ Head(s).number \in NotesIn(s)
             /\ Rising(s) => \A k \in NotesIn(Tail(s)) : Head(s).number < k
  <2>1. Head(s).number \in NotesIn(s)
    BY <1>1, <1>2, <1>5 DEF NotesIn
  <2>2. ASSUME Rising(s), NEW k \in NotesIn(Tail(s)) PROVE Head(s).number < k
    <3>1. PICK n \in 1..Len(Tail(s)) : Tail(s)[n].type = "notify" /\ k = Tail(s)[n].number
      BY DEF NotesIn
    <3>2. QED
      BY <1>1, <1>2, <1>3, <1>5, <2>2, <3>1 DEF Rising
  <2>3. QED
    BY <2>1, <2>2
<1>6. QED
  BY <1>2, <1>4, <1>5

LEMMA WrittenIsLast ==
  ASSUME NEW s \in Seq(Messages), NEW m \in Messages
  PROVE  LET t == s \o <<m>>
         IN  /\ t \in Seq(Messages)
             /\ \A i, type : Has(t, type, i) <=>
                    Has(s, type, i) \/ (m.type = type /\ m.id = i)
             /\ \A i, type : OneAtMost(s, type, i)
                             /\ ~(m.type = type /\ m.id = i /\ Has(s, type, i))
                    => OneAtMost(t, type, i)
             /\ \A n \in 1..Len(t) : t[n] = m \/ \E l \in 1..Len(s) : t[n] = s[l]
             /\ NotesIn(t) = NotesIn(s) \cup (IF m.type = "notify" THEN {m.number} ELSE {})
             /\ Rising(s) /\ (m.type = "notify" => \A k \in NotesIn(s) : k < m.number)
                    => Rising(t)
<1> DEFINE t == s \o <<m>>
<1>1. /\ t \in Seq(Messages) /\ Len(t) = Len(s) + 1 /\ Len(s) \in Nat
      /\ \A n \in 1..Len(s) : t[n] = s[n]
      /\ t[Len(s) + 1] = m
  <2>1. t = Append(s, m)
    BY AppendIsConcat
  <2> HIDE DEF t
  <2>2. QED
    BY <2>1, AppendProperties
<1> HIDE DEF t
<1>2. /\ \A n \in 1..Len(t) : n \in 1..Len(s) \/ n = Len(s) + 1
      /\ \A n \in 1..Len(s) : n \in 1..Len(t) /\ n < Len(s) + 1
      /\ Len(s) + 1 \in 1..Len(t)
  BY <1>1
<1>3. \A i, type : Has(t, type, i) <=> Has(s, type, i) \/ (m.type = type /\ m.id = i)
  BY <1>1, <1>2 DEF Has
<1>4. ASSUME NEW i, NEW type, OneAtMost(s, type, i),
             ~(m.type = type /\ m.id = i /\ Has(s, type, i))
      PROVE  OneAtMost(t, type, i)
  BY <1>1, <1>2, <1>4 DEF OneAtMost, Has
<1>5. \A n \in 1..Len(t) : t[n] = m \/ \E l \in 1..Len(s) : t[n] = s[l]
  BY <1>1, <1>2
<1>6. NotesIn(t) = NotesIn(s) \cup (IF m.type = "notify" THEN {m.number} ELSE {})
  <2>1. \A k : k \in NotesIn(t) <=>
                   \E n \in 1..Len(t) : t[n].type = "notify" /\ k = t[n].number
    BY DEF NotesIn
  <2>2. \A k : k \in NotesIn(s) <=>
                   \E n \in 1..Len(s) : s[n].type = "notify" /\ k = s[n].number
    BY DEF NotesIn
  <2>3. \A k : k \in NotesIn(t) <=> k \in NotesIn(s) \/ (m.type = "notify" /\ k = m.number)
    BY <1>1, <1>2, <2>1, <2>2
  <2>4. QED
    BY <2>3
<1>7. ASSUME Rising(s), m.type = "notify" => \A k \in NotesIn(s) : k < m.number
      PROVE  Rising(t)
  <2> SUFFICES ASSUME NEW l \in 1..Len(t), NEW n \in 1..Len(t), l < n,
                      t[l].type = "notify", t[n].type = "notify"
               PROVE  t[l].number < t[n].number
    BY DEF Rising
  <2>1. l \in 1..Len(s)
    BY <1>1
  <2>2. CASE n \in 1..Len(s)
    BY <1>1, <1>7, <2>1, <2>2 DEF Rising
  <2>3. CASE n = Len(s) + 1
    <3>1. t[l].number \in NotesIn(s)
      BY <1>1, <2>1 DEF NotesIn
    <3>2. QED
      BY <1>1, <1>7, <2>3, <3>1
  <2>4. QED
    BY <1>2, <2>2, <2>3
<1>8. QED
  BY <1>1, <1>3, <1>4, <1>5, <1>6, <1>7 DEF t

(* Steps that leave the messages alone, or only take some away.            *)

\* No call gets anything new on its way.
LEMMA NothingNewKeepsMessages ==
  ASSUME MessagesFit, UNCHANGED <<pending, busy, handled>>,
         \A q \in Peers, i \in Ids, type \in {"request", "response"} :
             /\ Has(chan'[q], type, i) => Has(chan[q], type, i)
             /\ OneAtMost(chan[q], type, i) => OneAtMost(chan'[q], type, i),
         \A q \in Peers : \A n \in 1..Len(chan'[q]) : chan'[q][n].type = "response" =>
             \E m \in 1..Len(chan[q]) : chan'[q][n] = chan[q][m]
  PROVE  MessagesFit'
<1> SUFFICES ASSUME NEW p \in Peers, NEW i \in Ids PROVE CallFits(p, i)'
  BY DEF MessagesFit
<1>1. CallFits(p, i) /\ Other(p) \in Peers
  BY PeersAreTwo DEF MessagesFit
<1>2. \A n \in 1..Len(chan'[p]) : chan'[p][n].type = "response" /\ chan'[p][n].id = i =>
          (chan'[p][n].success <=> handled'[p][i] > 0)
  <2> SUFFICES ASSUME NEW n \in 1..Len(chan'[p]), chan'[p][n].type = "response",
                      chan'[p][n].id = i
               PROVE  chan'[p][n].success <=> handled'[p][i] > 0
    OBVIOUS
  <2>1. PICK m \in 1..Len(chan[p]) : chan'[p][n] = chan[p][m]
    OBVIOUS
  <2>2. QED
    BY <1>1, <2>1 DEF CallFits
<1>3. QED
  BY <1>1, <1>2 DEF CallFits

LEMMA QuietKeepsMessages ==
  ASSUME ProxyInv, UNCHANGED <<chan, query_vars, notify_vars>>
  PROVE  QueriesFit' /\ MessagesFit' /\ NotesFit'
  BY DEF ProxyInv, QueriesFit, MessagesFit, CallFits, NotesFit

\* A message that is read: the loop goes on unless the pipe has been closed.
LEMMA ReadingGoesOn ==
  ASSUME ProxyInv, NEW p \in Peers, reading[p], UNCHANGED pipe_vars,
         reading' = [reading EXCEPT ![p] = pipe[p]]
  PROVE  EndsFit' /\ ClosingFits' /\ reading' \in [Peers -> BOOLEAN]
<1>1. reading \in [Peers -> BOOLEAN] /\ pipe \in [Peers -> BOOLEAN]
  BY DEF ProxyInv, ProxyOK
<1>2. reading' \in [Peers -> BOOLEAN] /\ reading'[p] = pipe[p]
      /\ \A q \in Peers : q # p => reading'[q] = reading[q]
  BY <1>1
<1>3. EndsFit'
  BY <1>2 DEF ProxyInv, EndsFit
<1>4. ClosingFits'
  BY DEF ProxyInv, ClosingFits
<1>5. QED
  BY <1>2, <1>3, <1>4

LEMMA OneSignal ==
  /\ <<FALSE>> \in Seq(BOOLEAN) /\ <<TRUE>> \in Seq(BOOLEAN) /\ <<>> \in Seq(BOOLEAN)
  /\ <<FALSE>> # <<>> /\ <<TRUE>> # <<>> /\ <<FALSE>> # <<TRUE>>
  /\ Append(<<>>, FALSE) = <<FALSE>> /\ Append(<<>>, TRUE) = <<TRUE>>
<1>1. <<FALSE>>[1] = FALSE /\ <<TRUE>>[1] = TRUE
  OBVIOUS
<1>2. <<FALSE>> # <<TRUE>>
  BY <1>1
<1>3. QED
  BY <1>2

\* closed is emitted unless it has been, and says who has vanished.
LEMMA ClosedIsSignalled ==
  ASSUME ProxyInv, NEW p \in Peers, NEW vanished \in BOOLEAN,
         hasBeenClosed' = [hasBeenClosed EXCEPT ![p] = TRUE],
         signals' = [signals EXCEPT ![p] = Signalled(p, vanished)]
  PROVE  /\ hasBeenClosed' \in [Peers -> BOOLEAN] /\ signals' \in [Peers -> Seq(BOOLEAN)]
         /\ hasBeenClosed'[p]
         /\ signals'[p] = IF hasBeenClosed[p] THEN signals[p] ELSE <<vanished>>
         /\ \A q \in Peers : q # p => /\ signals'[q] = signals[q]
                                      /\ hasBeenClosed'[q] = hasBeenClosed[q]
         /\ \A q \in Peers : signals'[q] \in {<<>>, <<FALSE>>, <<TRUE>>}
         /\ \A q \in Peers : hasBeenClosed'[q] <=> signals'[q] # <<>>
<1>1. /\ hasBeenClosed \in [Peers -> BOOLEAN] /\ signals \in [Peers -> Seq(BOOLEAN)]
      /\ \A q \in Peers : signals[q] \in {<<>>, <<FALSE>>, <<TRUE>>}
      /\ \A q \in Peers : hasBeenClosed[q] <=> signals[q] # <<>>
  BY DEF ProxyInv, ProxyOK, ClosingFits
<1>2. vanished = TRUE \/ vanished = FALSE
  OBVIOUS
<1>3. /\ <<vanished>> \in Seq(BOOLEAN) /\ <<vanished>> \in {<<>>, <<FALSE>>, <<TRUE>>}
      /\ <<vanished>> # <<>> /\ Append(<<>>, vanished) = <<vanished>>
  BY <1>2, OneSignal
<1> DEFINE s == IF hasBeenClosed[p] THEN signals[p] ELSE <<vanished>>
<1>4. Signalled(p, vanished) = s
  BY <1>1, <1>3 DEF Signalled
<1>5. s \in Seq(BOOLEAN) /\ s \in {<<>>, <<FALSE>>, <<TRUE>>} /\ s # <<>>
  <2>1. CASE hasBeenClosed[p]
    BY <1>1, <2>1
  <2>2. CASE ~hasBeenClosed[p]
    BY <1>3, <2>2
  <2>3. QED
    BY <2>1, <2>2
<1> HIDE DEF s
<1>6. signals' = [signals EXCEPT ![p] = s]
  BY <1>4
<1>7. /\ signals' \in [Peers -> Seq(BOOLEAN)] /\ signals'[p] = s
      /\ \A q \in Peers : q # p => signals'[q] = signals[q]
  BY <1>1, <1>5, <1>6
<1>8. /\ hasBeenClosed' \in [Peers -> BOOLEAN] /\ hasBeenClosed'[p] = TRUE
      /\ \A q \in Peers : q # p => hasBeenClosed'[q] = hasBeenClosed[q]
  BY <1>1
<1>9. \A q \in Peers : signals'[q] \in {<<>>, <<FALSE>>, <<TRUE>>}
  BY <1>1, <1>5, <1>7
<1>10. ASSUME NEW q \in Peers PROVE hasBeenClosed'[q] <=> signals'[q] # <<>>
  <2>1. CASE q = p
    BY <1>5, <1>7, <1>8, <2>1
  <2>2. CASE q # p
    BY <1>1, <1>7, <1>8, <2>2
  <2>3. QED
    BY <2>1, <2>2
<1>11. QED
  BY <1>7, <1>8, <1>9, <1>10 DEF s

LEMMA EstablishKeeps ==
  ASSUME ProxyInv,
         \/ ClientEstablish \/ WaitSatisfied \/ WaitTimedOut
         \/ \E timeout \in BOOLEAN : ServerEstablish(timeout)
  PROVE  ProxyInv'
<1>1. UNCHANGED <<chan, query_vars, handler_vars, notify_vars, hasBeenClosed, signals>>
  BY DEF ClientEstablish, WaitSatisfied, WaitTimedOut, ServerEstablish
<1>2. QueriesFit' /\ MessagesFit' /\ NotesFit'
  BY <1>1, QuietKeepsMessages
<1>3. CASE ClientEstablish
  <2>1. /\ phase' \in [Peers -> {"new", "connecting", "up", "failed"}]
        /\ phase'["server"] = phase["server"] /\ namedPipe' \in {namedPipe, "connected"}
    BY <1>3 DEF ClientEstablish, ProxyInv, ProxyOK
  <2>6. pipe' \in [Peers -> BOOLEAN]
    <3>1. pipe \in [Peers -> BOOLEAN] /\ "client" \in Peers
      BY DEF ProxyInv, ProxyOK
    <3>2. pipe' = pipe \/ pipe' = [pipe EXCEPT !["client"] = TRUE]
      BY <1>3 DEF ClientEstablish
    <3>3. QED
      BY <3>1, <3>2
  <2>7. reading' \in [Peers -> BOOLEAN]
    <3>1. reading \in [Peers -> BOOLEAN] /\ "client" \in Peers
      BY DEF ProxyInv, ProxyOK
    <3>2. reading' = reading \/ reading' = [reading EXCEPT !["client"] = TRUE]
      BY <1>3 DEF ClientEstablish
    <3>3. QED
      BY <3>1, <3>2
  <2>2. ProxyOK'
    BY <1>1, <1>3, <2>1, <2>6, <2>7 DEF ClientEstablish, ProxyInv, ProxyOK
  <2>3. EndsFit'
    BY <1>1, <1>3 DEF ClientEstablish, CanOpen, ProxyInv, ProxyOK, EndsFit
  <2>4. ClosingFits'
    BY <1>1, <1>3, <2>1 DEF ClientEstablish, ProxyInv, ClosingFits
  <2>5. QED
    BY <1>2, <2>2, <2>3, <2>4 DEF ProxyInv
<1>4. ASSUME NEW timeout \in BOOLEAN, ServerEstablish(timeout) PROVE ProxyInv'
  <2>1. /\ phase["server"] = "new" /\ completions = 0 /\ UNCHANGED <<pipe, namedPipe, completions>>
        /\ phase' \in [Peers -> {"new", "connecting", "up", "failed"}]
        /\ phase'["server"] = "connecting" \/ sources' = {}
        /\ phase'["server"] \in {"connecting", "up", "failed"}
        /\ sources' \subseteq {"wait", "timeout"}
    BY <1>4 DEF ServerEstablish, ConnectResult, ProxyInv, ProxyOK, ClosingFits
  <2>2. /\ reading' \in [Peers -> BOOLEAN] /\ (reading'["server"] => namedPipe = "connected")
        /\ reading'["client"] = reading["client"]
    <3>1. reading' = [reading EXCEPT !["server"] = (namedPipe = "connected")]
      BY <1>4 DEF ServerEstablish, ConnectResult
    <3>2. QED
      BY <3>1 DEF ProxyInv, ProxyOK
  <2>3. ProxyOK'
    BY <1>1, <2>1, <2>2 DEF ProxyInv, ProxyOK
  <2>4. EndsFit'
    BY <1>1, <2>1, <2>2 DEF ProxyInv, EndsFit
  <2>5. ClosingFits'
    BY <1>1, <2>1 DEF ProxyInv, ClosingFits
  <2>6. QED
    BY <1>2, <2>3, <2>4, <2>5 DEF ProxyInv
<1>5. CASE WaitSatisfied
  <2>1. /\ completions = 0 /\ completions' = 1 /\ sources' = {}
        /\ UNCHANGED <<pipe, namedPipe>> /\ namedPipe # "listening"
        /\ phase' \in [Peers -> {"new", "connecting", "up", "failed"}]
        /\ phase'["server"] \in {"up", "failed"}
    BY <1>5 DEF WaitSatisfied, SourcesLeft, ProxyInv, ProxyOK, ClosingFits
  <2>2. /\ reading' \in [Peers -> BOOLEAN]
        /\ reading'["server"] => namedPipe # "gone" /\ pipe["server"]
        /\ reading'["client"] = reading["client"]
    BY <1>5 DEF WaitSatisfied, ProxyInv, ProxyOK
  <2>3. ProxyOK'
    BY <1>1, <2>1, <2>2 DEF ProxyInv, ProxyOK
  <2>4. EndsFit'
    BY <1>1, <2>1, <2>2 DEF ProxyInv, ProxyOK, EndsFit
  <2>5. ClosingFits'
    BY <1>1, <2>1 DEF ProxyInv, ClosingFits
  <2>6. QED
    BY <1>2, <2>3, <2>4, <2>5 DEF ProxyInv
<1>6. CASE WaitTimedOut
  <2>1. /\ completions = 0 /\ completions' = 1 /\ sources' = {}
        /\ UNCHANGED <<pipe, namedPipe, reading>>
        /\ phase' \in [Peers -> {"new", "connecting", "up", "failed"}]
        /\ phase'["server"] = "failed"
    BY <1>6 DEF WaitTimedOut, SourcesLeft, ProxyInv, ProxyOK, ClosingFits
  <2>2. ProxyOK'
    BY <1>1, <2>1 DEF ProxyInv, ProxyOK
  <2>3. EndsFit' /\ ClosingFits'
    BY <1>1, <2>1 DEF ProxyInv, EndsFit, ClosingFits
  <2>4. QED
    BY <1>2, <2>2, <2>3 DEF ProxyInv
<1>7. QED
  BY <1>3, <1>4, <1>5, <1>6

\* Whoever closes first blames nobody; messages are only taken away.
LEMMA CloseProxyKeeps ==
  ASSUME ProxyInv, NEW p \in Peers, CloseProxy(p)
  PROVE  ProxyInv'
<1>1. /\ UNCHANGED <<phase, sources, completions, reading, query_vars, handler_vars,
                     notify_vars>>
      /\ pipe' = [pipe EXCEPT ![p] = FALSE]
      /\ hasBeenClosed' = [hasBeenClosed EXCEPT ![p] = TRUE]
      /\ signals' = [signals EXCEPT ![p] = Signalled(p, FALSE)]
      /\ namedPipe' = Unlinked(p)
  BY DEF CloseProxy
<1>2. /\ signals'[p] = IF hasBeenClosed[p] THEN signals[p] ELSE <<FALSE>>
      /\ \A q \in Peers : q # p => /\ signals'[q] = signals[q]
                                   /\ hasBeenClosed'[q] = hasBeenClosed[q]
      /\ hasBeenClosed'[p]
      /\ hasBeenClosed' \in [Peers -> BOOLEAN] /\ signals' \in [Peers -> Seq(BOOLEAN)]
      /\ \A q \in Peers : signals'[q] \in {<<>>, <<FALSE>>, <<TRUE>>}
      /\ \A q \in Peers : hasBeenClosed'[q] <=> signals'[q] # <<>>
  BY <1>1, ClosedIsSignalled
<1>12. /\ pipe' \in [Peers -> BOOLEAN] /\ ~pipe'[p]
       /\ \A q \in Peers : q # p => pipe'[q] = pipe[q]
  BY <1>1 DEF ProxyInv, ProxyOK
<1>3. /\ \A q \in Peers : chan'[q] \in Seq(Messages) /\ PartOf(chan'[q], chan[q])
      /\ chan' \in [Peers -> Seq(Messages)]
  <2>1. \A q \in Peers : chan[q] \in Seq(Messages)
    BY DEF ProxyInv, ProxyOK, Messages
  <2>2. CASE UNCHANGED chan
    BY <2>1, <2>2, PartsOfMessages DEF ProxyInv, ProxyOK, Messages
  <2>3. CASE \E kept \in {0, 1} :
                 chan' = [chan EXCEPT !["client"] =
                             SubSeq(@, 1, IF @ = <<>> THEN 0 ELSE kept)]
    <3>1. PICK kept \in {0, 1} :
              chan' = [chan EXCEPT !["client"] =
                          SubSeq(chan["client"], 1, IF chan["client"] = <<>> THEN 0 ELSE kept)]
      BY <2>3
    <3> DEFINE t == SubSeq(chan["client"], 1, IF chan["client"] = <<>> THEN 0 ELSE kept)
    <3>2. t \in Seq(Messages) /\ PartOf(t, chan["client"])
      BY <2>1, PartsOfMessages
    <3>3. PartOf(chan["server"], chan["server"])
      BY <2>1, PartsOfMessages
    <3> HIDE DEF t
    <3>4. chan' = [chan EXCEPT !["client"] = t]
      BY <3>1 DEF t
    <3>5. chan \in [Peers -> Seq(Messages)]
      BY DEF ProxyInv, ProxyOK, Messages
    <3>6. QED
      BY <2>1, <3>2, <3>3, <3>4, <3>5
  <2>4. QED
    BY <2>2, <2>3 DEF CloseProxy
<1>4. \A q \in Peers : chan[q] \in Seq(Messages)
  BY DEF ProxyInv, ProxyOK, Messages
<1>5. ProxyOK'
  <2>1. namedPipe' \in {"listening", "connected", "broken", "gone"}
    BY <1>1 DEF Unlinked, ProxyInv, ProxyOK
  <2>2. QED
    BY <1>1, <1>2, <1>3, <1>12, <2>1 DEF ProxyInv, ProxyOK, Messages
<1>6. EndsFit'
  BY <1>1, <1>2, <1>12, PeersAreTwo DEF ProxyInv, ProxyOK, EndsFit, Unlinked
<1>7. ClosingFits'
  <2>1. /\ namedPipe' = "broken" => namedPipe = "broken" \/ ~hasBeenClosed[p]
        /\ Other(p) \in Peers /\ Other(p) # p /\ Other(Other(p)) = p
        /\ \A q \in Peers : q # p => q = Other(p)
    BY <1>1, PeersAreTwo DEF ProxyInv, ProxyOK, EndsFit, Unlinked
  <2>3. \A q \in Peers : signals'[q] = <<TRUE>> => signals'[Other(q)] = <<FALSE>>
    <3>1. signals'[p] = <<TRUE>> => signals'[Other(p)] = <<FALSE>>
      BY <1>2, <2>1, OneSignal DEF ProxyInv, ClosingFits
    <3>2. ASSUME signals'[Other(p)] = <<TRUE>> PROVE signals'[p] = <<FALSE>>
      <4>1. signals[Other(p)] = <<TRUE>>
        BY <1>2, <2>1, <3>2
      <4>2. signals[p] = <<FALSE>>
        BY <2>1, <4>1 DEF ProxyInv, ClosingFits
      <4>3. QED
        BY <1>2, <4>2
    <3>3. QED
      BY <2>1, <3>1, <3>2
  <2>4. namedPipe' = "broken" =>
            \A q \in Peers : hasBeenClosed'[q] \/ signals'[Other(q)] = <<FALSE>>
    <3>1. ASSUME namedPipe' = "broken"
          PROVE  hasBeenClosed'[Other(p)] \/ signals'[p] = <<FALSE>>
      BY <1>2, <2>1, <3>1 DEF ProxyInv, ClosingFits
    <3>2. QED
      BY <1>2, <2>1, <3>1
  <2>5. QED
    BY <1>1, <1>2, <2>3, <2>4 DEF ProxyInv, ClosingFits
<1>8. QueriesFit'
  BY <1>1 DEF ProxyInv, QueriesFit
<1>9. MessagesFit'
  <2>1. ASSUME NEW q \in Peers
        PROVE  /\ \A i, type : Has(chan'[q], type, i) => Has(chan[q], type, i)
               /\ \A i, type : OneAtMost(chan[q], type, i) => OneAtMost(chan'[q], type, i)
               /\ \A n \in 1..Len(chan'[q]) : \E m \in 1..Len(chan[q]) :
                      chan'[q][n] = chan[q][m]
    <3>1. /\ chan[q] \in Seq(Messages) /\ chan'[q] \in Seq(Messages)
          /\ PartOf(chan'[q], chan[q])
      BY <1>3, <1>4
    <3>2. QED
      BY <3>1, PartsHaveNoMore
  <2>2. MessagesFit /\ UNCHANGED <<pending, busy, handled>>
    BY <1>1 DEF ProxyInv
  <2>3. QED
    BY <2>1, <2>2, NothingNewKeepsMessages
<1>10. NotesFit'
  BY <1>1, <1>3, <1>4, PartsHaveNoMore DEF ProxyInv, NotesFit
<1>11. QED
  BY <1>5, <1>6, <1>7, <1>8, <1>9, <1>10 DEF ProxyInv

\* A read fails when the other end has closed, or this one has and said so.
LEMMA ReadFailsKeeps ==
  ASSUME ProxyInv, NEW p \in Peers, ReadFails(p)
  PROVE  ProxyInv'
<1>1. /\ UNCHANGED <<pipe, namedPipe, phase, sources, completions, chan, query_vars,
                     handler_vars, notify_vars>>
      /\ reading[p] /\ (~pipe[p] \/ namedPipe = "broken")
      /\ reading' = [reading EXCEPT ![p] = FALSE]
      /\ hasBeenClosed' = [hasBeenClosed EXCEPT ![p] = TRUE]
      /\ signals' = [signals EXCEPT ![p] = Signalled(p, TRUE)]
  BY DEF ReadFails, ReadError
<1>2. /\ signals'[p] = IF hasBeenClosed[p] THEN signals[p] ELSE <<TRUE>>
      /\ \A q \in Peers : q # p => /\ signals'[q] = signals[q]
                                   /\ hasBeenClosed'[q] = hasBeenClosed[q]
      /\ hasBeenClosed'[p]
      /\ hasBeenClosed' \in [Peers -> BOOLEAN] /\ signals' \in [Peers -> Seq(BOOLEAN)]
      /\ \A q \in Peers : signals'[q] \in {<<>>, <<FALSE>>, <<TRUE>>}
      /\ \A q \in Peers : hasBeenClosed'[q] <=> signals'[q] # <<>>
  BY <1>1, ClosedIsSignalled
<1>3. /\ reading' \in [Peers -> BOOLEAN] /\ ~reading'[p]
      /\ \A q \in Peers : q # p => reading'[q] = reading[q]
  BY <1>1 DEF ProxyInv, ProxyOK
<1>4. hasBeenClosed[p] \/ (namedPipe = "broken" /\ signals[Other(p)] = <<FALSE>>)
  BY <1>1 DEF ProxyInv, EndsFit, ClosingFits
<1>5. ProxyOK'
  BY <1>1, <1>2, <1>3 DEF ProxyInv, ProxyOK
<1>6. EndsFit'
  BY <1>1, <1>2, <1>3 DEF ProxyInv, EndsFit
<1>7. ClosingFits'
  <2>1. /\ Other(p) \in Peers /\ Other(p) # p /\ Other(Other(p)) = p
        /\ \A q \in Peers : q # p => q = Other(p)
    BY PeersAreTwo
  <2>3. \A q \in Peers : signals'[q] = <<TRUE>> => signals'[Other(q)] = <<FALSE>>
    <3>1. signals'[p] = <<TRUE>> => signals'[Other(p)] = <<FALSE>>
      BY <1>2, <1>4, <2>1 DEF ProxyInv, ClosingFits
    <3>2. ASSUME signals'[Other(p)] = <<TRUE>> PROVE signals'[p] = <<FALSE>>
      <4>1. ASSUME signals[Other(p)] = <<TRUE>> PROVE signals[p] = <<FALSE>> /\ hasBeenClosed[p]
        BY <2>1, <4>1, OneSignal DEF ProxyInv, ClosingFits
      <4>2. QED
        BY <1>2, <2>1, <4>1, <3>2
    <3>3. QED
      BY <2>1, <3>1, <3>2
  <2>4. namedPipe' = "broken" =>
            \A q \in Peers : hasBeenClosed'[q] \/ signals'[Other(q)] = <<FALSE>>
    <3>1. ASSUME namedPipe = "broken"
          PROVE  hasBeenClosed'[Other(p)] \/ signals'[p] = <<FALSE>>
      <4>1. hasBeenClosed[Other(p)] \/ signals[p] = <<FALSE>>
        BY <2>1, <3>1 DEF ProxyInv, ClosingFits
      <4>2. signals[p] = <<FALSE>> => hasBeenClosed[p]
        BY OneSignal DEF ProxyInv, ClosingFits
      <4>3. QED
        BY <1>2, <2>1, <4>1, <4>2
    <3>2. QED
      BY <1>1, <1>2, <2>1, <3>1
  <2>5. QED
    BY <1>1, <1>2, <2>3, <2>4 DEF ProxyInv, ClosingFits
<1>8. QueriesFit' /\ MessagesFit' /\ NotesFit'
  BY <1>1, QuietKeepsMessages
<1>9. QED
  BY <1>5, <1>6, <1>7, <1>8 DEF ProxyInv

LEMMA HandlersKeep ==
  ASSUME ProxyInv, NEW p \in Peers, NEW what \in Handled,
         Register(p, what) \/ Unregister(p, what)
  PROVE  ProxyInv'
<1>1. UNCHANGED <<pipe_vars, reading, chan, query_vars, notify_vars>>
  BY DEF Register, Unregister
<1>2. registered' \in [Peers -> SUBSET Handled] /\ changes' \in [Peers -> Nat]
  BY DEF Register, Unregister, ProxyInv, ProxyOK
<1>3. ProxyOK'
  BY <1>1, <1>2 DEF ProxyInv, ProxyOK
<1>4. EndsFit' /\ ClosingFits'
  BY <1>1 DEF ProxyInv, EndsFit, ClosingFits
<1>5. QED
  BY <1>1, <1>3, <1>4, QuietKeepsMessages DEF ProxyInv

(* Steps that read or write a message.                                     *)

LEMMA TypesOfMessages ==
  /\ \A m \in Messages : \/ m \in Requests /\ m.type = "request" /\ m.id \in Ids
                         \/ m \in Responses /\ m.type = "response" /\ m.id \in Ids
                         \/ m \in Notifications /\ m.type = "notify" /\ m.number \in Nat
  /\ \A m \in Messages : m.type = "request" => m.id \in Ids /\ m.verb \in Verbs
  /\ \A m \in Messages : m.type = "response" => m.id \in Ids
  /\ \A m \in Messages : m.type = "notify" => m.number \in Nat
  BY DEF Messages, Requests, Responses, Notifications

LEMMA ChanIsMessages ==
  ASSUME ProxyInv
  PROVE  /\ chan \in [Peers -> Seq(Messages)]
         /\ \A q \in Peers : chan[q] \in Seq(Messages)
  BY DEF ProxyInv, ProxyOK, Messages

\* What p sends reaches the other end once, or is lost.
LEMMA SentKeepsOthers ==
  ASSUME ProxyInv, NEW p \in Peers, NEW m \in Messages
  PROVE  LET t == chan[Other(p)] \o Sent(p, m)
         IN  /\ t \in Seq(Messages)
             /\ \A i, type : Has(t, type, i) =>
                    Has(chan[Other(p)], type, i) \/ (m.type = type /\ m.id = i)
             /\ \A i, type : OneAtMost(chan[Other(p)], type, i)
                             /\ ~(m.type = type /\ m.id = i /\ Has(chan[Other(p)], type, i))
                    => OneAtMost(t, type, i)
             /\ \A n \in 1..Len(t) :
                    t[n] = m \/ \E l \in 1..Len(chan[Other(p)]) : t[n] = chan[Other(p)][l]
             /\ \A k \in NotesIn(t) : k \in NotesIn(chan[Other(p)])
                                      \/ (m.type = "notify" /\ k = m.number)
             /\ Rising(chan[Other(p)])
                /\ (m.type = "notify" => \A k \in NotesIn(chan[Other(p)]) : k < m.number)
                    => Rising(t)
<1> DEFINE s == chan[Other(p)]
           t == s \o Sent(p, m)
<1>1. s \in Seq(Messages)
  BY ChanIsMessages, PeersAreTwo
<1> HIDE DEF s
<1>2. CASE Sent(p, m) = <<m>>
  <2> DEFINE w == s \o <<m>>
  <2>1. /\ w \in Seq(Messages)
        /\ \A i, type : Has(w, type, i) <=> Has(s, type, i) \/ (m.type = type /\ m.id = i)
        /\ \A i, type : OneAtMost(s, type, i)
                        /\ ~(m.type = type /\ m.id = i /\ Has(s, type, i))
               => OneAtMost(w, type, i)
        /\ \A n \in 1..Len(w) : w[n] = m \/ \E l \in 1..Len(s) : w[n] = s[l]
        /\ NotesIn(w) = NotesIn(s) \cup (IF m.type = "notify" THEN {m.number} ELSE {})
        /\ Rising(s) /\ (m.type = "notify" => \A k \in NotesIn(s) : k < m.number)
               => Rising(w)
    BY <1>1, WrittenIsLast
  <2> HIDE DEF w
  <2>2. t = w
    BY <1>2 DEF w
  <2>3. \A k \in NotesIn(w) : k \in NotesIn(s) \/ (m.type = "notify" /\ k = m.number)
    BY <2>1
  <2> HIDE DEF t
  <2>4. QED
    BY <2>1, <2>2, <2>3 DEF s, t
<1>3. CASE Sent(p, m) = <<>>
  <2>1. t = s
    BY <1>1, <1>3, ConcatEmptySeq
  <2>2. \A n \in 1..Len(s) : \E l \in 1..Len(s) : s[n] = s[l]
    OBVIOUS
  <2>3. QED
    BY <1>1, <2>1, <2>2 DEF s
<1>4. QED
  BY <1>2, <1>3 DEF Sent

LEMMA QueryKeeps ==
  ASSUME ProxyInv, NEW p \in Peers, NEW v \in Verbs, Query(p, v)
  PROVE  ProxyInv'
<1> DEFINE i == lastRequest[p]
           m == [type |-> "request", id |-> i, verb |-> v]
           q == Other(p)
<1>1. /\ i \in Ids /\ i \in Nat \ {0} /\ q \in Peers /\ q # p /\ Other(q) = p
      /\ \A o \in Peers : o = p \/ o = q
  <2>1. i \in Nat \ {0} /\ i <= MaxQueries(p)
    BY DEF Query, ProxyInv, ProxyOK
  <2>2. QED
    BY <2>1, IdsAreNat, PeersAreTwo
<1>2. m \in Messages /\ m.type = "request" /\ m.id = i
  BY <1>1 DEF Messages, Requests
<1>3. /\ chan' = [chan EXCEPT ![q] = chan[q] \o Sent(p, m)]
      /\ pending' = [pending EXCEPT ![p] = pending[p] \cup {i}]
      /\ verb' = [verb EXCEPT ![p] = [verb[p] EXCEPT ![i] = v]]
      /\ result' = [result EXCEPT ![p] = [result[p] EXCEPT ![i] = Waiting]]
      /\ lastRequest' = [lastRequest EXCEPT ![p] = i + 1]
      /\ UNCHANGED <<pipe_vars, reading, busy, handled, handler_vars, notify_vars>>
  BY DEF Query, NextRequest
<1> DEFINE t == chan[q] \o Sent(p, m)
<1>4. /\ t \in Seq(Messages)
      /\ \A j, type : Has(t, type, j) =>
             Has(chan[q], type, j) \/ (m.type = type /\ m.id = j)
      /\ \A j, type : OneAtMost(chan[q], type, j)
                      /\ ~(m.type = type /\ m.id = j /\ Has(chan[q], type, j))
             => OneAtMost(t, type, j)
      /\ \A n \in 1..Len(t) : t[n] = m \/ \E l \in 1..Len(chan[q]) : t[n] = chan[q][l]
      /\ \A k \in NotesIn(t) : k \in NotesIn(chan[q]) \/ (m.type = "notify" /\ k = m.number)
      /\ Rising(chan[q])
         /\ (m.type = "notify" => \A k \in NotesIn(chan[q]) : k < m.number) => Rising(t)
  <2> HIDE DEF m, i
  <2>1. QED
    BY <1>2, SentKeepsOthers
<1> HIDE DEF t
<1>5. /\ chan' \in [Peers -> Seq(Messages)] /\ chan'[q] = t /\ chan'[p] = chan[p]
  <2>1. chan' = [chan EXCEPT ![q] = t]
    BY <1>3 DEF t
  <2>2. QED
    BY <1>1, <1>4, <2>1, ChanIsMessages
<1> HIDE DEF m, q
<1>6. i \notin pending[p] /\ handled[p][i] = 0 /\ result[p][i] = NotAsked
  BY <1>1 DEF ProxyInv, QueriesFit
<1>7. ProxyOK'
  <2>1. pending' \in [Peers -> SUBSET Ids] /\ lastRequest' \in [Peers -> Nat \ {0}]
    <3>1. pending[p] \cup {i} \in SUBSET Ids /\ i + 1 \in Nat \ {0}
      <4>1. pending[p] \in SUBSET Ids
        BY DEF ProxyInv, ProxyOK
      <4> HIDE DEF i
      <4>2. QED
        BY <1>1, <4>1
    <3> HIDE DEF i
    <3>2. QED
      BY <1>3, <3>1 DEF ProxyInv, ProxyOK
  <2>2. verb' \in [Peers -> [Ids -> {"sync", "async", "unknown"}]]
    <3>1. v \in {"sync", "async", "unknown"}
      OBVIOUS
    <3>2. [verb[p] EXCEPT ![i] = v] \in [Ids -> {"sync", "async", "unknown"}]
      BY <3>1, <1>1 DEF ProxyInv, ProxyOK
    <3>3. QED
      BY <1>3, <3>2 DEF ProxyInv, ProxyOK
  <2>3. result' \in [Peers -> [Ids -> {NotAsked, Waiting} \cup Results]]
    BY <1>1, <1>3 DEF ProxyInv, ProxyOK
  <2>4. QED
    BY <1>3, <1>5, <2>1, <2>2, <2>3 DEF ProxyInv, ProxyOK, Messages
<1>8. EndsFit' /\ ClosingFits'
  BY <1>3 DEF ProxyInv, EndsFit, ClosingFits
<1>9. QueriesFit'
  <2> SUFFICES ASSUME NEW o \in Peers, NEW j \in Ids
               PROVE  /\ j >= lastRequest'[o] => result'[o][j] = NotAsked /\ handled'[o][j] = 0
                      /\ j \in pending'[o] => result'[o][j] = Waiting /\ j < lastRequest'[o]
                      /\ result'[o][j].status = "returned" => result'[o][j].from = j
    BY DEF QueriesFit
  <2>1. /\ lastRequest[o] \in Nat /\ j \in Nat /\ pending[o] \subseteq Ids
        /\ result[o] \in [Ids -> {NotAsked, Waiting} \cup Results]
    BY IdsAreNat DEF ProxyInv, ProxyOK
  <2>2. /\ j >= lastRequest[o] => result[o][j] = NotAsked /\ handled[o][j] = 0
        /\ j \in pending[o] => result[o][j] = Waiting /\ j < lastRequest[o]
        /\ result[o][j].status = "returned" => result[o][j].from = j
    BY DEF ProxyInv, QueriesFit
  <2>3. CASE o # p
    <3>1. UNCHANGED <<lastRequest[o], pending[o], result[o], handled[o]>>
      BY <1>3, <2>3 DEF ProxyInv, ProxyOK
    <3>2. QED
      BY <2>2, <3>1
  <2>4. CASE o = p /\ j # i
    <3>1. /\ lastRequest'[o] = i + 1 /\ pending'[o] = pending[o] \cup {i}
          /\ result'[o][j] = result[o][j] /\ handled'[o][j] = handled[o][j]
      BY <1>1, <1>3, <2>1, <2>4 DEF ProxyInv, ProxyOK
    <3>2. QED
      BY <1>1, <2>1, <2>2, <2>4, <3>1
  <2>5. CASE o = p /\ j = i
    <3>1. lastRequest'[o] = i + 1 /\ result'[o][j] = Waiting
      BY <1>1, <1>3, <2>1, <2>5 DEF ProxyInv, ProxyOK
    <3>2. QED
      BY <1>1, <2>1, <2>5, <3>1 DEF Waiting
  <2>6. QED
    BY <2>3, <2>4, <2>5
<1>10. MessagesFit'
  <2> SUFFICES ASSUME NEW j \in Ids PROVE CallFits(p, j)' /\ CallFits(q, j)'
    BY <1>1 DEF MessagesFit
  <2>1. CallFits(p, j) /\ CallFits(q, j)
    BY <1>1 DEF ProxyInv, MessagesFit
  <2>2. /\ pending'[p] = pending[p] \cup {i} /\ pending'[q] = pending[q]
        /\ handled' = handled /\ busy' = busy
    BY <1>1, <1>3 DEF ProxyInv, ProxyOK
  <2>3. CallFits(p, j)'
    <3>1. i = j => ~Has(chan[q], "request", j) /\ j \notin busy[q] /\ ~Has(chan[p], "response", j)
      BY <1>6, <2>1 DEF CallFits, q
    <3>2. /\ OneAtMost(chan'[q], "request", j)
          /\ Has(chan'[q], "request", j) => Has(chan[q], "request", j) \/ i = j
      BY <1>2, <1>4, <1>5, <2>1, <3>1 DEF CallFits, q
    <3>3. QED
      BY <1>5, <1>6, <2>1, <2>2, <3>1, <3>2 DEF CallFits, q
  <2>4. CallFits(q, j)'
    <3>1. /\ OneAtMost(chan'[q], "response", j)
          /\ Has(chan'[q], "response", j) => Has(chan[q], "response", j)
          /\ \A n \in 1..Len(chan'[q]) : chan'[q][n].type = "response" =>
                 \E l \in 1..Len(chan[q]) : chan'[q][n] = chan[q][l]
      BY <1>1, <1>2, <1>4, <1>5, <2>1 DEF CallFits
    <3>2. \A n \in 1..Len(chan'[q]) :
              chan'[q][n].type = "response" /\ chan'[q][n].id = j =>
              (chan'[q][n].success <=> handled[q][j] > 0)
      BY <2>1, <3>1 DEF CallFits
    <3>3. QED
      BY <1>1, <1>5, <2>1, <2>2, <3>1, <3>2 DEF CallFits
  <2>5. QED
    BY <2>3, <2>4
<1>11. NotesFit'
  <2>1. Rising(chan'[q]) /\ NotesIn(chan'[q]) \subseteq NotesIn(chan[q])
    BY <1>1, <1>2, <1>4, <1>5 DEF ProxyInv, NotesFit
  <2>2. \A o \in Peers : Rising(chan'[o]) /\ NotesIn(chan'[o]) \subseteq NotesIn(chan[o])
    BY <1>1, <1>5, <2>1 DEF ProxyInv, NotesFit
  <2>3. QED
    BY <1>3, <2>2 DEF ProxyInv, NotesFit
<1>12. QED
  BY <1>7, <1>8, <1>9, <1>10, <1>11 DEF ProxyInv

\* What is read is taken from the messages on their way, which are otherwise the same.
LEMMA WhatIsRead ==
  ASSUME ProxyInv, NEW p \in Peers, chan[p] # <<>>
  PROVE  LET s == chan[p]
             h == Head(s)
             t == Tail(s)
         IN  /\ h \in Messages /\ t \in Seq(Messages)
             /\ \A i, type : Has(t, type, i) => Has(s, type, i)
             /\ \A i, type : OneAtMost(s, type, i) => OneAtMost(t, type, i)
             /\ \A n \in 1..Len(t) : \E m \in 1..Len(s) : t[n] = s[m]
             /\ NotesIn(t) \subseteq NotesIn(s) /\ Rising(t)
             /\ \E n \in 1..Len(s) : s[n] = h
             /\ \A i, type : h.type = type /\ h.id = i =>
                    Has(s, type, i) /\ (OneAtMost(s, type, i) => ~Has(t, type, i))
             /\ h.type = "notify" =>
                    h.number \in NotesIn(s) /\ \A k \in NotesIn(t) : h.number < k
<1> DEFINE s == chan[p]
           t == Tail(s)
<1>1. s \in Seq(Messages) /\ s # <<>> /\ Rising(s)
  BY ChanIsMessages DEF ProxyInv, NotesFit
<1> HIDE DEF s
<1>2. t \in Seq(Messages) /\ PartOf(t, s)
  BY <1>1, PartsOfMessages
<1> HIDE DEF t
<1>3. /\ \A i, type : Has(t, type, i) => Has(s, type, i)
      /\ \A i, type : OneAtMost(s, type, i) => OneAtMost(t, type, i)
      /\ \A n \in 1..Len(t) : \E m \in 1..Len(s) : t[n] = s[m]
      /\ NotesIn(t) \subseteq NotesIn(s) /\ Rising(t)
  BY <1>1, <1>2, PartsHaveNoMore
<1>4. \E n \in 1..Len(s) : s[n] = Head(s)
  BY <1>1, HeadTailProperties, EmptySeq
<1>5. /\ Head(s) \in Messages
      /\ \A i, type : Head(s).type = type /\ Head(s).id = i =>
             Has(s, type, i) /\ (OneAtMost(s, type, i) => ~Has(t, type, i))
      /\ Head(s).type = "notify" =>
             Head(s).number \in NotesIn(s) /\ \A k \in NotesIn(t) : Head(s).number < k
  BY <1>1, HeadIsTaken DEF t
<1>6. QED
  BY <1>2, <1>3, <1>4, <1>5 DEF s, t

LEMMA ResponsesAreMessages ==
  ASSUME NEW i \in Ids, NEW success \in BOOLEAN
  PROVE  LET m == Response(i, success)
         IN  /\ m \in Messages /\ m.type = "response" /\ m.id = i
             /\ m.success <=> success
<1>1. /\ Response(i, success) \in Messages
      /\ Response(i, success).type = "response" /\ Response(i, success).id = i
  BY DEF Response, Messages, Responses
<1>2. Response(i, success).success <=> success
  BY Zenon DEF Response
<1>3. QED
  BY <1>1, <1>2

\* A request's handler is run for a query that waits and has not been handled, and the
\* response says whether it was.
LEMMA ReadRequestKeeps ==
  ASSUME ProxyInv, NEW p \in Peers, ReadRequest(p)
  PROVE  ProxyInv'
<1> DEFINE q == Other(p)
           h == Head(chan[p])
           t == Tail(chan[p])
           i == h.id
           accepted == Accepts(p, h.verb)
           later == accepted /\ h.verb = "async"
           r == Response(i, accepted)
           u == chan[q] \o (IF later THEN <<>> ELSE Sent(p, r))
<1>1. /\ q \in Peers /\ q # p /\ Other(q) = p
      /\ \A o \in Peers : o = p \/ o = q
  BY PeersAreTwo
<1>2. /\ h \in Messages /\ t \in Seq(Messages)
      /\ \A j, type : Has(t, type, j) => Has(chan[p], type, j)
      /\ \A j, type : OneAtMost(chan[p], type, j) => OneAtMost(t, type, j)
      /\ \A n \in 1..Len(t) : \E m \in 1..Len(chan[p]) : t[n] = chan[p][m]
      /\ NotesIn(t) \subseteq NotesIn(chan[p]) /\ Rising(t)
      /\ \A j, type : h.type = type /\ h.id = j =>
             Has(chan[p], type, j) /\ (OneAtMost(chan[p], type, j) => ~Has(t, type, j))
  BY WhatIsRead DEF ReadRequest, Arrived
<1>3. h.type = "request" /\ i \in Ids
  <2>1. h.type = "request"
    BY DEF ReadRequest, Arrived
  <2> HIDE DEF h
  <2>2. QED
    BY <1>2, <2>1, TypesOfMessages
<1>4. /\ handled' = IF accepted
                    THEN [handled EXCEPT ![q] = [handled[q] EXCEPT ![i] = @ + 1]] ELSE handled
      /\ busy' = IF later THEN [busy EXCEPT ![p] = busy[p] \cup {i}] ELSE busy
      /\ chan' = [chan EXCEPT ![p] = t, ![q] = u]
      /\ reading' = [reading EXCEPT ![p] = pipe[p]] /\ reading[p]
      /\ UNCHANGED <<pipe_vars, lastRequest, pending, verb, result, handler_vars, notify_vars>>
  <2>1. chan' = [chan EXCEPT ![p] = t, ![q] = @ \o (IF later THEN <<>> ELSE Sent(p, r))]
    BY DEF ReadRequest, ReadAndWrite
  <2>2. chan' = [chan EXCEPT ![p] = t, ![q] = u]
    BY <1>1, <2>1, ChanIsMessages
  <2>3. QED
    BY <2>2 DEF ReadRequest, Arrived, ReadAndWrite
<1>5. accepted \in BOOLEAN /\ later \in BOOLEAN /\ (later => accepted)
  BY DEF Accepts
<1> HIDE DEF h, t, accepted, later
<1>6. r \in Messages /\ r.type = "response" /\ r.id = i /\ (r.success <=> accepted)
  BY <1>3, <1>5, ResponsesAreMessages
<1> HIDE DEF r
<1>7. /\ i \in pending[q] /\ handled[q][i] = 0 /\ i \notin busy[p]
      /\ ~Has(chan[q], "response", i) /\ ~Has(t, "request", i)
  BY <1>1, <1>2, <1>3 DEF ProxyInv, MessagesFit, CallFits
<1>8. /\ u \in Seq(Messages)
      /\ \A j, type : Has(u, type, j) =>
             Has(chan[q], type, j) \/ (~later /\ type = "response" /\ i = j)
      /\ \A j, type : OneAtMost(chan[q], type, j) => OneAtMost(u, type, j)
      /\ \A n \in 1..Len(u) :
             (u[n] = r /\ ~later) \/ \E l \in 1..Len(chan[q]) : u[n] = chan[q][l]
      /\ NotesIn(u) \subseteq NotesIn(chan[q]) /\ Rising(u)
  <2>1. chan[q] \in Seq(Messages) /\ Rising(chan[q])
    BY <1>1, ChanIsMessages DEF ProxyInv, NotesFit
  <2>2. CASE later
    <3>1. u = chan[q]
      BY <2>1, <2>2, ConcatEmptySeq
    <3>2. \A n \in 1..Len(chan[q]) : \E l \in 1..Len(chan[q]) : chan[q][n] = chan[q][l]
      OBVIOUS
    <3> HIDE DEF u
    <3>3. QED
      BY <2>1, <2>2, <3>1, <3>2
  <2>3. CASE ~later
    <3>1. u = chan[q] \o Sent(p, r)
      BY <2>3
    <3> DEFINE w == chan[q] \o Sent(p, r)
    <3>2. /\ w \in Seq(Messages)
          /\ \A j, type : Has(w, type, j) =>
                 Has(chan[q], type, j) \/ (r.type = type /\ r.id = j)
          /\ \A j, type : OneAtMost(chan[q], type, j)
                          /\ ~(r.type = type /\ r.id = j /\ Has(chan[q], type, j))
                 => OneAtMost(w, type, j)
          /\ \A n \in 1..Len(w) : w[n] = r \/ \E l \in 1..Len(chan[q]) : w[n] = chan[q][l]
          /\ \A k \in NotesIn(w) : k \in NotesIn(chan[q])
                                   \/ (r.type = "notify" /\ k = r.number)
          /\ Rising(chan[q])
             /\ (r.type = "notify" => \A k \in NotesIn(chan[q]) : k < r.number) => Rising(w)
      BY <1>6, SentKeepsOthers
    <3> HIDE DEF u, w
    <3>4. u = w
      BY <3>1 DEF w
    <3>3. QED
      BY <1>6, <1>7, <2>1, <2>3, <3>2, <3>4
  <2>4. QED
    BY <2>2, <2>3
<1> HIDE DEF u
<1>9. chan' \in [Peers -> Seq(Messages)] /\ chan'[p] = t /\ chan'[q] = u
  BY <1>1, <1>2, <1>4, <1>8, ChanIsMessages
<1>10. /\ handled' \in [Peers -> [Ids -> Nat]] /\ busy' \in [Peers -> SUBSET Ids]
       /\ \A o \in Peers, j \in Ids :
              handled'[o][j] = IF accepted /\ o = q /\ j = i THEN 1 ELSE handled[o][j]
       /\ \A o \in Peers : \A j : j \in busy'[o] <=> j \in busy[o] \/ (later /\ o = p /\ j = i)
  <2>1. /\ handled \in [Peers -> [Ids -> Nat]] /\ busy \in [Peers -> SUBSET Ids]
        /\ handled[q][i] + 1 = 1
    BY <1>7 DEF ProxyInv, ProxyOK
  <2>2. /\ handled' \in [Peers -> [Ids -> Nat]]
        /\ \A o \in Peers, j \in Ids :
               handled'[o][j] = IF accepted /\ o = q /\ j = i THEN 1 ELSE handled[o][j]
    <3>1. CASE accepted
      <4>1. handled' = [handled EXCEPT ![q] = [handled[q] EXCEPT ![i] = 1]]
        BY <1>1, <1>3, <1>4, <2>1, <3>1
      <4>2. QED
        BY <1>1, <1>3, <2>1, <3>1, <4>1
    <3>2. CASE ~accepted
      BY <1>4, <2>1, <3>2
    <3>3. QED
      BY <3>1, <3>2
  <2>3. /\ busy' \in [Peers -> SUBSET Ids]
        /\ \A o \in Peers : \A j : j \in busy'[o] <=> j \in busy[o] \/ (later /\ o = p /\ j = i)
    BY <1>3, <1>4, <2>1
  <2>4. QED
    BY <2>2, <2>3
<1>11. ProxyOK' /\ EndsFit' /\ ClosingFits'
  <2>1. EndsFit' /\ ClosingFits' /\ reading' \in [Peers -> BOOLEAN]
    BY <1>4, ReadingGoesOn
  <2>2. ProxyOK'
    BY <1>4, <1>9, <1>10, <2>1 DEF ProxyInv, ProxyOK, Messages
  <2>3. QED
    BY <2>1, <2>2
<1> HIDE DEF i, q
<1>12. QueriesFit'
  <2>1. i < lastRequest[q]
    BY <1>1, <1>3, <1>7 DEF ProxyInv, QueriesFit
  <2>2. \A o \in Peers, j \in Ids :
            j >= lastRequest[o] => handled'[o][j] = handled[o][j]
    <3>1. \A j \in Ids : j \in Nat
      BY IdsAreNat
    <3>2. lastRequest[q] \in Nat /\ (i >= lastRequest[q] => FALSE)
      BY <1>1, <1>3, <2>1, <3>1 DEF ProxyInv, ProxyOK
    <3>3. QED
      BY <1>10, <3>2
  <2>3. QED
    BY <1>4, <2>2 DEF ProxyInv, QueriesFit
<1>13. MessagesFit'
  <2> SUFFICES ASSUME NEW j \in Ids PROVE CallFits(p, j)' /\ CallFits(q, j)'
    BY <1>1 DEF MessagesFit
  <2>1. CallFits(p, j) /\ CallFits(q, j) /\ Other(p) = q /\ Other(q) = p
    BY <1>1 DEF ProxyInv, MessagesFit, q
  <2>2. CallFits(p, j)'
    <3>1. handled'[p][j] = handled[p][j] /\ (j \in busy'[q] <=> j \in busy[q])
      BY <1>1, <1>10
    <3>2. \A n \in 1..Len(chan'[p]) :
              chan'[p][n].type = "response" /\ chan'[p][n].id = j =>
              (chan'[p][n].success <=> handled[p][j] > 0)
      <4> SUFFICES ASSUME NEW n \in 1..Len(t), t[n].type = "response", t[n].id = j
                   PROVE  t[n].success <=> handled[p][j] > 0
        BY <1>9
      <4>1. PICK m \in 1..Len(chan[p]) : t[n] = chan[p][m]
        BY <1>2
      <4>2. QED
        BY <2>1, <4>1 DEF CallFits
    <3>3. /\ OneAtMost(chan'[q], "request", j) /\ OneAtMost(chan'[p], "response", j)
          /\ Has(chan'[q], "request", j) => Has(chan[q], "request", j)
          /\ Has(chan'[p], "response", j) => Has(chan[p], "response", j)
      BY <1>2, <1>8, <1>9, <2>1 DEF CallFits
    <3>4. QED
      BY <1>4, <2>1, <3>1, <3>2, <3>3 DEF CallFits
  <2>3. CallFits(q, j)'
    <3>1. /\ OneAtMost(chan'[p], "request", j) /\ OneAtMost(chan'[q], "response", j)
          /\ Has(chan'[p], "request", j) => Has(chan[p], "request", j) /\ j # i
          /\ Has(chan'[q], "response", j) =>
                 Has(chan[q], "response", j) \/ (~later /\ j = i)
      BY <1>2, <1>7, <1>8, <1>9, <2>1 DEF CallFits
    <3>2. \A n \in 1..Len(chan'[q]) :
              chan'[q][n].type = "response" /\ chan'[q][n].id = j =>
              (chan'[q][n].success <=> handled'[q][j] > 0)
      <4> SUFFICES ASSUME NEW n \in 1..Len(u), u[n].type = "response", u[n].id = j
                   PROVE  u[n].success <=> handled'[q][j] > 0
        BY <1>9
      <4>1. CASE u[n] = r
        <5>1. j = i
          BY <1>6, <4>1
        <5>2. handled'[q][j] > 0 <=> accepted
          BY <1>1, <1>3, <1>7, <1>10, <5>1
        <5>3. QED
          BY <1>6, <4>1, <5>2
      <4>2. ASSUME NEW l \in 1..Len(chan[q]), u[n] = chan[q][l]
            PROVE  u[n].success <=> handled'[q][j] > 0
        <5>1. j # i
          BY <1>7, <4>2 DEF Has
        <5>2. handled'[q][j] = handled[q][j]
          BY <1>1, <1>10, <5>1
        <5>3. QED
          BY <2>1, <4>2, <5>2 DEF CallFits
      <4>3. QED
        BY <1>8, <4>1, <4>2
    <3>3. CASE j = i
      <4>1. j \in busy'[p] => later /\ handled'[q][j] = 1
        BY <1>1, <1>5, <1>7, <1>10, <3>3
      <4>2. /\ j \in pending'[q] /\ ~Has(chan'[p], "request", j)
            /\ j \in busy'[p] => ~Has(chan'[q], "response", j)
        BY <1>4, <1>7, <3>1, <3>3, <4>1
      <4>3. j \in busy'[p] => handled'[q][j] > 0
        BY <4>1
      <4>4. QED
        BY <2>1, <3>1, <3>2, <4>2, <4>3 DEF CallFits
    <3>4. CASE j # i
      <4>1. handled'[q][j] = handled[q][j] /\ (j \in busy'[p] <=> j \in busy[p])
        BY <1>1, <1>10, <3>4
      <4>2. QED
        BY <1>4, <2>1, <3>1, <3>2, <3>4, <4>1 DEF CallFits
    <3>5. QED
      BY <3>3, <3>4
  <2>4. QED
    BY <2>2, <2>3
<1>14. NotesFit'
  <2>1. \A o \in Peers : Rising(chan'[o]) /\ NotesIn(chan'[o]) \subseteq NotesIn(chan[o])
    BY <1>1, <1>2, <1>8, <1>9
  <2>2. QED
    BY <1>4, <2>1 DEF ProxyInv, NotesFit
<1>15. QED
  BY <1>11, <1>12, <1>13, <1>14 DEF ProxyInv

LEMMA HandlerReturnsKeeps ==
  ASSUME ProxyInv, NEW p \in Peers, NEW i \in Ids, HandlerReturns(p, i)
  PROVE  ProxyInv'
<1> DEFINE q == Other(p)
           r == Response(i, TRUE)
           u == chan[q] \o Sent(p, r)
<1>1. /\ q \in Peers /\ q # p /\ Other(q) = p
      /\ \A o \in Peers : o = p \/ o = q
  BY PeersAreTwo
<1>2. /\ i \in busy[p]
      /\ busy' = [busy EXCEPT ![p] = busy[p] \ {i}]
      /\ chan' = [chan EXCEPT ![q] = u]
      /\ UNCHANGED <<pipe_vars, reading, lastRequest, pending, verb, result, handled,
                     handler_vars, notify_vars>>
  BY DEF HandlerReturns
<1>3. r \in Messages /\ r.type = "response" /\ r.id = i /\ r.success
  BY ResponsesAreMessages
<1> HIDE DEF r
<1>4. /\ i \in pending[q] /\ handled[q][i] > 0 /\ ~Has(chan[q], "response", i)
      /\ ~Has(chan[p], "request", i)
  BY <1>1, <1>2 DEF ProxyInv, MessagesFit, CallFits
<1>5. /\ u \in Seq(Messages)
      /\ \A j, type : Has(u, type, j) =>
             Has(chan[q], type, j) \/ (r.type = type /\ r.id = j)
      /\ \A j, type : OneAtMost(chan[q], type, j)
                      /\ ~(r.type = type /\ r.id = j /\ Has(chan[q], type, j))
             => OneAtMost(u, type, j)
      /\ \A n \in 1..Len(u) : u[n] = r \/ \E l \in 1..Len(chan[q]) : u[n] = chan[q][l]
      /\ \A k \in NotesIn(u) : k \in NotesIn(chan[q]) \/ (r.type = "notify" /\ k = r.number)
      /\ Rising(chan[q])
         /\ (r.type = "notify" => \A k \in NotesIn(chan[q]) : k < r.number) => Rising(u)
  BY <1>3, SentKeepsOthers
<1> HIDE DEF u
<1>6. /\ chan' \in [Peers -> Seq(Messages)] /\ chan'[p] = chan[p] /\ chan'[q] = u
      /\ busy' \in [Peers -> SUBSET Ids]
      /\ busy'[p] = busy[p] \ {i} /\ busy'[q] = busy[q]
  <2>1. chan' \in [Peers -> Seq(Messages)] /\ chan'[p] = chan[p] /\ chan'[q] = u
    BY <1>1, <1>2, <1>5, ChanIsMessages
  <2>2. /\ busy' \in [Peers -> SUBSET Ids]
        /\ busy'[p] = busy[p] \ {i} /\ busy'[q] = busy[q]
    BY <1>1, <1>2 DEF ProxyInv, ProxyOK
  <2>3. QED
    BY <2>1, <2>2
<1>7. ProxyOK'
  BY <1>2, <1>6 DEF ProxyInv, ProxyOK, Messages
<1>8. EndsFit' /\ ClosingFits' /\ QueriesFit'
  <2>1. EndsFit'
    BY <1>2 DEF ProxyInv, EndsFit
  <2>2. ClosingFits'
    BY <1>2 DEF ProxyInv, ClosingFits
  <2>3. QueriesFit'
    BY <1>2 DEF ProxyInv, QueriesFit
  <2>4. QED
    BY <2>1, <2>2, <2>3
<1> HIDE DEF q
<1>9. MessagesFit'
  <2> SUFFICES ASSUME NEW j \in Ids PROVE CallFits(p, j)' /\ CallFits(q, j)'
    BY <1>1 DEF MessagesFit
  <2>1. CallFits(p, j) /\ CallFits(q, j) /\ Other(p) = q /\ Other(q) = p
    BY <1>1 DEF ProxyInv, MessagesFit, q
  <2>2. CallFits(p, j)'
    <3>1. /\ OneAtMost(chan'[q], "request", j)
          /\ Has(chan'[q], "request", j) => Has(chan[q], "request", j)
      BY <1>3, <1>5, <1>6, <2>1 DEF CallFits
    <3>2. QED
      BY <1>2, <1>6, <2>1, <3>1 DEF CallFits
  <2>3. CallFits(q, j)'
    <3>1. /\ OneAtMost(chan'[q], "response", j)
          /\ Has(chan'[q], "response", j) => Has(chan[q], "response", j) \/ j = i
      BY <1>3, <1>4, <1>5, <1>6, <2>1 DEF CallFits
    <3>2. \A n \in 1..Len(chan'[q]) :
              chan'[q][n].type = "response" /\ chan'[q][n].id = j =>
              (chan'[q][n].success <=> handled'[q][j] > 0)
      <4> SUFFICES ASSUME NEW n \in 1..Len(u), u[n].type = "response", u[n].id = j
                   PROVE  u[n].success <=> handled[q][j] > 0
        BY <1>2, <1>6
      <4>1. CASE u[n] = r
        BY <1>3, <1>4, <4>1
      <4>2. ASSUME NEW l \in 1..Len(chan[q]), u[n] = chan[q][l]
            PROVE  u[n].success <=> handled[q][j] > 0
        BY <2>1, <4>2 DEF CallFits
      <4>3. QED
        BY <1>5, <4>1, <4>2
    <3>3. j = i => ~Has(chan[p], "request", j) /\ j \notin busy'[p] /\ j \in pending[q]
      BY <1>4, <1>6
    <3>4. j # i => (j \in busy'[p] <=> j \in busy[p])
      BY <1>6
    <3>5. CASE j = i
      BY <1>2, <1>6, <2>1, <3>1, <3>2, <3>3, <3>5 DEF CallFits
    <3>6. CASE j # i
      BY <1>2, <1>6, <2>1, <3>1, <3>2, <3>4, <3>6 DEF CallFits
    <3>7. QED
      BY <3>5, <3>6
  <2>4. QED
    BY <2>2, <2>3
<1>10. NotesFit'
  <2>1. \A o \in Peers : Rising(chan'[o]) /\ NotesIn(chan'[o]) \subseteq NotesIn(chan[o])
    BY <1>1, <1>3, <1>5, <1>6 DEF ProxyInv, NotesFit
  <2>2. QED
    BY <1>2, <2>1 DEF ProxyInv, NotesFit
<1>11. QED
  BY <1>7, <1>8, <1>9, <1>10 DEF ProxyInv

\* A response completes the query that waits for it, which then waits no more.
LEMMA ReadResponseKeeps ==
  ASSUME ProxyInv, NEW p \in Peers, ReadResponse(p)
  PROVE  ProxyInv'
<1> DEFINE q == Other(p)
           h == Head(chan[p])
           t == Tail(chan[p])
           i == h.id
           back == [status |-> "returned", from |-> i, success |-> h.success]
<1>1. /\ q \in Peers /\ q # p /\ Other(q) = p
      /\ \A o \in Peers : o = p \/ o = q
  BY PeersAreTwo
<1>2. /\ h \in Messages /\ t \in Seq(Messages)
      /\ \A j, type : Has(t, type, j) => Has(chan[p], type, j)
      /\ \A j, type : OneAtMost(chan[p], type, j) => OneAtMost(t, type, j)
      /\ \A n \in 1..Len(t) : \E m \in 1..Len(chan[p]) : t[n] = chan[p][m]
      /\ NotesIn(t) \subseteq NotesIn(chan[p]) /\ Rising(t)
      /\ \A j, type : h.type = type /\ h.id = j =>
             Has(chan[p], type, j) /\ (OneAtMost(chan[p], type, j) => ~Has(t, type, j))
  BY WhatIsRead DEF ReadResponse, Arrived
<1>3. h.type = "response" /\ i \in Ids /\ back \in Results
  <2>1. h.type = "response"
    BY DEF ReadResponse, Arrived
  <2> HIDE DEF h
  <2>2. h \in Responses
    BY <1>2, <2>1, TypesOfMessages
  <2>3. QED
    BY <2>1, <2>2 DEF Responses, Results
<1>4. /\ result' = [result EXCEPT ![p] = [j \in Ids |->
             IF j \in pending[p] \cap {i} THEN back ELSE result[p][j]]]
      /\ pending' = [pending EXCEPT ![p] = pending[p] \ (pending[p] \cap {i})]
      /\ chan' = [chan EXCEPT ![p] = t, ![q] = chan[q] \o <<>>]
      /\ reading' = [reading EXCEPT ![p] = pipe[p]] /\ reading[p]
      /\ UNCHANGED <<pipe_vars, lastRequest, verb, busy, handled, handler_vars, notify_vars>>
  <2>1. chan' = [chan EXCEPT ![p] = t, ![q] = @ \o <<>>]
    BY DEF ReadResponse, ReadAndWrite
  <2>2. chan' = [chan EXCEPT ![p] = t, ![q] = chan[q] \o <<>>]
    BY <1>1, <2>1, ChanIsMessages
  <2>3. QED
    BY <2>2 DEF ReadResponse, Arrived, ReadAndWrite, Matches, StillPending
<1> HIDE DEF h, t
<1>5. /\ i \in pending[p] /\ ~Has(t, "response", i)
      /\ ~Has(chan[q], "request", i) /\ i \notin busy[q]
  BY <1>1, <1>2, <1>3 DEF ProxyInv, MessagesFit, CallFits
<1>6. chan' \in [Peers -> Seq(Messages)] /\ chan'[p] = t /\ chan'[q] = chan[q]
  <2>1. chan[q] \o <<>> = chan[q]
    BY <1>1, ChanIsMessages, ConcatEmptySeq
  <2>2. QED
    BY <1>1, <1>2, <1>4, <2>1, ChanIsMessages
<1> HIDE DEF back
<1>7. /\ pending' \in [Peers -> SUBSET Ids]
      /\ result' \in [Peers -> [Ids -> {NotAsked, Waiting} \cup Results]]
      /\ pending'[p] = pending[p] \ {i} /\ pending'[q] = pending[q]
      /\ \A o \in Peers, j \in Ids :
             result'[o][j] = IF o = p /\ j = i THEN back ELSE result[o][j]
  <2>1. /\ pending' \in [Peers -> SUBSET Ids]
        /\ pending'[p] = pending[p] \ {i} /\ pending'[q] = pending[q]
    BY <1>1, <1>4, <1>5 DEF ProxyInv, ProxyOK
  <2>2. [j \in Ids |-> IF j \in pending[p] \cap {i} THEN back ELSE result[p][j]]
            \in [Ids -> {NotAsked, Waiting} \cup Results]
    BY <1>3 DEF ProxyInv, ProxyOK
  <2>3. result' \in [Peers -> [Ids -> {NotAsked, Waiting} \cup Results]]
    BY <1>4, <2>2 DEF ProxyInv, ProxyOK
  <2>4. \A o \in Peers, j \in Ids :
            result'[o][j] = IF o = p /\ j = i THEN back ELSE result[o][j]
    BY <1>1, <1>4, <1>5 DEF ProxyInv, ProxyOK
  <2>5. QED
    BY <2>1, <2>3, <2>4
<1>8. ProxyOK' /\ EndsFit' /\ ClosingFits'
  <2>1. EndsFit' /\ ClosingFits' /\ reading' \in [Peers -> BOOLEAN]
    BY <1>4, ReadingGoesOn
  <2>2. ProxyOK'
    BY <1>4, <1>6, <1>7, <2>1 DEF ProxyInv, ProxyOK, Messages
  <2>3. QED
    BY <2>1, <2>2
<1> HIDE DEF i, q
<1>9. QueriesFit'
  <2> SUFFICES ASSUME NEW o \in Peers, NEW j \in Ids
               PROVE  /\ j >= lastRequest[o] => result'[o][j] = NotAsked /\ handled[o][j] = 0
                      /\ j \in pending'[o] => result'[o][j] = Waiting /\ j < lastRequest[o]
                      /\ result'[o][j].status = "returned" => result'[o][j].from = j
    BY <1>4 DEF QueriesFit
  <2>1. /\ j >= lastRequest[o] => result[o][j] = NotAsked /\ handled[o][j] = 0
        /\ j \in pending[o] => result[o][j] = Waiting /\ j < lastRequest[o]
        /\ result[o][j].status = "returned" => result[o][j].from = j
    BY DEF ProxyInv, QueriesFit
  <2>2. CASE o = p /\ j = i
    <3>1. result'[o][j] = back /\ back.from = i /\ j \notin pending'[o]
      BY <1>7, <2>2 DEF back
    <3>2. ~(j >= lastRequest[o])
      BY <1>5, <2>1, <2>2, IdsAreNat DEF ProxyInv, ProxyOK
    <3>3. QED
      BY <2>2, <3>1, <3>2
  <2>3. CASE ~(o = p /\ j = i)
    <3>1. result'[o][j] = result[o][j]
      BY <1>7, <2>3
    <3>2. j \in pending'[o] => j \in pending[o]
      BY <1>1, <1>7
    <3>3. QED
      BY <2>1, <3>1, <3>2
  <2>4. QED
    BY <2>2, <2>3
<1>10. MessagesFit'
  <2> SUFFICES ASSUME NEW j \in Ids PROVE CallFits(p, j)' /\ CallFits(q, j)'
    BY <1>1 DEF MessagesFit
  <2>1. CallFits(p, j) /\ CallFits(q, j) /\ Other(p) = q /\ Other(q) = p
    BY <1>1 DEF ProxyInv, MessagesFit, q
  <2>2. CallFits(p, j)'
    <3>1. \A n \in 1..Len(chan'[p]) :
              chan'[p][n].type = "response" /\ chan'[p][n].id = j =>
              (chan'[p][n].success <=> handled[p][j] > 0)
      <4> SUFFICES ASSUME NEW n \in 1..Len(t), t[n].type = "response", t[n].id = j
                   PROVE  t[n].success <=> handled[p][j] > 0
        BY <1>6
      <4>1. PICK m \in 1..Len(chan[p]) : t[n] = chan[p][m]
        BY <1>2
      <4>2. QED
        BY <2>1, <4>1 DEF CallFits
    <3>2. /\ OneAtMost(chan'[p], "response", j)
          /\ Has(chan'[p], "response", j) => Has(chan[p], "response", j) /\ j # i
      BY <1>2, <1>5, <1>6, <2>1 DEF CallFits
    <3>3. j \in pending'[p] <=> j \in pending[p] /\ j # i
      BY <1>7
    <3>4. QED
      BY <1>4, <1>5, <1>6, <2>1, <3>1, <3>2, <3>3 DEF CallFits
  <2>3. CallFits(q, j)'
    <3>1. /\ OneAtMost(chan'[p], "request", j)
          /\ Has(chan'[p], "request", j) => Has(chan[p], "request", j)
      BY <1>2, <1>6, <2>1 DEF CallFits
    <3>2. QED
      <4>1. /\ chan'[q] = chan[q] /\ pending'[q] = pending[q]
            /\ UNCHANGED <<busy, handled>>
        BY <1>4, <1>6, <1>7
      <4>2. QED
        BY <2>1, <3>1, <4>1 DEF CallFits
  <2>4. QED
    BY <2>2, <2>3
<1>11. NotesFit'
  <2>1. \A o \in Peers : Rising(chan'[o]) /\ NotesIn(chan'[o]) \subseteq NotesIn(chan[o])
    BY <1>1, <1>2, <1>6 DEF ProxyInv, NotesFit
  <2>2. QED
    BY <1>4, <2>1 DEF ProxyInv, NotesFit
<1>12. QED
  BY <1>8, <1>9, <1>10, <1>11 DEF ProxyInv

\* A notification gets the next number and the last place.
LEMMA EmitKeeps ==
  ASSUME ProxyInv, NEW p \in Peers, Emit(p)
  PROVE  ProxyInv'
<1> DEFINE q == Other(p)
           k == emitted[p] + 1
           m == [type |-> "notify", number |-> k]
           u == chan[q] \o Sent(p, m)
<1>1. /\ q \in Peers /\ q # p /\ Other(q) = p
      /\ \A o \in Peers : o = p \/ o = q
  BY PeersAreTwo
<1>2. /\ chan' = [chan EXCEPT ![q] = u]
      /\ emitted' = [emitted EXCEPT ![p] = k]
      /\ UNCHANGED <<pipe_vars, reading, query_vars, handler_vars, heard>>
  BY DEF Emit
<1>3. emitted[p] \in Nat /\ k \in Nat /\ k > emitted[p]
  BY DEF ProxyInv, ProxyOK
<1>4. m \in Messages /\ m.type = "notify" /\ m.number = k
  <2> HIDE DEF k
  <2>1. QED
    BY <1>3 DEF Messages, Notifications
<1> HIDE DEF m
<1>5. /\ u \in Seq(Messages)
      /\ \A j, type : Has(u, type, j) =>
             Has(chan[q], type, j) \/ (m.type = type /\ m.id = j)
      /\ \A j, type : OneAtMost(chan[q], type, j)
                      /\ ~(m.type = type /\ m.id = j /\ Has(chan[q], type, j))
             => OneAtMost(u, type, j)
      /\ \A n \in 1..Len(u) : u[n] = m \/ \E l \in 1..Len(chan[q]) : u[n] = chan[q][l]
      /\ \A l \in NotesIn(u) : l \in NotesIn(chan[q]) \/ (m.type = "notify" /\ l = m.number)
      /\ Rising(chan[q])
         /\ (m.type = "notify" => \A l \in NotesIn(chan[q]) : l < m.number) => Rising(u)
  <2> HIDE DEF k
  <2>1. QED
    BY <1>4, SentKeepsOthers
<1> HIDE DEF u
<1>6. /\ chan' \in [Peers -> Seq(Messages)] /\ chan'[p] = chan[p] /\ chan'[q] = u
      /\ emitted' \in [Peers -> Nat] /\ emitted'[p] = k /\ emitted'[q] = emitted[q]
  <2>1. chan' \in [Peers -> Seq(Messages)] /\ chan'[p] = chan[p] /\ chan'[q] = u
    BY <1>1, <1>2, <1>5, ChanIsMessages
  <2> HIDE DEF k
  <2>2. emitted' \in [Peers -> Nat] /\ emitted'[p] = k /\ emitted'[q] = emitted[q]
    BY <1>1, <1>2, <1>3 DEF ProxyInv, ProxyOK
  <2>3. QED
    BY <2>1, <2>2
<1>7. ProxyOK'
  BY <1>2, <1>6 DEF ProxyInv, ProxyOK, Messages
<1>8. EndsFit' /\ ClosingFits' /\ QueriesFit'
  <2>1. EndsFit'
    BY <1>2 DEF ProxyInv, EndsFit
  <2>2. ClosingFits'
    BY <1>2 DEF ProxyInv, ClosingFits
  <2>3. QueriesFit'
    BY <1>2 DEF ProxyInv, QueriesFit
  <2>4. QED
    BY <2>1, <2>2, <2>3
<1>9. MessagesFit'
  <2>1. ASSUME NEW o \in Peers, NEW j \in Ids, NEW type \in {"request", "response"}
        PROVE  /\ Has(chan'[o], type, j) => Has(chan[o], type, j)
               /\ OneAtMost(chan[o], type, j) => OneAtMost(chan'[o], type, j)
    BY <1>1, <1>4, <1>5, <1>6
  <2>2. ASSUME NEW o \in Peers, NEW n \in 1..Len(chan'[o]), chan'[o][n].type = "response"
        PROVE  \E l \in 1..Len(chan[o]) : chan'[o][n] = chan[o][l]
    <3>1. CASE o = p
      BY <1>6, <3>1
    <3>2. CASE o = q
      BY <1>4, <1>5, <1>6, <2>2, <3>2
    <3>3. QED
      BY <1>1, <3>1, <3>2
  <2>3. MessagesFit /\ UNCHANGED <<pending, busy, handled>>
    BY <1>2 DEF ProxyInv
  <2>4. QED
    BY <2>1, <2>2, <2>3, NothingNewKeepsMessages
<1>10. NotesFit'
  <2>1. /\ \A o \in Peers : emitted[o] \in Nat
        /\ \A o \in Peers : heard[o] \in Seq(Nat)
        /\ \A o \in Peers : \A n \in 1..Len(heard[o]) : heard[o][n] \in Nat
    BY ElementOfSeq DEF ProxyInv, ProxyOK
  <2>2. /\ Rising(chan[q]) /\ \A l \in NotesIn(chan[q]) : l <= emitted[p]
        /\ \A n \in 1..Len(heard[q]) :
               heard[q][n] <= emitted[p] /\ \A l \in NotesIn(chan[q]) : heard[q][n] < l
        /\ \A l, n \in 1..Len(heard[q]) : l < n => heard[q][l] < heard[q][n]
    BY <1>1 DEF ProxyInv, NotesFit
  <2>3. \A l \in NotesIn(chan[q]) : l \in Nat
    <3>1. chan[q] \in Seq(Messages) /\ \A n \in 1..Len(chan[q]) : chan[q][n] \in Messages
      BY <1>1, ChanIsMessages, ElementOfSeq
    <3>2. QED
      BY <3>1, TypesOfMessages DEF NotesIn
  <2>4. /\ Rising(chan'[q]) /\ \A l \in NotesIn(chan'[q]) : l \in NotesIn(chan[q]) \/ l = k
    <3>1. \A l \in NotesIn(chan[q]) : l < k
      BY <1>3, <2>2, <2>3
    <3> HIDE DEF k
    <3>2. QED
      BY <1>4, <1>5, <1>6, <2>2, <3>1
  <2>5. /\ \A l \in NotesIn(chan'[q]) : l <= emitted'[p]
        /\ \A n \in 1..Len(heard[q]) :
               heard[q][n] <= emitted'[p] /\ \A l \in NotesIn(chan'[q]) : heard[q][n] < l
    <3>1. \A l \in NotesIn(chan'[q]) : l <= emitted'[p]
      BY <1>3, <1>6, <2>2, <2>3, <2>4
    <3>2. ASSUME NEW n \in 1..Len(heard[q])
          PROVE  heard[q][n] <= emitted'[p] /\ \A l \in NotesIn(chan'[q]) : heard[q][n] < l
      <4>1. heard[q][n] \in Nat /\ heard[q][n] <= emitted[p]
        BY <1>1, <2>1, <2>2
      <4>2. heard[q][n] <= emitted'[p] /\ heard[q][n] < k
        BY <1>3, <1>6, <4>1
      <4>3. \A l \in NotesIn(chan[q]) : heard[q][n] < l
        BY <2>2
      <4> HIDE DEF k
      <4>4. QED
        BY <2>4, <4>2, <4>3
    <3>3. QED
      BY <3>1, <3>2
  <2>6. \A o \in Peers : o # q => chan'[o] = chan[o] /\ emitted'[Other(o)] = emitted[Other(o)]
    BY <1>1, <1>6
  <2> HIDE DEF k
  <2>7. QED
    BY <1>1, <1>2, <2>2, <2>4, <2>5, <2>6 DEF ProxyInv, NotesFit
<1>11. QED
  BY <1>7, <1>8, <1>9, <1>10 DEF ProxyInv

\* A notification is heard after those that were emitted before it.
LEMMA ReadNotifyKeeps ==
  ASSUME ProxyInv, NEW p \in Peers, ReadNotify(p)
  PROVE  ProxyInv'
<1> DEFINE q == Other(p)
           h == Head(chan[p])
           t == Tail(chan[p])
           k == h.number
<1>1. /\ q \in Peers /\ q # p /\ Other(q) = p
      /\ \A o \in Peers : o = p \/ o = q
  BY PeersAreTwo
<1>2. /\ h \in Messages /\ t \in Seq(Messages)
      /\ \A j, type : Has(t, type, j) => Has(chan[p], type, j)
      /\ \A j, type : OneAtMost(chan[p], type, j) => OneAtMost(t, type, j)
      /\ \A n \in 1..Len(t) : \E m \in 1..Len(chan[p]) : t[n] = chan[p][m]
      /\ NotesIn(t) \subseteq NotesIn(chan[p]) /\ Rising(t)
      /\ h.type = "notify" => k \in NotesIn(chan[p]) /\ \A l \in NotesIn(t) : k < l
  BY WhatIsRead DEF ReadNotify, Arrived
<1>3. h.type = "notify" /\ k \in Nat
  <2>1. h.type = "notify"
    BY DEF ReadNotify, Arrived
  <2> HIDE DEF h
  <2>2. QED
    BY <1>2, <2>1, TypesOfMessages
<1>4. /\ heard' = [heard EXCEPT ![p] = Heard(p, k)]
      /\ chan' = [chan EXCEPT ![p] = t, ![q] = chan[q] \o <<>>]
      /\ reading' = [reading EXCEPT ![p] = pipe[p]] /\ reading[p]
      /\ UNCHANGED <<pipe_vars, query_vars, handler_vars, emitted>>
  <2>1. chan' = [chan EXCEPT ![p] = t, ![q] = @ \o <<>>]
    BY DEF ReadNotify, ReadAndWrite
  <2>2. chan' = [chan EXCEPT ![p] = t, ![q] = chan[q] \o <<>>]
    BY <1>1, <2>1, ChanIsMessages
  <2>3. QED
    BY <2>2 DEF ReadNotify, Arrived, ReadAndWrite
<1> HIDE DEF h, t
<1>5. chan' \in [Peers -> Seq(Messages)] /\ chan'[p] = t /\ chan'[q] = chan[q]
  <2>1. chan[q] \o <<>> = chan[q]
    BY <1>1, ChanIsMessages, ConcatEmptySeq
  <2>2. QED
    BY <1>1, <1>2, <1>4, <2>1, ChanIsMessages
<1> HIDE DEF k, q
<1>6. \A o \in Peers : heard[o] \in Seq(Nat) /\ emitted[o] \in Nat
  BY DEF ProxyInv, ProxyOK
<1>7. /\ heard' \in [Peers -> Seq(Nat)] /\ heard'[q] = heard[q]
      /\ heard'[p] = heard[p] \/ heard'[p] = Append(heard[p], k)
  <2>1. Heard(p, k) = heard[p] \/ Heard(p, k) = Append(heard[p], k)
    BY DEF Heard
  <2>2. Heard(p, k) \in Seq(Nat)
    <3>1. CASE Heard(p, k) = heard[p]
      BY <1>6, <3>1
    <3>2. CASE Heard(p, k) = Append(heard[p], k)
      <4>1. heard[p] \in Seq(Nat)
        BY <1>6
      <4>2. Append(heard[p], k) \in Seq(Nat)
        BY <1>3, <4>1, AppendProperties
      <4>3. QED
        BY <3>2, <4>2
    <3>3. QED
      BY <2>1, <3>1, <3>2
  <2>3. QED
    BY <1>1, <1>4, <2>1, <2>2 DEF ProxyInv, ProxyOK
<1>8. ProxyOK' /\ EndsFit' /\ ClosingFits'
  <2>1. EndsFit' /\ ClosingFits' /\ reading' \in [Peers -> BOOLEAN]
    BY <1>4, ReadingGoesOn
  <2>2. ProxyOK'
    BY <1>4, <1>5, <1>7, <2>1 DEF ProxyInv, ProxyOK, Messages
  <2>3. QED
    BY <2>1, <2>2
<1>9. QueriesFit'
  BY <1>4 DEF ProxyInv, QueriesFit
<1>10. MessagesFit'
  <2>1. ASSUME NEW o \in Peers
        PROVE  /\ \A j, type : Has(chan'[o], type, j) => Has(chan[o], type, j)
               /\ \A j, type : OneAtMost(chan[o], type, j) => OneAtMost(chan'[o], type, j)
               /\ \A n \in 1..Len(chan'[o]) : \E m \in 1..Len(chan[o]) :
                      chan'[o][n] = chan[o][m]
    <3>1. CASE o = p
      BY <1>2, <1>5, <3>1
    <3>2. CASE o = q
      BY <1>5, <3>2
    <3>3. QED
      BY <1>1, <3>1, <3>2
  <2>2. MessagesFit /\ UNCHANGED <<pending, busy, handled>>
    BY <1>4 DEF ProxyInv
  <2>3. QED
    BY <2>1, <2>2, NothingNewKeepsMessages
<1>11. NotesFit'
  <2>1. /\ \A l \in NotesIn(chan[p]) : l <= emitted[q]
        /\ \A n \in 1..Len(heard[p]) :
               heard[p][n] <= emitted[q] /\ \A l \in NotesIn(chan[p]) : heard[p][n] < l
        /\ \A m, n \in 1..Len(heard[p]) : m < n => heard[p][m] < heard[p][n]
    BY DEF ProxyInv, NotesFit, q
  <2>2. k \in NotesIn(chan[p]) /\ \A l \in NotesIn(t) : k < l /\ l \in NotesIn(chan[p])
    BY <1>2, <1>3
  <2>3. /\ Rising(chan'[p]) /\ \A l \in NotesIn(chan'[p]) : l <= emitted[q]
        /\ \A n \in 1..Len(heard'[p]) :
               heard'[p][n] <= emitted[q] /\ \A l \in NotesIn(chan'[p]) : heard'[p][n] < l
        /\ \A m, n \in 1..Len(heard'[p]) : m < n => heard'[p][m] < heard'[p][n]
    <3>1. CASE heard'[p] = heard[p]
      BY <1>2, <1>5, <2>1, <2>2, <3>1
    <3>2. CASE heard'[p] = Append(heard[p], k)
      <4>1. /\ Len(heard'[p]) = Len(heard[p]) + 1 /\ Len(heard[p]) \in Nat
            /\ \A n \in 1..Len(heard[p]) : heard'[p][n] = heard[p][n]
            /\ heard'[p][Len(heard[p]) + 1] = k
        BY <1>3, <1>6, <3>2, AppendProperties
      <4>2. /\ \A n \in 1..Len(heard'[p]) : n \in 1..Len(heard[p]) \/ n = Len(heard[p]) + 1
            /\ \A m, n \in 1..Len(heard'[p]) : m < n => m \in 1..Len(heard[p])
        BY <4>1
      <4>3. \A n \in 1..Len(heard'[p]) :
                heard'[p][n] <= emitted[q] /\ \A l \in NotesIn(chan'[p]) : heard'[p][n] < l
        BY <1>5, <2>1, <2>2, <4>1, <4>2
      <4>4. \A m, n \in 1..Len(heard'[p]) : m < n => heard'[p][m] < heard'[p][n]
        BY <2>1, <2>2, <4>1, <4>2
      <4>5. QED
        BY <1>2, <1>5, <2>1, <2>2, <4>3, <4>4
    <3>3. QED
      BY <1>7, <3>1, <3>2
  <2>4. chan'[q] = chan[q] /\ heard'[q] = heard[q] /\ UNCHANGED emitted
    BY <1>4, <1>5, <1>7
  <2>5. QED
    BY <1>1, <2>3, <2>4 DEF ProxyInv, NotesFit, q
<1>12. QED
  BY <1>8, <1>9, <1>10, <1>11 DEF ProxyInv

LEMMA InitProxyInv == ProxyInit => ProxyInv
<1> SUFFICES ASSUME ProxyInit PROVE ProxyInv
  OBVIOUS
<1>1. /\ \A p \in Peers : signals[p] = <<>> /\ chan[p] = <<>> /\ heard[p] = <<>>
      /\ \A p \in Peers : ~reading[p] /\ ~hasBeenClosed[p]
      /\ \A p \in Peers : pending[p] = {} /\ busy[p] = {} /\ lastRequest[p] = 1
      /\ \A p \in Peers, i \in Ids : result[p][i] = NotAsked /\ handled[p][i] = 0
      /\ pipe["server"] /\ namedPipe = "listening"
      /\ sources = {} /\ completions = 0
  BY PeersAreTwo DEF ProxyInit, NewPipe
<1>2. ProxyOK
  <2>1. <<>> \in Seq(BOOLEAN) /\ <<>> \in Seq(Messages) /\ <<>> \in Seq(Nat)
    OBVIOUS
  <2>2. pipe \in [Peers -> BOOLEAN] /\ reading \in [Peers -> BOOLEAN]
    BY DEF ProxyInit
  <2>3. hasBeenClosed \in [Peers -> BOOLEAN] /\ registered \in [Peers -> SUBSET Handled]
    BY DEF ProxyInit
  <2>4. /\ signals \in [Peers -> Seq(BOOLEAN)] /\ chan \in [Peers -> Seq(Messages)]
        /\ heard \in [Peers -> Seq(Nat)]
    BY <2>1 DEF ProxyInit
  <2>5. /\ namedPipe \in {"listening", "connected", "broken", "gone"}
        /\ phase \in [Peers -> {"new", "connecting", "up", "failed"}]
        /\ sources \subseteq {"wait", "timeout"} /\ completions \in 0..1
        /\ lastRequest \in [Peers -> Nat \ {0}]
        /\ pending \in [Peers -> SUBSET Ids] /\ busy \in [Peers -> SUBSET Ids]
        /\ changes \in [Peers -> Nat] /\ emitted \in [Peers -> Nat]
    BY DEF ProxyInit, NewPipe
  <2>6. /\ verb \in [Peers -> [Ids -> {"sync", "async", "unknown"}]]
        /\ result \in [Peers -> [Ids -> {NotAsked, Waiting} \cup Results]]
        /\ handled \in [Peers -> [Ids -> Nat]]
    BY DEF ProxyInit
  <2>7. QED
    BY <2>2, <2>3, <2>4, <2>5, <2>6 DEF ProxyOK, Messages
<1>3. EndsFit /\ QueriesFit
  BY <1>1 DEF EndsFit, QueriesFit, NotAsked
<1>4. ClosingFits
  BY <1>1, OneSignal DEF ClosingFits
<1>5. \A p \in Peers : \A type, i : ~Has(chan[p], type, i) /\ OneAtMost(chan[p], type, i)
  BY <1>1 DEF Has, OneAtMost
<1>6. MessagesFit
  BY <1>1, <1>5, PeersAreTwo DEF MessagesFit, CallFits
<1>7. NotesFit
  BY <1>1 DEF NotesFit, Rising, NotesIn
<1>8. QED
  BY <1>2, <1>3, <1>4, <1>6, <1>7 DEF ProxyInv

LEMMA NextKeepsProxyInv == ProxyInv /\ [ProxyNext]_proxyVars => ProxyInv'
<1> SUFFICES ASSUME ProxyInv, [ProxyNext]_proxyVars PROVE ProxyInv'
  OBVIOUS
<1>1. CASE UNCHANGED proxyVars
  <2>1. UNCHANGED <<pipe_vars, reading, chan, query_vars, handler_vars, notify_vars>>
    BY <1>1 DEF proxyVars
  <2>2. ProxyOK'
    BY <2>1 DEF ProxyInv, ProxyOK
  <2>3. EndsFit' /\ ClosingFits'
    BY <2>1 DEF ProxyInv, EndsFit, ClosingFits
  <2>4. QED
    BY <2>1, <2>2, <2>3, QuietKeepsMessages DEF ProxyInv
<1>2. CASE \/ ClientEstablish \/ WaitSatisfied \/ WaitTimedOut
           \/ \E timeout \in BOOLEAN : ServerEstablish(timeout)
  BY <1>2, EstablishKeeps
<1>3. CASE \E p \in Peers : CloseProxy(p) \/ ReadFails(p)
  BY <1>3, CloseProxyKeeps, ReadFailsKeeps
<1>4. CASE \E p \in Peers : \/ ReadRequest(p) \/ ReadResponse(p)
                            \/ \E v \in Verbs : Query(p, v)
                            \/ \E i \in Ids : HandlerReturns(p, i)
  BY <1>4, ReadRequestKeeps, ReadResponseKeeps, QueryKeeps, HandlerReturnsKeeps
<1>5. CASE \E p \in Peers : \/ Emit(p) \/ ReadNotify(p)
                            \/ \E what \in Handled : Unregister(p, what) \/ Register(p, what)
  BY <1>5, EmitKeeps, ReadNotifyKeeps, HandlersKeep
<1>6. QED
  BY <1>1, <1>2, <1>3, <1>4, <1>5 DEF ProxyNext

LEMMA ProxyInvHolds == ProxySpec => []ProxyInv
  BY InitProxyInv, NextKeepsProxyInv, PTL DEF ProxySpec

\* Every state of the two proxies is well typed, however often their handlers change and
\* however many queries and notifications cross.
THEOREM ProxyTypeCorrect == ProxySpec => []ProxyOK
<1>1. ProxyInv => ProxyOK
  BY DEF ProxyInv
<1>2. QED
  BY <1>1, ProxyInvHolds, PTL

LEMMA OneSideClosedHolds == ProxyInv => OneSideClosed
<1> SUFFICES ASSUME ProxyInv, NEW p \in Peers
             PROVE  Len(signals[p]) <= 1
                    /\ (signals[p] = <<TRUE>> => signals[Other(p)] = <<FALSE>>)
  BY DEF OneSideClosed
<1>1. Len(<<>>) = 0 /\ Len(<<FALSE>>) = 1 /\ Len(<<TRUE>>) = 1
  OBVIOUS
<1>2. signals[p] \in {<<>>, <<FALSE>>, <<TRUE>>}
  BY DEF ProxyInv, ClosingFits
<1>3. Len(signals[p]) <= 1
  <2>1. CASE signals[p] = <<>>
    BY <1>1, <2>1
  <2>2. CASE signals[p] = <<FALSE>>
    BY <1>1, <2>2
  <2>3. CASE signals[p] = <<TRUE>>
    BY <1>1, <2>3
  <2>4. QED
    BY <1>2, <2>1, <2>2, <2>3
<1>4. QED
  BY <1>3 DEF ProxyInv, ClosingFits

\* No coroutine is resumed twice: a response on its way, or a handler at work, has a query
\* that waits for it, which no other has, and the query returns its own answer; the
\* server's wait ends once; notifications are heard in order and once; and the closing
\* of the pipe is told to each end once, with one end to blame at most.
THEOREM MessagesServedOnce == ProxySpec => []MessagesAreServedOnce
<1>1. ASSUME ProxyInv PROVE MessagesAreServedOnce
  <2>1. OneSideClosed /\ completions <= 1
    BY <1>1, OneSideClosedHolds DEF ProxyInv, ProxyOK
  <2>2. ASSUME NEW p \in Peers, NEW i \in Ids
        PROVE  LET coming == {n \in 1..Len(chan[p]) : /\ chan[p][n].type = "response"
                                                      /\ chan[p][n].id = i}
               IN  /\ Cardinality(coming) <= 1
                   /\ coming # {} => i \in pending[p] /\ i \notin busy[Other(p)]
                   /\ i \in busy[Other(p)] => i \in pending[p]
                   /\ result[p][i].status = "returned" => result[p][i].from = i
    <3> DEFINE coming == {n \in 1..Len(chan[p]) : /\ chan[p][n].type = "response"
                                                  /\ chan[p][n].id = i}
    <3>1. CallFits(p, i)
      BY <1>1 DEF ProxyInv, MessagesFit
    <3>2. coming # {} => Has(chan[p], "response", i)
      BY DEF Has
    <3>3. \A m, n \in coming : m = n
      BY <3>1 DEF CallFits, OneAtMost
    <3> HIDE DEF coming
    <3>4. Cardinality(coming) <= 1
      <4>1. CASE coming = {}
        BY <4>1, FS_EmptySet
      <4>2. ASSUME NEW n \in coming PROVE Cardinality(coming) <= 1
        <5>1. coming = {n}
          BY <3>3, <4>2
        <5>2. Cardinality({n}) = 1
          BY FS_Singleton
        <5>3. QED
          BY <5>1, <5>2
      <4>3. QED
        BY <4>1, <4>2
    <3>5. /\ coming # {} => i \in pending[p] /\ i \notin busy[Other(p)]
          /\ i \in busy[Other(p)] => i \in pending[p]
      BY <3>1, <3>2 DEF CallFits
    <3>6. result[p][i].status = "returned" => result[p][i].from = i
      BY <1>1 DEF ProxyInv, QueriesFit
    <3>7. QED
      BY <3>4, <3>5, <3>6 DEF coming
  <2>3. \A p \in Peers : \A m, n \in 1..Len(heard[p]) : m < n => heard[p][m] < heard[p][n]
    BY <1>1 DEF ProxyInv, NotesFit
  <2>4. QED
    BY <2>1, <2>2, <2>3 DEF MessagesAreServedOnce
<1>2. QED
  BY <1>1, ProxyInvHolds, PTL

-----------------------------------------------------------------------------
(* The queries are calls of the other end that are carried out at most once. *)

ReturnedWith(p, i, success) ==
    \E from \in Ids :
        result[p][i] = [status |-> "returned", from |-> from, success |-> success]

Asked == {c \in Calls : result[c[1]][c[2]] # NotAsked}
Done == {c \in Calls : handled[c[1]][c[2]] > 0}
Returned == {r \in Calls \X BOOLEAN : ReturnedWith(r[1][1], r[1][2], r[2])}

LEMMA CallsArePairs ==
  /\ \A c \in Calls : c = <<c[1], c[2]>> /\ c[1] \in Peers /\ c[2] \in Ids
  /\ \A p \in Peers, i \in Ids :
         <<p, i>> \in Calls /\ <<p, i>>[1] = p /\ <<p, i>>[2] = i
  /\ \A r \in Calls \X BOOLEAN :
         r = <<r[1], r[2]>> /\ r[1] \in Calls /\ r[2] \in BOOLEAN
  BY DEF Calls

LEMMA OnlyAnswersReturn ==
  /\ Waiting # NotAsked
  /\ \A from \in Ids, s \in BOOLEAN :
         LET back == [status |-> "returned", from |-> from, success |-> s]
         IN  back # Waiting /\ back # NotAsked
  BY DEF Waiting, NotAsked

\* A step that leaves the results and the handlers' runs alone is none of the calls'.
LEMMA NothingCalled ==
  ASSUME UNCHANGED <<result, handled>>
  PROVE  UNCHANGED <<Asked, Done, Returned>>
  BY DEF Asked, Done, Returned, ReturnedWith

LEMMA QueryAsks ==
  ASSUME ProxyInv, NEW p \in Peers, NEW v \in Verbs, Query(p, v)
  PROVE  \E c \in Calls : /\ c \notin Asked /\ Asked' = Asked \cup {c}
                          /\ UNCHANGED <<Done, Returned>>
<1> DEFINE i == lastRequest[p]
           c == <<p, i>>
<1>1. i \in Ids
  BY IdsAreNat DEF Query, ProxyInv, ProxyOK
<1>2. result' = [result EXCEPT ![p] = [result[p] EXCEPT ![i] = Waiting]] /\ UNCHANGED handled
  BY DEF Query
<1> HIDE DEF i
<1>3. \A o \in Peers, j \in Ids :
          result'[o][j] = IF o = p /\ j = i THEN Waiting ELSE result[o][j]
  BY <1>1, <1>2 DEF ProxyInv, ProxyOK
<1>4. result[p][i] = NotAsked
  BY <1>1, IdsAreNat DEF ProxyInv, QueriesFit, i
<1>5. c \in Calls /\ c[1] = p /\ c[2] = i
  BY <1>1, CallsArePairs
<1>6. \A d \in Calls : d # c => d[1] # p \/ d[2] # i
  BY CallsArePairs
<1> HIDE DEF c
<1>7. c \notin Asked /\ Asked' = Asked \cup {c}
  <2>1. Waiting # NotAsked
    BY DEF Waiting, NotAsked
  <2>2. \A d \in Calls : d \in Asked' <=> d \in Asked \/ d = c
    BY <1>3, <1>5, <1>6, <2>1, CallsArePairs DEF Asked
  <2>3. QED
    BY <1>4, <1>5, <2>2 DEF Asked
<1>8. UNCHANGED Returned
  <2>1. \A o \in Peers, j \in Ids, s \in BOOLEAN :
            ReturnedWith(o, j, s)' <=> ReturnedWith(o, j, s)
    <3> SUFFICES ASSUME NEW o \in Peers, NEW j \in Ids, NEW s \in BOOLEAN
                 PROVE  ReturnedWith(o, j, s)' <=> ReturnedWith(o, j, s)
      OBVIOUS
    <3>1. CASE o = p /\ j = i
      <4>1. result[p][i] = NotAsked /\ result'[p][i] = Waiting
        BY <1>1, <1>3, <1>4
      <4>2. QED
        BY <3>1, <4>1, OnlyAnswersReturn DEF ReturnedWith
    <3>2. CASE ~(o = p /\ j = i)
      BY <1>3, <3>2 DEF ReturnedWith
    <3>3. QED
      BY <3>1, <3>2
  <2>2. QED
    BY <2>1, CallsArePairs DEF Returned
<1>9. UNCHANGED Done
  BY <1>2 DEF Done
<1>10. QED
  BY <1>5, <1>7, <1>8, <1>9

LEMMA ReadRequestCarriesOut ==
  ASSUME ProxyInv, NEW p \in Peers, ReadRequest(p)
  PROVE  \/ UNCHANGED <<Asked, Done, Returned>>
         \/ \E c \in Calls : /\ c \in Asked \ Done /\ Done' = Done \cup {c}
                             /\ UNCHANGED <<Asked, Returned>>
<1> DEFINE q == Other(p)
           h == Head(chan[p])
           i == h.id
           c == <<q, i>>
<1>1. q \in Peers /\ Other(q) = p
  BY PeersAreTwo
<1>2. chan[p] # <<>> /\ h.type = "request" /\ UNCHANGED result
  BY DEF ReadRequest, Arrived
<1>3. h \in Messages /\ Has(chan[p], "request", i)
  BY <1>2, WhatIsRead
<1> HIDE DEF h
<1>4. i \in Ids
  BY <1>2, <1>3, TypesOfMessages
<1>5. i \in pending[q] /\ handled[q][i] = 0
  BY <1>1, <1>3, <1>4 DEF ProxyInv, MessagesFit, CallFits
<1>6. result[q][i] = Waiting
  BY <1>1, <1>4, <1>5 DEF ProxyInv, QueriesFit
<1>7. CASE UNCHANGED handled
  BY <1>2, <1>7, NothingCalled
<1>8. CASE handled' = [handled EXCEPT ![q] = [handled[q] EXCEPT ![i] = @ + 1]]
  <2>1. c \in Calls /\ c[1] = q /\ c[2] = i
    BY <1>1, <1>4, CallsArePairs
  <2>2. \A d \in Calls : d # c => d[1] # q \/ d[2] # i
    BY CallsArePairs
  <2> HIDE DEF c, q, i
  <2>3. \A o \in Peers, j \in Ids :
            handled'[o][j] = IF o = q /\ j = i THEN 1 ELSE handled[o][j]
    <3>1. handled \in [Peers -> [Ids -> Nat]] /\ handled[q][i] + 1 = 1
      BY <1>5 DEF ProxyInv, ProxyOK
    <3>2. QED
      BY <1>1, <1>4, <1>8, <3>1
  <2>4. c \in Asked \ Done
    <3>1. Waiting # NotAsked /\ ~(0 > 0)
      BY DEF Waiting, NotAsked
    <3>2. QED
      BY <1>5, <1>6, <2>1, <3>1 DEF Asked, Done
  <2>5. \A d \in Calls : d \in Done' <=> d \in Done \/ d = c
    BY <2>1, <2>2, <2>3, CallsArePairs DEF Done
  <2>6. Done' = Done \cup {c}
    BY <2>1, <2>5 DEF Done
  <2>7. UNCHANGED <<Asked, Returned>>
    BY <1>2 DEF Asked, Returned, ReturnedWith
  <2>8. QED
    BY <2>1, <2>4, <2>6, <2>7
<1>9. QED
  BY <1>7, <1>8 DEF ReadRequest, h

LEMMA ReadResponseReturns ==
  ASSUME ProxyInv, NEW p \in Peers, ReadResponse(p)
  PROVE  \E c \in Calls, success \in BOOLEAN :
             /\ c \in Asked /\ \A s \in BOOLEAN : <<c, s>> \notin Returned
             /\ success <=> c \in Done
             /\ Returned' = Returned \cup {<<c, success>>}
             /\ UNCHANGED <<Asked, Done>>
<1> DEFINE h == Head(chan[p])
           i == h.id
           c == <<p, i>>
           success == h.success
           back == [status |-> "returned", from |-> i, success |-> success]
<1>1. chan[p] # <<>> /\ h.type = "response" /\ UNCHANGED handled
  BY DEF ReadResponse, Arrived
<1>2. result' = [result EXCEPT ![p] = [j \in Ids |->
          IF j \in pending[p] \cap {i} THEN back ELSE result[p][j]]]
  BY DEF ReadResponse, Matches
<1>3. /\ h \in Messages /\ Has(chan[p], "response", i)
      /\ \E n \in 1..Len(chan[p]) : chan[p][n] = h
  BY <1>1, WhatIsRead
<1> HIDE DEF h
<1>4. i \in Ids /\ success \in BOOLEAN
  <2>1. h \in Responses
    BY <1>1, <1>3, TypesOfMessages
  <2>2. QED
    BY <2>1 DEF Responses
<1>5. i \in pending[p] /\ (success <=> handled[p][i] > 0)
  <2>1. CallFits(p, i)
    BY <1>4 DEF ProxyInv, MessagesFit
  <2>2. PICK n \in 1..Len(chan[p]) : chan[p][n] = h
    BY <1>3
  <2>3. QED
    BY <1>1, <1>3, <2>1, <2>2 DEF CallFits
<1>6. result[p][i] = Waiting
  BY <1>4, <1>5 DEF ProxyInv, QueriesFit
<1>7. c \in Calls /\ c[1] = p /\ c[2] = i
  BY <1>4, CallsArePairs
<1>8. \A d \in Calls : d # c => d[1] # p \/ d[2] # i
  BY CallsArePairs
<1>9. /\ back # NotAsked /\ Waiting # NotAsked
      /\ \A s \in BOOLEAN, from \in Ids :
             Waiting # [status |-> "returned", from |-> from, success |-> s]
      /\ \A s \in BOOLEAN, from \in Ids :
             back = [status |-> "returned", from |-> from, success |-> s]
             <=> from = i /\ s = success
  BY DEF Waiting, NotAsked
<1> HIDE DEF c, i, success, back
<1>10. \A o \in Peers, j \in Ids :
           result'[o][j] = IF o = p /\ j = i THEN back ELSE result[o][j]
  BY <1>2, <1>4, <1>5 DEF ProxyInv, ProxyOK
<1>11. \A o \in Peers, j \in Ids, s \in BOOLEAN :
           ReturnedWith(o, j, s)' <=>
               ReturnedWith(o, j, s) \/ (o = p /\ j = i /\ s = success)
  <2> SUFFICES ASSUME NEW o \in Peers, NEW j \in Ids, NEW s \in BOOLEAN
               PROVE  ReturnedWith(o, j, s)' <=>
                          ReturnedWith(o, j, s) \/ (o = p /\ j = i /\ s = success)
    OBVIOUS
  <2>1. CASE o = p /\ j = i
    <3>1. result'[o][j] = back /\ ~ReturnedWith(o, j, s)
      BY <1>6, <1>9, <1>10, <2>1 DEF ReturnedWith
    <3>2. QED
      BY <1>4, <1>9, <2>1, <3>1 DEF ReturnedWith
  <2>2. CASE ~(o = p /\ j = i)
    BY <1>10, <2>2 DEF ReturnedWith
  <2>3. QED
    BY <2>1, <2>2
<1>12. ASSUME NEW s \in BOOLEAN PROVE <<c, s>> \notin Returned
  BY <1>6, <1>7, <1>9 DEF Returned, ReturnedWith
<1>13. Returned' = Returned \cup {<<c, success>>}
  <2>1. \A r \in Calls \X BOOLEAN : r \in Returned' <=> r \in Returned \/ r = <<c, success>>
    <3> SUFFICES ASSUME NEW r \in Calls \X BOOLEAN
                 PROVE  r \in Returned' <=> r \in Returned \/ r = <<c, success>>
      OBVIOUS
    <3>1. /\ r[1] \in Calls /\ r[1][1] \in Peers /\ r[1][2] \in Ids /\ r[2] \in BOOLEAN
          /\ r = <<c, success>> <=> r[1][1] = p /\ r[1][2] = i /\ r[2] = success
      BY <1>7, <1>8, CallsArePairs
    <3>2. QED
      BY <1>11, <3>1 DEF Returned
  <2>2. <<c, success>> \in Calls \X BOOLEAN
    BY <1>4, <1>7
  <2>3. QED
    BY <2>1, <2>2 DEF Returned
<1>14. UNCHANGED Asked
  <2>1. \A d \in Calls : d \in Asked' <=> d \in Asked
    BY <1>6, <1>9, <1>10, CallsArePairs DEF Asked
  <2>2. QED
    BY <2>1 DEF Asked
<1>15. UNCHANGED Done /\ c \in Asked /\ (success <=> c \in Done)
  <2>1. UNCHANGED Done
    BY <1>1 DEF Done
  <2>2. c \in Asked
    BY <1>6, <1>7, <1>9 DEF Asked
  <2>3. c \in Done <=> handled[p][i] > 0
    BY <1>7 DEF Done
  <2>4. QED
    BY <1>5, <2>1, <2>2, <2>3
<1>16. QED
  BY <1>4, <1>7, <1>12, <1>13, <1>14, <1>15

LEMMA StepsAreCalls ==
  ASSUME ProxyInv, [ProxyNext]_proxyVars
  PROVE  \/ UNCHANGED <<Asked, Done, Returned>>
         \/ \E c \in Calls :
                \/ /\ c \notin Asked /\ Asked' = Asked \cup {c}
                   /\ UNCHANGED <<Done, Returned>>
                \/ /\ c \in Asked \ Done /\ Done' = Done \cup {c}
                   /\ UNCHANGED <<Asked, Returned>>
                \/ \E success \in BOOLEAN :
                       /\ c \in Asked /\ \A s \in BOOLEAN : <<c, s>> \notin Returned
                       /\ success <=> c \in Done
                       /\ Returned' = Returned \cup {<<c, success>>}
                       /\ UNCHANGED <<Asked, Done>>
<1>1. CASE UNCHANGED proxyVars
  BY <1>1, NothingCalled DEF proxyVars
<1>2. CASE \/ ClientEstablish \/ WaitSatisfied \/ WaitTimedOut
           \/ \E timeout \in BOOLEAN : ServerEstablish(timeout)
  <2>1. UNCHANGED <<result, handled>>
    BY <1>2 DEF ClientEstablish, WaitSatisfied, WaitTimedOut, ServerEstablish
  <2>2. QED
    BY <2>1, NothingCalled
<1>3. CASE \E p \in Peers :
               \/ CloseProxy(p) \/ ReadFails(p) \/ Emit(p) \/ ReadNotify(p)
               \/ \E what \in Handled : Unregister(p, what) \/ Register(p, what)
               \/ \E i \in Ids : HandlerReturns(p, i)
  <2>1. UNCHANGED <<result, handled>>
    BY <1>3 DEF CloseProxy, ReadFails, Emit, ReadNotify, Unregister, Register,
                HandlerReturns
  <2>2. QED
    BY <2>1, NothingCalled
<1>4. CASE \E p \in Peers : \E v \in Verbs : Query(p, v)
  BY <1>4, QueryAsks
<1>5. CASE \E p \in Peers : ReadRequest(p)
  BY <1>5, ReadRequestCarriesOut
<1>6. CASE \E p \in Peers : ReadResponse(p)
  BY <1>6, ReadResponseReturns
<1>7. QED
  BY <1>1, <1>2, <1>3, <1>4, <1>5, <1>6 DEF ProxyNext

\* The queries at both ends are at-most-once calls of the other's handlers: a call is
\* carried out at most once, and it returns at most once, with success exactly if its
\* handler has run.
THEOREM ProxyImplementsCall == ProxySpec => ImplementsAtMostOnceCall
<1>1. ProxyInit => Abstract!Init
  <2> SUFFICES ASSUME ProxyInit PROVE Asked = {} /\ Done = {} /\ Returned = {}
    BY DEF Abstract!Init, Asked, Done, Returned, ReturnedWith
  <2>1. \A p \in Peers, i \in Ids : result[p][i] = NotAsked /\ handled[p][i] = 0
    BY DEF ProxyInit
  <2>2. QED
    <3>1. Asked = {} /\ Done = {}
      BY <2>1, CallsArePairs DEF Asked, Done
    <3>2. ASSUME NEW r \in Calls \X BOOLEAN PROVE ~ReturnedWith(r[1][1], r[1][2], r[2])
      <4>1. r[2] \in BOOLEAN /\ result[r[1][1]][r[1][2]] = NotAsked
        BY <2>1, CallsArePairs
      <4>2. QED
        BY <4>1, OnlyAnswersReturn DEF ReturnedWith
    <3>3. QED
      BY <3>1, <3>2 DEF Returned
<1>2. ProxyInv /\ [ProxyNext]_proxyVars => [Abstract!Next]_(Abstract!vars)
  BY StepsAreCalls
  DEF Abstract!Next, Abstract!Ask, Abstract!CarryOut, Abstract!Return, Abstract!vars,
      Asked, Done, Returned, ReturnedWith
<1>3. QED
  BY <1>1, <1>2, ProxyInvHolds, PTL DEF ProxySpec, ImplementsAtMostOnceCall, Abstract!Spec
=============================================================================
