-------------------------- MODULE AgentServerProofs --------------------------
(***************************************************************************)
(* Theorems about AgentServer and, at the end, ZedServer, which is built   *)
(* from its pieces, for any finite set of connections.                     *)
(***************************************************************************)
EXTENDS ZedServer, FiniteSetTheorems, TLAPS

(* The inductive invariant. *)

\* A shutdown is going on exactly when the agent is closing, which it does without
\* an engine; its array has connections only while it closes them.
ClosingFits ==
    /\ closing <=> shutdown # "none"
    /\ closing => ~engine /\ scripts = {}
    /\ todo # {} => shutdown = "reaped"
    /\ exit = "quit" <=> shutdown = "over"

\* What is served has been watched, nothing served is still to arrive, and a missed
\* end is an end.
ConnectionsFit ==
    /\ active \subseteq watched /\ todo \subseteq watched
    /\ active \cap todo = {} /\ arriving \cap watched = {}
    /\ \A k \in missed : link[k] = "closed"
    /\ \A k \in arriving : link[k] # "none" /\ (link[k] # "closed" \/ k \in missed)
    /\ \A k \in watched : link[k] # "none"

\* An open connection the agent watches is served, and what is active has not been
\* seen to close.
OpenIsServed ==
    /\ \A k \in watched : link[k] = "open" => k \in active \cup todo
    /\ \A k \in active : link[k] # "closed" \/ k \in missed

\* From the moment the shutdown finds no active connection only late ones come.
OnlyLateComers ==
    shutdown \in {"delay2", "over"} => active \subseteq late

IInv ==
    /\ TypeOK /\ ClosingFits /\ ConnectionsFit /\ OpenIsServed
    /\ OnlyLateComers /\ RegisteredWhileServed

-----------------------------------------------------------------------------
(* One lemma per handler; exit is left alone by the loop's own steps.      *)

LEMMA InitEstablishesIInv == Init => IInv
<1>1. ASSUME Init
      PROVE  TypeOK
  <2>1. link \in [Conns -> {"none", "open", "vanished", "closed"}]
    BY <1>1 DEF Init
  <2>2. lastScript \in 0..MaxScripts /\ scripts \subseteq 1..lastScript
    BY <1>1, MaxScriptsIsNat DEF Init
  <2>3. QED
    BY <1>1, <2>1, <2>2 DEF Init, TypeOK
<1>2. Init => ClosingFits /\ ConnectionsFit
  BY DEF Init, ClosingFits, ConnectionsFit
<1>3. Init => OpenIsServed /\ OnlyLateComers /\ RegisteredWhileServed
  BY DEF Init, OpenIsServed, OnlyLateComers, RegisteredWhileServed
<1>4. QED
  BY <1>1, <1>2, <1>3 DEF IInv

\* close () leaves the parts of the invariant it touches as they should be.
LEMMA CloseServerFits ==
  ASSUME IInv, CloseServer, exit = "no",
         UNCHANGED <<todo, lastScript, exit>>
  PROVE  /\ closing' /\ ~engine' /\ scripts' = {} /\ loaded' = {}
         /\ listening' \in BOOLEAN /\ engine' \in BOOLEAN
         /\ shutdown' \in {"delay", "reaped", "delay2", "over"}
         /\ shutdown' \in {"delay2", "over"} => shutdown' = shutdown
         /\ todo' # {} => shutdown' = "reaped"
<1> USE DEF IInv, TypeOK, ClosingFits
<1>1. CASE closing
  BY <1>1 DEF CloseServer
<1>2. CASE ~closing
  BY <1>2 DEF CloseServer, Unloaded
<1>3. QED
  BY <1>1, <1>2

LEMMA PeerConnectsKeeps ==
  ASSUME IInv, NEW k \in Conns, PeerConnects(k), UNCHANGED exit
  PROVE  IInv'
<1> USE DEF IInv, PeerConnects, server, script_vars
<1>1. TypeOK'
  BY DEF TypeOK
<1>2. ConnectionsFit' /\ ClosingFits'
  BY DEF TypeOK, ConnectionsFit, ClosingFits
<1>3. OpenIsServed' /\ OnlyLateComers' /\ RegisteredWhileServed'
  BY DEF TypeOK, ConnectionsFit, OpenIsServed, OnlyLateComers,
         RegisteredWhileServed
<1>4. QED
  BY <1>1, <1>2, <1>3

LEMMA NewConnectionKeeps ==
  ASSUME IInv, exit = "no", NEW k \in Conns, NewConnection(k), UNCHANGED exit
  PROVE  IInv'
<1> USE DEF IInv, NewConnection, script_vars
<1>1. TypeOK' /\ ClosingFits'
  BY DEF TypeOK, ClosingFits
<1>2. ConnectionsFit'
  BY DEF TypeOK, ConnectionsFit
<1>3. OpenIsServed' /\ RegisteredWhileServed'
  BY DEF TypeOK, ConnectionsFit, OpenIsServed, RegisteredWhileServed
<1>4. OnlyLateComers'
  <2>1. shutdown # "over"
    BY DEF ClosingFits
  <2>2. CASE shutdown = "delay2"
    BY <2>2 DEF OnlyLateComers
  <2>3. CASE shutdown # "delay2"
    BY <2>1, <2>3 DEF OnlyLateComers
  <2>4. QED
    BY <2>2, <2>3
<1>5. QED
  BY <1>1, <1>2, <1>3, <1>4

LEMMA RegistrationFailsKeeps ==
  ASSUME IInv, exit = "no", NEW k \in Conns, RegistrationFails(k), UNCHANGED exit
  PROVE  IInv'
<1> USE DEF IInv, RegistrationFails
<1>1. /\ closing' /\ ~engine' /\ scripts' = {} /\ loaded' = {}
      /\ listening' \in BOOLEAN /\ engine' \in BOOLEAN
      /\ shutdown' \in {"delay", "reaped", "delay2", "over"}
      /\ shutdown' \in {"delay2", "over"} => shutdown' = shutdown
      /\ todo' # {} => shutdown' = "reaped"
  BY CloseServerFits
<1>2. k \notin active /\ k \notin todo /\ k \notin watched
  BY DEF ConnectionsFit
<1>3. TypeOK' /\ ClosingFits'
  BY <1>1 DEF TypeOK, ClosingFits
<1>4. ConnectionsFit' /\ OpenIsServed' /\ RegisteredWhileServed'
  BY <1>1, <1>2 DEF TypeOK, ConnectionsFit, OpenIsServed, RegisteredWhileServed
<1>5. OnlyLateComers'
  BY <1>1 DEF OnlyLateComers
<1>6. QED
  BY <1>3, <1>4, <1>5

LEMMA PeerVanishesKeeps ==
  ASSUME IInv, NEW k \in Conns, PeerVanishes(k), UNCHANGED exit
  PROVE  IInv'
<1> USE DEF IInv, PeerVanishes, server, script_vars
<1>1. TypeOK' /\ ClosingFits' /\ OnlyLateComers'
  BY DEF TypeOK, ClosingFits, OnlyLateComers
<1>2. ConnectionsFit'
  BY DEF TypeOK, ConnectionsFit
<1>3. OpenIsServed' /\ RegisteredWhileServed'
  BY DEF TypeOK, ConnectionsFit, OpenIsServed, RegisteredWhileServed
<1>4. QED
  BY <1>1, <1>2, <1>3

LEMMA ConnectionClosedKeeps ==
  ASSUME IInv, exit = "no", NEW k \in Conns, ConnectionClosed(k), UNCHANGED exit
  PROVE  IInv'
<1> USE DEF IInv
<1>1. /\ link[k] = "vanished" /\ link' = [link EXCEPT ![k] = "closed"]
      /\ UNCHANGED <<arriving, watched, late>>
  BY DEF ConnectionClosed
<1>2. k \notin missed
  BY <1>1 DEF ConnectionsFit
<1>3. CASE k \notin watched
  <2>1. missed' = missed \cup {k} /\ UNCHANGED <<server, script_vars>>
    BY <1>3 DEF ConnectionClosed
  <2> USE <1>1, <2>1 DEF server, script_vars
  <2>2. TypeOK' /\ ClosingFits' /\ OnlyLateComers'
    BY DEF TypeOK, ClosingFits, OnlyLateComers
  <2>3. ConnectionsFit'
    BY DEF TypeOK, ConnectionsFit
  <2>4. OpenIsServed' /\ RegisteredWhileServed'
    BY <1>3 DEF TypeOK, ConnectionsFit, OpenIsServed, RegisteredWhileServed
  <2>5. QED
    BY <2>2, <2>3, <2>4
<1>4. CASE k \in watched
  <2>1. /\ registered' = registered \ {k} /\ active' = active \ {k}
        /\ UNCHANGED <<missed, todo, lastScript>>
    BY <1>4 DEF ConnectionClosed, Unregister
  <2>2. /\ listening' \in BOOLEAN /\ engine' \in BOOLEAN
        /\ closing' \in BOOLEAN /\ dead' \subseteq Conns
        /\ shutdown' \in {"none", "delay", "reaped", "delay2", "over"}
        /\ shutdown' \in {"delay2", "over"} => shutdown' = shutdown
        /\ closing' <=> shutdown' # "none"
        /\ closing' => ~engine' /\ scripts' = {}
        /\ todo' # {} => shutdown' = "reaped"
        /\ scripts' \subseteq scripts /\ loaded' \subseteq scripts'
        /\ active' # {} \/ closing'
    <3>1. CASE active \ {k} = {}
      <4>1. CloseServer /\ dead' = dead \cup {k}
        BY <1>4, <3>1 DEF ConnectionClosed, IsLast
      <4>2. /\ closing' /\ ~engine' /\ scripts' = {} /\ loaded' = {}
            /\ listening' \in BOOLEAN /\ engine' \in BOOLEAN
            /\ shutdown' \in {"delay", "reaped", "delay2", "over"}
            /\ shutdown' \in {"delay2", "over"} => shutdown' = shutdown
            /\ todo' # {} => shutdown' = "reaped"
        BY <2>1, <4>1, CloseServerFits
      <4>3. QED
        BY <4>1, <4>2 DEF TypeOK
    <3>2. CASE active \ {k} # {}
      <4>1. /\ dead' = {}
            /\ UNCHANGED <<closing, listening, shutdown, engine, scripts, loaded>>
        BY <1>4, <3>2 DEF ConnectionClosed, IsLast
      <4>2. QED
        BY <2>1, <3>2, <4>1 DEF TypeOK, ClosingFits
    <3>3. QED
      BY <3>1, <3>2
  <2>3. TypeOK'
    BY <1>1, <2>1, <2>2 DEF TypeOK
  <2>4. ClosingFits' /\ OnlyLateComers'
    BY <1>1, <2>1, <2>2 DEF ClosingFits, OnlyLateComers
  <2>5. ConnectionsFit'
    BY <1>1, <1>2, <1>4, <2>1 DEF TypeOK, ConnectionsFit
  <2>6. OpenIsServed'
    BY <1>1, <2>1 DEF TypeOK, OpenIsServed
  <2>7. RegisteredWhileServed'
    BY <1>1, <1>2, <2>1, <2>2 DEF TypeOK, RegisteredWhileServed
  <2>8. QED
    BY <2>3, <2>4, <2>5, <2>6, <2>7
<1>5. QED
  BY <1>3, <1>4

\* The calls of AgentSession's methods leave the connections alone.
LEMMA CallsKeep ==
  ASSUME IInv, exit = "no", Calls
  PROVE  IInv'
<1> USE DEF IInv
<1>1. ASSUME NEW k \in Conns, CallClose(k)
      PROVE  IInv'
  <2>1. /\ CloseServer
        /\ UNCHANGED <<peers, active, dead, registered, todo, lastScript, exit>>
    BY <1>1 DEF CallClose
  <2>2. /\ closing' /\ ~engine' /\ scripts' = {} /\ loaded' = {}
        /\ listening' \in BOOLEAN /\ engine' \in BOOLEAN
        /\ shutdown' \in {"delay", "reaped", "delay2", "over"}
        /\ shutdown' \in {"delay2", "over"} => shutdown' = shutdown
        /\ todo' # {} => shutdown' = "reaped"
    BY <2>1, CloseServerFits
  <2>3. TypeOK' /\ ClosingFits'
    BY <2>1, <2>2 DEF TypeOK, ClosingFits, peers
  <2>4. ConnectionsFit' /\ OpenIsServed'
    BY <2>1 DEF ConnectionsFit, OpenIsServed, peers
  <2>5. OnlyLateComers' /\ RegisteredWhileServed'
    BY <2>1, <2>2 DEF OnlyLateComers, RegisteredWhileServed, peers
  <2>6. QED
    BY <2>3, <2>4, <2>5
<1>2. ASSUME UNCHANGED <<peers, server, engine>>, exit' \in {"no", "aborted"},
             lastScript' \in 0..MaxScripts, scripts' \subseteq 1..lastScript',
             loaded' \subseteq scripts', engine \/ scripts' = scripts
      PROVE  IInv'
  <2>1. TypeOK' /\ ClosingFits'
    BY <1>2 DEF TypeOK, ClosingFits, peers, server
  <2>2. ConnectionsFit' /\ OpenIsServed' /\ OnlyLateComers'
    BY <1>2 DEF ConnectionsFit, OpenIsServed, OnlyLateComers, peers, server
  <2>3. RegisteredWhileServed'
    BY <1>2 DEF RegisteredWhileServed, peers, server
  <2>4. QED
    BY <2>1, <2>2, <2>3
<1>3. ASSUME NEW k \in Conns, CreateScript(k)
      PROVE  IInv'
  <2>1. /\ UNCHANGED <<peers, server, engine>> /\ exit' \in {"no", "aborted"}
        /\ \/ engine /\ lastScript' = lastScript + 1 /\ loaded' = loaded
              /\ scripts' = scripts \cup {lastScript + 1}
           \/ UNCHANGED <<lastScript, scripts, loaded>>
    BY <1>3 DEF CreateScript, OnEngine
  <2>2. lastScript' \in 0..MaxScripts /\ scripts' \subseteq 1..lastScript'
    <3>1. /\ lastScript \in Nat /\ lastScript < MaxScripts
          /\ \A s \in scripts : s \in Nat /\ 1 <= s /\ s <= lastScript
      BY <1>3, MaxScriptsIsNat DEF CreateScript, TypeOK
    <3>2. CASE lastScript' = lastScript + 1 /\ scripts' = scripts \cup {lastScript + 1}
      BY <3>1, <3>2, MaxScriptsIsNat
    <3>3. CASE UNCHANGED <<lastScript, scripts>>
      BY <3>1, <3>3, MaxScriptsIsNat
    <3>4. QED
      BY <2>1, <3>2, <3>3
  <2>3. loaded' \subseteq scripts' /\ (engine \/ scripts' = scripts)
    BY <2>1 DEF TypeOK
  <2>4. QED
    BY <1>2, <2>1, <2>2, <2>3
<1>4. ASSUME NEW k \in Conns, NEW s \in ScriptIds,
             \/ DestroyScript(k, s) \/ LoadScript(k, s) \/ PostMessageToScript(k)
      PROVE  IInv'
  <2>1. /\ UNCHANGED <<peers, server, engine, lastScript>>
        /\ exit' \in {"no", "aborted"}
    BY <1>4 DEF DestroyScript, LoadScript, PostMessageToScript, OnEngine
  <2>2. /\ scripts' \subseteq 1..lastScript' /\ loaded' \subseteq scripts'
        /\ engine \/ scripts' = scripts
    BY <1>4 DEF DestroyScript, LoadScript, PostMessageToScript, OnEngine, TypeOK
  <2>3. lastScript' \in 0..MaxScripts
    BY <2>1 DEF TypeOK
  <2>4. QED
    BY <1>2, <2>1, <2>2, <2>3
<1>5. ASSUME NEW k \in Conns, PostMessageToScript(k)
      PROVE  IInv'
  <2>1. /\ UNCHANGED <<peers, server, engine, lastScript, scripts, loaded>>
        /\ exit' \in {"no", "aborted"}
    BY <1>5 DEF PostMessageToScript, OnEngine
  <2>2. QED
    BY <1>2, <2>1 DEF TypeOK
<1>6. QED
  BY <1>1, <1>3, <1>4, <1>5 DEF Calls

LEMMA ReapKeeps ==
  ASSUME IInv, exit = "no", ReapDeadConnections, UNCHANGED exit
  PROVE  IInv'
<1> USE DEF IInv, ReapDeadConnections, Shutdown, peers, script_vars
<1>1. TypeOK' /\ ClosingFits'
  BY DEF TypeOK, ClosingFits
<1>2. ConnectionsFit' /\ OpenIsServed' /\ OnlyLateComers' /\ RegisteredWhileServed'
  BY DEF ConnectionsFit, OpenIsServed, OnlyLateComers, RegisteredWhileServed
<1>3. QED
  BY <1>1, <1>2

LEMMA CloseActiveKeeps ==
  ASSUME IInv, exit = "no", CloseActiveConnections, UNCHANGED exit
  PROVE  IInv'
<1> USE DEF IInv
<1>1. /\ shutdown = "reaped" /\ todo = {}
      /\ UNCHANGED <<peers, listening, closing, dead, registered, script_vars>>
  BY DEF CloseActiveConnections
<1>2. \/ todo' = active /\ active' = {} /\ shutdown' = shutdown
      \/ active = {} /\ shutdown' = "delay2" /\ UNCHANGED <<todo, active>>
  <2>1. IsFiniteSet(active)
    BY ConnsIsFinite, FS_Subset DEF TypeOK
  <2>2. Cardinality(active) = 0 => active = {}
    BY <2>1, FS_EmptySet
  <2>3. QED
    BY <2>2 DEF CloseActiveConnections, Remains
<1> USE <1>1, <1>2 DEF peers, script_vars
<1>3. TypeOK' /\ ClosingFits' /\ OnlyLateComers'
  BY DEF TypeOK, ClosingFits, OnlyLateComers
<1>4. ConnectionsFit' /\ OpenIsServed'
  BY DEF ConnectionsFit, OpenIsServed
<1>5. RegisteredWhileServed'
  BY DEF ClosingFits, OpenIsServed, RegisteredWhileServed
<1>6. QED
  BY <1>3, <1>4, <1>5

LEMMA CloseNextKeeps ==
  ASSUME IInv, exit = "no", NEW k \in Conns, CloseNext(k), UNCHANGED exit
  PROVE  IInv'
<1> USE DEF IInv
<1>1. /\ shutdown = "reaped" /\ k \in todo /\ todo' = todo \ {k}
      /\ registered' = registered \ {k}
      /\ link' = [link EXCEPT ![k] = IF @ = "open" THEN "closed" ELSE @]
      /\ UNCHANGED <<arriving, watched, missed, late, listening, closing, active,
                     dead, shutdown, script_vars>>
  BY DEF CloseNext, Unregister
<1>2. k \notin active
  BY <1>1 DEF ConnectionsFit
<1> USE <1>1, <1>2 DEF script_vars
<1>3. TypeOK' /\ ClosingFits' /\ OnlyLateComers'
  BY DEF TypeOK, ClosingFits, OnlyLateComers
<1>4. ConnectionsFit'
  BY DEF TypeOK, ConnectionsFit
<1>5. OpenIsServed' /\ RegisteredWhileServed'
  BY DEF TypeOK, ClosingFits, OpenIsServed, RegisteredWhileServed
<1>6. QED
  BY <1>3, <1>4, <1>5

LEMMA QuitKeeps ==
  ASSUME IInv, exit = "no", Quit
  PROVE  IInv'
<1> USE DEF IInv, Quit, Shutdown, peers, script_vars
<1>1. TypeOK' /\ ClosingFits'
  BY DEF TypeOK, ClosingFits
<1>2. ConnectionsFit' /\ OpenIsServed' /\ OnlyLateComers' /\ RegisteredWhileServed'
  BY DEF ConnectionsFit, OpenIsServed, OnlyLateComers, RegisteredWhileServed
<1>3. QED
  BY <1>1, <1>2

LEMMA NextKeepsIInv == IInv /\ [Next]_vars => IInv'
<1> SUFFICES ASSUME IInv, [Next]_vars
             PROVE  IInv'
  OBVIOUS
<1>1. CASE UNCHANGED vars
  <2> USE <1>1 DEF IInv, vars, peers, server, script_vars
  <2>1. TypeOK' /\ ClosingFits'
    BY DEF TypeOK, ClosingFits
  <2>2. ConnectionsFit' /\ OpenIsServed' /\ OnlyLateComers' /\ RegisteredWhileServed'
    BY DEF ConnectionsFit, OpenIsServed, OnlyLateComers, RegisteredWhileServed
  <2>3. QED
    BY <2>1, <2>2
<1>2. CASE Next
  <2>1. CASE exit = "no" /\ Connections /\ UNCHANGED exit
    BY <2>1, PeerConnectsKeeps, NewConnectionKeeps, RegistrationFailsKeeps,
       PeerVanishesKeeps, ConnectionClosedKeeps DEF Connections
  <2>2. CASE exit = "no" /\ ClosesDown /\ UNCHANGED exit
    BY <2>2, ReapKeeps, CloseActiveKeeps, CloseNextKeeps DEF ClosesDown
  <2>3. QED
    BY <1>2, <2>1, <2>2, CallsKeep, QuitKeeps DEF Next
<1>3. QED
  BY <1>1, <1>2

LEMMA IInvHolds == Spec => []IInv
  BY InitEstablishesIInv, NextKeepsIInv, PTL DEF Spec

-----------------------------------------------------------------------------
\* Every variable keeps its type; no script's code runs that the engine does not
\* have in its table.
THEOREM TypeCorrect == Spec => []TypeOK
<1>1. IInv => TypeOK
  BY DEF IInv
<1>2. QED
  BY IInvHolds, <1>1, PTL

\* The session object is registered on the connections that are served, no others,
\* and an agent all of whose peers have left is closing.
THEOREM RegistrationsMatch == Spec => []RegisteredWhileServed
<1>1. IInv => RegisteredWhileServed
  BY DEF IInv
<1>2. QED
  BY IInvHolds, <1>1, PTL

\* When the main loop quits, no connection of a peer that came in time is open or
\* registered and no script's code runs.
THEOREM QuitIsClean == Spec => []QuitLeavesNothingBehind
<1>1. IInv => QuitLeavesNothingBehind
  BY DEF IInv, TypeOK, ClosingFits, OpenIsServed, OnlyLateComers,
         RegisteredWhileServed, QuitLeavesNothingBehind
<1>2. QED
  BY IInvHolds, <1>1, PTL

\* The end of a connection takes the engine away only when the object is registered on
\* no connection any more: no peer is left that could call a null engine.
THEOREM EngineServesToTheLast == Spec => EngineGoesWithItsLastPeer
<1>1. ASSUME IInv, IInv', NEW k \in Conns, ConnectionClosed(k), ~engine'
      PROVE  ~engine \/ registered' = {}
  <2>1. CASE k \notin watched \/ ~IsLast(active \ {k})
    BY <1>1, <2>1 DEF ConnectionClosed, server, script_vars, IInv, TypeOK
  <2>2. CASE k \in watched /\ IsLast(active \ {k}) /\ engine
    <3>1. active' = {} /\ todo' = todo
      BY <1>1, <2>2 DEF ConnectionClosed, IsLast
    <3>2. todo = {}
      BY <1>1, <2>2 DEF IInv, ClosingFits
    <3>3. QED
      BY <1>1, <3>1, <3>2 DEF IInv, RegisteredWhileServed
  <2>3. QED
    BY <2>1, <2>2
<1>2. IInv /\ IInv' /\ [Next]_vars =>
          [(\E k \in Conns : ConnectionClosed(k)) /\ ~engine'
               => ~engine \/ registered' = {}]_vars
  BY <1>1
<1>3. QED
  BY IInvHolds, <1>2, PTL DEF Spec, EngineGoesWithItsLastPeer

-----------------------------------------------------------------------------
(* zed-server.                                                             *)

\* A connection is queued or accepted but never both, what it accepted it has
\* registered, and a connection it knows was made once.
ZedFits ==
    /\ hostSession # "none"
    /\ arriving \cap active = {} /\ registered = active
    /\ \A k \in arriving \cup active : link[k] # "none"

ZedIInv == ZedOK /\ ZedFits /\ NobodyIsCutOff

LEMMA ZedInitEstablishesIInv == ZedInit => ZedIInv
<1>1. ASSUME ZedInit
      PROVE  TypeOK
  BY <1>1, InitEstablishesIInv DEF ZedInit, IInv
<1>2. ASSUME ZedInit
      PROVE  ZedIInv
  BY <1>1, <1>2 DEF ZedInit, Init, ZedIInv, ZedOK, ZedFits, NobodyIsCutOff
<1>3. QED
  BY <1>2

LEMMA ZedPeersKeep ==
  ASSUME ZedIInv, ZedPeers, UNCHANGED <<exit, idleTimer, hostSession>>
  PROVE  ZedIInv'
<1> USE DEF ZedIInv, ZedOK, server, script_vars
<1>1. PICK k \in Conns : PeerConnects(k) \/ PeerVanishes(k)
  BY DEF ZedPeers
<1>2. TypeOK'
  BY <1>1 DEF TypeOK, PeerConnects, PeerVanishes
<1>3. NobodyIsCutOff'
  BY <1>1 DEF NobodyIsCutOff, PeerConnects, PeerVanishes
<1>4. CASE PeerConnects(k)
  BY <1>2, <1>3, <1>4 DEF TypeOK, ZedFits, PeerConnects
<1>5. CASE PeerVanishes(k)
  BY <1>2, <1>3, <1>5 DEF TypeOK, ZedFits, PeerVanishes
<1>6. QED
  BY <1>1, <1>4, <1>5

\* The timer is stopped by the first connection after a time without any, and no
\* connection is accepted once it has fired.
LEMMA AcceptKeeps ==
  ASSUME ZedIInv, NEW k \in Conns, Accept(k), UNCHANGED noneOfZed
  PROVE  ZedIInv'
<1> USE DEF ZedIInv, ZedOK, noneOfZed, script_vars
<1>1. TypeOK' /\ idleTimer' \in BOOLEAN /\ hostSession' = hostSession
  BY DEF TypeOK, Accept
<1>2. ZedFits'
  BY DEF TypeOK, Accept, ZedFits
<1>3. NobodyIsCutOff'
  <2>1. CASE listening /\ active' = active \cup {k}
             /\ registered' = registered \cup {k}
             /\ idleTimer' = (idleTimer /\ ~Cancels(Cardinality(active')))
    <3>1. hostSession = "open"
      BY <2>1 DEF NobodyIsCutOff, ZedFits
    <3>2. idleTimer => active' = {k}
      BY <2>1, <3>1 DEF NobodyIsCutOff
    <3>3. Cardinality({k}) = 1
      BY FS_Singleton
    <3>4. ~idleTimer'
      BY <2>1, <3>2, <3>3 DEF Cancels
    <3>5. QED
      BY <1>1, <2>1, <3>1, <3>4 DEF NobodyIsCutOff
  <2>2. CASE UNCHANGED <<registered, active, idleTimer>>
    BY <2>2 DEF NobodyIsCutOff, Accept
  <2>3. QED
    BY <2>1, <2>2 DEF Accept
<1>4. QED
  BY <1>1, <1>2, <1>3

LEMMA ConnectionGoneKeeps ==
  ASSUME ZedIInv, NEW k \in Conns, ConnectionGone(k), UNCHANGED noneOfZed
  PROVE  ZedIInv'
<1> USE DEF ZedIInv, ZedOK, noneOfZed, script_vars
<1>1. TypeOK' /\ idleTimer' \in BOOLEAN /\ hostSession' = hostSession
  BY DEF TypeOK, ConnectionGone, Unregister
<1>2. ZedFits'
  BY DEF TypeOK, ConnectionGone, Unregister, ZedFits
<1>3. NobodyIsCutOff'
  <2>1. CASE k \in arriving
    BY <2>1 DEF ConnectionGone, NobodyIsCutOff
  <2>2. CASE k \notin arriving
    BY <2>2 DEF ConnectionGone, Unregister, NobodyIsCutOff
  <2>3. QED
    BY <2>1, <2>2
<1>4. QED
  BY <1>1, <1>2, <1>3

LEMMA ZedClosesKeep ==
  ASSUME ZedIInv, IdleTimeout \/ HostSessionClosed, UNCHANGED noneOfZed
  PROVE  ZedIInv'
<1> USE DEF ZedIInv, ZedOK, ZedFits, TypeOK, noneOfZed, script_vars
<1>1. CASE IdleTimeout
  BY <1>1 DEF IdleTimeout, NobodyIsCutOff
<1>2. CASE HostSessionClosed
  BY <1>2 DEF HostSessionClosed, NobodyIsCutOff
<1>3. QED
  BY <1>1, <1>2

LEMMA ZedNextKeepsIInv == ZedIInv /\ [ZedNext]_zedVars => ZedIInv'
<1>1. ASSUME ZedIInv, UNCHANGED zedVars
      PROVE  ZedIInv'
  BY <1>1 DEF zedVars, vars, peers, server, script_vars, ZedIInv, ZedOK, TypeOK,
              ZedFits, NobodyIsCutOff
<1>2. ASSUME ZedIInv, ZedNext
      PROVE  ZedIInv'
  <2>1. CASE ZedPeers /\ UNCHANGED <<exit, idleTimer, hostSession>>
    BY <1>2, <2>1, ZedPeersKeep
  <2>2. CASE ZedProceeds /\ UNCHANGED noneOfZed
    BY <1>2, <2>2, AcceptKeeps, ConnectionGoneKeeps, ZedClosesKeep DEF ZedProceeds
  <2>3. QED
    BY <1>2, <2>1, <2>2 DEF ZedNext
<1>3. QED
  BY <1>1, <1>2

LEMMA ZedIInvHolds == ZedSpec => []ZedIInv
  BY ZedInitEstablishesIInv, ZedNextKeepsIInv, PTL DEF ZedSpec

\* zed-server's variables keep their types.
THEOREM ZedTypeCorrect == ZedSpec => []ZedOK
<1>1. ZedIInv => ZedOK
  BY DEF ZedIInv
<1>2. QED
  BY ZedIInvHolds, <1>1, PTL

\* zed-server's idle timer runs exactly while nobody is connected, and when it has
\* fired nobody is using the host session that is being closed, or will.
THEOREM IdleTimerCutsNobodyOff == ZedSpec => []NobodyIsCutOff
<1>1. ZedIInv => NobodyIsCutOff
  BY DEF ZedIInv
<1>2. QED
  BY ZedIInvHolds, <1>1, PTL
=============================================================================
