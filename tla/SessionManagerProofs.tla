------------------------ MODULE SessionManagerProofs ------------------------
(***************************************************************************)
(* Proofs about SessionManager for any number of clients, processes,       *)
(* sessions and scripts: when clients do not overlap two                   *)
(* obtain_session_for calls, the two session maps agree, _release_session  *)
(* never asserts, registered sessions are watched, no Session points       *)
(* at a disposed manager, and the manager implements SessionRegistry --     *)
(* whatever else overlaps; and when clients take turns on Sessions and     *)
(* Scripts, scripts die with their session -- whatever obtains overlap.     *)
(* Then PySessionManager: pyfrida's host session is there as long as a     *)
(* session needs it; and PyFrida: no thread of Python's nor the main loop  *)
(* touches a wrapper or a callback that was freed.                         *)
(***************************************************************************)
EXTENDS PySessionManager, PyFrida, FiniteSetTheorems, SequenceTheorems, TLAPS

(* The strengthening of MapsAgree that is inductive.                       *)

\* What a thread is blocked on fits the call it is in.
ArgumentsFit ==
    \A c \in Callers :
        /\ op[c] \in Obtaining => arg[c] \in Pids
        /\ op[c] \in {"close", "create", "dispose_wait"} => arg[c] \in Handles

\* One thread obtains at a time, for a pid nobody has a session for, and with
\* a service and a provider in place by the time they are used.
ObtainsAreAlone ==
    /\ \A c, d \in Callers : op[c] \in Obtaining /\ op[d] \in Obtaining => c = d
    /\ \A c \in Callers : op[c] \in Obtaining =>
           ~closed /\ byPid[arg[c]] = None /\ service \in Services
    /\ \A c \in Callers :
           op[c] \in {"create_host", "attach", "obtain_agent"} =>
               provider \in Services

ServiceInPlace ==
    /\ localSession # None => provider \in Services /\ service \in Services
    /\ byHandle # {} => service \in Services

\* A handle nobody listens under yet names no session.
UnbornIsUnknown == \A h \in Handles : agent[h] = "unborn" => h \notin byHandle

\* The sessions left in the maps of a manager being disposed of are those its
\* CloseTask has still to visit.
DisposalCovers ==
    /\ closed => byHandle \subseteq disposing
    /\ finalized => closed /\ byHandle = {}
    /\ \A c \in Callers : op[c] \in {"dispose", "dispose_wait"} => closed

IInv ==
    /\ TypeOK /\ MapsAgree /\ ArgumentsFit /\ ObtainsAreAlone /\ ServiceInPlace
    /\ UnbornIsUnknown /\ DisposalCovers
    /\ RegisteredSessionsAreWatched /\ NoReleaseAssertionFails
-----------------------------------------------------------------------------
USE NoneAssumption, ServicesAssumption, HandlesAssumption
USE DEF managerVars, mapVars, closeVars, scriptVars, agentVars, callVars,
        Ops, Obtaining, Closers, Crashes, Live

\* What BeginClose does to a registered session: neither assertion fails.
Released(h, block) ==
    /\ byPid' = [byPid EXCEPT ![pid[h]] = None]
    /\ byHandle' = byHandle \ {h}
    /\ manager' = [manager EXCEPT ![h] = FALSE]
    /\ closer' = [closer EXCEPT ![h] = "unload"]
    /\ todo' = [todo EXCEPT ![h] = scripts[h]]
    /\ mayBlock' = [mayBlock EXCEPT ![h] = block]
    /\ UNCHANGED <<pid, internal, unloading, closedSignals, crash>>

LEMMA BeginCloseReleases ==
  ASSUME TypeOK, MapsAgree, NEW h \in Handles, manager[h],
         NEW block \in BOOLEAN, BeginClose(h, block)
  PROVE  Released(h, block)
<1>1. h \in byHandle /\ byPid[pid[h]] = h /\ h # None
  BY DEF MapsAgree
<1>2. QED
  BY <1>1 DEF BeginClose, Released, ForgetManager, ScriptSnapshot

LEMMA ObtainSessionKeeps ==
  ASSUME IInv, SerialObtain = TRUE, UNCHANGED inTurn,
         NEW c \in Callers, NEW p \in Pids,
         ObtainSession(c, p)
  PROVE  IInv'
<1> USE DEF IInv, ObtainSession, LookedUp, Enter
<1>1. TypeOK'
  BY DEF TypeOK, ArgumentsFit, ObtainsAreAlone
<1>2. MapsAgree' /\ NoReleaseAssertionFails'
  BY DEF MapsAgree, NoReleaseAssertionFails, ObtainsAreAlone, DisposalCovers,
         UnbornIsUnknown, ArgumentsFit, TypeOK
<1>3. ArgumentsFit'
  BY DEF ArgumentsFit, TypeOK
<1>4. ObtainsAreAlone'
  BY DEF ObtainsAreAlone, DisposalCovers, ServiceInPlace, ArgumentsFit,
         TypeOK
<1>5. ServiceInPlace'
  BY DEF ServiceInPlace, ObtainsAreAlone, DisposalCovers, TypeOK
<1>6. UnbornIsUnknown' /\ RegisteredSessionsAreWatched'
  BY DEF UnbornIsUnknown, RegisteredSessionsAreWatched, ObtainsAreAlone,
         MapsAgree, TypeOK
<1>7. DisposalCovers'
  BY DEF DisposalCovers, ServiceInPlace, ObtainsAreAlone, MapsAgree, TypeOK
<1>8. QED
  BY <1>1, <1>2, <1>3, <1>4, <1>5, <1>6, <1>7

LEMMA ServiceStartedKeeps ==
  ASSUME IInv, SerialObtain = TRUE, UNCHANGED inTurn,
         NEW c \in Callers,
         ServiceStarted(c)
  PROVE  IInv'
<1> USE DEF IInv, ServiceStarted, Goto
<1>1. TypeOK'
  BY DEF TypeOK, ArgumentsFit, ObtainsAreAlone
<1>2. MapsAgree' /\ NoReleaseAssertionFails'
  BY DEF MapsAgree, NoReleaseAssertionFails, ObtainsAreAlone, DisposalCovers,
         UnbornIsUnknown, ArgumentsFit, TypeOK
<1>3. ArgumentsFit'
  BY DEF ArgumentsFit, TypeOK
<1>4. ObtainsAreAlone'
  BY DEF ObtainsAreAlone, DisposalCovers, ServiceInPlace, ArgumentsFit,
         TypeOK
<1>5. ServiceInPlace'
  BY DEF ServiceInPlace, ObtainsAreAlone, DisposalCovers, TypeOK
<1>6. UnbornIsUnknown' /\ RegisteredSessionsAreWatched'
  BY DEF UnbornIsUnknown, RegisteredSessionsAreWatched, ObtainsAreAlone,
         MapsAgree, TypeOK
<1>7. DisposalCovers'
  BY DEF DisposalCovers, ServiceInPlace, ObtainsAreAlone, MapsAgree, TypeOK
<1>8. QED
  BY <1>1, <1>2, <1>3, <1>4, <1>5, <1>6, <1>7

LEMMA HostSessionCreatedKeeps ==
  ASSUME IInv, SerialObtain = TRUE, UNCHANGED inTurn,
         NEW c \in Callers,
         HostSessionCreated(c)
  PROVE  IInv'
<1> USE DEF IInv, HostSessionCreated, Enter, Goto, Return
<1>1. TypeOK'
  BY DEF TypeOK, ArgumentsFit, ObtainsAreAlone
<1>2. MapsAgree' /\ NoReleaseAssertionFails'
  BY DEF MapsAgree, NoReleaseAssertionFails, ObtainsAreAlone, DisposalCovers,
         UnbornIsUnknown, ArgumentsFit, TypeOK
<1>3. ArgumentsFit'
  BY DEF ArgumentsFit, TypeOK
<1>4. ObtainsAreAlone'
  BY DEF ObtainsAreAlone, DisposalCovers, ServiceInPlace, ArgumentsFit,
         TypeOK
<1>5. ServiceInPlace'
  BY DEF ServiceInPlace, ObtainsAreAlone, DisposalCovers, TypeOK
<1>6. UnbornIsUnknown' /\ RegisteredSessionsAreWatched'
  BY DEF UnbornIsUnknown, RegisteredSessionsAreWatched, ObtainsAreAlone,
         MapsAgree, TypeOK
<1>7. DisposalCovers'
  BY DEF DisposalCovers, ServiceInPlace, ObtainsAreAlone, MapsAgree, TypeOK
<1>8. QED
  BY <1>1, <1>2, <1>3, <1>4, <1>5, <1>6, <1>7

LEMMA AttachedKeeps ==
  ASSUME IInv, SerialObtain = TRUE, UNCHANGED inTurn,
         NEW c \in Callers,
         Attached(c)
  PROVE  IInv'
<1> USE DEF IInv, Attached, Goto
<1>1. TypeOK'
  BY DEF TypeOK, ArgumentsFit, ObtainsAreAlone
<1>2. MapsAgree' /\ NoReleaseAssertionFails'
  BY DEF MapsAgree, NoReleaseAssertionFails, ObtainsAreAlone, DisposalCovers,
         UnbornIsUnknown, ArgumentsFit, TypeOK
<1>3. ArgumentsFit'
  BY DEF ArgumentsFit, TypeOK
<1>4. ObtainsAreAlone'
  BY DEF ObtainsAreAlone, DisposalCovers, ServiceInPlace, ArgumentsFit,
         TypeOK
<1>5. ServiceInPlace'
  BY DEF ServiceInPlace, ObtainsAreAlone, DisposalCovers, TypeOK
<1>6. UnbornIsUnknown' /\ RegisteredSessionsAreWatched'
  BY DEF UnbornIsUnknown, RegisteredSessionsAreWatched, ObtainsAreAlone,
         MapsAgree, TypeOK
<1>7. DisposalCovers'
  BY DEF DisposalCovers, ServiceInPlace, ObtainsAreAlone, MapsAgree, TypeOK
<1>8. QED
  BY <1>1, <1>2, <1>3, <1>4, <1>5, <1>6, <1>7

LEMMA SessionObtainedKeeps ==
  ASSUME IInv, SerialObtain = TRUE, UNCHANGED inTurn,
         NEW c \in Callers, NEW h \in Handles,
         SessionObtained(c, h)
  PROVE  IInv'
<1> USE DEF IInv, SessionObtained, Enter, Return, HandleFree
<1>1. TypeOK'
  BY DEF TypeOK, ArgumentsFit, ObtainsAreAlone
<1>2. MapsAgree' /\ NoReleaseAssertionFails'
  BY DEF MapsAgree, NoReleaseAssertionFails, ObtainsAreAlone, DisposalCovers,
         UnbornIsUnknown, ArgumentsFit, TypeOK
<1>3. ArgumentsFit'
  BY DEF ArgumentsFit, TypeOK
<1>4. ObtainsAreAlone'
  BY DEF ObtainsAreAlone, DisposalCovers, ServiceInPlace, ArgumentsFit,
         TypeOK
<1>5. ServiceInPlace'
  BY DEF ServiceInPlace, ObtainsAreAlone, DisposalCovers, TypeOK
<1>6. UnbornIsUnknown' /\ RegisteredSessionsAreWatched'
  BY DEF UnbornIsUnknown, RegisteredSessionsAreWatched, ObtainsAreAlone,
         MapsAgree, TypeOK
<1>7. DisposalCovers'
  BY DEF DisposalCovers, ServiceInPlace, ObtainsAreAlone, MapsAgree, TypeOK
<1>8. QED
  BY <1>1, <1>2, <1>3, <1>4, <1>5, <1>6, <1>7

LEMMA ObtainFailedKeeps ==
  ASSUME IInv, SerialObtain = TRUE, UNCHANGED inTurn,
         NEW c \in Callers,
         ObtainFailed(c)
  PROVE  IInv'
<1> USE DEF IInv, ObtainFailed, Enter, Return
<1>1. TypeOK'
  BY DEF TypeOK, ArgumentsFit, ObtainsAreAlone
<1>2. MapsAgree' /\ NoReleaseAssertionFails'
  BY DEF MapsAgree, NoReleaseAssertionFails, ObtainsAreAlone, DisposalCovers,
         UnbornIsUnknown, ArgumentsFit, TypeOK
<1>3. ArgumentsFit'
  BY DEF ArgumentsFit, TypeOK
<1>4. ObtainsAreAlone'
  BY DEF ObtainsAreAlone, DisposalCovers, ServiceInPlace, ArgumentsFit,
         TypeOK
<1>5. ServiceInPlace'
  BY DEF ServiceInPlace, ObtainsAreAlone, DisposalCovers, TypeOK
<1>6. UnbornIsUnknown' /\ RegisteredSessionsAreWatched'
  BY DEF UnbornIsUnknown, RegisteredSessionsAreWatched, ObtainsAreAlone,
         MapsAgree, TypeOK
<1>7. DisposalCovers'
  BY DEF DisposalCovers, ServiceInPlace, ObtainsAreAlone, MapsAgree, TypeOK
<1>8. QED
  BY <1>1, <1>2, <1>3, <1>4, <1>5, <1>6, <1>7

LEMMA CloseSessionKeeps ==
  ASSUME IInv, SerialObtain = TRUE, UNCHANGED inTurn,
         NEW c \in Callers, NEW h \in Handles,
         CloseSession(c, h)
  PROVE  IInv'
<1> USE DEF IInv, CloseSession, Enter
<1>0. Released(h, TRUE)
  BY BeginCloseReleases
<1> USE <1>0 DEF Released
<1>1. TypeOK'
  BY DEF TypeOK, ArgumentsFit, ObtainsAreAlone
<1>2. MapsAgree' /\ NoReleaseAssertionFails'
  BY DEF MapsAgree, NoReleaseAssertionFails, ObtainsAreAlone, DisposalCovers,
         UnbornIsUnknown, ArgumentsFit, TypeOK
<1>3. ArgumentsFit'
  BY DEF ArgumentsFit, TypeOK
<1>4. ObtainsAreAlone'
  BY DEF ObtainsAreAlone, DisposalCovers, ServiceInPlace, ArgumentsFit,
         TypeOK
<1>5. ServiceInPlace'
  BY DEF ServiceInPlace, ObtainsAreAlone, DisposalCovers, TypeOK
<1>6. UnbornIsUnknown' /\ RegisteredSessionsAreWatched'
  BY DEF UnbornIsUnknown, RegisteredSessionsAreWatched, ObtainsAreAlone,
         MapsAgree, TypeOK
<1>7. DisposalCovers'
  BY DEF DisposalCovers, ServiceInPlace, ObtainsAreAlone, MapsAgree, TypeOK
<1>8. QED
  BY <1>1, <1>2, <1>3, <1>4, <1>5, <1>6, <1>7

LEMMA CloseReturnsKeeps ==
  ASSUME IInv, SerialObtain = TRUE, UNCHANGED inTurn,
         NEW c \in Callers,
         CloseReturns(c)
  PROVE  IInv'
<1> USE DEF IInv, CloseReturns, Enter, Return
<1>1. TypeOK'
  BY DEF TypeOK, ArgumentsFit, ObtainsAreAlone
<1>2. MapsAgree' /\ NoReleaseAssertionFails'
  BY DEF MapsAgree, NoReleaseAssertionFails, ObtainsAreAlone, DisposalCovers,
         UnbornIsUnknown, ArgumentsFit, TypeOK
<1>3. ArgumentsFit'
  BY DEF ArgumentsFit, TypeOK
<1>4. ObtainsAreAlone'
  BY DEF ObtainsAreAlone, DisposalCovers, ServiceInPlace, ArgumentsFit,
         TypeOK
<1>5. ServiceInPlace'
  BY DEF ServiceInPlace, ObtainsAreAlone, DisposalCovers, TypeOK
<1>6. UnbornIsUnknown' /\ RegisteredSessionsAreWatched'
  BY DEF UnbornIsUnknown, RegisteredSessionsAreWatched, ObtainsAreAlone,
         MapsAgree, TypeOK
<1>7. DisposalCovers'
  BY DEF DisposalCovers, ServiceInPlace, ObtainsAreAlone, MapsAgree, TypeOK
<1>8. QED
  BY <1>1, <1>2, <1>3, <1>4, <1>5, <1>6, <1>7

LEMMA AgentSessionClosedKeeps ==
  ASSUME IInv, SerialObtain = TRUE, UNCHANGED inTurn,
         NEW h \in Handles, AgentSessionClosed(h)
  PROVE  IInv'
<1> USE DEF IInv
<1> DEFINE Rest == UNCHANGED <<managerVars, scriptVars, agent, agentScripts,
                               callVars>>
<1>1. CASE IsOurs(h)
  <2>1. /\ Released(h, FALSE) /\ notices' = notices \ {h} /\ Rest
        /\ h \in byHandle
    BY <1>1, BeginCloseReleases DEF AgentSessionClosed, IsOurs
  <2>2. TypeOK'
    BY <2>1 DEF Released, TypeOK
  <2>3. MapsAgree' /\ NoReleaseAssertionFails'
    BY <2>1 DEF Released, MapsAgree, NoReleaseAssertionFails, TypeOK
  <2>4. ArgumentsFit' /\ ObtainsAreAlone' /\ ServiceInPlace'
    BY <2>1 DEF Released, ArgumentsFit, ObtainsAreAlone, ServiceInPlace, TypeOK
  <2>5. UnbornIsUnknown' /\ RegisteredSessionsAreWatched' /\ DisposalCovers'
    BY <2>1 DEF Released, UnbornIsUnknown, RegisteredSessionsAreWatched,
                DisposalCovers
  <2>6. QED
    BY <2>2, <2>3, <2>4, <2>5
<1>2. CASE ~IsOurs(h)
  <2>1. /\ UNCHANGED <<mapVars, closeVars, crash>>
        /\ notices' = notices \ {h} /\ Rest
        /\ h \notin byHandle
    BY <1>2 DEF AgentSessionClosed, IsOurs, MapsAgree, TypeOK
  <2>2. TypeOK'
    BY <2>1 DEF TypeOK
  <2>3. MapsAgree' /\ NoReleaseAssertionFails' /\ DisposalCovers'
    BY <2>1 DEF MapsAgree, NoReleaseAssertionFails, DisposalCovers
  <2>4. ArgumentsFit' /\ ObtainsAreAlone' /\ ServiceInPlace'
    BY <2>1 DEF ArgumentsFit, ObtainsAreAlone, ServiceInPlace
  <2>5. UnbornIsUnknown' /\ RegisteredSessionsAreWatched'
    BY <2>1 DEF UnbornIsUnknown, RegisteredSessionsAreWatched
  <2>6. QED
    BY <2>2, <2>3, <2>4, <2>5
<1>3. QED
  BY <1>1, <1>2

LEMMA CloseUnloadsScriptKeeps ==
  ASSUME IInv, SerialObtain = TRUE, UNCHANGED inTurn,
         NEW h \in Handles, NEW x \in Scripts,
         CloseUnloadsScript(h, x)
  PROVE  IInv'
<1> USE DEF IInv, CloseUnloadsScript
<1>1. TypeOK'
  <2>1. CASE owner[x] = None
    BY <2>1 DEF TypeOK
  <2>2. CASE owner[x] # None
    BY <2>2 DEF TypeOK
  <2>3. QED
    BY <2>1, <2>2
<1>2. MapsAgree' /\ NoReleaseAssertionFails'
  BY DEF MapsAgree, NoReleaseAssertionFails, ObtainsAreAlone, DisposalCovers,
         UnbornIsUnknown, ArgumentsFit, TypeOK
<1>3. ArgumentsFit'
  BY DEF ArgumentsFit, TypeOK
<1>4. ObtainsAreAlone'
  BY DEF ObtainsAreAlone, DisposalCovers, ServiceInPlace, ArgumentsFit,
         TypeOK
<1>5. ServiceInPlace'
  BY DEF ServiceInPlace, ObtainsAreAlone, DisposalCovers, TypeOK
<1>6. UnbornIsUnknown' /\ RegisteredSessionsAreWatched'
  BY DEF UnbornIsUnknown, RegisteredSessionsAreWatched, ObtainsAreAlone,
         MapsAgree, TypeOK
<1>7. DisposalCovers'
  BY DEF DisposalCovers, ServiceInPlace, ObtainsAreAlone, MapsAgree, TypeOK
<1>8. QED
  BY <1>1, <1>2, <1>3, <1>4, <1>5, <1>6, <1>7

LEMMA CloseScriptDestroyedKeeps ==
  ASSUME IInv, SerialObtain = TRUE, UNCHANGED inTurn,
         NEW h \in Handles,
         CloseScriptDestroyed(h)
  PROVE  IInv'
<1> USE DEF IInv, CloseScriptDestroyed
<1>1. TypeOK'
  BY DEF TypeOK, ArgumentsFit, ObtainsAreAlone
<1>2. MapsAgree' /\ NoReleaseAssertionFails'
  BY DEF MapsAgree, NoReleaseAssertionFails, ObtainsAreAlone, DisposalCovers,
         UnbornIsUnknown, ArgumentsFit, TypeOK
<1>3. ArgumentsFit'
  BY DEF ArgumentsFit, TypeOK
<1>4. ObtainsAreAlone'
  BY DEF ObtainsAreAlone, DisposalCovers, ServiceInPlace, ArgumentsFit,
         TypeOK
<1>5. ServiceInPlace'
  BY DEF ServiceInPlace, ObtainsAreAlone, DisposalCovers, TypeOK
<1>6. UnbornIsUnknown' /\ RegisteredSessionsAreWatched'
  BY DEF UnbornIsUnknown, RegisteredSessionsAreWatched, ObtainsAreAlone,
         MapsAgree, TypeOK
<1>7. DisposalCovers'
  BY DEF DisposalCovers, ServiceInPlace, ObtainsAreAlone, MapsAgree, TypeOK
<1>8. QED
  BY <1>1, <1>2, <1>3, <1>4, <1>5, <1>6, <1>7

LEMMA CloseAsksAgentKeeps ==
  ASSUME IInv, SerialObtain = TRUE, UNCHANGED inTurn,
         NEW h \in Handles,
         CloseAsksAgent(h)
  PROVE  IInv'
<1> USE DEF IInv, CloseAsksAgent
<1>1. TypeOK'
  BY DEF TypeOK, ArgumentsFit, ObtainsAreAlone
<1>2. MapsAgree' /\ NoReleaseAssertionFails'
  BY DEF MapsAgree, NoReleaseAssertionFails, ObtainsAreAlone, DisposalCovers,
         UnbornIsUnknown, ArgumentsFit, TypeOK
<1>3. ArgumentsFit'
  BY DEF ArgumentsFit, TypeOK
<1>4. ObtainsAreAlone'
  BY DEF ObtainsAreAlone, DisposalCovers, ServiceInPlace, ArgumentsFit,
         TypeOK
<1>5. ServiceInPlace'
  BY DEF ServiceInPlace, ObtainsAreAlone, DisposalCovers, TypeOK
<1>6. UnbornIsUnknown' /\ RegisteredSessionsAreWatched'
  BY DEF UnbornIsUnknown, RegisteredSessionsAreWatched, ObtainsAreAlone,
         MapsAgree, TypeOK
<1>7. DisposalCovers'
  BY DEF DisposalCovers, ServiceInPlace, ObtainsAreAlone, MapsAgree, TypeOK
<1>8. QED
  BY <1>1, <1>2, <1>3, <1>4, <1>5, <1>6, <1>7

LEMMA CloseEndsKeeps ==
  ASSUME IInv, SerialObtain = TRUE, UNCHANGED inTurn,
         NEW h \in Handles,
         CloseEnds(h)
  PROVE  IInv'
<1> USE DEF IInv, CloseEnds, AgentIsClosed, ForgetInternal, ErrorIgnored
<1>1. TypeOK'
  BY DEF TypeOK, ArgumentsFit, ObtainsAreAlone
<1>2. MapsAgree' /\ NoReleaseAssertionFails'
  BY DEF MapsAgree, NoReleaseAssertionFails, ObtainsAreAlone, DisposalCovers,
         UnbornIsUnknown, ArgumentsFit, TypeOK
<1>3. ArgumentsFit'
  BY DEF ArgumentsFit, TypeOK
<1>4. ObtainsAreAlone'
  BY DEF ObtainsAreAlone, DisposalCovers, ServiceInPlace, ArgumentsFit,
         TypeOK
<1>5. ServiceInPlace'
  BY DEF ServiceInPlace, ObtainsAreAlone, DisposalCovers, TypeOK
<1>6. UnbornIsUnknown' /\ RegisteredSessionsAreWatched'
  BY DEF UnbornIsUnknown, RegisteredSessionsAreWatched, ObtainsAreAlone,
         MapsAgree, TypeOK
<1>7. DisposalCovers'
  BY DEF DisposalCovers, ServiceInPlace, ObtainsAreAlone, MapsAgree, TypeOK
<1>8. QED
  BY <1>1, <1>2, <1>3, <1>4, <1>5, <1>6, <1>7

LEMMA CreateScriptKeeps ==
  ASSUME IInv, SerialObtain = TRUE, UNCHANGED inTurn,
         NEW c \in Callers, NEW h \in Handles,
         CreateScript(c, h)
  PROVE  IInv'
<1> USE DEF IInv, CreateScript, Enter
<1>1. TypeOK'
  BY DEF TypeOK, ArgumentsFit, ObtainsAreAlone
<1>2. MapsAgree' /\ NoReleaseAssertionFails'
  BY DEF MapsAgree, NoReleaseAssertionFails, ObtainsAreAlone, DisposalCovers,
         UnbornIsUnknown, ArgumentsFit, TypeOK
<1>3. ArgumentsFit'
  BY DEF ArgumentsFit, TypeOK
<1>4. ObtainsAreAlone'
  BY DEF ObtainsAreAlone, DisposalCovers, ServiceInPlace, ArgumentsFit,
         TypeOK
<1>5. ServiceInPlace'
  BY DEF ServiceInPlace, ObtainsAreAlone, DisposalCovers, TypeOK
<1>6. UnbornIsUnknown' /\ RegisteredSessionsAreWatched'
  BY DEF UnbornIsUnknown, RegisteredSessionsAreWatched, ObtainsAreAlone,
         MapsAgree, TypeOK
<1>7. DisposalCovers'
  BY DEF DisposalCovers, ServiceInPlace, ObtainsAreAlone, MapsAgree, TypeOK
<1>8. QED
  BY <1>1, <1>2, <1>3, <1>4, <1>5, <1>6, <1>7

LEMMA ScriptCreatedKeeps ==
  ASSUME IInv, SerialObtain = TRUE, UNCHANGED inTurn,
         NEW c \in Callers, NEW x \in Scripts,
         ScriptCreated(c, x)
  PROVE  IInv'
<1> USE DEF IInv, ScriptCreated, Enter, Return, ListScript
<1>1. TypeOK'
  BY DEF TypeOK, ArgumentsFit, ObtainsAreAlone
<1>2. MapsAgree' /\ NoReleaseAssertionFails'
  BY DEF MapsAgree, NoReleaseAssertionFails, ObtainsAreAlone, DisposalCovers,
         UnbornIsUnknown, ArgumentsFit, TypeOK
<1>3. ArgumentsFit'
  BY DEF ArgumentsFit, TypeOK
<1>4. ObtainsAreAlone'
  BY DEF ObtainsAreAlone, DisposalCovers, ServiceInPlace, ArgumentsFit,
         TypeOK
<1>5. ServiceInPlace'
  BY DEF ServiceInPlace, ObtainsAreAlone, DisposalCovers, TypeOK
<1>6. UnbornIsUnknown' /\ RegisteredSessionsAreWatched'
  BY DEF UnbornIsUnknown, RegisteredSessionsAreWatched, ObtainsAreAlone,
         MapsAgree, TypeOK
<1>7. DisposalCovers'
  BY DEF DisposalCovers, ServiceInPlace, ObtainsAreAlone, MapsAgree, TypeOK
<1>8. QED
  BY <1>1, <1>2, <1>3, <1>4, <1>5, <1>6, <1>7

LEMMA CreateFailedKeeps ==
  ASSUME IInv, SerialObtain = TRUE, UNCHANGED inTurn,
         NEW c \in Callers,
         CreateFailed(c)
  PROVE  IInv'
<1> USE DEF IInv, CreateFailed, Enter, Return
<1>1. TypeOK'
  BY DEF TypeOK, ArgumentsFit, ObtainsAreAlone
<1>2. MapsAgree' /\ NoReleaseAssertionFails'
  BY DEF MapsAgree, NoReleaseAssertionFails, ObtainsAreAlone, DisposalCovers,
         UnbornIsUnknown, ArgumentsFit, TypeOK
<1>3. ArgumentsFit'
  BY DEF ArgumentsFit, TypeOK
<1>4. ObtainsAreAlone'
  BY DEF ObtainsAreAlone, DisposalCovers, ServiceInPlace, ArgumentsFit,
         TypeOK
<1>5. ServiceInPlace'
  BY DEF ServiceInPlace, ObtainsAreAlone, DisposalCovers, TypeOK
<1>6. UnbornIsUnknown' /\ RegisteredSessionsAreWatched'
  BY DEF UnbornIsUnknown, RegisteredSessionsAreWatched, ObtainsAreAlone,
         MapsAgree, TypeOK
<1>7. DisposalCovers'
  BY DEF DisposalCovers, ServiceInPlace, ObtainsAreAlone, MapsAgree, TypeOK
<1>8. QED
  BY <1>1, <1>2, <1>3, <1>4, <1>5, <1>6, <1>7

LEMMA UseScriptKeeps ==
  ASSUME IInv, SerialObtain = TRUE, UNCHANGED inTurn,
         NEW c \in Callers, NEW x \in Scripts,
         UseScript(c, x)
  PROVE  IInv'
<1> USE DEF IInv, UseScript, Enter
<1>1. TypeOK'
  BY DEF TypeOK, ArgumentsFit, ObtainsAreAlone
<1>2. MapsAgree' /\ NoReleaseAssertionFails'
  BY DEF MapsAgree, NoReleaseAssertionFails, ObtainsAreAlone, DisposalCovers,
         UnbornIsUnknown, ArgumentsFit, TypeOK
<1>3. ArgumentsFit'
  BY DEF ArgumentsFit, TypeOK
<1>4. ObtainsAreAlone'
  BY DEF ObtainsAreAlone, DisposalCovers, ServiceInPlace, ArgumentsFit,
         TypeOK
<1>5. ServiceInPlace'
  BY DEF ServiceInPlace, ObtainsAreAlone, DisposalCovers, TypeOK
<1>6. UnbornIsUnknown' /\ RegisteredSessionsAreWatched'
  BY DEF UnbornIsUnknown, RegisteredSessionsAreWatched, ObtainsAreAlone,
         MapsAgree, TypeOK
<1>7. DisposalCovers'
  BY DEF DisposalCovers, ServiceInPlace, ObtainsAreAlone, MapsAgree, TypeOK
<1>8. QED
  BY <1>1, <1>2, <1>3, <1>4, <1>5, <1>6, <1>7

LEMMA UnloadScriptKeeps ==
  ASSUME IInv, SerialObtain = TRUE, UNCHANGED inTurn,
         NEW c \in Callers, NEW x \in Scripts,
         UnloadScript(c, x)
  PROVE  IInv'
<1> USE DEF IInv, UnloadScript, Enter
<1>1. TypeOK'
  BY SMTT(30) DEF TypeOK, ArgumentsFit, ObtainsAreAlone
<1>2. MapsAgree' /\ NoReleaseAssertionFails'
  BY DEF MapsAgree, NoReleaseAssertionFails, ObtainsAreAlone, DisposalCovers,
         UnbornIsUnknown, ArgumentsFit, TypeOK
<1>3. ArgumentsFit'
  BY DEF ArgumentsFit, TypeOK
<1>4. ObtainsAreAlone'
  BY DEF ObtainsAreAlone, DisposalCovers, ServiceInPlace, ArgumentsFit,
         TypeOK
<1>5. ServiceInPlace'
  BY DEF ServiceInPlace, ObtainsAreAlone, DisposalCovers, TypeOK
<1>6. UnbornIsUnknown' /\ RegisteredSessionsAreWatched'
  BY DEF UnbornIsUnknown, RegisteredSessionsAreWatched, ObtainsAreAlone,
         MapsAgree, TypeOK
<1>7. DisposalCovers'
  BY DEF DisposalCovers, ServiceInPlace, ObtainsAreAlone, MapsAgree, TypeOK
<1>8. QED
  BY <1>1, <1>2, <1>3, <1>4, <1>5, <1>6, <1>7

LEMMA ScriptCallReturnsKeeps ==
  ASSUME IInv, SerialObtain = TRUE, UNCHANGED inTurn,
         NEW c \in Callers,
         ScriptCallReturns(c)
  PROVE  IInv'
<1> USE DEF IInv, ScriptCallReturns, Enter, Return
<1>1. TypeOK'
  BY DEF TypeOK, ArgumentsFit, ObtainsAreAlone
<1>2. MapsAgree' /\ NoReleaseAssertionFails'
  BY DEF MapsAgree, NoReleaseAssertionFails, ObtainsAreAlone, DisposalCovers,
         UnbornIsUnknown, ArgumentsFit, TypeOK
<1>3. ArgumentsFit'
  BY DEF ArgumentsFit, TypeOK
<1>4. ObtainsAreAlone'
  BY DEF ObtainsAreAlone, DisposalCovers, ServiceInPlace, ArgumentsFit,
         TypeOK
<1>5. ServiceInPlace'
  BY DEF ServiceInPlace, ObtainsAreAlone, DisposalCovers, TypeOK
<1>6. UnbornIsUnknown' /\ RegisteredSessionsAreWatched'
  BY DEF UnbornIsUnknown, RegisteredSessionsAreWatched, ObtainsAreAlone,
         MapsAgree, TypeOK
<1>7. DisposalCovers'
  BY DEF DisposalCovers, ServiceInPlace, ObtainsAreAlone, MapsAgree, TypeOK
<1>8. QED
  BY <1>1, <1>2, <1>3, <1>4, <1>5, <1>6, <1>7

LEMMA DisposeKeeps ==
  ASSUME IInv, SerialObtain = TRUE, UNCHANGED inTurn,
         NEW c \in Callers,
         Dispose(c)
  PROVE  IInv'
<1> USE DEF IInv, Dispose, Goto
<1>0. SessionSnapshot \subseteq Handles
  BY DEF TypeOK, SessionSnapshot
<1>1. TypeOK'
  BY <1>0 DEF TypeOK, ArgumentsFit, ObtainsAreAlone
<1>2. MapsAgree' /\ NoReleaseAssertionFails'
  BY DEF MapsAgree, NoReleaseAssertionFails, ObtainsAreAlone, DisposalCovers,
         UnbornIsUnknown, ArgumentsFit, TypeOK
<1>3. ArgumentsFit'
  BY DEF ArgumentsFit, TypeOK
<1>4. ObtainsAreAlone'
  BY DEF ObtainsAreAlone, DisposalCovers, ServiceInPlace, ArgumentsFit,
         TypeOK
<1>5. ServiceInPlace'
  BY DEF ServiceInPlace, ObtainsAreAlone, DisposalCovers, TypeOK
<1>6. UnbornIsUnknown' /\ RegisteredSessionsAreWatched'
  BY DEF UnbornIsUnknown, RegisteredSessionsAreWatched, ObtainsAreAlone,
         MapsAgree, TypeOK
<1>7. DisposalCovers'
  BY DEF SessionSnapshot, DisposalCovers, ServiceInPlace, ObtainsAreAlone, MapsAgree, TypeOK
<1>8. QED
  BY <1>1, <1>2, <1>3, <1>4, <1>5, <1>6, <1>7

LEMMA DisposeClosesKeeps ==
  ASSUME IInv, SerialObtain = TRUE, UNCHANGED inTurn,
         NEW c \in Callers, NEW h \in Handles,
         DisposeCloses(c, h)
  PROVE  IInv'
<1> USE DEF IInv
<1> DEFINE Rest == /\ op[c] = "dispose" /\ disposing' = disposing \ {h}
                   /\ UNCHANGED <<managerVars, scriptVars, agentVars>>
<1>1. CASE manager[h]
  <2>1. /\ Released(h, TRUE) /\ Enter(c, "dispose_wait", h) /\ Rest
        /\ h \in byHandle
    BY <1>1, BeginCloseReleases DEF DisposeCloses, MapsAgree
  <2>2. TypeOK'
    <3>1. /\ op' \in [Callers -> Ops]
          /\ arg' \in [Callers -> Pids \cup Handles \cup Scripts \cup {None}]
      BY <2>1 DEF Enter, TypeOK
    <3>2. QED
      BY <2>1, <3>1 DEF Released, TypeOK
  <2>3. MapsAgree' /\ NoReleaseAssertionFails'
    BY <2>1 DEF Released, MapsAgree, NoReleaseAssertionFails, TypeOK
  <2>4. ArgumentsFit'
    BY <2>1 DEF Enter, ArgumentsFit, TypeOK
  <2>5. ObtainsAreAlone' /\ ServiceInPlace'
    BY <2>1 DEF Released, Enter, ObtainsAreAlone, ServiceInPlace,
                DisposalCovers, TypeOK
  <2>6. UnbornIsUnknown' /\ RegisteredSessionsAreWatched' /\ DisposalCovers'
    BY <2>1 DEF Released, Enter, UnbornIsUnknown, DisposalCovers,
                RegisteredSessionsAreWatched, TypeOK
  <2>7. QED
    BY <2>2, <2>3, <2>4, <2>5, <2>6
<1>2. CASE ~manager[h]
  <2>1. /\ UNCHANGED <<mapVars, closeVars, crash, op, arg>> /\ Rest
        /\ h \notin byHandle
    BY <1>2 DEF DisposeCloses, MapsAgree
  <2>2. TypeOK'
    BY <2>1 DEF TypeOK
  <2>3. MapsAgree' /\ NoReleaseAssertionFails' /\ DisposalCovers'
    BY <2>1 DEF MapsAgree, NoReleaseAssertionFails, DisposalCovers
  <2>4. ArgumentsFit' /\ ObtainsAreAlone' /\ ServiceInPlace'
    BY <2>1 DEF ArgumentsFit, ObtainsAreAlone, ServiceInPlace
  <2>5. UnbornIsUnknown' /\ RegisteredSessionsAreWatched'
    BY <2>1 DEF UnbornIsUnknown, RegisteredSessionsAreWatched
  <2>6. QED
    BY <2>2, <2>3, <2>4, <2>5
<1>3. QED
  BY <1>1, <1>2

LEMMA DisposeResumesKeeps ==
  ASSUME IInv, SerialObtain = TRUE, UNCHANGED inTurn,
         NEW c \in Callers,
         DisposeResumes(c)
  PROVE  IInv'
<1> USE DEF IInv, DisposeResumes, Enter
<1>1. TypeOK'
  BY DEF TypeOK, ArgumentsFit, ObtainsAreAlone
<1>2. MapsAgree' /\ NoReleaseAssertionFails'
  BY DEF MapsAgree, NoReleaseAssertionFails, ObtainsAreAlone, DisposalCovers,
         UnbornIsUnknown, ArgumentsFit, TypeOK
<1>3. ArgumentsFit'
  BY DEF ArgumentsFit, TypeOK
<1>4. ObtainsAreAlone'
  BY DEF ObtainsAreAlone, DisposalCovers, ServiceInPlace, ArgumentsFit,
         TypeOK
<1>5. ServiceInPlace'
  BY DEF ServiceInPlace, ObtainsAreAlone, DisposalCovers, TypeOK
<1>6. UnbornIsUnknown' /\ RegisteredSessionsAreWatched'
  BY DEF UnbornIsUnknown, RegisteredSessionsAreWatched, ObtainsAreAlone,
         MapsAgree, TypeOK
<1>7. DisposalCovers'
  BY DEF DisposalCovers, ServiceInPlace, ObtainsAreAlone, MapsAgree, TypeOK
<1>8. QED
  BY <1>1, <1>2, <1>3, <1>4, <1>5, <1>6, <1>7

LEMMA ServiceStoppedKeeps ==
  ASSUME IInv, SerialObtain = TRUE, UNCHANGED inTurn,
         NEW c \in Callers,
         ServiceStopped(c)
  PROVE  IInv'
<1> USE DEF IInv, ServiceStopped, Enter, Return
<1>1. TypeOK'
  BY DEF TypeOK, ArgumentsFit, ObtainsAreAlone
<1>2. MapsAgree' /\ NoReleaseAssertionFails'
  BY DEF MapsAgree, NoReleaseAssertionFails, ObtainsAreAlone, DisposalCovers,
         UnbornIsUnknown, ArgumentsFit, TypeOK
<1>3. ArgumentsFit'
  BY DEF ArgumentsFit, TypeOK
<1>4. ObtainsAreAlone'
  BY DEF ObtainsAreAlone, DisposalCovers, ServiceInPlace, ArgumentsFit,
         TypeOK
<1>5. ServiceInPlace'
  BY DEF ServiceInPlace, ObtainsAreAlone, DisposalCovers, TypeOK
<1>6. UnbornIsUnknown' /\ RegisteredSessionsAreWatched'
  BY DEF UnbornIsUnknown, RegisteredSessionsAreWatched, ObtainsAreAlone,
         MapsAgree, TypeOK
<1>7. DisposalCovers'
  BY DEF DisposalCovers, ServiceInPlace, ObtainsAreAlone, MapsAgree, TypeOK
<1>8. QED
  BY <1>1, <1>2, <1>3, <1>4, <1>5, <1>6, <1>7

LEMMA AgentVanishesKeeps ==
  ASSUME IInv, SerialObtain = TRUE, UNCHANGED inTurn,
         NEW h \in Handles,
         AgentVanishes(h)
  PROVE  IInv'
<1> USE DEF IInv, AgentVanishes
<1>1. TypeOK'
  BY DEF TypeOK, ArgumentsFit, ObtainsAreAlone
<1>2. MapsAgree' /\ NoReleaseAssertionFails'
  BY DEF MapsAgree, NoReleaseAssertionFails, ObtainsAreAlone, DisposalCovers,
         UnbornIsUnknown, ArgumentsFit, TypeOK
<1>3. ArgumentsFit'
  BY DEF ArgumentsFit, TypeOK
<1>4. ObtainsAreAlone'
  BY DEF ObtainsAreAlone, DisposalCovers, ServiceInPlace, ArgumentsFit,
         TypeOK
<1>5. ServiceInPlace'
  BY DEF ServiceInPlace, ObtainsAreAlone, DisposalCovers, TypeOK
<1>6. UnbornIsUnknown' /\ RegisteredSessionsAreWatched'
  BY DEF UnbornIsUnknown, RegisteredSessionsAreWatched, ObtainsAreAlone,
         MapsAgree, TypeOK
<1>7. DisposalCovers'
  BY DEF DisposalCovers, ServiceInPlace, ObtainsAreAlone, MapsAgree, TypeOK
<1>8. QED
  BY <1>1, <1>2, <1>3, <1>4, <1>5, <1>6, <1>7
-----------------------------------------------------------------------------
LEMMA InitEstablishesIInv == Init => IInv
<1> SUFFICES ASSUME Init PROVE IInv
  OBVIOUS
<1> USE DEF Init
<1>1. TypeOK
  BY DEF TypeOK
<1>2. MapsAgree /\ NoReleaseAssertionFails /\ RegisteredSessionsAreWatched
  BY DEF MapsAgree, NoReleaseAssertionFails, RegisteredSessionsAreWatched
<1>3. ArgumentsFit /\ ObtainsAreAlone /\ ServiceInPlace
  BY DEF ArgumentsFit, ObtainsAreAlone, ServiceInPlace
<1>4. UnbornIsUnknown /\ DisposalCovers
  BY DEF UnbornIsUnknown, DisposalCovers
<1>5. QED
  BY <1>1, <1>2, <1>3, <1>4 DEF IInv

LEMMA NextKeepsIInv ==
  ASSUME IInv, [Next]_vars, SerialObtain = TRUE
  PROVE  IInv'
<1>1. CASE UNCHANGED vars
  BY <1>1 DEF vars, IInv, TypeOK, MapsAgree, ArgumentsFit, ObtainsAreAlone,
              ServiceInPlace, UnbornIsUnknown, DisposalCovers,
              RegisteredSessionsAreWatched, NoReleaseAssertionFails
<1>2. ASSUME NEW c \in Callers, ClientCalls(c), UNCHANGED inTurn
      PROVE  IInv'
  BY <1>2, ObtainSessionKeeps, CloseSessionKeeps, CreateScriptKeeps,
     UseScriptKeeps, UnloadScriptKeeps, DisposeKeeps DEF ClientCalls
<1>3. ASSUME NEW c \in Callers, CallProceeds(c), UNCHANGED inTurn
      PROVE  IInv'
  BY <1>3, ServiceStartedKeeps, HostSessionCreatedKeeps, AttachedKeeps,
     SessionObtainedKeeps, ObtainFailedKeeps, CloseReturnsKeeps,
     ScriptCreatedKeeps, CreateFailedKeeps, ScriptCallReturnsKeeps,
     DisposeClosesKeeps, DisposeResumesKeeps, ServiceStoppedKeeps
     DEF CallProceeds
<1>4. ASSUME NEW h \in Handles, CloseProceeds(h), UNCHANGED inTurn
      PROVE  IInv'
  BY <1>4, CloseUnloadsScriptKeeps, CloseScriptDestroyedKeeps,
     CloseAsksAgentKeeps, CloseEndsKeeps DEF CloseProceeds
<1>5. ASSUME NEW h \in Handles, UNCHANGED inTurn,
             AgentSessionClosed(h) \/ AgentVanishes(h)
      PROVE  IInv'
  BY <1>5, AgentSessionClosedKeeps, AgentVanishesKeeps
<1>6. QED
  BY <1>1, <1>2, <1>3, <1>4, <1>5 DEF Next

LEMMA IInvHolds ==
  ASSUME SerialObtain = TRUE
  PROVE  Spec => []IInv
<1>1. IInv /\ [Next]_vars => IInv'
  BY NextKeepsIInv
<1>2. QED
  BY InitEstablishesIInv, <1>1, PTL DEF Spec

\* session_by_pid and session_by_handle always hold the same sessions, those
\* whose manager is not null.
THEOREM MapsAlwaysAgree ==
  ASSUME SerialObtain = TRUE
  PROVE  Spec => []MapsAgree
<1>1. IInv => MapsAgree
  BY DEF IInv
<1>2. QED
  BY IInvHolds, <1>1, PTL

\* Neither assertion of _release_session ever fails.
THEOREM ReleaseNeverAsserts ==
  ASSUME SerialObtain = TRUE
  PROVE  Spec => []NoReleaseAssertionFails
<1>1. IInv => NoReleaseAssertionFails
  BY DEF IInv
<1>2. QED
  BY IInvHolds, <1>1, PTL

\* obtain_session_for never goes on returning a session whose agent is gone.
THEOREM RegisteredSessionsStayWatched ==
  ASSUME SerialObtain = TRUE
  PROVE  Spec => []RegisteredSessionsAreWatched
<1>1. IInv => RegisteredSessionsAreWatched
  BY DEF IInv
<1>2. QED
  BY IInvHolds, <1>1, PTL

\* No Session points at its manager once the manager has been disposed of.
THEOREM ManagerNeverDangles ==
  ASSUME SerialObtain = TRUE
  PROVE  Spec => []NoDanglingManager
<1>1. IInv => NoDanglingManager
  BY DEF IInv, DisposalCovers, MapsAgree, TypeOK, NoDanglingManager
<1>2. QED
  BY IInvHolds, <1>1, PTL
-----------------------------------------------------------------------------
(* SessionManager implements SessionRegistry.  Every step of the manager is *)
(* one of four as far as the life of its Sessions goes (StepsOfALife);     *)
(* LifeFits is what they rest on, and each is a step of the registry or a  *)
(* stutter.                                                                *)

Closing == {"unload", "destroy", "agent"}

\* Where _do_close of a Session stands fits what the Session looks like.
LifeFits ==
    \A h \in Handles :
        /\ agent[h] = "unborn" => pid[h] = None
        /\ pid[h] = None => ~manager[h] /\ closer[h] = "idle"
        /\ manager[h] => closer[h] = "idle"
        /\ closedSignals[h] = IF closer[h] = "done" THEN 1 ELSE 0

-----------------------------------------------------------------------------
(* What a step may do to the life of the Sessions.                         *)

UnbornStay(S) == \A h \in S : agent'[h] = "unborn" => agent[h] = "unborn"

Quiet ==
    /\ UnbornStay(Handles)
    /\ UNCHANGED <<pid, manager, closedSignals>>
    /\ \/ finalized' = finalized
       \/ finalized' = TRUE /\ \A h \in Handles : ~manager[h]
    /\ closer' \in [Handles -> Closers]
    /\ \A h \in Handles :
           closer'[h] = closer[h] \/ {closer[h], closer'[h]} \subseteq Closing

Opened(h, p) ==
    /\ agent[h] = "unborn" /\ UnbornStay(Handles) /\ agent'[h] # "unborn"
    /\ pid' = [pid EXCEPT ![h] = p] /\ p \in Pids
    /\ \A g \in Handles : manager[g] => pid[g] # p
    /\ manager' = [manager EXCEPT ![h] = TRUE]
    /\ ~finalized
    /\ UNCHANGED <<closer, closedSignals, finalized>>

Forgotten(h) ==
    /\ manager[h] /\ UnbornStay(Handles)
    /\ manager' = [manager EXCEPT ![h] = FALSE]
    /\ closer' = [closer EXCEPT ![h] = "unload"]
    /\ UNCHANGED <<pid, closedSignals, finalized>>

Ended(h) ==
    /\ closer[h] \in Closing /\ UnbornStay(Handles)
    /\ closer' = [closer EXCEPT ![h] = "done"]
    /\ closedSignals' = [closedSignals EXCEPT ![h] = @ + 1]
    /\ UNCHANGED <<pid, manager, finalized>>

LifeStep ==
    \/ Quiet
    \/ \E h \in Handles, p \in Pids : Opened(h, p)
    \/ \E h \in Handles : Forgotten(h) \/ Ended(h)

LEMMA ClientsOnly ==
  ASSUME IInv, NEW c \in Callers, ClientCalls(c)
  PROVE  LifeStep
<1> USE DEF IInv, LifeStep
<1>1. CASE \E p \in Pids : ObtainSession(c, p)
  BY <1>1 DEF ObtainSession, Quiet, UnbornStay, TypeOK
<1>2. ASSUME NEW h \in Handles, CloseSession(c, h)
      PROVE  LifeStep
  <2>1. Released(h, TRUE) /\ manager[h] /\ UNCHANGED <<agentVars, finalized>>
    BY <1>2, BeginCloseReleases DEF CloseSession
  <2>2. Forgotten(h)
    BY <2>1 DEF Released, Forgotten, UnbornStay
  <2>3. QED
    BY <2>2
<1>3. CASE \E h \in Handles : CreateScript(c, h)
  BY <1>3 DEF CreateScript, Quiet, UnbornStay, TypeOK
<1>4. CASE \E x \in Scripts : UseScript(c, x) \/ UnloadScript(c, x)
  BY <1>4 DEF UseScript, UnloadScript, Quiet, UnbornStay, TypeOK
<1>5. CASE Dispose(c)
  <2>1. finalized' = finalized \/ (finalized' = TRUE /\ byHandle = {})
    BY <1>5 DEF Dispose, ServiceInPlace, TypeOK
  <2>2. QED
    BY <1>5, <2>1 DEF Dispose, Quiet, UnbornStay, TypeOK, MapsAgree
<1>6. QED
  BY <1>1, <1>2, <1>3, <1>4, <1>5 DEF ClientCalls

LEMMA CallsOnly ==
  ASSUME IInv, NEW c \in Callers, CallProceeds(c)
  PROVE  LifeStep
<1> USE DEF IInv, LifeStep
<1>1. CASE ServiceStarted(c) \/ HostSessionCreated(c) \/ Attached(c)
             \/ ObtainFailed(c)
  BY <1>1 DEF ServiceStarted, HostSessionCreated, Attached, ObtainFailed,
              Quiet, UnbornStay, TypeOK
<1>2. ASSUME NEW h \in Handles, SessionObtained(c, h)
      PROVE  LifeStep
  <2>1. /\ arg[c] \in Pids /\ byPid[arg[c]] = None /\ provider \in Services
        /\ ~finalized
    BY <1>2 DEF SessionObtained, ArgumentsFit, ObtainsAreAlone, DisposalCovers
  <2>2. \A g \in Handles : manager[g] => pid[g] # arg[c]
    BY <2>1 DEF MapsAgree
  <2>3. agent'[h] # "unborn" /\ UnbornStay(Handles)
    BY <1>2, <2>1 DEF SessionObtained, UnbornStay, TypeOK
  <2>4. Opened(h, arg[c])
    BY <1>2, <2>1, <2>2, <2>3 DEF SessionObtained, Opened, HandleFree
  <2>5. QED
    BY <2>1, <2>4
<1>3. CASE CloseReturns(c) \/ CreateFailed(c) \/ ScriptCallReturns(c)
             \/ \E x \in Scripts : ScriptCreated(c, x)
  BY <1>3 DEF CloseReturns, CreateFailed, ScriptCallReturns, ScriptCreated,
              Quiet, UnbornStay, TypeOK
<1>4. ASSUME NEW h \in Handles, DisposeCloses(c, h)
      PROVE  LifeStep
  <2>1. CASE manager[h]
    <3>1. Released(h, TRUE) /\ UNCHANGED <<agentVars, finalized>>
      BY <1>4, <2>1, BeginCloseReleases DEF DisposeCloses
    <3>2. Forgotten(h)
      BY <2>1, <3>1 DEF Released, Forgotten, UnbornStay
    <3>3. QED
      BY <3>2
  <2>2. CASE ~manager[h]
    BY <1>4, <2>2 DEF DisposeCloses, Quiet, UnbornStay, TypeOK
  <2>3. QED
    BY <2>1, <2>2
<1>5. CASE DisposeResumes(c)
  BY <1>5 DEF DisposeResumes, Quiet, UnbornStay, TypeOK
<1>6. CASE ServiceStopped(c)
  <2>1. finalized' = TRUE /\ byHandle = {}
    BY <1>6 DEF ServiceStopped, DisposalCovers
  <2>2. QED
    BY <1>6, <2>1 DEF ServiceStopped, Quiet, UnbornStay, TypeOK, MapsAgree
<1>7. QED
  BY <1>1, <1>2, <1>3, <1>4, <1>5, <1>6 DEF CallProceeds

LEMMA LoopOnly ==
  ASSUME IInv, NEW h \in Handles,
         CloseProceeds(h) \/ AgentSessionClosed(h) \/ AgentVanishes(h)
  PROVE  LifeStep
<1> USE DEF IInv, LifeStep
<1>1. CASE \E x \in Scripts : CloseUnloadsScript(h, x)
  BY <1>1 DEF CloseUnloadsScript, Quiet, UnbornStay, TypeOK, Closing
<1>2. CASE CloseScriptDestroyed(h) \/ CloseAsksAgent(h)
  BY <1>2 DEF CloseScriptDestroyed, CloseAsksAgent, Quiet, UnbornStay, TypeOK,
              Closing
<1>3. CASE CloseEnds(h)
  <2>1. Ended(h)
    BY <1>3 DEF CloseEnds, AgentIsClosed, Ended, UnbornStay, TypeOK, Closing
  <2>2. QED
    BY <2>1
<1>4. CASE AgentSessionClosed(h) /\ IsOurs(h)
  <2>1. Released(h, FALSE) /\ manager[h] /\ UNCHANGED <<agent, finalized>>
    BY <1>4, BeginCloseReleases DEF AgentSessionClosed, IsOurs
  <2>2. Forgotten(h)
    BY <2>1 DEF Released, Forgotten, UnbornStay
  <2>3. QED
    BY <2>2
<1>5. CASE AgentSessionClosed(h) /\ ~IsOurs(h)
  BY <1>5 DEF AgentSessionClosed, Quiet, UnbornStay, TypeOK
<1>6. CASE AgentVanishes(h)
  BY <1>6 DEF AgentVanishes, Quiet, UnbornStay, TypeOK
<1>7. QED
  BY <1>1, <1>2, <1>3, <1>4, <1>5, <1>6 DEF CloseProceeds

LEMMA StepsOfALife ==
  ASSUME IInv, [Next]_vars
  PROVE  LifeStep
<1>1. CASE UNCHANGED vars
  BY <1>1 DEF vars, LifeStep, Quiet, UnbornStay, IInv, TypeOK
<1>2. CASE Next
  BY <1>2, ClientsOnly, CallsOnly, LoopOnly DEF Next
<1>3. QED
  BY <1>1, <1>2
-----------------------------------------------------------------------------
LEMMA LifeStepKeepsLifeFits ==
  ASSUME IInv, LifeFits, LifeStep
  PROVE  LifeFits'
<1> USE DEF LifeFits, IInv, TypeOK, UnbornStay, Closing
<1>1. CASE Quiet
  BY <1>1 DEF Quiet
<1>2. ASSUME NEW h \in Handles, NEW p \in Pids, Opened(h, p)
      PROVE  LifeFits'
  BY <1>2 DEF Opened
<1>3. ASSUME NEW h \in Handles, Forgotten(h)
      PROVE  LifeFits'
  BY <1>3 DEF Forgotten
<1>4. ASSUME NEW h \in Handles, Ended(h)
      PROVE  LifeFits'
  BY <1>4 DEF Ended
<1>5. QED
  BY <1>1, <1>2, <1>3, <1>4 DEF LifeStep

LEMMA LifeStepsImplementRegistry ==
  ASSUME IInv, LifeFits, LifeStep
  PROVE  [Registry!Next]_(Registry!vars)
<1> USE DEF IInv, TypeOK, LifeFits, SessionState, Closing
<1>1. CASE Quiet
  <2>1. UNCHANGED <<SessionState, pid>>
    BY <1>1 DEF Quiet
  <2>2. CASE finalized' = finalized
    BY <2>1, <2>2 DEF Registry!vars
  <2>3. CASE finalized' = TRUE /\ \A h \in Handles : ~manager[h]
    <3>1. \A h \in Handles : SessionState[h] # "open"
      BY <2>3
    <3>2. finalized' = TRUE
      BY <2>3
    <3>3. Registry!Dispose
      BY <2>1, <3>1, <3>2 DEF Registry!Dispose
    <3>4. QED
      BY <3>3 DEF Registry!Next
  <2>4. QED
    BY <1>1, <2>2, <2>3 DEF Quiet
<1>2. ASSUME NEW h \in Handles, NEW p \in Pids, Opened(h, p)
      PROVE  Registry!Open(h, p)
  <2>1. SessionState[h] = "unborn"
    BY <1>2 DEF Opened
  <2>2. \A g \in Handles : SessionState[g] = "open" => pid[g] # p
    BY <1>2 DEF Opened
  <2>3. SessionState' = [SessionState EXCEPT ![h] = "open"]
    BY <1>2 DEF Opened
  <2>4. QED
    BY <1>2, <2>1, <2>2, <2>3 DEF Registry!Open, Opened
<1>3. ASSUME NEW h \in Handles, Forgotten(h)
      PROVE  Registry!Release(h)
  <2>1. SessionState[h] = "open"
    BY <1>3 DEF Forgotten
  <2>2. SessionState' = [SessionState EXCEPT ![h] = "closing"]
    BY <1>3 DEF Forgotten
  <2>3. QED
    BY <1>3, <2>1, <2>2 DEF Registry!Release, Forgotten
<1>4. ASSUME NEW h \in Handles, Ended(h)
      PROVE  Registry!EmitClosed(h)
  <2>1. SessionState[h] = "closing"
    BY <1>4 DEF Ended
  <2>2. SessionState' = [SessionState EXCEPT ![h] = "closed"]
    <3>1. closedSignals[h] = 0 /\ pid[h] # None /\ ~manager[h]
      BY <1>4 DEF Ended
    <3>2. closedSignals'[h] = 1
      BY <1>4, <3>1 DEF Ended
    <3>3. \A g \in Handles : g # h => closedSignals'[g] = closedSignals[g]
      BY <1>4 DEF Ended
    <3>4. UNCHANGED <<pid, manager>>
      BY <1>4 DEF Ended
    <3>5. SessionState'[h] = "closed"
      BY <3>1, <3>2, <3>4
    <3>6. \A g \in Handles : g # h => SessionState'[g] = SessionState[g]
      BY <3>3, <3>4
    <3>7. /\ SessionState = [g \in Handles |-> SessionState[g]]
          /\ SessionState' = [g \in Handles |-> SessionState'[g]]
      OBVIOUS
    <3> HIDE DEF SessionState
    <3>8. QED
      BY <3>5, <3>6, <3>7
  <2>3. QED
    BY <1>4, <2>1, <2>2 DEF Registry!EmitClosed, Ended
<1>5. QED
  BY <1>1, <1>2, <1>3, <1>4 DEF LifeStep, Registry!Next

\* The session manager implements the registry of sessions its clients are
\* promised: a session is opened for a process that has none, released once and
\* then closed once, whatever its clients and agents do meanwhile.
THEOREM ManagerImplementsRegistry ==
  ASSUME SerialObtain = TRUE
  PROVE  Spec => ImplementsRegistry
<1>1. Init => LifeFits /\ Registry!Init
  BY DEF Init, LifeFits, Registry!Init, SessionState
<1>2. IInv /\ LifeFits /\ [Next]_vars
          => LifeFits' /\ [Registry!Next]_(Registry!vars)
  BY StepsOfALife, LifeStepKeepsLifeFits, LifeStepsImplementRegistry
<1>3. QED
  BY IInvHolds, <1>1, <1>2, PTL DEF Spec, ImplementsRegistry, Registry!Spec

-----------------------------------------------------------------------------
(* Scripts, when clients take turns.  Nothing here rests on obtains that do *)
(* not overlap.                                                            *)

\* What the types rest on: an obtain has a service, and its provider by the time it is
\* used, and nobody obtains from a manager being disposed of.
ProvidersFit ==
    /\ \A c \in Callers : op[c] \in Obtaining => service \in Services /\ ~closed
    /\ \A c \in Callers :
           op[c] \in {"create_host", "attach", "obtain_agent"} => provider \in Services
    /\ \A c \in Callers : op[c] \in {"dispose", "dispose_wait"} => closed
    /\ localSession # None => provider \in Services /\ service \in Services

Types == TypeOK /\ ArgumentsFit /\ ProvidersFit

\* A script is listed by the session that owns it, and a snapshot holds scripts of its
\* session that may have been unloaded meanwhile.
ScriptsFit ==
    /\ \A h \in Handles : scripts[h] = {x \in Scripts : owner[x] = h}
    /\ \A h \in Handles : \A x \in todo[h] : owner[x] \in {h, None}
    /\ \A h \in Handles : closer[h] = "agent" => todo[h] = {}

\* A session that has its manager is not being closed, and one that nobody has obtained
\* has none; what is noticed of an agent is that it has gone.
SessionsFit ==
    /\ \A h \in Handles : manager[h] => closer[h] = "idle" /\ internal[h]
    /\ \A h \in Handles : agent[h] = "unborn" => ~manager[h] /\ closer[h] = "idle"
    /\ \A h \in notices : agent[h] = "gone"

\* Client threads that take turns: one call on a Session or a Script at a time, which is
\* the one that a blocking close is part of; and a script is created in an open session
\* or one whose agent has gone.
SessionCalls == {"close", "create", "use", "unload", "dispose", "dispose_wait"}

TurnsAreTaken ==
    /\ \A c, d \in Callers : op[c] \in SessionCalls /\ op[d] \in SessionCalls => c = d
    /\ \A c \in Callers : op[c] = "create" => manager[arg[c]] \/ agent[arg[c]] = "gone"
    /\ \A h \in Handles : closer[h] \in Closing /\ mayBlock[h] =>
           \E c \in Callers : op[c] \in {"close", "dispose_wait"} /\ arg[c] = h

\* The snapshot of a close holds all scripts the session still has, and when the close
\* blocks no other; and a session keeps its AgentSession as long as it has scripts.
ScriptsAreUnloaded ==
    /\ \A x \in Scripts : owner[x] \in Handles => internal[owner[x]]
    /\ \A h \in Handles : closer[h] \in Closing => scripts[h] \subseteq todo[h]
    /\ \A h \in Handles : closer[h] \in Closing /\ mayBlock[h] =>
           \A x \in todo[h] : owner[x] = h

NothingOutlives ==
    /\ \A h \in Handles : closer[h] = "done" =>
           scripts[h] = {} /\ \A x \in Scripts : owner[x] # h
    /\ crash \notin {"null_session", "null_internal_session"}

Turns == TurnsAreTaken /\ ScriptsAreUnloaded /\ NothingOutlives

ScriptInv == Types /\ ScriptsFit /\ SessionsFit /\ (inTurn => Turns)

\* What is left of BeginClose when an assertion of _release_session fails.
Asserts ==
    /\ crash' \in {"assert_session_did_exist", "assert_handle"}
    /\ UNCHANGED <<mapVars, closeVars>>

\* What either does to the types.
LEMMA ReleasedKeepsTypes ==
  ASSUME Types, NEW h \in Handles, NEW block \in BOOLEAN,
         Released(h, block) \/ Asserts
  PROVE  /\ byPid' \in [Pids -> Handles \cup {None}]
         /\ byHandle' \subseteq Handles /\ crash' \in Crashes
         /\ pid' = pid /\ internal' = internal /\ unloading' = unloading
         /\ closedSignals' = closedSignals
         /\ manager' \in [Handles -> BOOLEAN] /\ mayBlock' \in [Handles -> BOOLEAN]
         /\ closer' \in [Handles -> Closers] /\ todo' \in [Handles -> SUBSET Scripts]
<1>1. CASE Released(h, block)
  BY <1>1 DEF Released, Types, TypeOK
<1>2. CASE Asserts
  BY <1>2 DEF Asserts, Types, TypeOK
<1>3. QED
  BY <1>1, <1>2

LEMMA BeginCloseOutcomes ==
  ASSUME NEW h \in Handles, NEW block \in BOOLEAN, BeginClose(h, block)
  PROVE  Released(h, block) \/ Asserts
  BY DEF BeginClose, Released, Asserts, ForgetManager, ScriptSnapshot

(* The types, whatever overlaps.                                           *)

LEMMA ClientCallsKeepTypes ==
  ASSUME Types, UNCHANGED inTurn, NEW c \in Callers, ClientCalls(c)
  PROVE  Types'
<1> USE DEF Types, ArgumentsFit, ProvidersFit, Enter, Goto
<1>1. ASSUME NEW p \in Pids, ObtainSession(c, p) PROVE Types'
  <2>1. TypeOK'
    BY <1>1 DEF ObtainSession, TypeOK
  <2>2. ArgumentsFit' /\ ProvidersFit'
    BY <1>1 DEF ObtainSession, TypeOK
  <2>3. QED
    BY <2>1, <2>2
<1>2. ASSUME NEW h \in Handles, CloseSession(c, h) PROVE Types'
  <2>1. Released(h, TRUE) \/ Asserts
    BY <1>2, BeginCloseOutcomes DEF CloseSession
  <2>2. TypeOK'
    BY <1>2, <2>1, ReleasedKeepsTypes DEF CloseSession, TypeOK
  <2>3. ArgumentsFit' /\ ProvidersFit'
    BY <1>2 DEF CloseSession, TypeOK
  <2>4. QED
    BY <2>2, <2>3
<1>3. ASSUME NEW h \in Handles, CreateScript(c, h) PROVE Types'
  BY <1>3 DEF CreateScript, TypeOK
<1>4. ASSUME NEW x \in Scripts, UseScript(c, x) PROVE Types'
  BY <1>4 DEF UseScript, TypeOK
<1>5. ASSUME NEW x \in Scripts, UnloadScript(c, x) PROVE Types'
  <2>1. TypeOK'
    BY <1>5 DEF UnloadScript, TypeOK
  <2>2. ArgumentsFit' /\ ProvidersFit'
    BY <1>5 DEF UnloadScript, TypeOK
  <2>3. QED
    BY <2>1, <2>2
<1>6. CASE Dispose(c)
  <2>1. SessionSnapshot \subseteq Handles
    BY DEF SessionSnapshot, TypeOK
  <2>4. UNCHANGED callVars \/ (disposing' = SessionSnapshot /\ Goto(c, "dispose"))
    BY <1>6 DEF Dispose
  <2>5. op' \in [Callers -> Ops] /\ disposing' \subseteq Handles /\ arg' = arg
    BY <2>1, <2>4 DEF TypeOK
  <2>6. TypeOK'
    <3>1. finalized' \in BOOLEAN /\ closed' \in BOOLEAN
      BY <1>6, Zenon DEF Dispose, TypeOK
    <3>2. QED
      BY <1>6, <2>5, <3>1 DEF Dispose, TypeOK
  <2>2. ArgumentsFit' /\ ProvidersFit'
    BY <1>6 DEF Dispose, TypeOK
  <2>3. QED
    BY <2>2, <2>6
<1>7. QED
  BY <1>1, <1>2, <1>3, <1>4, <1>5, <1>6 DEF ClientCalls

LEMMA CallProceedsKeepsTypes ==
  ASSUME Types, UNCHANGED inTurn, NEW c \in Callers, CallProceeds(c)
  PROVE  Types'
<1> USE DEF Types, ArgumentsFit, ProvidersFit, Enter, Goto, Return
<1>1. CASE ServiceStarted(c)
  BY <1>1 DEF ServiceStarted, TypeOK
<1>2. CASE HostSessionCreated(c)
  BY <1>2 DEF HostSessionCreated, TypeOK
<1>3. CASE \/ Attached(c) \/ ObtainFailed(c) \/ CloseReturns(c) \/ CreateFailed(c)
           \/ DisposeResumes(c)
  BY <1>3 DEF Attached, ObtainFailed, CloseReturns, CreateFailed, DisposeResumes, TypeOK
<1>4. ASSUME NEW h \in Handles, SessionObtained(c, h) PROVE Types'
  <2>1. TypeOK'
    BY <1>4 DEF SessionObtained, TypeOK
  <2>2. ArgumentsFit' /\ ProvidersFit'
    BY <1>4 DEF SessionObtained, TypeOK
  <2>3. QED
    BY <2>1, <2>2
<1>5. ASSUME NEW x \in Scripts, ScriptCreated(c, x) PROVE Types'
  <2>1. TypeOK'
    BY <1>5 DEF ScriptCreated, ListScript, TypeOK
  <2>2. ArgumentsFit' /\ ProvidersFit'
    BY <1>5 DEF ScriptCreated, TypeOK
  <2>3. QED
    BY <2>1, <2>2
<1>6. CASE ScriptCallReturns(c)
  <2>1. agentScripts' \in [Handles -> SUBSET Scripts]
    BY <1>6 DEF ScriptCallReturns, TypeOK
  <2>2. QED
    BY <1>6, <2>1 DEF ScriptCallReturns, TypeOK
<1>7. ASSUME NEW h \in Handles, DisposeCloses(c, h) PROVE Types'
  <2>1. CASE manager[h]
    <3>1. Released(h, TRUE) \/ Asserts
      BY <1>7, <2>1, BeginCloseOutcomes DEF DisposeCloses
    <3>5. op' \in [Callers -> Ops] /\ disposing' \subseteq Handles
          /\ arg' \in [Callers -> Pids \cup Handles \cup Scripts \cup {None}]
      BY <1>7, <2>1 DEF DisposeCloses, TypeOK
    <3>2. TypeOK'
      BY <1>7, <3>1, <3>5, ReleasedKeepsTypes DEF DisposeCloses, TypeOK
    <3>3. ArgumentsFit' /\ ProvidersFit'
      BY <1>7, <2>1 DEF DisposeCloses, TypeOK
    <3>4. QED
      BY <3>2, <3>3
  <2>2. CASE ~manager[h]
    BY <1>7, <2>2 DEF DisposeCloses, TypeOK
  <2>3. QED
    BY <2>1, <2>2
<1>8. CASE ServiceStopped(c)
  <2>1. TypeOK'
    BY <1>8 DEF ServiceStopped, TypeOK
  <2>2. ArgumentsFit' /\ ProvidersFit'
    BY <1>8 DEF ServiceStopped, TypeOK
  <2>3. QED
    BY <2>1, <2>2
<1>9. QED
  BY <1>1, <1>2, <1>3, <1>4, <1>5, <1>6, <1>7, <1>8 DEF CallProceeds

LEMMA LoopKeepsTypes ==
  ASSUME Types, UNCHANGED inTurn, NEW h \in Handles,
         CloseProceeds(h) \/ AgentSessionClosed(h) \/ AgentVanishes(h)
  PROVE  Types'
<1>1. ArgumentsFit' /\ ProvidersFit'
  <2>1. UNCHANGED <<managerVars, callVars>>
    BY DEF CloseProceeds, CloseUnloadsScript, CloseScriptDestroyed, CloseAsksAgent,
           CloseEnds, AgentSessionClosed, AgentVanishes
  <2>2. QED
    BY <2>1 DEF Types, ArgumentsFit, ProvidersFit
<1>2. ASSUME NEW x \in Scripts, CloseUnloadsScript(h, x) PROVE TypeOK'
  BY <1>2 DEF CloseUnloadsScript, Types, TypeOK
<1>3. ASSUME CloseScriptDestroyed(h) \/ CloseAsksAgent(h) PROVE TypeOK'
  BY <1>3 DEF CloseScriptDestroyed, CloseAsksAgent, Types, TypeOK
<1>4. ASSUME CloseEnds(h) PROVE TypeOK'
  <2>1. /\ agent' \in [Handles -> Services \cup {"unborn", "gone"}]
        /\ agentScripts' \in [Handles -> SUBSET Scripts] /\ notices' \subseteq Handles
    BY <1>4 DEF CloseEnds, AgentIsClosed, Types, TypeOK
  <2>2. /\ closer' \in [Handles -> Closers] /\ internal' \in [Handles -> BOOLEAN]
        /\ closedSignals' \in [Handles -> Nat]
    BY <1>4 DEF CloseEnds, ForgetInternal, Types, TypeOK
  <2>3. QED
    BY <1>4, <2>1, <2>2 DEF CloseEnds, Types, TypeOK
<1>5. ASSUME AgentSessionClosed(h) PROVE TypeOK'
  <2>1. CASE Released(h, FALSE) \/ Asserts
    BY <1>5, <2>1, ReleasedKeepsTypes DEF AgentSessionClosed, Types, TypeOK
  <2>2. CASE UNCHANGED <<mapVars, closeVars, crash>>
    BY <1>5, <2>2 DEF AgentSessionClosed, Types, TypeOK
  <2>3. QED
    BY <1>5, <2>1, <2>2, BeginCloseOutcomes DEF AgentSessionClosed
<1>6. ASSUME AgentVanishes(h) PROVE TypeOK'
  BY <1>6 DEF AgentVanishes, Types, TypeOK
<1>7. QED
  BY <1>1, <1>2, <1>3, <1>4, <1>5, <1>6 DEF Types, CloseProceeds

(* Steps by what they do to Sessions and Scripts.                          *)

SameSessions ==
    UNCHANGED <<scripts, owner, todo, closer, manager, internal, mayBlock, agent, notices>>

LEMMA SameSessionsFit ==
  ASSUME ScriptsFit, SessionsFit, SameSessions
  PROVE  ScriptsFit' /\ SessionsFit'
  BY DEF ScriptsFit, SessionsFit, SameSessions

\* A thread enters or leaves a call, in its turn.
LEMMA CallStepKeepsTurns ==
  ASSUME Types, Turns, SameSessions, crash' \notin {"null_session", "null_internal_session"},
         NEW c \in Callers, NEW o, op' = [op EXCEPT ![c] = o],
         \A d \in Callers \ {c} : arg'[d] = arg[d],
         o \in SessionCalls =>
             op[c] \in SessionCalls \/ \A d \in Callers : op[d] \notin SessionCalls,
         o = "create" => manager[arg'[c]],
         op[c] \in {"close", "dispose_wait"} => closer[arg[c]] \notin Closing
  PROVE  Turns'
<1>1. op'[c] = o /\ \A d \in Callers \ {c} : op'[d] = op[d]
  BY DEF Types, TypeOK
<1>2. ScriptsAreUnloaded' /\ NothingOutlives'
  BY DEF Turns, ScriptsAreUnloaded, NothingOutlives, SameSessions
<1>3. \A d, e \in Callers : op'[d] \in SessionCalls /\ op'[e] \in SessionCalls => d = e
  BY <1>1 DEF Turns, TurnsAreTaken
<1>4. \A d \in Callers : op'[d] = "create" => manager'[arg'[d]] \/ agent'[arg'[d]] = "gone"
  BY <1>1 DEF Turns, TurnsAreTaken, SameSessions
<1>5. ASSUME NEW h \in Handles, closer'[h] \in Closing, mayBlock'[h]
      PROVE  \E d \in Callers : op'[d] \in {"close", "dispose_wait"} /\ arg'[d] = h
  <2>1. PICK d \in Callers : op[d] \in {"close", "dispose_wait"} /\ arg[d] = h
    BY <1>5 DEF Turns, TurnsAreTaken, SameSessions
  <2>2. d # c
    BY <1>5, <2>1 DEF SameSessions
  <2>3. QED
    BY <1>1, <2>1, <2>2
<1>6. QED
  BY <1>2, <1>3, <1>4, <1>5 DEF Turns, TurnsAreTaken

\* A Session is released: nobody closes it yet, so that the close can take all its scripts.
LEMMA ReleasedFits ==
  ASSUME Types, ScriptsFit, SessionsFit, NEW h \in Handles, manager[h],
         NEW block \in BOOLEAN, Released(h, block), UNCHANGED <<scriptVars, agent>>,
         notices' \subseteq notices
  PROVE  ScriptsFit' /\ SessionsFit'
<1>1. closer[h] = "idle" /\ internal[h]
  BY DEF SessionsFit
<1>2. /\ \A g \in Handles \ {h} : /\ closer'[g] = closer[g] /\ todo'[g] = todo[g]
                                  /\ manager'[g] = manager[g] /\ mayBlock'[g] = mayBlock[g]
      /\ closer'[h] = "unload" /\ todo'[h] = scripts[h] /\ ~manager'[h]
      /\ mayBlock'[h] = block
  BY DEF Released, Types, TypeOK
<1>3. ScriptsFit'
  BY <1>1, <1>2 DEF ScriptsFit
<1>4. SessionsFit'
  BY <1>1, <1>2 DEF SessionsFit, Released
<1>5. QED
  BY <1>3, <1>4

LEMMA ReleasedKeepsTurns ==
  ASSUME Types, ScriptsFit, SessionsFit, Turns, NEW h \in Handles, manager[h],
         NEW block \in BOOLEAN, Released(h, block), UNCHANGED <<scriptVars, agent>>,
         \A d, e \in Callers : op'[d] \in SessionCalls /\ op'[e] \in SessionCalls => d = e,
         \A d \in Callers : op'[d] = "create" =>
             agent[h] = "gone" /\ op[d] = "create" /\ arg'[d] = arg[d],
         \A d \in Callers : op[d] \in {"close", "dispose_wait"} =>
             op'[d] = op[d] /\ arg'[d] = arg[d],
         block => \E d \in Callers : op'[d] \in {"close", "dispose_wait"} /\ arg'[d] = h
  PROVE  Turns'
<1>1. closer[h] = "idle" /\ internal[h]
  BY DEF SessionsFit
<1>2. /\ \A g \in Handles \ {h} : /\ closer'[g] = closer[g] /\ todo'[g] = todo[g]
                                  /\ manager'[g] = manager[g] /\ mayBlock'[g] = mayBlock[g]
      /\ closer'[h] = "unload" /\ todo'[h] = scripts[h]
      /\ mayBlock'[h] = block
  BY DEF Released, Types, TypeOK
<1>3. TurnsAreTaken'
  <2>1. \A d \in Callers : op'[d] = "create" => manager'[arg'[d]] \/ agent'[arg'[d]] = "gone"
    <3> SUFFICES ASSUME NEW d \in Callers, op'[d] = "create", agent[arg[d]] # "gone"
                 PROVE  manager'[arg[d]]
      OBVIOUS
    <3>1. op[d] = "create" /\ manager[arg[d]] /\ arg[d] # h
      BY DEF Turns, TurnsAreTaken
    <3>2. arg[d] \in Handles
      BY <3>1 DEF Types, ArgumentsFit
    <3>3. QED
      BY <1>2, <3>1, <3>2
  <2>2. \A g \in Handles : closer'[g] \in Closing /\ mayBlock'[g] =>
            \E d \in Callers : op'[d] \in {"close", "dispose_wait"} /\ arg'[d] = g
    BY <1>2 DEF Turns, TurnsAreTaken
  <2>3. QED
    BY <2>1, <2>2 DEF TurnsAreTaken
<1>4. ScriptsAreUnloaded'
  BY <1>1, <1>2 DEF Turns, ScriptsAreUnloaded, ScriptsFit, Released
<1>5. NothingOutlives'
  BY <1>1, <1>2 DEF Turns, NothingOutlives, Released
<1>6. QED
  BY <1>3, <1>4, <1>5 DEF Turns

\* The loop of a close takes a script that is still its session's.
LEMMA CloseUnloadsScriptKeepsScripts ==
  ASSUME Types, ScriptsFit, SessionsFit, NEW h \in Handles, NEW x \in Scripts,
         CloseUnloadsScript(h, x)
  PROVE  ScriptsFit' /\ SessionsFit' /\ (Turns => Turns')
<1>1. /\ closer[h] = "unload" /\ x \in todo[h] /\ owner[x] \in {h, None}
      /\ todo' = [todo EXCEPT ![h] = @ \ {x}]
      /\ UNCHANGED <<manager, internal, mayBlock, agent, notices, op, arg>>
  BY DEF CloseUnloadsScript, ScriptsFit
<1>2. /\ todo'[h] = todo[h] \ {x}
      /\ \A g \in Handles \ {h} : todo'[g] = todo[g] /\ closer'[g] = closer[g]
  BY <1>1 DEF CloseUnloadsScript, Types, TypeOK
<1>3. CASE owner[x] = None
  <2>1. UNCHANGED <<scripts, owner, closer>>
    BY <1>3 DEF CloseUnloadsScript
  <2>2. ScriptsFit' /\ SessionsFit'
    BY <1>1, <1>2, <2>1 DEF ScriptsFit, SessionsFit
  <2>3. ASSUME Turns PROVE Turns'
    <3>1. ~mayBlock[h] /\ crash' = crash
      BY <1>1, <1>3, <2>3 DEF CloseUnloadsScript, Turns, ScriptsAreUnloaded, Closing
    <3>2. \A g \in Handles : scripts[g] \subseteq todo[g] => scripts'[g] \subseteq todo'[g]
      BY <1>2, <1>3, <2>1 DEF ScriptsFit
    <3>3. ScriptsAreUnloaded'
      BY <1>1, <1>2, <2>1, <2>3, <3>2 DEF Turns, ScriptsAreUnloaded
    <3>4. TurnsAreTaken' /\ NothingOutlives'
      BY <1>1, <2>1, <2>3, <3>1 DEF Turns, TurnsAreTaken, NothingOutlives
    <3>5. QED
      BY <3>3, <3>4 DEF Turns
  <2>4. QED
    BY <2>2, <2>3
<1>4. CASE owner[x] = h
  <2>1. /\ owner' = [owner EXCEPT ![x] = None] /\ scripts' = [scripts EXCEPT ![h] = @ \ {x}]
        /\ closer'[h] \in {"unload", "destroy"} /\ crash' = crash
    BY <1>1, <1>4 DEF CloseUnloadsScript, Types, TypeOK
  <2>2. /\ owner'[x] = None /\ \A y \in Scripts \ {x} : owner'[y] = owner[y]
        /\ scripts'[h] = scripts[h] \ {x}
        /\ \A g \in Handles \ {h} : scripts'[g] = scripts[g]
    BY <2>1 DEF Types, TypeOK
  <2>3. ScriptsFit'
    <3>1. \A g \in Handles : scripts'[g] = {y \in Scripts : owner'[y] = g}
      BY <1>4, <2>2 DEF ScriptsFit
    <3>2. \A g \in Handles : \A y \in todo'[g] : owner'[y] \in {g, None}
      BY <1>2, <2>2 DEF ScriptsFit, Types, TypeOK
    <3>3. QED
      BY <1>2, <2>1, <3>1, <3>2 DEF ScriptsFit
  <2>4. SessionsFit'
    BY <1>1, <1>2, <2>1 DEF SessionsFit
  <2>5. ASSUME Turns PROVE Turns'
    <3>1. ScriptsAreUnloaded'
      <4>1. \A y \in Scripts : owner'[y] \in Handles => internal'[owner'[y]]
        BY <1>1, <2>2, <2>5 DEF Turns, ScriptsAreUnloaded
      <4>2. \A g \in Handles : closer'[g] \in Closing => scripts'[g] \subseteq todo'[g]
        BY <1>1, <1>2, <2>2, <2>5 DEF Turns, ScriptsAreUnloaded, Closing
      <4>3. ASSUME NEW g \in Handles, closer'[g] \in Closing, mayBlock'[g], NEW y \in todo'[g]
            PROVE  owner'[y] = g
        <5>1. closer[g] \in Closing /\ mayBlock[g] /\ y \in todo[g] /\ owner[y] = g
          BY <1>1, <1>2, <2>5, <4>3 DEF Turns, ScriptsAreUnloaded, Closing
        <5>2. y # x
          BY <1>2, <1>4, <4>3, <5>1
        <5>3. y \in Scripts
          BY <5>1 DEF Types, TypeOK
        <5>4. QED
          BY <2>2, <5>1, <5>2, <5>3
      <4>4. QED
        BY <4>1, <4>2, <4>3 DEF ScriptsAreUnloaded
    <3>2. TurnsAreTaken'
      BY <1>1, <1>2, <2>1, <2>5 DEF Turns, TurnsAreTaken, Closing
    <3>3. NothingOutlives'
      BY <1>2, <2>1, <2>2, <2>5 DEF Turns, NothingOutlives
    <3>4. QED
      BY <3>1, <3>2, <3>3 DEF Turns
  <2>6. QED
    BY <2>3, <2>4, <2>5
<1>5. QED
  BY <1>1, <1>3, <1>4

\* What else a close does until it ends.
LEMMA CloseGoesOnKeepsScripts ==
  ASSUME Types, ScriptsFit, SessionsFit, NEW h \in Handles,
         CloseScriptDestroyed(h) \/ CloseAsksAgent(h)
  PROVE  ScriptsFit' /\ SessionsFit' /\ (Turns => Turns')
<1>1. /\ UNCHANGED <<scripts, owner, todo, manager, internal, mayBlock, agent, notices, op,
                     arg, crash>>
      /\ closer[h] \in Closing /\ closer'[h] \in Closing
      /\ closer'[h] = "agent" => todo[h] = {}
      /\ \A g \in Handles \ {h} : closer'[g] = closer[g]
  BY DEF CloseScriptDestroyed, CloseAsksAgent, Types, TypeOK, Closing
<1>2. ScriptsFit' /\ SessionsFit'
  BY <1>1 DEF ScriptsFit, SessionsFit, Closing
<1>3. ASSUME Turns PROVE Turns'
  <2>1. \A g \in Handles : (closer'[g] \in Closing <=> closer[g] \in Closing)
                           /\ (closer'[g] = "done" => closer[g] = "done")
    BY <1>1 DEF Closing
  <2>2. QED
    BY <1>1, <1>3, <2>1 DEF Turns, TurnsAreTaken, ScriptsAreUnloaded, NothingOutlives
<1>4. QED
  BY <1>2, <1>3

\* A close that ends has unloaded every script.
LEMMA CloseEndsKeepsScripts ==
  ASSUME Types, ScriptsFit, SessionsFit, NEW h \in Handles, CloseEnds(h)
  PROVE  ScriptsFit' /\ SessionsFit' /\ (Turns => Turns')
<1>1. /\ closer[h] \in {"unload", "agent"} /\ todo[h] = {}
      /\ UNCHANGED <<scripts, owner, todo, manager, mayBlock, op, arg, crash>>
      /\ closer'[h] = "done" /\ ~internal'[h]
      /\ \A g \in Handles \ {h} : closer'[g] = closer[g] /\ internal'[g] = internal[g]
  BY DEF CloseEnds, AgentIsClosed, ForgetInternal, ScriptsFit, Types, TypeOK
<1>2. /\ \A g \in Handles : agent'[g] = agent[g] \/ (g = h /\ agent'[g] = "gone")
      /\ \A g \in notices' : g \in notices \/ (g = h /\ agent'[g] = "gone")
  BY DEF CloseEnds, AgentIsClosed, Types, TypeOK
<1>3. ScriptsFit'
  BY <1>1 DEF ScriptsFit
<1>4. SessionsFit'
  BY <1>1, <1>2 DEF SessionsFit, Types, TypeOK
<1>5. ASSUME Turns PROVE Turns'
  <2>1. scripts[h] = {} /\ \A x \in Scripts : owner[x] # h
    BY <1>1, <1>5 DEF Turns, ScriptsAreUnloaded, ScriptsFit, Closing
  <2>2. ScriptsAreUnloaded'
    BY <1>1, <1>5, <2>1 DEF Turns, ScriptsAreUnloaded, Closing
  <2>3. NothingOutlives'
    BY <1>1, <1>5, <2>1 DEF Turns, NothingOutlives
  <2>4. TurnsAreTaken'
    <3>1. \A d \in Callers : op[d] = "create" => arg[d] \in Handles
      BY DEF Types, ArgumentsFit
    <3>2. QED
      BY <1>1, <1>2, <1>5, <3>1 DEF Turns, TurnsAreTaken, Closing
  <2>5. QED
    BY <2>2, <2>3, <2>4 DEF Turns
<1>6. QED
  BY <1>3, <1>4, <1>5

\* A script is created in a session whose agent lives: nobody is closing it.
LEMMA ScriptCreatedKeepsScripts ==
  ASSUME Types, ScriptsFit, SessionsFit, NEW c \in Callers, NEW x \in Scripts,
         ScriptCreated(c, x)
  PROVE  ScriptsFit' /\ SessionsFit' /\ (Turns => Turns')
<1> DEFINE h == arg[c]
<1>1. h \in Handles /\ Live(h) /\ owner[x] = "unborn" /\ op[c] = "create"
  BY DEF ScriptCreated, Types, ArgumentsFit
<1>2. /\ owner' = [owner EXCEPT ![x] = h] /\ scripts' = [scripts EXCEPT ![h] = @ \cup {x}]
      /\ UNCHANGED <<todo, closer, manager, internal, mayBlock, agent, notices, crash>>
      /\ op' = [op EXCEPT ![c] = "idle"] /\ arg' = [arg EXCEPT ![c] = None]
  BY DEF ScriptCreated, ListScript, Return, Enter
<1> HIDE DEF h
<1>3. /\ owner'[x] = h /\ \A y \in Scripts \ {x} : owner'[y] = owner[y]
      /\ scripts'[h] = scripts[h] \cup {x}
      /\ \A g \in Handles \ {h} : scripts'[g] = scripts[g]
      /\ op'[c] = "idle" /\ \A d \in Callers \ {c} : op'[d] = op[d] /\ arg'[d] = arg[d]
  BY <1>1, <1>2 DEF Types, TypeOK
<1>4. ScriptsFit'
  <2>1. \A g \in Handles : scripts'[g] = {y \in Scripts : owner'[y] = g}
    BY <1>1, <1>3 DEF ScriptsFit
  <2>2. \A g \in Handles : \A y \in todo[g] : y \in Scripts \ {x}
    BY <1>1 DEF ScriptsFit, Types, TypeOK
  <2>3. \A g \in Handles : \A y \in todo'[g] : owner'[y] \in {g, None}
    BY <1>2, <1>3, <2>2 DEF ScriptsFit
  <2>4. QED
    BY <1>2, <2>1, <2>3 DEF ScriptsFit
<1>5. SessionsFit'
  BY <1>2 DEF SessionsFit
<1>6. ASSUME Turns PROVE Turns'
  <2>1. manager[h] /\ closer[h] = "idle" /\ internal[h]
    BY <1>1, <1>6 DEF h, Turns, TurnsAreTaken, SessionsFit
  <2>2. ScriptsAreUnloaded'
    <3>1. \A y \in Scripts : owner'[y] \in Handles => internal'[owner'[y]]
      BY <1>2, <1>3, <1>6, <2>1 DEF Turns, ScriptsAreUnloaded
    <3>2. \A g \in Handles : closer'[g] \in Closing => scripts'[g] \subseteq todo'[g]
      BY <1>2, <1>3, <1>6, <2>1 DEF Turns, ScriptsAreUnloaded, Closing
    <3>3. \A g \in Handles : \A y \in todo[g] : y \in Scripts \ {x}
      BY <1>1 DEF ScriptsFit, Types, TypeOK
    <3>4. \A g \in Handles : closer'[g] \in Closing /\ mayBlock'[g] =>
              \A y \in todo'[g] : owner'[y] = g
      BY <1>2, <1>3, <1>6, <3>3 DEF Turns, ScriptsAreUnloaded
    <3>5. QED
      BY <3>1, <3>2, <3>4 DEF ScriptsAreUnloaded
  <2>3. NothingOutlives'
    BY <1>2, <1>3, <1>6, <2>1 DEF Turns, NothingOutlives
  <2>4. TurnsAreTaken'
    BY <1>1, <1>2, <1>3, <1>6 DEF Turns, TurnsAreTaken, SessionCalls
  <2>5. QED
    BY <2>2, <2>3, <2>4 DEF Turns
<1>7. QED
  BY <1>4, <1>5, <1>6

\* A client unloads a script: if it is in its turn, no blocking close is under way.
LEMMA UnloadScriptKeepsScripts ==
  ASSUME Types, ScriptsFit, SessionsFit, NEW c \in Callers, NEW x \in Scripts,
         UnloadScript(c, x)
  PROVE  ScriptsFit' /\ SessionsFit' /\ (inTurn /\ Turns => Turns')
<1> DEFINE h == owner[x]
<1>1. h \in Handles /\ op[c] = "idle"
  BY DEF UnloadScript
<1>2. /\ owner' = [owner EXCEPT ![x] = None] /\ scripts' = [scripts EXCEPT ![h] = @ \ {x}]
      /\ UNCHANGED <<todo, closer, manager, internal, mayBlock, agent, notices>>
  BY DEF UnloadScript
<1> HIDE DEF h
<1>3. /\ owner'[x] = None /\ \A y \in Scripts \ {x} : owner'[y] = owner[y]
      /\ scripts'[h] = scripts[h] \ {x}
      /\ \A g \in Handles \ {h} : scripts'[g] = scripts[g]
  BY <1>1, <1>2 DEF Types, TypeOK
<1>4. ScriptsFit'
  <2>1. \A g \in Handles : scripts'[g] = {y \in Scripts : owner'[y] = g}
    BY <1>1, <1>3 DEF h, ScriptsFit
  <2>2. \A g \in Handles : \A y \in todo'[g] : owner'[y] \in {g, None}
    BY <1>2, <1>3 DEF ScriptsFit, Types, TypeOK
  <2>3. QED
    BY <1>2, <2>1, <2>2 DEF ScriptsFit
<1>5. SessionsFit'
  BY <1>2 DEF SessionsFit
<1>6. ASSUME inTurn, Turns PROVE Turns'
  <2>1. \A d \in Callers : op[d] \in Obtaining \cup {"idle"}
    BY <1>6 DEF UnloadScript, SessionsUnused
  <2>2. internal[h]
    BY <1>1, <1>6 DEF h, Turns, ScriptsAreUnloaded
  <2>3. /\ op'[c] = "unload" /\ crash' = crash
        /\ \A d \in Callers \ {c} : op'[d] = op[d] /\ arg'[d] = arg[d]
    BY <2>2 DEF h, UnloadScript, Enter, Types, TypeOK
  <2>4. \A g \in Handles : ~(closer[g] \in Closing /\ mayBlock[g])
    BY <1>6, <2>1 DEF Turns, TurnsAreTaken
  <2>5. TurnsAreTaken'
    BY <1>2, <2>1, <2>3, <2>4 DEF TurnsAreTaken, SessionCalls
  <2>6. ScriptsAreUnloaded'
    BY <1>1, <1>2, <1>3, <1>6, <2>4 DEF Turns, ScriptsAreUnloaded
  <2>7. NothingOutlives'
    BY <1>1, <1>2, <1>3, <1>6, <2>3 DEF Turns, NothingOutlives
  <2>8. QED
    BY <2>5, <2>6, <2>7 DEF Turns
<1>7. QED
  BY <1>4, <1>5, <1>6

\* A new Session, under a handle that named none.
LEMMA SessionObtainedKeepsScripts ==
  ASSUME Types, ScriptsFit, SessionsFit, NEW c \in Callers, NEW h \in Handles,
         SessionObtained(c, h)
  PROVE  ScriptsFit' /\ SessionsFit' /\ (Turns => Turns')
<1>1. /\ agent[h] = "unborn" /\ ~manager[h] /\ closer[h] = "idle" /\ op[c] = "obtain_agent"
      /\ provider \in Services
  BY DEF SessionObtained, HandleFree, SessionsFit, Types, ProvidersFit
<1>2. /\ UNCHANGED <<scripts, owner, todo, closer, mayBlock, notices, crash>>
      /\ manager'[h] /\ internal'[h] /\ agent'[h] = provider
      /\ \A g \in Handles \ {h} : /\ manager'[g] = manager[g] /\ internal'[g] = internal[g]
                                  /\ agent'[g] = agent[g]
      /\ op'[c] = "idle" /\ \A d \in Callers \ {c} : op'[d] = op[d] /\ arg'[d] = arg[d]
  BY DEF SessionObtained, Return, Enter, Types, TypeOK
<1>3. ScriptsFit'
  BY <1>2 DEF ScriptsFit
<1>4. SessionsFit'
  BY <1>1, <1>2 DEF SessionsFit, Types, TypeOK
<1>5. ASSUME Turns PROVE Turns'
  <2>1. TurnsAreTaken'
    <3>1. \A d \in Callers : op[d] = "create" => arg[d] \in Handles
      BY DEF Types, ArgumentsFit
    <3>2. \A d \in Callers : op'[d] = "create" => manager'[arg'[d]] \/ agent'[arg'[d]] = "gone"
      BY <1>1, <1>2, <1>5, <3>1 DEF Turns, TurnsAreTaken
    <3>3. \A g \in Handles : closer'[g] \in Closing /\ mayBlock'[g] =>
              \E d \in Callers : op'[d] \in {"close", "dispose_wait"} /\ arg'[d] = g
      BY <1>1, <1>2, <1>5 DEF Turns, TurnsAreTaken
    <3>4. QED
      BY <1>2, <1>5, <3>2, <3>3 DEF Turns, TurnsAreTaken, SessionCalls
  <2>2. ScriptsAreUnloaded' /\ NothingOutlives'
    BY <1>2, <1>5 DEF Turns, ScriptsAreUnloaded, NothingOutlives
  <2>3. QED
    BY <2>1, <2>2 DEF Turns
<1>6. QED
  BY <1>3, <1>4, <1>5

\* Agents go.
LEMMA AgentsGoKeepsScripts ==
  ASSUME Types, ScriptsFit, SessionsFit,
         UNCHANGED <<scripts, owner, todo, closer, manager, internal, mayBlock, op, arg, crash>>,
         \A g \in Handles : agent'[g] = agent[g] \/ agent'[g] = "gone",
         \A g \in notices' : agent'[g] = "gone"
  PROVE  ScriptsFit' /\ SessionsFit' /\ (Turns => Turns')
<1>1. ScriptsFit' /\ SessionsFit'
  BY DEF ScriptsFit, SessionsFit
<1>2. ASSUME Turns PROVE Turns'
  <2>1. \A d \in Callers : op[d] = "create" => arg[d] \in Handles
    BY DEF Types, ArgumentsFit
  <2>2. TurnsAreTaken'
    BY <1>2, <2>1 DEF Turns, TurnsAreTaken
  <2>3. ScriptsAreUnloaded' /\ NothingOutlives'
    BY <1>2 DEF Turns, ScriptsAreUnloaded, NothingOutlives
  <2>4. QED
    BY <2>2, <2>3 DEF Turns
<1>3. QED
  BY <1>1, <1>2

LEMMA AgentSessionClosedKeepsScripts ==
  ASSUME Types, ScriptsFit, SessionsFit, NEW h \in Handles, AgentSessionClosed(h)
  PROVE  ScriptsFit' /\ SessionsFit' /\ (Turns => Turns')
<1>1. /\ h \in notices /\ notices' \subseteq notices /\ UNCHANGED <<scriptVars, agent, op, arg>>
      /\ agent[h] = "gone"
  BY DEF AgentSessionClosed, SessionsFit
<1>2. CASE manager[h] /\ Released(h, FALSE)
  <2>1. ScriptsFit' /\ SessionsFit'
    BY <1>1, <1>2, ReleasedFits
  <2>2. ASSUME Turns PROVE Turns'
    <3>1. \A d, e \in Callers : op'[d] \in SessionCalls /\ op'[e] \in SessionCalls => d = e
      BY <1>1, <2>2 DEF Turns, TurnsAreTaken
    <3>2. QED
      BY <1>1, <1>2, <2>2, <3>1, ReleasedKeepsTurns
  <2>3. QED
    BY <2>1, <2>2
<1>3. CASE /\ UNCHANGED <<mapVars, closeVars>>
           /\ crash' = crash \/ crash' \in {"assert_session_did_exist", "assert_handle"}
  <2>1. ScriptsFit' /\ SessionsFit'
    BY <1>1, <1>3 DEF ScriptsFit, SessionsFit
  <2>2. Turns => Turns'
    BY <1>1, <1>3 DEF Turns, TurnsAreTaken, ScriptsAreUnloaded, NothingOutlives
  <2>3. QED
    BY <2>1, <2>2
<1>4. QED
  BY <1>2, <1>3, BeginCloseOutcomes DEF AgentSessionClosed, IsOurs, Asserts

\* A thread that closes a Session, in its turn or as part of the disposal.
LEMMA BlockingCloseKeepsScripts ==
  ASSUME Types, ScriptsFit, SessionsFit, NEW c \in Callers, NEW h \in Handles, manager[h],
         NEW o \in {"close", "dispose_wait"}, BeginClose(h, TRUE), Enter(c, o, h),
         UNCHANGED <<scriptVars, agent, notices>>,
         op[c] \in {"idle", "dispose"}
  PROVE  /\ ScriptsFit' /\ SessionsFit'
         /\ Turns /\ (op[c] \in SessionCalls \/ \A d \in Callers : op[d] \notin SessionCalls)
                => Turns'
<1>1. /\ op'[c] = o /\ arg'[c] = h /\ op' = [op EXCEPT ![c] = o]
      /\ \A d \in Callers \ {c} : op'[d] = op[d] /\ arg'[d] = arg[d]
  BY DEF Enter, Types, TypeOK
<1>2. Released(h, TRUE) \/ Asserts
  BY BeginCloseOutcomes
<1>3. CASE Asserts
  <2>1. SameSessions /\ crash' \notin {"null_session", "null_internal_session"}
    BY <1>3 DEF Asserts, SameSessions
  <2>2. ScriptsFit' /\ SessionsFit'
    BY <2>1, SameSessionsFit
  <2>3. ASSUME Turns, op[c] \in SessionCalls \/ \A d \in Callers : op[d] \notin SessionCalls
        PROVE  Turns'
    <3>1. /\ o = "create" => manager[arg'[c]]
          /\ op[c] \in {"close", "dispose_wait"} => closer[arg[c]] \notin Closing
      OBVIOUS
    <3>2. \A d \in Callers \ {c} : arg'[d] = arg[d]
      BY <1>1
    <3>3. QED
      BY <1>1, <2>1, <2>3, <3>1, <3>2, CallStepKeepsTurns, Zenon
  <2>4. QED
    BY <2>2, <2>3
<1>4. CASE Released(h, TRUE)
  <2>1. ScriptsFit' /\ SessionsFit'
    BY <1>4, ReleasedFits
  <2>2. ASSUME Turns, op[c] \in SessionCalls \/ \A d \in Callers : op[d] \notin SessionCalls
        PROVE  Turns'
    <3>1. \A d, e \in Callers : op'[d] \in SessionCalls /\ op'[e] \in SessionCalls => d = e
      BY <1>1, <2>2 DEF Turns, TurnsAreTaken
    <3>2. \A d \in Callers \ {c} : op[d] \notin SessionCalls
      BY <1>1, <2>2 DEF Turns, TurnsAreTaken, SessionCalls
    <3>3. \A d \in Callers : op'[d] # "create"
      BY <1>1, <3>2 DEF SessionCalls
    <3>4. \A d \in Callers : op[d] \in {"close", "dispose_wait"} =>
              op'[d] = op[d] /\ arg'[d] = arg[d]
      BY <1>1
    <3>5. QED
      BY <1>1, <1>4, <2>2, <3>1, <3>3, <3>4, ReleasedKeepsTurns
  <2>3. QED
    BY <2>1, <2>2
<1>5. QED
  BY <1>2, <1>3, <1>4

(* The four kinds of step.                                                 *)

LEMMA ClientCallsKeepScripts ==
  ASSUME Types, ScriptsFit, SessionsFit, NEW c \in Callers, ClientCalls(c)
  PROVE  ScriptsFit' /\ SessionsFit' /\ (inTurn /\ Turns => Turns')
<1> DEFINE Kept == ScriptsFit' /\ SessionsFit' /\ (inTurn /\ Turns => Turns')
<1>1. ASSUME inTurn, SessionsUnused
      PROVE  \A d \in Callers : op[d] \notin SessionCalls
  BY <1>1 DEF SessionsUnused, SessionCalls
<1>2. ASSUME NEW p \in Pids, ObtainSession(c, p) PROVE Kept
  <2>1. SameSessions /\ crash' = crash /\ op[c] = "idle"
    BY <1>2 DEF ObtainSession, SameSessions
  <2>2. PICK o \in Obtaining : op' = [op EXCEPT ![c] = o] /\ arg' = [arg EXCEPT ![c] = p]
    BY <1>2 DEF ObtainSession, Enter
  <2>3. \A d \in Callers \ {c} : arg'[d] = arg[d]
    BY <2>2 DEF Types, TypeOK
  <2>4. o \notin SessionCalls /\ o # "create"
    BY DEF SessionCalls
  <2>5. ASSUME Turns PROVE crash \notin {"null_session", "null_internal_session"}
    BY <2>5 DEF Turns, NothingOutlives
  <2>6. ScriptsFit' /\ SessionsFit'
    BY <2>1, SameSessionsFit
  <2>7. QED
    BY <2>1, <2>2, <2>3, <2>4, <2>5, <2>6, CallStepKeepsTurns
<1>3. ASSUME NEW h \in Handles, CloseSession(c, h) PROVE Kept
  <2>1. /\ manager[h] /\ BeginClose(h, TRUE) /\ Enter(c, "close", h) /\ op[c] = "idle"
        /\ UNCHANGED <<scriptVars, agent, notices>> /\ SessionsUnused
    BY <1>3 DEF CloseSession
  <2>2. QED
    BY <1>1, <2>1, BlockingCloseKeepsScripts
<1>4. ASSUME NEW h \in Handles, CreateScript(c, h) PROVE Kept
  <2>1. SameSessions /\ crash' = crash /\ op[c] = "idle" /\ manager[h] /\ SessionsUnused
    BY <1>4 DEF CreateScript, SameSessions
  <2>2. /\ op' = [op EXCEPT ![c] = "create"] /\ arg'[c] = h
        /\ \A d \in Callers \ {c} : arg'[d] = arg[d]
    BY <1>4 DEF CreateScript, Enter, Types, TypeOK
  <2>3. ASSUME Turns PROVE crash \notin {"null_session", "null_internal_session"}
    BY <2>3 DEF Turns, NothingOutlives
  <2>4. ScriptsFit' /\ SessionsFit'
    BY <2>1, SameSessionsFit
  <2>5. QED
    BY <1>1, <2>1, <2>2, <2>3, <2>4, CallStepKeepsTurns
<1>5. ASSUME NEW x \in Scripts, UseScript(c, x) PROVE Kept
  <2>1. SameSessions /\ op[c] = "idle" /\ owner[x] \in Handles /\ SessionsUnused
    BY <1>5 DEF UseScript, SameSessions
  <2>2. ScriptsFit' /\ SessionsFit'
    BY <2>1, SameSessionsFit
  <2>3. ASSUME inTurn, Turns PROVE Turns'
    <3>1. internal[owner[x]] /\ crash \notin {"null_session", "null_internal_session"}
      BY <2>1, <2>3 DEF Turns, ScriptsAreUnloaded, NothingOutlives
    <3>2. /\ op' = [op EXCEPT ![c] = "use"] /\ crash' = crash
          /\ \A d \in Callers \ {c} : arg'[d] = arg[d]
      BY <1>5, <3>1 DEF UseScript, Enter, Types, TypeOK
    <3>3. QED
      BY <1>1, <2>1, <2>3, <3>1, <3>2, CallStepKeepsTurns
  <2>4. QED
    BY <2>2, <2>3
<1>6. ASSUME NEW x \in Scripts, UnloadScript(c, x) PROVE Kept
  BY <1>6, UnloadScriptKeepsScripts
<1>7. CASE Dispose(c)
  <2>1. SameSessions /\ crash' = crash /\ op[c] = "idle" /\ SessionsUnused /\ arg' = arg
    BY <1>7 DEF Dispose, Goto, SameSessions
  <2>2. op' = op \/ op' = [op EXCEPT ![c] = "dispose"]
    BY <1>7 DEF Dispose, Goto
  <2>3. ScriptsFit' /\ SessionsFit'
    BY <2>1, SameSessionsFit
  <2>4. ASSUME Turns PROVE crash \notin {"null_session", "null_internal_session"}
    BY <2>4 DEF Turns, NothingOutlives
  <2>5. op' = op => op' = [op EXCEPT ![c] = "idle"]
    BY <2>1 DEF Types, TypeOK
  <2>6. QED
    BY <1>1, <2>1, <2>2, <2>3, <2>4, <2>5, CallStepKeepsTurns DEF SessionCalls
<1>8. QED
  BY <1>2, <1>3, <1>4, <1>5, <1>6, <1>7 DEF ClientCalls

LEMMA CallProceedsKeepsScripts ==
  ASSUME Types, ScriptsFit, SessionsFit, NEW c \in Callers, CallProceeds(c)
  PROVE  ScriptsFit' /\ SessionsFit' /\ (Turns => Turns')
<1> DEFINE Kept == ScriptsFit' /\ SessionsFit' /\ (Turns => Turns')
\* A thread that goes on in obtain_session_for, returns, or goes on disposing.
<1>1. ASSUME SameSessions, UNCHANGED crash,
             NEW o \in Obtaining \cup {"idle", "dispose"}, op' = [op EXCEPT ![c] = o],
             \A d \in Callers \ {c} : arg'[d] = arg[d],
             o = "dispose" => op[c] \in SessionCalls,
             op[c] \in {"close", "dispose_wait"} => closer[arg[c]] = "done"
      PROVE  Kept
  <2>1. ScriptsFit' /\ SessionsFit'
    BY <1>1, SameSessionsFit
  <2>2. ASSUME Turns PROVE Turns'
    <3>1. crash' \notin {"null_session", "null_internal_session"}
      BY <1>1, <2>2 DEF Turns, NothingOutlives
    <3>2. o # "create" /\ (o \in SessionCalls => op[c] \in SessionCalls)
      BY <1>1 DEF SessionCalls
    <3>3. op[c] \in {"close", "dispose_wait"} => closer[arg[c]] \notin Closing
      BY <1>1 DEF Closing
    <3>4. QED
      BY <1>1, <2>2, <3>1, <3>2, <3>3, CallStepKeepsTurns
  <2>3. QED
    BY <2>1, <2>2
<1>2. \A o : Enter(c, o, None) => /\ op' = [op EXCEPT ![c] = o]
                                  /\ \A d \in Callers \ {c} : arg'[d] = arg[d]
  BY DEF Enter, Types, TypeOK
<1>3. CASE ServiceStarted(c) \/ Attached(c)
  <2>1. /\ SameSessions /\ UNCHANGED <<crash, arg>>
        /\ \E o \in Obtaining : op' = [op EXCEPT ![c] = o]
        /\ op[c] \in {"start", "attach"}
    BY <1>3 DEF ServiceStarted, Attached, Goto, SameSessions
  <2>2. QED
    BY <1>1, <2>1
<1>4. CASE HostSessionCreated(c)
  <2>1. /\ SameSessions /\ UNCHANGED crash /\ op[c] = "create_host"
        /\ \/ op' = [op EXCEPT ![c] = "attach"] /\ arg' = arg
           \/ Enter(c, "idle", None)
    BY <1>4 DEF HostSessionCreated, Goto, Return, SameSessions
  <2>2. QED
    BY <1>1, <1>2, <2>1
<1>5. CASE ObtainFailed(c) \/ CloseReturns(c) \/ CreateFailed(c) \/ ScriptCallReturns(c)
  <2>1. /\ SameSessions /\ UNCHANGED crash /\ Enter(c, "idle", None)
        /\ op[c] \in {"close", "dispose_wait"} => closer[arg[c]] = "done"
    BY <1>5 DEF ObtainFailed, CloseReturns, CreateFailed, ScriptCallReturns, Return,
                SameSessions
  <2>2. QED
    BY <1>1, <1>2, <2>1
<1>6. CASE DisposeResumes(c)
  <2>1. /\ SameSessions /\ UNCHANGED crash /\ Enter(c, "dispose", None)
        /\ op[c] = "dispose_wait" /\ closer[arg[c]] = "done"
    BY <1>6 DEF DisposeResumes, SameSessions
  <2>2. QED
    BY <1>1, <1>2, <2>1 DEF SessionCalls
<1>7. ASSUME NEW h \in Handles, DisposeCloses(c, h) PROVE Kept
  <2>1. CASE manager[h]
    <3>1. /\ BeginClose(h, TRUE) /\ Enter(c, "dispose_wait", h) /\ op[c] = "dispose"
          /\ UNCHANGED <<scriptVars, agent, notices>>
      BY <1>7, <2>1 DEF DisposeCloses
    <3>2. op[c] \in SessionCalls
      BY <3>1 DEF SessionCalls
    <3>3. QED
      BY <2>1, <3>1, <3>2, BlockingCloseKeepsScripts
  <2>2. CASE ~manager[h]
    <3>1. SameSessions /\ UNCHANGED <<crash, op, arg>> /\ op[c] = "dispose"
      BY <1>7, <2>2 DEF DisposeCloses, SameSessions
    <3>2. op' = [op EXCEPT ![c] = "dispose"]
      BY <3>1 DEF Types, TypeOK
    <3>3. QED
      BY <1>1, <3>1, <3>2 DEF SessionCalls
  <2>3. QED
    BY <2>1, <2>2
<1>8. CASE ServiceStopped(c)
  <2>1. /\ UNCHANGED <<scripts, owner, todo, closer, manager, internal, mayBlock, notices, crash>>
        /\ Enter(c, "idle", None) /\ op[c] = "dispose"
        /\ \A g \in Handles : agent'[g] = agent[g] \/ agent'[g] = "gone"
    BY <1>8 DEF ServiceStopped, Return
  <2>2. op'[c] = "idle" /\ \A d \in Callers \ {c} : op'[d] = op[d] /\ arg'[d] = arg[d]
    BY <2>1 DEF Enter, Types, TypeOK
  <2>3. ScriptsFit' /\ SessionsFit'
    BY <2>1 DEF ScriptsFit, SessionsFit, Types, TypeOK
  <2>4. ASSUME Turns PROVE Turns'
    <3>1. \A d \in Callers : op[d] = "create" => arg[d] \in Handles
      BY DEF Types, ArgumentsFit
    <3>2. \A g \in Handles : closer'[g] \in Closing /\ mayBlock'[g] =>
              \E d \in Callers : op'[d] \in {"close", "dispose_wait"} /\ arg'[d] = g
      BY <2>1, <2>2, <2>4 DEF Turns, TurnsAreTaken
    <3>3. \A d \in Callers : op'[d] = "create" => manager'[arg'[d]] \/ agent'[arg'[d]] = "gone"
      BY <2>1, <2>2, <2>4, <3>1 DEF Turns, TurnsAreTaken
    <3>4. \A d, e \in Callers : op'[d] \in SessionCalls /\ op'[e] \in SessionCalls => d = e
      BY <2>2, <2>4 DEF Turns, TurnsAreTaken, SessionCalls
    <3>5. ScriptsAreUnloaded' /\ NothingOutlives'
      BY <2>1, <2>4 DEF Turns, ScriptsAreUnloaded, NothingOutlives
    <3>6. QED
      BY <3>2, <3>3, <3>4, <3>5 DEF Turns, TurnsAreTaken
  <2>5. QED
    BY <2>3, <2>4
<1>9. QED
  BY <1>3, <1>4, <1>5, <1>6, <1>7, <1>8, SessionObtainedKeepsScripts,
     ScriptCreatedKeepsScripts DEF CallProceeds

LEMMA NextKeepsScriptInv == ScriptInv /\ [Next]_vars => ScriptInv'
<1>1. ASSUME ScriptInv, UNCHANGED vars PROVE ScriptInv'
  <2>1. Types'
    BY <1>1 DEF ScriptInv, vars, Types, TypeOK, ArgumentsFit, ProvidersFit
  <2>2. ScriptsFit' /\ SessionsFit'
    BY <1>1 DEF ScriptInv, vars, ScriptsFit, SessionsFit
  <2>3. inTurn' = inTurn /\ (Turns => Turns')
    BY <1>1 DEF vars, Turns, TurnsAreTaken, ScriptsAreUnloaded, NothingOutlives
  <2>4. QED
    BY <1>1, <2>1, <2>2, <2>3 DEF ScriptInv
<1>2. ASSUME ScriptInv, Next PROVE ScriptInv'
  <2>1. Types'
    BY <1>2, ClientCallsKeepTypes, CallProceedsKeepsTypes, LoopKeepsTypes DEF ScriptInv, Next
  <2>2. ScriptsFit' /\ SessionsFit' /\ (inTurn /\ Turns => Turns')
    <3> USE <1>2 DEF ScriptInv
    <3>1. ASSUME NEW c \in Callers, ClientCalls(c) \/ CallProceeds(c)
          PROVE  ScriptsFit' /\ SessionsFit' /\ (inTurn /\ Turns => Turns')
      BY <3>1, ClientCallsKeepScripts, CallProceedsKeepsScripts
    <3>2. ASSUME NEW h \in Handles, CloseProceeds(h)
          PROVE  ScriptsFit' /\ SessionsFit' /\ (inTurn /\ Turns => Turns')
      BY <3>2, CloseUnloadsScriptKeepsScripts, CloseGoesOnKeepsScripts, CloseEndsKeepsScripts
         DEF CloseProceeds
    <3>3. ASSUME NEW h \in Handles, AgentVanishes(h)
          PROVE  ScriptsFit' /\ SessionsFit' /\ (inTurn /\ Turns => Turns')
      <4>1. /\ UNCHANGED <<scripts, owner, todo, closer, manager, internal, mayBlock, op, arg,
                           crash>>
            /\ \A g \in Handles : agent'[g] = agent[g] \/ agent'[g] = "gone"
            /\ \A g \in notices' : agent'[g] = "gone"
        BY <3>3 DEF AgentVanishes, SessionsFit, Types, TypeOK
      <4>2. QED
        BY <4>1, AgentsGoKeepsScripts
    <3>4. QED
      BY <3>1, <3>2, <3>3, AgentSessionClosedKeepsScripts DEF Next
  <2>3. inTurn' = inTurn
    BY <1>2 DEF Next
  <2>4. QED
    BY <1>2, <2>1, <2>2, <2>3 DEF ScriptInv
<1>3. QED
  BY <1>1, <1>2

LEMMA ScriptInvHolds == Spec => []ScriptInv
<1>1. Init => ScriptInv
  <2> SUFFICES ASSUME Init PROVE ScriptInv
    OBVIOUS
  <2>1. Types
    BY DEF Init, Types, TypeOK, ArgumentsFit, ProvidersFit
  <2>2. ScriptsFit /\ SessionsFit
    BY DEF Init, ScriptsFit, SessionsFit
  <2>3. Turns
    BY DEF Init, Turns, TurnsAreTaken, ScriptsAreUnloaded, NothingOutlives, SessionCalls,
           Closing
  <2>4. QED
    BY <2>1, <2>2, <2>3 DEF ScriptInv
<1>2. QED
  BY <1>1, NextKeepsScriptInv, PTL DEF Spec

\* Type correctness, whatever overlaps.
THEOREM TypeCorrect == Spec => []TypeOK
<1>1. ScriptInv => TypeOK
  BY DEF ScriptInv, Types
<1>2. QED
  BY ScriptInvHolds, <1>1, PTL

\* If clients take turns on Sessions and Scripts, no Script stays attached to a Session
\* that has emitted closed, and no call works on a null Session or a null AgentSession:
\* however agents vanish meanwhile and however obtains overlap.
THEOREM ScriptsDie == Spec => []ScriptsDieWithTheirSession
<1>1. ScriptInv => ScriptsDieWithTheirSession
  BY DEF ScriptInv, Turns, NothingOutlives, ScriptsDieWithTheirSession
<1>2. QED
  BY ScriptInvHolds, <1>1, PTL

-----------------------------------------------------------------------------
(* pyfrida's manager.                                                      *)

\* What a call of obtain_session_for works on.
PyCallsFit ==
    /\ \A c \in Callers : op[c] \in Obtaining => arg[c] \in Pids
    /\ \A c \in Callers : op[c] \in {"create_host", "obtain_agent"} =>
           provider \in Services

\* Both maps hold the same sessions, those that are open and those whose close has
\* not ended: release_session, which comes last here, finds what it forgets.
PyMapsAgree ==
    /\ \A h \in byHandle : pid[h] \in Pids /\ byPid[pid[h]] = h
    /\ \A p \in Pids : byPid[p] # None => byPid[p] \in byHandle /\ pid[byPid[p]] = p
    /\ \A h \in Handles : manager[h] => h \in byHandle
    /\ \A h \in Handles :
           closer[h] \in {"unload", "agent"} => h \in byHandle /\ ~manager[h]
    /\ \A h \in Handles : agent[h] = "unborn" => h \notin byHandle

\* One thread obtains at a time, while no release is under way; what it has seen of
\* the host session stays.
PyObtainsAreAlone ==
    /\ \A c, d \in Callers : op[c] \in Obtaining /\ op[d] \in Obtaining => c = d
    /\ \A c \in Callers : op[c] \in Obtaining => byPid[arg[c]] = None /\ releases = 0
    /\ \A c \in Callers : op[c] \in {"start", "attach", "obtain_agent"} =>
           localSession # None

\* A host session has its provider, which no release is about to drop.
HostInPlace ==
    /\ localSession # None => provider \in Services /\ releases = 0
    /\ ~dropped

PyTypes == PyOK /\ PyCallsFit
PyCalm == HostServesItsSessions /\
          (~hasty => PyMapsAgree /\ PyObtainsAreAlone /\ HostInPlace)
PyIInv == PyTypes /\ PyCalm

LEMMA PyInitEstablishesIInv == PyInit => PyIInv
<1>1. PyInit => TypeOK
  BY InitEstablishesIInv DEF PyInit, IInv
<1>2. PyInit => PyCallsFit
  BY DEF PyInit, Init, PyCallsFit
<1>3. PyInit => idles \in Nat /\ releases \in Nat /\ dropped \in BOOLEAN /\ hasty \in BOOLEAN
  <2>1. PyInit => idles = 0 /\ releases = 0
    BY DEF PyInit
  <2>2. PyInit => dropped \in BOOLEAN /\ hasty \in BOOLEAN
    BY Zenon DEF PyInit
  <2>3. QED
    BY <2>1, <2>2
<1>4. PyInit => PyCalm
  BY DEF PyInit, Init, PyCalm, HostServesItsSessions, PyMapsAgree,
         PyObtainsAreAlone, HostInPlace
<1>5. QED
  BY <1>1, <1>2, <1>3, <1>4 DEF PyIInv, PyTypes, PyOK

(* Types, whatever overlaps: one lemma for obtaining, one for closing, one for *)
(* the host session's release and the agents.                                 *)

LEMMA PyObtainKeepsTypes ==
  ASSUME PyTypes, NEW c \in Callers, UNCHANGED constant,
         \/ \E p \in Pids : PyObtainSession(c, p)
         \/ HostSessionAtHand(c) \/ PyHostSessionCreated(c)
         \/ PyAttached(c) \/ PyObtained(c)
  PROVE  PyTypes'
<1> USE DEF PyTypes, PyOK, TypeOK, PyCallsFit, constant, Enter, Goto, Return, hostVars
<1>1. ASSUME NEW p \in Pids, PyObtainSession(c, p)
      PROVE  PyTypes'
  <2>1. hasty' \in BOOLEAN
    BY <1>1, Zenon DEF PyObtainSession
  <2>2. /\ provider' \in Services \cup {None} /\ dropped' \in BOOLEAN
        /\ localSession = None => provider' \in Services
        /\ localSession # None => UNCHANGED provider
    BY <1>1 DEF PyObtainSession
  <2>3. /\ op' = [op EXCEPT ![c] = IF localSession = None THEN "create_host" ELSE "start"]
        /\ arg' = [arg EXCEPT ![c] = p]
        /\ UNCHANGED <<idles, releases, localSession, mapVars, closeVars, agent,
                       notices, crash>>
    BY <1>1 DEF PyObtainSession
  <2>4. TypeOK'
    BY <2>2, <2>3
  <2>5. PyCallsFit'
    BY <2>2, <2>3
  <2>6. QED
    BY <2>1, <2>2, <2>3, <2>4, <2>5
<1>2. CASE HostSessionAtHand(c)
  BY <1>2 DEF HostSessionAtHand
<1>3. CASE PyHostSessionCreated(c)
  BY <1>3 DEF PyHostSessionCreated
<1>4. CASE PyAttached(c)
  BY <1>4 DEF PyAttached, Attached
<1>5. CASE PyObtained(c)
  <2>1. CASE ObtainFailed(c)
    BY <1>5, <2>1 DEF PyObtained, ObtainFailed
  <2>2. ASSUME NEW h \in Handles, SessionObtained(c, h)
        PROVE  PyTypes'
    BY <1>5, <2>2 DEF PyObtained, SessionObtained
  <2>3. QED
    BY <1>5, <2>1, <2>2 DEF PyObtained
<1>6. QED
  BY <1>1, <1>2, <1>3, <1>4, <1>5

LEMMA PyCloseKeepsTypes ==
  ASSUME PyTypes, NEW h \in Handles, UNCHANGED constant,
         \/ \E c \in Callers : PyCloseSession(c, h)
         \/ PyAgentSessionClosed(h) \/ PyCloseEnds(h)
  PROVE  PyTypes'
<1> USE DEF PyTypes, PyOK, TypeOK, PyCallsFit, constant, Enter, Return, hostVars,
            PyBeginClose, ForgetManager
<1>1. CASE \E c \in Callers : PyCloseSession(c, h)
  BY <1>1 DEF PyCloseSession
<1>2. CASE PyAgentSessionClosed(h)
  BY <1>2 DEF PyAgentSessionClosed
<1>3. CASE PyCloseEnds(h)
  <2>1. agent' \in [Handles -> Services \cup {"unborn", "gone"}]
            /\ agentScripts' \in [Handles -> SUBSET Scripts] /\ notices' \subseteq Handles
    BY <1>3 DEF PyCloseEnds, AgentIsClosed
  <2>2. /\ byPid' \in [Pids -> Handles \cup {None}] /\ byHandle' \subseteq Handles
        /\ internal' \in [Handles -> BOOLEAN] /\ crash' \in Crashes
        /\ closer' \in [Handles -> Closers] /\ closedSignals' \in [Handles -> Nat]
        /\ idles' \in Nat
    <3>1. CASE byPid[pid[h]] = None
      BY <1>3, <3>1 DEF PyCloseEnds
    <3>2. CASE byPid[pid[h]] # None
      <4>1. closedSignals' \in [Handles -> Nat] /\ idles' \in Nat
        BY <1>3, <3>2 DEF PyCloseEnds, PostRelease
      <4>2. internal' \in [Handles -> BOOLEAN] /\ closer' \in [Handles -> Closers]
        BY <1>3, <3>2 DEF PyCloseEnds, ForgetInternal
      <4>3. byPid' \in [Pids -> Handles \cup {None}] /\ byHandle' \subseteq Handles
                /\ crash' \in Crashes
        BY <1>3, <3>2 DEF PyCloseEnds
      <4>4. QED
        BY <4>1, <4>2, <4>3
    <3>3. QED
      BY <3>1, <3>2
  <2>3. UNCHANGED <<provider, localSession, op, arg, releases, dropped, hasty, pid,
                    manager, todo, unloading, mayBlock>>
    BY <1>3 DEF PyCloseEnds, ForgetInternal, PostRelease
  <2>4. QED
    BY <2>1, <2>2, <2>3
<1>4. QED
  BY <1>1, <1>2, <1>3

LEMMA PyCloseGoesOnKeeps ==
  ASSUME PyTypes, UNCHANGED constant, PyCloseGoesOn
  PROVE  PyTypes' /\ (PyCalm => PyCalm')
<1> USE DEF PyTypes, PyOK, TypeOK, PyCallsFit, constant, Enter, Return, hostVars
<1>1. ASSUME NEW h \in Handles, CloseAsksAgent(h), UNCHANGED hostVars
      PROVE  PyTypes' /\ (PyCalm => PyCalm')
  <2>1. PyTypes'
    BY <1>1 DEF CloseAsksAgent
  <2>2. PyCalm => PyCalm'
    BY <1>1 DEF CloseAsksAgent, PyCalm, HostServesItsSessions, PyMapsAgree,
                PyObtainsAreAlone, HostInPlace
  <2>3. QED
    BY <2>1, <2>2
<1>2. ASSUME NEW c \in Callers, CloseReturns(c), UNCHANGED hostVars
      PROVE  PyTypes' /\ (PyCalm => PyCalm')
  <2>1. PyTypes'
    BY <1>2 DEF CloseReturns
  <2>2. PyCalm => PyCalm'
    BY <1>2 DEF CloseReturns, PyCalm, HostServesItsSessions, PyMapsAgree,
                PyObtainsAreAlone, HostInPlace
  <2>3. QED
    BY <2>1, <2>2
<1>3. QED
  BY <1>1, <1>2 DEF PyCloseGoesOn

LEMMA PyReleaseKeepsTypes ==
  ASSUME PyTypes, UNCHANGED constant,
         ReleaseHost \/ HostReleased \/ \E h \in Handles : PyAgentVanishes(h)
  PROVE  PyTypes'
<1> USE DEF PyTypes, PyOK, TypeOK, PyCallsFit, constant, hostVars
<1>1. CASE ReleaseHost
  <2>1. hasty' \in BOOLEAN
    BY <1>1, Zenon DEF ReleaseHost
  <2>2. idles' \in Nat /\ releases' \in Nat /\ UNCHANGED dropped
    BY <1>1 DEF ReleaseHost
  <2>3. TypeOK' /\ PyCallsFit'
    BY <1>1 DEF ReleaseHost
  <2>4. QED
    BY <2>1, <2>2, <2>3
<1>2. CASE HostReleased
  <2>1. releases' \in Nat
    BY <1>2 DEF HostReleased
  <2>2. dropped' \in BOOLEAN
    BY <1>2, Zenon DEF HostReleased
  <2>3. UNCHANGED <<idles, hasty>>
    BY <1>2 DEF HostReleased
  <2>4. TypeOK' /\ PyCallsFit'
    BY <1>2 DEF HostReleased
  <2>5. QED
    BY <2>1, <2>2, <2>3, <2>4
<1>3. CASE \E h \in Handles : PyAgentVanishes(h)
  BY <1>3 DEF PyAgentVanishes
<1>4. QED
  BY <1>1, <1>2, <1>3

(* The host session, when clients do not overlap their obtain_session_for's. *)

LEMMA PyObtainSessionKeeps ==
  ASSUME PyIInv, SerialObtain = TRUE, UNCHANGED constant,
         NEW c \in Callers, NEW p \in Pids, PyObtainSession(c, p)
  PROVE  PyCalm'
<1> USE DEF PyIInv, PyTypes, PyCalm, PyOK, TypeOK, PyCallsFit, HostServesItsSessions,
            constant, PyObtainSession, LookedUp, Obtains, Enter
<1> SUFFICES ASSUME ~hasty'
             PROVE  (HostServesItsSessions /\ PyMapsAgree /\ PyObtainsAreAlone
                        /\ HostInPlace)'
  BY DEF HostServesItsSessions
<1>1. idles = 0 /\ releases = 0 /\ ~hasty
  <2>1. ~(idles > 0) /\ ~(releases > 0) /\ ~hasty
    BY Zenon
  <2>2. QED
    BY <2>1
<1>2. PyMapsAgree'
  BY <1>1 DEF PyMapsAgree
<1>3. PyObtainsAreAlone' /\ HostInPlace'
  BY <1>1 DEF PyObtainsAreAlone, HostInPlace
<1>4. HostServesItsSessions'
  BY <1>1
<1>5. QED
  BY <1>2, <1>3, <1>4

LEMMA PyObtainGoesOnKeeps ==
  ASSUME PyIInv, SerialObtain = TRUE, UNCHANGED constant, NEW c \in Callers,
         \/ HostSessionAtHand(c) \/ PyHostSessionCreated(c)
         \/ PyAttached(c) \/ PyObtained(c)
  PROVE  PyCalm'
<1> USE DEF PyIInv, PyTypes, PyCalm, PyOK, TypeOK, PyCallsFit,
            constant, hostVars, Enter, Goto, Return
<1> SUFFICES ASSUME ~hasty'
             PROVE  (HostServesItsSessions /\ PyMapsAgree /\ PyObtainsAreAlone
                        /\ HostInPlace)'
  BY DEF HostServesItsSessions
<1>1. CASE HostSessionAtHand(c)
  BY <1>1 DEF HostSessionAtHand, HostServesItsSessions, PyMapsAgree,
              PyObtainsAreAlone, HostInPlace
<1>2. CASE PyHostSessionCreated(c)
  BY <1>2 DEF PyHostSessionCreated, HostServesItsSessions, PyMapsAgree,
              PyObtainsAreAlone, HostInPlace
<1>3. CASE PyAttached(c)
  <2>1. op[c] = "attach" /\ provider # None /\ ~dropped
    BY <1>3 DEF PyAttached, Attached, PyObtainsAreAlone, HostInPlace
  <2>2. QED
    BY <1>3, <2>1 DEF PyAttached, Attached, HostServesItsSessions, PyMapsAgree,
                      PyObtainsAreAlone, HostInPlace
<1>4. CASE ObtainFailed(c) /\ UNCHANGED hostVars
  BY <1>4 DEF ObtainFailed, HostServesItsSessions, PyMapsAgree,
              PyObtainsAreAlone, HostInPlace
<1>5. ASSUME NEW h \in Handles, SessionObtained(c, h), UNCHANGED hostVars
      PROVE  (HostServesItsSessions /\ PyMapsAgree /\ PyObtainsAreAlone
                 /\ HostInPlace)'
  <2> USE <1>5 DEF SessionObtained, HandleFree
  <2>1. /\ op[c] = "obtain_agent" /\ arg[c] \in Pids /\ byPid[arg[c]] = None
        /\ h \notin byHandle /\ localSession # None /\ provider \in Services
    BY DEF PyObtainsAreAlone, PyMapsAgree
  <2>2. PyMapsAgree'
    BY <2>1 DEF PyMapsAgree
  <2>3. PyObtainsAreAlone' /\ HostInPlace'
    BY <2>1 DEF PyObtainsAreAlone, HostInPlace
  <2>4. HostServesItsSessions'
    BY <2>1 DEF HostServesItsSessions, HostInPlace
  <2>5. QED
    BY <2>2, <2>3, <2>4
<1>6. QED
  BY <1>1, <1>2, <1>3, <1>4, <1>5 DEF PyObtained

LEMMA PyCloseKeeps ==
  ASSUME PyIInv, UNCHANGED constant, NEW h \in Handles,
         \/ \E c \in Callers : PyCloseSession(c, h)
         \/ PyAgentSessionClosed(h) \/ PyCloseEnds(h)
  PROVE  PyCalm'
<1> USE DEF PyIInv, PyTypes, PyCalm, PyOK, TypeOK, PyCallsFit,
            constant, hostVars, Enter, Return, PyBeginClose, ForgetManager
<1> SUFFICES ASSUME ~hasty'
             PROVE  (HostServesItsSessions /\ PyMapsAgree /\ PyObtainsAreAlone
                        /\ HostInPlace)'
  BY DEF HostServesItsSessions
<1>1. ASSUME NEW c \in Callers, PyCloseSession(c, h)
      PROVE  (HostServesItsSessions /\ PyMapsAgree /\ PyObtainsAreAlone /\ HostInPlace)'
  BY <1>1 DEF PyCloseSession, HostServesItsSessions, PyMapsAgree,
              PyObtainsAreAlone, HostInPlace
<1>2. CASE PyAgentSessionClosed(h)
  BY <1>2 DEF PyAgentSessionClosed, IsOurs, HostServesItsSessions, PyMapsAgree,
              PyObtainsAreAlone, HostInPlace
<1>3. CASE PyCloseEnds(h)
  <2> USE <1>3 DEF PyCloseEnds, AgentIsClosed, ForgetInternal, PostRelease
  <2>1. h \in byHandle /\ byPid[pid[h]] = h /\ pid[h] \in Pids /\ ~manager[h]
    BY DEF PyMapsAgree
  <2>2. PyMapsAgree'
    BY <2>1 DEF PyMapsAgree
  <2>3. PyObtainsAreAlone' /\ HostInPlace'
    BY <2>1 DEF PyObtainsAreAlone, HostInPlace
  <2>4. HostServesItsSessions'
    BY <2>1 DEF HostServesItsSessions
  <2>5. QED
    BY <2>2, <2>3, <2>4
<1>4. QED
  BY <1>1, <1>2, <1>3

\* A release that overlaps no obtain_session_for takes away what nobody uses.
LEMMA PyReleaseKeeps ==
  ASSUME PyIInv, UNCHANGED constant,
         ReleaseHost \/ HostReleased \/ \E h \in Handles : PyAgentVanishes(h)
  PROVE  PyCalm'
<1> USE DEF PyIInv, PyTypes, PyCalm, PyOK, TypeOK, PyCallsFit, constant, hostVars
<1> SUFFICES ASSUME ~hasty'
             PROVE  (HostServesItsSessions /\ PyMapsAgree /\ PyObtainsAreAlone
                        /\ HostInPlace)'
  BY DEF HostServesItsSessions
<1>1. CASE ReleaseHost
  <2> USE <1>1 DEF ReleaseHost
  <2>1. ~dropped /\ ~hasty
    BY DEF HostInPlace
  <2>2. CASE ~NoSessions \/ localSession = None
    BY <2>1, <2>2 DEF HostServesItsSessions, PyMapsAgree, PyObtainsAreAlone,
                      HostInPlace
  <2>3. CASE NoSessions /\ localSession # None
    <3>1. byHandle = {}
      BY <2>1, <2>3 DEF NoSessions, PyMapsAgree
    <3>2. ~Obtains
      BY <2>1, <2>3, Zenon
    <3>3. \A c \in Callers : op[c] \notin Obtaining
      BY <3>2 DEF Obtains
    <3>4. QED
      BY <2>1, <2>3, <3>1, <3>3 DEF HostServesItsSessions, PyMapsAgree,
                              PyObtainsAreAlone, HostInPlace
  <2>4. QED
    BY <2>2, <2>3
<1>2. CASE HostReleased
  <2> USE <1>2 DEF HostReleased
  <2>1. /\ releases # 0 /\ localSession = None /\ byHandle = {}
        /\ \A c \in Callers : op[c] \notin Obtaining
    BY DEF PyObtainsAreAlone, HostInPlace, HostServesItsSessions
  <2>2. QED
    BY <2>1 DEF HostServesItsSessions, PyMapsAgree, PyObtainsAreAlone, HostInPlace
<1>3. ASSUME NEW h \in Handles, PyAgentVanishes(h)
      PROVE  (HostServesItsSessions /\ PyMapsAgree /\ PyObtainsAreAlone /\ HostInPlace)'
  BY <1>3 DEF PyAgentVanishes, HostServesItsSessions, PyMapsAgree,
              PyObtainsAreAlone, HostInPlace
<1>4. QED
  BY <1>1, <1>2, <1>3

LEMMA PyNextKeepsTypes == PyTypes /\ [PyNext]_pyVars => PyTypes'
<1>1. ASSUME PyTypes, UNCHANGED pyVars
      PROVE  PyTypes'
  BY <1>1 DEF pyVars, vars, hostVars, PyTypes, PyOK, TypeOK, PyCallsFit
<1>2. ASSUME PyTypes, PyNext
      PROVE  PyTypes'
  <2>1. CASE \E c \in Callers :
                 \/ \E p \in Pids : PyObtainSession(c, p)
                 \/ HostSessionAtHand(c) \/ PyHostSessionCreated(c)
                 \/ PyAttached(c) \/ PyObtained(c)
    BY <1>2, <2>1, PyObtainKeepsTypes DEF PyNext
  <2>2. CASE \E h \in Handles :
                 \/ \E c \in Callers : PyCloseSession(c, h)
                 \/ PyAgentSessionClosed(h) \/ PyCloseEnds(h)
    BY <1>2, <2>2, PyCloseKeepsTypes DEF PyNext
  <2>3. CASE PyCloseGoesOn
    BY <1>2, <2>3, PyCloseGoesOnKeeps DEF PyNext
  <2>4. CASE ReleaseHost \/ HostReleased \/ \E h \in Handles : PyAgentVanishes(h)
    BY <1>2, <2>4, PyReleaseKeepsTypes DEF PyNext
  <2>5. QED
    BY <1>2, <2>1, <2>2, <2>3, <2>4 DEF PyNext, PyCallProceeds, PyCloseProceeds
<1>3. QED
  BY <1>1, <1>2

LEMMA PyNextKeepsIInv ==
  ASSUME SerialObtain = TRUE
  PROVE  PyIInv /\ [PyNext]_pyVars => PyIInv'
<1>1. ASSUME PyIInv, UNCHANGED pyVars
      PROVE  PyCalm'
  BY <1>1 DEF pyVars, vars, hostVars, PyIInv, PyCalm, HostServesItsSessions,
              PyMapsAgree, PyObtainsAreAlone, HostInPlace
<1>2. ASSUME PyIInv, PyNext
      PROVE  PyCalm'
  <2>1. CASE \E c \in Callers : \E p \in Pids : PyObtainSession(c, p)
    BY <1>2, <2>1, PyObtainSessionKeeps DEF PyNext
  <2>2. CASE \E c \in Callers :
                 \/ HostSessionAtHand(c) \/ PyHostSessionCreated(c)
                 \/ PyAttached(c) \/ PyObtained(c)
    BY <1>2, <2>2, PyObtainGoesOnKeeps DEF PyNext
  <2>3. CASE \E h \in Handles :
                 \/ \E c \in Callers : PyCloseSession(c, h)
                 \/ PyAgentSessionClosed(h) \/ PyCloseEnds(h)
    BY <1>2, <2>3, PyCloseKeeps DEF PyNext
  <2>4. CASE PyCloseGoesOn
    BY <1>2, <2>4, PyCloseGoesOnKeeps DEF PyNext, PyIInv
  <2>5. CASE ReleaseHost \/ HostReleased \/ \E h \in Handles : PyAgentVanishes(h)
    BY <1>2, <2>5, PyReleaseKeeps DEF PyNext
  <2>6. QED
    BY <1>2, <2>1, <2>2, <2>3, <2>4, <2>5 DEF PyNext, PyCallProceeds, PyCloseProceeds
<1>3. QED
  BY <1>1, <1>2, PyNextKeepsTypes DEF PyIInv

\* pyfrida's manager keeps the types of its variables, however calls overlap.
THEOREM PyTypeCorrect == PySpec => []PyOK
<1>1. PyInit => PyTypes
  BY PyInitEstablishesIInv DEF PyIInv
<1>2. PyTypes => PyOK
  BY DEF PyTypes
<1>3. QED
  BY <1>1, <1>2, PyNextKeepsTypes, PTL DEF PySpec

\* pyfrida's host session and provider are there for every obtain_session_for and for
\* every session in the maps, and no assertion of _release_session fails, as long as
\* no obtain_session_for overlaps another one or the release of the host session.
THEOREM HostIsThereForItsSessions ==
  ASSUME SerialObtain = TRUE
  PROVE  PySpec => []HostServesItsSessions
<1>1. PyIInv => HostServesItsSessions
  BY DEF PyIInv, PyCalm
<1>2. QED
  BY PyInitEstablishesIInv, PyNextKeepsIInv, <1>1, PTL DEF PySpec

-----------------------------------------------------------------------------
(* PyFrida.  The strengthening of WrappersAreTheirNatives that is          *)
(* inductive.                                                              *)

\* The elements of the lists of callbacks h that are c.
Slots(h, c) ==
    {x \in Addresses \X (1..MaxHung) : x[2] \in DOMAIN h[x[1]] /\ h[x[1]][x[2]] = c}
HungTimes(h, c) == Cardinality(Slots(h, c))

ListsFit == \A w \in Addresses : Len(hung[w]) <= MaxHung

\* A thread that frees a wrapper is alone at it, and nobody refers to the wrapper.
FreersFit ==
    \A r \in Runners : at[r] \in {"dealloc", "free"} =>
        /\ about[r] \in Addresses /\ refs[about[r]] = 0 /\ handle[about[r]] # Null
        /\ \A q \in Runners \ {r} :
               at[q] \in {"dealloc", "free"} => about[q] # about[r]

\* Each call in progress has its reference.
CallersFit ==
    /\ \A r \in Runners : at[r] \in {"calling", "called"} => about[r] \in Addresses
    /\ \A w \in Addresses : Cardinality(CallsOn(w)) <= refs[w]
AnswersFit == \A r \in Runners : at[r] = "answered" => about[r] \in Natives

\* A wrapper that is referred to and its native point at each other; another has no
\* callbacks.
WrappersFit ==
    /\ \A w \in Addresses :
           IF refs[w] > 0 THEN handle[w] \in Natives /\ pyobject[handle[w]] = w
                          ELSE hung[w] = <<>>
    /\ \A n \in Natives : pyobject[n] \in Addresses =>
           handle[pyobject[n]] = n /\ refs[pyobject[n]] > 0

NativesCounted ==
    \A n \in Natives :
        nativeRefs[n] = Cardinality(Wrappers(n) \ BeingFreed) + Cardinality(Answered(n))
SignalsFit ==
    \A n \in Natives : connected[n] = {w \in Wrappers(n) : hung[w] # <<>>}
CallbacksCounted ==
    \A c \in Callbacks :
        uses[c] = Cardinality({c} \cap named) + Occurrences(emission.copy, c)
                    + HungTimes(hung, c)

\* The main loop's thread has a list of callbacks to call while it calls them.
EmissionFits ==
    /\ at[Loop] = "loop" => emission = NoEmission
    /\ at[Loop] = "handler" =>
           emission.native \in Natives /\ emission.wrapper \in Addresses /\ emission.copy = <<>>
    /\ emission.next >= 1

BindingInv ==
    /\ BindingTypeOK /\ ListsFit
    /\ FreersFit /\ CallersFit /\ AnswersFit /\ WrappersFit
    /\ NativesCounted /\ SignalsFit /\ CallbacksCounted /\ EmissionFits
    /\ ~wild

-----------------------------------------------------------------------------
(* PyFrida: lists of callbacks, and how often each is on them.             *)

\* A list without one of its elements, such as a callback that is taken off.
LEMMA OneCallbackLess ==
  ASSUME NEW T, NEW s \in Seq(T), NEW n \in 1..Len(s)
  PROVE  /\ RemoveAt(s, n) \in Seq(T)
         /\ Len(RemoveAt(s, n)) = Len(s) - 1
         /\ \A m \in 1..Len(s) - 1 :
                RemoveAt(s, n)[m] = IF m < n THEN s[m] ELSE s[m + 1]
<1> DEFINE a == SubSeq(s, 1, n - 1)
           b == SubSeq(s, n + 1, Len(s))
<1>1. Len(s) \in Nat /\ n \in Int
  OBVIOUS
<1>2. /\ a \in Seq(T) /\ Len(a) = n - 1
      /\ \A m \in 1..n - 1 : a[m] = s[m]
  BY <1>1, SubSeqProperties
<1>3. /\ b \in Seq(T) /\ Len(b) = Len(s) - n
      /\ \A m \in 1..Len(s) - n : b[m] = s[m + n]
  BY <1>1, SubSeqProperties
<1> HIDE DEF a, b
<1>4. /\ a \o b \in Seq(T) /\ Len(a \o b) = Len(s) - 1
      /\ \A m \in 1..Len(s) - 1 : (a \o b)[m] = IF m <= n - 1 THEN a[m] ELSE b[m - (n - 1)]
  <2>1. Len(a) + Len(b) = Len(s) - 1
    BY <1>1, <1>2, <1>3
  <2>2. /\ a \o b \in Seq(T) /\ Len(a \o b) = Len(a) + Len(b)
        /\ \A m \in 1..Len(a) + Len(b) :
               (a \o b)[m] = IF m <= Len(a) THEN a[m] ELSE b[m - Len(a)]
    BY <1>2, <1>3, ConcatProperties
  <2>3. QED
    BY <1>2, <2>1, <2>2
<1>5. \A m \in 1..Len(s) - 1 : (a \o b)[m] = IF m < n THEN s[m] ELSE s[m + 1]
  BY <1>1, <1>2, <1>3, <1>4
<1>6. RemoveAt(s, n) = a \o b
  BY DEF RemoveAt, a, b
<1>7. QED
  BY <1>4, <1>5, <1>6

\* How often a callback is on a list is a number.
LEMMA OccurrencesNat ==
  ASSUME NEW T, NEW s \in Seq(T), NEW c
  PROVE  /\ IsFiniteSet({i \in DOMAIN s : s[i] = c})
         /\ Occurrences(s, c) \in Nat
<1>1. DOMAIN s = 1..Len(s) /\ Len(s) \in Nat
  OBVIOUS
<1>2. IsFiniteSet(1..Len(s))
  BY <1>1, FS_Interval
<1>3. {i \in DOMAIN s : s[i] = c} \in SUBSET (1..Len(s))
  BY <1>1
<1>4. QED
  BY <1>2, <1>3, FS_Subset, FS_CardinalityType DEF Occurrences

LEMMA NoneOccurs ==
  ASSUME NEW c
  PROVE  Occurrences(<<>>, c) = 0
<1>1. {i \in DOMAIN <<>> : <<>>[i] = c} = {}
  OBVIOUS
<1>2. QED
  BY <1>1, FS_EmptySet DEF Occurrences

LEMMA OneOccurs ==
  ASSUME NEW c, NEW d
  PROVE  Occurrences(<<d>>, c) = IF c = d THEN 1 ELSE 0
<1>1. DOMAIN <<d>> = {1} /\ <<d>>[1] = d
  OBVIOUS
<1>2. CASE c = d
  <2>1. {i \in DOMAIN <<d>> : <<d>>[i] = c} = {1}
    BY <1>1, <1>2
  <2>2. Cardinality({1}) = 1
    BY FS_Singleton
  <2>3. QED
    BY <1>2, <2>1, <2>2 DEF Occurrences
<1>3. CASE c # d
  <2>1. {i \in DOMAIN <<d>> : <<d>>[i] = c} = {}
    BY <1>1, <1>3
  <2>2. QED
    BY <1>3, <2>1, FS_EmptySet DEF Occurrences
<1>4. QED
  BY <1>2, <1>3

LEMMA WhatIsThereOccurs ==
  ASSUME NEW T, NEW s \in Seq(T), NEW i \in DOMAIN s
  PROVE  Occurrences(s, s[i]) >= 1
<1> DEFINE S == {j \in DOMAIN s : s[j] = s[i]}
<1>1. IsFiniteSet(S) /\ Occurrences(s, s[i]) = Cardinality(S)
  BY OccurrencesNat DEF Occurrences
<1>2. S # {}
  OBVIOUS
<1> HIDE DEF S
<1>3. Cardinality(S) # 0 /\ Cardinality(S) \in Nat
  BY <1>1, <1>2, FS_EmptySet, FS_CardinalityType
<1>4. QED
  BY <1>1, <1>3

LEMMA OccurrencesAppend ==
  ASSUME NEW T, NEW s \in Seq(T), NEW d \in T, NEW c
  PROVE  Occurrences(Append(s, d), c) = Occurrences(s, c) + Occurrences(<<d>>, c)
<1> DEFINE S == {i \in DOMAIN s : s[i] = c}
           A == {i \in DOMAIN Append(s, d) : Append(s, d)[i] = c}
           k == Len(s) + 1
<1>1. /\ Len(s) \in Nat /\ DOMAIN s = 1..Len(s) /\ DOMAIN Append(s, d) = 1..k
      /\ Append(s, d)[k] = d /\ \A i \in 1..Len(s) : Append(s, d)[i] = s[i]
  BY AppendProperties
<1>2. IsFiniteSet(S) /\ Occurrences(s, c) = Cardinality(S) /\ Cardinality(S) \in Nat
  BY OccurrencesNat DEF Occurrences
<1>3. k \notin S
  BY <1>1
<1>4. Occurrences(Append(s, d), c) = Cardinality(A)
  BY DEF Occurrences
<1>5. CASE c = d
  <2>1. A = S \cup {k}
    BY <1>1, <1>5
  <2> HIDE DEF S, A, k
  <2>2. Cardinality(S \cup {k}) = Cardinality(S) + 1
    BY <1>2, <1>3, FS_AddElement
  <2>3. QED
    BY <1>2, <1>4, <1>5, <2>1, <2>2, OneOccurs
<1>6. CASE c # d
  <2>1. A = S
    BY <1>1, <1>6
  <2> HIDE DEF S, A, k
  <2>2. QED
    BY <1>2, <1>4, <1>6, <2>1, OneOccurs
<1>7. QED
  BY <1>5, <1>6

LEMMA OccurrencesRemoveAt ==
  ASSUME NEW T, NEW s \in Seq(T), NEW n \in 1..Len(s), NEW c
  PROVE  Occurrences(RemoveAt(s, n), c) = Occurrences(s, c) - Occurrences(<<s[n]>>, c)
<1> DEFINE r == RemoveAt(s, n)
           S == {i \in DOMAIN s : s[i] = c}
           R == {i \in DOMAIN r : r[i] = c}
           f == [i \in R |-> IF i < n THEN i ELSE i + 1]
<1>1. /\ r \in Seq(T) /\ Len(r) = Len(s) - 1
      /\ \A m \in 1..Len(s) - 1 : r[m] = IF m < n THEN s[m] ELSE s[m + 1]
  BY OneCallbackLess
<1>2. IsFiniteSet(S) /\ Occurrences(s, c) = Cardinality(S) /\ Cardinality(S) \in Nat
  BY OccurrencesNat DEF Occurrences
<1> HIDE DEF r
<1>3. IsFiniteSet(R) /\ Occurrences(r, c) = Cardinality(R)
  BY <1>1, OccurrencesNat DEF Occurrences
<1>4. /\ Len(s) \in Nat /\ n \in Nat /\ DOMAIN s = 1..Len(s) /\ DOMAIN r = 1..(Len(s) - 1)
  BY <1>1
<1>5. f \in Bijection(R, S \ {n})
  <2>1. f \in [R -> S \ {n}]
    <3>1. SUFFICES ASSUME NEW i \in R
                   PROVE  (IF i < n THEN i ELSE i + 1) \in S \ {n}
      OBVIOUS
    <3>2. i \in 1..(Len(s) - 1) /\ r[i] = c
      BY <1>4
    <3>3. CASE i < n
      BY <1>1, <1>4, <3>2, <3>3
    <3>4. CASE ~(i < n)
      BY <1>1, <1>4, <3>2, <3>4
    <3>5. QED
      BY <3>3, <3>4
  <2>2. \A i, j \in R : f[i] = f[j] => i = j
    BY <1>4
  <2>3. \A k \in S \ {n} : \E i \in R : f[i] = k
    <3>1. SUFFICES ASSUME NEW k \in S \ {n}
                   PROVE  \E i \in R : f[i] = k
      OBVIOUS
    <3>2. k \in 1..Len(s) /\ s[k] = c /\ k # n
      BY <1>4
    <3>3. CASE k < n
      <4>1. k \in R
        BY <1>1, <1>4, <3>2, <3>3
      <4>2. f[k] = k
        BY <3>3, <4>1
      <4>3. QED
        BY <4>1, <4>2
    <3>4. CASE ~(k < n)
      <4>1. k - 1 \in 1..(Len(s) - 1) /\ ~(k - 1 < n) /\ (k - 1) + 1 = k
        BY <1>4, <3>2, <3>4
      <4>2. k - 1 \in R
        BY <1>1, <1>4, <3>2, <4>1
      <4>3. f[k - 1] = k
        BY <4>1, <4>2
      <4>4. QED
        BY <4>2, <4>3
    <3>5. QED
      BY <3>3, <3>4
  <2> HIDE DEF f, R, S
  <2>4. QED
    BY <2>1, <2>2, <2>3 DEF Bijection, Injection, Surjection, IsInjective
<1>6. s[n] = c <=> n \in S
  BY <1>4
<1> HIDE DEF f, R, S
<1>7. Cardinality(S \ {n}) = Cardinality(R)
  BY <1>3, <1>5, FS_Bijection DEF ExistsBijection
<1>8. Cardinality(S \ {n}) = IF n \in S THEN Cardinality(S) - 1 ELSE Cardinality(S)
  BY <1>2, FS_RemoveElement
<1>9. QED
  BY <1>2, <1>3, <1>6, <1>7, <1>8, OneOccurs DEF r

LEMMA SlotsAreFinite ==
  ASSUME NEW h, NEW c
  PROVE  IsFiniteSet(Slots(h, c))
<1>1. MaxHung \in Int /\ IsFiniteSet(Addresses)
  BY PyFridaAssumption
<1>2. IsFiniteSet(1..MaxHung)
  BY <1>1, FS_Interval
<1>3. IsFiniteSet(Addresses \X (1..MaxHung))
  BY <1>1, <1>2, FS_Product
<1>4. Slots(h, c) \in SUBSET (Addresses \X (1..MaxHung))
  BY DEF Slots
<1>5. QED
  BY <1>3, <1>4, FS_Subset

\* How often a callback is hung on a wrapper counts on its own.
LEMMA HungTimesSplit ==
  ASSUME NEW h \in [Addresses -> Seq(Callbacks)], NEW w \in Addresses, NEW c,
         Len(h[w]) <= MaxHung
  PROVE  /\ Cardinality({x \in Slots(h, c) : x[1] # w}) \in Nat
         /\ HungTimes(h, c) = Cardinality({x \in Slots(h, c) : x[1] # w}) + Occurrences(h[w], c)
<1> DEFINE A == {x \in Slots(h, c) : x[1] # w}
           B == {x \in Slots(h, c) : x[1] = w}
           O == {i \in DOMAIN h[w] : h[w][i] = c}
           f == [i \in O |-> <<w, i>>]
<1>1. IsFiniteSet(Slots(h, c))
  BY SlotsAreFinite
<1>2. /\ IsFiniteSet(A) /\ IsFiniteSet(B)
  <2>1. A \in SUBSET Slots(h, c) /\ B \in SUBSET Slots(h, c)
    OBVIOUS
  <2> HIDE DEF A, B
  <2>2. QED
    BY <1>1, <2>1, FS_Subset
<1>3. h[w] \in Seq(Callbacks) /\ DOMAIN h[w] = 1..Len(h[w]) /\ Len(h[w]) \in Nat
  OBVIOUS
<1>4. IsFiniteSet(O) /\ Occurrences(h[w], c) = Cardinality(O)
  BY <1>3, OccurrencesNat DEF Occurrences
<1>5. f \in Bijection(O, B)
  <2>1. f \in [O -> B]
    <3>1. SUFFICES ASSUME NEW i \in O
                   PROVE  <<w, i>> \in B
      OBVIOUS
    <3>2. i \in 1..MaxHung /\ i \in DOMAIN h[w] /\ h[w][i] = c
      BY <1>3, PyFridaAssumption
    <3>3. QED
      BY <3>2 DEF Slots
  <2>2. \A i, j \in O : f[i] = f[j] => i = j
    OBVIOUS
  <2>3. \A x \in B : \E i \in O : f[i] = x
    <3>1. SUFFICES ASSUME NEW x \in B
                   PROVE  \E i \in O : f[i] = x
      OBVIOUS
    <3>2. /\ x \in Addresses \X (1..MaxHung) /\ x[1] = w
          /\ x[2] \in DOMAIN h[w] /\ h[w][x[2]] = c
      BY DEF Slots
    <3>3. x = <<w, x[2]>> /\ x[2] \in O
      BY <3>2
    <3>4. QED
      BY <3>3
  <2> HIDE DEF f, O, B
  <2>4. QED
    BY <2>1, <2>2, <2>3 DEF Bijection, Injection, Surjection, IsInjective
<1>6. Slots(h, c) = A \cup B /\ A \cap B = {}
  OBVIOUS
<1> HIDE DEF A, B, O, f
<1>7. Cardinality(B) = Cardinality(O)
  BY <1>4, <1>5, FS_Bijection DEF ExistsBijection
<1>8. Cardinality(A) \in Nat /\ Cardinality(B) \in Nat
  BY <1>2, FS_CardinalityType
<1>9. Cardinality(A \cup B) = Cardinality(A) + Cardinality(B) - Cardinality(A \cap B)
  BY <1>2, FS_Union
<1>10. Cardinality(A \cap B) = 0
  BY <1>6, FS_EmptySet
<1>11. HungTimes(h, c) = Cardinality(A) + Occurrences(h[w], c)
  BY <1>4, <1>6, <1>7, <1>8, <1>9, <1>10 DEF HungTimes
<1>12. QED
  BY <1>8, <1>11 DEF A

\* When the callbacks of one wrapper change from h to g, that wrapper's are counted again.
Rehung(h, g, w, s) ==
    /\ h \in [Addresses -> Seq(Callbacks)] /\ w \in Addresses /\ s \in Seq(Callbacks)
    /\ Len(h[w]) <= MaxHung /\ Len(s) <= MaxHung
    /\ g = [h EXCEPT ![w] = s]
Recounted(h, g, w, s, c) ==
    /\ HungTimes(h, c) \in Nat /\ HungTimes(h, c) >= Occurrences(h[w], c)
    /\ HungTimes(g, c) = HungTimes(h, c) - Occurrences(h[w], c) + Occurrences(s, c)

LEMMA HungTimesChange ==
  ASSUME NEW h, NEW g, NEW w, NEW s, NEW c, Rehung(h, g, w, s)
  PROVE  Recounted(h, g, w, s, c)
<1> USE DEF Rehung
<1>1. g \in [Addresses -> Seq(Callbacks)] /\ g[w] = s
  OBVIOUS
<1>2. {x \in Slots(h, c) : x[1] # w} = {x \in Slots(g, c) : x[1] # w}
  <2>1. \A x \in Addresses \X (1..MaxHung) : x[1] # w => g[x[1]] = h[x[1]]
    OBVIOUS
  <2>2. QED
    BY <2>1 DEF Slots
<1>3. /\ Cardinality({x \in Slots(h, c) : x[1] # w}) \in Nat
      /\ HungTimes(h, c) = Cardinality({x \in Slots(h, c) : x[1] # w}) + Occurrences(h[w], c)
  BY HungTimesSplit
<1>4. HungTimes(g, c) = Cardinality({x \in Slots(g, c) : x[1] # w}) + Occurrences(g[w], c)
  BY <1>1, HungTimesSplit
<1>5. Occurrences(h[w], c) \in Nat /\ Occurrences(s, c) \in Nat
  BY OccurrencesNat
<1>6. HungTimes(g, c) = HungTimes(h, c) - Occurrences(h[w], c) + Occurrences(s, c)
  <2> DEFINE k == Cardinality({x \in Slots(h, c) : x[1] # w})
  <2>1. k \in Nat /\ HungTimes(h, c) = k + Occurrences(h[w], c)
    BY <1>3
  <2>2. HungTimes(g, c) = k + Occurrences(s, c)
    BY <1>1, <1>2, <1>4
  <2> HIDE DEF k
  <2>3. QED
    BY <1>5, <2>1, <2>2
<1>7. HungTimes(h, c) \in Nat /\ HungTimes(h, c) >= Occurrences(h[w], c)
  BY <1>3, <1>5
<1>8. QED
  BY <1>6, <1>7 DEF Recounted

-----------------------------------------------------------------------------
(* PyFrida: where the threads stand.                                       *)

USE PyFridaAssumption

\* Where a thread matters to a wrapper or to a native.
Busy == {"dealloc", "free", "calling", "called", "answered"}
Places == {"loop", "handler", "between", "code", "asking", "answered",
           "failed", "calling", "called", "dealloc", "free"}

LEMMA SetsAreFinite ==
  /\ IsFiniteSet(Runners)
  /\ \A w : IsFiniteSet(CallsOn(w)) /\ Cardinality(CallsOn(w)) \in Nat
  /\ \A n : IsFiniteSet(Answered(n)) /\ Cardinality(Answered(n)) \in Nat
  /\ \A n, X : IsFiniteSet(Wrappers(n) \ X) /\ Cardinality(Wrappers(n) \ X) \in Nat
<1>1. IsFiniteSet(Runners)
  BY FS_AddElement DEF Runners
<1>2. \A w : IsFiniteSet(CallsOn(w)) /\ Cardinality(CallsOn(w)) \in Nat
  <2>1. \A w : CallsOn(w) \in SUBSET Runners
    BY DEF CallsOn
  <2>2. QED
    BY <1>1, <2>1, FS_Subset, FS_CardinalityType
<1>3. \A n : IsFiniteSet(Answered(n)) /\ Cardinality(Answered(n)) \in Nat
  <2>1. \A n : Answered(n) \in SUBSET Runners
    BY DEF Answered
  <2>2. QED
    BY <1>1, <2>1, FS_Subset, FS_CardinalityType
<1>4. \A n, X : IsFiniteSet(Wrappers(n) \ X) /\ Cardinality(Wrappers(n) \ X) \in Nat
  <2>1. \A n, X : Wrappers(n) \ X \in SUBSET Addresses
    BY DEF Wrappers
  <2>2. QED
    BY <2>1, FS_Subset, FS_CardinalityType
<1>5. QED
  BY <1>1, <1>2, <1>3, <1>4

LEMMA Going ==
  ASSUME BindingTypeOK, NEW r \in Runners, NEW place, NEW what, Goes(r, place, what)
  PROVE  /\ at'[r] = place /\ about'[r] = what
         /\ \A q \in Runners \ {r} : at'[q] = at[q] /\ about'[q] = about[q]
         /\ \A q \in Runners : at'[q] = IF q = r THEN place ELSE at[q]
         /\ \A q \in Runners : about'[q] = IF q = r THEN what ELSE about[q]
<1>1. at \in [Runners -> Places] /\ about \in [Runners -> Natives \cup Addresses \cup {Null}]
  BY DEF BindingTypeOK, Places
<1>2. QED
  BY <1>1 DEF Goes

LEMMA GoingType ==
  ASSUME BindingTypeOK, NEW r \in Runners, NEW place \in Places,
         NEW what \in Natives \cup Addresses \cup {Null}, Goes(r, place, what)
  PROVE  /\ at' \in [Runners -> Places]
         /\ about' \in [Runners -> Natives \cup Addresses \cup {Null}]
<1>1. at \in [Runners -> Places] /\ about \in [Runners -> Natives \cup Addresses \cup {Null}]
  BY DEF BindingTypeOK, Places
<1>2. QED
  BY <1>1 DEF Goes

\* A thread that stays out of what is counted.
LEMMA QuietMove ==
  ASSUME BindingInv, NEW r \in Runners, NEW place, NEW what, Goes(r, place, what),
         at[r] \notin Busy, place \notin Busy
  PROVE  /\ \A w : CallsOn(w)' = CallsOn(w)
         /\ \A n : Answered(n)' = Answered(n)
         /\ BeingFreed' = BeingFreed
<1>1. \A q \in Runners : at'[q] = IF q = r THEN place ELSE at[q]
  BY Going DEF BindingInv
<1>2. \A q \in Runners : about'[q] = IF q = r THEN what ELSE about[q]
  BY Going DEF BindingInv
<1>3. ASSUME NEW w
      PROVE  CallsOn(w)' = CallsOn(w)
  BY <1>1, <1>2 DEF CallsOn, Busy
<1>4. ASSUME NEW n
      PROVE  Answered(n)' = Answered(n)
  BY <1>1, <1>2 DEF Answered, Busy
<1>5. {q \in Runners : at'[q] = "free"} = {q \in Runners : at[q] = "free"}
  BY <1>1 DEF Busy
<1>6. \A q \in Runners : at[q] = "free" => about'[q] = about[q]
  BY <1>2 DEF Busy
<1>7. BeingFreed' = BeingFreed
  BY <1>5, <1>6 DEF BeingFreed
<1>8. QED
  BY <1>3, <1>4, <1>7

\* The wrappers and their natives are as they were when such a thread goes on.
LEMMA QuietStep ==
  ASSUME BindingInv, NEW r \in Runners, NEW place, NEW what, Goes(r, place, what),
         at[r] \notin Busy, place \notin Busy, UNCHANGED <<wrapperVars, hung, connected>>
  PROVE  /\ ListsFit' /\ FreersFit' /\ CallersFit' /\ AnswersFit' /\ WrappersFit'
         /\ NativesCounted' /\ SignalsFit'
<1> USE DEF wrapperVars
<1>1. \A q \in Runners : at'[q] = IF q = r THEN place ELSE at[q]
  BY Going DEF BindingInv
<1>2. \A q \in Runners : about'[q] = IF q = r THEN what ELSE about[q]
  BY Going DEF BindingInv
<1>3. /\ \A w : CallsOn(w)' = CallsOn(w)
      /\ \A n : Answered(n)' = Answered(n)
      /\ BeingFreed' = BeingFreed
  BY QuietMove
<1>4. ListsFit' /\ WrappersFit'
  BY DEF BindingInv, ListsFit, WrappersFit
<1>5. FreersFit'
  BY <1>1, <1>2 DEF BindingInv, FreersFit, Busy
<1>6. CallersFit'
  <2>1. ASSUME NEW q \in Runners, at'[q] \in {"calling", "called"}
        PROVE  about'[q] \in Addresses
    BY <1>1, <1>2, <2>1 DEF BindingInv, CallersFit, Busy
  <2>2. \A w \in Addresses : Cardinality(CallsOn(w)') <= refs'[w]
    BY <1>3 DEF BindingInv, CallersFit
  <2>3. QED
    BY <2>1, <2>2 DEF CallersFit
<1>7. AnswersFit'
  BY <1>1, <1>2 DEF BindingInv, AnswersFit, Busy
<1>8. NativesCounted'
  <2>1. \A n : Wrappers(n)' = Wrappers(n)
    BY DEF Wrappers
  <2>2. QED
    BY <1>3, <2>1 DEF BindingInv, NativesCounted
<1>9. SignalsFit'
  BY DEF BindingInv, SignalsFit, Wrappers
<1>10. QED
  BY <1>4, <1>5, <1>6, <1>7, <1>8, <1>9

LEMMA EmissionStays ==
  ASSUME BindingInv, NEW r \in Runners, NEW place, NEW what, Goes(r, place, what),
         place \notin {"loop", "handler"}, UNCHANGED emission
  PROVE  EmissionFits'
<1>1. at'[Loop] = place \/ at'[Loop] = at[Loop]
  BY Going DEF BindingInv, Runners
<1>2. QED
  BY <1>1 DEF BindingInv, EmissionFits

LEMMA CountsStay ==
  ASSUME BindingInv, UNCHANGED <<hung, named, uses, emission>>
  PROVE  CallbacksCounted'
BY DEF BindingInv, CallbacksCounted

\* A thread gets the GIL or lets go of it.
LEMMA GilKeeps ==
  ASSUME BindingInv, gil' \in Runners \cup {Null},
         UNCHANGED <<at, about, requests, wrapperVars, signalVars, emission, wild>>
  PROVE  BindingInv'
<1> USE DEF wrapperVars, signalVars
<1>1. BindingTypeOK'
  BY DEF BindingInv, BindingTypeOK
<1>2. ListsFit' /\ FreersFit' /\ AnswersFit' /\ WrappersFit' /\ SignalsFit' /\ EmissionFits'
  BY DEF BindingInv, ListsFit, FreersFit, AnswersFit, WrappersFit, SignalsFit, Wrappers,
         EmissionFits
<1>3. CallersFit'
  BY DEF BindingInv, CallersFit, CallsOn
<1>4. NativesCounted'
  BY DEF BindingInv, NativesCounted, Wrappers, BeingFreed, Answered
<1>5. CallbacksCounted'
  BY CountsStay
<1>6. QED
  BY <1>1, <1>2, <1>3, <1>4, <1>5 DEF BindingInv

LEMMA AsksForNativeKeeps ==
  ASSUME BindingInv, NEW r \in Runners, AsksForNative(r)
  PROVE  BindingInv'
<1>1. /\ Goes(r, "asking", Null) /\ requests' = requests \cup {r} /\ gil' = Null
      /\ at[r] = "code" /\ UNCHANGED <<wrapperVars, signalVars, emission, wild>>
  BY DEF AsksForNative, WaitForLoop, AllowThreads, Runs
<1>2. BindingTypeOK'
  BY <1>1, GoingType DEF BindingInv, BindingTypeOK, wrapperVars, signalVars, Places
<1>3. /\ ListsFit' /\ FreersFit' /\ CallersFit' /\ AnswersFit' /\ WrappersFit'
      /\ NativesCounted' /\ SignalsFit'
  BY <1>1, QuietStep DEF Busy, signalVars
<1>4. EmissionFits'
  BY <1>1, EmissionStays
<1>5. CallbacksCounted'
  BY <1>1, CountsStay DEF signalVars
<1>6. QED
  BY <1>1, <1>2, <1>3, <1>4, <1>5 DEF BindingInv

LEMMA AskingFailsKeeps ==
  ASSUME BindingInv, NEW r \in Runners, AskingFails(r)
  PROVE  BindingInv'
<1>1. /\ Goes(r, "code", Null) /\ at[r] = "failed" /\ gil' = r
      /\ UNCHANGED <<requests, wrapperVars, signalVars, emission, wild>>
  BY DEF AskingFails
<1>2. BindingTypeOK'
  BY <1>1, GoingType DEF BindingInv, BindingTypeOK, wrapperVars, signalVars, Places
<1>3. /\ ListsFit' /\ FreersFit' /\ CallersFit' /\ AnswersFit' /\ WrappersFit'
      /\ NativesCounted' /\ SignalsFit'
  BY <1>1, QuietStep DEF Busy, signalVars
<1>4. EmissionFits'
  BY <1>1, EmissionStays
<1>5. CallbacksCounted'
  BY <1>1, CountsStay DEF signalVars
<1>6. QED
  BY <1>1, <1>2, <1>3, <1>4, <1>5 DEF BindingInv

LEMMA ServesKeeps ==
  ASSUME BindingInv, NEW r \in Runners, Serves(r)
  PROVE  BindingInv'
<1>1. /\ requests' = requests \ {r}
      /\ UNCHANGED <<gil, pyobject, handle, refs, signalVars, emission, wild>>
  BY DEF Serves
<1>2. CallbacksCounted' /\ ListsFit' /\ WrappersFit' /\ SignalsFit'
  <2>1. CallbacksCounted'
    BY <1>1, CountsStay DEF signalVars
  <2>2. QED
    BY <1>1, <2>1 DEF BindingInv, ListsFit, WrappersFit, SignalsFit, Wrappers, signalVars
<1>3. CASE at[r] = "calling" /\ Goes(r, "called", about[r]) /\ UNCHANGED nativeRefs
  <2>1. \A q \in Runners : at'[q] = IF q = r THEN "called" ELSE at[q]
    BY <1>3, Going DEF BindingInv
  <2>2. \A q \in Runners : about'[q] = about[q]
    BY <1>3, Going DEF BindingInv
  <2>3. BindingTypeOK'
    <3>1. about[r] \in Natives \cup Addresses \cup {Null}
      BY DEF BindingInv, BindingTypeOK
    <3>2. /\ at' \in [Runners -> Places]
          /\ about' \in [Runners -> Natives \cup Addresses \cup {Null}]
      BY <1>3, <3>1, GoingType DEF BindingInv, Places
    <3>3. QED
      BY <1>1, <1>3, <3>2 DEF BindingInv, BindingTypeOK, signalVars, Places
  <2>4. FreersFit'
    BY <1>1, <1>3, <2>1, <2>2 DEF BindingInv, FreersFit
  <2>5. AnswersFit'
    BY <1>3, <2>1, <2>2 DEF BindingInv, AnswersFit
  <2>6. CallersFit'
    <3>1. ASSUME NEW w
          PROVE  CallsOn(w)' = CallsOn(w)
      BY <1>3, <2>1, <2>2 DEF CallsOn
    <3>2. \A q \in Runners : at'[q] \in {"calling", "called"} => about'[q] \in Addresses
      BY <1>3, <2>1, <2>2 DEF BindingInv, CallersFit
    <3>3. \A w \in Addresses : Cardinality(CallsOn(w)') <= refs'[w]
      BY <1>1, <3>1 DEF BindingInv, CallersFit
    <3>4. QED
      BY <3>2, <3>3 DEF CallersFit
  <2>7. NativesCounted'
    <3>1. ASSUME NEW n
          PROVE  Answered(n)' = Answered(n) /\ Wrappers(n)' = Wrappers(n)
      BY <1>1, <1>3, <2>1, <2>2 DEF Answered, Wrappers
    <3>2. {q \in Runners : at'[q] = "free"} = {q \in Runners : at[q] = "free"}
      BY <1>3, <2>1
    <3>3. BeingFreed' = BeingFreed
      BY <2>2, <3>2 DEF BeingFreed
    <3>4. QED
      BY <1>3, <3>1, <3>3 DEF BindingInv, NativesCounted
  <2>8. EmissionFits'
    BY <1>1, <1>3, EmissionStays
  <2>9. QED
    BY <1>1, <1>2, <2>3, <2>4, <2>5, <2>6, <2>7, <2>8 DEF BindingInv
<1>4. CASE at[r] = "asking" /\ Goes(r, "failed", Null) /\ UNCHANGED nativeRefs
  <2>1. BindingTypeOK'
    BY <1>1, <1>4, GoingType DEF BindingInv, BindingTypeOK, signalVars, Places
  <2>2. FreersFit' /\ CallersFit' /\ AnswersFit' /\ NativesCounted'
    BY <1>1, <1>4, QuietStep DEF Busy, signalVars, wrapperVars
  <2>3. EmissionFits'
    BY <1>1, <1>4, EmissionStays
  <2>4. QED
    BY <1>1, <1>2, <2>1, <2>2, <2>3 DEF BindingInv
<1>5. ASSUME NEW n \in Natives, at[r] = "asking", Goes(r, "answered", n),
             nativeRefs' = [nativeRefs EXCEPT ![n] = @ + 1]
      PROVE  BindingInv'
  <2>1. \A q \in Runners : at'[q] = IF q = r THEN "answered" ELSE at[q]
    BY <1>5, Going DEF BindingInv
  <2>2. \A q \in Runners : about'[q] = IF q = r THEN n ELSE about[q]
    BY <1>5, Going DEF BindingInv
  <2>3. BindingTypeOK'
    <3>1. /\ at' \in [Runners -> Places]
          /\ about' \in [Runners -> Natives \cup Addresses \cup {Null}]
      BY <1>5, GoingType DEF BindingInv, Places
    <3>2. nativeRefs' \in [Natives -> Nat]
      BY <1>5 DEF BindingInv, BindingTypeOK
    <3>3. QED
      BY <1>1, <3>1, <3>2 DEF BindingInv, BindingTypeOK, signalVars, Places
  <2>4. FreersFit'
    BY <1>1, <1>5, <2>1, <2>2 DEF BindingInv, FreersFit
  <2>5. AnswersFit'
    BY <1>5, <2>1, <2>2 DEF BindingInv, AnswersFit
  <2>6. CallersFit'
    <3>1. ASSUME NEW w
          PROVE  CallsOn(w)' = CallsOn(w)
      BY <1>5, <2>1, <2>2 DEF CallsOn
    <3>2. \A q \in Runners : at'[q] \in {"calling", "called"} => about'[q] \in Addresses
      BY <1>5, <2>1, <2>2 DEF BindingInv, CallersFit
    <3>3. \A w \in Addresses : Cardinality(CallsOn(w)') <= refs'[w]
      BY <1>1, <3>1 DEF BindingInv, CallersFit
    <3>4. QED
      BY <3>2, <3>3 DEF CallersFit
  <2>7. NativesCounted'
    <3>1. {q \in Runners : at'[q] = "free"} = {q \in Runners : at[q] = "free"}
      BY <1>5, <2>1
    <3>2. \A q \in Runners : at[q] = "free" => about'[q] = about[q]
      BY <1>5, <2>2
    <3>3. BeingFreed' = BeingFreed
      BY <3>1, <3>2 DEF BeingFreed
    <3>4. ASSUME NEW k \in Natives
          PROVE  nativeRefs'[k] = Cardinality((Wrappers(k) \ BeingFreed)')
                                    + Cardinality(Answered(k)')
      <4>1. (Wrappers(k) \ BeingFreed)' = Wrappers(k) \ BeingFreed
        BY <1>1, <3>3 DEF Wrappers
      <4>2. nativeRefs[k] = Cardinality(Wrappers(k) \ BeingFreed) + Cardinality(Answered(k))
        BY DEF BindingInv, NativesCounted
      <4>3. nativeRefs'[k] = IF k = n THEN nativeRefs[k] + 1 ELSE nativeRefs[k]
        BY <1>5 DEF BindingInv, BindingTypeOK
      <4>4. CASE k = n
        <5>1. Answered(k)' = Answered(k) \cup {r} /\ r \notin Answered(k)
          BY <1>5, <2>1, <2>2, <4>4 DEF Answered
        <5>2. Cardinality(Answered(k) \cup {r}) = Cardinality(Answered(k)) + 1
          BY <5>1, SetsAreFinite, FS_AddElement
        <5>3. Cardinality(Wrappers(k) \ BeingFreed) \in Nat /\ Cardinality(Answered(k)) \in Nat
          BY SetsAreFinite
        <5>4. /\ Cardinality((Wrappers(k) \ BeingFreed)') = Cardinality(Wrappers(k) \ BeingFreed)
              /\ Cardinality(Answered(k)') = Cardinality(Answered(k)) + 1
          BY <4>1, <5>1, <5>2
        <5>5. QED
          BY <4>2, <4>3, <4>4, <5>3, <5>4
      <4>5. CASE k # n
        <5>1. Answered(k)' = Answered(k)
          BY <1>5, <2>1, <2>2, <4>5 DEF Answered
        <5>2. QED
          BY <4>1, <4>2, <4>3, <4>5, <5>1
      <4>6. QED
        BY <4>4, <4>5
    <3>5. QED
      BY <3>4 DEF NativesCounted
  <2>8. EmissionFits'
    BY <1>1, <1>5, EmissionStays
  <2>9. QED
    BY <1>1, <1>2, <2>3, <2>4, <2>5, <2>6, <2>7, <2>8 DEF BindingInv
<1>6. QED
  BY <1>3, <1>4, <1>5 DEF Serves

LEMMA CallsNativeKeeps ==
  ASSUME BindingInv, NEW r \in Runners, NEW w \in Addresses, CallsNative(r, w)
  PROVE  BindingInv'
<1>1. /\ Goes(r, "calling", w) /\ requests' = requests \cup {r} /\ gil' = Null
      /\ at[r] = "code" /\ refs[w] > Cardinality(CallsOn(w))
      /\ refs' = [refs EXCEPT ![w] = @ + 1]
      /\ UNCHANGED <<pyobject, nativeRefs, handle, signalVars, emission, wild>>
  BY DEF CallsNative, WaitForLoop, AllowThreads, Runs, HasVariable
<1>2. \A q \in Runners : at'[q] = IF q = r THEN "calling" ELSE at[q]
  BY <1>1, Going DEF BindingInv
<1>3. \A q \in Runners : about'[q] = IF q = r THEN w ELSE about[q]
  BY <1>1, Going DEF BindingInv
<1>4. /\ refs \in [Addresses -> Nat]
      /\ \A a \in Addresses : refs'[a] = IF a = w THEN refs[a] + 1 ELSE refs[a]
  BY <1>1 DEF BindingInv, BindingTypeOK
<1>5. refs[w] > 0
  BY <1>1, <1>4, SetsAreFinite
<1>6. BindingTypeOK'
  <2>1. /\ at' \in [Runners -> Places]
        /\ about' \in [Runners -> Natives \cup Addresses \cup {Null}]
    BY <1>1, GoingType DEF BindingInv, Places
  <2>2. refs' \in [Addresses -> Nat]
    BY <1>1, <1>4
  <2>3. QED
    BY <1>1, <2>1, <2>2 DEF BindingInv, BindingTypeOK, signalVars, Places
<1>7. ListsFit' /\ SignalsFit'
  BY <1>1 DEF BindingInv, ListsFit, SignalsFit, Wrappers, signalVars
<1>8. FreersFit'
  BY <1>1, <1>2, <1>3, <1>4, <1>5 DEF BindingInv, FreersFit
<1>9. AnswersFit'
  BY <1>1, <1>2, <1>3 DEF BindingInv, AnswersFit
<1>10. CallersFit'
  <2>1. \A q \in Runners : at'[q] \in {"calling", "called"} => about'[q] \in Addresses
    BY <1>2, <1>3 DEF BindingInv, CallersFit
  <2>2. ASSUME NEW a \in Addresses
        PROVE  Cardinality(CallsOn(a)') <= refs'[a]
    <3>1. Cardinality(CallsOn(a)) <= refs[a] /\ Cardinality(CallsOn(a)) \in Nat
      BY SetsAreFinite DEF BindingInv, CallersFit
    <3>2. CASE a = w
      <4>1. CallsOn(a)' = CallsOn(a) \cup {r} /\ r \notin CallsOn(a)
        BY <1>1, <1>2, <1>3, <3>2 DEF CallsOn
      <4>2. Cardinality(CallsOn(a) \cup {r}) = Cardinality(CallsOn(a)) + 1
        BY <4>1, SetsAreFinite, FS_AddElement
      <4>3. QED
        BY <1>4, <3>1, <3>2, <4>1, <4>2
    <3>3. CASE a # w
      <4>1. CallsOn(a)' = CallsOn(a)
        BY <1>1, <1>2, <1>3, <3>3 DEF CallsOn
      <4>2. QED
        BY <1>4, <3>1, <3>3, <4>1
    <3>4. QED
      BY <3>2, <3>3
  <2>3. QED
    BY <2>1, <2>2 DEF CallersFit
<1>11. WrappersFit'
  <2>1. pyobject \in [Natives -> Addresses \cup {Null}]
    BY DEF BindingInv, BindingTypeOK
  <2>2. QED
    BY <1>1, <1>4, <1>5, <2>1 DEF BindingInv, WrappersFit, signalVars
<1>12. NativesCounted'
  <2>1. ASSUME NEW n
        PROVE  Answered(n)' = Answered(n) /\ Wrappers(n)' = Wrappers(n)
    BY <1>1, <1>2, <1>3 DEF Answered, Wrappers
  <2>2. {q \in Runners : at'[q] = "free"} = {q \in Runners : at[q] = "free"}
    BY <1>1, <1>2
  <2>3. \A q \in Runners : at[q] = "free" => about'[q] = about[q]
    BY <1>1, <1>3
  <2>4. BeingFreed' = BeingFreed
    BY <2>2, <2>3 DEF BeingFreed
  <2>5. QED
    BY <1>1, <2>1, <2>4 DEF BindingInv, NativesCounted
<1>13. EmissionFits' /\ CallbacksCounted'
  BY <1>1, EmissionStays, CountsStay DEF signalVars
<1>14. QED
  BY <1>1, <1>6, <1>7, <1>8, <1>9, <1>10, <1>11, <1>12, <1>13 DEF BindingInv

-----------------------------------------------------------------------------
(* PyFrida: references that are dropped.                                   *)

LEMMA TermsOfUses ==
  ASSUME BindingInv, NEW c \in Callbacks
  PROVE  /\ Cardinality({c} \cap named) \in Nat
         /\ Occurrences(emission.copy, c) \in Nat
         /\ HungTimes(hung, c) \in Nat
         /\ uses[c] = Cardinality({c} \cap named) + Occurrences(emission.copy, c)
                        + HungTimes(hung, c)
<1>1. IsFiniteSet({c})
  BY FS_Singleton
<1>2. Cardinality({c} \cap named) \in Nat
  BY <1>1, FS_Intersection, FS_CardinalityType
<1>3. emission.copy \in Seq(Callbacks)
  BY DEF BindingInv, BindingTypeOK
<1>4. Occurrences(emission.copy, c) \in Nat
  BY <1>3, OccurrencesNat
<1>5. IsFiniteSet(Slots(hung, c))
  BY SlotsAreFinite
<1>6. HungTimes(hung, c) \in Nat
  BY <1>5, FS_CardinalityType DEF HungTimes
<1>7. QED
  BY <1>2, <1>4, <1>6 DEF BindingInv, CallbacksCounted

\* Py_DECREF of a wrapper by who has a reference: Python code, or a call that returns.
LEMMA UnreferenceKeeps ==
  ASSUME BindingInv, NEW r \in Runners, NEW w \in Addresses, Unreference(r, w),
         \/ at[r] = "code" /\ HasVariable(w)
         \/ at[r] = "called" /\ about[r] = w
  PROVE  BindingInv'
<1>1. /\ refs' = [refs EXCEPT ![w] = @ - 1]
      /\ UNCHANGED <<requests, nativeRefs, handle, named, emission, wild>>
  BY DEF Unreference
<1>2. refs \in [Addresses -> Nat]
  BY DEF BindingInv, BindingTypeOK
<1>3. /\ Cardinality(CallsOn(w)) \in Nat /\ Cardinality(CallsOn(w)) <= refs[w]
      /\ IsFiniteSet(CallsOn(w))
  BY SetsAreFinite DEF BindingInv, CallersFit
<1>4. refs[w] >= 1 /\ Cardinality(CallsOn(w) \ {r}) <= refs[w] - 1
  <2>1. CASE at[r] = "code" /\ HasVariable(w)
    <3>1. CallsOn(w) \ {r} = CallsOn(w)
      BY <2>1 DEF CallsOn
    <3>2. Cardinality(CallsOn(w) \ {r}) = Cardinality(CallsOn(w))
      BY <3>1
    <3>3. refs[w] > Cardinality(CallsOn(w)) /\ refs[w] \in Nat
      BY <1>2, <2>1 DEF HasVariable
    <3>4. QED
      BY <1>3, <3>2, <3>3
  <2>2. CASE at[r] = "called" /\ about[r] = w
    <3>1. r \in CallsOn(w)
      BY <2>2 DEF CallsOn
    <3>2. Cardinality(CallsOn(w) \ {r}) = Cardinality(CallsOn(w)) - 1
      BY <1>3, <3>1, FS_RemoveElement
    <3>3. IsFiniteSet(CallsOn(w) \ {r})
      BY <1>3, FS_RemoveElement
    <3>4. Cardinality(CallsOn(w) \ {r}) \in Nat
      BY <3>3, FS_CardinalityType
    <3>5. QED
      BY <1>2, <1>3, <3>2, <3>4
  <2>3. QED
    BY <2>1, <2>2
<1>5. handle[w] \in Natives /\ pyobject[handle[w]] = w
  BY <1>2, <1>4 DEF BindingInv, WrappersFit
<1>6. /\ refs' \in [Addresses -> Nat] /\ refs'[w] = refs[w] - 1
      /\ \A a \in Addresses \ {w} : refs'[a] = refs[a]
  BY <1>1, <1>2, <1>4
<1>7. ASSUME NEW place \in {"code", "dealloc"}, NEW what, Goes(r, place, what)
      PROVE  /\ CallersFit' /\ AnswersFit' /\ NativesCounted' /\ EmissionFits'
             /\ \A q \in Runners : at'[q] = IF q = r THEN place ELSE at[q]
             /\ \A q \in Runners : about'[q] = IF q = r THEN what ELSE about[q]
  <2>1. \A q \in Runners : at'[q] = IF q = r THEN place ELSE at[q]
    BY <1>7, Going DEF BindingInv
  <2>2. \A q \in Runners : about'[q] = IF q = r THEN what ELSE about[q]
    BY <1>7, Going DEF BindingInv
  <2>3. ASSUME NEW a \in Addresses
        PROVE  Cardinality(CallsOn(a)') <= refs'[a]
    <3>1. CallsOn(a)' = CallsOn(a) \ {r}
      BY <2>1, <2>2 DEF CallsOn
    <3>2. CASE a = w
      BY <1>4, <1>6, <3>1, <3>2
    <3>3. CASE a # w
      <4>1. CallsOn(a) \ {r} = CallsOn(a)
        BY <3>3 DEF CallsOn
      <4>2. Cardinality(CallsOn(a)) <= refs[a]
        BY DEF BindingInv, CallersFit
      <4>3. QED
        BY <1>6, <3>1, <3>3, <4>1, <4>2
    <3>4. QED
      BY <3>2, <3>3
  <2>4. CallersFit'
    <3>1. \A q \in Runners : at'[q] \in {"calling", "called"} => about'[q] \in Addresses
      BY <2>1, <2>2 DEF BindingInv, CallersFit
    <3>2. QED
      BY <2>3, <3>1 DEF CallersFit
  <2>5. AnswersFit'
    BY <2>1, <2>2 DEF BindingInv, AnswersFit
  <2>6. NativesCounted'
    <3>1. ASSUME NEW n
          PROVE  Answered(n)' = Answered(n) /\ Wrappers(n)' = Wrappers(n)
      BY <1>1, <2>1, <2>2 DEF Answered, Wrappers
    <3>2. {q \in Runners : at'[q] = "free"} = {q \in Runners : at[q] = "free"}
      BY <2>1
    <3>3. \A q \in Runners : at[q] = "free" => about'[q] = about[q]
      BY <2>2
    <3>4. BeingFreed' = BeingFreed
      BY <3>2, <3>3 DEF BeingFreed
    <3>5. QED
      BY <1>1, <3>1, <3>4 DEF BindingInv, NativesCounted
  <2>7. EmissionFits'
    BY <1>1, <1>7, EmissionStays
  <2>8. QED
    BY <2>1, <2>2, <2>4, <2>5, <2>6, <2>7
<1>8. CASE refs[w] > 1
  <2>1. /\ Goes(r, "code", Null) /\ gil' = r
        /\ UNCHANGED <<pyobject, hung, connected, uses>>
    BY <1>8 DEF Unreference
  <2>2. /\ CallersFit' /\ AnswersFit' /\ NativesCounted' /\ EmissionFits'
        /\ \A q \in Runners : at'[q] = IF q = r THEN "code" ELSE at[q]
        /\ \A q \in Runners : about'[q] = IF q = r THEN Null ELSE about[q]
    BY <1>7, <2>1
  <2>3. BindingTypeOK'
    <3>1. /\ at' \in [Runners -> Places]
          /\ about' \in [Runners -> Natives \cup Addresses \cup {Null}]
      BY <2>1, GoingType DEF BindingInv, Places
    <3>2. QED
      BY <1>1, <1>6, <2>1, <3>1 DEF BindingInv, BindingTypeOK, Places
  <2>4. ListsFit' /\ SignalsFit'
    BY <1>1, <2>1 DEF BindingInv, ListsFit, SignalsFit, Wrappers
  <2>5. FreersFit'
    BY <1>1, <1>6, <1>8, <2>2 DEF BindingInv, FreersFit
  <2>6. WrappersFit'
    <3>1. pyobject \in [Natives -> Addresses \cup {Null}]
      BY DEF BindingInv, BindingTypeOK
    <3>2. \A a \in Addresses : refs'[a] > 0 <=> refs[a] > 0
      BY <1>2, <1>6, <1>8
    <3>3. QED
      BY <1>1, <2>1, <3>1, <3>2 DEF BindingInv, WrappersFit
  <2>7. CallbacksCounted'
    BY <1>1, <2>1, CountsStay
  <2>8. QED
    BY <1>1, <2>2, <2>3, <2>4, <2>5, <2>6, <2>7 DEF BindingInv
<1>9. CASE ~(refs[w] > 1)
  <2>1. /\ connected' = [connected EXCEPT ![handle[w]] = @ \ {w}]
        /\ uses' = [c \in Callbacks |-> uses[c] - Occurrences(hung[w], c)]
        /\ hung' = [hung EXCEPT ![w] = <<>>]
        /\ pyobject' = [pyobject EXCEPT ![handle[w]] = Null]
        /\ Goes(r, "dealloc", w) /\ gil' = Null
    BY <1>9 DEF Unreference, Unref, ForgetWrapper, AllowThreads
  <2>2. /\ CallersFit' /\ AnswersFit' /\ NativesCounted' /\ EmissionFits'
        /\ \A q \in Runners : at'[q] = IF q = r THEN "dealloc" ELSE at[q]
        /\ \A q \in Runners : about'[q] = IF q = r THEN w ELSE about[q]
    BY <1>7, <2>1
  <2>3. refs[w] = 1 /\ refs'[w] = 0
    BY <1>2, <1>4, <1>6, <1>9
  <2>4. PICK n \in Natives : n = handle[w]
    BY <1>5
  <2>5. hung \in [Addresses -> Seq(Callbacks)] /\ Len(hung[w]) <= MaxHung
    BY DEF BindingInv, BindingTypeOK, ListsFit
  <2>6. ASSUME NEW c \in Callbacks
        PROVE  /\ uses'[c] \in Nat
               /\ uses'[c] = Cardinality({c} \cap named') + Occurrences(emission'.copy, c)
                               + HungTimes(hung', c)
    <3>1. PICK s \in Seq(Callbacks) : s = <<>>
      BY EmptySeq
    <3>2. /\ HungTimes(hung, c) \in Nat /\ HungTimes(hung, c) >= Occurrences(hung[w], c)
          /\ HungTimes(hung', c) = HungTimes(hung, c) - Occurrences(hung[w], c) + Occurrences(s, c)
      <4>1. Len(s) <= MaxHung /\ hung' = [hung EXCEPT ![w] = s]
        BY <2>1, <3>1
      <4>2. Rehung(hung, hung', w, s)
        BY <2>5, <4>1 DEF Rehung
      <4>3. Recounted(hung, hung', w, s, c)
        BY <4>2, HungTimesChange
      <4>4. QED
        BY <4>3 DEF Recounted
    <3>3. HungTimes(hung', c) = HungTimes(hung, c) - Occurrences(hung[w], c)
      <4>1. Occurrences(hung[w], c) \in Nat
        BY <2>5, OccurrencesNat
      <4>2. Occurrences(s, c) = 0
        BY <3>1, NoneOccurs
      <4>3. QED
        BY <3>2, <4>1, <4>2
    <3>4. uses'[c] = uses[c] - Occurrences(hung[w], c)
      BY <2>1
    <3>5. Occurrences(hung[w], c) \in Nat
      BY <2>5, OccurrencesNat
    <3>6. /\ Cardinality({c} \cap named) \in Nat
          /\ Occurrences(emission.copy, c) \in Nat
          /\ uses[c] = Cardinality({c} \cap named) + Occurrences(emission.copy, c)
                        + HungTimes(hung, c)
      BY TermsOfUses
    <3>7. QED
      BY <1>1, <3>2, <3>3, <3>4, <3>5, <3>6
  <2>7. CallbacksCounted'
    BY <2>6 DEF CallbacksCounted
  <2>8. pyobject \in [Natives -> Addresses \cup {Null}]
    BY DEF BindingInv, BindingTypeOK
  <2>9. BindingTypeOK'
    <3>1. /\ at' \in [Runners -> Places]
          /\ about' \in [Runners -> Natives \cup Addresses \cup {Null}]
      BY <2>1, GoingType DEF BindingInv, Places
    <3>2. pyobject' \in [Natives -> Addresses \cup {Null}]
      BY <2>1, <2>8
    <3>3. hung' \in [Addresses -> Seq(Callbacks)]
      BY <2>1, <2>5, EmptySeq
    <3>4. connected' \in [Natives -> SUBSET Addresses]
      BY <2>1 DEF BindingInv, BindingTypeOK
    <3>5. uses' \in [Callbacks -> Nat]
      BY <2>1, <2>6
    <3>6. QED
      BY <1>1, <1>6, <2>1, <3>1, <3>2, <3>3, <3>4, <3>5 DEF BindingInv, BindingTypeOK, Places
  <2>10. ListsFit'
    BY <2>1, <2>5, EmptySeq DEF BindingInv, ListsFit
  <2>11. FreersFit'
    BY <1>1, <1>5, <1>6, <2>2, <2>3 DEF BindingInv, FreersFit
  <2>12. WrappersFit'
    <3>1. ASSUME NEW a \in Addresses, refs'[a] > 0
          PROVE  handle'[a] \in Natives /\ pyobject'[handle'[a]] = a
      <4>1. a # w /\ refs[a] > 0
        BY <1>6, <2>3, <3>1
      <4>2. handle[a] \in Natives /\ pyobject[handle[a]] = a
        BY <4>1 DEF BindingInv, WrappersFit
      <4>3. handle[a] # handle[w]
        BY <1>5, <4>1, <4>2
      <4>4. QED
        BY <1>1, <2>1, <2>8, <4>2, <4>3
    <3>2. ASSUME NEW a \in Addresses, ~(refs'[a] > 0)
          PROVE  hung'[a] = <<>>
      <4>1. CASE a = w
        BY <2>1, <2>5, <4>1
      <4>2. CASE a # w
        <5>1. ~(refs[a] > 0) /\ hung'[a] = hung[a]
          BY <1>6, <2>1, <2>5, <3>2, <4>2
        <5>2. QED
          BY <5>1 DEF BindingInv, WrappersFit
      <4>3. QED
        BY <4>1, <4>2
    <3>3. ASSUME NEW k \in Natives, pyobject'[k] \in Addresses
          PROVE  handle'[pyobject'[k]] = k /\ refs'[pyobject'[k]] > 0
      <4>1. k # handle[w] /\ pyobject'[k] = pyobject[k]
        BY <1>5, <2>1, <2>8, <3>3
      <4>2. handle[pyobject[k]] = k /\ refs[pyobject[k]] > 0
        BY <3>3, <4>1 DEF BindingInv, WrappersFit
      <4>3. pyobject[k] # w
        BY <4>1, <4>2
      <4>4. QED
        BY <1>1, <1>6, <3>3, <4>1, <4>2, <4>3
    <3>4. QED
      BY <3>1, <3>2, <3>3 DEF WrappersFit
  <2>13. SignalsFit'
    <3>1. ASSUME NEW k \in Natives
          PROVE  connected'[k] = {a \in Wrappers(k)' : hung'[a] # <<>>}
      <4>1. connected[k] = {a \in Wrappers(k) : hung[a] # <<>>}
        BY DEF BindingInv, SignalsFit
      <4>2. connected'[k] = connected[k] \ {w}
        <5>1. connected \in [Natives -> SUBSET Addresses]
          BY DEF BindingInv, BindingTypeOK
        <5>2. CASE k = handle[w]
          BY <2>1, <5>1, <5>2
        <5>3. CASE k # handle[w]
          <6>1. w \notin connected[k]
            BY <4>1, <5>3 DEF Wrappers
          <6>2. QED
            BY <2>1, <5>1, <5>3, <6>1
        <5>4. QED
          BY <5>2, <5>3
      <4>3. hung'[w] = <<>> /\ \A a \in Addresses \ {w} : hung'[a] = hung[a]
        BY <2>1, <2>5
      <4>4. QED
        BY <1>1, <4>1, <4>2, <4>3 DEF Wrappers
    <3>2. QED
      BY <3>1 DEF SignalsFit
  <2>14. QED
    BY <1>1, <2>2, <2>7, <2>9, <2>10, <2>11, <2>12, <2>13 DEF BindingInv
<1>10. QED
  BY <1>8, <1>9

LEMMA DropsVariableKeeps ==
  ASSUME BindingInv, NEW r \in Runners, NEW w \in Addresses, DropsVariable(r, w)
  PROVE  BindingInv'
BY UnreferenceKeeps DEF DropsVariable, Runs

LEMMA CallReturnsKeeps ==
  ASSUME BindingInv, NEW r \in Runners, CallReturns(r)
  PROVE  BindingInv'
<1>1. at[r] = "called" /\ about[r] \in Addresses
  BY DEF CallReturns, BindingInv, CallersFit
<1>2. PICK w \in Addresses : w = about[r]
  BY <1>1
<1>3. Unreference(r, w)
  BY <1>2 DEF CallReturns, Unreference, Unref, Goes, ForgetWrapper
<1>4. QED
  BY <1>1, <1>2, <1>3, UnreferenceKeeps

LEMMA DropsNativeKeeps ==
  ASSUME BindingInv, NEW r \in Runners, DropsNative(r)
  PROVE  BindingInv'
<1>1. /\ at[r] = "dealloc" /\ Goes(r, "free", about[r])
      /\ nativeRefs' = [nativeRefs EXCEPT ![handle[about[r]]] = @ - 1]
      /\ UNCHANGED <<gil, requests, pyobject, handle, refs, signalVars, emission, wild>>
  BY DEF DropsNative
<1>2. PICK w \in Addresses : w = about[r]
  BY <1>1 DEF BindingInv, FreersFit
<1>3. handle \in [Addresses -> Natives \cup {Null}] /\ nativeRefs \in [Natives -> Nat]
  BY DEF BindingInv, BindingTypeOK
<1>4. /\ refs[w] = 0 /\ handle[w] # Null
      /\ \A q \in Runners \ {r} : at[q] \in {"dealloc", "free"} => about[q] # w
  BY <1>1, <1>2 DEF BindingInv, FreersFit
<1>5. PICK n \in Natives : n = handle[w]
  BY <1>3, <1>4
<1>6. \A q \in Runners : at'[q] = IF q = r THEN "free" ELSE at[q]
  BY <1>1, Going DEF BindingInv
<1>7. \A q \in Runners : about'[q] = about[q]
  BY <1>1, Going DEF BindingInv
<1>8. \A k \in Natives :
          /\ IsFiniteSet(Wrappers(k) \ BeingFreed) /\ Cardinality(Wrappers(k) \ BeingFreed) \in Nat
          /\ Cardinality(Answered(k)) \in Nat
          /\ nativeRefs[k] = Cardinality(Wrappers(k) \ BeingFreed) + Cardinality(Answered(k))
  BY SetsAreFinite DEF BindingInv, NativesCounted
<1>9. w \notin BeingFreed /\ BeingFreed' = BeingFreed \cup {w}
  <2>1. w \notin BeingFreed
    BY <1>1, <1>4 DEF BeingFreed
  <2>2. {q \in Runners : at'[q] = "free"} = {q \in Runners : at[q] = "free"} \cup {r}
    BY <1>6
  <2>3. BeingFreed' = BeingFreed \cup {w}
    BY <1>2, <1>7, <2>2 DEF BeingFreed
  <2>4. QED
    BY <2>1, <2>3
<1>10. /\ (Wrappers(n) \ BeingFreed)' = (Wrappers(n) \ BeingFreed) \ {w}
       /\ w \in Wrappers(n) \ BeingFreed
       /\ \A k \in Natives \ {n} : (Wrappers(k) \ BeingFreed)' = Wrappers(k) \ BeingFreed
  BY <1>1, <1>5, <1>9 DEF Wrappers
<1>11. \A k : Answered(k)' = Answered(k)
  BY <1>1, <1>6, <1>7 DEF Answered
<1>12. ASSUME NEW k \in Natives
       PROVE  /\ nativeRefs'[k] \in Nat
              /\ nativeRefs'[k] = Cardinality((Wrappers(k) \ BeingFreed)')
                                    + Cardinality(Answered(k)')
  <2>1. CASE k = n
    <3>1. Cardinality((Wrappers(n) \ BeingFreed) \ {w}) = Cardinality(Wrappers(n) \ BeingFreed) - 1
      BY <1>8, <1>10, FS_RemoveElement
    <3>2. IsFiniteSet((Wrappers(n) \ BeingFreed) \ {w})
      BY <1>8, FS_RemoveElement
    <3>3. Cardinality((Wrappers(n) \ BeingFreed) \ {w}) \in Nat
      BY <3>2, FS_CardinalityType
    <3>4. Cardinality((Wrappers(n) \ BeingFreed)') = Cardinality(Wrappers(n) \ BeingFreed) - 1
      BY <1>10, <3>1
    <3>5. nativeRefs'[n] = nativeRefs[n] - 1
      BY <1>1, <1>2, <1>3, <1>5
    <3>6. Cardinality(Wrappers(n) \ BeingFreed) - 1 \in Nat
      BY <3>1, <3>3
    <3>7. Cardinality(Answered(n)') = Cardinality(Answered(n))
      BY <1>11
    <3>8. QED
      BY <1>8, <2>1, <3>4, <3>5, <3>6, <3>7
  <2>2. CASE k # n
    <3>1. nativeRefs'[k] = nativeRefs[k]
      BY <1>1, <1>2, <1>3, <1>5, <2>2
    <3>2. QED
      BY <1>8, <1>10, <1>11, <2>2, <3>1
  <2>3. QED
    BY <2>1, <2>2
<1>13. NativesCounted'
  BY <1>12 DEF NativesCounted
<1>14. BindingTypeOK'
  <2>1. /\ at' \in [Runners -> Places]
        /\ about' \in [Runners -> Natives \cup Addresses \cup {Null}]
    BY <1>1, <1>2, GoingType DEF BindingInv, Places
  <2>2. nativeRefs' \in [Natives -> Nat]
    BY <1>1, <1>3, <1>12
  <2>3. QED
    BY <1>1, <2>1, <2>2 DEF BindingInv, BindingTypeOK, signalVars, Places
<1>15. ListsFit' /\ SignalsFit' /\ WrappersFit'
  BY <1>1 DEF BindingInv, ListsFit, SignalsFit, WrappersFit, Wrappers, signalVars
<1>16. FreersFit'
  BY <1>1, <1>6, <1>7 DEF BindingInv, FreersFit
<1>17. AnswersFit'
  BY <1>6, <1>7 DEF BindingInv, AnswersFit
<1>18. CallersFit'
  <2>1. ASSUME NEW a
        PROVE  CallsOn(a)' = CallsOn(a)
    BY <1>1, <1>6, <1>7 DEF CallsOn
  <2>2. \A q \in Runners : at'[q] \in {"calling", "called"} => about'[q] \in Addresses
    BY <1>6, <1>7 DEF BindingInv, CallersFit
  <2>3. \A a \in Addresses : Cardinality(CallsOn(a)') <= refs'[a]
    BY <1>1, <2>1 DEF BindingInv, CallersFit
  <2>4. QED
    BY <2>2, <2>3 DEF CallersFit
<1>19. EmissionFits' /\ CallbacksCounted'
  BY <1>1, EmissionStays, CountsStay DEF signalVars
<1>20. QED
  BY <1>1, <1>13, <1>14, <1>15, <1>16, <1>17, <1>18, <1>19 DEF BindingInv

LEMMA FreesWrapperKeeps ==
  ASSUME BindingInv, NEW r \in Runners, FreesWrapper(r)
  PROVE  BindingInv'
<1>1. /\ at[r] = "free" /\ gil' = r /\ Goes(r, "code", Null)
      /\ handle' = [handle EXCEPT ![about[r]] = Null]
      /\ UNCHANGED <<requests, pyobject, nativeRefs, refs, signalVars, emission, wild>>
  BY DEF FreesWrapper
<1>2. PICK w \in Addresses : w = about[r]
  BY <1>1 DEF BindingInv, FreersFit
<1>3. handle \in [Addresses -> Natives \cup {Null}]
  BY DEF BindingInv, BindingTypeOK
<1>4. /\ refs[w] = 0 /\ handle[w] # Null
      /\ \A q \in Runners \ {r} : at[q] \in {"dealloc", "free"} => about[q] # w
  BY <1>1, <1>2 DEF BindingInv, FreersFit
<1>5. handle'[w] = Null /\ \A a \in Addresses \ {w} : handle'[a] = handle[a]
  BY <1>1, <1>2, <1>3
<1>6. \A q \in Runners : at'[q] = IF q = r THEN "code" ELSE at[q]
  BY <1>1, Going DEF BindingInv
<1>7. \A q \in Runners : about'[q] = IF q = r THEN Null ELSE about[q]
  BY <1>1, Going DEF BindingInv
<1>8. w \in BeingFreed /\ BeingFreed' = BeingFreed \ {w}
  <2>1. w \in BeingFreed
    BY <1>1, <1>2 DEF BeingFreed
  <2>2. {q \in Runners : at'[q] = "free"} = {q \in Runners : at[q] = "free"} \ {r}
    BY <1>1, <1>6
  <2>3. \A q \in Runners \ {r} : at[q] = "free" => about'[q] = about[q] /\ about[q] # w
    BY <1>4, <1>7
  <2>4. BeingFreed' = BeingFreed \ {w}
    BY <1>2, <2>2, <2>3 DEF BeingFreed
  <2>5. QED
    BY <2>1, <2>4
<1>9. \A k \in Natives : Wrappers(k)' = Wrappers(k) \ {w}
  BY <1>5 DEF Wrappers
<1>10. NativesCounted'
  <2>1. \A k \in Natives : (Wrappers(k) \ BeingFreed)' = Wrappers(k) \ BeingFreed
    BY <1>8, <1>9
  <2>2. \A k : Answered(k)' = Answered(k)
    BY <1>1, <1>6, <1>7 DEF Answered
  <2>3. QED
    BY <1>1, <2>1, <2>2 DEF BindingInv, NativesCounted
<1>11. BindingTypeOK'
  <2>1. /\ at' \in [Runners -> Places]
        /\ about' \in [Runners -> Natives \cup Addresses \cup {Null}]
    BY <1>1, GoingType DEF BindingInv, Places
  <2>2. handle' \in [Addresses -> Natives \cup {Null}]
    BY <1>1, <1>3
  <2>3. QED
    BY <1>1, <2>1, <2>2 DEF BindingInv, BindingTypeOK, signalVars, Places
<1>12. hung[w] = <<>>
  BY <1>4 DEF BindingInv, WrappersFit
<1>13. SignalsFit'
  BY <1>1, <1>9, <1>12 DEF BindingInv, SignalsFit, signalVars
<1>14. WrappersFit'
  <2>1. \A a \in Addresses : refs[a] > 0 => a # w
    BY <1>4
  <2>2. \A a \in Addresses : IF refs'[a] > 0
                             THEN handle'[a] \in Natives /\ pyobject'[handle'[a]] = a
                             ELSE hung'[a] = <<>>
    BY <1>1, <1>5, <2>1 DEF BindingInv, WrappersFit, signalVars
  <2>3. \A k \in Natives : pyobject'[k] \in Addresses =>
            handle'[pyobject'[k]] = k /\ refs'[pyobject'[k]] > 0
    BY <1>1, <1>5, <2>1 DEF BindingInv, WrappersFit
  <2>4. QED
    BY <2>2, <2>3 DEF WrappersFit
<1>15. FreersFit'
  BY <1>1, <1>4, <1>5, <1>6, <1>7 DEF BindingInv, FreersFit
<1>16. AnswersFit' /\ ListsFit'
  BY <1>1, <1>6, <1>7 DEF BindingInv, AnswersFit, ListsFit, signalVars
<1>17. CallersFit'
  <2>1. ASSUME NEW a
        PROVE  CallsOn(a)' = CallsOn(a)
    BY <1>1, <1>6, <1>7 DEF CallsOn
  <2>2. \A q \in Runners : at'[q] \in {"calling", "called"} => about'[q] \in Addresses
    BY <1>6, <1>7 DEF BindingInv, CallersFit
  <2>3. \A a \in Addresses : Cardinality(CallsOn(a)') <= refs'[a]
    BY <1>1, <2>1 DEF BindingInv, CallersFit
  <2>4. QED
    BY <2>2, <2>3 DEF CallersFit
<1>18. EmissionFits' /\ CallbacksCounted'
  BY <1>1, EmissionStays, CountsStay DEF signalVars
<1>19. QED
  BY <1>1, <1>10, <1>11, <1>13, <1>14, <1>15, <1>16, <1>17, <1>18 DEF BindingInv

LEMMA FromHandleKeeps ==
  ASSUME BindingInv, NEW r \in Runners, NEW n \in Natives, FromHandle(r, n)
  PROVE  BindingInv'
<1>1. /\ at[r] = "answered" /\ about[r] = n /\ gil' = r /\ Goes(r, "code", Null)
      /\ UNCHANGED <<requests, signalVars, emission, wild>>
  BY DEF FromHandle
<1>2. \A q \in Runners : at'[q] = IF q = r THEN "code" ELSE at[q]
  BY <1>1, Going DEF BindingInv
<1>3. \A q \in Runners : about'[q] = IF q = r THEN Null ELSE about[q]
  BY <1>1, Going DEF BindingInv
<1>4. /\ handle \in [Addresses -> Natives \cup {Null}] /\ nativeRefs \in [Natives -> Nat]
      /\ refs \in [Addresses -> Nat] /\ pyobject \in [Natives -> Addresses \cup {Null}]
  BY DEF BindingInv, BindingTypeOK
<1>5. BeingFreed' = BeingFreed
  <2>1. {q \in Runners : at'[q] = "free"} = {q \in Runners : at[q] = "free"}
    BY <1>1, <1>2
  <2>2. \A q \in Runners : at[q] = "free" => about'[q] = about[q]
    BY <1>1, <1>3
  <2>3. QED
    BY <2>1, <2>2 DEF BeingFreed
<1>6. /\ r \in Answered(n) /\ Answered(n)' = Answered(n) \ {r}
      /\ \A k \in Natives \ {n} : Answered(k)' = Answered(k)
  BY <1>1, <1>2, <1>3 DEF Answered
<1>7. Cardinality(Answered(n)') = Cardinality(Answered(n)) - 1 /\ Cardinality(Answered(n)) \in Nat
      /\ Cardinality(Answered(n)') \in Nat
  <2>1. IsFiniteSet(Answered(n)) /\ Cardinality(Answered(n)) \in Nat
    BY SetsAreFinite
  <2>2. /\ Cardinality(Answered(n) \ {r}) = Cardinality(Answered(n)) - 1
        /\ IsFiniteSet(Answered(n) \ {r})
    BY <1>6, <2>1, FS_RemoveElement
  <2>3. Cardinality(Answered(n) \ {r}) \in Nat
    BY <2>2, FS_CardinalityType
  <2>4. QED
    BY <1>6, <2>1, <2>2, <2>3
<1>8. \A k \in Natives :
          /\ IsFiniteSet(Wrappers(k) \ BeingFreed) /\ Cardinality(Wrappers(k) \ BeingFreed) \in Nat
          /\ nativeRefs[k] = Cardinality(Wrappers(k) \ BeingFreed) + Cardinality(Answered(k))
  BY SetsAreFinite DEF BindingInv, NativesCounted
<1>9. AnswersFit' /\ ListsFit' /\ CallbacksCounted' /\ EmissionFits'
  <2>1. AnswersFit' /\ ListsFit'
    BY <1>1, <1>2, <1>3 DEF BindingInv, AnswersFit, ListsFit, signalVars
  <2>2. QED
    BY <1>1, <2>1, EmissionStays, CountsStay DEF signalVars
<1>10. \A a : CallsOn(a)' = CallsOn(a)
  BY <1>1, <1>2, <1>3 DEF CallsOn
<1>11. ASSUME \A a \in Addresses : refs'[a] >= refs[a], refs' \in [Addresses -> Nat]
       PROVE  CallersFit'
  <2>1. \A q \in Runners : at'[q] \in {"calling", "called"} => about'[q] \in Addresses
    BY <1>2, <1>3 DEF BindingInv, CallersFit
  <2>2. ASSUME NEW a \in Addresses
        PROVE  Cardinality(CallsOn(a)') <= refs'[a]
    <3>1. Cardinality(CallsOn(a)) <= refs[a] /\ Cardinality(CallsOn(a)) \in Nat
      BY SetsAreFinite DEF BindingInv, CallersFit
    <3>2. Cardinality(CallsOn(a)') = Cardinality(CallsOn(a))
      BY <1>10
    <3>3. refs'[a] >= refs[a] /\ refs'[a] \in Nat /\ refs[a] \in Nat
      BY <1>4, <1>11
    <3>4. QED
      BY <3>1, <3>2, <3>3
  <2>3. QED
    BY <2>1, <2>2 DEF CallersFit
<1>12. /\ at' \in [Runners -> Places]
       /\ about' \in [Runners -> Natives \cup Addresses \cup {Null}]
  BY <1>1, GoingType DEF BindingInv, Places
<1>13. CASE pyobject[n] = Null
  <2>1. PICK w \in Addresses :
            /\ handle[w] = Null /\ handle' = [handle EXCEPT ![w] = n]
            /\ refs' = [refs EXCEPT ![w] = 1]
            /\ pyobject' = [pyobject EXCEPT ![n] = w]
            /\ UNCHANGED nativeRefs
    BY <1>13 DEF FromHandle
  <2>2. refs[w] = 0 /\ hung[w] = <<>>
    BY <1>4, <2>1 DEF BindingInv, WrappersFit
  <2>3. /\ handle'[w] = n /\ refs'[w] = 1 /\ pyobject'[n] = w
        /\ \A a \in Addresses \ {w} : handle'[a] = handle[a] /\ refs'[a] = refs[a]
        /\ \A k \in Natives \ {n} : pyobject'[k] = pyobject[k]
    BY <1>4, <2>1
  <2>4. /\ handle' \in [Addresses -> Natives \cup {Null}] /\ refs' \in [Addresses -> Nat]
        /\ pyobject' \in [Natives -> Addresses \cup {Null}]
    BY <1>4, <2>1
  <2>5. BindingTypeOK'
    BY <1>1, <1>12, <2>1, <2>4 DEF BindingInv, BindingTypeOK, signalVars, Places
  <2>6. CallersFit'
    <3>1. \A a \in Addresses : refs'[a] >= refs[a]
      BY <1>4, <2>2, <2>3
    <3>2. QED
      BY <1>11, <2>4, <3>1
  <2>7. w \notin BeingFreed
    BY <2>1 DEF BindingInv, FreersFit, BeingFreed
  <2>8. FreersFit'
    BY <1>2, <1>3, <2>1, <2>3 DEF BindingInv, FreersFit
  <2>9. WrappersFit'
    <3>1. ASSUME NEW a \in Addresses, refs'[a] > 0
          PROVE  handle'[a] \in Natives /\ pyobject'[handle'[a]] = a
      <4>1. CASE a = w
        BY <2>3, <4>1
      <4>2. CASE a # w
        <5>1. handle[a] \in Natives /\ pyobject[handle[a]] = a
          BY <2>3, <3>1, <4>2 DEF BindingInv, WrappersFit
        <5>2. handle[a] # n
          BY <1>13, <5>1
        <5>3. QED
          BY <2>3, <4>2, <5>1, <5>2
      <4>3. QED
        BY <4>1, <4>2
    <3>2. ASSUME NEW a \in Addresses, ~(refs'[a] > 0)
          PROVE  hung'[a] = <<>>
      <4>1. a # w /\ refs'[a] = refs[a] /\ hung' = hung
        BY <1>1, <2>3, <3>2 DEF signalVars
      <4>2. QED
        BY <3>2, <4>1 DEF BindingInv, WrappersFit
    <3>3. ASSUME NEW k \in Natives, pyobject'[k] \in Addresses
          PROVE  handle'[pyobject'[k]] = k /\ refs'[pyobject'[k]] > 0
      <4>1. CASE k = n
        BY <2>3, <4>1
      <4>2. CASE k # n
        <5>1. handle[pyobject[k]] = k /\ refs[pyobject[k]] > 0 /\ pyobject'[k] = pyobject[k]
          BY <2>3, <3>3, <4>2 DEF BindingInv, WrappersFit
        <5>2. pyobject[k] # w
          BY <2>1, <5>1
        <5>3. QED
          BY <2>3, <3>3, <5>1, <5>2
      <4>3. QED
        BY <4>1, <4>2
    <3>4. QED
      BY <3>1, <3>2, <3>3 DEF WrappersFit
  <2>10. /\ (Wrappers(n) \ BeingFreed)' = (Wrappers(n) \ BeingFreed) \cup {w}
         /\ w \notin Wrappers(n) \ BeingFreed
         /\ \A k \in Natives \ {n} : (Wrappers(k) \ BeingFreed)' = Wrappers(k) \ BeingFreed
    BY <1>5, <2>1, <2>3, <2>7 DEF Wrappers
  <2>11. NativesCounted'
    <3>1. ASSUME NEW k \in Natives
          PROVE  nativeRefs'[k] = Cardinality((Wrappers(k) \ BeingFreed)')
                                    + Cardinality(Answered(k)')
      <4>1. CASE k = n
        <5>1. Cardinality((Wrappers(n) \ BeingFreed) \cup {w})
                  = Cardinality(Wrappers(n) \ BeingFreed) + 1
          BY <1>8, <2>10, FS_AddElement
        <5>2. Cardinality((Wrappers(n) \ BeingFreed)') = Cardinality(Wrappers(n) \ BeingFreed) + 1
          BY <2>10, <5>1
        <5>3. QED
          BY <1>7, <1>8, <2>1, <4>1, <5>2
      <4>2. CASE k # n
        BY <1>6, <1>8, <2>1, <2>10, <4>2
      <4>3. QED
        BY <4>1, <4>2
    <3>2. QED
      BY <3>1 DEF NativesCounted
  <2>12. SignalsFit'
    <3>1. ASSUME NEW k \in Natives
          PROVE  connected'[k] = {a \in Wrappers(k)' : hung'[a] # <<>>}
      <4>1. connected[k] = {a \in Wrappers(k) : hung[a] # <<>>}
        BY DEF BindingInv, SignalsFit
      <4>2. \A a \in Addresses \ {w} : a \in Wrappers(k)' <=> a \in Wrappers(k)
        BY <2>3 DEF Wrappers
      <4>3. \A a : a \in Wrappers(k) \/ a \in Wrappers(k)' => a \in Addresses
        BY DEF Wrappers
      <4>4. connected' = connected /\ hung' = hung
        BY <1>1 DEF signalVars
      <4>5. QED
        BY <2>2, <4>1, <4>2, <4>3, <4>4
    <3>2. QED
      BY <3>1 DEF SignalsFit
  <2>13. QED
    BY <1>1, <1>9, <2>5, <2>6, <2>8, <2>9, <2>11, <2>12 DEF BindingInv
<1>14. CASE pyobject[n] # Null
  <2>1. /\ nativeRefs' = [nativeRefs EXCEPT ![n] = @ - 1]
        /\ refs' = [refs EXCEPT ![pyobject[n]] = @ + 1]
        /\ UNCHANGED <<pyobject, handle>>
    BY <1>14 DEF FromHandle
  <2>2. PICK w \in Addresses : w = pyobject[n]
    BY <1>4, <1>14
  <2>3. refs[w] > 0
    BY <2>2 DEF BindingInv, WrappersFit
  <2>4. /\ refs' \in [Addresses -> Nat] /\ refs'[w] = refs[w] + 1
        /\ \A a \in Addresses \ {w} : refs'[a] = refs[a]
    BY <1>4, <2>1, <2>2
  <2>5. CallersFit'
    <3>1. \A a \in Addresses : refs'[a] >= refs[a]
      BY <1>4, <2>4
    <3>2. QED
      BY <1>11, <2>4, <3>1
  <2>6. FreersFit'
    BY <1>2, <1>3, <2>1, <2>3, <2>4 DEF BindingInv, FreersFit
  <2>7. WrappersFit'
    <3>1. \A a \in Addresses : refs'[a] > 0 <=> refs[a] > 0
      BY <1>4, <2>3, <2>4
    <3>2. QED
      BY <1>1, <1>4, <2>1, <3>1 DEF BindingInv, WrappersFit, signalVars
  <2>8. \A k : (Wrappers(k) \ BeingFreed)' = Wrappers(k) \ BeingFreed
    BY <1>5, <2>1 DEF Wrappers
  <2>9. ASSUME NEW k \in Natives
        PROVE  /\ nativeRefs'[k] \in Nat
               /\ nativeRefs'[k] = Cardinality((Wrappers(k) \ BeingFreed)')
                                    + Cardinality(Answered(k)')
    <3>1. Cardinality((Wrappers(k) \ BeingFreed)') = Cardinality(Wrappers(k) \ BeingFreed)
      BY <2>8
    <3>2. CASE k = n
      <4>1. nativeRefs'[n] = nativeRefs[n] - 1
        BY <1>4, <2>1
      <4>2. QED
        BY <1>7, <1>8, <3>1, <3>2, <4>1
    <3>3. CASE k # n
      <4>1. nativeRefs'[k] = nativeRefs[k] /\ nativeRefs[k] \in Nat
        BY <1>4, <2>1, <3>3
      <4>2. QED
        BY <1>6, <1>8, <3>1, <3>3, <4>1
    <3>4. QED
      BY <3>2, <3>3
  <2>10. NativesCounted'
    BY <2>9 DEF NativesCounted
  <2>11. BindingTypeOK'
    <3>1. nativeRefs' \in [Natives -> Nat]
      BY <1>4, <2>1, <2>9
    <3>2. QED
      BY <1>1, <1>12, <2>1, <2>4, <3>1 DEF BindingInv, BindingTypeOK, signalVars, Places
  <2>12. SignalsFit'
    BY <1>1, <2>1 DEF BindingInv, SignalsFit, Wrappers, signalVars
  <2>13. QED
    BY <1>1, <1>9, <2>5, <2>6, <2>7, <2>10, <2>11, <2>12 DEF BindingInv
<1>15. QED
  BY <1>13, <1>14

-----------------------------------------------------------------------------
(* PyFrida: callbacks.                                                     *)

LEMMA WrappersStay ==
  ASSUME BindingInv, UNCHANGED <<at, about, wrapperVars>>
  PROVE  FreersFit' /\ CallersFit' /\ AnswersFit' /\ NativesCounted'
BY DEF BindingInv, FreersFit, CallersFit, CallsOn, AnswersFit, NativesCounted, Wrappers,
       BeingFreed, Answered, wrapperVars

\* What is hung on a wrapper that is referred to changes, and the signal with it.
LEMMA RehungKeeps ==
  ASSUME BindingInv, NEW w \in Addresses, NEW s \in Seq(Callbacks), Len(s) <= MaxHung,
         refs[w] > 0, hung' = [hung EXCEPT ![w] = s],
         connected' = [connected EXCEPT ![handle[w]] =
                           IF s = <<>> THEN connected[handle[w]] \ {w}
                                       ELSE connected[handle[w]] \cup {w}],
         UNCHANGED <<runVars, wrapperVars, emission>>
  PROVE  /\ ListsFit' /\ FreersFit' /\ CallersFit' /\ AnswersFit' /\ WrappersFit'
         /\ NativesCounted' /\ SignalsFit' /\ EmissionFits'
         /\ hung' \in [Addresses -> Seq(Callbacks)] /\ connected' \in [Natives -> SUBSET Addresses]
<1>1. /\ hung \in [Addresses -> Seq(Callbacks)] /\ connected \in [Natives -> SUBSET Addresses]
      /\ refs \in [Addresses -> Nat] /\ handle \in [Addresses -> Natives \cup {Null}]
  BY DEF BindingInv, BindingTypeOK
<1>2. handle[w] \in Natives
  BY DEF BindingInv, WrappersFit
<1>3. /\ hung' \in [Addresses -> Seq(Callbacks)] /\ hung'[w] = s
      /\ \A a \in Addresses \ {w} : hung'[a] = hung[a]
  BY <1>1
<1>4. FreersFit' /\ CallersFit' /\ AnswersFit' /\ NativesCounted'
  BY WrappersStay DEF runVars
<1>5. ListsFit'
  BY <1>3 DEF BindingInv, ListsFit
<1>6. EmissionFits'
  BY DEF BindingInv, EmissionFits, runVars
<1>7. WrappersFit'
  <2>1. UNCHANGED <<refs, handle, pyobject>>
    BY DEF wrapperVars
  <2>2. \A a \in Addresses : ~(refs[a] > 0) => hung'[a] = <<>>
    BY <1>3 DEF BindingInv, WrappersFit
  <2>3. QED
    BY <2>1, <2>2 DEF BindingInv, WrappersFit
<1>8. SignalsFit'
  <2>1. ASSUME NEW k \in Natives
        PROVE  connected'[k] = {a \in Wrappers(k)' : hung'[a] # <<>>}
    <3>1. connected[k] = {a \in Wrappers(k) : hung[a] # <<>>}
      BY DEF BindingInv, SignalsFit
    <3>2. Wrappers(k)' = Wrappers(k)
      BY DEF Wrappers, wrapperVars
    <3>3. CASE k = handle[w]
      <4>1. w \in Wrappers(k)
        BY <3>3 DEF Wrappers
      <4>2. CASE s = <<>>
        <5>1. connected'[k] = connected[k] \ {w}
          BY <1>1, <1>2, <3>3, <4>2
        <5>2. \A a \in Wrappers(k) : hung'[a] # <<>> <=> hung[a] # <<>> /\ a # w
          BY <1>3, <4>2 DEF Wrappers
        <5>3. QED
          BY <3>1, <3>2, <5>1, <5>2
      <4>3. CASE s # <<>>
        <5>1. connected'[k] = connected[k] \cup {w}
          BY <1>1, <1>2, <3>3, <4>3
        <5>2. \A a \in Wrappers(k) : hung'[a] # <<>> <=> hung[a] # <<>> \/ a = w
          BY <1>3, <4>3 DEF Wrappers
        <5>3. QED
          BY <3>1, <3>2, <4>1, <5>1, <5>2
      <4>4. QED
        BY <4>2, <4>3
    <3>4. CASE k # handle[w]
      <4>1. connected'[k] = connected[k]
        BY <1>1, <3>4
      <4>2. \A a \in Wrappers(k) : hung'[a] = hung[a]
        BY <1>3, <3>4 DEF Wrappers
      <4>3. QED
        BY <3>1, <3>2, <4>1, <4>2
    <3>5. QED
      BY <3>3, <3>4
  <2>2. QED
    BY <2>1 DEF SignalsFit
<1>9. connected' \in [Natives -> SUBSET Addresses]
  BY <1>1, <1>2
<1>10. QED
  BY <1>3, <1>4, <1>5, <1>6, <1>7, <1>8, <1>9

LEMMA HangKeeps ==
  ASSUME BindingInv, NEW r \in Runners, NEW w \in Addresses, NEW c \in Callbacks, Hang(r, w, c)
  PROVE  BindingInv'
<1>1. /\ refs[w] > Cardinality(CallsOn(w)) /\ Len(hung[w]) < MaxHung
      /\ connected' = IF hung[w] = <<>>
                      THEN [connected EXCEPT ![handle[w]] = @ \cup {w}]
                      ELSE connected
      /\ hung' = [hung EXCEPT ![w] = Append(@, c)]
      /\ uses' = [d \in Callbacks |-> uses[d] + Occurrences(<<c>>, d)]
      /\ UNCHANGED <<runVars, wrapperVars, named, emission, wild>>
  BY DEF Hang, HasVariable, Ref
<1>2. /\ hung \in [Addresses -> Seq(Callbacks)] /\ connected \in [Natives -> SUBSET Addresses]
      /\ refs \in [Addresses -> Nat] /\ handle \in [Addresses -> Natives \cup {Null}]
  BY DEF BindingInv, BindingTypeOK
<1>3. refs[w] > 0
  BY <1>1, <1>2, SetsAreFinite
<1>4. handle[w] \in Natives
  BY <1>3 DEF BindingInv, WrappersFit
<1>5. PICK s \in Seq(Callbacks) : s = Append(hung[w], c)
  <2>1. hung[w] \in Seq(Callbacks)
    BY <1>2
  <2>2. Append(hung[w], c) \in Seq(Callbacks)
    BY <2>1, AppendProperties
  <2>3. QED
    BY <2>2
<1>6. Len(s) <= MaxHung /\ s # <<>> /\ hung' = [hung EXCEPT ![w] = s]
  <2>1. Len(s) = Len(hung[w]) + 1 /\ Len(hung[w]) \in Nat
    BY <1>2, <1>5, AppendProperties
  <2>2. s # <<>>
    BY <2>1, EmptySeq
  <2>3. QED
    BY <1>1, <1>5, <2>1, <2>2
<1>7. connected' = [connected EXCEPT ![handle[w]] =
                        IF s = <<>> THEN connected[handle[w]] \ {w}
                                    ELSE connected[handle[w]] \cup {w}]
  <2>1. CASE hung[w] = <<>>
    BY <1>1, <1>6, <2>1
  <2>2. CASE hung[w] # <<>>
    <3>1. w \in connected[handle[w]]
      BY <1>4, <2>2 DEF BindingInv, SignalsFit, Wrappers
    <3>2. connected[handle[w]] \cup {w} = connected[handle[w]]
      BY <3>1
    <3>3. QED
      BY <1>1, <1>2, <1>6, <2>2, <3>2
  <2>3. QED
    BY <2>1, <2>2
<1>8. /\ ListsFit' /\ FreersFit' /\ CallersFit' /\ AnswersFit' /\ WrappersFit'
      /\ NativesCounted' /\ SignalsFit' /\ EmissionFits'
      /\ hung' \in [Addresses -> Seq(Callbacks)] /\ connected' \in [Natives -> SUBSET Addresses]
  BY <1>1, <1>3, <1>6, <1>7, RehungKeeps
<1>9. ASSUME NEW d \in Callbacks
      PROVE  /\ uses'[d] \in Nat
             /\ uses'[d] = Cardinality({d} \cap named') + Occurrences(emission'.copy, d)
                             + HungTimes(hung', d)
  <2>1. Rehung(hung, hung', w, s)
    BY <1>1, <1>2, <1>6 DEF Rehung, BindingInv, ListsFit
  <2>2. Recounted(hung, hung', w, s, d)
    BY <2>1, HungTimesChange
  <2>3. Occurrences(hung[w], d) \in Nat /\ Occurrences(<<c>>, d) \in Nat
    <3>1. Occurrences(hung[w], d) \in Nat
      BY <1>2, OccurrencesNat
    <3>2. Occurrences(<<c>>, d) = IF d = c THEN 1 ELSE 0
      BY OneOccurs
    <3>3. QED
      BY <3>1, <3>2
  <2>4. Occurrences(s, d) = Occurrences(hung[w], d) + Occurrences(<<c>>, d)
    BY <1>2, <1>5, OccurrencesAppend
  <2>5. uses'[d] = uses[d] + Occurrences(<<c>>, d)
    BY <1>1
  <2>6. HungTimes(hung', d) = HungTimes(hung, d) + Occurrences(<<c>>, d)
    <3>1. /\ HungTimes(hung, d) \in Nat
          /\ HungTimes(hung', d) = HungTimes(hung, d) - Occurrences(hung[w], d) + Occurrences(s, d)
      BY <2>2 DEF Recounted
    <3>2. QED
      BY <2>3, <2>4, <3>1
  <2>7. /\ Cardinality({d} \cap named) \in Nat /\ Occurrences(emission.copy, d) \in Nat
        /\ HungTimes(hung, d) \in Nat
        /\ uses[d] = Cardinality({d} \cap named) + Occurrences(emission.copy, d)
                        + HungTimes(hung, d)
    BY TermsOfUses
  <2>8. named' = named /\ emission' = emission
    BY <1>1
  <2>9. QED
    BY <2>3, <2>5, <2>6, <2>7, <2>8
<1>10. CallbacksCounted'
  BY <1>9 DEF CallbacksCounted
<1>11. BindingTypeOK'
  <2>1. uses' \in [Callbacks -> Nat]
    BY <1>1, <1>9
  <2>2. QED
    BY <1>1, <1>8, <2>1 DEF BindingInv, BindingTypeOK, runVars, wrapperVars
<1>12. QED
  BY <1>1, <1>8, <1>10, <1>11 DEF BindingInv

LEMMA TakeOffKeeps ==
  ASSUME BindingInv, NEW r \in Runners, NEW w \in Addresses, NEW c \in Callbacks,
         TakeOff(r, w, c)
  PROVE  BindingInv'
<1>1. /\ refs[w] > Cardinality(CallsOn(w))
      /\ connected' = IF hung'[w] = <<>>
                      THEN [connected EXCEPT ![handle[w]] = @ \ {w}]
                      ELSE connected
      /\ uses' = [d \in Callbacks |-> uses[d] - Occurrences(<<c>>, d)]
      /\ UNCHANGED <<runVars, wrapperVars, named, emission, wild>>
  BY DEF TakeOff, HasVariable, Unref
<1>2. /\ hung \in [Addresses -> Seq(Callbacks)] /\ connected \in [Natives -> SUBSET Addresses]
      /\ refs \in [Addresses -> Nat] /\ handle \in [Addresses -> Natives \cup {Null}]
  BY DEF BindingInv, BindingTypeOK
<1>3. refs[w] > 0
  BY <1>1, <1>2, SetsAreFinite
<1>4. handle[w] \in Natives
  BY <1>3 DEF BindingInv, WrappersFit
<1>5. PICK n \in DOMAIN hung[w] : hung[w][n] = c /\ hung' = [hung EXCEPT ![w] = RemoveAt(@, n)]
  BY DEF TakeOff
<1>6. PICK l \in Seq(Callbacks) : l = hung[w]
  BY <1>2
<1>7. n \in 1..Len(l) /\ l[n] = c /\ Len(l) \in Nat
  BY <1>5, <1>6
<1>8. PICK s \in Seq(Callbacks) : s = RemoveAt(l, n) /\ Len(s) = Len(l) - 1
  BY <1>7, OneCallbackLess
<1>9. /\ Len(s) <= MaxHung /\ hung' = [hung EXCEPT ![w] = s] /\ hung'[w] = s
      /\ Len(hung[w]) <= MaxHung /\ hung[w] # <<>>
  <2>1. Len(hung[w]) <= MaxHung
    BY DEF BindingInv, ListsFit
  <2>2. hung[w] # <<>>
    BY <1>5
  <2>3. hung' = [hung EXCEPT ![w] = s]
    BY <1>5, <1>6, <1>8
  <2>4. QED
    BY <1>2, <1>6, <1>7, <1>8, <2>1, <2>2, <2>3
<1>10. connected' = [connected EXCEPT ![handle[w]] =
                         IF s = <<>> THEN connected[handle[w]] \ {w}
                                     ELSE connected[handle[w]] \cup {w}]
  <2>1. CASE s = <<>>
    BY <1>1, <1>9, <2>1
  <2>2. CASE s # <<>>
    <3>1. w \in connected[handle[w]]
      BY <1>4, <1>9 DEF BindingInv, SignalsFit, Wrappers
    <3>2. connected[handle[w]] \cup {w} = connected[handle[w]]
      BY <3>1
    <3>3. QED
      BY <1>1, <1>2, <1>9, <2>2, <3>2
  <2>3. QED
    BY <2>1, <2>2
<1>11. /\ ListsFit' /\ FreersFit' /\ CallersFit' /\ AnswersFit' /\ WrappersFit'
       /\ NativesCounted' /\ SignalsFit' /\ EmissionFits'
       /\ hung' \in [Addresses -> Seq(Callbacks)] /\ connected' \in [Natives -> SUBSET Addresses]
  BY <1>1, <1>3, <1>9, <1>10, RehungKeeps
<1>12. ASSUME NEW d \in Callbacks
       PROVE  /\ uses'[d] \in Nat
              /\ uses'[d] = Cardinality({d} \cap named') + Occurrences(emission'.copy, d)
                              + HungTimes(hung', d)
  <2>1. Rehung(hung, hung', w, s)
    BY <1>2, <1>9 DEF Rehung
  <2>2. Recounted(hung, hung', w, s, d)
    BY <2>1, HungTimesChange
  <2>3. Occurrences(l, d) \in Nat /\ Occurrences(<<c>>, d) \in Nat /\ Occurrences(s, d) \in Nat
    <3>1. Occurrences(l, d) \in Nat /\ Occurrences(s, d) \in Nat
      BY OccurrencesNat
    <3>2. Occurrences(<<c>>, d) = IF d = c THEN 1 ELSE 0
      BY OneOccurs
    <3>3. QED
      BY <3>1, <3>2
  <2>4. Occurrences(s, d) = Occurrences(l, d) - Occurrences(<<c>>, d)
    BY <1>7, <1>8, OccurrencesRemoveAt
  <2>5. uses'[d] = uses[d] - Occurrences(<<c>>, d)
    BY <1>1
  <2>6. /\ HungTimes(hung', d) = HungTimes(hung, d) - Occurrences(<<c>>, d)
        /\ HungTimes(hung, d) >= Occurrences(<<c>>, d)
    <3>1. /\ HungTimes(hung, d) \in Nat /\ HungTimes(hung, d) >= Occurrences(l, d)
          /\ HungTimes(hung', d) = HungTimes(hung, d) - Occurrences(l, d) + Occurrences(s, d)
      BY <1>6, <2>2 DEF Recounted
    <3>2. QED
      BY <2>3, <2>4, <3>1
  <2>7. /\ Cardinality({d} \cap named) \in Nat /\ Occurrences(emission.copy, d) \in Nat
        /\ HungTimes(hung, d) \in Nat
        /\ uses[d] = Cardinality({d} \cap named) + Occurrences(emission.copy, d)
                        + HungTimes(hung, d)
    BY TermsOfUses
  <2>8. named' = named /\ emission' = emission
    BY <1>1
  <2>9. QED
    BY <2>3, <2>5, <2>6, <2>7, <2>8
<1>13. CallbacksCounted'
  BY <1>12 DEF CallbacksCounted
<1>14. BindingTypeOK'
  <2>1. uses' \in [Callbacks -> Nat]
    BY <1>1, <1>12
  <2>2. QED
    BY <1>1, <1>11, <2>1 DEF BindingInv, BindingTypeOK, runVars, wrapperVars
<1>15. QED
  BY <1>1, <1>11, <1>13, <1>14 DEF BindingInv

LEMMA ForgetsCallbackKeeps ==
  ASSUME BindingInv, NEW r \in Runners, NEW c \in Callbacks, ForgetsCallback(r, c)
  PROVE  BindingInv'
<1>1. /\ c \in named /\ named' = named \ {c}
      /\ uses' = [d \in Callbacks |-> uses[d] - Occurrences(<<c>>, d)]
      /\ UNCHANGED <<runVars, wrapperVars, hung, connected, emission, wild>>
  BY DEF ForgetsCallback, Unref
<1>2. FreersFit' /\ CallersFit' /\ AnswersFit' /\ NativesCounted'
  BY <1>1, WrappersStay DEF runVars
<1>3. ListsFit' /\ WrappersFit' /\ SignalsFit' /\ EmissionFits'
  BY <1>1 DEF BindingInv, ListsFit, WrappersFit, SignalsFit, Wrappers, EmissionFits, runVars,
              wrapperVars
<1>4. ASSUME NEW d \in Callbacks
      PROVE  /\ uses'[d] \in Nat
             /\ uses'[d] = Cardinality({d} \cap named') + Occurrences(emission'.copy, d)
                             + HungTimes(hung', d)
  <2>1. /\ Cardinality({d} \cap named) \in Nat /\ Occurrences(emission.copy, d) \in Nat
        /\ HungTimes(hung, d) \in Nat
        /\ uses[d] = Cardinality({d} \cap named) + Occurrences(emission.copy, d)
                        + HungTimes(hung, d)
    BY TermsOfUses
  <2>2. uses'[d] = uses[d] - Occurrences(<<c>>, d) /\ hung' = hung /\ emission' = emission
    BY <1>1
  <2>3. CASE d = c
    <3>1. {d} \cap named = {d} /\ {d} \cap named' = {}
      BY <1>1, <2>3
    <3>2. Cardinality({d}) = 1 /\ Cardinality({}) = 0
      BY FS_Singleton, FS_EmptySet
    <3>3. Cardinality({d} \cap named) = 1 /\ Cardinality({d} \cap named') = 0
      BY <3>1, <3>2
    <3>4. Occurrences(<<c>>, d) = 1
      BY <2>3, OneOccurs
    <3>5. QED
      BY <2>1, <2>2, <3>3, <3>4
  <2>4. CASE d # c
    <3>1. {d} \cap named' = {d} \cap named
      BY <1>1, <2>4
    <3>2. Occurrences(<<c>>, d) = 0
      BY <2>4, OneOccurs
    <3>3. Cardinality({d} \cap named') = Cardinality({d} \cap named)
      BY <3>1
    <3>4. QED
      BY <2>1, <2>2, <3>2, <3>3
  <2>5. QED
    BY <2>3, <2>4
<1>5. CallbacksCounted'
  BY <1>4 DEF CallbacksCounted
<1>6. BindingTypeOK'
  <2>1. uses' \in [Callbacks -> Nat]
    BY <1>1, <1>4
  <2>2. named' \subseteq Callbacks
    BY <1>1 DEF BindingInv, BindingTypeOK
  <2>3. QED
    BY <1>1, <2>1, <2>2 DEF BindingInv, BindingTypeOK, runVars, wrapperVars
<1>7. QED
  BY <1>1, <1>2, <1>3, <1>5, <1>6 DEF BindingInv

-----------------------------------------------------------------------------
(* PyFrida: the handlers of the signals.                                   *)

LEMMA EmitsKeeps ==
  ASSUME BindingInv, NEW n \in Natives, NEW w \in Addresses, Emits(n, w)
  PROVE  BindingInv'
<1>1. /\ at[Loop] = "loop" /\ Goes(Loop, "handler", Null)
      /\ emission' = [NoEmission EXCEPT !.native = n, !.wrapper = w]
      /\ UNCHANGED <<gil, requests, wrapperVars, signalVars, wild>>
  BY DEF Emits
<1>2. emission = NoEmission
  BY <1>1 DEF BindingInv, EmissionFits
<1>3. /\ emission' = [native |-> n, wrapper |-> w, copy |-> <<>>, next |-> 1]
      /\ emission.copy = <<>>
  BY <1>1, <1>2 DEF NoEmission
<1>4. Loop \in Runners
  BY DEF Runners
<1>5. BindingTypeOK'
  <2>1. emission' \in [native : Natives \cup {Null}, wrapper : Addresses \cup {Null},
                       copy : Seq(Callbacks), next : Nat]
    BY <1>3, EmptySeq
  <2>2. /\ at' \in [Runners -> Places]
        /\ about' \in [Runners -> Natives \cup Addresses \cup {Null}]
    BY <1>1, <1>4, GoingType DEF BindingInv, Places
  <2>3. QED
    BY <1>1, <2>1, <2>2 DEF BindingInv, BindingTypeOK, signalVars, wrapperVars, Places
<1>6. /\ ListsFit' /\ FreersFit' /\ CallersFit' /\ AnswersFit' /\ WrappersFit'
      /\ NativesCounted' /\ SignalsFit'
  BY <1>1, <1>4, QuietStep DEF Busy, signalVars
<1>7. EmissionFits'
  <2>1. at'[Loop] = "handler"
    BY <1>1, <1>4, Going DEF BindingInv
  <2>2. QED
    BY <1>3, <2>1 DEF EmissionFits
<1>8. CallbacksCounted'
  <2>1. emission'.copy = emission.copy
    BY <1>3
  <2>2. UNCHANGED <<hung, named, uses>>
    BY <1>1 DEF signalVars
  <2>3. QED
    BY <2>1, <2>2 DEF BindingInv, CallbacksCounted
<1>9. QED
  BY <1>1, <1>5, <1>6, <1>7, <1>8 DEF BindingInv

LEMMA HandlerBeginsKeeps ==
  ASSUME BindingInv, HandlerBegins
  PROVE  BindingInv'
<1>1. /\ at[Loop] = "handler"
      /\ UNCHANGED <<requests, wrapperVars, hung, connected, named>>
  BY DEF HandlerBegins
<1>2. /\ emission.native \in Natives /\ emission.wrapper \in Addresses /\ emission.copy = <<>>
      /\ emission.next >= 1
  BY <1>1 DEF BindingInv, EmissionFits
<1>3. Loop \in Runners
  BY DEF Runners
<1>4. emission \in [native : Natives \cup {Null}, wrapper : Addresses \cup {Null},
                    copy : Seq(Callbacks), next : Nat]
  BY DEF BindingInv, BindingTypeOK
<1>5. CASE StillWraps(emission.native, emission.wrapper)
  <2>1. PICK w \in Addresses : w = emission.wrapper
    BY <1>2
  <2>2. /\ wild' = (handle[w] # emission.native \/ refs[w] = 0)
        /\ emission' = [emission EXCEPT !.copy = hung[w]]
        /\ uses' = [c \in Callbacks |-> uses[c] + Occurrences(hung[w], c)]
        /\ Goes(Loop, "between", Null) /\ gil' = Loop
    BY <1>5, <2>1 DEF HandlerBegins, Ref
  <2>3. handle[w] = emission.native /\ refs[w] > 0
    BY <1>2, <1>5, <2>1 DEF BindingInv, WrappersFit, StillWraps
  <2>4. ~wild'
    <3>1. ~(handle[w] # emission.native \/ refs[w] = 0)
      BY <2>3
    <3>2. QED
      BY <2>2, <3>1, Zenon
  <2>5. PICK l \in Seq(Callbacks) : l = hung[w]
    BY DEF BindingInv, BindingTypeOK
  <2>6. /\ emission'.copy = l /\ emission'.next = emission.next
        /\ emission' \in [native : Natives \cup {Null}, wrapper : Addresses \cup {Null},
                          copy : Seq(Callbacks), next : Nat]
    BY <1>4, <2>2, <2>5
  <2>7. ASSUME NEW c \in Callbacks
        PROVE  /\ uses'[c] \in Nat
               /\ uses'[c] = Cardinality({c} \cap named') + Occurrences(emission'.copy, c)
                               + HungTimes(hung', c)
    <3>1. Occurrences(l, c) \in Nat
      BY OccurrencesNat
    <3>2. uses'[c] = uses[c] + Occurrences(l, c)
      BY <2>2, <2>5
    <3>3. /\ Cardinality({c} \cap named) \in Nat /\ Occurrences(emission.copy, c) \in Nat
          /\ HungTimes(hung, c) \in Nat
          /\ uses[c] = Cardinality({c} \cap named) + Occurrences(emission.copy, c)
                          + HungTimes(hung, c)
      BY TermsOfUses
    <3>4. Occurrences(emission.copy, c) = 0
      BY <1>2, NoneOccurs
    <3>5. named' = named /\ hung' = hung /\ Occurrences(emission'.copy, c) = Occurrences(l, c)
      BY <1>1, <2>6
    <3>6. QED
      BY <3>1, <3>2, <3>3, <3>4, <3>5
  <2>8. CallbacksCounted'
    BY <2>7 DEF CallbacksCounted
  <2>9. BindingTypeOK'
    <3>1. /\ at' \in [Runners -> Places]
          /\ about' \in [Runners -> Natives \cup Addresses \cup {Null}]
      BY <1>3, <2>2, GoingType DEF BindingInv, Places
    <3>2. uses' \in [Callbacks -> Nat]
      BY <2>2, <2>7
    <3>3. wild' \in BOOLEAN
      BY <2>2
    <3>4. QED
      BY <1>1, <1>3, <2>2, <2>6, <3>1, <3>2, <3>3
         DEF BindingInv, BindingTypeOK, wrapperVars, Places
  <2>10. /\ ListsFit' /\ FreersFit' /\ CallersFit' /\ AnswersFit' /\ WrappersFit'
         /\ NativesCounted' /\ SignalsFit'
    BY <1>1, <1>3, <2>2, QuietStep DEF Busy
  <2>11. EmissionFits'
    <3>1. at'[Loop] = "between"
      BY <1>3, <2>2, Going DEF BindingInv
    <3>2. QED
      BY <1>2, <2>6, <3>1 DEF EmissionFits
  <2>12. QED
    BY <2>4, <2>8, <2>9, <2>10, <2>11 DEF BindingInv
<1>6. CASE ~StillWraps(emission.native, emission.wrapper)
  <2>1. /\ emission' = NoEmission /\ Goes(Loop, "loop", Null) /\ UNCHANGED <<gil, uses, wild>>
    BY <1>6 DEF HandlerBegins
  <2>2. BindingTypeOK'
    <3>1. /\ at' \in [Runners -> Places]
          /\ about' \in [Runners -> Natives \cup Addresses \cup {Null}]
      BY <1>3, <2>1, GoingType DEF BindingInv, Places
    <3>2. emission' \in [native : Natives \cup {Null}, wrapper : Addresses \cup {Null},
                         copy : Seq(Callbacks), next : Nat]
      BY <2>1, EmptySeq DEF NoEmission
    <3>3. QED
      BY <1>1, <2>1, <3>1, <3>2 DEF BindingInv, BindingTypeOK, wrapperVars, Places
  <2>3. /\ ListsFit' /\ FreersFit' /\ CallersFit' /\ AnswersFit' /\ WrappersFit'
        /\ NativesCounted' /\ SignalsFit'
    BY <1>1, <1>3, <2>1, QuietStep DEF Busy
  <2>4. EmissionFits'
    <3>1. at'[Loop] = "loop"
      BY <1>3, <2>1, Going DEF BindingInv
    <3>2. QED
      BY <2>1, <3>1 DEF EmissionFits, NoEmission
  <2>5. CallbacksCounted'
    <3>1. emission'.copy = emission.copy
      BY <1>2, <2>1 DEF NoEmission
    <3>2. QED
      BY <1>1, <2>1, <3>1 DEF BindingInv, CallbacksCounted
  <2>6. QED
    BY <2>1, <2>2, <2>3, <2>4, <2>5 DEF BindingInv
<1>7. QED
  BY <1>5, <1>6

LEMMA CallsCallbackKeeps ==
  ASSUME BindingInv, CallsCallback
  PROVE  BindingInv'
<1>1. /\ at[Loop] = "between" /\ emission.next <= Len(emission.copy)
      /\ wild' = (uses[emission.copy[emission.next]] = 0)
      /\ emission' = [emission EXCEPT !.next = @ + 1]
      /\ Goes(Loop, "code", Null)
      /\ UNCHANGED <<gil, requests, wrapperVars, signalVars>>
  BY DEF CallsCallback
<1>2. Loop \in Runners
  BY DEF Runners
<1>3. /\ emission \in [native : Natives \cup {Null}, wrapper : Addresses \cup {Null},
                       copy : Seq(Callbacks), next : Nat]
      /\ emission.next >= 1
  BY DEF BindingInv, BindingTypeOK, EmissionFits
<1>4. /\ emission'.copy = emission.copy /\ emission'.next = emission.next + 1
      /\ emission' \in [native : Natives \cup {Null}, wrapper : Addresses \cup {Null},
                        copy : Seq(Callbacks), next : Nat]
  BY <1>1, <1>3
<1>5. ~wild'
  <2>1. PICK l \in Seq(Callbacks) : l = emission.copy
    BY <1>3
  <2>2. PICK i \in 1..Len(l) : i = emission.next
    BY <1>1, <1>3, <2>1
  <2>3. PICK c \in Callbacks : c = l[i]
    BY ElementOfSeq
  <2>4. Occurrences(l, c) >= 1
    BY <2>3, WhatIsThereOccurs
  <2>5. /\ Cardinality({c} \cap named) \in Nat /\ Occurrences(l, c) \in Nat
        /\ HungTimes(hung, c) \in Nat
        /\ uses[c] = Cardinality({c} \cap named) + Occurrences(l, c) + HungTimes(hung, c)
    BY <2>1, TermsOfUses
  <2>6. uses[c] # 0
    BY <2>4, <2>5
  <2>7. QED
    BY <1>1, <2>1, <2>2, <2>3, <2>6
<1>6. BindingTypeOK'
  <2>1. /\ at' \in [Runners -> Places]
        /\ about' \in [Runners -> Natives \cup Addresses \cup {Null}]
    BY <1>1, <1>2, GoingType DEF BindingInv, Places
  <2>2. wild' \in BOOLEAN
    BY <1>1
  <2>3. QED
    BY <1>1, <1>4, <2>1, <2>2 DEF BindingInv, BindingTypeOK, wrapperVars, signalVars, Places
<1>7. /\ ListsFit' /\ FreersFit' /\ CallersFit' /\ AnswersFit' /\ WrappersFit'
      /\ NativesCounted' /\ SignalsFit'
  BY <1>1, <1>2, QuietStep DEF Busy, signalVars
<1>8. EmissionFits'
  <2>1. at'[Loop] = "code"
    BY <1>1, <1>2, Going DEF BindingInv
  <2>2. QED
    BY <1>3, <1>4, <2>1 DEF EmissionFits
<1>9. CallbacksCounted'
  BY <1>1, <1>4 DEF BindingInv, CallbacksCounted, signalVars
<1>10. QED
  BY <1>5, <1>6, <1>7, <1>8, <1>9 DEF BindingInv

LEMMA CallbackReturnsKeeps ==
  ASSUME BindingInv, CallbackReturns
  PROVE  BindingInv'
<1>1. /\ at[Loop] = "code" /\ Goes(Loop, "between", Null)
      /\ UNCHANGED <<gil, requests, wrapperVars, signalVars, emission, wild>>
  BY DEF CallbackReturns, Runs
<1>2. Loop \in Runners
  BY DEF Runners
<1>3. BindingTypeOK'
  BY <1>1, <1>2, GoingType DEF BindingInv, BindingTypeOK, wrapperVars, signalVars, Places
<1>4. /\ ListsFit' /\ FreersFit' /\ CallersFit' /\ AnswersFit' /\ WrappersFit'
      /\ NativesCounted' /\ SignalsFit'
  BY <1>1, <1>2, QuietStep DEF Busy, signalVars
<1>5. EmissionFits'
  BY <1>1, <1>2, EmissionStays
<1>6. CallbacksCounted'
  BY <1>1, CountsStay DEF signalVars
<1>7. QED
  BY <1>1, <1>3, <1>4, <1>5, <1>6 DEF BindingInv

LEMMA HandlerEndsKeeps ==
  ASSUME BindingInv, HandlerEnds
  PROVE  BindingInv'
<1>1. /\ at[Loop] = "between" /\ emission' = NoEmission
      /\ uses' = [c \in Callbacks |-> uses[c] - Occurrences(emission.copy, c)]
      /\ Goes(Loop, "loop", Null) /\ gil' = Null
      /\ UNCHANGED <<requests, wrapperVars, hung, connected, named, wild>>
  BY DEF HandlerEnds, Unref
<1>2. Loop \in Runners
  BY DEF Runners
<1>3. emission'.copy = <<>>
  BY <1>1 DEF NoEmission
<1>4. ASSUME NEW c \in Callbacks
      PROVE  /\ uses'[c] \in Nat
             /\ uses'[c] = Cardinality({c} \cap named') + Occurrences(emission'.copy, c)
                             + HungTimes(hung', c)
  <2>1. /\ Cardinality({c} \cap named) \in Nat /\ Occurrences(emission.copy, c) \in Nat
        /\ HungTimes(hung, c) \in Nat
        /\ uses[c] = Cardinality({c} \cap named) + Occurrences(emission.copy, c)
                        + HungTimes(hung, c)
    BY TermsOfUses
  <2>2. Occurrences(emission'.copy, c) = 0
    BY <1>3, NoneOccurs
  <2>3. uses'[c] = uses[c] - Occurrences(emission.copy, c) /\ named' = named /\ hung' = hung
    BY <1>1
  <2>4. QED
    BY <2>1, <2>2, <2>3
<1>5. CallbacksCounted'
  BY <1>4 DEF CallbacksCounted
<1>6. BindingTypeOK'
  <2>1. /\ at' \in [Runners -> Places]
        /\ about' \in [Runners -> Natives \cup Addresses \cup {Null}]
    BY <1>1, <1>2, GoingType DEF BindingInv, Places
  <2>2. emission' \in [native : Natives \cup {Null}, wrapper : Addresses \cup {Null},
                       copy : Seq(Callbacks), next : Nat]
    BY <1>1, EmptySeq DEF NoEmission
  <2>3. uses' \in [Callbacks -> Nat]
    BY <1>1, <1>4
  <2>4. QED
    BY <1>1, <2>1, <2>2, <2>3 DEF BindingInv, BindingTypeOK, wrapperVars, Places
<1>7. /\ ListsFit' /\ FreersFit' /\ CallersFit' /\ AnswersFit' /\ WrappersFit'
      /\ NativesCounted' /\ SignalsFit'
  BY <1>1, <1>2, QuietStep DEF Busy
<1>8. EmissionFits'
  <2>1. at'[Loop] = "loop"
    BY <1>1, <1>2, Going DEF BindingInv
  <2>2. QED
    BY <1>1, <2>1 DEF EmissionFits, NoEmission
<1>9. QED
  BY <1>1, <1>5, <1>6, <1>7, <1>8 DEF BindingInv

-----------------------------------------------------------------------------
(* PyFrida: the theorems.                                                  *)

LEMMA BindingInitInv == BindingInit => BindingInv
<1> SUFFICES ASSUME BindingInit
             PROVE  BindingInv
  OBVIOUS
<1> USE DEF BindingInit
<1>1. <<>> \in Seq(Callbacks) /\ Len(<<>>) = 0
  BY EmptySeq
<1>2. BindingTypeOK
  <2>1. emission \in [native : Natives \cup {Null}, wrapper : Addresses \cup {Null},
                      copy : Seq(Callbacks), next : Nat]
    BY <1>1 DEF NoEmission
  <2>2. hung \in [Addresses -> Seq(Callbacks)]
    BY <1>1
  <2>3. QED
    BY <2>1, <2>2 DEF BindingTypeOK
<1>3. \A r \in Runners : at[r] \in {"loop", "code"}
  OBVIOUS
<1>4. ListsFit
  BY <1>1 DEF ListsFit
<1>5. FreersFit /\ AnswersFit
  BY <1>3 DEF FreersFit, AnswersFit
<1>6. CallersFit
  <2>1. \A w : CallsOn(w) = {}
    BY <1>3 DEF CallsOn
  <2>2. \A w : Cardinality(CallsOn(w)) = 0
    BY <2>1, FS_EmptySet
  <2>3. QED
    BY <1>3, <2>2 DEF CallersFit
<1>7. WrappersFit
  BY DEF WrappersFit
<1>8. NativesCounted
  <2>1. ASSUME NEW n \in Natives
        PROVE  Wrappers(n) \ BeingFreed = {} /\ Answered(n) = {}
    BY <1>3 DEF Wrappers, Answered
  <2>2. ASSUME NEW n \in Natives
        PROVE  nativeRefs[n] = Cardinality(Wrappers(n) \ BeingFreed) + Cardinality(Answered(n))
    <3>1. Cardinality(Wrappers(n) \ BeingFreed) = 0 /\ Cardinality(Answered(n)) = 0
      BY <2>1, FS_EmptySet
    <3>2. QED
      BY <3>1
  <2>3. QED
    BY <2>2 DEF NativesCounted
<1>9. SignalsFit
  BY DEF SignalsFit, Wrappers
<1>10. CallbacksCounted
  <2>1. ASSUME NEW c \in Callbacks
        PROVE  uses[c] = Cardinality({c} \cap named) + Occurrences(emission.copy, c)
                           + HungTimes(hung, c)
    <3>1. Cardinality({c} \cap named) = 1
      <4>1. {c} \cap named = {c}
        OBVIOUS
      <4>2. Cardinality({c}) = 1
        BY FS_Singleton
      <4>3. QED
        BY <4>1, <4>2
    <3>2. Occurrences(emission.copy, c) = 0
      <4>1. emission.copy = <<>>
        BY DEF NoEmission
      <4>2. QED
        BY <4>1, NoneOccurs
    <3>3. HungTimes(hung, c) = 0
      <4>1. Slots(hung, c) = {}
        BY DEF Slots
      <4>2. QED
        BY <4>1, FS_EmptySet DEF HungTimes
    <3>4. uses[c] = 1
      OBVIOUS
    <3>5. QED
      BY <3>1, <3>2, <3>3, <3>4
  <2>2. QED
    BY <2>1 DEF CallbacksCounted
<1>11. EmissionFits
  BY DEF EmissionFits, NoEmission, Runners
<1>12. QED
  BY <1>2, <1>4, <1>5, <1>6, <1>7, <1>8, <1>9, <1>10, <1>11 DEF BindingInv

LEMMA BindingNextKeeps ==
  ASSUME BindingInv, [BindingNext]_bindingVars
  PROVE  BindingInv'
<1>1. ASSUME NEW r \in Runners, Resumes(r) \/ GivesWay(r)
      PROVE  BindingInv'
  <2>1. /\ gil' \in Runners \cup {Null}
        /\ UNCHANGED <<at, about, requests, wrapperVars, signalVars, emission, wild>>
    BY <1>1 DEF Resumes, GivesWay
  <2>2. QED
    BY <2>1, GilKeeps
<1>2. ASSUME NEW r \in Runners, GoesOn(r)
      PROVE  BindingInv'
  BY <1>2, DropsNativeKeeps, FreesWrapperKeeps, CallReturnsKeeps, AskingFailsKeeps,
     FromHandleKeeps DEF GoesOn
<1>3. ASSUME NEW r \in Runners, PythonRuns(r)
      PROVE  BindingInv'
  BY <1>3, AsksForNativeKeeps, DropsVariableKeeps, CallsNativeKeeps, HangKeeps, TakeOffKeeps,
     ForgetsCallbackKeeps DEF PythonRuns
<1>4. ASSUME NEW r \in Runners, Serves(r)
      PROVE  BindingInv'
  BY <1>4, ServesKeeps
<1>5. ASSUME NEW n \in Natives, NEW w \in Addresses, Emits(n, w)
      PROVE  BindingInv'
  BY <1>5, EmitsKeeps
<1>6. CASE HandlerRuns \/ CallbackReturns
  BY <1>6, HandlerBeginsKeeps, CallsCallbackKeeps, HandlerEndsKeeps, CallbackReturnsKeeps
     DEF HandlerRuns
<1>7. CASE UNCHANGED bindingVars
  BY <1>7, GilKeeps DEF bindingVars, runVars, BindingInv, BindingTypeOK
<1>8. QED
  BY <1>1, <1>2, <1>3, <1>4, <1>5, <1>6, <1>7 DEF BindingNext

LEMMA BindingInvHolds == BindingSpec => []BindingInv
<1>1. BindingInv /\ [BindingNext]_bindingVars => BindingInv'
  BY BindingNextKeeps
<1>2. QED
  BY BindingInitInv, <1>1, PTL DEF BindingSpec

\* The state of pyfrida.c's wrappers is always of its type; no count of references
\* goes below zero.
THEOREM BindingTypeCorrect == BindingSpec => []BindingTypeOK
<1>1. BindingInv => BindingTypeOK
  BY DEF BindingInv
<1>2. QED
  BY BindingInvHolds, <1>1, PTL

\* Whatever Python's threads and the main loop's do, and in whatever order they have the
\* GIL: the handlers of "closed" and "message" touch nothing that was freed, there is one
\* wrapper for a native, and the references to natives and to callbacks are counted right.
THEOREM NoDanglingWrapper == BindingSpec => []WrappersAreTheirNatives
<1>1. ASSUME BindingInv
      PROVE  WrappersAreTheirNatives
  <2>1. ~wild
    BY <1>1 DEF BindingInv
  <2>2. ASSUME NEW n \in Natives
        PROVE  {w \in Wrappers(n) : refs[w] > 0} = {pyobject[n]} \ {Null}
    <3>1. pyobject[n] \in Addresses \cup {Null} /\ refs \in [Addresses -> Nat]
      BY <1>1 DEF BindingInv, BindingTypeOK
    <3>2. \A w \in Wrappers(n) : refs[w] > 0 => w = pyobject[n]
      BY <1>1 DEF BindingInv, WrappersFit, Wrappers
    <3>3. pyobject[n] \in Addresses => pyobject[n] \in Wrappers(n) /\ refs[pyobject[n]] > 0
      BY <1>1 DEF BindingInv, WrappersFit, Wrappers
    <3>4. \A w \in Wrappers(n) : w # Null
      BY DEF Wrappers
    <3>5. QED
      BY <3>1, <3>2, <3>3, <3>4
  <2>3. ASSUME NEW n \in Natives
        PROVE  /\ nativeRefs[n] = Cardinality(Wrappers(n) \ BeingFreed) + Cardinality(Answered(n))
               /\ connected[n] = {w \in Wrappers(n) : hung[w] # <<>>}
    BY <1>1 DEF BindingInv, NativesCounted, SignalsFit
  <2>4. ASSUME NEW c \in Callbacks
        PROVE  uses[c] = Cardinality({c} \cap named) + Occurrences(emission.copy, c) +
                  Cardinality({x \in Addresses \X (1..MaxHung) :
                                  x[2] \in DOMAIN hung[x[1]] /\ hung[x[1]][x[2]] = c})
    BY <1>1 DEF BindingInv, CallbacksCounted, HungTimes, Slots
  <2>5. QED
    BY <2>1, <2>2, <2>3, <2>4 DEF WrappersAreTheirNatives
<1>2. QED
  BY BindingInvHolds, <1>1, PTL
=============================================================================
