------------------------- MODULE RightsRefresh_proofs -------------------------
(***************************************************************************)
(* Proofs about RightsRefresh for every number of sessions, users,         *)
(* processes, files, kernel threads and policy versions: its safety        *)
(* properties, and that a policy reaches the sessions.                     *)
(***************************************************************************)
EXTENDS RightsRefresh, TLAPS

-----------------------------------------------------------------------------
(* Types of what the actions assign *)

LEMMA BundleForType ==
    ASSUME NEW v \in 0..MaxPolicy, NEW u \in Users \cup {NoUser}
    PROVE  BundleFor(v, u) \in Bundles
BY ConstantsOK DEF BundleFor, Bundles, EmptyBundle

LEMMA UserOfType ==
    ASSUME TypeOK, NEW s \in Sessions
    PROVE  UserOf(s) \in Users \cup {NoUser}
BY DEF TypeOK, UserOf

\* What the actions do to a call: each field but those named stays.
LEMMA CallLate ==
    ASSUME NEW c \in Calls, NEW l \in BOOLEAN
    PROVE  /\ [c EXCEPT !.late = l] \in Calls
           /\ [c EXCEPT !.late = l].pc = c.pc /\ [c EXCEPT !.late = l].proc = c.proc
           /\ [c EXCEPT !.late = l].file = c.file /\ [c EXCEPT !.late = l].user = c.user
           /\ [c EXCEPT !.late = l].dec = c.dec /\ [c EXCEPT !.late = l].late = l
BY DEF Calls

LEMMA CallPC ==
    ASSUME NEW c \in Calls, NEW x \in {"found", "subject"}
    PROVE  /\ [c EXCEPT !.pc = x] \in Calls
           /\ [c EXCEPT !.pc = x].pc = x /\ [c EXCEPT !.pc = x].proc = c.proc
           /\ [c EXCEPT !.pc = x].file = c.file /\ [c EXCEPT !.pc = x].user = c.user
           /\ [c EXCEPT !.pc = x].dec = c.dec /\ [c EXCEPT !.pc = x].late = c.late
BY DEF Calls

LEMMA ReadUserCall ==
    ASSUME TypeInv, NEW r \in Requests, ServReadUser(r)
    PROVE  /\ req' \in [Requests -> Calls]
           /\ req'[r].pc = "evaluate" /\ req'[r].proc = req[r].proc
           /\ req'[r].file = req[r].file /\ req'[r].late = req[r].late
           /\ req'[r].user = UserOf(SessionOf[req[r].proc])
           /\ \A q \in Requests \ {r} : req'[q] = req[q]
<1> DEFINE u == UserOf(SessionOf[req[r].proc])
<1>1. u \in Users \cup {NoUser}
  BY ConstantsOK, UserOfType DEF TypeInv, TypeOK, CallsOK, InFlight, ServReadUser
<1> HIDE DEF u
<1>2. req' = [req EXCEPT ![r] = [req[r] EXCEPT !.pc = "evaluate", !.user = u]]
  BY DEF ServReadUser, u
<1>3. req[r] \in Calls /\ req \in [Requests -> Calls]
  BY DEF TypeInv, TypeOK
<1>4. [req[r] EXCEPT !.pc = "evaluate", !.user = u] \in Calls
  BY <1>1, <1>3 DEF Calls
<1> QED
  BY <1>1, <1>2, <1>3, <1>4 DEF Calls, u

LEMMA DecideCall ==
    ASSUME TypeInv, NEW r \in Requests, NEW d \in Decisions, req[r].pc = "evaluate",
           req' = [req EXCEPT ![r] = [req[r] EXCEPT !.pc = "insert", !.dec = d]]
    PROVE  /\ req' \in [Requests -> Calls]
           /\ req'[r].pc = "insert" /\ req'[r].proc = req[r].proc
           /\ req'[r].file = req[r].file /\ req'[r].late = req[r].late
           /\ req'[r].dec = d
           /\ \A q \in Requests \ {r} : req'[q] = req[q]
<1>1. req[r] \in Calls /\ req \in [Requests -> Calls]
  BY DEF TypeInv, TypeOK
<1>2. [req[r] EXCEPT !.pc = "insert", !.dec = d] \in Calls
  BY <1>1 DEF Calls
<1> QED
  BY <1>1, <1>2 DEF Calls

LEMMA EvaluateCall ==
    ASSUME TypeInv, NEW r \in Requests, ServEvaluate(r)
    PROVE  LET s == SessionOf[req[r].proc]
               d == IF LoggedOn(s) THEN [user |-> req[r].user, bundle |-> bundle[s]]
                                   ELSE NoRights
           IN /\ d \in Decisions
              /\ req' = [req EXCEPT ![r] = [req[r] EXCEPT !.pc = "insert", !.dec = d]]
<1>1. SessionOf[req[r].proc] \in Sessions /\ req[r].user \in Users \cup {NoUser}
  BY ConstantsOK DEF TypeInv, TypeOK, CallsOK, InFlight, ServEvaluate, Calls
<1>2. bundle[SessionOf[req[r].proc]] \in Bundles
  BY <1>1 DEF TypeInv, TypeOK
<1> QED
  BY <1>1, <1>2 DEF ServEvaluate, Decisions

LEMMA FailCall ==
    ASSUME TypeInv, NEW r \in Requests, ServFails(r)
    PROVE  /\ NoRights \in Decisions
           /\ req' = [req EXCEPT ![r] = [req[r] EXCEPT !.pc = "insert", !.dec = NoRights]]
BY DEF ServFails, Decisions

LEMMA PurgeAllCalls ==
    ASSUME TypeInv, PurgeAll
    PROVE  /\ req' \in [Requests -> Calls]
           /\ rights' = [p \in Procs |-> [f \in Files |-> NoEntry]]
           /\ \A r \in Requests :
                /\ req'[r].pc = req[r].pc /\ req'[r].proc = req[r].proc
                /\ req'[r].file = req[r].file /\ req'[r].user = req[r].user
                /\ req'[r].dec = req[r].dec
                /\ req'[r].late = (req[r].late \/ Decided(r))
<1>1. ASSUME NEW r \in Requests
      PROVE  req[r] \in Calls /\ (req[r].late \/ Decided(r)) \in BOOLEAN
  BY DEF TypeInv, TypeOK, Decided, Calls
<1>2. ASSUME NEW r \in Requests
      PROVE  req'[r] = [req[r] EXCEPT !.late = req[r].late \/ Decided(r)]
  BY DEF PurgeAll
<1>3. req' \in [Requests -> Calls]
  <2>1. \A r \in Requests : [req[r] EXCEPT !.late = req[r].late \/ Decided(r)] \in Calls
    BY <1>1, CallLate
  <2> QED
    BY <2>1 DEF PurgeAll
<1>4. ASSUME NEW r \in Requests
      PROVE  /\ req'[r].pc = req[r].pc /\ req'[r].proc = req[r].proc
             /\ req'[r].file = req[r].file /\ req'[r].user = req[r].user
             /\ req'[r].dec = req[r].dec
             /\ req'[r].late = (req[r].late \/ Decided(r))
  <2> DEFINE l == req[r].late \/ Decided(r)
  <2>1. req[r] \in Calls /\ l \in BOOLEAN /\ req'[r] = [req[r] EXCEPT !.late = l]
    BY <1>1, <1>2
  <2> HIDE DEF l
  <2>2. /\ req'[r].pc = req[r].pc /\ req'[r].proc = req[r].proc
        /\ req'[r].file = req[r].file /\ req'[r].user = req[r].user
        /\ req'[r].dec = req[r].dec /\ req'[r].late = l
    BY <2>1, CallLate
  <2> QED
    BY <2>2 DEF l
<1> QED
  BY <1>3, <1>4 DEF PurgeAll

LEMMA SetBundleType ==
    ASSUME TypeOK, NEW s \in Sessions, SetSessionPolicyBundle(s)
    PROVE  /\ bundle' \in [Sessions -> Bundles]
           /\ synced' \in [Sessions -> BOOLEAN]
           /\ crossed' \in [Sessions -> BOOLEAN]
<1>1. BundleFor(policy, UserOf(s)) \in Bundles
  BY UserOfType, BundleForType DEF TypeOK
<1> QED
  BY <1>1 DEF SetSessionPolicyBundle, TypeOK

LEMMA IdleType == Idle \in Calls
BY DEF Idle, Decisions, Calls

-----------------------------------------------------------------------------
(* Type correctness *)

LEMMA TypeInit == Init => TypeInv
<1> SUFFICES ASSUME Init PROVE TypeInv
  OBVIOUS
<1>1. EmptyBundle \in Bundles
  BY ConstantsOK DEF EmptyBundle, Bundles
<1>2. TypeOK
  BY <1>1, ConstantsOK, IdleType DEF Init, TypeOK, Phases, AtRest
<1>3. CallsOK /\ ControlOK
  BY DEF Init, CallsOK, ControlOK, InFlight, Idle, AtRest
<1> QED
  BY <1>2, <1>3 DEF TypeInv

LEMMA TypeStep == TypeInv /\ [Next]_vars => TypeInv'
<1> SUFFICES ASSUME TypeInv, [Next]_vars PROVE TypeInv'
  OBVIOUS
<1> USE ConstantsOK DEF Threads, AtRest
<1>1. CASE HeartbeatLoad
  BY <1>1 DEF HeartbeatLoad, TypeInv, TypeOK, CallsOK, ControlOK, InFlight
<1>2. CASE HeartbeatPurge
  <2>1. TypeOK'
    BY <1>2, PurgeAllCalls DEF HeartbeatPurge, TypeInv, TypeOK, LoggedOn, service
  <2>2. CallsOK' /\ ControlOK'
    BY <1>2, PurgeAllCalls DEF HeartbeatPurge, TypeInv, TypeOK, CallsOK, ControlOK, InFlight, service
  <2> QED
    BY <2>1, <2>2 DEF TypeInv
<1>3. CASE HeartbeatCopy
  BY <1>3 DEF HeartbeatCopy, TypeInv, TypeOK, CallsOK, ControlOK, InFlight, service
<1>4. ASSUME NEW s \in Sessions, HeartbeatPush(s) PROVE TypeInv'
  BY <1>4, SetBundleType DEF HeartbeatPush, TypeInv, TypeOK, CallsOK, ControlOK, InFlight
<1>5. CASE HeartbeatDone
  BY <1>5 DEF HeartbeatDone, TypeInv, TypeOK, CallsOK, ControlOK, InFlight, service
<1>6. ASSUME NEW t \in Threads, NEW s \in Sessions, LogoffPurge(t, s) PROVE TypeInv'
  <2>1. /\ UNCHANGED <<service, hb, synced, crossed>> /\ PurgeAll
        /\ ctl' = [ctl EXCEPT ![t] = [pc |-> "clearToken", sid |-> s]]
        /\ phase[s] \in {"loaded", "running", "removed"}
    BY <1>6 DEF LogoffPurge
  <2>2. TypeOK'
    BY <2>1, PurgeAllCalls DEF TypeInv, TypeOK, service
  <2>3. CallsOK' /\ ControlOK'
    BY <2>1, PurgeAllCalls DEF TypeInv, TypeOK, CallsOK, ControlOK, InFlight, service
  <2> QED
    BY <2>2, <2>3 DEF TypeInv
<1>7. ASSUME NEW t \in Threads, LogoffClearToken(t) PROVE TypeInv'
  BY <1>7 DEF LogoffClearToken, TypeInv, TypeOK, CallsOK, ControlOK, InFlight
<1>8. ASSUME NEW t \in Threads, LogoffClearBundle(t) PROVE TypeInv'
  BY <1>8 DEF LogoffClearBundle, TypeInv, TypeOK, CallsOK, ControlOK, InFlight, EmptyBundle, Bundles
<1>9. ASSUME NEW s \in Sessions, LogonBegin(s) PROVE TypeInv'
  BY <1>9 DEF LogonBegin, TypeInv, TypeOK, CallsOK, ControlOK, InFlight, service
<1>10. CASE LogonRefused
  BY <1>10 DEF LogonRefused, TypeInv, TypeOK, CallsOK, ControlOK, InFlight, service
<1>11. ASSUME NEW u \in Users, LogonToken(u) PROVE TypeInv'
  BY <1>11 DEF LogonToken, TypeInv, TypeOK, CallsOK, ControlOK, InFlight
<1>12. CASE LogonBundle
  BY <1>12, SetBundleType DEF LogonBundle, TypeInv, TypeOK, CallsOK, ControlOK, InFlight
<1>13. CASE LogonPurge
  <2>0. synced' \in [Sessions -> BOOLEAN]
    <3> DEFINE b == LoggedOn(ctl[Pipe].sid)
    <3>1. b \in BOOLEAN
      BY DEF LoggedOn
    <3>2. synced' = [synced EXCEPT ![ctl[Pipe].sid] = b] /\ synced \in [Sessions -> BOOLEAN]
      BY <1>13 DEF LogonPurge, TypeInv, TypeOK
    <3> HIDE DEF b
    <3> QED
      BY <3>1, <3>2
  <2>1. TypeOK'
    <3>1. /\ UNCHANGED <<service, hb, crossed>> /\ ctl' = [ctl EXCEPT ![Pipe] = AtRest]
          /\ PurgeAll
      BY <1>13 DEF LogonPurge
    <3> QED
      BY <2>0, <3>1, PurgeAllCalls DEF TypeInv, TypeOK, service
  <2>2. CallsOK' /\ ControlOK'
    BY <1>13, PurgeAllCalls DEF LogonPurge, TypeInv, TypeOK, CallsOK, ControlOK, InFlight, service
  <2> QED
    BY <2>1, <2>2 DEF TypeInv
<1>14. ASSUME NEW s \in Sessions, SessionAdd(s) PROVE TypeInv'
  BY <1>14 DEF SessionAdd, TypeInv, TypeOK, CallsOK, ControlOK, InFlight, Phases
<1>15. ASSUME NEW s \in Sessions, NEW u \in Users \cup {NoUser}, SessionLoadProfile(s, u)
       PROVE TypeInv'
  BY <1>15 DEF SessionLoadProfile, TypeInv, TypeOK, CallsOK, ControlOK, InFlight, Phases
<1>16. ASSUME NEW s \in Sessions, SessionLoadBundle(s) PROVE TypeInv'
  BY <1>16, SetBundleType DEF SessionLoadBundle, TypeInv, TypeOK, CallsOK, ControlOK, InFlight, Phases
<1>17. ASSUME NEW s \in Sessions, SessionRemove(s) PROVE TypeInv'
  BY <1>17 DEF SessionRemove, TypeInv, TypeOK, CallsOK, ControlOK, InFlight, Phases
<1>18. ASSUME NEW s \in Sessions, SessionStop(s) PROVE TypeInv'
  BY <1>18 DEF SessionStop, TypeInv, TypeOK, CallsOK, ControlOK, InFlight, Phases
<1>19. ASSUME NEW r \in Requests, NEW p \in Procs, NEW f \in Files, CheckSend(r, p, f)
       PROVE TypeInv'
  BY <1>19, IdleType DEF CheckSend, TypeInv, TypeOK, CallsOK, ControlOK, InFlight, Idle, Calls, service
<1>20. ASSUME NEW r \in Requests, ServFindSession(r) PROVE TypeInv'
  BY <1>20, IdleType DEF ServFindSession, TypeInv, TypeOK, CallsOK, ControlOK, InFlight, Idle, Calls, service
<1>21. ASSUME NEW r \in Requests, ServCheckLogon(r) PROVE TypeInv'
  BY <1>21, IdleType DEF ServCheckLogon, TypeInv, TypeOK, CallsOK, ControlOK, InFlight, Idle, Calls, service
<1>22. ASSUME NEW r \in Requests, ServReadUser(r) PROVE TypeInv'
  BY <1>22, ReadUserCall DEF ServReadUser, TypeInv, TypeOK, CallsOK, ControlOK, InFlight, service
<1>23. ASSUME NEW r \in Requests, ServEvaluate(r) PROVE TypeInv'
  BY <1>23, EvaluateCall, DecideCall DEF ServEvaluate, TypeInv, TypeOK, CallsOK, ControlOK, InFlight, service
<1>24. ASSUME NEW r \in Requests, ServFails(r) PROVE TypeInv'
  BY <1>24, FailCall, DecideCall DEF ServFails, TypeInv, TypeOK, CallsOK, ControlOK, InFlight, service
<1>25. ASSUME NEW r \in Requests, CheckInsert(r) PROVE TypeInv'
  BY <1>25, IdleType DEF CheckInsert, TypeInv, TypeOK, CallsOK, ControlOK, InFlight, Idle, Calls, Entries, service
<1>26. ASSUME NEW r \in Requests, CheckWithoutCaching(r) PROVE TypeInv'
  BY <1>26, IdleType DEF CheckWithoutCaching, TypeInv, TypeOK, CallsOK, ControlOK, InFlight, Idle, service
<1>27. ASSUME NEW f \in Files, PurgeFile(f) PROVE TypeInv'
  BY <1>27 DEF PurgeFile, TypeInv, TypeOK, CallsOK, ControlOK, InFlight, service
<1>28. ASSUME NEW p \in Procs, ProcessExit(p) PROVE TypeInv'
  BY <1>28 DEF ProcessExit, TypeInv, TypeOK, CallsOK, ControlOK, InFlight, service
<1>29. CASE UNCHANGED vars
  BY <1>29 DEF vars, TypeInv, TypeOK, CallsOK, ControlOK, InFlight
<1> QED
  BY <1>1, <1>2, <1>3, <1>4, <1>5, <1>6, <1>7, <1>8, <1>9, <1>10, <1>11, <1>12, <1>13, <1>14,
     <1>15, <1>16, <1>17, <1>18, <1>19, <1>20, <1>21, <1>22, <1>23, <1>24, <1>25, <1>26, <1>27,
     <1>28, <1>29
  DEF Next, Heartbeat, Logoff, Logon, SessionChange, Check, Filter

\* Every reachable state has its variables in their types, and whoever is in the
\* middle of an operation has a session, process and file to operate on.
LEMMA TypeInvariant == Spec => []TypeInv
<1>1. TypeInv /\ [Next]_vars => TypeInv'
  BY TypeStep
<1> QED
  BY TypeInit, <1>1, PTL DEF Spec

\* Type correctness of the reachable states.
THEOREM TypeCorrect == Spec => []TypeOK
<1>1. TypeInv => TypeOK
  BY DEF TypeInv
<1> QED
  BY <1>1, TypeInvariant, PTL

-----------------------------------------------------------------------------
(* The distribution of the policy *)

\* A check of rights and a purge of one file or process change no session.
LEMMA CheckFrame == Check \/ Filter => UNCHANGED <<service, hb, ctl, synced, crossed>>
BY DEF Check, Filter, CheckSend, ServFindSession, ServCheckLogon, ServReadUser, ServEvaluate,
       ServFails, CheckInsert, CheckWithoutCaching, PurgeFile, ProcessExit

\* The user of a running session with somebody logged on is that somebody.
LEMMA UserIsToken ==
    ASSUME NEW s \in Sessions, LoggedOn(s)
    PROVE  UserOf(s) = token[s]
BY DEF UserOf, LoggedOn

LEMMA CurrentStep == TypeInv /\ CurrentInv /\ [Next]_vars => CurrentInv'
<1> SUFFICES ASSUME TypeInv, CurrentInv, [Next]_vars PROVE CurrentInv'
  OBVIOUS
<1> USE ConstantsOK DEF TypeInv, TypeOK, ControlOK, CurrentInv, NoBundleYet, Threads, AtRest
<1>1. CASE HeartbeatLoad
  BY <1>1 DEF HeartbeatLoad
<1>2. CASE HeartbeatPurge
  BY <1>2 DEF HeartbeatPurge, service
<1>3. CASE HeartbeatCopy
  BY <1>3 DEF HeartbeatCopy, InMap, service
<1>4. ASSUME NEW s \in Sessions, HeartbeatPush(s) PROVE CurrentInv'
  BY <1>4 DEF HeartbeatPush, SetSessionPolicyBundle, UserOf, LoggedOn
<1>5. CASE HeartbeatDone
  BY <1>5 DEF HeartbeatDone, service
<1>6. ASSUME NEW t \in Threads, NEW s \in Sessions, LogoffPurge(t, s) PROVE CurrentInv'
  BY <1>6 DEF LogoffPurge, service
<1>7. ASSUME NEW t \in Threads, LogoffClearToken(t) PROVE CurrentInv'
  BY <1>7 DEF LogoffClearToken
<1>8. ASSUME NEW t \in Threads, LogoffClearBundle(t) PROVE CurrentInv'
  BY <1>8 DEF LogoffClearBundle
<1>9. ASSUME NEW s \in Sessions, LogonBegin(s) PROVE CurrentInv'
  BY <1>9 DEF LogonBegin, service
<1>10. CASE LogonRefused
  BY <1>10 DEF LogonRefused, service
<1>11. ASSUME NEW u \in Users, LogonToken(u) PROVE CurrentInv'
  BY <1>11 DEF LogonToken
<1>12. CASE LogonBundle
  BY <1>12 DEF LogonBundle, SetSessionPolicyBundle, UserOf, LoggedOn
<1>13. CASE LogonPurge
  BY <1>13 DEF LogonPurge, service
<1>14. ASSUME NEW s \in Sessions, SessionAdd(s) PROVE CurrentInv'
  BY <1>14 DEF SessionAdd
<1>15. ASSUME NEW s \in Sessions, NEW u \in Users \cup {NoUser}, SessionLoadProfile(s, u)
       PROVE CurrentInv'
  BY <1>15 DEF SessionLoadProfile
<1>16. ASSUME NEW s \in Sessions, SessionLoadBundle(s) PROVE CurrentInv'
  BY <1>16 DEF SessionLoadBundle, SetSessionPolicyBundle, UserOf, LoggedOn
<1>17. ASSUME NEW s \in Sessions, SessionRemove(s) PROVE CurrentInv'
  BY <1>17 DEF SessionRemove
<1>18. ASSUME NEW s \in Sessions, SessionStop(s) PROVE CurrentInv'
  BY <1>18 DEF SessionStop
<1>19. CASE Check \/ Filter
  BY <1>19, CheckFrame DEF service
<1>20. CASE UNCHANGED vars
  BY <1>20 DEF vars
<1> QED
  BY <1>1, <1>2, <1>3, <1>4, <1>5, <1>6, <1>7, <1>8, <1>9, <1>10, <1>11, <1>12, <1>13, <1>14,
     <1>15, <1>16, <1>17, <1>18, <1>19, <1>20
  DEF Next, Heartbeat, Logoff, Logon, SessionChange

\* In every reachable state a logged-on session that nobody is changing has the
\* current policy for its user, or the running heartbeat will still give it.
THEOREM BundleCurrent == Spec => []SessionBundleCurrent
<1>1. Init => CurrentInv
  BY DEF Init, CurrentInv
<1>2. TypeInv /\ CurrentInv => SessionBundleCurrent
  BY DEF CurrentInv, SessionBundleCurrent, Changing, NoBundleYet, Threads
<1>3. TypeInv /\ CurrentInv /\ [Next]_vars => CurrentInv'
  BY CurrentStep
<1> QED
  BY <1>1, <1>2, <1>3, TypeInvariant, PTL DEF Spec

-----------------------------------------------------------------------------
(* The rights cache after a logon *)

\* A session's synced flag survives only what leaves its user and bundle alone.
LEMMA FreshKept ==
    ASSUME TypeInv, FreshInv, UNCHANGED <<req, rights>>, SyncedOK',
           \A s \in Sessions : synced'[s] =>
               synced[s] /\ token'[s] = token[s] /\ bundle'[s] = bundle[s]
    PROVE  FreshInv'
<1>1. FreshAfterLogon'
  BY DEF FreshInv, FreshAfterLogon, Cached, ProcsOf
<1>2. ASSUME NEW r \in Requests PROVE CallFresh(r)'
  <2>1. InFlight(r) => SessionOf[req[r].proc] \in Sessions
    BY ConstantsOK DEF TypeInv, CallsOK
  <2> QED
    BY <2>1 DEF FreshInv, CallFresh, InFlight
<1> QED
  BY <1>1, <1>2 DEF FreshInv

\* A purge empties the cache, and marks every call that has read anything.
LEMMA FreshPurged ==
    ASSUME TypeInv, PurgeAll, SyncedOK'
    PROVE  FreshInv'
<1>1. FreshAfterLogon'
  BY PurgeAllCalls DEF FreshAfterLogon, Cached, ProcsOf
<1>2. ASSUME NEW r \in Requests PROVE CallFresh(r)'
  BY PurgeAllCalls DEF CallFresh, InFlight, Decided
<1> QED
  BY <1>1, <1>2 DEF FreshInv

\* What one call does leaves the sessions and the other calls alone.
LEMMA FreshCall ==
    ASSUME TypeInv, FreshInv, UNCHANGED <<service, ctl, synced, crossed>>, FreshAfterLogon',
           NEW r \in Requests, CallFresh(r)',
           \A q \in Requests \ {r} : req'[q] = req[q]
    PROVE  FreshInv'
<1>1. SyncedOK'
  BY DEF FreshInv, SyncedOK, Rebuilding, service
<1>2. ASSUME NEW q \in Requests \ {r} PROVE CallFresh(q)'
  BY <1>2 DEF FreshInv, CallFresh, InFlight, service
<1> QED
  BY <1>1, <1>2 DEF FreshInv

LEMMA FreshStep == TypeInv /\ TypeInv' /\ FreshInv /\ [Next]_vars => FreshInv'
<1> SUFFICES ASSUME TypeInv, TypeInv', FreshInv, [Next]_vars PROVE FreshInv'
  OBVIOUS
<1> USE ConstantsOK DEF Threads, AtRest, Rebuilding
<1>0. SyncedOK /\ TypeOK /\ ControlOK
  BY DEF FreshInv, TypeInv
<1>1. CASE HeartbeatLoad \/ HeartbeatCopy \/ HeartbeatDone
  BY <1>0, <1>1, FreshKept
  DEF HeartbeatLoad, HeartbeatCopy, HeartbeatDone, SyncedOK, TypeOK, service
<1>2. CASE HeartbeatPurge
  BY <1>0, <1>2, FreshPurged DEF HeartbeatPurge, SyncedOK, service
<1>4. ASSUME NEW s \in Sessions, HeartbeatPush(s) PROVE FreshInv'
  BY <1>0, <1>4, FreshKept DEF HeartbeatPush, SetSessionPolicyBundle, SyncedOK, TypeOK
<1>6. ASSUME NEW t \in Threads, NEW s \in Sessions, LogoffPurge(t, s) PROVE FreshInv'
  BY <1>0, <1>6, FreshPurged DEF LogoffPurge, SyncedOK, service
<1>7. ASSUME NEW t \in Threads, LogoffClearToken(t) PROVE FreshInv'
  BY <1>0, <1>7, FreshKept DEF LogoffClearToken, SyncedOK, TypeOK, ControlOK
<1>8. ASSUME NEW t \in Threads, LogoffClearBundle(t) PROVE FreshInv'
  BY <1>0, <1>8, FreshKept DEF LogoffClearBundle, SyncedOK, TypeOK, ControlOK
<1>9. ASSUME NEW s \in Sessions, LogonBegin(s) PROVE FreshInv'
  BY <1>0, <1>9, FreshKept DEF LogonBegin, SyncedOK, service
<1>10. CASE LogonRefused
  BY <1>0, <1>10, FreshKept DEF LogonRefused, SyncedOK, service
<1>11. ASSUME NEW u \in Users, LogonToken(u) PROVE FreshInv'
  BY <1>0, <1>11, FreshKept DEF LogonToken, SyncedOK, TypeOK, ControlOK
<1>12. CASE LogonBundle
  BY <1>0, <1>12, FreshKept DEF LogonBundle, SetSessionPolicyBundle, SyncedOK, TypeOK, ControlOK
<1>13. CASE LogonPurge
  <2>1. SyncedOK'
    <3>1. /\ synced' = [synced EXCEPT ![ctl[Pipe].sid] = LoggedOn(ctl[Pipe].sid)]
          /\ ctl' = [ctl EXCEPT ![Pipe] = AtRest] /\ UNCHANGED <<token, phase>>
          /\ ctl[Pipe].sid \in Sessions /\ phase[ctl[Pipe].sid] \notin {"absent", "added"}
      BY <1>0, <1>13 DEF LogonPurge, ControlOK, service
    <3>2. LoggedOn(ctl[Pipe].sid) => token[ctl[Pipe].sid] # NoUser /\ phase[ctl[Pipe].sid] \in {"loaded", "running", "removed"}
      BY <1>0, <3>1 DEF LoggedOn, TypeOK, Phases
    <3>3. ASSUME NEW s \in Sessions, synced'[s]
          PROVE  token[s] # NoUser /\ phase[s] \in {"loaded", "running", "removed"}
      <4>1. CASE s = ctl[Pipe].sid
        BY <1>0, <3>1, <3>2, <3>3, <4>1 DEF TypeOK
      <4>2. CASE s # ctl[Pipe].sid
        BY <1>0, <3>1, <3>3, <4>2 DEF TypeOK, SyncedOK
      <4> QED
        BY <4>1, <4>2
    <3>4. ctl'[Pipe].pc = "idle"
      BY <1>0, <3>1 DEF TypeOK
    <3> QED
      BY <3>1, <3>3, <3>4 DEF SyncedOK
  <2> QED
    BY <1>13, <2>1, FreshPurged DEF LogonPurge
<1>14. ASSUME NEW s \in Sessions, SessionAdd(s) PROVE FreshInv'
  BY <1>0, <1>14, FreshKept DEF SessionAdd, SyncedOK, TypeOK
<1>15. ASSUME NEW s \in Sessions, NEW u \in Users \cup {NoUser}, SessionLoadProfile(s, u)
       PROVE FreshInv'
  BY <1>0, <1>15, FreshKept DEF SessionLoadProfile, SyncedOK, TypeOK
<1>16. ASSUME NEW s \in Sessions, SessionLoadBundle(s) PROVE FreshInv'
  BY <1>0, <1>16, FreshKept DEF SessionLoadBundle, SetSessionPolicyBundle, SyncedOK, TypeOK
<1>17. ASSUME NEW s \in Sessions, SessionRemove(s) PROVE FreshInv'
  BY <1>0, <1>17, FreshKept DEF SessionRemove, SyncedOK, TypeOK
<1>18. ASSUME NEW s \in Sessions, SessionStop(s) PROVE FreshInv'
  BY <1>0, <1>18, FreshKept DEF SessionStop, SyncedOK, TypeOK
<1>19. ASSUME NEW r \in Requests, NEW p \in Procs, NEW f \in Files, CheckSend(r, p, f)
       PROVE FreshInv'
  <2>1. req'[r].pc = "sent" /\ rights' = rights
    BY <1>0, <1>19 DEF CheckSend, TypeOK, Idle
  <2>2. FreshAfterLogon' /\ CallFresh(r)'
    BY <1>19, <2>1 DEF CheckSend, FreshInv, FreshAfterLogon, CallFresh, Cached, ProcsOf, service
  <2> QED
    BY <1>0, <1>19, <2>2, FreshCall DEF CheckSend, TypeOK
<1>20. ASSUME NEW r \in Requests, ServFindSession(r) \/ ServCheckLogon(r) PROVE FreshInv'
  <2>1. req'[r].pc \in {"idle", "found", "subject"} /\ rights' = rights
    BY <1>0, <1>20 DEF ServFindSession, ServCheckLogon, TypeOK, Idle, Calls
  <2>2. FreshAfterLogon' /\ CallFresh(r)'
    BY <1>20, <2>1 DEF ServFindSession, ServCheckLogon, FreshInv, FreshAfterLogon, CallFresh,
                       Cached, ProcsOf, service
  <2> QED
    BY <1>0, <1>20, <2>2, FreshCall DEF ServFindSession, ServCheckLogon, TypeOK
<1>22. ASSUME NEW r \in Requests, ServReadUser(r) PROVE FreshInv'
  <2>1. FreshAfterLogon'
    BY <1>22 DEF ServReadUser, FreshInv, FreshAfterLogon, Cached, ProcsOf, service
  <2>2. CallFresh(r)'
    <3>1. SessionOf[req[r].proc] \in Sessions
      BY <1>22, ConstantsOK DEF ServReadUser, TypeInv, CallsOK, InFlight
    <3>2. synced[SessionOf[req[r].proc]] => UserOf(SessionOf[req[r].proc]) = token[SessionOf[req[r].proc]]
      BY <1>0, <3>1 DEF SyncedOK, UserOf, LoggedOn
    <3> QED
      BY <1>22, <3>2, ReadUserCall DEF ServReadUser, CallFresh, service
  <2> QED
    BY <1>22, <2>1, <2>2, FreshCall, ReadUserCall DEF ServReadUser
<1>23. ASSUME NEW r \in Requests, ServEvaluate(r) \/ ServFails(r) PROVE FreshInv'
  <2> DEFINE s == SessionOf[req[r].proc]
             d == IF ServEvaluate(r) /\ LoggedOn(s)
                  THEN [user |-> req[r].user, bundle |-> bundle[s]] ELSE NoRights
  <2>1. /\ req[r].pc = "evaluate" /\ UNCHANGED <<service, ctl, rights, synced, crossed>>
        /\ d \in Decisions
        /\ req' = [req EXCEPT ![r] = [req[r] EXCEPT !.pc = "insert", !.dec = d]]
    <3>1. CASE ServEvaluate(r)
      BY <3>1, EvaluateCall DEF ServEvaluate
    <3>2. CASE ~ServEvaluate(r)
      BY <1>23, <3>2, FailCall DEF ServFails
    <3> QED
      BY <3>1, <3>2
  <2>2. d \in {NoRights, [user |-> req[r].user, bundle |-> bundle[s]]}
    OBVIOUS
  <2> HIDE DEF d
  <2>3. /\ req'[r].pc = "insert" /\ req'[r].proc = req[r].proc /\ req'[r].late = req[r].late
        /\ req'[r].dec = d /\ \A q \in Requests \ {r} : req'[q] = req[q]
    BY <2>1, DecideCall
  <2>4. FreshAfterLogon'
    BY <2>1 DEF FreshInv, FreshAfterLogon, Cached, ProcsOf, service
  <2>5. CallFresh(r)'
    BY <2>1, <2>2, <2>3 DEF FreshInv, CallFresh, InFlight, service
  <2> QED
    BY <2>1, <2>3, <2>4, <2>5, FreshCall
<1>25. ASSUME NEW r \in Requests, CheckInsert(r) PROVE FreshInv'
  <2> DEFINE p == req[r].proc
             f == req[r].file
             e == [dec |-> req[r].dec, late |-> req[r].late]
  <2>1. p \in Procs /\ f \in Files
    BY <1>25 DEF CheckInsert, TypeInv, CallsOK, InFlight
  <2>2. /\ rights'[p][f] = e
        /\ \A x \in Procs, y \in Files : x # p \/ y # f => rights'[x][y] = rights[x][y]
    BY <1>0, <1>25, <2>1 DEF CheckInsert, TypeOK
  <2>3. synced[SessionOf[p]] => e.late \/ e.dec \in {NoRights, [user |-> token[SessionOf[p]],
                                                                bundle |-> bundle[SessionOf[p]]]}
    BY <1>25 DEF CheckInsert, FreshInv, CallFresh, InFlight
  <2> HIDE DEF e
  <2>4. UNCHANGED <<service, ctl, synced, crossed>>
    BY <1>25 DEF CheckInsert
  <2>5. FreshAfterLogon'
    <3> SUFFICES ASSUME NEW s \in Sessions, synced[s], NEW x \in Procs, SessionOf[x] = s,
                        NEW y \in Files, rights'[x][y] # NoEntry
                 PROVE  \/ rights'[x][y].late
                        \/ rights'[x][y].dec \in {NoRights, [user |-> token[s], bundle |-> bundle[s]]}
      BY <2>4 DEF FreshAfterLogon, Cached, ProcsOf, service
    <3>1. CASE x = p /\ y = f
      BY <2>2, <2>3, <3>1
    <3>2. CASE x # p \/ y # f
      BY <2>2, <3>2 DEF FreshInv, FreshAfterLogon, Cached, ProcsOf
    <3> QED
      BY <3>1, <3>2
  <2>6. CallFresh(r)' /\ \A q \in Requests \ {r} : req'[q] = req[q]
    BY <1>0, <1>25 DEF CheckInsert, CallFresh, InFlight, Idle, TypeOK
  <2> QED
    BY <2>4, <2>5, <2>6, FreshCall
<1>26. ASSUME NEW r \in Requests, CheckWithoutCaching(r) PROVE FreshInv'
  <2>1. CallFresh(r)' /\ \A q \in Requests \ {r} : req'[q] = req[q]
    BY <1>0, <1>26 DEF CheckWithoutCaching, CallFresh, InFlight, Idle, TypeOK
  <2>2. FreshAfterLogon'
    BY <1>26 DEF CheckWithoutCaching, FreshInv, FreshAfterLogon, Cached, ProcsOf, service
  <2> QED
    BY <1>26, <2>1, <2>2, FreshCall DEF CheckWithoutCaching
<1>27. ASSUME Filter PROVE FreshInv'
  <2>1. /\ UNCHANGED <<service, ctl, synced, req>>
        /\ \A p \in Procs, f \in Files : rights'[p][f] \in {NoEntry, rights[p][f]}
    BY <1>0, <1>27 DEF Filter, PurgeFile, ProcessExit, TypeOK
  <2>2. SyncedOK' /\ \A r \in Requests : CallFresh(r)'
    BY <2>1 DEF FreshInv, SyncedOK, CallFresh, InFlight, service
  <2>3. FreshAfterLogon'
    BY <2>1 DEF FreshInv, FreshAfterLogon, Cached, ProcsOf, service
  <2> QED
    BY <2>2, <2>3 DEF FreshInv
<1>28. CASE UNCHANGED vars
  BY <1>0, <1>28, FreshKept DEF vars, SyncedOK
<1> QED
  BY <1>1, <1>2, <1>4, <1>6, <1>7, <1>8, <1>9, <1>10, <1>11, <1>12, <1>13, <1>14, <1>15, <1>16,
     <1>17, <1>18, <1>19, <1>20, <1>22, <1>23, <1>25, <1>26, <1>27, <1>28
  DEF Next, Heartbeat, Logoff, Logon, SessionChange, Check

\* After a logon the driver's cache answers for the new user under that user's
\* policies, whatever the calls in flight had read before.
THEOREM CacheFreshAfterLogon == Spec => []FreshAfterLogon
<1>1. Init => FreshInv
  <2> SUFFICES ASSUME Init PROVE FreshInv
    OBVIOUS
  <2>1. SyncedOK /\ FreshAfterLogon
    BY DEF Init, SyncedOK, FreshAfterLogon
  <2>2. \A r \in Requests : CallFresh(r)
    BY DEF Init, CallFresh, InFlight, Idle
  <2> QED
    BY <2>1, <2>2 DEF FreshInv
<1>2. FreshInv => FreshAfterLogon
  BY DEF FreshInv
<1>3. TypeInv /\ TypeInv' /\ FreshInv /\ [Next]_vars => FreshInv'
  BY FreshStep
<1> QED
  BY <1>1, <1>2, <1>3, TypeInvariant, PTL DEF Spec

-----------------------------------------------------------------------------
(* No decision of two users *)

LEMMA BundleForUser ==
    ASSUME NEW v, NEW u
    PROVE  BundleFor(v, u).user \in {NoUser, u}
BY DEF BundleFor, EmptyBundle

\* What a step that moves no call has to respect.
LEMMA MixedKept ==
    ASSUME TypeInv, MixedInv, UNCHANGED <<req, rights>>, NobodyYet', BundleOwner',
           \A s \in Sessions : ~Rebuilding(s)' =>
               /\ ~Rebuilding(s)
               /\ LoggedOn(s)' => \/ LoggedOn(s) /\ token'[s] = token[s]
                                  \/ phase[s] = "added"
    PROVE  MixedInv'
<1>1. NoMixedDecision'
  BY DEF MixedInv, NoMixedDecision, Cached, ProcsOf, UsersAgree
<1>2. ASSUME NEW r \in Requests PROVE CallAgrees(r)'
  <2>1. InFlight(r) => SessionOf[req[r].proc] \in Sessions
    BY ConstantsOK DEF TypeInv, CallsOK
  <2> QED
    BY <2>1 DEF MixedInv, NobodyYet, CallAgrees, InFlight, UsersAgree
<1> QED
  BY <1>1, <1>2 DEF MixedInv

LEMMA MixedPurged ==
    ASSUME TypeInv, PurgeAll, NobodyYet', BundleOwner'
    PROVE  MixedInv'
<1>1. NoMixedDecision'
  BY PurgeAllCalls DEF NoMixedDecision, Cached, ProcsOf
<1>2. ASSUME NEW r \in Requests PROVE CallAgrees(r)'
  BY PurgeAllCalls DEF CallAgrees, InFlight, Decided
<1> QED
  BY <1>1, <1>2 DEF MixedInv

\* What one call does leaves the sessions and the other calls alone, and no
\* call gets past the check of the logon in a session nobody has logged on to.
LEMMA MixedCall ==
    ASSUME TypeInv, MixedInv, UNCHANGED <<service, ctl>>, NoMixedDecision',
           NEW r \in Requests, CallAgrees(r)',
           \A q \in Requests \ {r} : req'[q] = req[q],
           req'[r].pc \in {"subject", "evaluate", "insert"} =>
               /\ InFlight(r) /\ req'[r].proc = req[r].proc
               /\ \/ req[r].pc \in {"subject", "evaluate", "insert"}
                  \/ phase[SessionOf[req[r].proc]] = "ended"
                  \/ LoggedOn(SessionOf[req[r].proc])
    PROVE  MixedInv'
<1>1. BundleOwner'
  BY DEF MixedInv, BundleOwner, NoBundleYet, LoggedOn, service
<1>2. NobodyYet'
  <2> SUFFICES ASSUME NEW s \in Sessions, phase[s] \in {"absent", "added"}, NEW q \in Requests,
                      InFlight(q)', SessionOf[req'[q].proc] = s
               PROVE  req'[q].pc \notin {"subject", "evaluate", "insert"}
    BY DEF MixedInv, NobodyYet, service
  <2>1. CASE q # r
    BY <2>1 DEF MixedInv, NobodyYet, InFlight
  <2>2. CASE q = r
    BY <2>2 DEF MixedInv, NobodyYet, InFlight, LoggedOn
  <2> QED
    BY <2>1, <2>2
<1>3. ASSUME NEW q \in Requests \ {r} PROVE CallAgrees(q)'
  BY <1>3 DEF MixedInv, CallAgrees, InFlight, LoggedOn, Rebuilding, UsersAgree, service
<1> QED
  BY <1>1, <1>2, <1>3 DEF MixedInv

LEMMA MixedStep == TypeInv /\ TypeInv' /\ MixedInv /\ [Next]_vars => MixedInv'
<1> SUFFICES ASSUME TypeInv, TypeInv', MixedInv, [Next]_vars PROVE MixedInv'
  OBVIOUS
<1> USE ConstantsOK DEF Threads, AtRest, NoBundleYet
<1>0. NobodyYet /\ BundleOwner /\ TypeOK /\ ControlOK
  BY DEF MixedInv, TypeInv
<1>1. CASE HeartbeatLoad \/ HeartbeatCopy \/ HeartbeatDone
  BY <1>0, <1>1, MixedKept
  DEF HeartbeatLoad, HeartbeatCopy, HeartbeatDone, NobodyYet, BundleOwner, InFlight, LoggedOn,
      Rebuilding, service
<1>2. CASE HeartbeatPurge
  BY <1>0, <1>2, MixedPurged, PurgeAllCalls
  DEF HeartbeatPurge, NobodyYet, BundleOwner, InFlight, LoggedOn, service
<1>4. ASSUME NEW s \in Sessions, HeartbeatPush(s) PROVE MixedInv'
  <2>1. bundle' = [bundle EXCEPT ![s] = BundleFor(policy, UserOf(s))]
    BY <1>4 DEF HeartbeatPush, SetSessionPolicyBundle
  <2>2. BundleFor(policy, UserOf(s)).user \in {NoUser, UserOf(s)}
    BY BundleForUser
  <2>3. UserOf(s) \in {NoUser, token[s]}
    BY DEF UserOf
  <2>4. \A x \in Sessions : bundle'[x].user \in {NoUser, token[x], bundle[x].user}
                            /\ (x = s => bundle'[x].user \in {NoUser, token[x]})
    BY <1>0, <2>1, <2>2, <2>3 DEF TypeOK
  <2> QED
    BY <1>0, <1>4, <2>4, MixedKept
    DEF HeartbeatPush, NobodyYet, BundleOwner, InFlight, LoggedOn, Rebuilding
<1>6. ASSUME NEW t \in Threads, NEW s \in Sessions, LogoffPurge(t, s) PROVE MixedInv'
  BY <1>0, <1>6, MixedPurged, PurgeAllCalls
  DEF LogoffPurge, NobodyYet, BundleOwner, InFlight, LoggedOn, service
<1>7. ASSUME NEW t \in Threads, LogoffClearToken(t) PROVE MixedInv'
  BY <1>0, <1>7, MixedKept
  DEF LogoffClearToken, NobodyYet, BundleOwner, InFlight, LoggedOn, Rebuilding, TypeOK, ControlOK
<1>8. ASSUME NEW t \in Threads, LogoffClearBundle(t) PROVE MixedInv'
  BY <1>0, <1>8, MixedKept
  DEF LogoffClearBundle, NobodyYet, BundleOwner, InFlight, LoggedOn, Rebuilding, TypeOK, ControlOK,
      EmptyBundle
<1>9. ASSUME NEW s \in Sessions, LogonBegin(s) PROVE MixedInv'
  BY <1>0, <1>9, MixedKept
  DEF LogonBegin, NobodyYet, BundleOwner, InFlight, LoggedOn, Rebuilding, service
<1>10. CASE LogonRefused
  BY <1>0, <1>10, MixedKept
  DEF LogonRefused, NobodyYet, BundleOwner, InFlight, LoggedOn, Rebuilding, service
<1>11. ASSUME NEW u \in Users, LogonToken(u) PROVE MixedInv'
  BY <1>0, <1>11, MixedKept
  DEF LogonToken, NobodyYet, BundleOwner, InFlight, LoggedOn, Rebuilding, TypeOK, ControlOK
<1>12. CASE LogonBundle
  <2>1. bundle' = [bundle EXCEPT ![ctl[Pipe].sid] = BundleFor(policy, UserOf(ctl[Pipe].sid))]
    BY <1>12 DEF LogonBundle, SetSessionPolicyBundle
  <2>2. BundleFor(policy, UserOf(ctl[Pipe].sid)).user \in {NoUser, token[ctl[Pipe].sid]}
    BY BundleForUser DEF UserOf
  <2>3. \A x \in Sessions : IF x = ctl[Pipe].sid THEN bundle'[x].user \in {NoUser, token[x]}
                                           ELSE bundle'[x] = bundle[x]
    BY <1>0, <2>1, <2>2 DEF TypeOK
  <2> QED
    BY <1>0, <1>12, <2>3, MixedKept
    DEF LogonBundle, NobodyYet, BundleOwner, InFlight, LoggedOn, Rebuilding, TypeOK, ControlOK
<1>13. CASE LogonPurge
  BY <1>0, <1>13, MixedPurged, PurgeAllCalls
  DEF LogonPurge, NobodyYet, BundleOwner, InFlight, LoggedOn, service
<1>14. ASSUME NEW s \in Sessions, SessionAdd(s) PROVE MixedInv'
  BY <1>0, <1>14, MixedKept
  DEF SessionAdd, NobodyYet, BundleOwner, InFlight, LoggedOn, Rebuilding, TypeOK
<1>15. ASSUME NEW s \in Sessions, NEW u \in Users \cup {NoUser}, SessionLoadProfile(s, u)
       PROVE MixedInv'
  BY <1>0, <1>15, MixedKept
  DEF SessionLoadProfile, NobodyYet, BundleOwner, InFlight, LoggedOn, Rebuilding, TypeOK
<1>16. ASSUME NEW s \in Sessions, SessionLoadBundle(s) PROVE MixedInv'
  <2>1. BundleFor(policy, UserOf(s)).user \in {NoUser, token[s]}
    BY BundleForUser DEF UserOf
  <2>2. \A x \in Sessions : x # s => bundle'[x] = bundle[x] /\ token'[x] = token[x]
    BY <1>0, <1>16 DEF SessionLoadBundle, SetSessionPolicyBundle, TypeOK
  <2>3. \/ token'[s] = NoUser
        \/ token'[s] = token[s] /\ bundle'[s].user \in {NoUser, token[s]}
    BY <1>0, <1>16, <2>1 DEF SessionLoadBundle, SetSessionPolicyBundle, TypeOK
  <2>4. /\ phase[s] = "loaded" /\ phase' = [phase EXCEPT ![s] = "running"]
        /\ UNCHANGED <<ctl, req, rights>>
    BY <1>16 DEF SessionLoadBundle
  <2> QED
    BY <1>0, <2>2, <2>3, <2>4, MixedKept
    DEF NobodyYet, BundleOwner, InFlight, LoggedOn, Rebuilding, TypeOK
<1>17. ASSUME NEW s \in Sessions, SessionRemove(s) PROVE MixedInv'
  BY <1>0, <1>17, MixedKept
  DEF SessionRemove, NobodyYet, BundleOwner, InFlight, LoggedOn, Rebuilding, TypeOK
<1>18. ASSUME NEW s \in Sessions, SessionStop(s) PROVE MixedInv'
  BY <1>0, <1>18, MixedKept
  DEF SessionStop, NobodyYet, BundleOwner, InFlight, LoggedOn, Rebuilding, TypeOK
<1>19. ASSUME NEW r \in Requests, NEW p \in Procs, NEW f \in Files, CheckSend(r, p, f)
       PROVE MixedInv'
  <2>1. req'[r].pc = "sent" /\ rights' = rights
    BY <1>0, <1>19 DEF CheckSend, TypeOK, Idle
  <2>2. NoMixedDecision' /\ CallAgrees(r)'
    BY <1>19, <2>1
    DEF CheckSend, MixedInv, NoMixedDecision, CallAgrees, Cached, ProcsOf, Rebuilding, UsersAgree,
        service
  <2> QED
    BY <1>0, <1>19, <2>1, <2>2, MixedCall DEF CheckSend, TypeOK
<1>20. ASSUME NEW r \in Requests, ServFindSession(r) \/ ServCheckLogon(r) PROVE MixedInv'
  <2> DEFINE s == SessionOf[req[r].proc]
  <2>1. /\ req'[r].pc \in {"idle", "found", "subject"} /\ rights' = rights
        /\ req'[r].pc = "subject" => /\ req'[r].proc = req[r].proc /\ InFlight(r)
                                     /\ phase[s] = "ended" \/ LoggedOn(s)
    BY <1>0, <1>20 DEF ServFindSession, ServCheckLogon, TypeOK, Idle, Calls, InFlight
  <2>2. NoMixedDecision' /\ CallAgrees(r)'
    BY <1>20, <2>1
    DEF ServFindSession, ServCheckLogon, MixedInv, NoMixedDecision, CallAgrees, Cached, ProcsOf,
        Rebuilding, UsersAgree, service
  <2> QED
    BY <1>0, <1>20, <2>1, <2>2, MixedCall DEF ServFindSession, ServCheckLogon, TypeOK
<1>22. ASSUME NEW r \in Requests, ServReadUser(r) PROVE MixedInv'
  <2>1. NoMixedDecision'
    BY <1>22
    DEF ServReadUser, MixedInv, NoMixedDecision, Cached, ProcsOf, Rebuilding, UsersAgree, service
  <2>2. CallAgrees(r)'
    BY <1>22, ReadUserCall DEF ServReadUser, CallAgrees, LoggedOn, UserOf, service
  <2>3. req[r].pc = "subject" /\ InFlight(r) /\ UNCHANGED <<service, ctl>>
    BY <1>22 DEF ServReadUser, InFlight
  <2> QED
    BY <1>22, <2>1, <2>2, <2>3, MixedCall, ReadUserCall
<1>23. ASSUME NEW r \in Requests, ServEvaluate(r) \/ ServFails(r) PROVE MixedInv'
  <2> DEFINE s == SessionOf[req[r].proc]
             d == IF ServEvaluate(r) /\ LoggedOn(s)
                  THEN [user |-> req[r].user, bundle |-> bundle[s]] ELSE NoRights
  <2>1. /\ req[r].pc = "evaluate" /\ UNCHANGED <<service, ctl, rights, synced, crossed>>
        /\ d \in Decisions
        /\ req' = [req EXCEPT ![r] = [req[r] EXCEPT !.pc = "insert", !.dec = d]]
    <3>1. CASE ServEvaluate(r)
      BY <3>1, EvaluateCall DEF ServEvaluate
    <3>2. CASE ~ServEvaluate(r)
      BY <1>23, <3>2, FailCall DEF ServFails
    <3> QED
      BY <3>1, <3>2
  <2>2. s \in Sessions
    BY <2>1, ConstantsOK DEF TypeInv, CallsOK, InFlight
  <2>3. ~req[r].late /\ ~Rebuilding(s) => UsersAgree(d)
    <3>1. CASE d = NoRights
      BY <3>1 DEF UsersAgree
    <3>2. CASE LoggedOn(s) /\ d = [user |-> req[r].user, bundle |-> bundle[s]]
      BY <2>1, <2>2, <3>2
      DEF MixedInv, CallAgrees, BundleOwner, UsersAgree, Rebuilding, InFlight
    <3> QED
      BY <3>1, <3>2
  <2> HIDE DEF d
  <2>4. /\ req'[r].pc = "insert" /\ req'[r].proc = req[r].proc /\ req'[r].late = req[r].late
        /\ req'[r].dec = d /\ \A q \in Requests \ {r} : req'[q] = req[q]
    BY <2>1, DecideCall
  <2>5. NoMixedDecision'
    BY <2>1 DEF MixedInv, NoMixedDecision, Cached, ProcsOf, Rebuilding, UsersAgree, service
  <2>6. CallAgrees(r)'
    BY <2>1, <2>3, <2>4 DEF CallAgrees, Rebuilding, UsersAgree, service
  <2>7. InFlight(r)
    BY <2>1 DEF InFlight
  <2> QED
    BY <2>1, <2>4, <2>5, <2>6, <2>7, MixedCall
<1>25. ASSUME NEW r \in Requests, CheckInsert(r) PROVE MixedInv'
  <2> DEFINE p == req[r].proc
             f == req[r].file
             e == [dec |-> req[r].dec, late |-> req[r].late]
  <2>1. p \in Procs /\ f \in Files
    BY <1>25 DEF CheckInsert, TypeInv, CallsOK, InFlight
  <2>2. /\ rights'[p][f] = e
        /\ \A x \in Procs, y \in Files : x # p \/ y # f => rights'[x][y] = rights[x][y]
    BY <1>0, <1>25, <2>1 DEF CheckInsert, TypeOK
  <2>3. ~Rebuilding(SessionOf[p]) => e.late \/ UsersAgree(e.dec)
    BY <1>25 DEF CheckInsert, MixedInv, CallAgrees, InFlight
  <2> HIDE DEF e
  <2>4. UNCHANGED <<service, ctl, synced, crossed>>
    BY <1>25 DEF CheckInsert
  <2>5. NoMixedDecision'
    <3> SUFFICES ASSUME NEW s \in Sessions, ~Rebuilding(s), NEW x \in Procs, SessionOf[x] = s,
                        NEW y \in Files, rights'[x][y] # NoEntry
                 PROVE  rights'[x][y].late \/ UsersAgree(rights'[x][y].dec)
      BY <2>4 DEF NoMixedDecision, Cached, ProcsOf, Rebuilding, UsersAgree
    <3>1. CASE x = p /\ y = f
      BY <2>2, <2>3, <3>1
    <3>2. CASE x # p \/ y # f
      BY <2>2, <3>2 DEF MixedInv, NoMixedDecision, Cached, ProcsOf
    <3> QED
      BY <3>1, <3>2
  <2>6. /\ CallAgrees(r)' /\ \A q \in Requests \ {r} : req'[q] = req[q]
        /\ req'[r].pc = "idle"
    BY <1>0, <1>25 DEF CheckInsert, CallAgrees, InFlight, Idle, TypeOK
  <2> QED
    BY <2>4, <2>5, <2>6, MixedCall
<1>26. ASSUME NEW r \in Requests, CheckWithoutCaching(r) PROVE MixedInv'
  <2>1. /\ CallAgrees(r)' /\ \A q \in Requests \ {r} : req'[q] = req[q]
        /\ req'[r].pc = "idle"
    BY <1>0, <1>26 DEF CheckWithoutCaching, CallAgrees, InFlight, Idle, TypeOK
  <2>2. NoMixedDecision'
    BY <1>26
    DEF CheckWithoutCaching, MixedInv, NoMixedDecision, Cached, ProcsOf, Rebuilding, UsersAgree
  <2> QED
    BY <1>26, <2>1, <2>2, MixedCall DEF CheckWithoutCaching
<1>27. CASE Filter
  <2>1. /\ UNCHANGED <<service, ctl, synced, req>>
        /\ \A p \in Procs, f \in Files : rights'[p][f] \in {NoEntry, rights[p][f]}
    BY <1>0, <1>27 DEF Filter, PurgeFile, ProcessExit, TypeOK
  <2>2. NobodyYet' /\ BundleOwner'
    BY <1>0, <2>1 DEF NobodyYet, BundleOwner, LoggedOn, InFlight, service
  <2>3. ASSUME NEW r \in Requests PROVE CallAgrees(r)'
    BY <2>1 DEF MixedInv, CallAgrees, LoggedOn, InFlight, Rebuilding, UsersAgree, service
  <2>4. NoMixedDecision'
    BY <2>1 DEF MixedInv, NoMixedDecision, Cached, ProcsOf, Rebuilding, UsersAgree
  <2> QED
    BY <2>2, <2>3, <2>4 DEF MixedInv
<1>28. CASE UNCHANGED vars
  BY <1>0, <1>28, MixedKept
  DEF vars, NobodyYet, BundleOwner, InFlight, LoggedOn, Rebuilding
<1> QED
  BY <1>1, <1>2, <1>4, <1>6, <1>7, <1>8, <1>9, <1>10, <1>11, <1>12, <1>13, <1>14, <1>15, <1>16,
     <1>17, <1>18, <1>19, <1>20, <1>22, <1>23, <1>25, <1>26, <1>27, <1>28
  DEF Next, Heartbeat, Logoff, Logon, SessionChange, Check

\* Although a worker reads the user and the policies at different times, no
\* cached decision that a purge has not overtaken combines two users.
THEOREM NoDecisionOfTwoUsers == Spec => []NoMixedDecision
<1>1. Init => MixedInv
  <2> SUFFICES ASSUME Init PROVE MixedInv
    OBVIOUS
  <2>1. NobodyYet /\ BundleOwner /\ NoMixedDecision
    BY ConstantsOK
    DEF Init, NobodyYet, BundleOwner, NoMixedDecision, Cached, ProcsOf, LoggedOn, InFlight, Idle,
        EmptyBundle
  <2>2. \A r \in Requests : CallAgrees(r)
    BY DEF Init, CallAgrees, InFlight, Idle
  <2> QED
    BY <2>1, <2>2 DEF MixedInv
<1>2. MixedInv => NoMixedDecision
  BY DEF MixedInv
<1>3. TypeInv /\ TypeInv' /\ MixedInv /\ [Next]_vars => MixedInv'
  BY MixedStep
<1> QED
  BY <1>1, <1>2, <1>3, TypeInvariant, PTL DEF Spec

-----------------------------------------------------------------------------
(* A policy reaches the sessions *)

\* The prover knows nothing of ENABLED.  The guard of each of these actions is
\* the condition on the left, the rest of it assigns, and what it assigns to
\* hb or ctl is not what was there.
StepsEnabled ==
    /\ hb.pc = "loaded" => ENABLED <<HeartbeatPurge>>_vars
    /\ hb.pc = "purged" => ENABLED <<HeartbeatCopy>>_vars
    /\ \A s \in Sessions :
          hb.pc = "pushing" /\ s \in hb.todo => ENABLED <<HeartbeatPush(s)>>_vars
    /\ ctl[Pipe].pc = "setBundle" => ENABLED <<LogonBundle>>_vars

\* The session has reached policy v, or left, or lost its bundle to a logoff that
\* had begun before its user logged on.
Reached(s, v) == \/ bundle[s].ver >= v \/ phase[s] # "running" \/ token[s] = NoUser
                 \/ crossed[s]
\* The session is owed policy v by a logon or by the heartbeat, which is on its way.
Owed(s, v) == v \in 1..MaxPolicy /\ policy >= v /\ ~Reached(s, v)
OwedByLogon(s, v) == Owed(s, v) /\ ctl[Pipe].sid = s /\ ctl[Pipe].pc = "setBundle"
OwedBy(s, v, pc) == Owed(s, v) /\ hb.pc = pc
OwedNext(s, v) == OwedBy(s, v, "pushing") /\ s \in hb.todo

\* Sessions are waiting for their turn only while there are turns.
TodoInv == hb.pc # "pushing" => hb.todo = {}
ReachInv == TypeInv /\ CurrentInv /\ TodoInv

LEMMA ReachInvHolds == Spec => []ReachInv
<1>1. Init => CurrentInv /\ TodoInv
  BY DEF Init, CurrentInv, TodoInv
<1>2. TypeInv /\ TodoInv /\ [Next]_vars => TodoInv'
  <2> SUFFICES ASSUME TypeInv, TodoInv, [Next]_vars PROVE TodoInv'
    OBVIOUS
  <2>1. CASE Heartbeat
    BY <2>1 DEF Heartbeat, HeartbeatLoad, HeartbeatPurge, HeartbeatCopy, HeartbeatPush,
                HeartbeatDone, TodoInv, TypeInv, TypeOK
  <2>2. CASE Logoff \/ Logon \/ SessionChange \/ Check \/ Filter \/ UNCHANGED vars
    <3>1. hb' = hb
      BY <2>2, CheckFrame
      DEF Logoff, Logon, SessionChange, LogoffPurge, LogonBegin, LogonToken, LogonRefused,
          LogoffClearToken, LogoffClearBundle, LogonBundle, LogonPurge, SessionAdd,
          SessionLoadBundle, SessionRemove, SessionStop, SessionLoadProfile, vars
    <3> QED
      BY <3>1 DEF TodoInv
  <2> QED
    BY <2>1, <2>2 DEF Next
<1>3. TypeInv /\ CurrentInv /\ [Next]_vars => CurrentInv'
  BY CurrentStep
<1> QED
  BY <1>1, <1>2, <1>3, TypeInvariant, PTL DEF Spec, ReachInv

\* Somebody is about to give an owed session its bundle.
LEMMA OwedBySomebody ==
    ASSUME ReachInv, NEW s \in Sessions, NEW v, Owed(s, v)
    PROVE  \/ OwedByLogon(s, v) \/ OwedNext(s, v)
           \/ OwedBy(s, v, "loaded") \/ OwedBy(s, v, "purged")
<1>1. policy \in Nat /\ v \in Nat /\ policy # 0 /\ bundle[s] \in Bundles
  BY ConstantsOK DEF ReachInv, TypeInv, TypeOK, Owed
<1>2. bundle[s] # BundleFor(policy, token[s])
  BY <1>1 DEF BundleFor, Owed, Reached
<1> QED
  BY <1>2 DEF ReachInv, CurrentInv, NoBundleYet, TodoInv, Owed, Reached, OwedByLogon, OwedBy, OwedNext

\* The policy only gets newer, and a session that is given a bundle is given the
\* newest.
LEMMA BundleSet ==
    ASSUME TypeInv, NEW s \in Sessions, NEW t \in Sessions, NEW v, Owed(s, v),
           SetSessionPolicyBundle(t), policy' = policy, phase' = phase, token' = token
    PROVE  /\ t = s => Reached(s, v)'
           /\ t # s => bundle'[s] = bundle[s]
<1>1. policy \in 1..MaxPolicy /\ v \in 1..MaxPolicy /\ policy >= v /\ phase[s] = "running"
      /\ bundle \in [Sessions -> Bundles] /\ MaxPolicy \in Nat
  BY ConstantsOK DEF TypeInv, TypeOK, Owed, Reached
<1>2. CASE t = s
  <2>1. UserOf(s) = token[s]
    BY <1>1 DEF UserOf, LoggedOn, Owed, Reached
  <2>2. bundle'[s] = BundleFor(policy, token[s])
    BY <1>1, <1>2, <2>1 DEF SetSessionPolicyBundle
  <2>3. bundle'[s].ver = policy
    BY <1>1, <2>2 DEF BundleFor
  <2> QED
    BY <1>1, <1>2, <2>3 DEF Reached
<1>3. CASE t # s
  BY <1>1, <1>3 DEF SetSessionPolicyBundle
<1> QED
  BY <1>2, <1>3

\* What a step leaves of a debt: it stays, with who owes it, until it is paid.
LEMMA OwedStep ==
    ASSUME ReachInv, NEW s \in Sessions, NEW v, Owed(s, v), [Next]_vars
    PROVE  /\ Owed(s, v)' \/ Reached(s, v)'
           /\ OwedByLogon(s, v) => OwedByLogon(s, v)' \/ Reached(s, v)'
           /\ OwedBy(s, v, "loaded") => OwedBy(s, v, "loaded")' \/ OwedBy(s, v, "purged")'
                                         \/ Reached(s, v)'
           /\ OwedBy(s, v, "purged") => OwedBy(s, v, "purged")' \/ OwedNext(s, v)'
                                         \/ Reached(s, v)'
           /\ OwedNext(s, v) => OwedNext(s, v)' \/ Reached(s, v)'
<1>0. TypeInv /\ TypeOK /\ policy \in 0..MaxPolicy /\ v \in 1..MaxPolicy /\ MaxPolicy \in Nat
      /\ policy >= v
  BY ConstantsOK DEF ReachInv, TypeInv, TypeOK, Owed
<1>1. policy' \in Nat /\ policy' >= policy
  BY <1>0, CheckFrame
  DEF Next, Heartbeat, Logoff, Logon, SessionChange, HeartbeatLoad, HeartbeatPurge, HeartbeatCopy,
      HeartbeatPush, HeartbeatDone, LogoffPurge, LogonBegin, LogonToken, LogonRefused,
      LogoffClearToken, LogoffClearBundle, LogonBundle, LogonPurge, SessionAdd,
      SessionLoadBundle, SessionRemove, SessionStop, SessionLoadProfile, service, vars
<1>2. Owed(s, v)' \/ Reached(s, v)'
  BY <1>0, <1>1 DEF Owed
<1>3. CASE HeartbeatLoad \/ HeartbeatPurge \/ HeartbeatDone
  <2>1. ctl' = ctl /\ hb.pc \notin {"purged"} /\ (hb.pc = "loaded" => hb'.pc = "purged")
        /\ (OwedNext(s, v) => FALSE)
    BY <1>0, <1>3 DEF HeartbeatLoad, HeartbeatPurge, HeartbeatDone, TypeOK, service, OwedNext, OwedBy
  <2> QED
    BY <1>2, <2>1 DEF OwedByLogon, OwedBy
<1>4. CASE HeartbeatCopy
  <2>1. ctl' = ctl /\ hb.pc = "purged" /\ hb'.pc = "pushing" /\ s \in hb'.todo
    BY <1>4 DEF HeartbeatCopy, InMap, Owed, Reached
  <2> QED
    BY <1>2, <2>1 DEF OwedByLogon, OwedBy, OwedNext
<1>5. ASSUME NEW t \in Sessions, HeartbeatPush(t)
      PROVE  /\ OwedByLogon(s, v) => OwedByLogon(s, v)' \/ Reached(s, v)'
             /\ OwedNext(s, v) => OwedNext(s, v)' \/ Reached(s, v)'
             /\ hb.pc = "pushing"
  <2>1. hb.pc = "pushing" /\ hb'.pc = "pushing" /\ hb'.todo = hb.todo \ {t} /\ ctl' = ctl
    BY <1>0, <1>5 DEF HeartbeatPush, TypeOK
  <2>2. t = s => Reached(s, v)'
    BY <1>0, <1>5, BundleSet DEF HeartbeatPush
  <2> QED
    BY <1>2, <2>1, <2>2 DEF OwedByLogon, OwedBy, OwedNext
<1>6. CASE LogonBundle
  <2>1. ctl[Pipe].sid \in Sessions /\ ctl[Pipe].pc = "setBundle" /\ hb' = hb
    BY <1>0, <1>6 DEF LogonBundle, TypeInv, ControlOK, Threads
  <2>2. ctl[Pipe].sid = s => Reached(s, v)'
    BY <1>0, <1>6, <2>1, BundleSet DEF LogonBundle
  <2> QED
    BY <1>2, <2>1, <2>2 DEF OwedByLogon, OwedBy, OwedNext
<1>7. CASE (Logon \/ Logoff) /\ ~LogonBundle
  <2>1. hb' = hb
    BY <1>7 DEF Logon, Logoff, LogoffPurge, LogonBegin, LogonToken, LogonRefused,
                LogoffClearToken, LogoffClearBundle, LogonPurge
  <2>2. ctl[Pipe].pc = "setBundle" => ctl'[Pipe] = ctl[Pipe]
    <3>1. CASE Logon
      BY <1>7, <3>1 DEF Logon, LogonBegin, LogonToken, LogonRefused, LogonPurge
    <3>2. CASE Logoff
      BY <1>0, <3>2
      DEF Logoff, LogoffPurge, LogoffClearToken, LogoffClearBundle, TypeOK, Threads, AtRest
    <3> QED
      BY <1>7, <3>1, <3>2
  <2> QED
    BY <1>2, <2>1, <2>2 DEF OwedByLogon, OwedBy, OwedNext
<1>8. CASE SessionChange \/ Check \/ Filter \/ UNCHANGED vars
  <2>1. hb' = hb /\ ctl' = ctl
    BY <1>8, CheckFrame DEF SessionChange, SessionAdd, SessionLoadBundle, SessionRemove,
                            SessionStop, SessionLoadProfile, vars
  <2> QED
    BY <1>2, <2>1 DEF OwedByLogon, OwedBy, OwedNext
<1> QED
  BY <1>2, <1>3, <1>4, <1>5, <1>6, <1>7, <1>8 DEF Next, Heartbeat, OwedBy, OwedNext

\* Who owes the bundle pays, or passes the debt on.
LEMMA OwedPaid ==
    ASSUME ReachInv, NEW s \in Sessions, NEW v
    PROVE  /\ OwedByLogon(s, v) /\ <<LogonBundle>>_vars => Reached(s, v)'
           /\ OwedBy(s, v, "loaded") /\ <<HeartbeatPurge>>_vars
                  => OwedBy(s, v, "purged")' \/ Reached(s, v)'
           /\ OwedBy(s, v, "purged") /\ <<HeartbeatCopy>>_vars
                  => OwedNext(s, v)' \/ Reached(s, v)'
           /\ OwedNext(s, v) /\ <<HeartbeatPush(s)>>_vars => Reached(s, v)'
<1>0. TypeInv /\ TypeOK
  BY DEF ReachInv, TypeInv
<1>1. ASSUME OwedByLogon(s, v), LogonBundle PROVE Reached(s, v)'
  <2>1. Owed(s, v) /\ ctl[Pipe].sid = s
    BY <1>1 DEF OwedByLogon
  <2> QED
    BY <1>0, <1>1, <2>1, BundleSet DEF LogonBundle
<1>2. ASSUME OwedBy(s, v, "loaded"), HeartbeatPurge
      PROVE  OwedBy(s, v, "purged")' \/ Reached(s, v)'
  BY <1>0, <1>2 DEF OwedBy, Owed, Reached, HeartbeatPurge, TypeOK, service
<1>3. ASSUME OwedBy(s, v, "purged"), HeartbeatCopy
      PROVE  OwedNext(s, v)' \/ Reached(s, v)'
  BY <1>0, <1>3 DEF OwedNext, OwedBy, Owed, Reached, HeartbeatCopy, InMap, service
<1>4. ASSUME OwedNext(s, v), HeartbeatPush(s) PROVE Reached(s, v)'
  <2>1. Owed(s, v)
    BY <1>4 DEF OwedNext, OwedBy
  <2> QED
    BY <1>0, <1>4, <2>1, BundleSet DEF HeartbeatPush
<1> QED
  BY <1>1, <1>2, <1>3, <1>4

\* FairSpec is fair to every push of the heartbeat.
LEMMA PushesFair == FairSpec => (\A s \in Sessions : PushFair(s))
  BY PTL DEF FairSpec

\* Every policy the heartbeat has loaded reaches every session that is logged on
\* and stays so: under the fairness of FairSpec, for any number of sessions,
\* users and policies, whatever logons and session changes happen meanwhile.
THEOREM PolicyGetsThrough == FairSpec /\ []StepsEnabled => PolicyReachesSessions
<1> SUFFICES ASSUME NEW s \in Sessions, NEW v \in 1..MaxPolicy
             PROVE  FairSpec /\ []StepsEnabled =>
                        ((policy = v /\ phase[s] = "running" /\ token[s] # NoUser)
                             ~> \/ bundle[s].ver >= v
                                \/ phase[s] # "running" \/ token[s] = NoUser
                                \/ crossed[s])
  BY DEF PolicyReachesSessions
<1>1. FairSpec => PushFair(s)
  BY PushesFair
<1>2. StepsEnabled => (OwedNext(s, v) => ENABLED <<HeartbeatPush(s)>>_vars)
  BY DEF StepsEnabled, OwedNext, OwedBy
<1>3. StepsEnabled => /\ OwedBy(s, v, "loaded") => ENABLED <<HeartbeatPurge>>_vars
                      /\ OwedBy(s, v, "purged") => ENABLED <<HeartbeatCopy>>_vars
                      /\ OwedByLogon(s, v) => ENABLED <<LogonBundle>>_vars
  BY DEF StepsEnabled, OwedBy, OwedByLogon
<1>4. ReachInv /\ [Next]_vars =>
          /\ OwedByLogon(s, v) => OwedByLogon(s, v)' \/ Reached(s, v)'
          /\ OwedBy(s, v, "loaded") => OwedBy(s, v, "loaded")' \/ OwedBy(s, v, "purged")'
                                        \/ Reached(s, v)'
          /\ OwedBy(s, v, "purged") => OwedBy(s, v, "purged")' \/ OwedNext(s, v)'
                                        \/ Reached(s, v)'
          /\ OwedNext(s, v) => OwedNext(s, v)' \/ Reached(s, v)'
  BY OwedStep DEF OwedByLogon, OwedBy, OwedNext
<1>5. ReachInv =>
          /\ OwedByLogon(s, v) /\ <<LogonBundle>>_vars => Reached(s, v)'
          /\ OwedBy(s, v, "loaded") /\ <<HeartbeatPurge>>_vars
                 => OwedBy(s, v, "purged")' \/ Reached(s, v)'
          /\ OwedBy(s, v, "purged") /\ <<HeartbeatCopy>>_vars
                 => OwedNext(s, v)' \/ Reached(s, v)'
          /\ OwedNext(s, v) /\ <<HeartbeatPush(s)>>_vars => Reached(s, v)'
  BY OwedPaid
<1>6. ReachInv /\ Owed(s, v) => \/ OwedByLogon(s, v) \/ OwedNext(s, v)
                                \/ OwedBy(s, v, "loaded") \/ OwedBy(s, v, "purged")
  BY OwedBySomebody
<1>7. ReachInv /\ policy = v => Owed(s, v) \/ Reached(s, v)
  BY DEF ReachInv, TypeInv, TypeOK, Owed
<1>8. Reached(s, v) => \/ bundle[s].ver >= v \/ phase[s] # "running" \/ token[s] = NoUser
                       \/ crossed[s]
  BY DEF Reached
<1>9. FairSpec => Spec /\ WF_vars(HeartbeatPurge) /\ WF_vars(HeartbeatCopy)
                  /\ WF_vars(LogonBundle)
  BY PTL DEF FairSpec
<1>10. FairSpec /\ []StepsEnabled => (OwedNext(s, v) ~> Reached(s, v))
  BY <1>1, <1>2, <1>4, <1>5, <1>9, ReachInvHolds, PTL DEF Spec, PushFair
<1>11. FairSpec /\ []StepsEnabled => (OwedBy(s, v, "purged") ~> OwedNext(s, v) \/ Reached(s, v))
  BY <1>3, <1>4, <1>5, <1>9, ReachInvHolds, PTL DEF Spec
<1>12. FairSpec /\ []StepsEnabled
           => (OwedBy(s, v, "loaded") ~> OwedBy(s, v, "purged") \/ Reached(s, v))
  BY <1>3, <1>4, <1>5, <1>9, ReachInvHolds, PTL DEF Spec
<1>13. FairSpec /\ []StepsEnabled => (OwedByLogon(s, v) ~> Reached(s, v))
  BY <1>3, <1>4, <1>5, <1>9, ReachInvHolds, PTL DEF Spec
<1> QED
  BY <1>6, <1>7, <1>8, <1>9, <1>10, <1>11, <1>12, <1>13, ReachInvHolds, PTL
=============================================================================
