---------------------------- MODULE RightsRefresh ----------------------------
(***************************************************************************)
(* How a change of policy or of user reaches the rights a process is       *)
(* granted on a protected file.                                            *)
(*                                                                         *)
(* Five kinds of actors share the state:                                   *)
(*   - the heartbeat job (one thread, jobpool.cpp) loads a new policy      *)
(*     bundle, purges the filter driver's rights cache and then rebuilds   *)
(*     the bundle of every session;                                        *)
(*   - the control pipe (one thread, asyncpipe.cpp, global.cpp) runs the   *)
(*     logon and logoff requests of the tray applications, one at a time;  *)
(*   - the workers of the core driver's queue (drvcore.cpp) run logoff     *)
(*     requests too, at the same time as the control pipe and as each      *)
(*     other;                                                              *)
(*   - the service control handler (one thread, nxrmsvc.cpp) adds, starts, *)
(*     removes and stops sessions;                                         *)
(*   - kernel threads that open a protected file: on a cache miss the      *)
(*     filter sends a check-rights message, a service worker evaluates it, *)
(*     and the kernel thread stores the reply in the process's cache.      *)
(*                                                                         *)
(* Every session authenticates externally (profile::ExternalAuthn): with   *)
(* Windows authentication nobody logs on or off.  A policy bundle is its   *)
(* version, 0 for the empty one, with the user its rules were filtered     *)
(* for.  A decision is the user and the bundle it was computed from; what  *)
(* rights it grants is a function of these and is left out.                *)
(***************************************************************************)
EXTENDS Naturals, FiniteSets

CONSTANTS Sessions,    \* Windows sessions the service sees
          Users,       \* users that can log on through RMS
          NoUser,      \* the empty authentication token
          Procs,       \* processes that open protected files
          SessionOf,   \* the session of each process
          Files,       \* protected files (FileNameHash)
          Requests,    \* kernel threads inside nxrmfltCheckRights
          NoRights,    \* evaluation of a session nobody is logged on to
          NoEntry,     \* absence of a node in a process's rights cache
          NoSession,   \* a control thread serves nobody
          Pipe,        \* the thread of the control pipe
          DrvWorkers,  \* the workers of serv_drv
          MaxPolicy    \* bound: policy versions the server publishes

ASSUME ConstantsOK ==
    /\ NoUser \notin Users
    /\ SessionOf \in [Procs -> Sessions]
    /\ MaxPolicy \in Nat
    /\ NoSession \notin Sessions
    /\ Pipe \notin DrvWorkers

VARIABLES
    policy,    \* GLOBAL._policy_bundle
    phase,     \* where each session is in its life, see Phases
    token,     \* session::_profile.token()
    expired,   \* whether that token has expired
    bundle,    \* session::_bundle
    hb,        \* the heartbeat job: [pc, todo]
    ctl,       \* each thread that logs users on or off: [pc, sid]
    req,       \* the check-rights call of each kernel thread
    rights,    \* NXL_PROCESS_NODE.RightsCache of each process
    synced,    \* history: last change of the session was followed by a purge
    crossed    \* history: a logoff has cleared the bundle of a later logon

service == <<policy, phase, token, expired, bundle>>
vars == <<policy, phase, token, expired, bundle, hb, ctl, req, rights, synced, crossed>>

-----------------------------------------------------------------------------
(* Data *)

Threads == DrvWorkers \cup {Pipe}
AtRest == [pc |-> "idle", sid |-> NoSession]

\* absent: not in serv_session::_map; added: in the map, start() not begun;
\* loaded: start() has read the profile; running: start() has returned;
\* removed: taken out of the map; ended: stop() has returned.
Phases == {"absent", "added", "loaded", "running", "removed", "ended"}
InMap(s) == phase[s] \in {"added", "loaded", "running"}

Bundles == [ver : 0..MaxPolicy, user : Users \cup {NoUser}]
EmptyBundle == [ver |-> 0, user |-> NoUser]

\* What set_session_policy_bundle(GLOBAL.policy_bundle()) leaves in the session.
BundleFor(v, u) == IF v = 0 THEN EmptyBundle ELSE [ver |-> v, user |-> u]

\* A granting or denying evaluation, or none because nobody was logged on.
Decisions == [user : Users \cup {NoUser}, bundle : Bundles] \cup {NoRights}
Entries == [dec : Decisions, late : BOOLEAN]

\* profile::logged_on(): a stopped session has an empty profile.
LoggedOn(s) == phase[s] # "ended" /\ token[s] # NoUser
UserOf(s) == IF LoggedOn(s) THEN token[s] ELSE NoUser

\* A call of nxrmfltCheckRights: where it is, what it has read, what it will
\* store, and (history) whether a purge has overtaken it.
Calls == [pc : {"idle", "sent", "found", "subject", "evaluate", "insert"},
          proc : Procs \cup {NoEntry}, file : Files \cup {NoEntry},
          user : Users \cup {NoUser}, dec : Decisions, late : BOOLEAN]
Idle == [pc |-> "idle", proc |-> NoEntry, file |-> NoEntry,
         user |-> NoUser, dec |-> NoRights, late |-> FALSE]
InFlight(r) == req[r].pc # "idle"

\* A request past the point where the worker has read the user: what it will
\* store was decided, wholly or in part, before a purge that happens now.
Decided(r) == req[r].pc \in {"evaluate", "insert"}

\* A thread is in the middle of changing the session's user.
Changing(s) == \E t \in Threads : ctl[t].sid = s /\ ctl[t].pc # "authn"

TypeOK ==
    /\ policy \in 0..MaxPolicy
    /\ phase \in [Sessions -> Phases]
    /\ token \in [Sessions -> Users \cup {NoUser}]
    /\ expired \in [Sessions -> BOOLEAN]
    /\ bundle \in [Sessions -> Bundles]
    /\ hb \in [pc : {"idle", "loaded", "purged", "pushing"}, todo : SUBSET Sessions]
    /\ ctl \in [Threads ->
                  [pc : {"idle", "clearToken", "clearBundle", "authn", "setBundle", "purge"},
                   sid : Sessions \cup {NoSession}]]
    /\ req \in [Requests -> Calls]
    /\ rights \in [Procs -> [Files -> Entries \cup {NoEntry}]]
    /\ synced \in [Sessions -> BOOLEAN]
    /\ crossed \in [Sessions -> BOOLEAN]

\* The service starts with the policy it saved last (or none), no session, and
\* the driver's cache purged by serv_flt::start().
Init ==
    /\ policy \in 0..MaxPolicy
    /\ phase = [s \in Sessions |-> "absent"]
    /\ token = [s \in Sessions |-> NoUser]
    /\ expired = [s \in Sessions |-> FALSE]
    /\ bundle = [s \in Sessions |-> EmptyBundle]
    /\ hb = [pc |-> "idle", todo |-> {}]
    /\ ctl = [t \in Threads |-> AtRest]
    /\ req = [r \in Requests |-> Idle]
    /\ rights = [p \in Procs |-> [f \in Files |-> NoEntry]]
    /\ synced = [s \in Sessions |-> FALSE]
    /\ crossed = [s \in Sessions |-> FALSE]

-----------------------------------------------------------------------------
(* The filter driver's handling of nxrmfltPolicyChanged: every node of every
   process's rights cache is freed.  Calls in flight are not affected; the
   model remembers which of them were overtaken. *)
PurgeAll ==
    /\ rights' = [p \in Procs |-> [f \in Files |-> NoEntry]]
    /\ req' = [r \in Requests |-> [req[r] EXCEPT !.late = req[r].late \/ Decided(r)]]

(* session::set_session_policy_bundle(GLOBAL.policy_bundle()) *)
SetSessionPolicyBundle(s) ==
    /\ bundle' = [bundle EXCEPT ![s] = BundleFor(policy, UserOf(s))]
    /\ synced' = [synced EXCEPT ![s] = synced[s] /\ bundle'[s] = bundle[s]]
    /\ crossed' = [crossed EXCEPT ![s] = FALSE]

-----------------------------------------------------------------------------
(* job_heartbeat::do_job, from a response that carries a policy bundle *)

\* update_policy_bundle: a new bundle, or the same one on a forced update.
HeartbeatLoad ==
    /\ hb.pc = "idle"
    /\ \E v \in {policy, policy + 1} :
         /\ v \in 1..MaxPolicy
         /\ policy' = v
    /\ hb' = [hb EXCEPT !.pc = "loaded"]
    /\ UNCHANGED <<phase, token, expired, bundle, ctl, req, rights, synced, crossed>>

\* drv_flt().set_policy_changed()
HeartbeatPurge ==
    /\ hb.pc = "loaded"
    /\ PurgeAll
    /\ hb' = [hb EXCEPT !.pc = "purged"]
    /\ UNCHANGED <<service, ctl, synced, crossed>>

\* serv_session().copy(ss)
HeartbeatCopy ==
    /\ hb.pc = "purged"
    /\ hb' = [pc |-> "pushing", todo |-> {s \in Sessions : InMap(s)}]
    /\ UNCHANGED <<service, ctl, req, rights, synced, crossed>>

\* One turn of the loop over the copied sessions.
HeartbeatPush(s) ==
    /\ hb.pc = "pushing"
    /\ s \in hb.todo
    /\ SetSessionPolicyBundle(s)
    /\ hb' = [hb EXCEPT !.todo = hb.todo \ {s}]
    /\ UNCHANGED <<policy, phase, token, expired, ctl, req, rights>>

\* Mutant: an exception while one session is served ends the loop over all.
HeartbeatDoneEarly ==
    /\ hb.pc = "pushing"
    /\ hb' = [pc |-> "idle", todo |-> {}]
    /\ UNCHANGED <<service, ctl, req, rights, synced, crossed>>

HeartbeatDone ==
    /\ hb.pc = "pushing"
    /\ hb.todo = {}
    /\ hb' = [hb EXCEPT !.pc = "idle"]
    /\ UNCHANGED <<service, ctl, req, rights, synced, crossed>>

-----------------------------------------------------------------------------
(* session::logoff, on the control pipe or on a worker of serv_drv
   (CTL_SERV_LOGOUT) *)

\* The session was found before; the service may have removed it since.
LogoffPurge(t, s) ==
    /\ ctl[t].pc = "idle"
    /\ phase[s] \in {"loaded", "running", "removed"}
    /\ PurgeAll
    /\ ctl' = [ctl EXCEPT ![t] = [pc |-> "clearToken", sid |-> s]]
    /\ UNCHANGED <<service, hb, synced, crossed>>

LogoffClearToken(t) ==
    /\ ctl[t].pc = "clearToken"
    /\ token' = [token EXCEPT ![ctl[t].sid] = NoUser]
    /\ expired' = [expired EXCEPT ![ctl[t].sid] = FALSE]
    /\ synced' = [synced EXCEPT ![ctl[t].sid] = FALSE]
    /\ ctl' = [ctl EXCEPT ![t].pc = "clearBundle"]
    /\ UNCHANGED <<policy, phase, bundle, hb, req, rights, crossed>>

\* set_session_policy_bundle(policy_bundle()): whoever is logged on by now.
LogoffClearBundle(t) ==
    LET s == ctl[t].sid IN
    /\ ctl[t].pc = "clearBundle"
    /\ bundle' = [bundle EXCEPT ![s] = EmptyBundle]
    /\ synced' = [synced EXCEPT ![s] = synced[s] /\ bundle[s] = EmptyBundle]
    /\ crossed' = [crossed EXCEPT ![s] = token[s] # NoUser]
    /\ ctl' = [ctl EXCEPT ![t] = AtRest]
    /\ UNCHANGED <<policy, phase, token, expired, hb, req, rights>>

(* session::logon on the control pipe *)

\* The session is looked up and its user authenticated against RMS; it may be
\* removed meanwhile.
LogonBegin(s) ==
    /\ ctl[Pipe].pc = "idle"
    /\ phase[s] \in {"loaded", "running"}
    /\ ctl' = [ctl EXCEPT ![Pipe] = [pc |-> "authn", sid |-> s]]
    /\ UNCHANGED <<service, hb, req, rights, synced, crossed>>

LogonRefused ==
    /\ ctl[Pipe].pc = "authn"
    /\ ctl' = [ctl EXCEPT ![Pipe] = AtRest]
    /\ UNCHANGED <<service, hb, req, rights, synced, crossed>>

\* Mutant: the session keeps its bundle until the next heartbeat.
LogonTokenOnly(u) ==
    /\ ctl[Pipe].pc = "authn"
    /\ token' = [token EXCEPT ![ctl[Pipe].sid] = u]
    /\ expired' = [expired EXCEPT ![ctl[Pipe].sid] = FALSE]
    /\ synced' = [synced EXCEPT ![ctl[Pipe].sid] = FALSE]
    /\ ctl' = [ctl EXCEPT ![Pipe].pc = "purge"]
    /\ UNCHANGED <<policy, phase, bundle, hb, req, rights, crossed>>

LogonToken(u) ==
    /\ ctl[Pipe].pc = "authn"
    /\ token' = [token EXCEPT ![ctl[Pipe].sid] = u]
    /\ expired' = [expired EXCEPT ![ctl[Pipe].sid] = FALSE]
    /\ synced' = [synced EXCEPT ![ctl[Pipe].sid] = FALSE]
    /\ ctl' = [ctl EXCEPT ![Pipe].pc = "setBundle"]
    /\ UNCHANGED <<policy, phase, bundle, hb, req, rights, crossed>>

LogonBundle ==
    /\ ctl[Pipe].pc = "setBundle"
    /\ SetSessionPolicyBundle(ctl[Pipe].sid)
    /\ ctl' = [ctl EXCEPT ![Pipe].pc = "purge"]
    /\ UNCHANGED <<policy, phase, token, expired, hb, req, rights>>

\* Mutant: the driver is not told that the user has changed.
LogonNoPurge ==
    /\ ctl[Pipe].pc = "purge"
    /\ synced' = [synced EXCEPT ![ctl[Pipe].sid] = LoggedOn(ctl[Pipe].sid)]
    /\ ctl' = [ctl EXCEPT ![Pipe] = AtRest]
    /\ UNCHANGED <<service, hb, req, rights, crossed>>

LogonPurge ==
    /\ ctl[Pipe].pc = "purge"
    /\ PurgeAll
    /\ synced' = [synced EXCEPT ![ctl[Pipe].sid] = LoggedOn(ctl[Pipe].sid)]
    /\ ctl' = [ctl EXCEPT ![Pipe] = AtRest]
    /\ UNCHANGED <<service, hb, crossed>>

-----------------------------------------------------------------------------
(* CRmService::OnSessionLogon and OnSessionLogoff *)

\* The service control handler finishes one notification before the next.
HandlerFree == \A s \in Sessions : phase[s] \notin {"added", "loaded", "removed"}

SessionAdd(s) ==
    /\ HandlerFree
    /\ phase[s] = "absent"
    /\ phase' = [phase EXCEPT ![s] = "added"]
    /\ UNCHANGED <<policy, token, expired, bundle, hb, ctl, req, rights, synced, crossed>>

\* session::start: the profile with the token saved by an earlier logon, or
\* none; the tray application is started next.
SessionLoadProfile(s, u) ==
    /\ phase[s] = "added"
    /\ token' = [token EXCEPT ![s] = u]
    /\ \E e \in BOOLEAN : expired' = [expired EXCEPT ![s] = u # NoUser /\ e]
    /\ phase' = [phase EXCEPT ![s] = "loaded"]
    /\ UNCHANGED <<policy, bundle, hb, ctl, req, rights, synced, crossed>>

\* session::start: the bundle of a user already logged on; an expired token is
\* cleared.
SessionLoadBundle(s) ==
    /\ phase[s] = "loaded"
    /\ phase' = [phase EXCEPT ![s] = "running"]
    /\ IF token[s] # NoUser /\ ~expired[s]
       THEN /\ SetSessionPolicyBundle(s)
            /\ UNCHANGED <<token, expired>>
       ELSE /\ token' = [token EXCEPT ![s] = NoUser]
            /\ expired' = [expired EXCEPT ![s] = FALSE]
            /\ synced' = [synced EXCEPT ![s] = FALSE]
            /\ UNCHANGED <<bundle, crossed>>
    /\ UNCHANGED <<policy, hb, ctl, req, rights>>

SessionRemove(s) ==
    /\ HandlerFree
    /\ phase[s] = "running"
    /\ phase' = [phase EXCEPT ![s] = "removed"]
    /\ UNCHANGED <<policy, token, expired, bundle, hb, ctl, req, rights, synced, crossed>>

\* session::stop clears the profile and leaves the bundle.
SessionStop(s) ==
    /\ phase[s] = "removed"
    /\ phase' = [phase EXCEPT ![s] = "ended"]
    /\ token' = [token EXCEPT ![s] = NoUser]
    /\ expired' = [expired EXCEPT ![s] = FALSE]
    /\ synced' = [synced EXCEPT ![s] = FALSE]
    /\ UNCHANGED <<policy, bundle, hb, ctl, req, rights, crossed>>

-----------------------------------------------------------------------------
(* nxrmfltCheckRights in a kernel thread and on_check_rights in a worker *)

\* A cache hit changes nothing.  A miss sends the message, and so does a caller
\* that ignores the cache (nxrmfltqueryea.c 813-816).
CheckSend(r, p, f) ==
    /\ ~InFlight(r)
    /\ req' = [req EXCEPT ![r] = [Idle EXCEPT !.pc = "sent", !.proc = p, !.file = f]]
    /\ UNCHANGED <<service, hb, ctl, rights, synced, crossed>>

\* The worker looks the session up; the answer to an unknown one is "no rights,
\* do not cache".
ServFindSession(r) ==
    /\ req[r].pc = "sent"
    /\ req' = [req EXCEPT ![r] = IF InMap(SessionOf[req[r].proc])
                                 THEN [req[r] EXCEPT !.pc = "found"]
                                 ELSE Idle]
    /\ UNCHANGED <<service, hb, ctl, rights, synced, crossed>>

\* The same answer when nobody is logged on.  A session stopped since it was
\* found counts as one with Windows authentication and passes.
ServCheckLogon(r) ==
    LET s == SessionOf[req[r].proc] IN
    /\ req[r].pc = "found"
    /\ req' = [req EXCEPT ![r] = IF phase[s] = "ended" \/ LoggedOn(s)
                                 THEN [req[r] EXCEPT !.pc = "subject"]
                                 ELSE Idle]
    /\ UNCHANGED <<service, hb, ctl, rights, synced, crossed>>

\* The user's identity becomes an attribute of the evaluation.
ServReadUser(r) ==
    /\ req[r].pc = "subject"
    /\ req' = [req EXCEPT ![r].pc = "evaluate",
                          ![r].user = UserOf(SessionOf[req[r].proc])]
    /\ UNCHANGED <<service, hb, ctl, rights, synced, crossed>>

\* session::evaluate, under the shared bundle lock.
ServEvaluate(r) ==
    LET s == SessionOf[req[r].proc] IN
    /\ req[r].pc = "evaluate"
    /\ req' = [req EXCEPT ![r].pc = "insert",
                          ![r].dec = IF LoggedOn(s)
                                     THEN [user |-> req[r].user, bundle |-> bundle[s]]
                                     ELSE NoRights]
    /\ UNCHANGED <<service, hb, ctl, rights, synced, crossed>>

\* Collecting the other attributes of the evaluation fails with an exception:
\* the answer is "no rights", and it may be cached.
ServFails(r) ==
    /\ req[r].pc = "evaluate"
    /\ req' = [req EXCEPT ![r].pc = "insert", ![r].dec = NoRights]
    /\ UNCHANGED <<service, hb, ctl, rights, synced, crossed>>

\* Mutant: the node is linked before its fields are set.
CheckInsertBare(r) ==
    /\ req[r].pc = "insert"
    /\ rights' = [rights EXCEPT ![req[r].proc][req[r].file] = req[r].dec]
    /\ req' = [req EXCEPT ![r] = Idle]
    /\ UNCHANGED <<service, hb, ctl, synced, crossed>>

\* The reply reaches the kernel thread, which adds a node or updates the one
\* another thread of the process has added meanwhile.
CheckInsert(r) ==
    /\ req[r].pc = "insert"
    /\ rights' = [rights EXCEPT ![req[r].proc][req[r].file] =
                     [dec |-> req[r].dec, late |-> req[r].late]]
    /\ req' = [req EXCEPT ![r] = Idle]
    /\ UNCHANGED <<service, hb, ctl, synced, crossed>>

\* The reply says RIGHTS_NOT_CACHE (the file's attributes could not be read),
\* the message times out, or the send fails: nothing is stored.
CheckWithoutCaching(r) ==
    /\ InFlight(r)
    /\ req' = [req EXCEPT ![r] = Idle]
    /\ UNCHANGED <<service, hb, ctl, rights, synced, crossed>>

\* nxrmfltPurgeRightsCache: the file was closed, deleted, renamed or changed.
PurgeFile(f) ==
    /\ rights' = [p \in Procs |-> [rights[p] EXCEPT ![f] = NoEntry]]
    /\ UNCHANGED <<service, hb, ctl, req, synced, crossed>>

\* nxrmfltCreateProcessNotifyEx on exit: the process node is freed once no
\* thread holds its rundown protection.
ProcessExit(p) ==
    /\ \A r \in Requests : req[r].proc # p
    /\ rights' = [rights EXCEPT ![p] = [f \in Files |-> NoEntry]]
    /\ UNCHANGED <<service, hb, ctl, req, synced, crossed>>

-----------------------------------------------------------------------------
Heartbeat == \/ HeartbeatLoad \/ HeartbeatPurge \/ HeartbeatCopy \/ HeartbeatDone
             \/ \E s \in Sessions : HeartbeatPush(s)
Logoff == \E t \in Threads : \/ \E s \in Sessions : LogoffPurge(t, s)
                              \/ LogoffClearToken(t) \/ LogoffClearBundle(t)
Logon == \/ \E s \in Sessions : LogonBegin(s)
         \/ \E u \in Users : LogonToken(u)
         \/ LogonRefused \/ LogonBundle \/ LogonPurge
SessionChange == \E s \in Sessions :
                    \/ SessionAdd(s) \/ SessionLoadBundle(s)
                    \/ SessionRemove(s) \/ SessionStop(s)
                    \/ \E u \in Users \cup {NoUser} : SessionLoadProfile(s, u)
Check == \/ \E r \in Requests : \/ ServFindSession(r) \/ ServCheckLogon(r)
                                \/ ServReadUser(r) \/ ServEvaluate(r)
                                \/ ServFails(r) \/ CheckInsert(r)
                                \/ CheckWithoutCaching(r)
         \/ \E r \in Requests, p \in Procs, f \in Files : CheckSend(r, p, f)
Filter == \/ \E f \in Files : PurgeFile(f)
          \/ \E p \in Procs : ProcessExit(p)

Next == Heartbeat \/ Logoff \/ Logon \/ SessionChange \/ Check \/ Filter

Spec == Init /\ [][Next]_vars

\* A thread that has begun a heartbeat, a logon, a logoff or a session change
\* finishes it: nothing on these paths waits for another party once the policy
\* or the user has changed.  When one begins is left open.
PushFair(s) == WF_vars(HeartbeatPush(s))
LogoffFair(t) == WF_vars(LogoffClearToken(t)) /\ WF_vars(LogoffClearBundle(t))
FairSpec ==
    /\ Spec
    /\ WF_vars(HeartbeatPurge) /\ WF_vars(HeartbeatCopy) /\ WF_vars(HeartbeatDone)
    /\ \A s \in Sessions : PushFair(s)
    /\ WF_vars(LogonBundle) /\ WF_vars(LogonPurge)
    /\ \A t \in Threads : LogoffFair(t)

-----------------------------------------------------------------------------
(* Properties *)

ProcsOf(s) == {p \in Procs : SessionOf[p] = s}
Cached(p) == {f \in Files : rights[p][f] # NoEntry}

\* A logged-on session that neither the heartbeat nor a logon or logoff is in
\* the middle of changing holds the current policy, filtered for the user now
\* logged on: a session started, or a user logged on, while a heartbeat runs is
\* not left with the bundle the heartbeat replaces (session.cpp 769-792,
\* jobpool.cpp 285-300).  The exception is a session whose bundle a logoff on
\* another thread cleared after the user had logged on (session.cpp 1117-1118
\* around 1143-1150): it stays without policies until it is given a bundle.
SessionBundleCurrent ==
    \A s \in Sessions :
        phase[s] = "running" /\ token[s] # NoUser /\ ~Changing(s) /\ ~crossed[s] =>
            \/ bundle[s] = BundleFor(policy, token[s])
            \/ hb.pc \in {"loaded", "purged"}
            \/ s \in hb.todo

\* A policy version that the heartbeat has loaded reaches every session that is
\* logged on and stays so, whatever logons, logoffs and session changes happen
\* meanwhile (jobpool.cpp 285-300), unless a logoff on another thread clears the
\* bundle of the user who has logged on since.
PolicyReachesSessions ==
    \A s \in Sessions, v \in 1..MaxPolicy :
        (policy = v /\ phase[s] = "running" /\ token[s] # NoUser)
            ~> \/ bundle[s].ver >= v
               \/ phase[s] # "running" \/ token[s] = NoUser
               \/ crossed[s]

\* After a logon, and until the session's user or policy changes again, the
\* driver's cache holds for the session's processes only decisions made for
\* that user under that policy, except those of calls the purge overtook after
\* they had read the user (session.cpp 1146-1153: "Notify driver to clean cache
\* because the policy has been changed for this user").
FreshAfterLogon ==
    \A s \in Sessions : synced[s] =>
        \A p \in ProcsOf(s) : \A f \in Cached(p) :
            LET e == rights[p][f] IN
            e.late \/ e.dec \in {NoRights, [user |-> token[s], bundle |-> bundle[s]]}

\* on_check_rights reads the user and, later, the bundle, with no lock over the
\* two (drvflt.cpp 557-562, session.cpp 1500-1520).  Outside the rebuilding of a
\* logon, a cached decision still never combines one user's identity with the
\* policies filtered for another, unless the call was overtaken by a purge.
Rebuilding(s) == ctl[Pipe].sid = s /\ ctl[Pipe].pc \in {"setBundle", "purge"}
UsersAgree(d) == d = NoRights \/ NoUser \in {d.user, d.bundle.user} \/ d.user = d.bundle.user
NoMixedDecision ==
    \A s \in Sessions : ~Rebuilding(s) =>
        \A p \in ProcsOf(s) : \A f \in Cached(p) :
            LET e == rights[p][f] IN e.late \/ UsersAgree(e.dec)

-----------------------------------------------------------------------------
(* Inductive strengthenings *)

CallsOK == \A r \in Requests :
               InFlight(r) => req[r].proc \in Procs /\ req[r].file \in Files
ControlOK == \A t \in Threads : ctl[t].pc # "idle" =>
                 /\ ctl[t].sid \in Sessions /\ phase[ctl[t].sid] \notin {"absent", "added"}
                 /\ ctl[t].pc \in {"authn", "setBundle", "purge"} => t = Pipe
TypeInv == TypeOK /\ CallsOK /\ ControlOK

\* The bundle is current even while a thread is in the middle of a change,
\* except between a logon's new token and its new bundle.
NoBundleYet(s) == ctl[Pipe].sid = s /\ ctl[Pipe].pc = "setBundle"
CurrentInv ==
    \A s \in Sessions :
        phase[s] = "running" /\ token[s] # NoUser /\ ~NoBundleYet(s) /\ ~crossed[s] =>
            \/ bundle[s] = BundleFor(policy, token[s])
            \/ hb.pc \in {"loaded", "purged"}
            \/ s \in hb.todo

\* No call that a purge has not overtaken has read another user, or another
\* bundle, than the session has since its last logon.
SyncedOK ==
    \A s \in Sessions : synced[s] =>
        /\ token[s] # NoUser
        /\ phase[s] \in {"loaded", "running", "removed"}
        /\ ~Rebuilding(s)
CallFresh(r) ==
    LET s == SessionOf[req[r].proc] IN
    InFlight(r) /\ ~req[r].late /\ synced[s] =>
        /\ req[r].pc = "evaluate" => req[r].user = token[s]
        /\ req[r].pc = "insert" =>
              req[r].dec \in {NoRights, [user |-> token[s], bundle |-> bundle[s]]}
FreshInv == SyncedOK /\ FreshAfterLogon /\ \A r \in Requests : CallFresh(r)

\* Outside a logon's rebuilding, the user a call has read and the user the
\* bundle was filtered for are the user logged on, or nobody.
NobodyYet ==
    \A s \in Sessions : phase[s] \in {"absent", "added"} =>
        /\ token[s] = NoUser
        /\ bundle[s].user = NoUser
        /\ \A r \in Requests : InFlight(r) /\ SessionOf[req[r].proc] = s =>
              req[r].pc \notin {"subject", "evaluate", "insert"}
BundleOwner ==
    \A s \in Sessions : LoggedOn(s) /\ ~NoBundleYet(s) =>
        bundle[s].user \in {NoUser, token[s]}
CallAgrees(r) ==
    LET s == SessionOf[req[r].proc] IN
    InFlight(r) /\ ~req[r].late /\ ~Rebuilding(s) =>
        /\ req[r].pc = "evaluate" /\ LoggedOn(s) => req[r].user \in {NoUser, token[s]}
        /\ req[r].pc = "insert" => UsersAgree(req[r].dec)
MixedInv == /\ NobodyYet /\ BundleOwner /\ NoMixedDecision
            /\ \A r \in Requests : CallAgrees(r)

-----------------------------------------------------------------------------
(* Promises of the code's comments that the code does not keep *)

\* What the comment in session::logoff promises ("Notify driver to clean cache
\* because user has logged off", session.cpp 1112): once the user is logged off,
\* no decision for that user stays in the cache, not counting calls that the
\* purge overtook.
LogoffCleansCache ==
    \A t \in Threads : ctl[t].pc = "clearBundle" /\ token[ctl[t].sid] = NoUser =>
        \A p \in ProcsOf(ctl[t].sid) : \A f \in Cached(p) :
            LET e == rights[p][f] IN e.late \/ e.dec = NoRights

\* What the comment in job_heartbeat::do_job promises ("let driver know that
\* policy has been changed", jobpool.cpp 288): when the heartbeat is done with
\* the sessions, the cache of a logged-on one holds no decision of an older
\* policy, not counting calls that the purge overtook.
RefreshCleansCache ==
    hb.pc = "pushing" /\ hb.todo = {} =>
        \A s \in Sessions : phase[s] = "running" /\ token[s] # NoUser =>
            \A p \in ProcsOf(s) : \A f \in Cached(p) :
                LET e == rights[p][f] IN
                e.late \/ e.dec = NoRights \/ e.dec.bundle.ver \notin 1..(policy - 1)

\* The two promises together: a purge that the code makes because decisions
\* have become wrong leaves none of them behind (session.cpp 1112, jobpool.cpp
\* 288).  Each of the two parts fails by itself.
PurgeCleansCache == LogoffCleansCache /\ RefreshCleansCache
=============================================================================
