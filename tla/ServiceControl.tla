--------------------------- MODULE ServiceControl ---------------------------
(***************************************************************************)
(* The service under the service control manager (SCM).                    *)
(*                                                                         *)
(* Two threads share GLOBAL._status and the map of sessions.  The main     *)
(* thread (IService::Start) reports SERVICE_RUNNING, runs                  *)
(* CRmService::OnStart, which adds the sessions that are active and starts *)
(* them, waits for the stop event and runs OnStop.  The control handler    *)
(* gets one control at a time: pause, continue, stop, and the logons and   *)
(* logoffs of Windows sessions, which it ignores unless the status is      *)
(* serv_running.  The SCM delivers the notifications in order.             *)
(*                                                                         *)
(* Session objects are shared: the map, OnStart's copy of it and the       *)
(* handler refer to them, and whoever drops the last reference runs the    *)
(* destructor, which stops the session once more.  Starting and stopping a *)
(* session wait for its threads and may hang, as may OnStop's wait for the *)
(* jobs (SessionApp and JobPool say when).                                 *)
(***************************************************************************)
EXTENDS Naturals, Sequences

CONSTANTS Sessions,    \* Windows sessions
          MaxNotices,  \* bound: notifications under way
          MaxLogons,   \* bound: logons of Windows users
          MaxPauses    \* bound: pauses

ASSUME ServiceControlConstants ==
    /\ MaxNotices \in Nat \ {0}
    /\ MaxLogons \in Nat
    /\ MaxPauses \in Nat

VARIABLES
    scm,       \* m_Status.dwCurrentState
    stopEvt,   \* m_hStopEvt is signalled
    status,    \* GLOBAL._status
    main,      \* the main thread: [pc, todo, copy], OnStart's copy of the map and
               \* those of it that are yet to be started
    hung,      \* the main thread waits for a thread that does not end
    handler,   \* the control handler: [pc, sid, by]
    map,       \* serv_session::_map: who made the object of each session
    object,    \* life of the session objects
    loggedOn,  \* sessions that are logged on to Windows
    active,    \* those of them whose state is WTSActive
    notices,   \* notifications under way
    missed,    \* history: sessions the service has not heard the latest of
    logons,    \* logons so far
    pauses     \* pauses so far

windows == <<loggedOn, active, notices, logons>>
vars == <<scm, stopEvt, status, main, hung, handler, map, object, windows, missed, pauses>>

-----------------------------------------------------------------------------
None == "none"
Notices == [kind : {"logon", "logoff"}, sid : Sessions]

\* OnStart and the handler each make one object of a session at most at a time.
Makers == {"onStart", "handler"}
Objects == Sessions \X Makers
Life == {"none", "added", "starting", "started", "stopped", "broken"}

TypeOK ==
    /\ scm \in {"running", "paused", "stopPending", "stopped"}
    /\ stopEvt \in BOOLEAN
    /\ status \in {"startPending", "running", "paused", "stopPending", "stopped"}
    /\ main \in [pc : {"start", "sessions", "starting", "started", "wait", "jobs", "clearing",
                       "stopped", "end"},
                 todo : SUBSET Sessions, copy : SUBSET Sessions]
    /\ hung \in BOOLEAN
    /\ handler \in [pc : {"idle", "signal", "report", "logon", "start", "starting", "logoff",
                          "stop", "return"},
                    sid : Sessions \cup {None}, by : Makers \cup {None}]
    /\ map \in [Sessions -> Makers \cup {None}]
    /\ object \in [Objects -> Life]
    /\ loggedOn \subseteq Sessions
    /\ active \subseteq loggedOn
    /\ notices \in Seq(Notices)
    /\ missed \subseteq Sessions
    /\ logons \in 0..MaxLogons
    /\ pauses \in 0..MaxPauses

\* Start() has reported SERVICE_RUNNING and begins OnStart.
Init ==
    /\ scm = "running"
    /\ stopEvt = FALSE
    /\ status = "startPending"
    /\ main = [pc |-> "start", todo |-> {}, copy |-> {}]
    /\ hung = FALSE
    /\ handler = [pc |-> "idle", sid |-> None, by |-> None]
    /\ map = [s \in Sessions |-> None]
    /\ object = [o \in Objects |-> "none"]
    /\ loggedOn \in SUBSET Sessions
    /\ active \in SUBSET loggedOn
    /\ notices = <<>>
    /\ missed = {}
    /\ logons = 0
    /\ pauses = 0

-----------------------------------------------------------------------------
(* Session objects *)

Served == {s \in Sessions : map[s] # None}

\* What the handler works on from its lookup to its return.
Handled == {<<handler.sid, handler.by>>} \cap Objects

\* session::start, from its beginning to its end, and session::stop.
Begun(o) == [object EXCEPT ![o] = IF @ = "added" THEN "starting" ELSE "broken"]
Ready(o) == [object EXCEPT ![o] = IF @ = "starting" THEN "started" ELSE "broken"]
Halted(o) == [object EXCEPT ![o] = IF @ \in {"starting", "broken"} THEN "broken" ELSE "stopped"]

\* Objects that lose their last reference: ~session stops them, again if they
\* have been stopped, and their memory is freed.
Destroyed(gone) ==
    [o \in Objects |-> IF o \notin gone THEN object[o]
                       ELSE IF object[o] \in {"starting", "broken"} THEN "broken" ELSE "none"]

Mapped == {o \in Objects : map[o[1]] = o[2]}
Copied == main.copy \X {"onStart"}

-----------------------------------------------------------------------------
(* The main thread: OnStart, the wait, OnStop *)

MainTo(pc) == main' = [main EXCEPT !.pc = pc]

\* The drivers cannot be reached: the exception ends OnStart, the status stays.
StartFails ==
    /\ main.pc = "start"
    /\ MainTo("wait")
    /\ UNCHANGED <<scm, stopEvt, status, hung, handler, map, object, windows, missed, pauses>>

\* The sessions WTSEnumerateSessions reports as active are added, and the map is
\* copied.  A session that is logged on but disconnected is passed over.
StartEnumerate ==
    /\ main.pc = "start"
    /\ map' = [s \in Sessions |-> IF s \in active THEN "onStart" ELSE map[s]]
    /\ object' = [o \in Objects |-> IF o \in active \X {"onStart"} THEN "added" ELSE object[o]]
    /\ main' = [pc |-> "sessions", todo |-> active, copy |-> active]
    /\ missed' = loggedOn \ active
    /\ UNCHANGED <<scm, stopEvt, status, hung, handler, windows, pauses>>

StartSession(s) ==
    /\ main.pc = "sessions"
    /\ s \in main.todo
    /\ object' = Begun(<<s, "onStart">>)
    /\ MainTo("starting")
    /\ UNCHANGED <<scm, stopEvt, status, hung, handler, map, windows, missed, pauses>>

StartedSession(s) ==
    /\ main.pc = "starting"
    /\ s \in main.todo
    /\ object[<<s, "onStart">>] = "starting"
    /\ object' = Ready(<<s, "onStart">>)
    /\ main' = [main EXCEPT !.pc = "sessions", !.todo = @ \ {s}]
    /\ UNCHANGED <<scm, stopEvt, status, hung, handler, map, windows, missed, pauses>>

\* Mutant: the service is running before its sessions are.
StartRunningEarly ==
    /\ main.pc = "sessions"
    /\ status' = "running"
    /\ IF main.todo = {} THEN MainTo("started") ELSE UNCHANGED main
    /\ UNCHANGED <<scm, stopEvt, hung, handler, map, object, windows, missed, pauses>>

StartRunning ==
    /\ main.pc = "sessions"
    /\ main.todo = {}
    /\ status' = "running"
    /\ MainTo("started")
    /\ UNCHANGED <<scm, stopEvt, hung, handler, map, object, windows, missed, pauses>>

\* OnStart has started the jobs and drops its copy of the map.
StartReturns ==
    /\ main.pc = "started"
    /\ object' = Destroyed(Copied \ (Mapped \cup Handled))
    /\ main' = [main EXCEPT !.pc = "wait", !.copy = {}]
    /\ UNCHANGED <<scm, stopEvt, status, hung, handler, map, windows, missed, pauses>>

\* OnStop: the drivers, the audit system, then jobs().clear().
StopBegins ==
    /\ main.pc = "wait"
    /\ stopEvt
    /\ status' = "stopPending"
    /\ MainTo("jobs")
    /\ UNCHANGED <<scm, stopEvt, hung, handler, map, object, windows, missed, pauses>>

JobsCleared ==
    /\ main.pc = "jobs"
    /\ MainTo("clearing")
    /\ UNCHANGED <<scm, stopEvt, status, hung, handler, map, object, windows, missed, pauses>>

\* serv_session::clear drops the map's references with the lock held.
StopSessions ==
    /\ main.pc = "clearing"
    /\ object' = Destroyed(Mapped \ Handled)
    /\ map' = [s \in Sessions |-> None]
    /\ MainTo("stopped")
    /\ UNCHANGED <<scm, stopEvt, status, hung, handler, windows, missed, pauses>>

StopEnds ==
    /\ main.pc = "stopped"
    /\ status' = "stopped"
    /\ scm' = "stopped"
    /\ MainTo("end")
    /\ UNCHANGED <<stopEvt, hung, handler, map, object, windows, missed, pauses>>

\* The start of a session, the end of a job or the end of a session does not come.
MainHangs ==
    /\ ~hung
    /\ main.pc \in {"starting", "jobs", "clearing"}
    /\ hung' = TRUE
    /\ UNCHANGED <<scm, stopEvt, status, main, handler, map, object, windows, missed, pauses>>

-----------------------------------------------------------------------------
(* IService::Control on the handler's thread *)

Pause ==
    /\ handler.pc = "idle"
    /\ pauses < MaxPauses
    /\ scm = "running"
    /\ scm' = "paused"
    /\ status' = "paused"
    /\ pauses' = pauses + 1
    /\ UNCHANGED <<stopEvt, main, hung, handler, map, object, windows, missed>>

\* Mutant: the SCM is not told that the pending continuation is over.
ResumePending ==
    /\ handler.pc = "idle"
    /\ scm = "paused"
    /\ scm' = "continuePending"
    /\ status' = "paused"
    /\ UNCHANGED <<stopEvt, main, hung, handler, map, object, windows, missed, pauses>>

\* Resume() calls OnPause, not OnResume.
Resume ==
    /\ handler.pc = "idle"
    /\ scm = "paused"
    /\ scm' = "running"
    /\ status' = "paused"
    /\ UNCHANGED <<stopEvt, main, hung, handler, map, object, windows, missed, pauses>>

HandlerTo(pc) ==
    handler' = IF pc = "idle" THEN [pc |-> pc, sid |-> None, by |-> None]
                              ELSE [handler EXCEPT !.pc = pc]

Stop ==
    /\ handler.pc = "idle"
    /\ scm \in {"running", "paused"}
    /\ scm' = "stopPending"
    /\ HandlerTo("signal")
    /\ UNCHANGED <<stopEvt, status, main, hung, map, object, windows, missed, pauses>>

\* Mutant: a service whose status is paused is not woken.
StopSignalUnlessPaused ==
    /\ handler.pc = "signal"
    /\ stopEvt' = (status # "paused")
    /\ HandlerTo("report")
    /\ UNCHANGED <<scm, status, main, hung, map, object, windows, missed, pauses>>

StopSignal ==
    /\ handler.pc = "signal"
    /\ stopEvt' = TRUE
    /\ HandlerTo("report")
    /\ UNCHANGED <<scm, status, main, hung, map, object, windows, missed, pauses>>

\* The state is read and reported once more: it is what it was before the main
\* thread reported SERVICE_STOPPED, or what it is now.
StopReport ==
    /\ handler.pc = "report"
    /\ scm' \in {"stopPending", scm}
    /\ HandlerTo("idle")
    /\ UNCHANGED <<stopEvt, status, main, hung, map, object, windows, missed, pauses>>

\* OnSessionLogon or OnSessionLogoff begins, and returns at once unless the
\* service is running.
SessionChange ==
    /\ handler.pc = "idle"
    /\ scm \in {"running", "paused"}
    /\ notices # <<>>
    /\ notices' = Tail(notices)
    /\ LET n == Head(notices) IN
       IF status = "running"
       THEN /\ handler' = [pc |-> n.kind, sid |-> n.sid, by |-> None]
            /\ missed' = missed \ {n.sid}
       ELSE /\ missed' = missed \cup {n.sid}
            /\ UNCHANGED handler
    /\ UNCHANGED <<scm, stopEvt, status, main, hung, map, object, loggedOn, active, logons, pauses>>

\* serv_session's lock, and nobody else holds it for long.
LockFree == main.pc # "clearing"

\* serv_session::add: a session that is there is left alone, and the object made
\* for nothing is destroyed.
LogonAdd ==
    /\ handler.pc = "logon"
    /\ LockFree
    /\ IF handler.sid \in Served
       THEN /\ handler' = [handler EXCEPT !.pc = "return", !.by = map[handler.sid]]
            /\ UNCHANGED <<map, object>>
       ELSE /\ handler' = [handler EXCEPT !.pc = "start", !.by = "handler"]
            /\ map' = [map EXCEPT ![handler.sid] = "handler"]
            /\ object' = [object EXCEPT ![<<handler.sid, "handler">>] = "added"]
    /\ UNCHANGED <<scm, stopEvt, status, main, hung, windows, missed, pauses>>

LogonStart ==
    /\ handler.pc = "start"
    /\ object' = Begun(<<handler.sid, handler.by>>)
    /\ HandlerTo("starting")
    /\ UNCHANGED <<scm, stopEvt, status, main, hung, map, windows, missed, pauses>>

LogonStarted ==
    /\ handler.pc = "starting"
    /\ object' = Ready(<<handler.sid, handler.by>>)
    /\ HandlerTo("return")
    /\ UNCHANGED <<scm, stopEvt, status, main, hung, map, windows, missed, pauses>>

\* Mutant: the session's entry stays in the map.
LogoffKeep ==
    /\ handler.pc = "logoff"
    /\ LockFree
    /\ IF handler.sid \in Served
       THEN handler' = [handler EXCEPT !.pc = "stop", !.by = map[handler.sid]]
       ELSE HandlerTo("idle")
    /\ UNCHANGED <<scm, stopEvt, status, main, hung, map, object, windows, missed, pauses>>

LogoffDel ==
    /\ handler.pc = "logoff"
    /\ LockFree
    /\ IF handler.sid \in Served
       THEN handler' = [handler EXCEPT !.pc = "stop", !.by = map[handler.sid]]
       ELSE HandlerTo("idle")
    /\ map' = [map EXCEPT ![handler.sid] = None]
    /\ UNCHANGED <<scm, stopEvt, status, main, hung, object, windows, missed, pauses>>

LogoffStop ==
    /\ handler.pc = "stop"
    /\ object' = Halted(<<handler.sid, handler.by>>)
    /\ HandlerTo("return")
    /\ UNCHANGED <<scm, stopEvt, status, main, hung, map, windows, missed, pauses>>

\* The handler's reference goes.
HandlerReturns ==
    /\ handler.pc = "return"
    /\ object' = Destroyed(Handled \ (Mapped \cup Copied))
    /\ HandlerTo("idle")
    /\ UNCHANGED <<scm, stopEvt, status, main, hung, map, windows, missed, pauses>>

-----------------------------------------------------------------------------
(* Windows *)

UserLogsOn(s) ==
    /\ s \notin loggedOn
    /\ logons < MaxLogons
    /\ Len(notices) < MaxNotices
    /\ loggedOn' = loggedOn \cup {s}
    /\ active' = active \cup {s}
    /\ notices' = Append(notices, [kind |-> "logon", sid |-> s])
    /\ logons' = logons + 1
    /\ UNCHANGED <<scm, stopEvt, status, main, hung, handler, map, object, missed, pauses>>

UserLogsOff(s) ==
    /\ s \in loggedOn
    /\ Len(notices) < MaxNotices
    /\ loggedOn' = loggedOn \ {s}
    /\ active' = active \ {s}
    /\ notices' = Append(notices, [kind |-> "logoff", sid |-> s])
    /\ UNCHANGED <<scm, stopEvt, status, main, hung, handler, map, object, missed, logons, pauses>>

\* The service does nothing on a disconnection or a reconnection.
UserSwitches(s) ==
    /\ s \in loggedOn
    /\ active' = IF s \in active THEN active \ {s} ELSE active \cup {s}
    /\ UNCHANGED <<scm, stopEvt, status, main, hung, handler, map, object, loggedOn, notices,
                   missed, logons, pauses>>

MainThread ==
    /\ ~hung
    /\ \/ StartFails \/ StartEnumerate \/ StartRunning \/ StartReturns
       \/ StopBegins \/ JobsCleared \/ StopSessions \/ StopEnds
       \/ \E s \in Sessions : StartSession(s) \/ StartedSession(s)
Stopping == Stop \/ StopSignal \/ StopReport
Session == SessionChange \/ LogonAdd \/ LogonStart \/ LogonStarted
           \/ LogoffDel \/ LogoffStop \/ HandlerReturns
Windows == \E s \in Sessions : UserLogsOn(s) \/ UserLogsOff(s) \/ UserSwitches(s)

Next == MainThread \/ MainHangs \/ Pause \/ Resume \/ Stopping \/ Session \/ Windows
Spec == Init /\ [][Next]_vars

\* The main thread runs unless it hangs, and a stop is signalled once it has begun; what
\* else the handler does may hang, users and administrators do as they like.
FairSpec == Spec /\ WF_vars(MainThread) /\ WF_vars(StopSignal)

-----------------------------------------------------------------------------
(* Properties *)

\* A session object is started once at most: never by two threads, and never while
\* it is stopped or after, whoever stops it, by logoff or by dropping the last
\* reference, which OnStart's copy, the map or the handler may hold.  What a logoff
\* stops has been started (nxrmsvc.cpp 120-133, 223-235, 262-274; session.cpp
\* 604-607, 841-852, 1737-1742).
SessionStartedOnce ==
    /\ \A o \in Objects : object[o] # "broken"
    /\ handler.pc = "stop" => object[<<handler.sid, handler.by>>] = "started"

\* While the service is running and nothing is under way, it serves exactly the
\* sessions that are logged on, but for those of which it has ignored the latest
\* notification, because it was paused, or passed over in OnStart, because they
\* were disconnected, and has heard nothing since (nxrmsvc.cpp 99-124, 218-275).
ServesActiveSessions ==
    status = "running" /\ handler.pc = "idle" /\ notices = <<>> =>
        Served \ missed = loggedOn \ missed

\* A service told to stop comes to the end of OnStop, also when it is paused or
\* still starting, unless its main thread waits for a session or a job that does
\* not end (svc.cpp 110-122, 138-148; nxrmsvc.cpp 157-187).  The SCM may still be
\* left with SERVICE_STOP_PENDING, when StopReport comes last.
StopIsFinal == (scm = "stopPending") ~> (main.pc = "end" \/ hung)

\* What CRmService::OnResume's log says ("[SERVER] RESUMED", nxrmsvc.cpp
\* 210-216): a service that is continued after a pause runs again.
ResumedServiceRuns ==
    (scm = "running" /\ status = "paused") ~> (status = "running" \/ scm # "running")
=============================================================================
