------------------------------- MODULE JobPool -------------------------------
(***************************************************************************)
(* The job pool of the service: which jobs exist, which thread runs which, *)
(* and how the service starts and stops them.                              *)
(*                                                                         *)
(* The main thread of the service (CRmService::OnStart, OnStop) puts the   *)
(* first jobs into the pool and takes all of them out.  Every job has a    *)
(* thread of its own, which alternates between a turn of do_job and a wait *)
(* for the job's event or interval.  The register job replaces itself by   *)
(* the other three when the agent is registered, and the checkupdate job   *)
(* removes itself when an installer has been started.  _queue_lock guards  *)
(* the pool; only clear() keeps it across a wait, so every other use of it *)
(* is one step that needs the lock to be free.                             *)
(***************************************************************************)
EXTENDS Naturals, Sequences, SequencesExt

CONSTANTS MaxTriggers   \* bound: triggers of the heartbeat by other threads

ASSUME JobPoolConstants == MaxTriggers \in Nat

Jobs == {"register", "heartbeat", "audit", "checkupdate"}

VARIABLES
    registered,  \* GLOBAL.agent_info() is not empty
    running,     \* GLOBAL.is_running()
    main,        \* the main thread: where it is and, in clear(), at which job
    lock,        \* holder of _queue_lock: "main" or "free"
    pool,        \* job_pool::_queue
    thread,      \* what each job's thread is doing
    stopping,    \* job::_stopping
    event,       \* job::_evt is signalled
    triggers     \* triggers so far

vars == <<registered, running, main, lock, pool, thread, stopping, event, triggers>>

-----------------------------------------------------------------------------
InPool(j) == \E i \in 1..Len(pool) : pool[i] = j
PlaceOf(j) == CHOOSE i \in 1..Len(pool) : pool[i] = j

\* Where a thread may be: none (not created), turn (in do_job), the steps of
\* do_job that need the pool, wait, freed (its job object is gone), ended.
Places == {"none", "turn", "addHeartbeat", "startAudit", "addAudit", "addCheckupdate",
           "remove", "detach", "getHeartbeat", "wait", "freed", "ended"}
NeedsLock == {"addHeartbeat", "addAudit", "addCheckupdate", "remove", "getHeartbeat"}
Ended(j) == thread[j] \in {"none", "ended"}

TypeOK ==
    /\ registered \in BOOLEAN
    /\ running \in BOOLEAN
    /\ main.pc \in {"runJobs", "startAudit", "addAudit", "addCheckupdate", "wait",
                    "clear", "stop", "join", "end", "crashed"}
    /\ main.at \in 0..Len(pool) + 1
    /\ lock \in {"free", "main"}
    /\ pool \in Seq(Jobs)
    /\ thread \in [Jobs -> Places]
    /\ stopping \in [Jobs -> BOOLEAN]
    /\ event \in [Jobs -> BOOLEAN]
    /\ triggers \in 0..MaxTriggers

\* OnStart has changed the status to serv_running.
Init ==
    /\ registered \in BOOLEAN
    /\ running = TRUE
    /\ main = [pc |-> "runJobs", at |-> 0]
    /\ lock = "free"
    /\ pool = <<>>
    /\ thread = [j \in Jobs |-> "none"]
    /\ stopping = [j \in Jobs |-> FALSE]
    /\ event = [j \in Jobs |-> FALSE]
    /\ triggers = 0

-----------------------------------------------------------------------------
(* job_pool::add: a job whose name is not in the pool is put there, and its *)
(* thread is created before the lock is released.                           *)
Added(j) == IF InPool(j) THEN pool ELSE Append(pool, j)
Started(j) == IF InPool(j) THEN thread ELSE [thread EXCEPT ![j] = "turn"]

-----------------------------------------------------------------------------
(* global::run_jobs in OnStart *)

MainTo(pc) == main' = [main EXCEPT !.pc = pc]

RunJobs ==
    /\ main.pc = "runJobs"
    /\ lock = "free"
    /\ LET first == IF registered THEN "heartbeat" ELSE "register"
       IN  pool' = Added(first) /\ thread' = Started(first)
    /\ MainTo(IF registered THEN "startAudit" ELSE "wait")
    /\ UNCHANGED <<registered, running, lock, stopping, event, triggers>>

\* audit_serv().start() opens its files or throws, which ends OnStart.
RunStartAudit ==
    /\ main.pc = "startAudit"
    /\ \E pc \in {"addAudit", "wait"} : MainTo(pc)
    /\ UNCHANGED <<registered, running, lock, pool, thread, stopping, event, triggers>>

RunAdd(j, pc, next) ==
    /\ main.pc = pc
    /\ lock = "free"
    /\ pool' = Added(j)
    /\ thread' = Started(j)
    /\ MainTo(next)
    /\ UNCHANGED <<registered, running, lock, stopping, event, triggers>>
RunAddAudit == RunAdd("audit", "addAudit", "addCheckupdate")
RunAddCheckupdate == RunAdd("checkupdate", "addCheckupdate", "wait")

-----------------------------------------------------------------------------
(* OnPause, and OnStop with job_pool::clear *)

\* OnPause; a later SERVICE_CONTROL_CONTINUE calls OnPause again.
Pause ==
    /\ running
    /\ running' = FALSE
    /\ UNCHANGED <<registered, main, lock, pool, thread, stopping, event, triggers>>

StopService ==
    /\ main.pc = "wait"
    /\ running' = FALSE
    /\ MainTo("clear")
    /\ UNCHANGED <<registered, lock, pool, thread, stopping, event, triggers>>

Clear ==
    /\ main.pc = "clear"
    /\ lock = "free"
    /\ lock' = "main"
    /\ main' = [pc |-> "stop", at |-> 1]
    /\ UNCHANGED <<registered, running, pool, thread, stopping, event, triggers>>

\* Mutant: the flag is set and the thread is left to find out.
ClearStopSilently ==
    /\ main.pc = "stop"
    /\ main.at \in DOMAIN pool
    /\ stopping' = [stopping EXCEPT ![pool[main.at]] = TRUE]
    /\ MainTo("join")
    /\ UNCHANGED <<registered, running, lock, pool, thread, event, triggers>>

ClearStop ==
    /\ main.pc = "stop"
    /\ main.at \in DOMAIN pool
    /\ stopping' = [stopping EXCEPT ![pool[main.at]] = TRUE]
    /\ event' = [event EXCEPT ![pool[main.at]] = TRUE]
    /\ MainTo("join")
    /\ UNCHANGED <<registered, running, lock, pool, thread, triggers>>

\* Mutant: the threads are not waited for.
ClearJoinNobody ==
    /\ main.pc = "join"
    /\ main' = [pc |-> "stop", at |-> main.at + 1]
    /\ UNCHANGED <<registered, running, lock, pool, thread, stopping, event, triggers>>

\* Mutant: a job is erased from the queue that is being walked.
ClearJoinErases ==
    /\ main.pc = "join"
    /\ Ended(pool[main.at])
    /\ pool' = RemoveAt(pool, main.at)
    /\ main' = [pc |-> "stop", at |-> main.at + 1]
    /\ UNCHANGED <<registered, running, lock, thread, stopping, event, triggers>>

ClearJoin ==
    /\ main.pc = "join"
    /\ Ended(pool[main.at])
    /\ main' = [pc |-> "stop", at |-> main.at + 1]
    /\ UNCHANGED <<registered, running, lock, pool, thread, stopping, event, triggers>>

ClearDone ==
    /\ main.pc = "stop"
    /\ main.at = Len(pool) + 1
    /\ pool' = <<>>
    /\ lock' = "free"
    /\ main' = [pc |-> "end", at |-> 0]
    /\ UNCHANGED <<registered, running, thread, stopping, event, triggers>>

-----------------------------------------------------------------------------
(* job::worker *)

\* The wait ends with the event, which is reset, or with the interval.
WorkerWake(j, signalled) ==
    /\ thread[j] = "wait"
    /\ event[j] = signalled
    /\ event' = [event EXCEPT ![j] = FALSE]
    /\ thread' = [thread EXCEPT ![j] = IF ~stopping[j] /\ running THEN "turn" ELSE "ended"]
    /\ UNCHANGED <<registered, running, main, lock, pool, stopping, triggers>>

\* job::trigger by a session, the control pipe or the core driver's notification.
Trigger ==
    /\ triggers < MaxTriggers
    /\ lock = "free"
    /\ InPool("heartbeat")
    /\ event' = [event EXCEPT !["heartbeat"] = TRUE]
    /\ triggers' = triggers + 1
    /\ UNCHANGED <<registered, running, main, lock, pool, thread, stopping>>

To(j, place) == thread' = [thread EXCEPT ![j] = place]
OnlyThread == UNCHANGED <<registered, running, main, lock, pool, stopping, event, triggers>>

-----------------------------------------------------------------------------
(* do_job of the four jobs *)

\* The server refuses or is not reached.
RegisterFails ==
    /\ thread["register"] = "turn"
    /\ To("register", "wait")
    /\ OnlyThread

\* Mutant: what the server answers stays in a local copy.
RegisterAgentUnsaved ==
    /\ thread["register"] = "turn"
    /\ To("register", "addHeartbeat")
    /\ OnlyThread

RegisterAgent ==
    /\ thread["register"] = "turn"
    /\ registered' = TRUE
    /\ To("register", "addHeartbeat")
    /\ UNCHANGED <<running, main, lock, pool, stopping, event, triggers>>

RegisterAdd(j, place, next) ==
    /\ thread["register"] = place
    /\ lock = "free"
    /\ pool' = Added(j)
    /\ thread' = [Started(j) EXCEPT !["register"] = next]
    /\ UNCHANGED <<registered, running, main, lock, stopping, event, triggers>>
RegisterAddHeartbeat == RegisterAdd("heartbeat", "addHeartbeat", "startAudit")
RegisterAddAudit == RegisterAdd("audit", "addAudit", "addCheckupdate")

\* Mutant: the last job is not added.
RegisterSkipCheckupdate ==
    /\ thread["register"] = "addCheckupdate"
    /\ To("register", "remove")
    /\ OnlyThread

RegisterAddCheckupdate == RegisterAdd("checkupdate", "addCheckupdate", "remove")

RegisterStartAudit ==
    /\ thread["register"] = "startAudit"
    /\ To("register", "addAudit")
    /\ OnlyThread

\* Everything is gone when the process ends by itself.
Crash ==
    /\ main' = [pc |-> "crashed", at |-> 0]
    /\ pool' = <<>>
    /\ lock' = "free"
    /\ thread' = [j \in Jobs |-> "none"]
    /\ running' = FALSE
    /\ UNCHANGED <<registered, stopping, event, triggers>>

\* audit_serv().start() throws inside do_job, which is noexcept.
RegisterTerminates == thread["register"] = "startAudit" /\ Crash

\* job_pool::remove on a job's own thread ...
RemoveSelf(j) ==
    /\ thread[j] = "remove"
    /\ lock = "free"
    /\ pool' = IF InPool(j) THEN RemoveAt(pool, PlaceOf(j)) ELSE pool
    /\ To(j, IF InPool(j) THEN "detach" ELSE "wait")
    /\ UNCHANGED <<registered, running, main, lock, stopping, event, triggers>>

\* ... and stop(false): the thread is detached, and the last reference to the
\* job is dropped at the end of do_job.
DetachSelf(j) ==
    /\ thread[j] = "detach"
    /\ stopping' = [stopping EXCEPT ![j] = TRUE]
    /\ event' = [event EXCEPT ![j] = TRUE]
    /\ To(j, "freed")
    /\ UNCHANGED <<registered, running, main, lock, pool, triggers>>

\* worker goes on with the freed object: the wait on what was its event fails,
\* which ends the thread, or the read is not possible.
UseFreed(j) ==
    /\ thread[j] = "freed"
    /\ To(j, "ended")
    /\ OnlyThread
UseFreedFaults(j) == thread[j] = "freed" /\ Crash

\* A turn ends without the pool: the call failed, or nothing in the pool is
\* concerned.
TurnEnds(j) ==
    /\ j # "register"
    /\ thread[j] = "turn"
    /\ To(j, "wait")
    /\ OnlyThread

\* update_agent_info with another frequency looks a job up in the pool.
HeartbeatNewFrequency ==
    /\ thread["heartbeat"] = "turn"
    /\ To("heartbeat", "getHeartbeat")
    /\ OnlyThread
HeartbeatGet ==
    /\ thread["heartbeat"] = "getHeartbeat"
    /\ lock = "free"
    /\ To("heartbeat", "wait")
    /\ OnlyThread

\* auto_upgrade has started an installer.
UpgradeStarted ==
    /\ thread["checkupdate"] = "turn"
    /\ To("checkupdate", "remove")
    /\ OnlyThread

-----------------------------------------------------------------------------
Main == RunJobs \/ RunStartAudit \/ RunAddAudit \/ RunAddCheckupdate \/ StopService
        \/ Clear \/ ClearStop \/ ClearJoin \/ ClearDone
Register == RegisterFails \/ RegisterAgent \/ RegisterAddHeartbeat \/ RegisterStartAudit
            \/ RegisterAddAudit \/ RegisterAddCheckupdate \/ RegisterTerminates
Worker(j) == \/ \E signalled \in BOOLEAN : WorkerWake(j, signalled)
             \/ RemoveSelf(j) \/ DetachSelf(j) \/ UseFreed(j) \/ UseFreedFaults(j)
             \/ TurnEnds(j)
Turns == HeartbeatNewFrequency \/ HeartbeatGet \/ UpgradeStarted

Next == Main \/ Pause \/ Register \/ (\E j \in Jobs : Worker(j)) \/ Turns \/ Trigger
Spec == Init /\ [][Next]_vars

\* Threads run, a signalled wait ends, a turn's calls to the server end; the
\* intervals are not counted on.
WorkerFair(j) ==
    /\ WF_vars(WorkerWake(j, TRUE))
    /\ WF_vars(RemoveSelf(j)) /\ WF_vars(DetachSelf(j))
    /\ WF_vars(UseFreed(j)) /\ WF_vars(TurnEnds(j))
FairSpec ==
    /\ Spec
    /\ WF_vars(RunJobs \/ RunStartAudit \/ RunAddAudit \/ RunAddCheckupdate)
    /\ WF_vars(Clear) /\ WF_vars(ClearStop) /\ WF_vars(ClearJoin) /\ WF_vars(ClearDone)
    /\ WF_vars(Register)
    /\ \A j \in Jobs : WorkerFair(j)
    /\ WF_vars(HeartbeatGet)

-----------------------------------------------------------------------------
(* Properties *)

\* The assertions at the head of do_job hold (jobpool.cpp 202, 241, 337, 351):
\* nobody registers an agent that is registered, and the other jobs only work
\* for one that is.
InTurn(j) == thread[j] \notin {"none", "wait", "freed", "ended"}
AssertionsHold ==
    /\ thread["register"] = "turn" => ~registered
    /\ \A j \in Jobs \ {"register"} : InTurn(j) => registered

\* After clear() no job begins another turn, and only a job that had taken
\* itself out of the pool is still on its way out (jobpool.cpp 184-194, 53-60).
NoTurnAfterStop ==
    main.pc = "end" => \A j \in Jobs : Ended(j) \/ thread[j] \in {"detach", "freed"}

\* An agent that has just been registered gets its three jobs, whatever the main
\* thread does meanwhile, unless the service is stopped or ends by itself
\* (jobpool.cpp 219-227).
JobsFollowRegistration ==
    (thread["register"] = "addHeartbeat") ~>
        \/ thread["heartbeat"] # "none" /\ thread["audit"] # "none"
           /\ thread["checkupdate"] # "none"
        \/ main.pc \in {"clear", "stop", "join", "end", "crashed"}

\* The only thing that can keep the service from stopping is a job that needs
\* the pool's lock while clear() holds it and waits for that job.
Stuck == main.pc = "join" /\ thread[pool[main.at]] \in NeedsLock
StopHangsOnlyOnLock ==
    (main.pc = "clear") ~> (main.pc \in {"end", "crashed"} \/ Stuck)

\* What OnStop's log says of clear() ("Shutting down job system", "Done",
\* nxrmsvc.cpp 179-181): it ends.
StopCompletes == (main.pc = "clear") ~> (main.pc \in {"end", "crashed"})
=============================================================================
