----------------------------- MODULE FilterPort -----------------------------
(***************************************************************************)
(* From the filter driver's port to the workers of the service and back.   *)
(*                                                                         *)
(* A kernel thread that needs a decision sends a message on the port of    *)
(* the filter driver and waits for the reply or for a timeout.  The        *)
(* threads of nxrmfltman get the messages; each allows the call itself     *)
(* while filtering is disabled and calls serv_flt::drv_callback otherwise, *)
(* which refuses while the service is not running and else puts the        *)
(* request into a list.  The workers of serv_flt take the requests out of  *)
(* the list, evaluate them and reply.  serv_flt is started by the service  *)
(* when it has keys, otherwise by the heartbeat that brings the first      *)
(* keys, and stopped by the service (OnStop) and, if it has been started   *)
(* since, by its destructor.                                               *)
(***************************************************************************)
EXTENDS Naturals, Sequences

CONSTANTS Calls,        \* messages of kernel threads
          PortThreads,  \* the threads of nxrmfltman
          Workers,      \* the threads of serv_flt
          NoCall

ASSUME FilterPortConstants == NoCall \notin Calls

VARIABLES
    main,       \* the thread that starts and stops the service
    heartbeat,  \* the thread that may bring the first keys
    running,    \* GLOBAL.is_running()
    flt,        \* how far serv_flt::start is
    disabled,   \* NXRMFLT_MANAGER.DisableFiltering
    stopEvent,  \* serv_flt::_stop_event, manual reset
    list,       \* serv_flt::_list
    requested,  \* serv_flt::_request_event, manual reset
    port,       \* messages no thread of nxrmfltman has got yet
    portThread, \* what each thread of nxrmfltman is doing, with which message
    worker,     \* what each worker is doing, with which request
    call,       \* what each message's sender knows
    replies,    \* history: replies made to each message
    refused,    \* history: messages that drv_callback has refused
    failed,     \* history: messages whose audit has thrown, after the reply
    late        \* history: serv_flt::start was not over when OnStop looked

starting == <<main, heartbeat, flt, disabled, stopEvent, late>>
queue == <<list, requested>>
kernel == <<port, call>>
traffic == <<queue, kernel, portThread, worker, replies, refused, failed>>
vars == <<starting, running, traffic>>

-----------------------------------------------------------------------------
TypeOK ==
    /\ main \in {"load", "start", "activate", "serve", "check", "stopFiltering",
                 "signal", "join", "resetStop", "shutdown", "exit", "gone"}
    /\ heartbeat \in {"none", "start", "done"}
    /\ running \in BOOLEAN
    /\ flt \in {"none", "created", "filtering", "workers", "started", "stopped"}
    /\ disabled \in BOOLEAN
    /\ stopEvent \in BOOLEAN
    /\ list \in Seq(Calls)
    /\ requested \in BOOLEAN
    /\ port \subseteq Calls
    /\ portThread \in [PortThreads ->
           [pc : {"get"}, msg : {NoCall}] \cup [pc : {"default", "notify", "push"}, msg : Calls]]
    /\ worker \in [Workers ->
           [pc : {"none", "wait", "take", "ended"}, req : {NoCall}]
           \cup [pc : {"evaluate", "audit"}, req : Calls]]
    /\ call \in [Calls -> {"none", "waiting", "evaluated", "allowed", "denied"}]
    /\ replies \in [Calls -> Nat]
    /\ refused \subseteq Calls
    /\ failed \subseteq Calls
    /\ late \in BOOLEAN

Init ==
    /\ main = "load"
    /\ heartbeat = "none"
    /\ running = FALSE
    /\ flt = "none"
    /\ disabled = TRUE
    /\ stopEvent = FALSE
    /\ list = <<>>
    /\ requested = FALSE
    /\ port = {}
    /\ portThread = [t \in PortThreads |-> [pc |-> "get", msg |-> NoCall]]
    /\ worker = [w \in Workers |-> [pc |-> "none", req |-> NoCall]]
    /\ call = [c \in Calls |-> "none"]
    /\ replies = [c \in Calls |-> 0]
    /\ refused = {}
    /\ failed = {}
    /\ late = FALSE

-----------------------------------------------------------------------------
(* Starting: OnStart, update_keys_bundle, serv_flt::start *)

MainTo(from, to) == main = from /\ main' = to

\* With keys on disk OnStart connects to the driver, without it goes on.
MainLoad ==
    /\ main = "load"
    /\ main' \in {"start", "activate"}
    /\ UNCHANGED <<heartbeat, flt, disabled, stopEvent, late, running, traffic>>

\* change_status(serv_running), run_jobs.
MainActivate ==
    /\ MainTo("activate", "serve")
    /\ running' = TRUE
    /\ UNCHANGED <<heartbeat, flt, disabled, stopEvent, late, traffic>>

\* The first keys arrive with a heartbeat.  (Once serv_flt has been stopped, keys
\* that change make it try again in vain: the manager exists already.)
HeartbeatKeys ==
    /\ main \notin {"load", "start", "activate", "exit", "gone"}
    /\ heartbeat = "none"
    /\ flt = "none"
    /\ heartbeat' = "start"
    /\ UNCHANGED <<main, flt, disabled, stopEvent, late, running, traffic>>

Starter == main = "start" \/ heartbeat = "start"

\* CreateManager connects to the port and starts its threads.
FltCreate ==
    /\ Starter
    /\ flt = "none"
    /\ flt' = "created"
    /\ UNCHANGED <<main, heartbeat, disabled, stopEvent, late, running, traffic>>

\* CreateManager fails: OnStart gives up before the service is running, and
\* update_keys_bundle does not try again, for it has kept the keys' hash.
FltCreateFails ==
    /\ Starter
    /\ flt = "none"
    /\ main' = IF main = "start" THEN "serve" ELSE main
    /\ heartbeat' = "done"
    /\ UNCHANGED <<flt, disabled, stopEvent, late, running, traffic>>

FltStartFiltering ==
    /\ flt = "created"
    /\ flt' = "filtering"
    /\ disabled' = FALSE
    /\ UNCHANGED <<main, heartbeat, stopEvent, late, running, traffic>>

FltStartWorkers ==
    /\ flt = "filtering"
    /\ flt' = "workers"
    /\ worker' = [w \in Workers |-> [pc |-> "wait", req |-> NoCall]]
    /\ UNCHANGED <<main, heartbeat, disabled, stopEvent, late, running, queue, kernel,
                   portThread, replies, refused, failed>>

FltStarted ==
    /\ flt = "workers"
    /\ flt' = "started"
    /\ main' = IF main = "start" THEN "activate" ELSE main
    /\ heartbeat' = "done"
    /\ UNCHANGED <<disabled, stopEvent, late, running, traffic>>

-----------------------------------------------------------------------------
(* Stopping: OnStop, serv_flt::stop *)

\* change_status(serv_stop_pending).
MainStop ==
    /\ MainTo("serve", "check")
    /\ running' = FALSE
    /\ UNCHANGED <<heartbeat, flt, disabled, stopEvent, late, traffic>>

\* OnStop stops serv_flt if it is started; so does the destructor at exit.
MainCheck ==
    /\ \/ main = "check" /\ main' = IF flt = "started" THEN "stopFiltering" ELSE "shutdown"
       \/ main = "exit" /\ main' = IF flt = "started" THEN "stopFiltering" ELSE "gone"
    /\ late' = (late \/ (main = "check" /\ flt # "started"))
    /\ UNCHANGED <<heartbeat, flt, disabled, stopEvent, running, traffic>>

MainStopFiltering ==
    /\ MainTo("stopFiltering", "signal")
    /\ disabled' = TRUE
    /\ UNCHANGED <<heartbeat, flt, stopEvent, late, running, traffic>>

MainSignal ==
    /\ MainTo("signal", "join")
    /\ stopEvent' = TRUE
    /\ UNCHANGED <<heartbeat, flt, disabled, late, running, traffic>>

\* Mutant: the threads are forgotten without being joined.
MainJoinNone ==
    /\ MainTo("join", "resetStop")
    /\ UNCHANGED <<heartbeat, flt, disabled, stopEvent, late, running, traffic>>

MainJoin ==
    /\ MainTo("join", "resetStop")
    /\ \A w \in Workers : worker[w].pc = "ended"
    /\ UNCHANGED <<heartbeat, flt, disabled, stopEvent, late, running, traffic>>

\* ResetEvent, _started = false; in OnStop the other systems follow.
MainResetStop ==
    /\ MainTo("resetStop", IF late THEN "gone" ELSE "shutdown")
    /\ stopEvent' = FALSE
    /\ flt' = "stopped"
    /\ UNCHANGED <<heartbeat, disabled, late, running, traffic>>

\* Audit, jobs and sessions are stopped; the heartbeat's thread is joined.
MainShutdown ==
    /\ MainTo("shutdown", "exit")
    /\ heartbeat # "start"
    /\ UNCHANGED <<heartbeat, flt, disabled, stopEvent, late, running, traffic>>

-----------------------------------------------------------------------------
(* Kernel threads and the threads of nxrmfltman *)

\* A miss in the rights cache, while the port is connected.
Send(c) ==
    /\ flt # "none"
    /\ main # "gone"
    /\ call[c] = "none"
    /\ call' = [call EXCEPT ![c] = "waiting"]
    /\ port' = port \cup {c}
    /\ UNCHANGED <<starting, running, queue, portThread, worker, replies, refused, failed>>

\* FltSendMessage times out: no rights.
Timeout(c) ==
    /\ call[c] = "waiting"
    /\ call' = [call EXCEPT ![c] = "denied"]
    /\ port' = port \ {c}
    /\ UNCHANGED <<starting, running, queue, portThread, worker, replies, refused, failed>>

\* FilterReplyMessage; when the sender has given up, it fails.
Reply(c, answer) ==
    /\ replies' = [replies EXCEPT ![c] = @ + 1]
    /\ call' = IF call[c] = "waiting" THEN [call EXCEPT ![c] = answer] ELSE call

Idle == [pc |-> "get", msg |-> NoCall]

\* A message is got; DisableFiltering is read once for both tests below.
PortGet(t, c) ==
    /\ portThread[t].pc = "get"
    /\ c \in port
    /\ port' = port \ {c}
    /\ portThread' = [portThread EXCEPT
           ![t] = [pc |-> IF disabled THEN "default" ELSE "notify", msg |-> c]]
    /\ UNCHANGED <<starting, running, queue, call, worker, replies, refused, failed>>

\* Filtering is disabled, or there is no memory for the reply: default allow.
PortAllow(t) ==
    /\ portThread[t].pc \in {"default", "notify"}
    /\ Reply(portThread[t].msg, "allowed")
    /\ portThread' = [portThread EXCEPT ![t] = Idle]
    /\ UNCHANGED <<starting, running, queue, port, worker, refused, failed>>

\* drv_callback: is the service running?
PortCheck(t) ==
    /\ portThread[t].pc = "notify"
    /\ portThread' = [portThread EXCEPT ![t] = IF running THEN [@ EXCEPT !.pc = "push"] ELSE Idle]
    /\ refused' = IF running THEN refused ELSE refused \cup {portThread[t].msg}
    /\ UNCHANGED <<starting, running, queue, kernel, worker, replies, failed>>

\* Mutant: DisableFiltering is read again after the call.
PortPushReread(t) ==
    /\ portThread[t].pc = "push"
    /\ list' = Append(list, portThread[t].msg)
    /\ requested' = TRUE
    /\ portThread' = [portThread EXCEPT ![t] = IF disabled THEN [@ EXCEPT !.pc = "default"] ELSE Idle]
    /\ UNCHANGED <<starting, running, kernel, worker, replies, refused, failed>>

\* drv_callback: the request is in the list and the event set, under _list_lock.
PortPush(t) ==
    /\ portThread[t].pc = "push"
    /\ list' = Append(list, portThread[t].msg)
    /\ requested' = TRUE
    /\ portThread' = [portThread EXCEPT ![t] = Idle]
    /\ UNCHANGED <<starting, running, kernel, worker, replies, refused, failed>>

-----------------------------------------------------------------------------
(* serv_flt::worker *)

\* Mutant: the stop event is reset by the worker that sees it.
WorkerWakeResets(w) ==
    /\ worker[w].pc = "wait"
    /\ stopEvent \/ requested
    /\ worker' = [worker EXCEPT ![w].pc = IF stopEvent THEN "ended" ELSE "take"]
    /\ stopEvent' = FALSE
    /\ UNCHANGED <<main, heartbeat, flt, disabled, late, running, queue, kernel,
                   portThread, replies, refused, failed>>

\* WaitForMultipleObjects prefers the stop event, which stays set.
WorkerWake(w) ==
    /\ worker[w].pc = "wait"
    /\ stopEvent \/ requested
    /\ worker' = [worker EXCEPT ![w].pc = IF stopEvent THEN "ended" ELSE "take"]
    /\ UNCHANGED <<starting, running, queue, kernel, portThread, replies, refused, failed>>

\* Mutant: the event is reset with every request that is taken.
WorkerTakeResets(w) ==
    /\ worker[w].pc = "take"
    /\ requested' = FALSE
    /\ list' = IF list = <<>> THEN list ELSE Tail(list)
    /\ worker' = [worker EXCEPT ![w] = IF list = <<>> THEN [pc |-> "wait", req |-> NoCall]
                                       ELSE [pc |-> "evaluate", req |-> Head(list)]]
    /\ UNCHANGED <<starting, running, kernel, portThread, replies, refused, failed>>

\* Under _list_lock: the first request is taken, or the event reset.
WorkerTake(w) ==
    /\ worker[w].pc = "take"
    /\ IF list = <<>>
       THEN /\ requested' = FALSE
            /\ worker' = [worker EXCEPT ![w].pc = "wait"]
            /\ UNCHANGED list
       ELSE /\ list' = Tail(list)
            /\ worker' = [worker EXCEPT ![w] = [pc |-> "evaluate", req |-> Head(list)]]
            /\ UNCHANGED requested
    /\ UNCHANGED <<starting, running, kernel, portThread, replies, refused, failed>>

\* on_check_rights replies, with what it has evaluated or with an error's rights ...
WorkerReply(w) ==
    /\ worker[w].pc = "evaluate"
    /\ Reply(worker[w].req, "evaluated")
    /\ worker' = [worker EXCEPT ![w].pc = "audit"]
    /\ UNCHANGED <<starting, running, queue, port, portThread, refused, failed>>

\* Mutant: the request outlives the turn of the loop that handles it.
WorkerAuditKeeps(w) ==
    /\ worker[w].pc = "audit"
    /\ worker' = [worker EXCEPT ![w].pc = "wait"]
    /\ UNCHANGED <<starting, running, queue, kernel, portThread, replies, refused, failed>>

\* ... and writes the audit record and the process status.
WorkerAudit(w) ==
    /\ worker[w].pc = "audit"
    /\ worker' = [worker EXCEPT ![w] = [pc |-> "wait", req |-> NoCall]]
    /\ UNCHANGED <<starting, running, queue, kernel, portThread, replies, refused, failed>>

\* The block of memory for the reply is still allocated.
Outstanding(c) == \/ \E t \in PortThreads : portThread[t].pc # "default" /\ portThread[t].msg = c
                  \/ \E i \in DOMAIN list : list[i] = c
                  \/ \E w \in Workers : worker[w].pc = "evaluate" /\ worker[w].req = c

\* ... or throws: on_check_rights replies again, with a block that its first reply
\* has cleared and freed.  Nobody gets this answer, or the sender of a message that
\* has been given the same block since.
WorkerAuditFails(w) ==
    /\ worker[w].pc = "audit"
    /\ replies' = [replies EXCEPT ![worker[w].req] = @ + 1]
    /\ failed' = failed \cup {worker[w].req}
    /\ call' \in {call} \cup {[call EXCEPT ![c] = "evaluated"] :
                            c \in {d \in Calls : call[d] = "waiting" /\ Outstanding(d)}}
    /\ worker' = [worker EXCEPT ![w] = [pc |-> "wait", req |-> NoCall]]
    /\ UNCHANGED <<starting, running, queue, port, portThread, refused>>

\* The block is freed twice: the heap may end the process at any time.
HeapFails ==
    /\ failed # {}
    /\ main # "gone"
    /\ main' = "gone"
    /\ heartbeat' = "done"
    /\ flt' = "stopped"
    /\ running' = FALSE
    /\ list' = <<>>
    /\ port' = {}
    /\ portThread' = [t \in PortThreads |-> Idle]
    /\ worker' = [w \in Workers |-> [pc |-> "ended", req |-> NoCall]]
    /\ call' = [c \in Calls |-> IF call[c] = "waiting" THEN "denied" ELSE call[c]]
    /\ UNCHANGED <<disabled, stopEvent, late, requested, replies, refused, failed>>

-----------------------------------------------------------------------------
Start == MainLoad \/ MainActivate \/ HeartbeatKeys \/ FltCreate \/ FltCreateFails
         \/ FltStartFiltering \/ FltStartWorkers \/ FltStarted
Stop == MainStop \/ MainCheck \/ MainStopFiltering \/ MainSignal \/ MainJoin
        \/ MainResetStop \/ MainShutdown
Kernel == \E c \in Calls : Send(c) \/ Timeout(c)
Port(t) == \/ \E c \in Calls : PortGet(t, c)
           \/ PortAllow(t) \/ PortCheck(t) \/ PortPush(t)
Worker(w) == \/ WorkerWake(w) \/ WorkerTake(w) \/ WorkerReply(w)
             \/ WorkerAudit(w) \/ WorkerAuditFails(w)
Next == Start \/ Stop \/ Kernel \/ HeapFails \/ (\E t \in PortThreads : Port(t))
        \/ (\E w \in Workers : Worker(w))

Spec == Init /\ [][Next]_vars

\* Every thread of the service goes on; when the service is stopped is open.
FairSpec ==
    /\ Spec
    /\ WF_vars(Start)
    /\ WF_vars(MainCheck \/ MainStopFiltering \/ MainSignal \/ MainJoin
               \/ MainResetStop \/ MainShutdown)
    /\ \A t \in PortThreads : WF_vars(Port(t))
    /\ \A w \in Workers : WF_vars(Worker(w))

-----------------------------------------------------------------------------
(* Properties *)

\* A message is answered at most once: a call that nxrmfltman allows, because
\* filtering is disabled or memory is short, is never handed to the service as
\* well, whenever DisableFiltering changes (nxrmfltman.cpp 457-463, 516).  Only the
\* worker whose audit has thrown answers its message a second time, and nobody
\* does a third time (drvflt.cpp 799, 867).
RepliedOnce == \A c \in Calls : replies[c] <= IF c \in failed THEN 2 ELSE 1

\* No request is forgotten in the list, however its arrival meets the workers'
\* resetting of the event: a sender that waits long enough is answered, unless
\* the service has refused the message or is stopped (drvflt.cpp 1172-1181,
\* 1238-1241).
RequestsAnswered ==
    \A c \in Calls :
        (call[c] = "waiting") ~> (call[c] # "waiting" \/ c \in refused \/ ~running)

\* Once OnStop has stopped serv_flt, no worker uses the audit log, the sessions
\* and the caches that are taken down next (nxrmsvc.cpp 164-184); only a start
\* of serv_flt that was not over when OnStop looked is not covered.
QuietAfterStop ==
    (main \in {"shutdown", "exit"} /\ ~late) =>
        \A w \in Workers : worker[w].pc \in {"none", "ended"}

\* Stopping ends, with requests in the list or without (drvflt.cpp 359-373).
StopEnds == (main = "check") ~> (main = "gone")
=============================================================================
