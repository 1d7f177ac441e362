# Rights Management Client: TLA+ specifications

Specifications of the service of the Rights Management Client (`src/nxrmserv`,
`src/nudf/v1/src/svc.cpp`) and of the part of its filter driver
(`src/nxrmflt`) that shares state with the service.  The service fetches
policies from a server, evaluates who may do what with a protected file, and
the driver enforces the answers and caches them in the kernel.  What is hard
about it is time: a policy or a user changes while other threads are in the
middle of deciding, a service stops while its jobs run, a server fails.

## The system

| Component | State | Operations | Hard behaviour | What makes it correct |
|---|---|---|---|---|
| Rights decision path: `drvflt.cpp`, `session.cpp`, `profile.cpp`; in the kernel `nxrmfltutils.c`, `nxrmfltcommunication.c`, `nxrmflt.c` | `NXL_PROCESS_NODE.RightsCache` per process; per session the profile (user) and the policy bundle | check rights, purge all, purge a file, process exit; logon, logoff, start, stop, set bundle | four workers and any number of kernel threads decide while user and policy change under separate locks; users log off on several threads | a cached decision is the one the present user and policy give |
| Job pool: `jobpool.cpp`, `autoupgrade.cpp` | `_queue`, `_queue_lock`, one thread and one auto-reset event per job | add, remove, get, trigger, clear; the turns of four jobs | jobs add and remove jobs, one removes itself, clear joins threads | jobs run when they may; the stop ends |
| Heartbeat: `jobpool.cpp`, `rest.cpp`, `global.cpp`, `agent.cpp` | `_policy_bundle`, `_policy_need_force_update`, `_requestor_session_id`, recorded users; `agent_policy.sjs`, `external_users.sjs` | send, install, save, load, respond; logon of a new user; request for an update | triggers and flags raised during a turn, lost answers, crashes while a file is being written | every policy and every request gets through |
| Service control: `nxrmsvc.cpp`, `svc.cpp` | SCM state, `GLOBAL._status`, `serv_session::_map` and the references to its objects | start, pause, continue, stop, session logon and logoff | SCM state and status are two variables, set at different times by two threads; a destructor stops the session again | sessions logged on to Windows are served; an object is not started and stopped at once; a stop is final |
| Audit: `audit.cpp`, `rest.cpp` | `audit.cache`, daily archive, `_writer`, `_archiver` | audit, upload, save or give back, start, stop | workers append while the job uploads; crash, refusal, a read or write of the file that fails | no record is lost or archived twice |
| Tray pipe: `asyncpipe.cpp`, `global.cpp` | pipe instances | logon, logoff, update, queries, one at a time | shares the sessions with the handler and the heartbeat | see the decision path |
| Filter request queue: `nxrmfltman.cpp`, `drvflt.cpp` | messages on the port, `DisableFiltering`, `_list`, two manual-reset events | send, get, push, take, reply; start, stop | start by two different threads, stop with requests queued, events reset while they are set | a request in the list is served, none is answered twice, workers end before what they use |
| Process list of the driver: `nxrmflt.c`, `nxrmfltutils.c`, `nxrmfltcommunication.c` | `NxlProcessList`, its lock, `NXL_PROCESS_NODE` with rundown reference, tree and tree lock | find or make a node, look up, store, policy purge, purge of a file, creation and exit of a process | three kinds of threads make nodes, one frees them, two walk the list; process ids are used again | one node per process, none freed in use, no rights of an earlier process |
| Process status: `process_status.cpp`, `sys.cpp` | processes, counters of forbidden rights | creation, exit, count up | notifications handled out of order | a process that has exited is forgotten |
| Evaluation cache: `inc/cache.hpp` | map with expiry | get, set, erase, fit | no lock is held, expiry, limit | a stale value is not returned |
| Tray keeper: `session.cpp` (`session_app`) | process handle, stop event, `_stopping`; the tray processes | start, launch, wait, stop | stop before wait, failed restart, old trays, lost messages, a tray whose pipe fails | the tray comes back and listens; start and stop end; the tray goes with its session |
| Policy evaluation: `policy*.cpp` | none | parse, evaluate | sequential | conflicts resolve as documented |
| Core driver and add-in: `drvcore.cpp`, `nxrmdrv`, `nxrmcore`, `nxrmcoreaddin` | policy serial number, injected processes; a queue of requests with its workers | inject, poll, hook; log off, request an update | runs inside other processes; its workers log users off beside the tray pipe | the add-in sees policy changes; see the decision path for logoff, the heartbeat for the update |
| Virtual disk, shell, tray, installer, SDK, second-generation service (`app/`), tools | | | not part of the service of this commit, or without shared state | |

How they interact.  The control handler (one thread) and the main thread own the
life of the service and of the sessions.  The job pool gives each job a thread;
the heartbeat job writes the global policy bundle and then, session by session,
the bundle filtered for that session's user.  The tray pipe (one thread) logs
users on and off and triggers the heartbeat.  Programs that use the core driver
log users off and ask for updates too, on the workers of its queue
(`drvcore.cpp`), at the same time as the tray pipe.  The driver sends check-rights
messages on a port; `nxrmfltman` threads queue them; four workers evaluate them
against the session of the calling process, write an audit record and reply; the
kernel thread that asked stores the reply in the rights cache of its process.
Purges go the other way: a message on the driver's port empties the caches, and
leaves the decisions alone that are still on their way to it.

## Modules

Modules hold definitions and properties; `MC*` modules only give TLC its
constants.

| Module | Models | State and actions |
|---|---|---|
| `RightsRefresh` | decision path | `policy`, `bundle`, `token`, `expired`, `phase` are the service's; `rights` and `req` the kernel's.  `Heartbeat*`, `Logon*`, `Logoff*`, `Session*` are the writers, one action for each part of a handler that is done under one lock or in one call; `ctl` is the place of each thread that logs users on or off: `Pipe`, which does both, and `DrvWorkers`, which only log off.  `Check*` are the kernel thread's two ends of a call, `Serv*` the worker's steps between; `PurgeFile`, `ProcessExit` the driver's own removals.  `synced` and `crossed` are history: the cache was purged after the session's last change; a logoff has cleared the bundle of a user who logged on while it ran |
| `RightsRefresh_proofs`, `Heartbeat_proofs`, `JobPool_proofs`, `ServiceControl_proofs`, `FilterPort_proofs`, `AuditUpload_proofs`, `ProcessList_proofs`, `SessionApp_proofs` | | theorems about the module each is named after |
| `Heartbeat` | heartbeat job | `hb` is the thread's place with what the request said and the answer; `force`, `requestor`, `event`, `bundle`, `known` the globals; `file` and `listed` what is on disk, `agent_policy.sjs` and `external_users.sjs`; `server` is external.  `Heartbeat*` are the steps of a turn; `HeartbeatInstall`, `HeartbeatSave`, `HeartbeatLoad` are `update_policy_bundle`, which empties the file, writes it and loads what it wrote, each with its failure.  `FirstLogonRecord`, `FirstLogonSave` and `FirstStart` record a new user, the first two with the file's emptying and writing, `FirstLogonFlag`, `FirstLogonTrigger` ask for the policy; `RequestUpdate` is a request for an update, `Publish` the server's new policy, `Restart` a crash and the next start, which reads the two files |
| `JobPool` | job pool | `pool`, `lock`, `thread`, `event`, `stopping` as in `job_pool` and `job`; `main` is the service's main thread.  `Run*` are `run_jobs`, `Clear*` is `clear` with a step for each stop and join, `Register*`, `RemoveSelf`, `DetachSelf` the register job, `Heartbeat*` and `UpgradeStarted` what the other jobs do to the pool, `UseFreed*` what a thread may do whose job object is gone |
| `ServiceControl` | service control | `scm` is `m_Status`, `status` is `GLOBAL._status`; `map` says whose object serves a session, `object` the life of the objects that OnStart and the handler have made of it; `main.copy`, `map` and `handler` hold the references, and `Destroyed` is what `~session` does when the last one goes: it stops the session, again if it was stopped.  `notices` is what the SCM has yet to deliver, `active` the sessions in the state `WTSActive`, `hung` a main thread that waits for a session or a job that does not end.  `Start*`, `StopBegins`, `JobsCleared`, `StopSessions`, `StopEnds`, `MainHangs` are the main thread; `Pause`, `Resume`, `Stop` with `StopSignal` and `StopReport`, `SessionChange`, `Logon*`, `Logoff*`, `HandlerReturns` the handler; `User*` are Windows' |
| `FilterPort` | filter request queue | `call` and `port` are the kernel's, `portThread` the threads of `nxrmfltman`, `list` and `requested` the list and its event, `worker` the workers; `main` and `heartbeat` are the two threads that start and stop `serv_flt`.  `Send`, `Timeout` are the kernel's, `Port*` `nxrmfltman`'s and `drv_callback`'s, `Worker*` the workers', of which `WorkerAuditFails` is the second reply of the handler of exceptions and `HeapFails` the end of the process by the block it freed twice; `Flt*` the steps of `serv_flt::start`, `Main*` those of OnStart, OnStop and `serv_flt::stop` |
| `AuditTrail` | abstract | what the audit log promises: a record that was audited is pending until the server has it, is never taken back, and is lost only when the log closes, while it is closed, or by a fault of its file |
| `AuditUpload` | audit | `cache`, `archive`, `upload` (the job's place and the records it has taken), `open`, `composing`.  `AuditWriteFails`, `UploadTakeFails`, `UploadBackFails` are the writes and reads that fail without anybody's notice.  Refines `AuditTrail` through the mapping given by the `INSTANCE` at its end |
| `ProcessList` | process list of the driver | `list`, `proc`, `rundown`, `users`, `tree` are the nodes and what is in them; the lock of the list is held while `policy` or `purge` walks, the lock of a tree while a call is at `read` or `write` or the policy purge is `at` the node.  `Create*`, `Exit*` are the two branches of the notification routine, `Call*` a thread in `nxrmfltCheckRights` or `nxrmfltCheckHideNXLExtsionByProcessId`, `Policy*`, `Purge*` the purges; `life` counts the uses of an id, and an entry of a tree is the life it was decided for |
| `SessionApp` | tray application keeper | `owner` is the thread in `start` or `stop`, `keeper` the thread of `_worker`; `handle`, `stopEvt`, `stopping` are `_hevts` and `_stopping`; `tray` the tray processes.  `Launch*` are the steps of `start_app`, `Keeper*` those of `workthread` and `wait`, `Start*`, `Stop*` the owner's; `Tray*` are the life of a tray, from `nxrmtray.cpp`, `clientipc.cpp` and `asyncpipe.cpp`: `TrayDeaf` is a listening thread that has returned in a process that lives on |

Comments name the source lines; `PROJECT.json` maps every definition.

### Abstractions

- `RightsRefresh`: a bundle is a version and the user it was filtered for; a
  decision is the user and the bundle it was made from.  The policy serial
  number of the core driver, remote evaluation, the evaluation cache, the audit
  record and the process status written before a reply, sessions with Windows
  authentication, the list of processes never granted access, and the
  notification balloons are left out.  Session ids are not used again, the
  batch of sessions added by OnStart is covered by single additions, and the
  service is running from the start.  The test of `logged_on` inside `evaluate`
  and its reading of the bundle are one step.
- `Heartbeat`: the agent is registered, and sessions stay in the map.
  Adding a user to the list in memory and emptying the file of the list are one
  step, writing it is the next; so for the bundle: keeping the answer and emptying
  `agent_policy.sjs`, then writing it.  Clearing the requestor's id and answering
  it are one step.  Users who log on to Windows are found again after a crash in
  the list that Windows keeps; what the service adds to it is taken to be
  written.  Time stamps of bundles are versions.
- `JobPool`: the repeat interval is not 0.  Pausing is there; continuing is not,
  because it runs `OnPause` again (`svc.cpp:181`).  A thread whose job object has
  been destroyed reads freed memory: the model lets it end, because the wait on what was its event
  fails, or fault.
- `ServiceControl`: the drivers and the job pool started by `OnStart` are left
  out, but for the place where OnStop waits for the pool.  No control is delivered
  while a stop is pending, as the accepted controls say (`svc.cpp`).  The start
  of a session, the end of a job and the end of a session may not come; for the
  main thread this is `hung`, the handler may stop anywhere.  A session that
  `add` makes for a map that has one already is stopped by its destructor and
  nobody else ever had it: it changes none of the state modelled (it does turn
  off the overlay of the session, `session.cpp:843`, which is not).  Destructors
  of the objects that `serv_session::clear` drops run in one step, with the lock
  held.
- `FilterPort`: only check-rights messages, which alone need a reply; what a
  reply says is `RightsRefresh`'s matter.  Each kernel thread sends one.
  Memory is short only where the code says what it does then, in
  `nxrmfltmanWorker`.  When the audit or the notification that follows a reply
  throws, the handler of exceptions answers once more, from a block that has
  been given back (`drvflt.cpp:856-868`).  The second answer finds the message
  answered and reaches nobody, or, if the block has become another message,
  its sender, who then goes on without its own; and the block is
  given back twice, after which the heap may end the process (`HeapFails`).
  `RepliedOnce` counts the second answer and allows it for these messages only.
- `AuditUpload`: records are model values, so the contents, the id generator and
  the dates of archive files are left out.  Disk writes are not reordered:
  the file is opened write-through.  A write that fails writes nothing.
- `ProcessList`: a tree is, per file, the life of the process the entry was
  decided for; what is decided is `RightsRefresh`'s matter.  A process id is not
  used again while a thread of its last user is in the driver.  The flags of a
  node, the notification sent to the service, and the unload of the driver are
  left out.  The purge of a file takes no lock of the tree: where it meets a
  call, the model lets the call find the entry or not and the entry survive or
  not; a torn tree has no outcomes to enumerate.  The node that a call keeps for
  itself when the one in the list is being run down is lost, as in the code,
  which releases a reference it never took.
- `SessionApp`: one life of a session object, which `ServiceControl` shows is
  started once; there is at most one tray of an earlier service.  The closing
  of the handle and the reading of `_stopping` after a death are one step.
  A tray's own start is three steps (created, mutex, pipe); its pipe may fail at
  any time from then on, and the tray is then deaf for good.  A message to quit that
  meets an instance of the pipe in use is one of the lost ones.

## What TLC checks

| Run | Module, bounds | Shows |
|---|---|---|
| `rights_cache` | `RightsRefresh`; 1 session, 2 users, 1 process, 1 file, 1 call in flight, the pipe and 1 worker of the core driver, 1 policy after none | `FreshAfterLogon`, `NoMixedDecision`, `SessionBundleCurrent`, `PolicyReachesSessions` |
| `purge` (violation) | 1 session, 1 user, 1 call, the pipe alone, 2 policies | `PurgeCleansCache` fails |
| `heartbeat` | `Heartbeat`; 1 user of RMS and 1 of Windows, 2 sessions, 2 policies, 1 crash, 2 first logons or requests | `TriggerNotLost`, `NoPolicyLost`, `NewPolicyArrives`, `SoleRequesterAnswered` |
| `first_logon` (violation) | the same users, 1 policy, no crash | `FirstLogonGetsPolicy` fails |
| `jobs` | `JobPool`; 2 triggers | `AssertionsHold`, `NoTurnAfterStop`, `JobsFollowRegistration`, `StopHangsOnlyOnLock` |
| `service_stop` (violation) | no triggers | `StopCompletes` fails |
| `service_control` | `ServiceControl`; 2 sessions, 2 notices under way, 2 logons, 2 pauses | `SessionStartedOnce`, `ServesActiveSessions`, `StopIsFinal` |
| `service_resume` (violation) | 1 session, 1 pause | `ResumedServiceRuns` fails |
| `filter_port` | `FilterPort`; 2 messages, 2 threads of `nxrmfltman`, 2 workers | `RepliedOnce`, `QuietAfterStop`, `RequestsAnswered`, `StopEnds` |
| `audit_upload` | `AuditUpload`; 3 records, 1 restart, 2 failed reads or writes | `ArchivedOnce`, `KeepsTrail` (refinement), `RecordsArrive` |
| `process_list` | `ProcessList`; 1 process id used twice, 2 threads, 2 nodes, 1 file | `OneNodePerProcess`, `HeldNodeStays`, `TreeSafe`, `NoInheritedRights`, `WaitsEnd` |
| `session_app` | `SessionApp`; 3 tray processes, 3 deaths, 2 lost messages, pipes that fail at any time | `KeeperStays`, `StartEnds`, `StopEnds`, `StopQuitsTray`, `TrayKept` |

Why the bounds are enough.  The races of the decision path need one call that
straddles a change: of a call and the next, only what the first leaves in the
cache matters to the second, and the invariants speak of the cache.  Processes,
files, further calls and other sessions only multiply independent copies; the
theorems remove these bounds altogether.  A session can be added before, while
or after the heartbeat copies the map.  One policy after none and its forced
repetition give every order of a push and a logon, a worker beside the pipe
every order of a logoff and a logon; two policies, which one decision needs to be
of the older, are in `purge`.
In `Heartbeat` two users are needed for one to raise the flag that the
other's answer resets, and one of each kind, because a crash forgets the
one and not the other; two sessions for one to overwrite the other's request;
two versions for an answer that is old news; one crash for each place of the
save it may cut short.  The job pool has the four jobs
of the code, so nothing but the number of triggers is bounded, and an event holds
one.  In `ServiceControl` the second logon, pause or notice meets the first; the
third finds the same state as the second.  Two messages, two threads and two workers let a
request arrive while one worker is busy and the other resets the event, and let
one worker end before the other.  Three records let one be taken, one be
appended meanwhile and one be in a worker; with two faults a record is lost on its
way in and another on its way back.  In `ProcessList` nodes of different
processes never meet but in the list, so one id is enough, and two uses of it let
the second inherit from the first; two nodes let one be in the list, or with one
thread, while the other thread has its own; with two process ids, where the
invariants were checked too, nothing new happens.  Two deaths of trays and one
more let a relaunched tray die again; three trays let an old one stay while the
keeper's ends.

Deadlock is checked except in the runs of `JobPool`, `ServiceControl`, `FilterPort`,
`AuditUpload`, `ProcessList` and `SessionApp`: there the service, the process or
the session ends, and `job_pool::clear` may really hang,
which is what `service_stop` shows.

### What the properties except

An exception in a property is something the code does; each is a hazard of
`PROJECT.json`, or part of one.

- `SessionBundleCurrent`, `PolicyReachesSessions`: a logoff on a worker of the core
  driver clears the token, the pipe logs the next user on with token and bundle,
  and the logoff then clears the bundle (`session.cpp` 1117-1118 around
  1143-1150).  This user has no policies until the next bundle; `crossed`
  holds from the clearing to that bundle.  The mutants of both properties fail
  them without a crossed logoff.
- `FreshAfterLogon`, `NoMixedDecision`: calls a purge has overtaken (`late`).
- `NoPolicyLost`: a crash while `agent_policy.sjs` is being written, a failed write or
  a bundle that does not load leaves no policy at the next start; users who were
  lost with `external_users.sjs` are not covered by the next bundle.
  `NewPolicyArrives` shows that the next request asks for everything.
- `ServesActiveSessions`: sessions whose latest notification came while the
  service was paused, and those that were disconnected while OnStart enumerated:
  their reconnection is no logon (`missed`).
- `StopIsFinal`: a main thread that hangs in the start of a session, in
  `job_pool::clear` (which `service_stop` shows it may) or in the end of a session.
  Where it does not hang OnStop comes to its end, but the second report of the
  pending stop may come after the report of the stopped service (`svc.cpp` 122,
  145-147) and be the last thing the SCM hears.
- `RepliedOnce`: a message whose audit throws is answered twice, and no more.
- `KeepsTrail`, `RecordsArrive`: a fault of the file costs the records it concerns,
  in that step, and holds up no others.
- `StopQuitsTray`, `TrayKept`: the keeper looks at the tray's process only, so it
  keeps a tray whose pipe has failed, and such a tray does not hear that it is to
  quit.

### Fairness

- `RightsRefresh`: a thread that has begun to install a policy, to log on or to
  log off goes on; nothing there waits for another party.  When a heartbeat, a
  logon or a session change begins is open, and nothing is assumed of kernel
  threads.  Fairness is stated for each thread that logs off by itself.
- `Heartbeat`: the job's thread goes on, its wait ends by the event or the
  interval, and a handler that has recorded a new user saves it, raises the flag and
  triggers the job.  A call to the server ends, because the connection has a
  timeout; it may fail any number of times, but a server that is asked again and
  again answers again and again with a bundle that loads, and the disk does not
  refuse such a bundle for ever (strong fairness of `HeartbeatAnswer`,
  `BundleTaken`, `BundleSaved`), without which no policy could arrive.  `TriggerNotLost` is an invariant, so nothing it
  says is owed to the interval.
- `JobPool`: every thread that can take a step takes one; the steps that need
  `_queue_lock` are only enabled while it is free.
- `ServiceControl`: the main thread goes on while it does not hang, and a stop that
  has begun is signalled.  Nothing else is assumed of the handler, which may hang
  in the start of a session.
- `FilterPort`: every thread of the service goes on; nothing is assumed of the
  kernel's threads, of their timeouts, or of when the service is stopped.
- `AuditUpload`: the job's turns come again, because the interval always ends.
  Uploads may fail any number of times, but a server that is asked again and
  again is reached and confirms again and again (strong fairness of `UploadTake`
  and `SendConfirmed`), without which no record could arrive.
- `ProcessList`: threads in the driver go on, and who waits for a lock gets it
  although others take it in between (strong fairness of the steps that acquire
  one): push locks queue their waiters.  A call to the service ends, by its
  answer or after 30 seconds.
- `SessionApp`: the two threads go on, and a tray gets on with starting and
  ending; nobody has to start or stop the session, and no tray has to die or to go
  deaf.

### What the violations show

Four runs state what a comment or a message of the code says and find that the
code does not do it.  `purge`: a purge of the cache comes before the change it is
for, so a decision made in between outlives it; the two parts of
`PurgeCleansCache`, for logoff and for a policy change, each fail by themselves.
Logon has the right order and `rights_cache` shows that it suffices.  `first_logon`: one flag
for all new users is reset by the answer of a request that did not name the
second.  `service_stop`: threads are joined under the lock they need.
`service_resume`: continue runs the handler of pause.

## What is proved

TLC explores the small instances above; the theorems hold for every value of the
constants, from the assumptions the modules state about them alone.  Each
invariant is proved with one step per action, on top of type correctness; the
last step of a theorem is temporal logic.  Each `*_proofs` module proves
`TypeCorrect`: `Spec => []TypeOK`, and further what is listed below.

Liveness.  Eleven theorems state `FairSpec /\ []StepsEnabled => P` for a property
`P` with `~>`.  To use fairness one has to know when an action is ENABLED, and
the prover does not treat that operator.  `StepsEnabled`, defined before the
theorems of each module, says only that: for each fair action the argument uses,
the guard on the left implies that the action is enabled.  It is no assumption
on the program: the rest of each such action assigns to every variable, and
changes at least one.  TLC found it an invariant of every module's instance
above (to repeat it, extend the `*_proofs` module by an `MC` module and take
`StepsEnabled` as its INVARIANT).  Each theorem then follows the classical
pattern: what a step makes of the places a promise can be at, under an invariant
proved before, then one `~>` per place from the fairness of the action that
leaves it.

Four theorems have one more antecedent, where the end of something finite has
to be counted down, which needs an induction the prover cannot do inside temporal
logic.  Each is a consequence of the specification for the finite sets the
program has:

| antecedent | module | says | why it holds |
|---|---|---|---|
| `CrashesEnd` | `Heartbeat` | from some time on the service does not crash | at most `MaxRestarts` restarts |
| `BackEnds` | `AuditUpload` | putting refused records back ends | a finite list, one record less per fair step; checked by TLC for the runs' constants |
| `SessionsEnd` | `ServiceControl` | the loop of `OnStart` over the sessions ends, or hangs | a finite set, one session less in two fair steps; checked by TLC for the runs' constants |
| `Together` | `FilterPort` | if each worker ends for good, then all are ended for good from some time on | temporal logic, for a finite set of workers |

`RightsRefresh_proofs` (`ConstantsOK`: `NoUser` is no user, `NoSession` no
session, every process has a session, `MaxPolicy` is a natural number, the pipe
is no worker of the core driver, of which there may be any number).  `TypeInv`
adds to the types that a call in flight has a process and a file, that a thread
which logs somebody on or off serves a session past `added`, and that only the pipe
logs on; without the first, what `CheckInsert` writes would have no place.

- `BundleCurrent`: `Spec => []SessionBundleCurrent`.  `CurrentInv` drops the
  exception for a session that some thread is changing, but for the time
  between a logon's new token and its bundle.  It needs nothing about a logoff
  in progress: if the token is empty when the bundle is cleared nothing is
  claimed of the session, and if it is not, `crossed` is set.  The argument: a
  session can only be behind while the heartbeat has not copied the map, or has
  it on its list.
- `CacheFreshAfterLogon`: `Spec => []FreshAfterLogon`.  The cache is only as good
  as the calls that may still write to it, so `FreshInv` says of each call in
  flight that no purge has overtaken what it has read.  A logoff on any thread
  ends what is claimed as soon as it changes the token or the bundle, and a logon
  claims it only after its purge.
- `NoDecisionOfTwoUsers`: `Spec => []NoMixedDecision`.  `MixedInv` says that
  outside a logon's rebuilding the bundle belongs to the user logged on or to
  nobody, and that a call which has read a user has read that one or nobody.  A
  logoff that crosses a logon leaves a bundle that belongs to nobody.
- `PolicyGetsThrough`: `PolicyReachesSessions`.  A session behind a policy is owed
  it by the logon that is about to give it its bundle, or by the heartbeat, at a
  place of its turn from which the push to this session follows; `CurrentInv`
  excludes that nobody owes it, unless a logoff has crossed the logon.  No turn of the
  heartbeat or of a thread that logs users on or off hands the debt on without
  paying it.

`Heartbeat_proofs` (`HeartbeatConstants`: `WindowsUsers` are users, `NoSession` is
no session, `NoBundle` and `Unreadable` are no bundles and not the same, the bounds
are natural numbers and there is a first version).

- `PoliciesKept`: `Spec => NoPolicyLost`, an action property.  Nothing in the
  code compares an answer with the bundle in force before it replaces it.
  `PolicyInv` says why no comparison is needed: a request names every user known
  when it was made, users are only forgotten in a restart, with their list
  (`lost`), and only the turn that sent the request changes the bundle.  For
  what a restart brings back it follows the file: empty while it is being saved,
  then the answer until that is loaded, and the bundle in force, or nothing, at
  every other place of the turn.
- `NoTriggerLost`: `Spec => []TriggerNotLost`.  `TriggerInv` adds that a user
  whose first logon has got as far as the trigger is recorded, so every request
  made from then on names that user.
- `SoleRequesterHeard`: `SoleRequesterAnswered`.  The job goes from each place of
  its turn to the next, also when its call fails, and nobody but another session
  or the answer changes the cell.
- `PolicyInstalled`: `NewPolicyArrives`.  Once the crashes have ended, each turn
  reaches its request; strong fairness gives one that is answered, one of those
  answers that is taken, and one of these that is saved and loaded; it brings at
  least the published version, and `PolicyInv` says that what is installed is
  never replaced by less.

`JobPool_proofs` (`JobPoolConstants`: the bound is a natural number).

- `StoppedForGood`: `Spec => []NoTurnAfterStop`.  `PoolInv` says that every job
  with a live thread is in the pool, and that `clear` leaves behind it only jobs
  whose threads have ended: the lock it keeps is what stops the others from
  adding and removing jobs meanwhile, and `TypeInv` carries it.
- `AssertionsOfJobs`: `Spec => []AssertionsHold`.  `AssertInv` ties each place of
  the register job's thread to the registration.  It needs `PoolInv`: if
  `remove` could miss the job, the thread would wait for another turn although
  the agent is registered, and the next turn would fail the assertion.
- `RegisteredGetsJobs`: `JobsFollowRegistration`.  The register job is never kept
  from the lock for good, unless `clear` has it, which is one of the outcomes; no
  job it has added has ended unless the service stops.
- `StopHangsOnLock`: `StopHangsOnlyOnLock`.  `WalkInv` keeps the place of `clear`
  within the queue, `OwnPlaces` says that no job is twice in it, so it has
  at most four places and the walk needs no antecedent.  At each place the job
  that is joined has its stop event set and leaves, from every place its thread
  can be at, unless it needs the lock.

`ServiceControl_proofs` (`ServiceControlConstants`: the bounds are natural
numbers).

- `StartedOnce`: `Spec => []SessionStartedOnce`.  `StartedInv` says who may be
  starting which object, and who holds it meanwhile: the handler touches no
  session before `OnStart` is done with all of them (`Alone`); until then each
  session on the list has been added and not started, but for the one being
  started (`OnStartInv`); an object in the map has been started, or is on that
  list, or is the one the handler has just added (`InMap`); what the handler is
  to start it has made itself, and what it is to stop has left the map (`InHand`);
  nobody else is starting anything (`OwnStart`).  The destructor therefore never
  meets an object in the middle of its start, although `clear`, OnStart's return
  and the handler's return may each drop the last reference.
- `ActiveSessionsServed`: `Spec => []ServesActiveSessions`.  `LastTells` says that
  the last notification of a session under way tells whether it is logged on now,
  and `Settled` that a session of which none is under way, and which is not
  `missed`, is in the map, once the handler is done with it, if and only if it is
  logged on.  It rests on `StartedInv`: the enumeration meets no notification half
  handled.  Two lemmas carry it through taking and adding a notification.
- `StopsForGood`: `StopIsFinal`.  `StopInv` says that while the SCM has been told of
  the stop the event is set, or the handler is about to set it, so the main
  thread's wait ends wherever the stop finds it.  From each place of OnStart and
  OnStop the main thread comes to the next or hangs.

`FilterPort_proofs` (`FilterPortConstants`: `NoCall` is no message).

- `AnsweredOnce`: `Spec => []RepliedOnce`.  `OnceInv` follows a message through
  the port, the threads of `nxrmfltman`, the list and the workers: it is in at
  most one place, and has not been answered while it is in one, but for a worker
  that audits after its reply.  If that audit throws the message is in no place any
  more, so its second answer is its last.
- `WorkersGone`: `Spec => []QuietAfterStop`.  `QuietInv` says that `serv_flt` is
  started until `stop` is over, that `stop` resets its event only when all
  workers have ended, and that nothing starts workers afterwards.
- `StopReturns`: `StopEnds`.  While `stop` waits for the workers its event is set, so
  each of them ends after what it has in hand, whatever requests there are.  A
  heartbeat that was in `serv_flt::start` when the service began to stop comes to
  the end of it; the main thread, which has waited for it, then stops what it
  started, and not a third time.  If the heap ends the process, all of them
  have ended.

`AuditUpload_proofs` (`AuditConstants`: the bounds are natural numbers).

- `ArchivedRecordsOnce`: `Spec => []ArchivedOnce`.  `CopiesInv` says that a record
  has one copy, be it with a worker, in the cache, with the job or in the
  archive, and that the server has what is archived and, once it has confirmed,
  what the job has taken.
  Lemmas about lists of records carry it through appending, concatenating and
  taking the first.
- `TrailKept`: `Spec => KeepsTrail`, the refinement: every step of `AuditUpload`
  is one of `AuditTrail` under the mapping, or changes nothing there.  Three
  lemmas sort the steps into those that move copies about, lose some, or deliver
  some; it rests on `CopiesInv`.  A step that loses a record counts a fault, or
  leaves the log closed.
- `EveryRecordArrives`: `RecordsArrive`.  While the log is open, and no fault has
  cost this record, it stays in the file or is with the job, refused or being sent,
  and comes back to the file from each of these; the job takes the file's records
  again and again, and strong fairness gives an upload that is confirmed while it
  has the record.  `QuietInv` adds that an open log belongs to a running service, whose
  connection can come back.

`ProcessList_proofs` (`ProcessListConstants`: `NoProc` is no process, `NoNode` no
node, ids are used a positive number of times) proves five theorems from one
invariant, `IInv`, because none of the properties is inductive without the
others.

- `OneNode`, `HeldNodes`, `TreesSafe`: `Owned` gives every node an owner: the
  notification that has made it or is about to free it, the call that has made
  it or holds a reference, or the list.  A notification that waits for the
  rundown and a call that holds a reference can therefore only meet before the
  wait is over, and a walk of the list keeps from removal what it stands on.
- `NothingInherited`: `Started` ties the uses of an id to the notifications, and
  `CallLife` says that a call works for the present use of its process's id, so
  what it stores cannot be for another; `EmptyNode` that a new node holds
  nothing.  The exception is a node inserted behind the exit (`orphan`), which
  the code allows.

`SessionApp_proofs` (`SessionAppConstants`: `NoTray` is no tray, the bounds are
natural numbers).

- `KeeperKeepsOn`: `Spec => []KeeperStays`.  `Reasons` says that after a launch
  the keeper has a tray or the launch has failed, and that it leaves its loop
  only for that or because of `stop()`; `ToldByStop` that nobody else sets the
  event or the flag.
- `StartReturns`: `StartEnds`.  A launch comes to its signal whether it succeeds or not,
  and a keeper whose launch has failed is gone when `start()` joins it, but for
  the handle read in between, which `StartEnds` excepts.
- `StopReturns`: `StopEnds`.  From every place of its loop the keeper comes to its wait
  or to its end, and the stop event ends the wait; only the reset at the head of the
  loop could undo it, and the keeper is past that.
- `StopEndsTray`: `StopQuitsTray`.  The keeper keeps the handle of the tray
  until it has sent the message, the message goes to this tray because no other
  has the mutex (`MutexInv`) and so no other listens, and a tray told to quit
  ends; until then its pipe may have failed, which the property excepts.

Only model-checked, of what the passing runs check, are three liveness
properties; each needs an argument that cannot be given here even with
`StepsEnabled`:

- `RequestsAnswered` (`FilterPort`): a request moves up the port and the list as
  those before it are taken, by whichever thread is free; this is a countdown
  of its position, and no bound on the position holds for every set of messages.
- `WaitsEnd` (`ProcessList`): an exit waits until each of the calls that hold its
  node has left, and a purge walks a list of any length; both exchange "each
  eventually" for "eventually all", in a setting where calls come and go.
- `TrayKept` (`SessionApp`): it is of the form `<>[]`, and which tray it speaks of is
  only fixed after the last death; the deaths and the launches have to be
  counted down together.

## What is not modelled

See the components of `PROJECT.json`: policy evaluation and its parsers
(sequential), the driver's other callbacks, drivers other than the filter, user
interface, tools, and the second-generation service under `src/app`.  The
generator of audit ids, which may repeat one (`audit.cpp:526`), and the logs are
left out of the modelled parts.  Hazards without a property name the reason.

## Plan

In order of importance; what is done is marked.

1. `RightsRefresh`, its runs and its proofs. Done.
2. `Heartbeat`, `JobPool`, `ServiceControl`, with proofs. Done.
3. `AuditTrail`, `AuditUpload`, with the proof of the refinement. Done.
4. `FilterPort`, with proofs. Done.
5. `ProcessList` and `SessionApp`, with proofs. Done.
6. `EvalCache`: expiry and eviction as a pure operator against a reference
   definition; the order in which creation and exit reach the table of processes
   (`process_status.cpp`).
7. Composition of `ServiceControl` with `JobPool`, and with `SessionApp`, whose
   start can block the control handler.
8. The liveness properties without a theorem: of `WaitsEnd` the part of one call
   (who holds a node lets it go), of `TrayKept` the part after the last death.
9. An abstract specification of the rights cache that `RightsRefresh` implements
   for processes whose session has one user.
