------------------------------ MODULE Heartbeat ------------------------------
(***************************************************************************)
(* The heartbeat job and those who want something from its next turn.      *)
(*                                                                         *)
(* The job's thread asks the RMS server for news, installs the policy      *)
(* bundle it gets and waits for its event or its interval.  A user who     *)
(* logs on for the first time (to Windows: session::start; to RMS:         *)
(* session::logon) is recorded, raises GLOBAL._policy_need_force_update    *)
(* and triggers the job, so that the server sends a bundle evaluated for   *)
(* that user too.  A session that asks for an update leaves its id in      *)
(* GLOBAL._requestor_session_id and triggers the job.                      *)
(*                                                                         *)
(* The bundle and the list of RMS users are also kept on disk, in          *)
(* agent_policy.sjs and external_users.sjs.  sconfig::save empties the     *)
(* file before it writes: if the write fails or the service crashes in     *)
(* between, the next start finds nothing there that it can load.           *)
(*                                                                         *)
(* The server is external: it keeps a policy version and answers with a    *)
(* bundle, for the users named in the request, when the request's time     *)
(* stamp is not that version's.                                            *)
(***************************************************************************)
EXTENDS Naturals

CONSTANTS Users,        \* users that may log on for the first time
          WindowsUsers, \* those of them that Windows keeps a list of
          Sessions,     \* sessions that may ask for an update
          NoSession,    \* GLOBAL._requestor_session_id = 0
          NoBundle,     \* no policy bundle: in a response, or on disk
          Unreadable,   \* a policy bundle that policy_bundle::load refuses
          MaxVersion,   \* bound: policy versions the server publishes
          MaxRestarts,  \* bound: crashes of the service
          MaxTriggers   \* bound: first logons and requests for an update

ASSUME HeartbeatConstants ==
    /\ WindowsUsers \subseteq Users
    /\ NoSession \notin Sessions
    /\ NoBundle \notin [ver : Nat, users : SUBSET Users]
    /\ Unreadable \notin [ver : Nat, users : SUBSET Users]
    /\ NoBundle # Unreadable
    /\ MaxVersion \in Nat \ {0}
    /\ MaxRestarts \in Nat
    /\ MaxTriggers \in Nat

VARIABLES
    server,     \* the policy version of the server
    known,      \* users a request names: GLOBAL.external_users and Windows users
    listed,     \* the users of external_users.sjs
    caller,     \* how far each user's first logon is
    force,      \* GLOBAL._policy_need_force_update, lost in a restart
    event,      \* the job's auto-reset event
    bundle,     \* GLOBAL._policy_bundle: its version and the users it is for
    file,       \* agent_policy.sjs, NoBundle if nothing in it can be loaded
    hb,         \* the job's thread
    requestor,  \* GLOBAL._requestor_session_id
    waiting,    \* history: sessions that have asked and not been answered
    asked,      \* history: users named by this turn's request after their trigger
    lost,       \* history: users a restart found no longer listed, not named since
    triggers,   \* first logons and requests so far
    restarts    \* restarts so far

clients == <<known, listed, caller, force, requestor, waiting, triggers>>
past == <<lost, restarts>>
vars == <<server, clients, event, bundle, file, hb, asked, past>>

-----------------------------------------------------------------------------
Bundles == [ver : 0..MaxVersion, users : SUBSET Users]
Replies == Bundles \cup {NoBundle, Unreadable}
Nothing == [ver |-> 0, users |-> {}]
Empty(b) == b.ver = 0

Places == {"start", "build", "sent", "answered", "install", "save", "load", "respond", "clear",
           "wait"}
Turns == [pc : Places, forced : BOOLEAN, users : SUBSET Users, reply : Replies,
          asker : Sessions \cup {NoSession}]

TypeOK ==
    /\ server \in 1..MaxVersion
    /\ known \subseteq Users
    /\ listed \subseteq known
    /\ caller \in [Users -> {"new", "recorded", "saved", "flagged", "done"}]
    /\ force \in BOOLEAN
    /\ event \in BOOLEAN
    /\ bundle \in Bundles
    /\ file \in Bundles \cup {NoBundle}
    /\ hb \in Turns
    /\ requestor \in Sessions \cup {NoSession}
    /\ waiting \subseteq Sessions
    /\ asked \subseteq Users
    /\ lost \subseteq Users
    /\ triggers \in 0..MaxTriggers
    /\ restarts \in 0..MaxRestarts

\* A new turn of the job, and one whose try block is over: what was read before
\* is out of scope.
Turn == [pc |-> "start", forced |-> FALSE, users |-> {}, reply |-> NoBundle,
         asker |-> NoSession]
Over == [Turn EXCEPT !.pc = "respond"]

\* job_pool::add starts the thread, which begins with do_job.
Init ==
    /\ server = 1
    /\ known = {}
    /\ listed = {}
    /\ caller = [u \in Users |-> "new"]
    /\ force = FALSE
    /\ event = FALSE
    /\ bundle = Nothing
    /\ file = NoBundle
    /\ hb = Turn
    /\ requestor = NoSession
    /\ waiting = {}
    /\ asked = {}
    /\ lost = {}
    /\ triggers = 0
    /\ restarts = 0

-----------------------------------------------------------------------------
(* job::worker and job_heartbeat::do_job *)

\* request_heartbeat decides whether to force an update ...
HeartbeatBegin ==
    /\ hb.pc = "start"
    /\ hb' = [hb EXCEPT !.pc = "build", !.forced = Empty(bundle) \/ force]
    /\ UNCHANGED <<server, event, bundle, file, clients, asked, past>>

\* Mutant: only the users whom the bundle in force does not cover are named.
HeartbeatSendMissing ==
    /\ hb.pc = "build"
    /\ hb' = [hb EXCEPT !.pc = "sent", !.users = known \ bundle.users]
    /\ asked' = {u \in known \ bundle.users : caller[u] = "done"}
    /\ lost' = lost \ known
    /\ UNCHANGED <<server, event, bundle, file, clients, restarts>>

\* ... and build_heartbeat_param names the users.
HeartbeatSend ==
    /\ hb.pc = "build"
    /\ hb' = [hb EXCEPT !.pc = "sent", !.users = known]
    /\ asked' = {u \in known : caller[u] = "done"}
    /\ lost' = lost \ known
    /\ UNCHANGED <<server, event, bundle, file, clients, restarts>>

\* Once the answer is there nobody looks at the request any more.
AnswerWith(r) == hb' = [hb EXCEPT !.pc = "answered", !.users = {}, !.reply = r]

\* The server's answer: a bundle if the request is forced or shows another
\* version.
HeartbeatAnswer ==
    /\ hb.pc = "sent"
    /\ AnswerWith(IF hb.forced \/ bundle.ver # server
                  THEN [ver |-> server, users |-> hb.users] ELSE NoBundle)
    /\ UNCHANGED <<server, event, bundle, file, clients, asked, past>>

\* Mutant: the time stamp of a bundle that cannot be parsed is kept without it.
HeartbeatStampOnly ==
    /\ hb.pc = "sent"
    /\ AnswerWith([ver |-> server])
    /\ UNCHANGED <<server, event, bundle, file, clients, asked, past>>

\* The same, when the bundle's time stamp cannot be found.
HeartbeatBadPolicy ==
    /\ hb.pc = "sent"
    /\ AnswerWith(NoBundle)
    /\ UNCHANGED <<server, event, bundle, file, clients, asked, past>>

\* The same, when the bundle will be saved and then found not to load.
HeartbeatUnreadable ==
    /\ hb.pc = "sent"
    /\ hb.forced \/ bundle.ver # server
    /\ AnswerWith(Unreadable)
    /\ UNCHANGED <<server, event, bundle, file, clients, asked, past>>

\* The call fails, or the answer has no agent information or another agent's.
HeartbeatFail ==
    /\ hb.pc = "sent"
    /\ hb' = Over
    /\ UNCHANGED <<server, event, bundle, file, clients, asked, past>>

HeartbeatResetFlag ==
    /\ hb.pc = "answered"
    /\ force' = (force /\ ~hb.forced)
    /\ hb' = [hb EXCEPT !.pc = "install"]
    /\ UNCHANGED <<server, known, listed, caller, event, bundle, file, requestor, waiting, triggers,
                   asked, past>>

\* Whether update_policy_bundle takes the answer.
News == IF hb.reply \in Bundles THEN hb.forced \/ hb.reply.ver # bundle.ver
                               ELSE hb.reply = Unreadable

\* It keeps a copy of the answer and empties agent_policy.sjs ...
HeartbeatInstall ==
    /\ hb.pc = "install"
    /\ hb' = IF News THEN [hb EXCEPT !.pc = "save", !.forced = FALSE] ELSE Over
    /\ file' = IF News THEN NoBundle ELSE file
    /\ UNCHANGED <<server, event, bundle, clients, asked, past>>

\* ... unless the copy cannot be kept or the file not opened, which ends the turn.
HeartbeatInstallFails ==
    /\ hb.pc = "install"
    /\ News
    /\ hb' = Over
    /\ UNCHANGED <<server, event, bundle, file, clients, asked, past>>

\* The answer is written to agent_policy.sjs ...
HeartbeatSave ==
    /\ hb.pc = "save"
    /\ hb' = [hb EXCEPT !.pc = "load"]
    /\ file' = IF hb.reply \in Bundles THEN hb.reply ELSE NoBundle
    /\ UNCHANGED <<server, event, bundle, clients, asked, past>>

\* ... or not: a failed write is reported, which ends the turn, or comes to light
\* when the stream is closed and nobody looks.
HeartbeatSaveFails ==
    /\ hb.pc = "save"
    /\ hb' \in {Over, [hb EXCEPT !.pc = "load"]}
    /\ UNCHANGED <<server, event, bundle, file, clients, asked, past>>

\* It is loaded into GLOBAL and the sessions, unless it does not load.
HeartbeatLoad ==
    /\ hb.pc = "load"
    /\ hb' = Over
    /\ bundle' = IF hb.reply \in Bundles THEN hb.reply ELSE bundle
    /\ UNCHANGED <<server, event, file, clients, asked, past>>

\* Whoever asked for an update, if anybody did, is read ...
HeartbeatReadRequestor ==
    /\ hb.pc = "respond"
    /\ hb' = [hb EXCEPT !.pc = IF requestor = NoSession THEN "wait" ELSE "clear",
                        !.asker = requestor]
    /\ UNCHANGED <<server, event, bundle, file, clients, asked, past>>

\* Mutant: the cell is cleared, and read again to tell who is to be answered.
HeartbeatRespondToCell ==
    /\ hb.pc = "clear"
    /\ requestor' = NoSession
    /\ waiting' = waiting \ {requestor'}
    /\ hb' = [Turn EXCEPT !.pc = "wait"]
    /\ UNCHANGED <<server, known, listed, caller, force, event, bundle, file, triggers, asked, past>>

\* ... removed, and told that the update is done.
HeartbeatRespond ==
    /\ hb.pc = "clear"
    /\ requestor' = NoSession
    /\ waiting' = waiting \ {hb.asker}
    /\ hb' = [Turn EXCEPT !.pc = "wait"]
    /\ UNCHANGED <<server, known, listed, caller, force, event, bundle, file, triggers, asked, past>>

\* WaitForSingleObject resets the event, or returns after the interval.
HeartbeatWake ==
    /\ hb.pc = "wait"
    /\ event
    /\ event' = FALSE
    /\ hb' = Turn
    /\ asked' = {}
    /\ UNCHANGED <<server, bundle, file, clients, past>>

\* Mutant: the job waits for its event only.
HeartbeatNoTimeout ==
    /\ hb.pc = "wait"
    /\ event
    /\ event' = FALSE
    /\ hb' = Turn
    /\ asked' = {}
    /\ UNCHANGED <<server, bundle, file, clients, past>>

HeartbeatTimeout ==
    /\ hb.pc = "wait"
    /\ hb' = Turn
    /\ asked' = {}
    /\ UNCHANGED <<server, event, bundle, file, clients, past>>

-----------------------------------------------------------------------------
(* First logons and requests for an update *)

\* The control pipe serves one request at a time.
PipeFree == \A u \in Users \ WindowsUsers : caller[u] \in {"new", "done"}

\* session::logon of a new RMS user: the user is added to GLOBAL.external_users,
\* and external_users.sjs emptied ...
FirstLogonRecord(u) ==
    /\ u \notin WindowsUsers
    /\ triggers < MaxTriggers
    /\ triggers' = triggers + 1
    /\ caller[u] = "new"
    /\ PipeFree
    /\ caller' = [caller EXCEPT ![u] = "recorded"]
    /\ known' = known \cup {u}
    /\ listed' = {}
    /\ UNCHANGED <<server, force, event, bundle, file, hb, requestor, waiting, asked, past>>

\* ... and written anew, if the write does not fail.
FirstLogonSave(u) ==
    /\ caller[u] = "recorded"
    /\ caller' = [caller EXCEPT ![u] = "saved"]
    /\ listed' \in {known \ WindowsUsers, {}}
    /\ UNCHANGED <<server, known, force, event, bundle, file, hb, requestor, waiting, triggers,
                   asked, past>>

\* session::start saves the profile of a user whom Windows has recorded.
FirstStart(u) ==
    /\ u \in WindowsUsers
    /\ triggers < MaxTriggers
    /\ triggers' = triggers + 1
    /\ caller[u] = "new"
    /\ caller' = [caller EXCEPT ![u] = "saved"]
    /\ known' = known \cup {u}
    /\ UNCHANGED <<server, listed, force, event, bundle, file, hb, requestor, waiting,
                   asked, past>>

FirstLogonFlag(u) ==
    /\ caller[u] = "saved"
    /\ caller' = [caller EXCEPT ![u] = "flagged"]
    /\ force' = TRUE
    /\ UNCHANGED <<server, known, listed, event, bundle, file, hb, requestor, waiting, triggers,
                   asked, past>>

\* Mutant: a job that is running is not triggered.
FirstLogonTriggerIdle(u) ==
    /\ caller[u] = "flagged"
    /\ caller' = [caller EXCEPT ![u] = "done"]
    /\ event' = (event \/ hb.pc = "wait")
    /\ UNCHANGED <<server, known, listed, force, bundle, file, hb, requestor, waiting, triggers,
                   asked, past>>

FirstLogonTrigger(u) ==
    /\ caller[u] = "flagged"
    /\ caller' = [caller EXCEPT ![u] = "done"]
    /\ event' = TRUE
    /\ UNCHANGED <<server, known, listed, force, bundle, file, hb, requestor, waiting, triggers,
                   asked, past>>

\* on_request_update on the control pipe, or CTL_SERV_UPDATE_POLICY on a worker of
\* the core driver's queue.
RequestUpdate(s) ==
    /\ triggers < MaxTriggers
    /\ triggers' = triggers + 1
    /\ requestor' = s
    /\ waiting' = waiting \cup {s}
    /\ event' = TRUE
    /\ UNCHANGED <<server, known, listed, caller, force, bundle, file, hb, asked, past>>

-----------------------------------------------------------------------------
(* The environment *)

Publish ==
    /\ server < MaxVersion
    /\ server' = server + 1
    /\ UNCHANGED <<event, bundle, file, hb, clients, asked, past>>

\* The service has crashed and starts again: load_configurations takes from disk
\* the bundle and the RMS users, or none; for a user who is still recorded the
\* first logon is over; run_jobs starts the job anew.
Restart ==
    /\ restarts < MaxRestarts
    /\ restarts' = restarts + 1
    /\ bundle' = IF file = NoBundle THEN Nothing ELSE file
    /\ known' = (known \cap WindowsUsers) \cup listed
    /\ lost' = lost \cup (known \ known')
    /\ caller' = [u \in Users |-> IF u \in known' THEN "done" ELSE "new"]
    /\ force' = FALSE
    /\ event' = FALSE
    /\ hb' = Turn
    /\ requestor' = NoSession
    /\ waiting' = {}
    /\ asked' = {}
    /\ UNCHANGED <<server, listed, file, triggers>>

Ask == HeartbeatAnswer \/ HeartbeatBadPolicy \/ HeartbeatUnreadable \/ HeartbeatFail
Install == HeartbeatInstall \/ HeartbeatInstallFails
Save == HeartbeatSave \/ HeartbeatSaveFails
Job == \/ HeartbeatBegin \/ HeartbeatSend \/ Ask \/ HeartbeatResetFlag \/ Install \/ Save
       \/ HeartbeatLoad \/ HeartbeatReadRequestor \/ HeartbeatRespond
       \/ HeartbeatWake \/ HeartbeatTimeout
Clients == \/ \E u \in Users : \/ FirstLogonRecord(u) \/ FirstLogonSave(u) \/ FirstStart(u)
                             \/ FirstLogonFlag(u) \/ FirstLogonTrigger(u)
           \/ \E s \in Sessions : RequestUpdate(s)
Next == Job \/ Clients \/ Publish \/ Restart

Spec == Init /\ [][Next]_vars

\* A bundle that loads is taken, and written to disk.
BundleTaken == HeartbeatInstall /\ hb.reply \in Bundles
BundleSaved == HeartbeatSave /\ hb.reply \in Bundles

\* The job's thread runs: a wait ends, at the latest after the interval, and a
\* call to the server ends one way or another.  So do the threads of the first
\* logons.  A server that is asked again and again answers again and again with a
\* bundle that loads, and such a bundle is not for ever refused by the disk.
FairSpec ==
    /\ Spec
    /\ WF_vars(Job)
    /\ \A u \in Users : WF_vars(FirstLogonSave(u) \/ FirstLogonFlag(u) \/ FirstLogonTrigger(u))
    /\ SF_vars(HeartbeatAnswer) /\ SF_vars(BundleTaken) /\ SF_vars(BundleSaved)

-----------------------------------------------------------------------------
(* Properties *)

\* No trigger is lost, whatever the job is doing when it comes: unless a request
\* that names the new user has been sent since the trigger, one is on its way
\* without waiting for the interval; and while somebody's wish for an update is
\* in the cell, a turn that will read it is running or due (jobpool.cpp 82-108,
\* 317-319; session.cpp 746-750; global.cpp 1257-1268).
TriggerNotLost ==
    /\ \A u \in Users : caller[u] = "done" =>
           u \in asked \/ event \/ hb.pc \in {"start", "build"}
    /\ requestor # NoSession => event \/ hb.pc # "wait"

\* A session that asks for an update is answered even if the turn fails, unless
\* another one asks meanwhile and takes its place in the one cell there is
\* (global.cpp 1257-1260, jobpool.cpp 313-326).
SoleRequesterAnswered ==
    \A s \in Sessions :
        (requestor = s /\ waiting = {s}) ~> (s \notin waiting \/ waiting # {s})

\* A policy the server publishes is installed, or a newer one is, whatever
\* fails and restarts meanwhile.
NewPolicyArrives == \A v \in 1..MaxVersion : (server = v) ~> (bundle.ver >= v)

\* An installed bundle is never replaced by an older one, nor by one that leaves
\* out a user it was for, whichever answers are lost (rest.cpp 880-898 names
\* every recorded user), and a crash never brings back an older one: it loses the
\* policy altogether, if the last save was cut short, failed or wrote a bundle
\* that does not load (sconfig.cpp 69, global.cpp 493-501), or nothing of it.  The
\* users who are excepted were lost with their list (agent.cpp 580-608).
NoPolicyLost ==
    [][\/ /\ bundle'.ver >= bundle.ver
          /\ bundle.users \ lost \subseteq bundle'.users
       \/ /\ restarts' # restarts
          /\ file = NoBundle /\ bundle' = Nothing]_bundle

\* What the log messages of session::start and session::logon promise
\* ("initiate a force heartbeat to get latest policy for this user", session.cpp
\* 745, 1166): the bundle in force is evaluated for a user who has logged on.
FirstLogonGetsPolicy == \A u \in Users : (caller[u] = "done") ~> (u \in bundle.users)
=============================================================================
