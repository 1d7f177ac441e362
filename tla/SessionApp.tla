----------------------------- MODULE SessionApp -----------------------------
(***************************************************************************)
(* The tray application of a session and the thread that keeps it.         *)
(*                                                                         *)
(* The thread that starts a session (session_app::start) creates the       *)
(* keeper, waits until it has launched the tray, and looks at the handle   *)
(* the keeper has got.  The keeper (workthread, wait) launches a new tray  *)
(* when the one it has ends, and tells it to quit when the session is      *)
(* stopped.  A tray holds a mutex, so that there is one per session, and   *)
(* ends on the message "quit" while it listens on its pipe.  When its pipe  *)
(* fails the process lives on without it.  A tray of an earlier service    *)
(* may still be there.                                                     *)
(***************************************************************************)
EXTENDS Naturals

CONSTANTS Trays,      \* tray processes
          NoTray,     \* NULL
          MaxDeaths,  \* bound: trays that end by themselves
          MaxLost     \* bound: messages that find the pipe busy

ASSUME SessionAppConstants ==
    /\ NoTray \notin Trays
    /\ MaxDeaths \in Nat
    /\ MaxLost \in Nat

VARIABLES
    owner,     \* the thread that calls start and stop
    keeper,    \* _worker: [pc, first]; first is its first launch
    launched,  \* the event on which start waits
    stopEvt,   \* _hevts[0] is signalled
    handle,    \* _hevts[1]
    stopping,  \* _stopping
    tray,      \* life of each tray process; a deaf one has no pipe
    failed,    \* history: a launch has failed
    deaths,    \* trays that have ended by themselves
    lost       \* messages lost

counts == <<deaths, lost>>
vars == <<owner, keeper, launched, stopEvt, handle, stopping, tray, failed, counts>>

-----------------------------------------------------------------------------
LaunchSteps == {"token", "find", "ask", "terminate", "create"}
Gone == {"none", "ended"}

TypeOK ==
    /\ owner \in {"idle", "starting", "joining", "running", "stopping", "join", "stopped"}
    /\ keeper \in [pc : LaunchSteps \cup Gone \cup {"signal", "enter", "wait", "check", "quit"},
                   first : BOOLEAN]
    /\ launched \in BOOLEAN
    /\ stopEvt \in BOOLEAN
    /\ handle \in Trays \cup {NoTray}
    /\ stopping \in BOOLEAN
    /\ tray \in [Trays -> {"none", "new", "up", "listening", "deaf", "ending"}]
    /\ failed \in BOOLEAN
    /\ deaths \in 0..MaxDeaths
    /\ lost \in 0..MaxLost
    \* A launch never overwrites the handle of a tray.
    /\ keeper.pc \in LaunchSteps => handle = NoTray

Alive == {t \in Trays : tray[t] # "none"}
\* The mutex exists until the process that created it is gone.
Guarded == \E t \in Trays : tray[t] \in {"up", "listening", "deaf", "ending"}

Init ==
    /\ owner = "idle"
    /\ keeper = [pc |-> "none", first |-> TRUE]
    /\ launched = FALSE
    /\ stopEvt = FALSE
    /\ handle = NoTray
    /\ stopping = FALSE
    /\ tray \in [Trays -> {"none", "new", "up", "listening", "deaf"}]
    /\ \A t, u \in Alive : t = u
    /\ failed = FALSE
    /\ deaths = 0
    /\ lost = 0

KeeperTo(pc) == keeper' = [keeper EXCEPT !.pc = pc]

-----------------------------------------------------------------------------
(* The owner: session_app::start and session_app::stop *)

Start ==
    /\ owner = "idle"
    /\ stopEvt' = FALSE
    /\ KeeperTo("token")
    /\ owner' = "starting"
    /\ UNCHANGED <<launched, handle, stopping, tray, failed, counts>>

\* The keeper has set the event; the owner reads the handle, which the keeper
\* may be replacing.
StartLook ==
    /\ owner = "starting"
    /\ launched
    /\ owner' = IF handle = NoTray THEN "joining" ELSE "running"
    /\ UNCHANGED <<keeper, launched, stopEvt, handle, stopping, tray, failed, counts>>

\* start() throws; the session goes on without its tray.
StartJoin ==
    /\ owner = "joining"
    /\ keeper.pc = "ended"
    /\ owner' = "running"
    /\ UNCHANGED <<keeper, launched, stopEvt, handle, stopping, tray, failed, counts>>

Stop ==
    /\ owner \in {"idle", "running"}
    /\ stopping' = TRUE
    /\ owner' = "stopping"
    /\ UNCHANGED <<keeper, launched, stopEvt, handle, tray, failed, counts>>

StopSignal ==
    /\ owner = "stopping"
    /\ stopEvt' = TRUE
    /\ owner' = "join"
    /\ UNCHANGED <<keeper, launched, handle, stopping, tray, failed, counts>>

StopJoin ==
    /\ owner = "join"
    /\ keeper.pc \in Gone
    /\ stopping' = FALSE
    /\ owner' = "stopped"
    /\ UNCHANGED <<keeper, launched, stopEvt, handle, tray, failed, counts>>

-----------------------------------------------------------------------------
(* The keeper: start_app *)

AfterLaunch == KeeperTo(IF keeper.first THEN "signal" ELSE "check")

\* The session has no token, or the process cannot be created.
LaunchFails ==
    /\ keeper.pc \in {"token", "create"}
    /\ failed' = TRUE
    /\ AfterLaunch
    /\ UNCHANGED <<owner, launched, stopEvt, handle, stopping, tray, counts>>

LaunchToken ==
    /\ keeper.pc = "token"
    /\ KeeperTo("find")
    /\ UNCHANGED <<owner, launched, stopEvt, handle, stopping, tray, failed, counts>>

LaunchFind ==
    /\ keeper.pc = "find"
    /\ KeeperTo(IF Alive = {} THEN "create" ELSE "ask")
    /\ UNCHANGED <<owner, launched, stopEvt, handle, stopping, tray, failed, counts>>

\* app_control::quit: the message reaches the tray that listens, if there is
\* one and its pipe is free.
AskToQuit ==
    \/ /\ \E t \in Trays : tray[t] = "listening" /\ tray' = [tray EXCEPT ![t] = "ending"]
       /\ lost' = lost
    \/ /\ \A t \in Trays : tray[t] # "listening"
       /\ UNCHANGED <<tray, lost>>
    \/ /\ \E t \in Trays : tray[t] = "listening"
       /\ lost < MaxLost
       /\ lost' = lost + 1
       /\ tray' = tray

LaunchAsk ==
    /\ keeper.pc = "ask"
    /\ AskToQuit
    /\ KeeperTo("terminate")
    /\ UNCHANGED <<owner, launched, stopEvt, handle, stopping, failed, deaths>>

\* A second later, the first tray that is still found is terminated.
LaunchTerminate ==
    /\ keeper.pc = "terminate"
    /\ \/ Alive = {} /\ tray' = tray
       \/ \E t \in Alive :
             tray' = [tray EXCEPT ![t] = IF @ = "new" THEN "none" ELSE "ending"]
    /\ KeeperTo("create")
    /\ UNCHANGED <<owner, launched, stopEvt, handle, stopping, failed, counts>>

LaunchCreate ==
    /\ keeper.pc = "create"
    /\ \E t \in Trays \ Alive :
          /\ tray' = [tray EXCEPT ![t] = "new"]
          /\ handle' = t
    /\ AfterLaunch
    /\ UNCHANGED <<owner, launched, stopEvt, stopping, failed, counts>>

-----------------------------------------------------------------------------
(* The keeper: workthread and wait *)

\* Mutant: nothing catches the exception of start_app.
KeeperSignalLaunched ==
    /\ keeper.pc = "signal"
    /\ handle # NoTray
    /\ launched' = TRUE
    /\ KeeperTo("enter")
    /\ UNCHANGED <<owner, stopEvt, handle, stopping, tray, failed, counts>>

KeeperSignal ==
    /\ keeper.pc = "signal"
    /\ launched' = TRUE
    /\ KeeperTo("enter")
    /\ UNCHANGED <<owner, stopEvt, handle, stopping, tray, failed, counts>>

\* wait() returns at once without a tray, and resets the stop event otherwise.
KeeperEnter ==
    /\ keeper.pc = "enter"
    /\ IF handle = NoTray
       THEN KeeperTo("ended") /\ stopEvt' = stopEvt
       ELSE KeeperTo("wait") /\ stopEvt' = FALSE
    /\ UNCHANGED <<owner, launched, handle, stopping, tray, failed, counts>>

\* The stop event comes first when both are signalled.
KeeperStopped ==
    /\ keeper.pc = "wait"
    /\ handle # NoTray
    /\ stopEvt
    /\ stopEvt' = FALSE
    /\ KeeperTo("quit")
    /\ UNCHANGED <<owner, launched, handle, stopping, tray, failed, counts>>

\* Mutants: the keeper ends with its first tray; it keeps the handle.
KeeperTrayGoneOnce ==
    /\ keeper.pc = "wait"
    /\ handle # NoTray /\ tray[handle] = "none" /\ ~stopEvt
    /\ handle' = NoTray
    /\ KeeperTo("ended")
    /\ UNCHANGED <<owner, launched, stopEvt, stopping, tray, failed, counts>>
KeeperTrayGoneOpen ==
    /\ keeper.pc = "wait"
    /\ handle # NoTray /\ tray[handle] = "none" /\ ~stopEvt
    /\ keeper' = [pc |-> IF stopping THEN "ended" ELSE "token", first |-> FALSE]
    /\ UNCHANGED <<owner, launched, handle, stopEvt, stopping, tray, failed, counts>>

\* The tray has gone away: it is launched again unless the session is stopping.
KeeperTrayGone ==
    /\ keeper.pc = "wait"
    /\ handle # NoTray /\ tray[handle] = "none" /\ ~stopEvt
    /\ handle' = NoTray
    /\ keeper' = [pc |-> IF stopping THEN "ended" ELSE "token", first |-> FALSE]
    /\ UNCHANGED <<owner, launched, stopEvt, stopping, tray, failed, counts>>

\* Mutant: the stop event is reset for the new tray, as for the first one.
KeeperCheckResets ==
    /\ keeper.pc = "check"
    /\ stopEvt' = FALSE
    /\ KeeperTo("wait")
    /\ UNCHANGED <<owner, launched, handle, stopping, tray, failed, counts>>

\* After the launch: a tray launched while stop() began is left alone.
KeeperCheck ==
    /\ keeper.pc = "check"
    /\ KeeperTo(IF stopping THEN "ended" ELSE "wait")
    /\ UNCHANGED <<owner, launched, stopEvt, handle, stopping, tray, failed, counts>>

\* Mutant: the keeper waits again.
KeeperNoTrayAgain ==
    /\ keeper.pc = "wait"
    /\ handle = NoTray
    /\ UNCHANGED vars

\* The launch has failed: the wait on a NULL handle fails.
KeeperNoTray ==
    /\ keeper.pc = "wait"
    /\ handle = NoTray
    /\ KeeperTo("quit")
    /\ UNCHANGED <<owner, launched, stopEvt, handle, stopping, tray, failed, counts>>

\* Mutant: the handle is closed, the tray is not told.
KeeperQuitSilently ==
    /\ keeper.pc = "quit"
    /\ handle' = NoTray
    /\ KeeperTo("ended")
    /\ UNCHANGED <<owner, launched, stopEvt, stopping, tray, failed, counts>>

\* shutdown_app
KeeperQuit ==
    /\ keeper.pc = "quit"
    /\ AskToQuit
    /\ handle' = NoTray
    /\ KeeperTo("ended")
    /\ UNCHANGED <<owner, launched, stopEvt, stopping, failed, deaths>>

-----------------------------------------------------------------------------
(* The tray processes *)

\* A tray that finds the mutex ends.
TrayGuard(t) ==
    /\ tray[t] = "new"
    /\ tray' = [tray EXCEPT ![t] = IF Guarded THEN "none" ELSE "up"]
    /\ UNCHANGED <<owner, keeper, launched, stopEvt, handle, stopping, failed, counts>>

\* The main dialog is set up and the listening thread has its first pipe.
TrayListen(t) ==
    /\ tray[t] = "up"
    /\ tray' = [tray EXCEPT ![t] = "listening"]
    /\ UNCHANGED <<owner, keeper, launched, stopEvt, handle, stopping, failed, counts>>

\* The pipe cannot be created or connected, at first or after a client has
\* come: the listening thread returns, and nothing else of the tray knows.
TrayDeaf(t) ==
    /\ tray[t] \in {"up", "listening"}
    /\ tray' = [tray EXCEPT ![t] = "deaf"]
    /\ UNCHANGED <<owner, keeper, launched, stopEvt, handle, stopping, failed, counts>>

\* The main dialog is destroyed and the message loop ends.
TrayEnds(t) ==
    /\ tray[t] = "ending"
    /\ tray' = [tray EXCEPT ![t] = "none"]
    /\ UNCHANGED <<owner, keeper, launched, stopEvt, handle, stopping, failed, counts>>

\* A tray gets no status from the service, cannot set up its dialog, crashes or
\* is ended by its user.
TrayDies(t) ==
    /\ t \in Alive
    /\ deaths < MaxDeaths
    /\ deaths' = deaths + 1
    /\ tray' = [tray EXCEPT ![t] = "none"]
    /\ UNCHANGED <<owner, keeper, launched, stopEvt, handle, stopping, failed, lost>>

-----------------------------------------------------------------------------
Launch == LaunchFails \/ LaunchToken \/ LaunchFind \/ LaunchAsk \/ LaunchTerminate \/ LaunchCreate
Wait == KeeperStopped \/ KeeperTrayGone \/ KeeperCheck \/ KeeperNoTray \/ KeeperQuit
Keeper == Launch \/ KeeperSignal \/ KeeperEnter \/ Wait
OwnerGoesOn == StartLook \/ StartJoin \/ StopSignal \/ StopJoin
TrayGoesOn(t) == TrayGuard(t) \/ TrayListen(t) \/ TrayEnds(t)

Next ==
    \/ Start \/ Stop \/ OwnerGoesOn
    \/ Keeper
    \/ \E t \in Trays : TrayGoesOn(t) \/ TrayDeaf(t) \/ TrayDies(t)

Spec == Init /\ [][Next]_vars

\* The threads are scheduled, and a tray gets on with starting and ending;
\* nobody has to start or stop a session, and no tray has to die or go deaf.
TrayFair(t) == WF_vars(TrayGoesOn(t))
Fairness == WF_vars(OwnerGoesOn) /\ WF_vars(Keeper) /\ \A t \in Trays : TrayFair(t)
FairSpec == Spec /\ Fairness

-----------------------------------------------------------------------------
(* Properties *)

\* The keeper gives up only when the session is stopped or the tray cannot be
\* launched (session.cpp 533-549): however often its trays end, and whatever
\* other tray is in their way, it is not the keeper that ends.
KeeperStays ==
    keeper.pc = "ended" => failed \/ owner \in {"stopping", "join", "stopped"}

\* start() returns (session.cpp 390-396), unless it has read the handle while
\* the keeper was replacing a tray that ended at once: then it joins a keeper
\* that goes on.
StartEnds ==
    owner = "starting" ~> (owner = "running" \/ (owner = "joining" /\ handle # NoTray))

\* stop() returns (session.cpp 399-410) when it begins after the keeper has
\* reset the stop event (525), whatever the keeper and its trays are doing.
StopEnds == (owner = "stopping" /\ keeper.pc # "enter") ~> owner = "stopped"

\* A stop that finds the keeper waiting for a tray that listens ends this tray,
\* even if it dies by itself in the meantime (session.cpp 531-556), unless the
\* message is lost or the pipe of this tray fails.
StopQuitsTray ==
    \A t \in Trays :
        (owner = "stopping" /\ keeper.pc = "wait" /\ handle = t /\ tray[t] = "listening")
            ~> (tray[t] \in {"none", "deaf"} \/ lost > 0)

\* While there is a keeper the session has, in the end, the keeper's tray and
\* it listens, although trays die, an older one holds the mutex and ends the
\* new one, and messages are lost (session.cpp 489-507, 533-545): unless the
\* pipe of this very tray has failed, for the keeper looks at the process only
\* and keeps it (asyncpipe.cpp 313-315).
KeptTray(life) == handle # NoTray /\ tray[handle] = life
TrayKept == <>[](keeper.pc \in Gone \/ KeptTray("listening") \/ KeptTray("deaf"))
=============================================================================
