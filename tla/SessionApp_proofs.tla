-------------------------- MODULE SessionApp_proofs --------------------------
(***************************************************************************)
(* Proofs about SessionApp for every number of tray processes, of deaths   *)
(* and of lost messages: its invariants, and that start() and stop() end.  *)
(***************************************************************************)
EXTENDS SessionApp, TLAPS

Stops == {"stopping", "join", "stopped"}
Steps == LaunchSteps \cup Gone \cup {"signal", "enter", "wait", "check", "quit"}
Keepers == [pc : Steps, first : BOOLEAN]
Lives == {"none", "new", "up", "listening", "deaf", "ending"}

-----------------------------------------------------------------------------
(* The inductive invariant *)

\* There is no keeper, and no handle, before start() is called.
NotStarted ==
    /\ owner = "idle" => keeper.pc = "none"
    /\ keeper.pc = "none" => handle = NoTray

\* The keeper is told to stop only by stop().
ToldByStop ==
    /\ stopEvt => owner \in Stops
    /\ stopping => owner \in Stops

\* What the keeper knows after a launch: it has a tray, or the launch failed;
\* and it leaves its loop only because of that or of stop().
Reasons ==
    /\ keeper.pc \in {"signal", "enter", "wait", "check"} /\ handle = NoTray => failed
    /\ keeper.pc \in {"quit", "ended"} => failed \/ owner \in Stops

IInv == TypeOK /\ NotStarted /\ ToldByStop /\ Reasons

LEMMA InitIInv == Init => IInv
<1> SUFFICES ASSUME Init PROVE IInv
  OBVIOUS
<1>1. tray \in [Trays -> Lives]
  BY DEF Init, Lives
<1>2. deaths \in 0..MaxDeaths /\ lost \in 0..MaxLost
  BY SessionAppConstants DEF Init
<1>3. TypeOK
  BY <1>1, <1>2 DEF Init, TypeOK, LaunchSteps, Gone, Lives
<1> QED
  BY <1>3 DEF Init, IInv, NotStarted, ToldByStop, Reasons, LaunchSteps

\* Where the keeper goes.
LEMMA KeeperGoes ==
    ASSUME TypeOK, NEW pc \in Steps, KeeperTo(pc)
    PROVE  keeper' \in Keepers /\ keeper'.pc = pc /\ keeper'.first = keeper.first
BY DEF TypeOK, KeeperTo, Keepers, Steps

\* A message leaves every tray in a life of its own.
LEMMA AskType ==
    ASSUME TypeOK, AskToQuit
    PROVE  tray' \in [Trays -> Lives] /\ lost' \in 0..MaxLost
<1>0. tray \in [Trays -> Lives] /\ lost \in 0..MaxLost
  BY DEF TypeOK, Lives
<1>1. CASE \E t \in Trays : tray[t] = "listening" /\ tray' = [tray EXCEPT ![t] = "ending"]
  <2>1. tray' \in [Trays -> Lives]
    BY <1>0, <1>1 DEF Lives
  <2>2. lost' \in 0..MaxLost
    BY <1>0, SessionAppConstants DEF AskToQuit
  <2> QED
    BY <2>1, <2>2
<1>2. CASE ~ \E t \in Trays : tray[t] = "listening" /\ tray' = [tray EXCEPT ![t] = "ending"]
  BY <1>0, <1>2, SessionAppConstants DEF AskToQuit
<1> QED
  BY <1>1, <1>2

-----------------------------------------------------------------------------
(* Every step preserves it *)

LEMMA OwnerStep ==
    ASSUME IInv, Start \/ Stop \/ OwnerGoesOn
    PROVE  IInv'
<1> USE DEF IInv, NotStarted, ToldByStop, Reasons, Stops
<1>1. CASE Start
  <2>1. keeper' \in Keepers /\ keeper'.pc = "token"
    BY <1>1, KeeperGoes DEF Start, Steps, LaunchSteps
  <2>2. TypeOK'
    BY <1>1, <2>1 DEF Start, TypeOK, Keepers, Steps, counts
  <2> QED
    BY <1>1, <2>1, <2>2 DEF Start
<1>2. CASE StartLook
  <2>1. owner = "starting" /\ owner' \in {"joining", "running"}
    BY <1>2 DEF StartLook
  <2>2. TypeOK'
    BY <1>2, <2>1 DEF StartLook, TypeOK, counts
  <2> QED
    BY <1>2, <2>1, <2>2 DEF StartLook
<1>3. CASE StartJoin
  BY <1>3 DEF StartJoin, TypeOK, counts
<1>4. CASE Stop
  <2>1. TypeOK'
    BY <1>4 DEF Stop, TypeOK, counts
  <2>2. owner' = "stopping" /\ UNCHANGED <<keeper, handle, failed>>
    BY <1>4 DEF Stop
  <2> QED
    BY <2>1, <2>2
<1>5. CASE StopSignal \/ StopJoin
  BY <1>5 DEF StopSignal, StopJoin, TypeOK, counts
<1> QED
  BY <1>1, <1>2, <1>3, <1>4, <1>5 DEF OwnerGoesOn

LEMMA LaunchStep ==
    ASSUME IInv, Launch
    PROVE  IInv'
<1> USE DEF IInv, NotStarted, ToldByStop, Reasons, Stops
<1>0. tray \in [Trays -> Lives] /\ keeper \in Keepers
  BY DEF TypeOK, Lives, Keepers, Steps
<1>1. CASE LaunchFails
  <2>1. keeper' \in Keepers /\ keeper'.pc \in {"signal", "check"}
    BY <1>1, KeeperGoes DEF LaunchFails, AfterLaunch, Steps
  <2>2. TypeOK'
    BY <1>1, <2>1 DEF LaunchFails, TypeOK, Keepers, Steps, counts, LaunchSteps
  <2> QED
    BY <1>1, <2>1, <2>2 DEF LaunchFails
<1>2. CASE LaunchToken \/ LaunchFind
  <2>1. keeper' \in Keepers /\ keeper'.pc \in {"find", "create", "ask"}
    BY <1>2, KeeperGoes DEF LaunchToken, LaunchFind, Steps, LaunchSteps
  <2>2. TypeOK'
    BY <1>2, <2>1 DEF LaunchToken, LaunchFind, TypeOK, Keepers, Steps, counts, LaunchSteps
  <2> QED
    BY <1>2, <2>1, <2>2 DEF LaunchToken, LaunchFind
<1>3. CASE LaunchAsk
  <2>1. keeper' \in Keepers /\ keeper'.pc = "terminate"
    BY <1>3, KeeperGoes DEF LaunchAsk, Steps, LaunchSteps
  <2>2. tray' \in [Trays -> Lives] /\ lost' \in 0..MaxLost
    BY <1>3, AskType DEF LaunchAsk
  <2>3. TypeOK'
    BY <1>3, <2>1, <2>2 DEF LaunchAsk, TypeOK, Keepers, Steps, LaunchSteps, Lives
  <2> QED
    BY <1>3, <2>1, <2>3 DEF LaunchAsk, LaunchSteps
<1>4. CASE LaunchTerminate
  <2>1. keeper' \in Keepers /\ keeper'.pc = "create"
    BY <1>4, KeeperGoes DEF LaunchTerminate, Steps, LaunchSteps
  <2>2. tray' \in [Trays -> Lives]
    BY <1>0, <1>4 DEF LaunchTerminate, Lives, Alive
  <2>3. TypeOK'
    BY <1>4, <2>1, <2>2 DEF LaunchTerminate, TypeOK, Keepers, Steps, LaunchSteps, Lives, counts
  <2> QED
    BY <1>4, <2>1, <2>3 DEF LaunchTerminate, LaunchSteps
<1>5. CASE LaunchCreate
  <2>1. keeper' \in Keepers /\ keeper'.pc \in {"signal", "check"}
    BY <1>5, KeeperGoes DEF LaunchCreate, AfterLaunch, Steps
  <2>2. PICK t \in Trays : tray' = [tray EXCEPT ![t] = "new"] /\ handle' = t
    BY <1>5 DEF LaunchCreate
  <2>3. tray' \in [Trays -> Lives] /\ handle' \in Trays /\ handle' # NoTray
    BY <1>0, <2>2, SessionAppConstants DEF Lives
  <2>4. TypeOK'
    BY <1>5, <2>1, <2>3 DEF LaunchCreate, TypeOK, Keepers, Steps, LaunchSteps, Lives, counts
  <2> QED
    BY <1>5, <2>1, <2>3, <2>4 DEF LaunchCreate
<1> QED
  BY <1>1, <1>2, <1>3, <1>4, <1>5 DEF Launch

LEMMA KeeperStep ==
    ASSUME IInv, KeeperSignal \/ KeeperEnter \/ Wait
    PROVE  IInv'
<1> USE DEF IInv, NotStarted, ToldByStop, Reasons, Stops
<1>1. CASE KeeperSignal
  <2>1. keeper' \in Keepers /\ keeper'.pc = "enter"
    BY <1>1, KeeperGoes DEF KeeperSignal, Steps
  <2>2. TypeOK'
    BY <1>1, <2>1 DEF KeeperSignal, TypeOK, Keepers, Steps, counts, LaunchSteps
  <2> QED
    BY <1>1, <2>1, <2>2 DEF KeeperSignal
<1>2. CASE KeeperEnter
  <2>1. CASE handle = NoTray
    <3>1. keeper' \in Keepers /\ keeper'.pc = "ended" /\ stopEvt' = stopEvt
      BY <1>2, <2>1, KeeperGoes DEF KeeperEnter, Steps, Gone
    <3>2. TypeOK'
      BY <1>2, <3>1 DEF KeeperEnter, TypeOK, Keepers, Steps, counts, LaunchSteps
    <3> QED
      BY <1>2, <2>1, <3>1, <3>2 DEF KeeperEnter
  <2>2. CASE handle # NoTray
    <3>1. keeper' \in Keepers /\ keeper'.pc = "wait" /\ stopEvt' = FALSE
      BY <1>2, <2>2, KeeperGoes DEF KeeperEnter, Steps
    <3>2. TypeOK'
      BY <1>2, <3>1 DEF KeeperEnter, TypeOK, Keepers, Steps, counts, LaunchSteps
    <3> QED
      BY <1>2, <2>2, <3>1, <3>2 DEF KeeperEnter
  <2> QED
    BY <2>1, <2>2
<1>3. CASE KeeperStopped \/ KeeperNoTray
  <2>1. keeper' \in Keepers /\ keeper'.pc = "quit"
    BY <1>3, KeeperGoes DEF KeeperStopped, KeeperNoTray, Steps
  <2>2. TypeOK'
    BY <1>3, <2>1 DEF KeeperStopped, KeeperNoTray, TypeOK, Keepers, Steps, counts, LaunchSteps
  <2> QED
    BY <1>3, <2>1, <2>2 DEF KeeperStopped, KeeperNoTray
<1>4. CASE KeeperTrayGone
  <2>1. /\ keeper' \in Keepers
        /\ keeper'.pc = IF stopping THEN "ended" ELSE "token"
        /\ handle' = NoTray
    BY <1>4 DEF KeeperTrayGone, Keepers, Steps, LaunchSteps, Gone
  <2>2. TypeOK'
    BY <1>4, <2>1 DEF KeeperTrayGone, TypeOK, Keepers, Steps, counts
  <2>3. NotStarted'
    BY <1>4, <2>1 DEF KeeperTrayGone
  <2>4. ToldByStop' /\ Reasons'
    BY <1>4, <2>1 DEF KeeperTrayGone
  <2> QED
    BY <2>2, <2>3, <2>4
<1>5. CASE KeeperCheck
  <2>1. keeper' \in Keepers /\ keeper'.pc = IF stopping THEN "ended" ELSE "wait"
    BY <1>5, KeeperGoes DEF KeeperCheck, Steps, Gone
  <2>2. TypeOK'
    BY <1>5, <2>1 DEF KeeperCheck, TypeOK, Keepers, Steps, counts, LaunchSteps
  <2> QED
    BY <1>5, <2>1, <2>2 DEF KeeperCheck
<1>6. CASE KeeperQuit
  <2>1. keeper' \in Keepers /\ keeper'.pc = "ended"
    BY <1>6, KeeperGoes DEF KeeperQuit, Steps, Gone
  <2>2. tray' \in [Trays -> Lives] /\ lost' \in 0..MaxLost
    BY <1>6, AskType DEF KeeperQuit
  <2>3. TypeOK'
    BY <1>6, <2>1, <2>2 DEF KeeperQuit, TypeOK, Keepers, Steps, LaunchSteps, Lives
  <2> QED
    BY <1>6, <2>1, <2>3 DEF KeeperQuit
<1> QED
  BY <1>1, <1>2, <1>3, <1>4, <1>5, <1>6 DEF Wait

LEMMA TrayStep ==
    ASSUME IInv, NEW t \in Trays, TrayGoesOn(t) \/ TrayDeaf(t) \/ TrayDies(t)
    PROVE  IInv'
<1> USE DEF IInv, NotStarted, ToldByStop, Reasons
<1>1. tray' \in [Trays -> Lives]
  BY DEF TrayGoesOn, TrayGuard, TrayListen, TrayDeaf, TrayEnds, TrayDies, TypeOK, Lives
<1>2. deaths' \in 0..MaxDeaths /\ lost' = lost
  <2>1. deaths' = deaths \/ (deaths < MaxDeaths /\ deaths' = deaths + 1)
    BY DEF TrayGoesOn, TrayGuard, TrayListen, TrayDeaf, TrayEnds, TrayDies, counts
  <2>2. lost' = lost
    BY DEF TrayGoesOn, TrayGuard, TrayListen, TrayDeaf, TrayEnds, TrayDies, counts
  <2> QED
    BY <2>1, <2>2, SessionAppConstants DEF TypeOK
<1>3. UNCHANGED <<owner, keeper, launched, stopEvt, handle, stopping, failed>>
  BY DEF TrayGoesOn, TrayGuard, TrayListen, TrayDeaf, TrayEnds, TrayDies
<1>4. TypeOK'
  BY <1>1, <1>2, <1>3 DEF TypeOK, Lives
<1> QED
  BY <1>3, <1>4

LEMMA NextIInv == IInv /\ [Next]_vars => IInv'
<1> SUFFICES ASSUME IInv, [Next]_vars
             PROVE  IInv'
  OBVIOUS
<1>1. CASE UNCHANGED vars
  BY <1>1 DEF IInv, TypeOK, NotStarted, ToldByStop, Reasons, vars, counts
<1>2. CASE Next
  BY <1>2, OwnerStep, LaunchStep, KeeperStep, TrayStep DEF Next, Keeper
<1> QED
  BY <1>1, <1>2

LEMMA Invariant == Spec => []IInv
<1> QED
  BY InitIInv, NextIInv, PTL DEF Spec

-----------------------------------------------------------------------------
\* The variables keep their types, and a launch never begins with the handle
\* of a tray still open (session.cpp 444, 533-534).
THEOREM TypeCorrect == Spec => []TypeOK
<1>1. IInv => TypeOK
  BY DEF IInv
<1> QED
  BY <1>1, Invariant, PTL

\* The keeper ends only because a launch failed or stop() was called
\* (session.cpp 519-564).
THEOREM KeeperKeepsOn == Spec => []KeeperStays
<1>1. IInv => KeeperStays
  BY DEF IInv, Reasons, KeeperStays, Stops
<1> QED
  BY <1>1, Invariant, PTL
-----------------------------------------------------------------------------
(* What must eventually happen *)

\* The prover knows nothing of ENABLED.  What is on the left is the guard of a
\* disjunct of each of these actions, the rest of it assigns, and what it
\* assigns to owner, to the field pc of keeper or to tray is not what was there.
StepsEnabled ==
    /\ (\/ owner = "starting" /\ launched
        \/ owner = "joining" /\ keeper.pc = "ended"
        \/ owner = "stopping"
        \/ owner = "join" /\ keeper.pc \in Gone) => ENABLED <<OwnerGoesOn>>_vars
    /\ (\/ keeper.pc \in LaunchSteps \cup {"signal", "enter", "check", "quit"}
        \/ keeper.pc = "wait" /\ (handle = NoTray \/ stopEvt \/ tray[handle] = "none"))
           => ENABLED <<Keeper>>_vars
    /\ \A t \in Trays : tray[t] \in {"new", "up", "ending"} => ENABLED <<TrayGoesOn(t)>>_vars

At(pc) == keeper.pc = pc

\* The keeper has signalled its first launch or is at it.
LaunchedInv ==
    /\ keeper.pc \in LaunchSteps => (launched <=> ~keeper.first)
    /\ keeper.pc \in {"none", "signal"} => ~launched
    /\ keeper.pc = "signal" => keeper.first
    /\ keeper.pc \in {"enter", "wait", "check", "quit", "ended"} => launched
    /\ keeper.pc = "enter" => keeper.first
    /\ keeper.pc = "none" => keeper.first
    /\ keeper.pc = "check" => ~keeper.first

\* Where the owner is in its calls.
OwnerInv ==
    /\ owner = "starting" => keeper.pc # "none"
    /\ owner \in {"joining", "running"} => launched
    /\ owner \in {"stopping", "join", "stopped"} => launched \/ keeper.pc = "none"
    /\ owner \in {"stopping", "join"} => stopping

LEMMA KeeperMoves ==
    ASSUME IInv, LaunchedInv, Keeper
    PROVE  /\ keeper' \in Keepers
           /\ At("token") => At("find")' \/ At("signal")' \/ At("check")'
           /\ At("find") => At("ask")' \/ At("create")'
           /\ At("ask") => At("terminate")'
           /\ At("terminate") => At("create")'
           /\ At("create") => At("signal")' \/ At("check")'
           /\ At("signal") => At("enter")'
           /\ At("enter") => IF handle = NoTray THEN At("ended")' ELSE At("wait")'
           /\ At("check") => IF stopping THEN At("ended")' ELSE At("wait")'
           /\ At("wait") => IF stopEvt \/ handle = NoTray THEN At("quit")'
                            ELSE tray[handle] = "none" /\ (At("token")' \/ At("ended")')
           /\ At("quit") => At("ended")'
           /\ ~At("none") /\ ~At("ended") /\ ~At("none")'
           /\ At("enter")' => At("signal")
           /\ LaunchedInv'
           /\ UNCHANGED <<owner, stopping>>
           /\ stopEvt' = stopEvt \/ At("enter") \/ At("quit")'
           /\ (launched' <=> launched \/ At("signal"))
           /\ handle' = handle \/ At("create") \/ At("wait") \/ At("quit")
           /\ At("wait") /\ At("quit")' => handle' = handle
<1>0. /\ keeper \in Keepers /\ keeper.first \in BOOLEAN
      /\ launched \in BOOLEAN /\ stopEvt \in BOOLEAN
  BY DEF IInv, TypeOK, Keepers, Steps
<1> DEFINE Keep(p) == [keeper EXCEPT !.pc = p]
<1>1. \A p \in Steps : Keep(p) \in Keepers /\ Keep(p).pc = p /\ Keep(p).first = keeper.first
  BY <1>0 DEF Keepers
<1> HIDE DEF Keep
<1> USE DEF At, LaunchedInv, Steps, LaunchSteps, Gone
<1>2. CASE LaunchFails
  BY <1>0, <1>1, <1>2 DEF LaunchFails, AfterLaunch, KeeperTo, Keep
<1>3. CASE LaunchToken
  BY <1>0, <1>1, <1>3 DEF LaunchToken, KeeperTo, Keep
<1>4. CASE LaunchFind
  BY <1>0, <1>1, <1>4 DEF LaunchFind, KeeperTo, Keep
<1>5. CASE LaunchAsk
  BY <1>0, <1>1, <1>5 DEF LaunchAsk, KeeperTo, Keep
<1>6. CASE LaunchTerminate
  BY <1>0, <1>1, <1>6 DEF LaunchTerminate, KeeperTo, Keep
<1>7. CASE LaunchCreate
  BY <1>0, <1>1, <1>7 DEF LaunchCreate, AfterLaunch, KeeperTo, Keep
<1>8. CASE KeeperSignal
  BY <1>0, <1>1, <1>8 DEF KeeperSignal, KeeperTo, Keep
<1>9. CASE KeeperEnter
  <2>1. CASE handle = NoTray
    <3>1. keeper.pc = "enter" /\ keeper' = Keep("ended")
          /\ UNCHANGED <<owner, stopping, handle, launched, stopEvt>>
      BY <1>9, <2>1 DEF KeeperEnter, KeeperTo, Keep
    <3> QED
      BY <1>0, <1>1, <2>1, <3>1
  <2>2. CASE handle # NoTray
    <3>1. keeper.pc = "enter" /\ keeper' = Keep("wait")
          /\ UNCHANGED <<owner, stopping, handle, launched>>
      BY <1>9, <2>2 DEF KeeperEnter, KeeperTo, Keep
    <3> QED
      BY <1>0, <1>1, <2>2, <3>1
  <2> QED
    BY <2>1, <2>2
<1>10. CASE KeeperStopped
  BY <1>0, <1>1, <1>10 DEF KeeperStopped, KeeperTo, Keep
<1>11. CASE KeeperTrayGone
  <2>1. keeper'.pc = (IF stopping THEN "ended" ELSE "token") /\ keeper'.first = FALSE
        /\ keeper' \in Keepers
    BY <1>11 DEF KeeperTrayGone, Keepers
  <2> QED
    BY <2>1, <1>11 DEF KeeperTrayGone
<1>12. CASE KeeperCheck
  BY <1>0, <1>1, <1>12 DEF KeeperCheck, KeeperTo, Keep
<1>13. CASE KeeperNoTray
  BY <1>0, <1>1, <1>13 DEF KeeperNoTray, KeeperTo, Keep
<1>14. CASE KeeperQuit
  BY <1>0, <1>1, <1>14 DEF KeeperQuit, KeeperTo, Keep
<1> QED
  BY <1>2, <1>3, <1>4, <1>5, <1>6, <1>7, <1>8, <1>9, <1>10, <1>11, <1>12, <1>13, <1>14
  DEF Keeper, Launch, Wait

\* The keeper keeps its place while the owner and the trays move.
LEMMA OthersMove ==
    ASSUME [Next]_vars, ~Keeper
    PROVE  /\ handle' = handle /\ launched' = launched
           /\ ~Start => keeper' = keeper
           /\ Start => owner = "idle" /\ keeper' = [keeper EXCEPT !.pc = "token"]
BY DEF Next, OwnerGoesOn, Start, Stop, StartLook, StartJoin, StopSignal, StopJoin, TrayGoesOn,
       TrayGuard, TrayListen, TrayDeaf, TrayEnds, TrayDies, KeeperTo, vars

LEMMA ProgressInv == Spec => [](IInv /\ LaunchedInv /\ OwnerInv)
<1>1. Init => LaunchedInv /\ OwnerInv
  BY DEF Init, LaunchedInv, OwnerInv, LaunchSteps
<1>2. IInv /\ LaunchedInv /\ [Next]_vars => LaunchedInv'
  <2> SUFFICES ASSUME IInv, LaunchedInv, [Next]_vars PROVE LaunchedInv'
    OBVIOUS
  <2>1. CASE Start
    <3>1. keeper.pc = "none" /\ keeper'.pc = "token" /\ keeper'.first = keeper.first
          /\ launched' = launched
      BY <2>1, KeeperGoes DEF IInv, NotStarted, Start, Steps, LaunchSteps
    <3> QED
      BY <3>1 DEF LaunchedInv, LaunchSteps
  <2> QED
    BY <2>1, KeeperMoves, OthersMove DEF LaunchedInv
<1>3. IInv /\ LaunchedInv /\ OwnerInv /\ [Next]_vars => OwnerInv'
  <2> SUFFICES ASSUME IInv, LaunchedInv, OwnerInv, [Next]_vars PROVE OwnerInv'
    OBVIOUS
  <2>1. CASE Keeper
    BY <2>1, KeeperMoves DEF OwnerInv, At
  <2>2. CASE Start
    <3>1. keeper'.pc = "token" /\ owner' = "starting"
      BY <2>2, KeeperGoes DEF IInv, Start, Steps, LaunchSteps
    <3> QED
      BY <3>1 DEF OwnerInv
  <2>3. CASE Stop
    BY <2>3 DEF Stop, OwnerInv, IInv, NotStarted
  <2>4. CASE OwnerGoesOn
    BY <2>4 DEF OwnerGoesOn, StartLook, StartJoin, StopSignal, StopJoin, OwnerInv
  <2>5. ASSUME NEW t \in Trays, TrayGoesOn(t) \/ TrayDeaf(t) \/ TrayDies(t) PROVE OwnerInv'
    BY <2>5 DEF TrayGoesOn, TrayGuard, TrayListen, TrayDeaf, TrayEnds, TrayDies, OwnerInv
  <2>6. CASE UNCHANGED vars
    BY <2>6 DEF vars, OwnerInv
  <2> QED
    BY <2>1, <2>2, <2>3, <2>4, <2>5, <2>6 DEF Next
<1> QED
  BY <1>1, <1>2, <1>3, Invariant, PTL DEF Spec
LiveInv == IInv /\ LaunchedInv /\ OwnerInv

\* What the runs rest on: the steps, and the fairness of the two threads.
LEMMA Threads == FairSpec => []LiveInv /\ [][Next]_vars /\ WF_vars(OwnerGoesOn) /\ WF_vars(Keeper)
BY ProgressInv, PTL DEF FairSpec, Fairness, Spec, LiveInv

\* No step of the keeper leaves it where it is.
LEMMA KeeperLeaves ==
    ASSUME LiveInv, Keeper, NEW pc \in Steps \ {"none", "ended"}, At(pc)
    PROVE  ~At(pc)'
<1>1. pc \in {"token", "find", "ask", "terminate", "create", "signal", "enter", "check", "wait", "quit"}
  BY DEF Steps, LaunchSteps, Gone
<1> QED
  BY <1>1, KeeperMoves DEF LiveInv, At

\* While it has something to do the keeper does it, and moves on.
LEMMA KeeperRuns ==
    /\ LiveInv /\ <<Keeper>>_vars =>
          /\ At("token") => ~At("token")'
          /\ At("find") => ~At("find")'
          /\ At("ask") => ~At("ask")'
          /\ At("terminate") => ~At("terminate")'
          /\ At("create") => ~At("create")'
          /\ At("signal") => ~At("signal")'
          /\ At("enter") => ~At("enter")'
          /\ At("check") => ~At("check")'
          /\ At("wait") => ~At("wait")'
          /\ At("quit") => ~At("quit")'
    /\ StepsEnabled =>
          /\ At("token") => ENABLED <<Keeper>>_vars
          /\ At("find") => ENABLED <<Keeper>>_vars
          /\ At("ask") => ENABLED <<Keeper>>_vars
          /\ At("terminate") => ENABLED <<Keeper>>_vars
          /\ At("create") => ENABLED <<Keeper>>_vars
          /\ At("signal") => ENABLED <<Keeper>>_vars
          /\ At("enter") => ENABLED <<Keeper>>_vars
          /\ At("check") => ENABLED <<Keeper>>_vars
          /\ At("quit") => ENABLED <<Keeper>>_vars
<1>1. StepsEnabled => \A pc \in LaunchSteps \cup {"signal", "enter", "check", "quit"} :
                          At(pc) => ENABLED <<Keeper>>_vars
  BY DEF StepsEnabled, At
<1> QED
  BY <1>1, KeeperLeaves DEF Steps, LaunchSteps, Gone

-----------------------------------------------------------------------------
(* The start of a session ends *)

Starting(pc) == owner = "starting" /\ ~launched /\ At(pc)
Looking == owner = "starting" /\ launched
Joining(pc) == owner = "joining" /\ handle = NoTray /\ At(pc)
Started == owner = "running" \/ (owner = "joining" /\ handle # NoTray)

LEMMA StartingMoves ==
    ASSUME LiveInv, [Next]_vars
    PROVE  /\ Starting("token") => \/ Starting("token")' \/ Starting("find")' \/ Starting("signal")'
           /\ Starting("find") => \/ Starting("find")' \/ Starting("ask")' \/ Starting("create")'
           /\ Starting("ask") => Starting("ask")' \/ Starting("terminate")'
           /\ Starting("terminate") => Starting("terminate")' \/ Starting("create")'
           /\ Starting("create") => Starting("create")' \/ Starting("signal")'
           /\ Starting("signal") => Starting("signal")' \/ Looking'
<1> SUFFICES ASSUME owner = "starting", ~launched
             PROVE  /\ owner' = "starting"
                    /\ At("token") => \/ At("token")' /\ ~launched'
                                      \/ At("find")' /\ ~launched'
                                      \/ At("signal")' /\ ~launched'
                    /\ At("find") => \/ At("find")' /\ ~launched'
                                     \/ At("ask")' /\ ~launched'
                                     \/ At("create")' /\ ~launched'
                    /\ At("ask") => \/ At("ask")' /\ ~launched'
                                    \/ At("terminate")' /\ ~launched'
                    /\ At("terminate") => \/ At("terminate")' /\ ~launched'
                                          \/ At("create")' /\ ~launched'
                    /\ At("create") => \/ At("create")' /\ ~launched'
                                       \/ At("signal")' /\ ~launched'
                    /\ At("signal") => (At("signal")' /\ ~launched') \/ launched'
  BY DEF Starting, Looking
<1>1. CASE Keeper
  <2>1. LaunchedInv'
    BY <1>1, KeeperMoves DEF LiveInv
  <2>2. ~At("check")' \/ launched'
    BY <2>1 DEF LaunchedInv, At
  <2> QED
    BY <1>1, <2>2, KeeperMoves DEF LiveInv, At
<1>2. CASE ~Keeper
  <2>1. owner' = "starting"
    BY <1>2 DEF Next, OwnerGoesOn, Start, Stop, StartLook, StartJoin, StopSignal, StopJoin,
                TrayGoesOn, TrayGuard, TrayListen, TrayDeaf, TrayEnds, TrayDies, vars
  <2>2. keeper' = keeper /\ launched' = launched
    BY <1>2, OthersMove
  <2> QED
    BY <2>1, <2>2 DEF At
<1> QED
  BY <1>1, <1>2

LEMMA LookingMoves ==
    ASSUME LiveInv, [Next]_vars, Looking
    PROVE  /\ Looking' \/ owner' \in {"joining", "running"}
           /\ OwnerGoesOn => owner' \in {"joining", "running"}
<1>1. CASE Keeper
  <2>1. owner' = owner /\ launched'
    BY <1>1, KeeperMoves DEF LiveInv, Looking
  <2>2. OwnerGoesOn => owner' \in {"joining", "running"}
    BY DEF OwnerGoesOn, StartLook, StartJoin, StopSignal, StopJoin, Looking
  <2> QED
    BY <2>1, <2>2 DEF Looking
<1>2. CASE ~Keeper
  <2>1. launched'
    BY <1>2, OthersMove DEF Looking
  <2> QED
    BY <1>2, <2>1 DEF Next, OwnerGoesOn, Start, Stop, StartLook, StartJoin, StopSignal, StopJoin,
                TrayGoesOn, TrayGuard, TrayListen, TrayDeaf, TrayEnds, TrayDies, vars, Looking
<1> QED
  BY <1>1, <1>2

LEMMA JoiningMoves ==
    ASSUME LiveInv, [Next]_vars
    PROVE  /\ Joining("token") => \/ Joining("token")' \/ Joining("find")' \/ Joining("check")'
                                  \/ Started'
           /\ Joining("find") => \/ Joining("find")' \/ Joining("ask")' \/ Joining("create")'
                                 \/ Started'
           /\ Joining("ask") => Joining("ask")' \/ Joining("terminate")' \/ Started'
           /\ Joining("terminate") => Joining("terminate")' \/ Joining("create")' \/ Started'
           /\ Joining("create") => Joining("create")' \/ Joining("check")' \/ Started'
           /\ Joining("enter") => Joining("enter")' \/ Joining("ended")' \/ Started'
           /\ Joining("check") => Joining("check")' \/ Joining("wait")' \/ Started'
           /\ Joining("wait") => Joining("wait")' \/ Joining("quit")' \/ Started'
           /\ Joining("quit") => Joining("quit")' \/ Joining("ended")' \/ Started'
           /\ Joining("ended") => Joining("ended")' \/ Started'
           /\ Joining("ended") /\ OwnerGoesOn => Started'
<1> SUFFICES ASSUME owner = "joining", handle = NoTray, ~Started'
             PROVE  /\ owner' = "joining" /\ handle' = NoTray
                    /\ At("token") => At("token")' \/ At("find")' \/ At("check")'
                    /\ At("find") => At("find")' \/ At("ask")' \/ At("create")'
                    /\ At("ask") => At("ask")' \/ At("terminate")'
                    /\ At("terminate") => At("terminate")' \/ At("create")'
                    /\ At("create") => At("create")' \/ At("check")'
                    /\ At("enter") => At("enter")' \/ At("ended")'
                    /\ At("check") => At("check")' \/ At("wait")'
                    /\ At("wait") => At("wait")' \/ At("quit")'
                    /\ At("quit") => At("quit")' \/ At("ended")'
                    /\ At("ended") => At("ended")'
                    /\ ~OwnerGoesOn
  BY DEF Joining
<1>1. ~OwnerGoesOn
  BY DEF OwnerGoesOn, StartLook, StartJoin, StopSignal, StopJoin, Started
<1>2. launched /\ ~stopping
  BY DEF LiveInv, OwnerInv, IInv, ToldByStop, Stops
<1>3. owner' = "joining"
  <2>1. CASE Keeper
    BY <2>1, KeeperMoves DEF LiveInv
  <2>2. CASE ~Keeper
    BY <1>1, <2>2 DEF Next, Start, Stop, TrayGoesOn, TrayGuard, TrayListen, TrayDeaf, TrayEnds, TrayDies, vars
  <2> QED
    BY <2>1, <2>2
<1>4. handle' = NoTray
  BY <1>3 DEF Started
<1>5. CASE Keeper
  <2>1. LaunchedInv' /\ launched'
    BY <1>2, <1>5, KeeperMoves DEF LiveInv
  <2>2. ~At("signal")'
    BY <2>1 DEF LaunchedInv, At
  <2> QED
    BY <1>1, <1>2, <1>3, <1>4, <1>5, <2>2, KeeperMoves DEF LiveInv, At
<1>6. CASE ~Keeper
  <2>1. keeper' = keeper
    BY <1>6, OthersMove
  <2> QED
    BY <1>1, <1>3, <1>4, <2>1 DEF At
<1> QED
  BY <1>5, <1>6

\* The call of start() returns, unless it has read the handle while the keeper
\* was replacing a tray that ended at once: whatever the trays do, and however
\* many there are.
THEOREM StartReturns == FairSpec /\ []StepsEnabled => StartEnds
<1>1. LiveInv /\ [Next]_vars =>
          /\ Starting("token") => \/ Starting("token")' \/ Starting("find")' \/ Starting("signal")'
          /\ Starting("find") => \/ Starting("find")' \/ Starting("ask")' \/ Starting("create")'
          /\ Starting("ask") => Starting("ask")' \/ Starting("terminate")'
          /\ Starting("terminate") => Starting("terminate")' \/ Starting("create")'
          /\ Starting("create") => Starting("create")' \/ Starting("signal")'
          /\ Starting("signal") => Starting("signal")' \/ Looking'
  BY StartingMoves
<1>2. LiveInv /\ [Next]_vars =>
          /\ Joining("token") => \/ Joining("token")' \/ Joining("find")' \/ Joining("check")'
                                 \/ Started'
          /\ Joining("find") => \/ Joining("find")' \/ Joining("ask")' \/ Joining("create")'
                                \/ Started'
          /\ Joining("ask") => Joining("ask")' \/ Joining("terminate")' \/ Started'
          /\ Joining("terminate") => Joining("terminate")' \/ Joining("create")' \/ Started'
          /\ Joining("create") => Joining("create")' \/ Joining("check")' \/ Started'
          /\ Joining("enter") => Joining("enter")' \/ Joining("ended")' \/ Started'
          /\ Joining("check") => Joining("check")' \/ Joining("wait")' \/ Started'
          /\ Joining("wait") => Joining("wait")' \/ Joining("quit")' \/ Started'
          /\ Joining("quit") => Joining("quit")' \/ Joining("ended")' \/ Started'
          /\ Joining("ended") => Joining("ended")' \/ Started'
  BY JoiningMoves
<1>3. (Looking \/ Joining("ended")) /\ StepsEnabled => ENABLED <<OwnerGoesOn>>_vars
  BY DEF StepsEnabled, At, Joining, Looking
<1>4. Joining("wait") /\ StepsEnabled => ENABLED <<Keeper>>_vars
  BY DEF StepsEnabled, At, Joining
<1>5. LiveInv /\ [Next]_vars =>
          /\ Looking => Looking' \/ (owner \in {"joining", "running"})'
          /\ Looking /\ <<OwnerGoesOn>>_vars => (owner \in {"joining", "running"})'
          /\ Joining("ended") /\ <<OwnerGoesOn>>_vars => Started'
  BY LookingMoves, JoiningMoves
<1>6. FairSpec /\ []StepsEnabled =>
          ((\/ Starting("token") \/ Starting("find") \/ Starting("ask") \/ Starting("terminate")
            \/ Starting("create") \/ Starting("signal")) ~> Looking)
  BY <1>1, KeeperRuns, Threads, PTL DEF Starting
<1>7. FairSpec /\ []StepsEnabled => (Looking ~> owner \in {"joining", "running"})
  BY <1>3, <1>5, Threads, PTL
<1>8. FairSpec /\ []StepsEnabled =>
          ((\/ Joining("token") \/ Joining("find") \/ Joining("ask") \/ Joining("terminate")
            \/ Joining("create") \/ Joining("enter") \/ Joining("check") \/ Joining("wait")
            \/ Joining("quit") \/ Joining("ended")) ~> Started)
  BY <1>2, <1>3, <1>4, <1>5, KeeperRuns, Threads, PTL DEF Joining
<1>9. LiveInv => /\ owner = "starting" => \/ Looking
                                         \/ Starting("token") \/ Starting("find")
                                         \/ Starting("ask") \/ Starting("terminate")
                                         \/ Starting("create") \/ Starting("signal")
                 /\ owner \in {"joining", "running"} =>
                        \/ Started
                        \/ Joining("token") \/ Joining("find") \/ Joining("ask")
                        \/ Joining("terminate") \/ Joining("create") \/ Joining("enter")
                        \/ Joining("check") \/ Joining("wait") \/ Joining("quit")
                        \/ Joining("ended")
  BY DEF LiveInv, IInv, TypeOK, LaunchSteps, Gone, LaunchedInv, OwnerInv, Looking, Starting,
         Joining, Started, At
<1>10. Started => owner = "running" \/ (owner = "joining" /\ handle # NoTray)
  BY DEF Started
<1> QED
  BY <1>6, <1>7, <1>8, <1>9, <1>10, Threads, PTL DEF StartEnds
-----------------------------------------------------------------------------
(* The stop of a session ends *)

Stopping == owner = "stopping" /\ ~At("enter")
Told == stopEvt \/ keeper.pc \in {"quit", "ended", "none"}
Joined == owner = "join" /\ Told /\ ~At("enter")
Ending(pc) == owner = "join" /\ Told /\ At(pc)
Stopped == owner = "stopped"

LEMMA StoppingMoves ==
    ASSUME LiveInv, [Next]_vars, Stopping
    PROVE  /\ Stopping' \/ Joined'
           /\ OwnerGoesOn => Joined'
<1>0. ~At("signal")
  BY DEF LiveInv, OwnerInv, LaunchedInv, Stopping, At
<1>1. CASE Keeper
  <2>1. owner' = "stopping"
    BY <1>1, KeeperMoves DEF LiveInv, Stopping
  <2>2. ~At("enter")'
    BY <1>0, <1>1, KeeperMoves DEF LiveInv, Stopping, At
  <2>3. ~OwnerGoesOn
    BY <2>1 DEF OwnerGoesOn, StartLook, StartJoin, StopSignal, StopJoin, Stopping
  <2> QED
    BY <2>1, <2>2, <2>3 DEF Stopping
<1>2. CASE StopSignal
  <2>1. owner' = "join" /\ stopEvt' /\ keeper' = keeper
    BY <1>2 DEF StopSignal
  <2> QED
    BY <2>1 DEF Stopping, Joined, Told, At
<1>3. CASE ~Keeper /\ ~StopSignal
  <2>1. owner' = owner /\ ~OwnerGoesOn
    BY <1>3 DEF Next, OwnerGoesOn, Start, Stop, StartLook, StartJoin, StopJoin, TrayGoesOn,
                TrayGuard, TrayListen, TrayDeaf, TrayEnds, TrayDies, vars, Stopping
  <2>2. keeper' = keeper
    BY <1>3, OthersMove DEF Stopping
  <2> QED
    BY <2>1, <2>2 DEF Stopping, At
<1> QED
  BY <1>1, <1>2, <1>3

LEMMA EndingMoves ==
    ASSUME LiveInv, [Next]_vars
    PROVE  /\ Ending("token") => Ending("token")' \/ Ending("find")' \/ Ending("check")'
           /\ Ending("find") => Ending("find")' \/ Ending("ask")' \/ Ending("create")'
           /\ Ending("ask") => Ending("ask")' \/ Ending("terminate")'
           /\ Ending("terminate") => Ending("terminate")' \/ Ending("create")'
           /\ Ending("create") => Ending("create")' \/ Ending("check")'
           /\ Ending("check") => Ending("check")' \/ Ending("ended")'
           /\ Ending("wait") => Ending("wait")' \/ Ending("quit")'
           /\ Ending("quit") => Ending("quit")' \/ Ending("ended")'
           /\ Ending("ended") => Ending("ended")' \/ Stopped'
           /\ Ending("none") => Ending("none")' \/ Stopped'
           /\ (Ending("ended") \/ Ending("none")) /\ OwnerGoesOn => Stopped'
<1>0. ASSUME owner = "join" PROVE stopping /\ ~At("signal")
  BY <1>0 DEF LiveInv, OwnerInv, LaunchedInv, At
<1>1. CASE Keeper
  <2>1. owner' = owner /\ (owner = "join" => ~OwnerGoesOn)
    <3>1. owner' = owner
      BY <1>1, KeeperMoves DEF LiveInv
    <3> QED
      BY <3>1 DEF OwnerGoesOn, StartLook, StartJoin, StopSignal, StopJoin
  <2>2. ASSUME owner = "join", Told, ~At("enter")
        PROVE  /\ Told'
               /\ At("token") => At("find")' \/ At("check")'
               /\ At("wait") => stopEvt
               /\ ~At("ended") /\ ~At("none")
    <3>1. LaunchedInv' /\ (launched \/ keeper.pc = "none") /\ ~At("none") /\ ~At("signal")
      BY <1>0, <1>1, <2>2, KeeperMoves DEF LiveInv, OwnerInv
    <3>2. ~At("signal")'
      BY <1>1, <3>1, KeeperMoves DEF LiveInv, LaunchedInv, At
    <3>3. stopEvt' = stopEvt \/ At("quit")'
      BY <1>1, <2>2, KeeperMoves DEF LiveInv
    <3>4. At("quit") => At("ended")'
      BY <1>1, KeeperMoves DEF LiveInv
    <3>5. Told'
      BY <1>1, <2>2, <3>1, <3>3, <3>4, KeeperMoves DEF LiveInv, Told, At
    <3> QED
      BY <1>1, <2>2, <3>1, <3>2, <3>5, KeeperMoves DEF LiveInv, Told, At
  <2>3. ASSUME owner = "join", Told, ~At("enter")
        PROVE  /\ owner' = "join" /\ Told' /\ ~OwnerGoesOn
               /\ At("token") => At("find")' \/ At("check")'
               /\ At("find") => At("ask")' \/ At("create")'
               /\ At("ask") => At("terminate")'
               /\ At("terminate") => At("create")'
               /\ At("create") => At("check")'
               /\ At("check") => At("ended")'
               /\ At("wait") => At("quit")'
               /\ At("quit") => At("ended")'
               /\ ~At("ended") /\ ~At("none")
    <3>1. LaunchedInv' /\ launched
      BY <1>1, <2>2, <2>3, KeeperMoves DEF LiveInv, OwnerInv, At
    <3>2. ~At("signal")'
      BY <1>1, <3>1, KeeperMoves DEF LiveInv, LaunchedInv, At
    <3> QED
      BY <1>0, <1>1, <2>1, <2>2, <2>3, <3>2, KeeperMoves DEF LiveInv
  <2> QED
    BY <2>3 DEF Ending, At
<1>2. CASE StopJoin
  BY <1>2 DEF StopJoin, Gone, Ending, Stopped, At
<1>3. CASE ~Keeper /\ ~StopJoin
  <2>1. ASSUME owner = "join" PROVE owner' = owner /\ stopEvt' = stopEvt /\ ~OwnerGoesOn
    BY <1>3, <2>1 DEF Next, OwnerGoesOn, Start, Stop, StartLook, StartJoin, StopSignal, TrayGoesOn,
                      TrayGuard, TrayListen, TrayDeaf, TrayEnds, TrayDies, vars
  <2>2. ASSUME owner = "join" PROVE keeper' = keeper
    BY <1>3, <2>2, OthersMove
  <2> QED
    BY <2>1, <2>2 DEF Ending, Told, At
<1> QED
  BY <1>1, <1>2, <1>3

\* The call of stop() returns when it begins after the keeper has reset the stop
\* event, whatever the keeper and any number of trays are doing.
THEOREM StopReturns == FairSpec /\ []StepsEnabled => StopEnds
<1>1. LiveInv /\ [Next]_vars =>
          /\ Ending("token") => Ending("token")' \/ Ending("find")' \/ Ending("check")'
          /\ Ending("find") => Ending("find")' \/ Ending("ask")' \/ Ending("create")'
          /\ Ending("ask") => Ending("ask")' \/ Ending("terminate")'
          /\ Ending("terminate") => Ending("terminate")' \/ Ending("create")'
          /\ Ending("create") => Ending("create")' \/ Ending("check")'
          /\ Ending("check") => Ending("check")' \/ Ending("ended")'
          /\ Ending("wait") => Ending("wait")' \/ Ending("quit")'
          /\ Ending("quit") => Ending("quit")' \/ Ending("ended")'
          /\ Ending("ended") => Ending("ended")' \/ Stopped'
          /\ Ending("none") => Ending("none")' \/ Stopped'
  BY EndingMoves
<1>2. LiveInv /\ [Next]_vars =>
          /\ Stopping => Stopping' \/ Joined'
          /\ Stopping /\ <<OwnerGoesOn>>_vars => Joined'
          /\ (Ending("ended") \/ Ending("none")) /\ <<OwnerGoesOn>>_vars => Stopped'
  BY StoppingMoves, EndingMoves
<1>3. (Stopping \/ Ending("ended") \/ Ending("none")) /\ StepsEnabled
          => ENABLED <<OwnerGoesOn>>_vars
  BY DEF StepsEnabled, Stopping, Ending, At, Gone
<1>4. Ending("wait") /\ StepsEnabled => ENABLED <<Keeper>>_vars
  BY DEF StepsEnabled, Ending, Told, At
<1>5. FairSpec /\ []StepsEnabled => (Stopping ~> Joined)
  BY <1>2, <1>3, Threads, PTL
<1>6. LiveInv /\ Joined => \/ Ending("token") \/ Ending("find") \/ Ending("ask")
                           \/ Ending("terminate") \/ Ending("create") \/ Ending("check")
                           \/ Ending("wait") \/ Ending("quit") \/ Ending("ended") \/ Ending("none")
  BY DEF LiveInv, IInv, TypeOK, LaunchSteps, Gone, LaunchedInv, OwnerInv, Joined, Ending, At
<1>7. FairSpec /\ []StepsEnabled => (Joined ~> Stopped)
  BY <1>1, <1>2, <1>3, <1>4, <1>6, KeeperRuns, Threads, PTL DEF Ending
<1>8. /\ owner = "stopping" /\ keeper.pc # "enter" => Stopping
      /\ Stopped => owner = "stopped"
  BY DEF Stopping, Stopped, At
<1> QED
  BY <1>5, <1>7, <1>8, Threads, PTL DEF StopEnds
-----------------------------------------------------------------------------
(* The stop of a session ends its tray *)

\* One tray at most has the mutex.
Holds(t) == tray[t] \in {"up", "listening", "deaf", "ending"}
MutexInv == \A t, u \in Trays : Holds(t) /\ Holds(u) => t = u

\* What a step does to a tray.
LEMMA TrayMoves ==
    ASSUME IInv, [Next]_vars, NEW t \in Trays
    PROVE  /\ tray[t] = "listening" => tray'[t] \in {"listening", "deaf", "ending", "none"}
           /\ tray[t] = "ending" => tray'[t] \in {"ending", "none"}
           /\ tray[t] = "none" => tray'[t] \in {"none", "new"}
           /\ Holds(t)' => Holds(t) \/ (~Guarded /\ \A u \in Trays \ {t} : tray'[u] = tray[u])
<1>0. tray \in [Trays -> Lives]
  BY DEF IInv, TypeOK, Lives
<1> USE DEF Lives, Holds
<1>1. CASE AskToQuit
  <2>1. ASSUME NEW u \in Trays, tray[u] = "listening", tray' = [tray EXCEPT ![u] = "ending"]
        PROVE  tray'[t] = IF t = u THEN "ending" ELSE tray[t]
    BY <1>0, <2>1
  <2> QED
    BY <1>0, <1>1, <2>1 DEF AskToQuit
<1>2. CASE LaunchTerminate
  BY <1>0, <1>2 DEF LaunchTerminate, Alive
<1>3. CASE LaunchCreate
  <2>1. PICK u \in Trays \ Alive : tray' = [tray EXCEPT ![u] = "new"]
    BY <1>3 DEF LaunchCreate
  <2> QED
    BY <1>0, <2>1 DEF Alive
<1>4. ASSUME NEW u \in Trays, TrayGuard(u)
      PROVE  /\ tray[t] = "listening" => tray'[t] \in {"listening", "deaf", "ending", "none"}
             /\ tray[t] = "ending" => tray'[t] \in {"ending", "none"}
             /\ tray[t] = "none" => tray'[t] \in {"none", "new"}
             /\ Holds(t)' => Holds(t) \/ (~Guarded /\ \A w \in Trays \ {t} : tray'[w] = tray[w])
  <2>1. CASE Guarded
    BY <1>0, <1>4, <2>1 DEF TrayGuard
  <2>2. CASE ~Guarded
    BY <1>0, <1>4, <2>2 DEF TrayGuard
  <2> QED
    BY <2>1, <2>2
<1>5. ASSUME NEW u \in Trays, TrayListen(u) \/ TrayDeaf(u) \/ TrayEnds(u) \/ TrayDies(u)
      PROVE  /\ tray[t] = "listening" => tray'[t] \in {"listening", "deaf", "ending", "none"}
             /\ tray[t] = "ending" => tray'[t] \in {"ending", "none"}
             /\ tray[t] = "none" => tray'[t] \in {"none", "new"}
             /\ Holds(t)' => Holds(t)
  BY <1>0, <1>5 DEF TrayListen, TrayDeaf, TrayEnds, TrayDies, Alive
<1>6. CASE tray' = tray
  BY <1>6
<1>7. \/ tray' = tray \/ AskToQuit \/ LaunchTerminate \/ LaunchCreate
      \/ \E u \in Trays : TrayGoesOn(u) \/ TrayDeaf(u) \/ TrayDies(u)
  BY DEF Next, Start, Stop, OwnerGoesOn, StartLook, StartJoin, StopSignal, StopJoin, Keeper,
         Launch, Wait, LaunchFails, LaunchToken, LaunchFind, LaunchAsk, KeeperSignal, KeeperEnter,
         KeeperStopped, KeeperTrayGone, KeeperCheck, KeeperNoTray, KeeperQuit, vars
<1> QED
  BY <1>1, <1>2, <1>3, <1>4, <1>5, <1>6, <1>7 DEF TrayGoesOn

LEMMA MutexHolds == Spec => []MutexInv
<1>1. Init => MutexInv
  BY DEF Init, MutexInv, Holds, Alive
<1>2. IInv /\ MutexInv /\ [Next]_vars => MutexInv'
  <2> SUFFICES ASSUME IInv, MutexInv, [Next]_vars, NEW t \in Trays, NEW u \in Trays,
                      Holds(t)', Holds(u)', t # u
               PROVE  FALSE
    BY DEF MutexInv
  <2>1. ~Holds(t) \/ ~Holds(u)
    BY DEF MutexInv
  <2>2. ~Guarded
    BY <2>1, TrayMoves
  <2>3. ~Holds(t) /\ ~Holds(u)
    BY <2>2 DEF Guarded, Holds
  <2>4. tray'[u] = tray[u]
    BY <2>3, TrayMoves
  <2> QED
    BY <2>3, <2>4 DEF Holds
<1> QED
  BY <1>1, <1>2, Invariant, PTL DEF Spec

\* The keeper waits for tray t, which listens; it is going to tell it to quit.
Kept(t) == handle = t /\ tray[t] = "listening"
Awaited(t) == owner = "stopping" /\ At("wait") /\ Kept(t)
Unheard(t) == stopEvt /\ At("wait") /\ Kept(t)
Quitting(t) == At("quit") /\ Kept(t)
Dying(t) == tray[t] = "ending"
Dead(t) == tray[t] \in {"none", "deaf"} \/ lost > 0

LEMMA KeptMoves ==
    ASSUME LiveInv, MutexInv, [Next]_vars, NEW t \in Trays
    PROVE  /\ Awaited(t) => \/ Awaited(t)' \/ Unheard(t)' \/ Quitting(t)' \/ Dying(t)'
                            \/ Dead(t)'
           /\ Awaited(t) /\ OwnerGoesOn => Unheard(t)' \/ Dying(t)' \/ Dead(t)'
           /\ Unheard(t) => Unheard(t)' \/ Quitting(t)' \/ Dying(t)' \/ Dead(t)'
           /\ Quitting(t) => Quitting(t)' \/ Dying(t)' \/ Dead(t)'
           /\ Quitting(t) /\ Keeper => Dying(t)' \/ Dead(t)'
           /\ Dying(t) => Dying(t)' \/ Dead(t)'
           /\ Dying(t) /\ TrayGoesOn(t) => Dead(t)'
<1>0. t # NoTray /\ tray \in [Trays -> Lives] /\ lost \in Nat
  BY SessionAppConstants DEF LiveInv, IInv, TypeOK, Lives
<1>1. Dying(t) => Dying(t)' \/ Dead(t)'
  BY TrayMoves DEF LiveInv, Dying, Dead
<1>2. Dying(t) /\ TrayGoesOn(t) => Dead(t)'
  BY <1>0 DEF Dying, Dead, TrayGoesOn, TrayGuard, TrayListen, TrayEnds
<1>3. Kept(t) => tray'[t] = "listening" \/ Dying(t)' \/ Dead(t)'
  BY TrayMoves DEF LiveInv, Kept, Dying, Dead
<1>4. ASSUME Kept(t), At("quit"), Keeper PROVE Dying(t)' \/ Dead(t)'
  <2>1. AskToQuit
    BY <1>4 DEF At, Keeper, Launch, Wait, LaunchFails, LaunchToken, LaunchFind, LaunchAsk,
       LaunchTerminate, LaunchCreate, KeeperSignal, KeeperEnter, KeeperStopped, KeeperTrayGone,
       KeeperCheck, KeeperNoTray, KeeperQuit
  <2>2. ASSUME NEW u \in Trays, tray[u] = "listening", tray' = [tray EXCEPT ![u] = "ending"]
        PROVE  Dying(t)'
    <3>1. u = t
      BY <1>4, <2>2 DEF MutexInv, Holds, Kept
    <3> QED
      BY <1>0, <2>2, <3>1 DEF Dying
  <2>3. lost' = lost + 1 => Dead(t)'
    BY <1>0 DEF Dead
  <2> QED
    BY <1>4, <2>1, <2>2, <2>3 DEF AskToQuit, Kept
<1>5. ASSUME Kept(t), At("wait"), Keeper
      PROVE  stopEvt /\ At("quit")' /\ handle' = t /\ (owner = "stopping" => ~OwnerGoesOn)
  <2>1. tray[handle] # "none" /\ handle # NoTray
    BY <1>0, <1>5 DEF Kept
  <2>2. owner' = owner
    BY <1>5, KeeperMoves DEF LiveInv
  <2>3. owner = "stopping" => ~OwnerGoesOn
    BY <2>2 DEF OwnerGoesOn, StartLook, StartJoin, StopSignal, StopJoin
  <2> QED
    BY <1>5, <2>1, <2>3, KeeperMoves DEF LiveInv, Kept
<1>6. ASSUME Kept(t), At("wait") \/ At("quit"), ~Keeper
      PROVE  /\ keeper' = keeper /\ handle' = t
             /\ owner = "stopping" => owner' = "stopping" \/ stopEvt'
             /\ owner = "stopping" /\ OwnerGoesOn => stopEvt'
             /\ stopEvt => stopEvt'
  <2>1. owner # "idle"
    BY <1>6 DEF LiveInv, IInv, NotStarted, At
  <2>2. keeper' = keeper /\ handle' = t
    BY <1>6, <2>1, OthersMove DEF Kept
  <2> QED
    BY <1>6, <2>1, <2>2 DEF Next, OwnerGoesOn, Start, Stop, StartLook, StartJoin, StopSignal,
       StopJoin, TrayGoesOn, TrayGuard, TrayListen, TrayDeaf, TrayEnds, TrayDies, vars
<1>7. CASE Keeper
  BY <1>1, <1>2, <1>3, <1>4, <1>5, <1>7 DEF Awaited, Unheard, Quitting, Kept
<1>8. CASE ~Keeper
  BY <1>1, <1>2, <1>3, <1>6, <1>8 DEF Awaited, Unheard, Quitting, Kept, At
<1> QED
  BY <1>7, <1>8

\* Fairness holds of the tray.
LEMMA TraysFair == FairSpec => (\A t \in Trays : TrayFair(t))
BY PTL DEF FairSpec, Fairness

\* A stop that finds the keeper waiting for a tray that listens ends this tray,
\* unless the message to it is lost or its pipe has failed: whichever trays there
\* are beside it.
THEOREM StopEndsTray == FairSpec /\ []StepsEnabled => StopQuitsTray
<1> SUFFICES ASSUME NEW t \in Trays
             PROVE  FairSpec /\ []StepsEnabled =>
                        ((owner = "stopping" /\ keeper.pc = "wait" /\ handle = t
                              /\ tray[t] = "listening")
                             ~> (tray[t] \in {"none", "deaf"} \/ lost > 0))
  BY DEF StopQuitsTray
<1>1. FairSpec => TrayFair(t)
  BY TraysFair
<1>2. StepsEnabled => /\ Awaited(t) => ENABLED <<OwnerGoesOn>>_vars
                      /\ Unheard(t) => ENABLED <<Keeper>>_vars
                      /\ Quitting(t) => ENABLED <<Keeper>>_vars
                      /\ Dying(t) => ENABLED <<TrayGoesOn(t)>>_vars
  BY DEF StepsEnabled, Awaited, Unheard, Quitting, Dying, At
<1>3. LiveInv /\ MutexInv /\ [Next]_vars =>
          /\ Awaited(t) => \/ Awaited(t)' \/ Unheard(t)' \/ Quitting(t)' \/ Dying(t)'
                           \/ Dead(t)'
          /\ Unheard(t) => Unheard(t)' \/ Quitting(t)' \/ Dying(t)' \/ Dead(t)'
          /\ Quitting(t) => Quitting(t)' \/ Dying(t)' \/ Dead(t)'
          /\ Dying(t) => Dying(t)' \/ Dead(t)'
  BY KeptMoves
<1>4. LiveInv /\ MutexInv /\ [Next]_vars =>
          /\ Awaited(t) /\ <<OwnerGoesOn>>_vars => Unheard(t)' \/ Dying(t)' \/ Dead(t)'
          /\ Quitting(t) /\ <<Keeper>>_vars => Dying(t)' \/ Dead(t)'
          /\ Dying(t) /\ <<TrayGoesOn(t)>>_vars => Dead(t)'
  BY KeptMoves
<1>5. LiveInv /\ <<Keeper>>_vars /\ Unheard(t) => ~Unheard(t)'
  BY KeeperLeaves DEF Unheard, Steps
<1>6. FairSpec => []LiveInv /\ []MutexInv /\ [][Next]_vars
                  /\ WF_vars(OwnerGoesOn) /\ WF_vars(Keeper)
  BY Threads, MutexHolds, PTL DEF FairSpec
<1>7. FairSpec /\ []StepsEnabled => (Dying(t) ~> Dead(t))
  BY <1>1, <1>2, <1>3, <1>4, <1>6, PTL DEF TrayFair
<1>8. FairSpec /\ []StepsEnabled => (Quitting(t) ~> Dying(t) \/ Dead(t))
  BY <1>2, <1>3, <1>4, <1>6, PTL
<1>9. FairSpec /\ []StepsEnabled => (Unheard(t) ~> Quitting(t) \/ Dying(t) \/ Dead(t))
  BY <1>2, <1>3, <1>5, <1>6, PTL
<1>10. FairSpec /\ []StepsEnabled
           => (Awaited(t) ~> Unheard(t) \/ Quitting(t) \/ Dying(t) \/ Dead(t))
  BY <1>2, <1>3, <1>4, <1>6, PTL
<1>11. /\ owner = "stopping" /\ keeper.pc = "wait" /\ handle = t /\ tray[t] = "listening"
              => Awaited(t)
       /\ Dead(t) => tray[t] \in {"none", "deaf"} \/ lost > 0
  BY DEF Awaited, Kept, At, Dead
<1> QED
  BY <1>7, <1>8, <1>9, <1>10, <1>11, PTL
=============================================================================
