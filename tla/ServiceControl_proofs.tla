------------------------- MODULE ServiceControl_proofs -------------------------
(***************************************************************************)
(* Proofs of the safety properties of ServiceControl for every number of   *)
(* sessions, notifications, logons and pauses, and that a stop is final.   *)
(***************************************************************************)
EXTENDS ServiceControl, TLAPS

-----------------------------------------------------------------------------
(* Type correctness *)

MainSteps == {"start", "sessions", "starting", "started", "wait", "jobs", "clearing", "stopped", "end"}
Mains == [pc : MainSteps, todo : SUBSET Sessions, copy : SUBSET Sessions]
Steps == {"idle", "signal", "report", "logon", "start", "starting", "logoff", "stop", "return"}
Handlers == [pc : Steps, sid : Sessions \cup {None}, by : Makers \cup {None}]
Lives == [Objects -> Life]
Maps == [Sessions -> Makers \cup {None}]

\* A handler in the middle of a notification has its session, and from its lookup
\* on an object of it.
HandlerInv ==
    /\ handler.pc \notin {"idle", "signal", "report"} => handler.sid \in Sessions
    /\ handler.pc \in {"start", "starting", "stop", "return"} <=> handler.by \in Makers
TypeInv == TypeOK /\ HandlerInv

\* The parts of TypeOK, by the thread that changes them.
LEMMA TypeParts ==
    TypeOK <=>
        /\ scm \in {"running", "paused", "stopPending", "stopped"} /\ stopEvt \in BOOLEAN
        /\ status \in {"startPending", "running", "paused", "stopPending", "stopped"}
        /\ main \in Mains /\ hung \in BOOLEAN
        /\ handler \in Handlers /\ map \in Maps /\ object \in Lives
        /\ loggedOn \subseteq Sessions /\ active \subseteq loggedOn
        /\ notices \in Seq(Notices) /\ missed \subseteq Sessions
        /\ logons \in 0..MaxLogons /\ pauses \in 0..MaxPauses
BY DEF TypeOK, Mains, MainSteps, Handlers, Steps, Lives, Maps

\* What a step does not touch keeps its type.
LEMMA TypeKept ==
    ASSUME TypeInv, main' \in Mains, hung' \in BOOLEAN, handler' \in Handlers, map' \in Maps,
           object' \in Lives, HandlerInv', missed' \subseteq Sessions,
           UNCHANGED <<scm, stopEvt, status, loggedOn, active, notices, logons, pauses>>
    PROVE  TypeInv'
BY DEF TypeInv, TypeOK, Mains, MainSteps, Handlers, Steps, Lives, Maps

\* Where the handler goes next.
LEMMA HandlerNext ==
    ASSUME TypeInv, NEW p \in Steps, HandlerTo(p)
    PROVE  /\ handler' \in Handlers
           /\ handler'.pc = p
           /\ p # "idle" => handler'.sid = handler.sid /\ handler'.by = handler.by
           /\ p = "idle" => handler'.by = None
BY DEF TypeInv, TypeOK, HandlerTo, Handlers, Steps

LEMMA ObjectPair ==
    ASSUME NEW s \in Sessions, NEW b \in Makers
    PROVE  <<s, b>> \in Objects
BY DEF Objects

LEMMA LifeType ==
    ASSUME object \in Lives, NEW o \in Objects
    PROVE  /\ Begun(o) \in Lives /\ Ready(o) \in Lives /\ Halted(o) \in Lives
           /\ [object EXCEPT ![o] = "added"] \in Lives
BY DEF Lives, Life, Begun, Ready, Halted

LEMMA DestroyedType ==
    ASSUME object \in Lives, NEW gone
    PROVE  Destroyed(gone) \in Lives
BY DEF Lives, Life, Destroyed

LEMMA TypeInit == Init => TypeInv
<1> SUFFICES ASSUME Init PROVE TypeInv
  OBVIOUS
<1>1. object \in Lives /\ map \in Maps
  BY DEF Init, Lives, Life, Maps
<1>2. handler \in Handlers /\ handler.pc = "idle" /\ handler.by = None
  BY DEF Init, Handlers, Steps
<1>3. main \in Mains
  BY DEF Init, Mains, MainSteps
<1>4. notices \in Seq(Notices) /\ logons \in 0..MaxLogons /\ pauses \in 0..MaxPauses
  BY ServiceControlConstants DEF Init
<1>5. TypeOK
  BY <1>1, <1>2, <1>3, <1>4, TypeParts DEF Init
<1> QED
  BY <1>2, <1>5 DEF TypeInv, HandlerInv, Makers, None

\* The main thread leaves the handler and what Windows says alone.
LEMMA MainTypes == TypeInv /\ (MainThread \/ MainHangs) => TypeInv'
<1> SUFFICES ASSUME TypeInv, MainThread \/ MainHangs
             PROVE  TypeInv'
  OBVIOUS
<1>0. TypeOK /\ main \in Mains /\ object \in Lives /\ map \in Maps /\ handler \in Handlers
      /\ hung \in BOOLEAN /\ active \subseteq Sessions /\ loggedOn \subseteq Sessions
      /\ missed \subseteq Sessions
  BY TypeParts DEF TypeInv
<1>1. CASE StartFails \/ StartRunning \/ StopBegins \/ JobsCleared \/ StopEnds \/ MainHangs
  <2>1. main' \in Mains /\ hung' \in BOOLEAN
    BY <1>0, <1>1 DEF StartFails, StartRunning, StopBegins, JobsCleared, StopEnds, MainHangs,
       MainTo, Mains, MainSteps
  <2>2. scm' \in {"running", "paused", "stopPending", "stopped"}
        /\ status' \in {"startPending", "running", "paused", "stopPending", "stopped"}
    BY <1>0, <1>1 DEF StartFails, StartRunning, StopBegins, JobsCleared, StopEnds, MainHangs, TypeOK
  <2>3. UNCHANGED <<stopEvt, handler, map, object, windows, missed, pauses>>
    BY <1>1 DEF StartFails, StartRunning, StopBegins, JobsCleared, StopEnds, MainHangs
  <2> QED
    BY <1>0, <2>1, <2>2, <2>3
    DEF TypeInv, TypeOK, HandlerInv, windows, Mains, MainSteps, Handlers, Steps, Lives, Maps
<1>2. CASE StartEnumerate
  <2>1. object' \in Lives /\ map' \in Maps /\ main' \in Mains /\ missed' \subseteq Sessions
    BY <1>0, <1>2 DEF StartEnumerate, Lives, Life, Maps, Makers, Mains, MainSteps
  <2> QED
    BY <1>0, <1>2, <2>1, TypeKept DEF StartEnumerate, windows, TypeInv, HandlerInv
<1>3. CASE StartReturns \/ StopSessions
  <2>1. PICK gone : object' = Destroyed(gone)
    BY <1>3 DEF StartReturns, StopSessions
  <2>2. object' \in Lives
    BY <1>0, <2>1, DestroyedType
  <2>3. main' \in Mains /\ map' \in Maps
    BY <1>0, <1>3 DEF StartReturns, StopSessions, MainTo, Mains, MainSteps, Maps, None
  <2>4. UNCHANGED <<scm, stopEvt, status, hung, handler, windows, missed, pauses>>
    BY <1>3 DEF StartReturns, StopSessions
  <2> QED
    BY <1>0, <2>2, <2>3, <2>4, TypeKept DEF windows, TypeInv, HandlerInv
<1>4. ASSUME NEW s \in Sessions, StartSession(s) \/ StartedSession(s)
      PROVE  TypeInv'
  <2>1. <<s, "onStart">> \in Objects
    BY DEF Objects, Makers
  <2>2. object' \in Lives
    BY <1>0, <1>4, <2>1, LifeType DEF StartSession, StartedSession
  <2>3. main' \in Mains
    BY <1>0, <1>4 DEF StartSession, StartedSession, MainTo, Mains, MainSteps
  <2>4. UNCHANGED <<scm, stopEvt, status, hung, handler, map, windows, missed, pauses>>
    BY <1>4 DEF StartSession, StartedSession
  <2> QED
    BY <1>0, <2>2, <2>3, <2>4, TypeKept DEF windows, TypeInv, HandlerInv
<1> QED
  BY <1>1, <1>2, <1>3, <1>4 DEF MainThread

\* The handler on a session: it leaves the main thread alone.
LEMMA SessionTypes == TypeInv /\ Session => TypeInv'
<1> SUFFICES ASSUME TypeInv, Session
             PROVE  TypeInv'
  OBVIOUS
<1>0. TypeOK /\ main \in Mains /\ object \in Lives /\ map \in Maps /\ handler \in Handlers
      /\ hung \in BOOLEAN /\ missed \subseteq Sessions /\ HandlerInv
  BY TypeParts DEF TypeInv
<1>1. CASE SessionChange
  <2> DEFINE n == Head(notices)
  <2>1. n \in Notices /\ Tail(notices) \in Seq(Notices)
    BY <1>0, <1>1 DEF SessionChange, TypeOK
  <2>2. [pc |-> n.kind, sid |-> n.sid, by |-> None] \in Handlers /\ n.sid \in Sessions
        /\ n.kind \in {"logon", "logoff"}
    BY <2>1 DEF Notices, Handlers, Steps
  <2>3. handler' \in Handlers /\ missed' \subseteq Sessions /\ HandlerInv'
    BY <1>0, <1>1, <2>2 DEF SessionChange, HandlerInv, Makers, None
  <2>4. notices' \in Seq(Notices)
    BY <1>1, <2>1 DEF SessionChange
  <2>5. UNCHANGED <<scm, stopEvt, status, main, hung, map, object, loggedOn, active, logons, pauses>>
    BY <1>1 DEF SessionChange
  <2> HIDE DEF n
  <2> QED
    BY <1>0, <2>3, <2>4, <2>5 DEF TypeInv, TypeOK, Handlers, Steps
<1>2. ASSUME handler' \in Handlers, HandlerInv', map' \in Maps, object' \in Lives,
             UNCHANGED <<scm, stopEvt, status, main, hung, windows, missed, pauses>>
      PROVE  TypeInv'
  BY <1>0, <1>2, TypeKept DEF windows
<1>3. CASE LogonAdd
  <2>1. handler.sid \in Sessions
    BY <1>0, <1>3 DEF LogonAdd, HandlerInv
  <2>2. handler.sid \in Served => map[handler.sid] \in Makers
    BY <1>0, <2>1 DEF Served, Maps
  <2>3. handler' \in Handlers /\ handler'.sid = handler.sid /\ handler'.by \in Makers
        /\ handler'.pc \in {"start", "return"}
    BY <1>0, <1>3, <2>1, <2>2 DEF LogonAdd, Handlers, Steps, Makers
  <2>4. map' \in Maps
    BY <1>0, <1>3 DEF LogonAdd, Maps, Makers
  <2>5. <<handler.sid, "handler">> \in Objects
    BY <2>1 DEF Objects, Makers
  <2>6. object' \in Lives
    BY <1>0, <1>3, <2>5, LifeType DEF LogonAdd
  <2>7. HandlerInv'
    BY <2>1, <2>3 DEF HandlerInv
  <2> QED
    BY <1>2, <1>3, <2>3, <2>4, <2>6, <2>7 DEF LogonAdd
<1>4. CASE LogonStart \/ LogonStarted \/ LogoffStop
  <2>1. handler.sid \in Sessions /\ handler.by \in Makers
    BY <1>0, <1>4 DEF LogonStart, LogonStarted, LogoffStop, HandlerInv
  <2>2. PICK p \in {"starting", "return"} : HandlerTo(p)
    BY <1>4 DEF LogonStart, LogonStarted, LogoffStop
  <2>3. handler' \in Handlers /\ HandlerInv'
    BY <2>1, <2>2, HandlerNext DEF Steps, HandlerInv
  <2>4. <<handler.sid, handler.by>> \in Objects
    BY <2>1, ObjectPair
  <2>5. object' \in Lives
    BY <1>0, <1>4, <2>4, LifeType DEF LogonStart, LogonStarted, LogoffStop
  <2>6. UNCHANGED <<scm, stopEvt, status, main, hung, map, windows, missed, pauses>>
    BY <1>4 DEF LogonStart, LogonStarted, LogoffStop
  <2> QED
    BY <1>0, <1>2, <2>3, <2>5, <2>6
<1>5. CASE LogoffDel
  <2>1. handler.sid \in Sessions
    BY <1>0, <1>5 DEF LogoffDel, HandlerInv
  <2>2. handler.sid \in Served => map[handler.sid] \in Makers
    BY <1>0, <2>1 DEF Served, Maps
  <2>3. handler' \in Handlers /\ HandlerInv'
    <3>1. CASE handler.sid \in Served
      BY <1>0, <1>5, <2>1, <2>2, <3>1 DEF LogoffDel, Handlers, Steps, HandlerInv
    <3>2. CASE handler.sid \notin Served
      <4>1. handler' \in Handlers /\ handler'.pc = "idle" /\ handler'.by = None
        BY <1>5, <3>2, HandlerNext DEF LogoffDel, Steps
      <4> QED
        BY <4>1 DEF HandlerInv, Makers, None
    <3> QED
      BY <3>1, <3>2
  <2>4. map' \in Maps
    BY <1>0, <1>5 DEF LogoffDel, Maps
  <2> QED
    BY <1>0, <1>2, <1>5, <2>3, <2>4 DEF LogoffDel
<1>6. CASE HandlerReturns
  <2>1. handler' \in Handlers /\ handler'.pc = "idle" /\ handler'.by = None
    BY <1>6, HandlerNext DEF HandlerReturns, Steps
  <2>2. HandlerInv'
    BY <2>1 DEF HandlerInv, Makers, None
  <2>3. object' \in Lives
    BY <1>0, <1>6, DestroyedType DEF HandlerReturns
  <2> QED
    BY <1>0, <1>2, <1>6, <2>1, <2>2, <2>3 DEF HandlerReturns
<1> QED
  BY <1>1, <1>3, <1>4, <1>5, <1>6 DEF Session

LEMMA TypeStep == TypeInv /\ [Next]_vars => TypeInv'
<1> SUFFICES ASSUME TypeInv, [Next]_vars
             PROVE  TypeInv'
  OBVIOUS
<1> USE ServiceControlConstants
<1>0. TypeOK /\ HandlerInv
  BY DEF TypeInv
<1>1. CASE Pause \/ Resume
  <2>1. pauses \in 0..MaxPauses
    BY <1>0 DEF TypeOK
  <2>2. pauses' \in 0..MaxPauses
    BY <1>1, <2>1 DEF Pause, Resume
  <2>3. scm' \in {"running", "paused", "stopPending", "stopped"}
        /\ status' \in {"startPending", "running", "paused", "stopPending", "stopped"}
    BY <1>1 DEF Pause, Resume
  <2>4. UNCHANGED <<stopEvt, main, hung, handler, map, object, windows, missed>>
    BY <1>1 DEF Pause, Resume
  <2> QED
    BY <1>0, <2>2, <2>3, <2>4 DEF TypeInv, TypeOK, HandlerInv, windows
<1>2. CASE Stopping
  <2>1. PICK p \in {"idle", "signal", "report"} : HandlerTo(p)
    BY <1>2 DEF Stopping, Stop, StopSignal, StopReport
  <2>2. handler.pc \in {"idle", "signal", "report"}
    BY <1>2 DEF Stopping, Stop, StopSignal, StopReport
  <2>3. handler.by \notin Makers
    BY <1>0, <2>2 DEF HandlerInv
  <2>4. handler' \in Handlers /\ handler'.pc \in {"idle", "signal", "report"} /\ handler'.by \notin Makers
    BY <2>1, <2>3, HandlerNext DEF Steps, Makers, None
  <2>5. HandlerInv'
    BY <2>4 DEF HandlerInv
  <2>6. scm' \in {"running", "paused", "stopPending", "stopped"} /\ stopEvt' \in BOOLEAN
    BY <1>0, <1>2 DEF Stopping, Stop, StopSignal, StopReport, TypeOK
  <2>7. UNCHANGED <<status, main, hung, map, object, windows, missed, pauses>>
    BY <1>2 DEF Stopping, Stop, StopSignal, StopReport
  <2> QED
    BY <1>0, <2>4, <2>5, <2>6, <2>7 DEF TypeInv, TypeOK, windows, Handlers, Steps
<1>3. ASSUME NEW s \in Sessions, UserLogsOn(s) \/ UserLogsOff(s)
      PROVE  TypeInv'
  <2>1. \A k \in {"logon", "logoff"} : [kind |-> k, sid |-> s] \in Notices
    BY DEF Notices
  <2>2. PICK k \in {"logon", "logoff"} : notices' = Append(notices, [kind |-> k, sid |-> s])
    BY <1>3 DEF UserLogsOn, UserLogsOff
  <2>3. notices \in Seq(Notices) /\ loggedOn \subseteq Sessions /\ active \subseteq loggedOn
        /\ logons \in 0..MaxLogons
    BY <1>0 DEF TypeOK
  <2>4. notices' \in Seq(Notices)
    <3> DEFINE n == [kind |-> k, sid |-> s]
    <3>1. n \in Notices /\ notices' = Append(notices, n)
      BY <2>1, <2>2
    <3> HIDE DEF n
    <3> QED
      BY <2>3, <3>1
  <2>5. loggedOn' \subseteq Sessions /\ active' \subseteq loggedOn' /\ logons' \in 0..MaxLogons
    BY <1>3, <2>3 DEF UserLogsOn, UserLogsOff
  <2>6. UNCHANGED <<scm, stopEvt, status, main, hung, handler, map, object, missed, pauses>>
    BY <1>3 DEF UserLogsOn, UserLogsOff
  <2> QED
    BY <1>0, <2>4, <2>5, <2>6 DEF TypeInv, TypeOK, HandlerInv
<1>4. ASSUME NEW s \in Sessions, UserSwitches(s)
      PROVE  TypeInv'
  <2>1. active' \subseteq loggedOn
    BY <1>0, <1>4 DEF UserSwitches, TypeOK
  <2> QED
    BY <1>0, <1>4, <2>1 DEF UserSwitches, TypeInv, TypeOK, HandlerInv
<1>5. CASE UNCHANGED vars
  BY <1>0, <1>5 DEF vars, windows, TypeInv, TypeOK, HandlerInv
<1> QED
  BY <1>1, <1>2, <1>3, <1>4, <1>5, MainTypes, SessionTypes DEF Next, Windows

LEMMA TypeInvHolds == Spec => []TypeInv
<1> QED
  BY TypeInit, TypeStep, PTL DEF Spec

\* Every variable keeps its type.
THEOREM TypeCorrect == Spec => []TypeOK
<1>1. TypeInv => TypeOK
  BY DEF TypeInv
<1> QED
  BY <1>1, TypeInvHolds, PTL

-----------------------------------------------------------------------------
(* Sessions are started once *)

Starting == main.pc \in {"sessions", "starting"}
Quiet == {"idle", "signal", "report"}

\* The handler touches no session before OnStart has started all of its own.  Until
\* then the map has what OnStart has put there, afterwards what it has has been
\* started, but for the object the handler is about to start.  An object that is
\* being started has its thread, and what is stopped has left the map.
Alone ==
    /\ status = "running" => main.pc \in {"started", "wait"}
    /\ main.pc = "start" \/ Starting => handler.pc \in Quiet
    /\ main.pc = "start" => \A s \in Sessions : map[s] = None

OnStartInv ==
    /\ main.pc = "sessions" => \A s \in main.todo : object[<<s, "onStart">>] = "added"
    /\ main.pc = "starting" =>
           \E s \in main.todo :
               /\ object[<<s, "onStart">>] = "starting"
               /\ \A t \in main.todo \ {s} : object[<<t, "onStart">>] = "added"

InMap ==
    \A s \in Sessions :
        /\ map[s] = "onStart" => \/ object[<<s, "onStart">>] = "started"
                                 \/ Starting /\ s \in main.todo
        /\ map[s] = "handler" => \/ object[<<s, "handler">>] = "started"
                                 \/ /\ handler.pc \in {"start", "starting"}
                                    /\ handler.sid = s

InHand ==
    /\ handler.pc \in {"start", "starting"} => handler.by = "handler"
    /\ handler.pc = "start" => object[<<handler.sid, handler.by>>] = "added"
    /\ handler.pc = "starting" => object[<<handler.sid, handler.by>>] = "starting"
    /\ handler.pc = "stop" => map[handler.sid] # handler.by

\* Nobody else is starting an object.
OwnStart ==
    \A o \in Objects : object[o] = "starting" =>
        \/ main.pc = "starting" /\ o[2] = "onStart" /\ o[1] \in main.todo
        \/ handler.pc = "starting" /\ o = <<handler.sid, handler.by>>

StartedInv == Alone /\ OnStartInv /\ InMap /\ InHand /\ OwnStart /\ SessionStartedOnce

LEMMA StartedInit == Init => StartedInv
BY DEF Init, StartedInv, Alone, OnStartInv, InMap, InHand, OwnStart, SessionStartedOnce,
       Starting, Quiet, None

\* A step that touches no session.
LEMMA StartedKept ==
    ASSUME StartedInv, UNCHANGED <<map, object>>,
           status' = "running" => main'.pc \in {"started", "wait"},
           \/ main' = main
           \/ main.pc \notin {"start", "starting"} /\ main'.pc \notin {"start", "sessions", "starting"}
              /\ (main.pc = "sessions" => main.todo = {})
           \/ main.pc = "start" /\ main'.pc = "wait",
           \/ handler' = handler
           \/ /\ handler.pc \in Quiet
              /\ \/ handler'.pc \in Quiet
                 \/ handler'.pc \in {"logon", "logoff"} /\ ~(main'.pc = "start" \/ Starting')
    PROVE  StartedInv'
<1>1. Alone'
  BY DEF StartedInv, Alone, Starting, Quiet
<1>2. OnStartInv'
  BY DEF StartedInv, OnStartInv
<1>3. InMap'
  BY DEF StartedInv, InMap, Alone, Starting, Quiet, None
<1>4. InHand' /\ OwnStart' /\ SessionStartedOnce'
  BY DEF StartedInv, InHand, OwnStart, SessionStartedOnce, Quiet
<1> QED
  BY <1>1, <1>2, <1>3, <1>4 DEF StartedInv

\* Dropping references destroys no object in the map or in hand, nor one that is
\* being started.
LEMMA StartedDestroyed ==
    ASSUME TypeInv, StartedInv, NEW gone, object' = Destroyed(gone),
           gone \cap Mapped' = {}, gone \cap Handled' = {},
           \A s \in Sessions : map'[s] \in {map[s], None},
           status' = status, ~Starting, main.pc # "start", main'.pc \notin {"start", "sessions", "starting"},
           status = "running" => main'.pc \in {"started", "wait"},
           handler' = handler \/ (handler.pc = "return" /\ handler'.pc = "idle")
    PROVE  StartedInv'
<1>0. object \in Lives /\ map \in Maps /\ handler \in Handlers /\ HandlerInv
  BY TypeParts DEF TypeInv
<1>1. \A o \in Objects : object'[o] = IF o \in gone THEN "none" ELSE object[o]
  <2>1. ASSUME NEW o \in Objects, o \in gone
        PROVE  object[o] \notin {"starting", "broken"}
    <3>1. object[o] # "broken"
      BY DEF StartedInv, SessionStartedOnce
    <3>2. ASSUME object[o] = "starting"
          PROVE  FALSE
      <4>1. handler.pc = "starting" /\ o = <<handler.sid, handler.by>>
        BY <3>2 DEF StartedInv, OwnStart, Starting
      <4>2. handler' = handler
        BY <4>1
      <4>3. o \in Handled'
        BY <4>1, <4>2 DEF Handled
      <4> QED
        BY <2>1, <4>3
    <3> QED
      BY <3>1, <3>2
  <2> QED
    BY <2>1 DEF Destroyed
<1>2. Alone' /\ OnStartInv'
  BY DEF StartedInv, Alone, OnStartInv, Starting, Quiet
<1>3. handler.pc \in {"start", "starting", "stop"} =>
          /\ handler' = handler
          /\ <<handler.sid, handler.by>> \in Objects
          /\ object'[<<handler.sid, handler.by>>] = object[<<handler.sid, handler.by>>]
  <2> SUFFICES ASSUME handler.pc \in {"start", "starting", "stop"}
               PROVE  /\ handler' = handler
                      /\ <<handler.sid, handler.by>> \in Objects
                      /\ object'[<<handler.sid, handler.by>>] = object[<<handler.sid, handler.by>>]
    OBVIOUS
  <2>1. handler.sid \in Sessions /\ handler.by \in Makers /\ handler' = handler
    BY <1>0 DEF HandlerInv
  <2>2. <<handler.sid, handler.by>> \in Objects
    BY <2>1, ObjectPair
  <2>3. <<handler.sid, handler.by>> \in Handled'
    BY <2>1, <2>2 DEF Handled
  <2> QED
    BY <1>1, <2>1, <2>2, <2>3
<1>4. handler'.pc \in {"start", "starting", "stop"} => handler' = handler
  OBVIOUS
<1>5. InHand' /\ SessionStartedOnce'
  <2>1. \A o \in Objects : object'[o] # "broken"
    BY <1>1 DEF StartedInv, SessionStartedOnce
  <2>2. handler'.pc = "stop" => map'[handler'.sid] # handler'.by
    BY <1>0, <1>3, <1>4 DEF StartedInv, InHand, HandlerInv, Makers, None
  <2> QED
    BY <1>3, <1>4, <2>1, <2>2 DEF StartedInv, InHand, SessionStartedOnce
<1>6. InMap'
  <2> SUFFICES ASSUME NEW s \in Sessions, NEW b \in Makers, map'[s] = b
               PROVE  \/ object'[<<s, b>>] = "started"
                      \/ b = "handler" /\ handler'.pc \in {"start", "starting"} /\ handler'.sid = s
    BY DEF InMap, Makers
  <2>1. map[s] = b
    BY DEF Makers, None
  <2>2. <<s, b>> \in Objects
    BY ObjectPair
  <2>3. <<s, b>> \in Mapped'
    BY <2>2 DEF Mapped
  <2>4. object'[<<s, b>>] = object[<<s, b>>]
    BY <1>1, <2>2, <2>3
  <2>5. \/ object[<<s, b>>] = "started"
        \/ b = "handler" /\ handler.pc \in {"start", "starting"} /\ handler.sid = s
    BY <2>1 DEF StartedInv, InMap, Starting, Makers
  <2> QED
    BY <1>3, <2>4, <2>5
<1>7. OwnStart'
  <2> SUFFICES ASSUME NEW o \in Objects, object'[o] = "starting"
               PROVE  handler'.pc = "starting" /\ o = <<handler'.sid, handler'.by>>
    BY DEF OwnStart
  <2>1. object[o] = "starting"
    BY <1>1
  <2> QED
    BY <1>3, <2>1 DEF StartedInv, OwnStart, Starting
<1> QED
  BY <1>2, <1>5, <1>6, <1>7 DEF StartedInv

LEMMA StartedMain == TypeInv /\ StartedInv /\ (MainThread \/ MainHangs) => StartedInv'
<1> SUFFICES ASSUME TypeInv, StartedInv, MainThread \/ MainHangs
             PROVE  StartedInv'
  OBVIOUS
<1>0. main \in Mains /\ object \in Lives /\ map \in Maps /\ handler \in Handlers /\ HandlerInv
      /\ active \subseteq Sessions
  BY TypeParts DEF TypeInv
<1>1. CASE StartFails \/ StartRunning \/ StopBegins \/ JobsCleared \/ StopEnds \/ MainHangs
  <2>1. UNCHANGED <<map, object, handler>>
    BY <1>1 DEF StartFails, StartRunning, StopBegins, JobsCleared, StopEnds, MainHangs
  <2>2. \/ main' = main
        \/ main.pc \notin {"start", "starting"} /\ main'.pc \notin {"start", "sessions", "starting"}
           /\ (main.pc = "sessions" => main.todo = {})
        \/ main.pc = "start" /\ main'.pc = "wait"
    BY <1>0, <1>1 DEF StartFails, StartRunning, StopBegins, JobsCleared, StopEnds, MainHangs, MainTo,
       Mains
  <2>3. status' = "running" => main'.pc \in {"started", "wait"}
    BY <1>0, <1>1 DEF StartFails, StartRunning, StopBegins, JobsCleared, StopEnds, MainHangs, MainTo,
       Mains, StartedInv, Alone
  <2> QED
    BY <2>1, <2>2, <2>3, StartedKept
<1>2. CASE StartEnumerate
  <2>1. handler.pc \in Quiet /\ handler' = handler /\ status' = status /\ main'.pc = "sessions"
        /\ main'.todo = active
    BY <1>2 DEF StartEnumerate, StartedInv, Alone
  <2>2. \A s \in Sessions : map'[s] = IF s \in active THEN "onStart" ELSE None
    BY <1>2 DEF StartEnumerate, StartedInv, Alone
  <2>3. \A s \in Sessions : <<s, "onStart">> \in Objects
    BY DEF Objects, Makers
  <2>4. \A o \in Objects : object'[o] = IF o \in active \X {"onStart"} THEN "added" ELSE object[o]
    BY <1>2 DEF StartEnumerate
  <2>5. \A s \in active : object'[<<s, "onStart">>] = "added"
    BY <1>0, <2>3, <2>4
  <2>6. Alone' /\ OnStartInv' /\ InHand'
    BY <1>2, <2>1, <2>5 DEF StartEnumerate, Alone, OnStartInv, InHand, StartedInv, Quiet
  <2>7. InMap'
    BY <2>1, <2>2 DEF InMap, Starting, None
  <2>8. OwnStart' /\ SessionStartedOnce'
    BY <1>2, <2>1, <2>4 DEF StartEnumerate, OwnStart, SessionStartedOnce, StartedInv, Quiet
  <2> QED
    BY <2>6, <2>7, <2>8 DEF StartedInv
<1>3. ASSUME NEW s \in Sessions, StartSession(s)
      PROVE  StartedInv'
  <2>0. <<s, "onStart">> \in Objects /\ \A t \in Sessions : <<t, "onStart">> \in Objects
    BY DEF Objects, Makers
  <2>1. handler.pc \in Quiet /\ UNCHANGED <<handler, map, status>>
    BY <1>3 DEF StartSession, StartedInv, Alone, Starting
  <2>2. main.pc = "sessions" /\ main'.pc = "starting" /\ main'.todo = main.todo /\ s \in main.todo
        /\ main.todo \subseteq Sessions
    BY <1>0, <1>3 DEF StartSession, MainTo, Mains
  <2>3. object[<<s, "onStart">>] = "added"
    BY <2>2 DEF StartedInv, OnStartInv
  <2>4. object'[<<s, "onStart">>] = "starting"
        /\ \A o \in Objects : o # <<s, "onStart">> => object'[o] = object[o]
    BY <1>0, <1>3, <2>0, <2>3 DEF StartSession, Begun, Lives
  <2>5. \A t \in Sessions : t # s => object'[<<t, "onStart">>] = object[<<t, "onStart">>]
    BY <2>0, <2>4
  <2>6. Alone' /\ InHand' /\ SessionStartedOnce'
    BY <2>1, <2>2, <2>4 DEF Alone, InHand, SessionStartedOnce, StartedInv, Quiet, Starting
  <2>7. OnStartInv'
    BY <2>2, <2>4, <2>5 DEF OnStartInv, StartedInv
  <2>8. InMap'
    <3>1. \A t \in Sessions : <<t, "handler">> \in Objects /\ <<t, "handler">> # <<s, "onStart">>
      BY DEF Objects, Makers
    <3> QED
      BY <2>1, <2>2, <2>4, <2>5, <3>1 DEF InMap, StartedInv, Starting
  <2>9. OwnStart'
    <3>1. ASSUME NEW o \in Objects, object'[o] = "starting"
          PROVE  main'.pc = "starting" /\ o[2] = "onStart" /\ o[1] \in main'.todo
      <4>1. CASE o = <<s, "onStart">>
        BY <2>2, <4>1
      <4>2. CASE o # <<s, "onStart">>
        BY <2>1, <2>2, <2>4, <3>1, <4>2 DEF StartedInv, OwnStart, Quiet
      <4> QED
        BY <4>1, <4>2
    <3> QED
      BY <3>1 DEF OwnStart
  <2> QED
    BY <2>6, <2>7, <2>8, <2>9 DEF StartedInv
<1>4. ASSUME NEW s \in Sessions, StartedSession(s)
      PROVE  StartedInv'
  <2>0. <<s, "onStart">> \in Objects /\ \A t \in Sessions : <<t, "onStart">> \in Objects
    BY DEF Objects, Makers
  <2>1. handler.pc \in Quiet /\ UNCHANGED <<handler, map, status>>
    BY <1>4 DEF StartedSession, StartedInv, Alone, Starting
  <2>2. main.pc = "starting" /\ main'.pc = "sessions" /\ main'.todo = main.todo \ {s} /\ s \in main.todo
        /\ main.todo \subseteq Sessions
    BY <1>0, <1>4 DEF StartedSession, Mains
  <2>3. object[<<s, "onStart">>] = "starting"
    BY <1>4 DEF StartedSession
  <2>4. object'[<<s, "onStart">>] = "started"
        /\ \A o \in Objects : o # <<s, "onStart">> => object'[o] = object[o]
    BY <1>0, <1>4, <2>0, <2>3 DEF StartedSession, Ready, Lives
  <2>5. \A t \in Sessions : t # s => object'[<<t, "onStart">>] = object[<<t, "onStart">>]
    BY <2>0, <2>4
  <2>6. Alone' /\ InHand' /\ SessionStartedOnce'
    BY <2>1, <2>2, <2>4 DEF Alone, InHand, SessionStartedOnce, StartedInv, Quiet, Starting
  <2>7. \A t \in main.todo \ {s} : object[<<t, "onStart">>] = "added"
    BY <2>2, <2>3 DEF StartedInv, OnStartInv
  <2>8. OnStartInv'
    BY <2>2, <2>5, <2>7 DEF OnStartInv
  <2>9. InMap'
    <3>1. \A t \in Sessions : <<t, "handler">> \in Objects /\ <<t, "handler">> # <<s, "onStart">>
      BY DEF Objects, Makers
    <3> QED
      BY <2>1, <2>2, <2>4, <2>5, <3>1 DEF InMap, StartedInv, Starting
  <2>10. OwnStart'
    <3>1. ASSUME NEW o \in Objects, object'[o] = "starting"
          PROVE  FALSE
      <4>1. o # <<s, "onStart">> /\ object[o] = "starting"
        BY <2>4, <3>1
      <4>2. o[2] = "onStart" /\ o = <<o[1], o[2]>> /\ o[1] \in main.todo
        BY <2>1, <4>1 DEF StartedInv, OwnStart, Quiet, Objects
      <4>3. o[1] # s
        BY <4>1, <4>2
      <4>4. object[<<o[1], "onStart">>] = "added"
        BY <2>7, <4>2, <4>3
      <4>5. object[<<o[1], o[2]>>] = "added"
        BY <4>2, <4>4
      <4> QED
        BY <4>1, <4>2, <4>5
    <3> QED
      BY <3>1 DEF OwnStart
  <2> QED
    BY <2>6, <2>8, <2>9, <2>10 DEF StartedInv
<1>5. CASE StartReturns
  <2>1. UNCHANGED <<handler, map, status>> /\ main.pc = "started" /\ main'.pc = "wait"
    BY <1>0, <1>5 DEF StartReturns, Mains
  <2> DEFINE gone == Copied \ (Mapped \cup Handled)
  <2>2. object' = Destroyed(gone) /\ Mapped' = Mapped /\ Handled' = Handled
    BY <1>5, <2>1 DEF StartReturns, Mapped, Handled
  <2>3. gone \cap Mapped' = {} /\ gone \cap Handled' = {}
    BY <2>2
  <2> HIDE DEF gone
  <2>4. \A s \in Sessions : map'[s] \in {map[s], None}
    BY <2>1
  <2>5. ~Starting /\ main.pc # "start" /\ main'.pc \notin {"start", "sessions", "starting"}
        /\ main'.pc \in {"started", "wait"}
    BY <2>1 DEF Starting
  <2>6. status' = status /\ handler' = handler
    BY <2>1
  <2> QED
    BY <2>2, <2>3, <2>4, <2>5, <2>6, StartedDestroyed
<1>6. CASE StopSessions
  <2>1. UNCHANGED <<handler, status>> /\ main.pc = "clearing" /\ main'.pc = "stopped"
        /\ map' = [s \in Sessions |-> None]
    BY <1>0, <1>6 DEF StopSessions, MainTo, Mains
  <2> DEFINE gone == Mapped \ Handled
  <2>2. object' = Destroyed(gone) /\ Handled' = Handled
    BY <1>6, <2>1 DEF StopSessions, Handled
  <2>3. Mapped' = {}
    BY <2>1 DEF Mapped, Objects, Makers, None
  <2>4. gone \cap Mapped' = {} /\ gone \cap Handled' = {}
    BY <2>2, <2>3
  <2>5. status # "running"
    BY <2>1 DEF StartedInv, Alone
  <2> HIDE DEF gone
  <2>6. \A s \in Sessions : map'[s] \in {map[s], None}
    BY <2>1
  <2>7. ~Starting /\ main.pc # "start" /\ main'.pc \notin {"start", "sessions", "starting"}
    BY <2>1 DEF Starting
  <2>8. status' = status /\ handler' = handler
    BY <2>1
  <2> QED
    BY <2>2, <2>4, <2>5, <2>6, <2>7, <2>8, StartedDestroyed
<1> QED
  BY <1>1, <1>2, <1>3, <1>4, <1>5, <1>6 DEF MainThread

LEMMA StartedInSession == TypeInv /\ StartedInv /\ Session => StartedInv'
<1> SUFFICES ASSUME TypeInv, StartedInv, Session
             PROVE  StartedInv'
  OBVIOUS
<1>0. main \in Mains /\ object \in Lives /\ map \in Maps /\ handler \in Handlers /\ HandlerInv
  BY TypeParts DEF TypeInv
<1>1. CASE SessionChange
  <2>1. Head(notices) \in Notices
    BY <1>1 DEF SessionChange, TypeInv, TypeOK
  <2>2. handler' = handler \/ (handler'.pc \in {"logon", "logoff"} /\ status = "running")
    <3>1. Head(notices).kind \in {"logon", "logoff"}
      BY <2>1 DEF Notices
    <3>2. status = "running" => handler'.pc = Head(notices).kind
      BY <1>1 DEF SessionChange
    <3>3. status # "running" => handler' = handler
      BY <1>1 DEF SessionChange
    <3>4. status = "running" => handler'.pc \in {"logon", "logoff"}
      BY <3>1, <3>2
    <3> QED
      BY <3>3, <3>4
  <2>3. handler.pc \in Quiet /\ UNCHANGED <<map, object, status, main>>
    BY <1>1 DEF SessionChange, Quiet
  <2>4. status = "running" => main.pc \in {"started", "wait"}
    BY DEF StartedInv, Alone
  <2>5. status = "running" => ~(main'.pc = "start" \/ Starting')
    BY <2>3, <2>4 DEF Starting
  <2> QED
    BY <2>2, <2>3, <2>4, <2>5, StartedKept
<1> DEFINE sid == handler.sid
           o == <<handler.sid, handler.by>>
<1>2. ASSUME handler.pc \notin Quiet
      PROVE  /\ sid \in Sessions
             /\ main.pc # "start" /\ ~Starting
             /\ \A s \in Sessions, b \in Makers : <<s, b>> \in Objects
             /\ handler.by \in Makers => o \in Objects
  BY <1>0, <1>2, ObjectPair DEF StartedInv, Alone, HandlerInv, Quiet
<1>3. CASE LogonAdd /\ sid \in Served
  <2>1. handler'.pc = "return" /\ UNCHANGED <<map, object, main, status>>
    BY <1>0, <1>3 DEF LogonAdd, Handlers
  <2>2. handler.pc = "logon" /\ handler.pc \notin Quiet
    BY <1>3 DEF LogonAdd, Quiet
  <2>3. Alone' /\ OnStartInv'
    BY <1>2, <2>1, <2>2 DEF StartedInv, Alone, OnStartInv, Starting
  <2>4. InMap' /\ InHand' /\ OwnStart' /\ SessionStartedOnce'
    BY <2>1, <2>2 DEF StartedInv, InMap, InHand, OwnStart, SessionStartedOnce, Starting
  <2> QED
    BY <2>3, <2>4 DEF StartedInv
<1>4. CASE LogonAdd /\ sid \notin Served
  <2> DEFINE n == <<sid, "handler">>
  <2>1. handler.pc = "logon" /\ handler.pc \notin Quiet /\ handler'.pc = "start" /\ handler'.sid = sid
        /\ handler'.by = "handler" /\ UNCHANGED <<main, status>>
    BY <1>0, <1>4 DEF LogonAdd, Quiet, Handlers
  <2>2. sid \in Sessions /\ n \in Objects
    BY <1>2, <2>1 DEF Makers
  <2>3. object'[n] = "added" /\ \A q \in Objects : q # n => object'[q] = object[q]
    BY <1>0, <1>4, <2>2 DEF LogonAdd, Lives
  <2>4. map'[sid] = "handler" /\ \A s \in Sessions : s # sid => map'[s] = map[s]
    BY <1>0, <1>4, <2>2 DEF LogonAdd, Maps
  <2>5. Alone' /\ OnStartInv'
    BY <1>2, <2>1 DEF StartedInv, Alone, OnStartInv, Starting
  <2>6. InMap'
    <3> SUFFICES ASSUME NEW s \in Sessions, NEW b \in Makers, map'[s] = b
                 PROVE  \/ object'[<<s, b>>] = "started"
                        \/ b = "handler" /\ handler'.pc \in {"start", "starting"} /\ handler'.sid = s
      BY DEF InMap, Makers
    <3>1. CASE s = sid
      BY <2>1, <2>4, <3>1
    <3>2. CASE s # sid
      <4>1. <<s, b>> \in Objects /\ <<s, b>> # n /\ map[s] = b
        BY <2>4, <3>2, ObjectPair
      <4> QED
        BY <1>2, <2>1, <2>3, <4>1 DEF StartedInv, InMap, Makers
    <3> QED
      BY <3>1, <3>2
  <2>7. InHand' /\ SessionStartedOnce'
    BY <2>1, <2>3 DEF InHand, SessionStartedOnce, StartedInv
  <2>8. OwnStart'
    BY <2>1, <2>3 DEF OwnStart, StartedInv
  <2> QED
    BY <2>5, <2>6, <2>7, <2>8 DEF StartedInv
<1>5. CASE LogonStart \/ LogonStarted
  <2>1. /\ handler.pc \in {"start", "starting"} /\ UNCHANGED <<main, status, map>>
        /\ handler.pc = "start" => object' = Begun(o) /\ HandlerTo("starting")
        /\ handler.pc = "starting" => object' = Ready(o) /\ HandlerTo("return")
    BY <1>5 DEF LogonStart, LogonStarted
  <2>2. handler.by = "handler" /\ o \in Objects /\ handler.pc \notin Quiet
    BY <1>2, <2>1 DEF StartedInv, InHand, Makers, Quiet
  <2>3. /\ handler'.sid = sid /\ handler'.by = handler.by
        /\ handler.pc = "start" => handler'.pc = "starting"
        /\ handler.pc = "starting" => handler'.pc = "return"
    BY <2>1, HandlerNext DEF Steps
  <2>4. /\ handler.pc = "start" => object[o] = "added" /\ object'[o] = "starting"
        /\ handler.pc = "starting" => object[o] = "starting" /\ object'[o] = "started"
        /\ \A q \in Objects : q # o => object'[q] = object[q]
    BY <1>0, <2>1, <2>2 DEF StartedInv, InHand, Begun, Ready, Lives
  <2>5. Alone' /\ OnStartInv'
    BY <1>2, <2>1, <2>2 DEF StartedInv, Alone, OnStartInv, Starting
  <2>6. InMap'
    <3> SUFFICES ASSUME NEW s \in Sessions, NEW b \in Makers, map'[s] = b
                 PROVE  \/ object'[<<s, b>>] = "started"
                        \/ b = "handler" /\ handler'.pc \in {"start", "starting"} /\ handler'.sid = s
      BY DEF InMap, Makers
    <3>1. CASE <<s, b>> = o
      BY <2>1, <2>2, <2>3, <2>4, <3>1
    <3>2. CASE <<s, b>> # o
      <4>1. <<s, b>> \in Objects /\ map[s] = b /\ (b = "handler" => s # sid)
        BY <2>1, <2>2, <3>2, ObjectPair
      <4> QED
        BY <1>2, <2>2, <2>4, <3>2, <4>1 DEF StartedInv, InMap, Makers
    <3> QED
      BY <3>1, <3>2
  <2>7. InHand' /\ SessionStartedOnce'
    BY <2>1, <2>2, <2>3, <2>4 DEF InHand, SessionStartedOnce, StartedInv
  <2>8. OwnStart'
    BY <2>1, <2>2, <2>3, <2>4 DEF OwnStart, StartedInv
  <2> QED
    BY <2>5, <2>6, <2>7, <2>8 DEF StartedInv
<1>6. CASE LogoffDel
  <2>1. handler.pc = "logoff" /\ handler.pc \notin Quiet /\ sid \in Sessions /\ UNCHANGED <<main, status, object>>
    BY <1>2, <1>6 DEF LogoffDel, Quiet
  <2>2. map'[sid] = None /\ \A s \in Sessions : s # sid => map'[s] = map[s]
    BY <1>0, <1>6, <2>1 DEF LogoffDel, Maps
  <2>3. CASE sid \in Served
    <3>1. handler'.pc = "stop" /\ handler'.sid = sid /\ handler'.by = map[sid] /\ map[sid] \in Makers
      BY <1>0, <1>6, <2>1, <2>3 DEF LogoffDel, Handlers, Served, Maps
    <3>2. object[<<sid, map[sid]>>] = "started"
      BY <1>2, <2>1, <3>1 DEF StartedInv, InMap, Makers
    <3>3. Alone' /\ OnStartInv'
      BY <1>2, <2>1 DEF StartedInv, Alone, OnStartInv, Starting
    <3>4. InMap'
      BY <1>2, <2>1, <2>2 DEF StartedInv, InMap, None
    <3>5. InHand' /\ OwnStart' /\ SessionStartedOnce'
      BY <1>2, <2>1, <2>2, <3>1, <3>2
      DEF StartedInv, InHand, OwnStart, SessionStartedOnce, Makers, None, Starting
    <3> QED
      BY <3>3, <3>4, <3>5 DEF StartedInv
  <2>4. CASE sid \notin Served
    <3>1. handler'.pc = "idle"
      BY <1>6, <2>4, HandlerNext DEF LogoffDel, Steps
    <3>2. Alone' /\ OnStartInv'
      BY <1>2, <2>1 DEF StartedInv, Alone, OnStartInv, Starting
    <3>3. InMap'
      BY <1>2, <2>1, <2>2 DEF StartedInv, InMap, None
    <3>4. InHand' /\ OwnStart' /\ SessionStartedOnce'
      BY <1>2, <2>1, <2>2, <3>1 DEF StartedInv, InHand, OwnStart, SessionStartedOnce, Starting
    <3> QED
      BY <3>2, <3>3, <3>4 DEF StartedInv
  <2> QED
    BY <2>3, <2>4
<1>7. CASE LogoffStop
  <2>1. handler.pc = "stop" /\ handler.pc \notin Quiet /\ handler.by \in Makers /\ UNCHANGED <<main, status, map>>
    BY <1>0, <1>7 DEF LogoffStop, HandlerInv, Quiet
  <2>2. o \in Objects /\ map[sid] # handler.by /\ object[o] = "started" /\ handler'.pc = "return"
    BY <1>2, <1>7, <2>1, HandlerNext DEF LogoffStop, Steps, StartedInv, InHand, SessionStartedOnce
  <2>3. object'[o] = "stopped" /\ \A q \in Objects : q # o => object'[q] = object[q]
    BY <1>0, <1>7, <2>2 DEF LogoffStop, Halted, Lives
  <2>4. Alone' /\ OnStartInv'
    BY <1>2, <2>1 DEF StartedInv, Alone, OnStartInv, Starting
  <2>5. InMap'
    <3> SUFFICES ASSUME NEW s \in Sessions, NEW b \in Makers, map'[s] = b
                 PROVE  object'[<<s, b>>] = "started"
      BY DEF InMap, Makers
    <3>1. <<s, b>> \in Objects /\ <<s, b>> # o /\ map[s] = b
      BY <2>1, <2>2, ObjectPair
    <3> QED
      BY <1>2, <2>1, <2>3, <3>1 DEF StartedInv, InMap, Makers
  <2>6. InHand' /\ OwnStart' /\ SessionStartedOnce'
    BY <2>1, <2>2, <2>3 DEF StartedInv, InHand, OwnStart, SessionStartedOnce
  <2> QED
    BY <2>4, <2>5, <2>6 DEF StartedInv
<1>8. CASE HandlerReturns
  <2>1. handler.pc = "return" /\ handler.pc \notin Quiet /\ UNCHANGED <<main, status, map>>
        /\ handler'.pc = "idle" /\ handler'.by = None
    BY <1>8, HandlerNext DEF HandlerReturns, Quiet, Steps
  <2>2. main.pc # "start" /\ ~Starting
    BY <1>2, <2>1
  <2> DEFINE gone == Handled \ (Mapped \cup Copied)
  <2>3. object' = Destroyed(gone) /\ Mapped' = Mapped /\ Handled' = {}
    BY <1>8, <2>1 DEF HandlerReturns, Mapped, Handled, Objects, Makers, None
  <2>4. gone \cap Mapped' = {} /\ gone \cap Handled' = {}
    BY <2>3
  <2>5. status = "running" => main'.pc \in {"started", "wait"}
    BY <2>1 DEF StartedInv, Alone
  <2> HIDE DEF gone
  <2>6. \A s \in Sessions : map'[s] \in {map[s], None}
    BY <2>1
  <2>7. main'.pc \notin {"start", "sessions", "starting"}
    BY <2>1, <2>2 DEF Starting
  <2> QED
    BY <2>1, <2>2, <2>3, <2>4, <2>5, <2>6, <2>7, StartedDestroyed
<1> QED
  BY <1>1, <1>3, <1>4, <1>5, <1>6, <1>7, <1>8 DEF Session

LEMMA StartedStep == TypeInv /\ StartedInv /\ [Next]_vars => StartedInv'
<1> SUFFICES ASSUME TypeInv, StartedInv, [Next]_vars
             PROVE  StartedInv'
  OBVIOUS
<1>1. CASE Pause \/ Resume
  BY <1>1, StartedKept DEF Pause, Resume
<1>2. CASE Stopping
  <2>1. PICK p \in Quiet : HandlerTo(p)
    BY <1>2 DEF Stopping, Stop, StopSignal, StopReport, Quiet
  <2>2. handler.pc \in Quiet /\ UNCHANGED <<map, object, main, status>>
    BY <1>2 DEF Stopping, Stop, StopSignal, StopReport, Quiet
  <2>3. handler'.pc \in Quiet
    BY <2>1, HandlerNext DEF Steps, Quiet
  <2>4. status' = "running" => main'.pc \in {"started", "wait"}
    BY <2>2 DEF StartedInv, Alone
  <2>5. main' = main
    BY <2>2
  <2> QED
    BY <2>2, <2>3, <2>4, <2>5, StartedKept
<1>3. CASE Windows \/ UNCHANGED vars
  <2>1. UNCHANGED <<map, object, main, status, handler>>
    BY <1>3 DEF Windows, UserLogsOn, UserLogsOff, UserSwitches, vars
  <2>2. main' = main /\ handler' = handler
    BY <2>1
  <2>3. status' = "running" => main'.pc \in {"started", "wait"}
    BY <2>1 DEF StartedInv, Alone
  <2> QED
    BY <2>1, <2>2, <2>3, StartedKept
<1> QED
  BY <1>1, <1>2, <1>3, StartedMain, StartedInSession DEF Next

\* No session object is started twice, nor while or after it is stopped, however
\* OnStart, the notifications, pauses and the stop overlap and whoever drops the
\* last reference; and a logoff stops no session that has not been started.
THEOREM StartedOnce == Spec => []SessionStartedOnce
<1>1. StartedInv => SessionStartedOnce
  BY DEF StartedInv
<1> QED
  BY <1>1, TypeInvHolds, StartedInit, StartedStep, PTL DEF Spec

-----------------------------------------------------------------------------
(* The sessions that are logged on are served *)

Named(s) == \E i \in 1..Len(notices) : notices[i].sid = s
LastOf(i) == \A j \in 1..Len(notices) : j > i => notices[j].sid # notices[i].sid

\* The last notification of a session under way tells whether it is logged on.
LastTells == \A i \in 1..Len(notices) :
                 LastOf(i) => (notices[i].kind = "logon" <=> notices[i].sid \in loggedOn)

\* What the service will make of the session once the handler is done.
WillServe(s) == IF handler.sid = s /\ handler.pc \in {"logon", "logoff"}
                THEN handler.pc = "logon"
                ELSE s \in Served

\* From the enumeration on, and until the service pauses or stops, a session of
\* which no notification is under way, and which the service has heard the latest
\* of, is served if and only if it is logged on, or will be when the handler is done.
Settled == Starting \/ status = "running" =>
               \A s \in Sessions \ missed : Named(s) \/ (WillServe(s) <=> s \in loggedOn)

ServedInv == LastTells /\ Settled

\* A notification that is taken leaves the others in their order.
LEMMA QueueTaken ==
    ASSUME TypeOK, notices # <<>>, notices' = Tail(notices)
    PROVE  /\ Len(notices) \in Nat \ {0}
           /\ Len(notices') = Len(notices) - 1
           /\ \A i \in 1..Len(notices') : notices'[i] = notices[i + 1]
           /\ Head(notices) = notices[1]
BY DEF TypeOK

\* A notification that is added is the last.
LEMMA QueueAdded ==
    ASSUME TypeOK, NEW n, n \in Notices, notices' = Append(notices, n)
    PROVE  /\ Len(notices) \in Nat
           /\ Len(notices') = Len(notices) + 1
           /\ \A i \in 1..Len(notices) : notices'[i] = notices[i]
           /\ notices'[Len(notices')] = n
BY DEF TypeOK

LEMMA LastTellsTaken ==
    ASSUME TypeOK, LastTells, notices # <<>>, notices' = Tail(notices), loggedOn' = loggedOn,
           NEW n, n = Head(notices)
    PROVE  /\ LastTells'
           /\ \A s : s # n.sid /\ Named(s) => Named(s)'
           /\ ~Named(n.sid)' => (n.kind = "logon" <=> n.sid \in loggedOn)
<1> DEFINE L == Len(notices)
<1>1. L \in Nat \ {0} /\ Len(notices') = L - 1 /\ n = notices[1]
      /\ \A i \in 1..L - 1 : notices'[i] = notices[i + 1]
  BY QueueTaken
<1>2. ASSUME NEW i \in 1..L - 1, LastOf(i)'
      PROVE  notices'[i].kind = "logon" <=> notices'[i].sid \in loggedOn
  <2>1. i + 1 \in 1..L /\ notices'[i] = notices[i + 1]
    BY <1>1
  <2>2. ASSUME NEW j \in 1..L, j > i + 1
        PROVE  notices[j].sid # notices[i + 1].sid
    <3>1. j - 1 \in 1..L - 1 /\ j - 1 > i /\ (j - 1) + 1 = j
      BY <1>1, <2>2
    <3>2. notices'[j - 1] = notices[j]
      BY <1>1, <3>1
    <3>3. notices'[j - 1].sid # notices'[i].sid
      BY <1>1, <1>2, <3>1 DEF LastOf
    <3> QED
      BY <2>1, <3>2, <3>3
  <2>3. LastOf(i + 1)
    BY <2>2 DEF LastOf
  <2> QED
    BY <2>1, <2>3 DEF LastTells
<1>3. LastTells'
  BY <1>1, <1>2 DEF LastTells
<1>4. ASSUME NEW s, s # n.sid, Named(s)
      PROVE  Named(s)'
  <2>1. PICK i \in 1..L : notices[i].sid = s
    BY <1>4 DEF Named
  <2>2. i - 1 \in 1..L - 1 /\ (i - 1) + 1 = i
    BY <1>1, <1>4, <2>1
  <2>3. notices'[i - 1].sid = s
    BY <1>1, <2>1, <2>2
  <2> QED
    BY <1>1, <2>2, <2>3 DEF Named
<1>5. ASSUME ~Named(n.sid)'
      PROVE  n.kind = "logon" <=> n.sid \in loggedOn
  <2>1. ASSUME NEW j \in 1..L, j > 1
        PROVE  notices[j].sid # notices[1].sid
    <3>1. j - 1 \in 1..L - 1 /\ (j - 1) + 1 = j
      BY <1>1, <2>1
    <3>2. notices'[j - 1] = notices[j]
      BY <1>1, <3>1
    <3> QED
      BY <1>1, <1>5, <3>1, <3>2 DEF Named
  <2>2. LastOf(1) /\ 1 \in 1..L
    BY <1>1, <2>1 DEF LastOf
  <2> QED
    BY <1>1, <2>2 DEF LastTells
<1> QED
  BY <1>3, <1>4, <1>5

LEMMA LastTellsAdded ==
    ASSUME TypeOK, LastTells, NEW n, n \in Notices, notices' = Append(notices, n),
           n.kind = "logon" <=> n.sid \in loggedOn',
           \A s : s # n.sid => (s \in loggedOn' <=> s \in loggedOn)
    PROVE  /\ LastTells'
           /\ Named(n.sid)'
           /\ \A s : Named(s) => Named(s)'
<1> DEFINE L == Len(notices)
<1>1. L \in Nat /\ Len(notices') = L + 1 /\ notices'[L + 1] = n
      /\ \A i \in 1..L : notices'[i] = notices[i]
  BY QueueAdded
<1>2. ASSUME NEW i \in 1..L + 1, LastOf(i)'
      PROVE  notices'[i].kind = "logon" <=> notices'[i].sid \in loggedOn'
  <2>1. CASE i = L + 1
    BY <1>1, <2>1
  <2>2. CASE i # L + 1
    <3>1. i \in 1..L /\ L + 1 > i /\ L + 1 \in 1..L + 1
      BY <1>1, <2>2
    <3>2. notices'[L + 1].sid # notices'[i].sid
      BY <1>1, <1>2, <3>1 DEF LastOf
    <3>3. ASSUME NEW j \in 1..L, j > i
          PROVE  notices[j].sid # notices[i].sid
      <4>1. j \in 1..L + 1 /\ notices'[j] = notices[j] /\ notices'[i] = notices[i]
        BY <1>1, <3>1
      <4>2. notices'[j].sid # notices'[i].sid
        BY <1>1, <1>2, <3>3, <4>1 DEF LastOf
      <4> QED
        BY <4>1, <4>2
    <3>4. LastOf(i)
      BY <3>3 DEF LastOf
    <3>5. notices[i].kind = "logon" <=> notices[i].sid \in loggedOn
      BY <3>1, <3>4 DEF LastTells
    <3> QED
      BY <1>1, <3>1, <3>2, <3>5
  <2> QED
    BY <2>1, <2>2
<1>3. LastTells'
  BY <1>1, <1>2 DEF LastTells
<1>4. Named(n.sid)'
  <2>1. L + 1 \in 1..Len(notices') /\ notices'[L + 1].sid = n.sid
    BY <1>1
  <2> QED
    BY <2>1 DEF Named
<1>5. ASSUME NEW s, Named(s)
      PROVE  Named(s)'
  <2>1. PICK i \in 1..L : notices[i].sid = s
    BY <1>5 DEF Named
  <2>2. i \in 1..Len(notices') /\ notices'[i].sid = s
    BY <1>1, <2>1
  <2> QED
    BY <2>2 DEF Named
<1> QED
  BY <1>3, <1>4, <1>5

LEMMA ServedInit == Init => ServedInv
BY DEF Init, ServedInv, LastTells, Settled, Starting

\* A step that leaves Windows and its notifications alone.
LEMMA QueueStays ==
    ASSUME LastTells, UNCHANGED <<notices, loggedOn>>
    PROVE  LastTells' /\ \A s : Named(s)' <=> Named(s)
BY DEF LastTells, LastOf, Named

\* A step that changes nothing of what Settled speaks of.
LEMMA ServedKept ==
    ASSUME ServedInv, UNCHANGED <<notices, loggedOn, missed>>,
           Starting' \/ status' = "running" => Starting \/ status = "running",
           \A s \in Sessions : WillServe(s)' <=> WillServe(s)
    PROVE  ServedInv'
BY QueueStays DEF ServedInv, Settled

LEMMA ServedMain == TypeInv /\ StartedInv /\ ServedInv /\ (MainThread \/ MainHangs) => ServedInv'
<1> SUFFICES ASSUME TypeInv, StartedInv, ServedInv, MainThread \/ MainHangs
             PROVE  ServedInv'
  OBVIOUS
<1>0. main \in Mains /\ map \in Maps /\ LastTells /\ Settled
  BY TypeParts DEF TypeInv, ServedInv
<1>1. CASE StartFails \/ StopBegins \/ JobsCleared \/ StopSessions \/ StopEnds
  <2>1. ~Starting' /\ status' # "running"
    BY <1>0, <1>1 DEF StartFails, StopBegins, JobsCleared, StopSessions, StopEnds, MainTo, Mains,
       StartedInv, Alone, Starting
  <2>2. UNCHANGED <<notices, loggedOn>>
    BY <1>1 DEF StartFails, StopBegins, JobsCleared, StopSessions, StopEnds, windows
  <2> QED
    BY <1>0, <2>1, <2>2, QueueStays DEF ServedInv, Settled
<1>2. CASE StartEnumerate
  <2>1. UNCHANGED <<handler, notices, loggedOn>> /\ handler.pc \in Quiet /\ missed' = loggedOn \ active
    BY <1>2 DEF StartEnumerate, StartedInv, Alone, windows
  <2>2. \A s \in Sessions : map'[s] = IF s \in active THEN "onStart" ELSE None
    BY <1>2 DEF StartEnumerate, StartedInv, Alone
  <2>3. \A s \in Sessions : s \in Served' <=> s \in active
    BY <2>2 DEF Served, None
  <2>4. \A s \in Sessions : WillServe(s)' <=> s \in active
    BY <2>1, <2>3 DEF WillServe, Quiet
  <2>5. active \subseteq loggedOn
    BY DEF TypeInv, TypeOK
  <2> QED
    BY <1>0, <2>1, <2>4, <2>5, QueueStays DEF ServedInv, Settled
<1>3. CASE StartRunning \/ StartReturns \/ MainHangs
           \/ \E s \in Sessions : StartSession(s) \/ StartedSession(s)
  <2>1. UNCHANGED <<notices, loggedOn, handler, map, missed>>
    BY <1>3 DEF StartRunning, StartReturns, MainHangs, StartSession, StartedSession, windows
  <2>2. Starting' \/ status' = "running" => Starting \/ status = "running"
    BY <1>0, <1>3 DEF StartRunning, StartReturns, MainHangs, StartSession, StartedSession, MainTo,
       Mains, Starting
  <2>3. \A s \in Sessions : WillServe(s)' <=> WillServe(s)
    BY <2>1 DEF WillServe, Served
  <2> QED
    BY <2>1, <2>2, <2>3, ServedKept
<1> QED
  BY <1>1, <1>2, <1>3 DEF MainThread

LEMMA ServedSession == TypeInv /\ StartedInv /\ ServedInv /\ Session => ServedInv'
<1> SUFFICES ASSUME TypeInv, StartedInv, ServedInv, Session
             PROVE  ServedInv'
  OBVIOUS
<1>0. TypeOK /\ map \in Maps /\ LastTells /\ Settled /\ handler \in Handlers /\ HandlerInv
  BY TypeParts DEF TypeInv, ServedInv
<1>1. CASE SessionChange
  <2>0. PICK n : n = Head(notices)
    OBVIOUS
  <2>1. LastTells' /\ (\A s : s # n.sid /\ Named(s) => Named(s)')
        /\ (~Named(n.sid)' => (n.kind = "logon" <=> n.sid \in loggedOn))
    BY <1>0, <1>1, <2>0, LastTellsTaken DEF SessionChange
  <2>2. handler.pc = "idle" /\ UNCHANGED <<main, status, map, loggedOn>>
    BY <1>1 DEF SessionChange
  <2>3. Starting' <=> Starting
    BY <2>2 DEF Starting
  <2>4. Served' = Served
    BY <2>2 DEF Served
  <2>5. CASE status = "running"
    <3>1. handler' = [pc |-> n.kind, sid |-> n.sid, by |-> None] /\ missed' = missed \ {n.sid}
      BY <1>1, <2>0, <2>5 DEF SessionChange
    <3>2. n \in Notices
      BY <1>0, <1>1, <2>0 DEF SessionChange, TypeOK
    <3>3. n.kind \in {"logon", "logoff"}
      BY <3>2 DEF Notices
    <3>4. WillServe(n.sid)' <=> n.kind = "logon"
      BY <3>1, <3>3 DEF WillServe
    <3>5. \A s : s # n.sid => (WillServe(s)' <=> WillServe(s))
      BY <2>2, <2>4, <3>1 DEF WillServe
    <3>6. ASSUME NEW s \in Sessions \ missed'
          PROVE  Named(s)' \/ (WillServe(s)' <=> s \in loggedOn')
      <4>1. CASE s = n.sid
        BY <2>1, <2>2, <3>4, <4>1
      <4>2. CASE s # n.sid
        BY <1>0, <2>1, <2>2, <2>5, <3>1, <3>5, <3>6, <4>2 DEF Settled
      <4> QED
        BY <4>1, <4>2
    <3> QED
      BY <2>1, <3>6 DEF ServedInv, Settled
  <2>6. CASE status # "running"
    <3>1. handler' = handler /\ missed' = missed \cup {n.sid}
      BY <1>1, <2>0, <2>6 DEF SessionChange
    <3>2. \A s : WillServe(s)' <=> WillServe(s)
      BY <2>2, <2>4, <3>1 DEF WillServe
    <3> QED
      BY <1>0, <2>1, <2>2, <2>3, <3>1, <3>2 DEF ServedInv, Settled
  <2> QED
    BY <2>5, <2>6
<1>2. CASE LogonAdd
  <2>1. handler.sid \in Sessions /\ handler.pc = "logon" /\ handler'.pc \in {"start", "return"}
    BY <1>0, <1>2 DEF LogonAdd, HandlerInv, Handlers
  <2>2. handler.sid \in Served' /\ \A s \in Sessions : s # handler.sid => (s \in Served' <=> s \in Served)
    <3>1. CASE handler.sid \in Served
      BY <1>2, <3>1 DEF LogonAdd, Served
    <3>2. CASE handler.sid \notin Served
      BY <1>0, <1>2, <2>1, <3>2 DEF LogonAdd, Served, Maps, None
    <3> QED
      BY <3>1, <3>2
  <2>3. \A s \in Sessions : WillServe(s)' <=> WillServe(s)
    BY <2>1, <2>2 DEF WillServe
  <2>4. UNCHANGED <<main, status, missed, notices, loggedOn>>
    BY <1>2 DEF LogonAdd, windows
  <2> QED
    BY <2>3, <2>4, ServedKept DEF Starting
<1>3. CASE LogoffDel
  <2>1. handler.sid \in Sessions /\ handler.pc = "logoff"
    BY <1>0, <1>3 DEF LogoffDel, HandlerInv
  <2>2. handler'.pc \in {"idle", "stop"}
    <3>1. CASE handler.sid \in Served
      BY <1>0, <1>3, <3>1 DEF LogoffDel, Handlers
    <3>2. CASE handler.sid \notin Served
      BY <1>3, <3>2, HandlerNext DEF LogoffDel, Steps
    <3> QED
      BY <3>1, <3>2
  <2>3. handler.sid \notin Served' /\ \A s \in Sessions : s # handler.sid => (s \in Served' <=> s \in Served)
    BY <1>0, <1>3, <2>1 DEF LogoffDel, Served, Maps
  <2>4. \A s \in Sessions : WillServe(s)' <=> WillServe(s)
    BY <2>1, <2>2, <2>3 DEF WillServe
  <2>5. UNCHANGED <<main, status, missed, notices, loggedOn>>
    BY <1>3 DEF LogoffDel, windows
  <2> QED
    BY <2>4, <2>5, ServedKept DEF Starting
<1>4. CASE LogonStart \/ LogonStarted \/ LogoffStop \/ HandlerReturns
  <2>1. PICK p \in {"starting", "return", "idle"} : HandlerTo(p)
    BY <1>4 DEF LogonStart, LogonStarted, LogoffStop, HandlerReturns
  <2>2. handler.pc \notin {"logon", "logoff"} /\ handler'.pc \notin {"logon", "logoff"}
    BY <1>4, <2>1, HandlerNext DEF LogonStart, LogonStarted, LogoffStop, HandlerReturns, Steps
  <2>3. UNCHANGED <<main, status, missed, notices, loggedOn, map>>
    BY <1>4 DEF LogonStart, LogonStarted, LogoffStop, HandlerReturns, windows
  <2>4. \A s \in Sessions : WillServe(s)' <=> WillServe(s)
    BY <2>2, <2>3 DEF WillServe, Served
  <2> QED
    BY <2>3, <2>4, ServedKept DEF Starting
<1> QED
  BY <1>1, <1>2, <1>3, <1>4 DEF Session

LEMMA ServedStep == TypeInv /\ StartedInv /\ ServedInv /\ [Next]_vars => ServedInv'
<1> SUFFICES ASSUME TypeInv, StartedInv, ServedInv, [Next]_vars
             PROVE  ServedInv'
  OBVIOUS
<1>0. TypeOK /\ LastTells /\ Settled
  BY DEF TypeInv, ServedInv
<1>1. CASE Pause \/ Resume \/ (\E s \in Sessions : UserSwitches(s)) \/ UNCHANGED vars
  <2>1. UNCHANGED <<notices, loggedOn, handler, map, missed, main>>
    BY <1>1 DEF Pause, Resume, UserSwitches, vars, windows
  <2>2. status' = "running" => status = "running"
    BY <1>1 DEF Pause, Resume, UserSwitches, vars
  <2>3. \A s \in Sessions : WillServe(s)' <=> WillServe(s)
    BY <2>1 DEF WillServe, Served
  <2> QED
    BY <2>1, <2>2, <2>3, ServedKept DEF Starting
<1>2. CASE Stopping
  <2>1. PICK p \in Quiet : HandlerTo(p)
    BY <1>2 DEF Stopping, Stop, StopSignal, StopReport, Quiet
  <2>2. handler.pc \notin {"logon", "logoff"} /\ handler'.pc \notin {"logon", "logoff"}
    BY <1>2, <2>1, HandlerNext DEF Stopping, Stop, StopSignal, StopReport, Steps, Quiet
  <2>3. UNCHANGED <<main, status, missed, notices, loggedOn, map>>
    BY <1>2 DEF Stopping, Stop, StopSignal, StopReport, windows
  <2>4. \A s \in Sessions : WillServe(s)' <=> WillServe(s)
    BY <2>2, <2>3 DEF WillServe, Served
  <2> QED
    BY <2>3, <2>4, ServedKept DEF Starting
<1>3. ASSUME NEW u \in Sessions, UserLogsOn(u) \/ UserLogsOff(u)
      PROVE  ServedInv'
  <2>1. PICK k \in {"logon", "logoff"} :
            /\ notices' = Append(notices, [kind |-> k, sid |-> u])
            /\ k = "logon" <=> u \in loggedOn'
            /\ \A s : s # u => (s \in loggedOn' <=> s \in loggedOn)
    BY <1>3 DEF UserLogsOn, UserLogsOff
  <2> DEFINE n == [kind |-> k, sid |-> u]
  <2>2. n \in Notices /\ n.kind = k /\ n.sid = u
    BY DEF Notices
  <2>3. notices' = Append(notices, n)
    BY <2>1
  <2> HIDE DEF n
  <2>4. LastTells' /\ Named(u)' /\ \A s : Named(s) => Named(s)'
    BY <1>0, <2>1, <2>2, <2>3, LastTellsAdded
  <2>5. UNCHANGED <<main, status, missed, handler, map>>
    BY <1>3 DEF UserLogsOn, UserLogsOff
  <2>6. \A s : WillServe(s)' <=> WillServe(s)
    BY <2>5 DEF WillServe, Served
  <2>7. Starting' <=> Starting
    BY <2>5 DEF Starting
  <2> QED
    BY <1>0, <2>1, <2>4, <2>5, <2>6, <2>7 DEF ServedInv, Settled
<1> QED
  BY <1>1, <1>2, <1>3, ServedMain, ServedSession DEF Next, Windows

\* While the service runs and nothing is under way, it serves exactly the sessions
\* that are logged on, but for those it has not heard the latest of: ignored in a
\* pause, or passed over by OnStart because they were disconnected.
THEOREM ActiveSessionsServed == Spec => []ServesActiveSessions
<1>1. TypeInv /\ ServedInv => ServesActiveSessions
  <2> SUFFICES ASSUME TypeInv, ServedInv, status = "running", handler.pc = "idle", notices = <<>>
               PROVE  Served \ missed = loggedOn \ missed
    BY DEF ServesActiveSessions
  <2>1. \A s : ~Named(s) /\ (WillServe(s) <=> s \in Served)
    BY DEF Named, WillServe
  <2>2. Served \subseteq Sessions /\ loggedOn \subseteq Sessions
    BY DEF TypeInv, TypeOK, Served
  <2> QED
    BY <2>1, <2>2 DEF ServedInv, Settled
<1> QED
  BY <1>1, TypeInvHolds, StartedInit, StartedStep, ServedInit, ServedStep, PTL DEF Spec

-----------------------------------------------------------------------------
(* What must eventually happen *)

\* The prover knows nothing of ENABLED.  What is on the left is the guard of a
\* disjunct of MainThread, or of StopSignal; the rest of it assigns, and the thread
\* is not where it was.
StepsEnabled ==
    /\ ~hung /\ main.pc \in {"start", "started", "jobs", "clearing", "stopped"} =>
           ENABLED <<MainThread>>_vars
    /\ ~hung /\ main.pc = "wait" /\ stopEvt => ENABLED <<MainThread>>_vars
    /\ handler.pc = "signal" => ENABLED <<StopSignal>>_vars

\* OnStart comes to the end of its sessions, unless the start of one hangs: they are
\* a finite set, whose size no proof here can count down.
SessionsEnd == Starting ~> (~Starting \/ hung)

\* Once the service is told to stop, the handler is on its way to signal the event,
\* or has done so.
StopInv ==
    /\ scm = "stopPending" => stopEvt \/ handler.pc = "signal"
    /\ handler.pc = "report" => stopEvt

LEMMA SessionNext ==
    ASSUME TypeInv, Session
    PROVE  handler'.pc \notin {"signal", "report"}
<1>0. handler \in Handlers
  BY TypeParts DEF TypeInv
<1>1. CASE SessionChange
  <2>1. Head(notices) \in Notices
    BY <1>1 DEF SessionChange, TypeInv, TypeOK
  <2>2. Head(notices).kind \in {"logon", "logoff"}
    BY <2>1 DEF Notices
  <2>3. handler'.pc \in {Head(notices).kind, "idle"}
    BY <1>1 DEF SessionChange
  <2> QED
    BY <2>2, <2>3
<1>2. CASE LogonAdd
  BY <1>0, <1>2 DEF LogonAdd, Handlers
<1>3. CASE LogoffDel /\ handler.sid \in Served
  BY <1>0, <1>3 DEF LogoffDel, Handlers
<1>4. CASE LogoffDel /\ handler.sid \notin Served
  BY <1>4, HandlerNext DEF LogoffDel, Steps
<1>5. CASE LogonStart \/ LogonStarted \/ LogoffStop \/ HandlerReturns
  <2>1. PICK p \in {"starting", "return", "idle"} : HandlerTo(p)
    BY <1>5 DEF LogonStart, LogonStarted, LogoffStop, HandlerReturns
  <2> QED
    BY <2>1, HandlerNext DEF Steps
<1> QED
  BY <1>1, <1>2, <1>3, <1>4, <1>5 DEF Session

LEMMA StopInvHolds == Spec => []StopInv
<1>1. Init => StopInv
  BY DEF Init, StopInv
<1>2. TypeInv /\ StopInv /\ StartedInv /\ [Next]_vars => StopInv'
  <2> SUFFICES ASSUME TypeInv, StopInv, StartedInv, [Next]_vars PROVE StopInv'
    OBVIOUS
  <2>1. CASE MainThread \/ MainHangs
    <3>1. UNCHANGED <<stopEvt, handler>> /\ scm' \in {scm, "stopped"}
      BY <2>1 DEF MainThread, MainHangs, StartFails, StartEnumerate, StartRunning, StartReturns,
         StopBegins, JobsCleared, StopSessions, StopEnds, StartSession, StartedSession
    <3> QED
      BY <3>1 DEF StopInv
  <2>2. CASE Pause \/ Resume
    BY <2>2 DEF Pause, Resume, StopInv
  <2>3. CASE Stop
    BY <2>3, HandlerNext DEF Stop, StopInv, Steps
  <2>4. CASE StopSignal
    BY <2>4 DEF StopSignal, StopInv
  <2>5. CASE StopReport
    <3>1. handler.pc = "report" /\ stopEvt' = stopEvt
      BY <2>5 DEF StopReport
    <3> QED
      BY <3>1 DEF StopInv
  <2>6. CASE Session
    <3>1. handler.pc # "signal" /\ UNCHANGED <<stopEvt, scm>>
      BY <2>6 DEF Session, SessionChange, LogonAdd, LogonStart, LogonStarted, LogoffDel, LogoffStop,
         HandlerReturns
    <3>2. handler'.pc # "report"
      BY <2>6, SessionNext
    <3> QED
      BY <3>1, <3>2 DEF StopInv
  <2>7. CASE Windows \/ UNCHANGED vars
    <3>1. UNCHANGED <<stopEvt, handler, scm>>
      BY <2>7 DEF Windows, UserLogsOn, UserLogsOff, UserSwitches, vars
    <3> QED
      BY <3>1 DEF StopInv
  <2> QED
    BY <2>1, <2>2, <2>3, <2>4, <2>5, <2>6, <2>7 DEF Next, Stopping
<1> QED
  BY <1>1, <1>2, TypeInvHolds, StartedInit, StartedStep, PTL DEF Spec

\* The main thread goes one way, and nobody takes a stop back.
At(pc) == main.pc = pc
LEMMA MainMoves ==
    ASSUME TypeInv, [Next]_vars
    PROVE  /\ At("start") => At("start")' \/ Starting' \/ At("wait")'
           /\ Starting => Starting' \/ At("started")'
           /\ At("started") => At("started")' \/ At("wait")'
           /\ At("wait") => At("wait")' \/ At("jobs")'
           /\ At("jobs") => At("jobs")' \/ At("clearing")'
           /\ At("clearing") => At("clearing")' \/ At("stopped")'
           /\ At("stopped") => At("stopped")' \/ At("end")'
           /\ stopEvt => stopEvt'
           /\ hung => hung'
           /\ handler.pc = "signal" => handler'.pc = "signal" \/ stopEvt'
           /\ StopSignal => stopEvt'
           /\ MainThread => \A pc \in {"start", "started", "wait", "jobs", "clearing", "stopped"} :
                                ~(At(pc) /\ At(pc)')
<1>0. main \in Mains
  BY TypeParts DEF TypeInv
<1>1. CASE MainThread
  <2>1. UNCHANGED <<stopEvt, hung, handler>>
    BY <1>1 DEF MainThread, StartFails, StartEnumerate, StartRunning, StartReturns, StopBegins,
       JobsCleared, StopSessions, StopEnds, StartSession, StartedSession
  <2>2. /\ At("start") => Starting' \/ At("wait")'
        /\ Starting => Starting' \/ At("started")'
        /\ At("started") => At("wait")'
        /\ At("wait") => At("jobs")'
        /\ At("jobs") => At("clearing")'
        /\ At("clearing") => At("stopped")'
        /\ At("stopped") => At("end")'
    <3>1. CASE StartFails \/ StartEnumerate
      BY <1>0, <3>1 DEF StartFails, StartEnumerate, MainTo, Mains, At, Starting
    <3>2. CASE StartRunning \/ StartReturns
      BY <1>0, <3>2 DEF StartRunning, StartReturns, MainTo, Mains, At, Starting
    <3>3. CASE StopBegins \/ JobsCleared
      BY <1>0, <3>3 DEF StopBegins, JobsCleared, MainTo, Mains, At, Starting
    <3>4. CASE StopSessions \/ StopEnds
      BY <1>0, <3>4 DEF StopSessions, StopEnds, MainTo, Mains, At, Starting
    <3>5. CASE \E s \in Sessions : StartSession(s) \/ StartedSession(s)
      BY <1>0, <3>5 DEF StartSession, StartedSession, MainTo, Mains, At, Starting
    <3> QED
      BY <1>1, <3>1, <3>2, <3>3, <3>4, <3>5 DEF MainThread
  <2>3. StopSignal => stopEvt'
    BY DEF StopSignal
  <2> QED
    BY <2>1, <2>2, <2>3 DEF At, Starting
<1>2. CASE ~MainThread
  <2>1. main' = main
    BY <1>2 DEF Next, MainHangs, Pause, Resume, Stopping, Stop, StopSignal, StopReport, Session,
       SessionChange, LogonAdd, LogonStart, LogonStarted, LogoffDel, LogoffStop, HandlerReturns,
       Windows, UserLogsOn, UserLogsOff, UserSwitches, vars
  <2>2. (stopEvt' = stopEvt \/ stopEvt' = TRUE) /\ (hung' = hung \/ hung' = TRUE)
    BY <1>2 DEF Next, MainHangs, Pause, Resume, Stopping, Stop, StopSignal, StopReport, Session,
       SessionChange, LogonAdd, LogonStart, LogonStarted, LogoffDel, LogoffStop, HandlerReturns,
       Windows, UserLogsOn, UserLogsOff, UserSwitches, vars
  <2>3. handler.pc = "signal" => handler' = handler \/ stopEvt'
    BY <1>2 DEF Next, MainHangs, Pause, Resume, Stopping, Stop, StopSignal, StopReport, Session,
       SessionChange, LogonAdd, LogonStart, LogonStarted, LogoffDel, LogoffStop, HandlerReturns,
       Windows, UserLogsOn, UserLogsOff, UserSwitches, vars
  <2>4. StopSignal => stopEvt'
    BY DEF StopSignal
  <2> QED
    BY <1>2, <2>1, <2>2, <2>3, <2>4 DEF At, Starting
<1> QED
  BY <1>1, <1>2

\* A service told to stop comes to the end of OnStop, wherever its start is, whether
\* it is paused, and whatever logons and logoffs the handler has under way, unless
\* its main thread hangs in a session or a job.
THEOREM StopsForGood == FairSpec /\ []StepsEnabled /\ SessionsEnd => StopIsFinal
<1> DEFINE Inv == TypeInv /\ StopInv
           Sig == handler.pc = "signal"
           Told == scm = "stopPending"
<1>1. FairSpec => []Inv /\ [][Next]_vars /\ WF_vars(MainThread) /\ WF_vars(StopSignal)
  BY TypeInvHolds, StopInvHolds, PTL DEF FairSpec, Spec
<1>2. Inv /\ [Next]_vars =>
          /\ At("start") => At("start")' \/ Starting' \/ At("wait")'
          /\ Starting => Starting' \/ At("started")'
          /\ At("started") => At("started")' \/ At("wait")'
          /\ At("wait") => At("wait")' \/ At("jobs")'
          /\ At("jobs") => At("jobs")' \/ At("clearing")'
          /\ At("clearing") => At("clearing")' \/ At("stopped")'
          /\ At("stopped") => At("stopped")' \/ At("end")'
          /\ stopEvt => stopEvt'
          /\ Sig => Sig' \/ stopEvt'
  BY MainMoves
<1>3. Inv /\ [Next]_vars /\ <<MainThread>>_vars =>
          /\ ~(At("start") /\ At("start")') /\ ~(At("started") /\ At("started")')
          /\ ~(At("wait") /\ At("wait")') /\ ~(At("jobs") /\ At("jobs")')
          /\ ~(At("clearing") /\ At("clearing")') /\ ~(At("stopped") /\ At("stopped")')
  BY MainMoves
<1>4. Inv /\ [Next]_vars /\ <<StopSignal>>_vars => stopEvt'
  BY MainMoves
<1>5. StepsEnabled =>
          /\ ~hung /\ At("start") => ENABLED <<MainThread>>_vars
          /\ ~hung /\ At("started") => ENABLED <<MainThread>>_vars
          /\ ~hung /\ At("wait") /\ stopEvt => ENABLED <<MainThread>>_vars
          /\ ~hung /\ At("jobs") => ENABLED <<MainThread>>_vars
          /\ ~hung /\ At("clearing") => ENABLED <<MainThread>>_vars
          /\ ~hung /\ At("stopped") => ENABLED <<MainThread>>_vars
          /\ Sig => ENABLED <<StopSignal>>_vars
  BY DEF StepsEnabled, At
<1>6. Inv => \/ At("start") \/ Starting \/ At("started") \/ At("wait") \/ At("jobs")
             \/ At("clearing") \/ At("stopped") \/ At("end")
  BY TypeParts DEF TypeInv, Mains, MainSteps, At, Starting
<1>7. Inv => (Told => stopEvt \/ Sig)
  BY DEF StopInv
<1>8. At("end") <=> main.pc = "end"
  BY DEF At
<1> HIDE DEF Sig, Told
<1>9. FairSpec /\ []StepsEnabled => (Sig ~> stopEvt)
  BY <1>1, <1>2, <1>4, <1>5, PTL
<1>10. FairSpec => [](stopEvt => []stopEvt)
  BY <1>1, <1>2, PTL
<1>11. FairSpec /\ []StepsEnabled => (At("start") ~> Starting \/ At("wait") \/ hung)
  BY <1>1, <1>2, <1>3, <1>5, PTL
<1>12. FairSpec /\ SessionsEnd => (Starting ~> At("started") \/ hung)
  BY <1>1, <1>2, PTL DEF SessionsEnd
<1>13. FairSpec /\ []StepsEnabled => (At("started") ~> At("wait") \/ hung)
  BY <1>1, <1>2, <1>3, <1>5, PTL
<1>14. FairSpec /\ []StepsEnabled => (stopEvt /\ At("wait") ~> At("jobs") \/ hung)
  BY <1>1, <1>2, <1>3, <1>5, PTL
<1>15. FairSpec /\ []StepsEnabled => (At("jobs") ~> At("clearing") \/ hung)
  BY <1>1, <1>2, <1>3, <1>5, PTL
<1>16. FairSpec /\ []StepsEnabled => (At("clearing") ~> At("stopped") \/ hung)
  BY <1>1, <1>2, <1>3, <1>5, PTL
<1>17. FairSpec /\ []StepsEnabled => (At("stopped") ~> At("end") \/ hung)
  BY <1>1, <1>2, <1>3, <1>5, PTL
<1>18. FairSpec /\ []StepsEnabled => (At("jobs") ~> At("end") \/ hung)
  BY <1>15, <1>16, <1>17, PTL
<1>19. FairSpec /\ []StepsEnabled => (stopEvt /\ At("wait") ~> At("end") \/ hung)
  BY <1>14, <1>18, PTL
<1>20. FairSpec /\ []StepsEnabled /\ SessionsEnd => (stopEvt ~> At("end") \/ hung)
  <2>1. FairSpec /\ []StepsEnabled => (stopEvt /\ At("started") ~> At("end") \/ hung)
    BY <1>10, <1>13, <1>19, PTL
  <2>2. FairSpec /\ []StepsEnabled /\ SessionsEnd => (stopEvt /\ Starting ~> At("end") \/ hung)
    BY <1>10, <1>12, <2>1, PTL
  <2>3. FairSpec /\ []StepsEnabled /\ SessionsEnd => (stopEvt /\ At("start") ~> At("end") \/ hung)
    BY <1>10, <1>11, <1>19, <2>2, PTL
  <2>4. FairSpec /\ []StepsEnabled => (At("clearing") ~> At("end") \/ hung)
    BY <1>16, <1>17, PTL
  <2>5. FairSpec => [](stopEvt => \/ (stopEvt /\ At("start")) \/ (stopEvt /\ Starting)
                                 \/ (stopEvt /\ At("started")) \/ (stopEvt /\ At("wait")) \/ At("jobs")
                                 \/ At("clearing") \/ At("stopped") \/ At("end"))
    <3>1. Inv => (stopEvt => \/ (stopEvt /\ At("start")) \/ (stopEvt /\ Starting)
                             \/ (stopEvt /\ At("started")) \/ (stopEvt /\ At("wait")) \/ At("jobs")
                             \/ At("clearing") \/ At("stopped") \/ At("end"))
      BY <1>6
    <3> QED
      BY <1>1, <3>1, PTL
  <2> QED
    BY <1>17, <1>18, <1>19, <2>1, <2>2, <2>3, <2>4, <2>5, PTL
<1>21. FairSpec /\ []StepsEnabled /\ SessionsEnd => (Told ~> At("end") \/ hung)
  BY <1>1, <1>7, <1>9, <1>20, PTL
<1> QED
  BY <1>8, <1>21, PTL DEF StopIsFinal, Told
=============================================================================
