--------------------------- MODULE FilterPort_proofs ---------------------------
(***************************************************************************)
(* Proofs of the safety properties of FilterPort for every number of       *)
(* messages, threads of nxrmfltman and workers, and that stopping ends.    *)
(***************************************************************************)
EXTENDS FilterPort, TLAPS

-----------------------------------------------------------------------------
(* Types of what the actions assign *)

Threads == [pc : {"get"}, msg : {NoCall}]
           \cup [pc : {"default", "notify", "push"}, msg : Calls]
Servers == [pc : {"none", "wait", "take", "ended"}, req : {NoCall}]
           \cup [pc : {"evaluate", "audit"}, req : Calls]

\* The variables that the actions of Start and Stop change.
StartingType ==
    /\ main \in {"load", "start", "activate", "serve", "check", "stopFiltering",
                 "signal", "join", "resetStop", "shutdown", "exit", "gone"}
    /\ heartbeat \in {"none", "start", "done"}
    /\ flt \in {"none", "created", "filtering", "workers", "started", "stopped"}
    /\ disabled \in BOOLEAN
    /\ stopEvent \in BOOLEAN
    /\ late \in BOOLEAN
    /\ running \in BOOLEAN

\* The variables that messages and requests change.
TrafficType ==
    /\ list \in Seq(Calls)
    /\ requested \in BOOLEAN
    /\ port \subseteq Calls
    /\ portThread \in [PortThreads -> Threads]
    /\ worker \in [Workers -> Servers]
    /\ call \in [Calls -> {"none", "waiting", "evaluated", "allowed", "denied"}]
    /\ replies \in [Calls -> Nat]
    /\ refused \subseteq Calls
    /\ failed \subseteq Calls

LEMMA TypeParts == TypeOK <=> StartingType /\ TrafficType
BY DEF TypeOK, StartingType, TrafficType, Threads, Servers

\* A thread that is handling a message has one, a worker with a request too.
LEMMA ThreadMessage ==
    ASSUME TrafficType, NEW t \in PortThreads, portThread[t].pc # "get"
    PROVE  /\ portThread[t].msg \in Calls
           /\ \A p \in {"default", "notify", "push"} :
                 /\ [portThread[t] EXCEPT !.pc = p] \in Threads
                 /\ [portThread[t] EXCEPT !.pc = p].msg = portThread[t].msg
                 /\ [portThread[t] EXCEPT !.pc = p].pc = p
<1>1. portThread[t] \in [pc : {"default", "notify", "push"}, msg : Calls]
  BY DEF TrafficType, Threads
<1> QED
  BY <1>1 DEF Threads

LEMMA WorkerRequest ==
    ASSUME TrafficType, NEW w \in Workers
    PROVE  /\ worker[w].pc \in {"evaluate", "audit"} => worker[w].req \in Calls
           /\ worker[w].pc \notin {"evaluate", "audit"} => worker[w].req = NoCall
           /\ \A p \in {"none", "wait", "take", "ended"} :
                 worker[w].pc \in {"none", "wait", "take", "ended"} =>
                     [worker[w] EXCEPT !.pc = p] = [pc |-> p, req |-> NoCall]
           /\ worker[w].pc = "evaluate" =>
                 [worker[w] EXCEPT !.pc = "audit"] = [pc |-> "audit", req |-> worker[w].req]
<1>1. worker[w] \in Servers
  BY DEF TrafficType
<1> QED
  BY <1>1 DEF Servers

LEMMA IdleType == Idle \in Threads
BY DEF Idle, Threads

LEMMA ReplyType ==
    ASSUME TrafficType, NEW c \in Calls, NEW a \in {"evaluated", "allowed"}, Reply(c, a)
    PROVE  /\ replies' \in [Calls -> Nat]
           /\ call' \in [Calls -> {"none", "waiting", "evaluated", "allowed", "denied"}]
           /\ replies'[c] = replies[c] + 1
           /\ \A d \in Calls \ {c} : replies'[d] = replies[d]
           /\ \A d \in Calls : call'[d] = "none" => call[d] = "none"
BY DEF TrafficType, Reply

-----------------------------------------------------------------------------
(* Type correctness *)

LEMMA TypeInit == Init => TypeOK
<1> SUFFICES ASSUME Init PROVE TypeOK
  OBVIOUS
<1>1. portThread \in [PortThreads -> Threads] /\ worker \in [Workers -> Servers]
  BY DEF Init, Threads, Servers
<1>2. call \in [Calls -> {"none", "waiting", "evaluated", "allowed", "denied"}]
      /\ replies \in [Calls -> Nat] /\ list \in Seq(Calls)
  BY DEF Init
<1> QED
  BY <1>1, <1>2, TypeParts DEF Init, StartingType, TrafficType

\* Starting and stopping leave the messages alone, but for the new workers.
LEMMA StartingStep ==
    ASSUME TypeOK, Start \/ Stop
    PROVE  /\ StartingType'
           /\ \/ UNCHANGED traffic
              \/ /\ worker' = [w \in Workers |-> [pc |-> "wait", req |-> NoCall]]
                 /\ UNCHANGED <<queue, kernel, portThread, replies, refused, failed>>
BY TypeParts DEF Start, Stop, StartingType, traffic, MainTo, MainLoad, MainActivate,
   HeartbeatKeys, FltCreate, FltCreateFails, FltStartFiltering, FltStartWorkers, FltStarted,
   MainStop, MainCheck, MainStopFiltering, MainSignal, MainJoin, MainResetStop, MainShutdown

LEMMA TypeStep == TypeOK /\ [Next]_vars => TypeOK'
<1> SUFFICES ASSUME TypeOK, [Next]_vars
             PROVE  TypeOK'
  OBVIOUS
<1>0. StartingType /\ TrafficType
  BY TypeParts
<1>1. CASE Start \/ Stop
  <2>1. [w \in Workers |-> [pc |-> "wait", req |-> NoCall]] \in [Workers -> Servers]
    BY DEF Servers
  <2>2. TrafficType'
    BY <1>0, <1>1, <2>1, StartingStep DEF TrafficType, traffic, queue, kernel
  <2> QED
    BY <1>1, <2>2, StartingStep, TypeParts DEF TypeOK, StartingType, TrafficType, Threads, Servers
<1>h. CASE HeapFails
  <2>1. StartingType'
    BY <1>0, <1>h DEF HeapFails, StartingType
  <2>2. [t \in PortThreads |-> Idle] \in [PortThreads -> Threads]
        /\ [w \in Workers |-> [pc |-> "ended", req |-> NoCall]] \in [Workers -> Servers]
    BY IdleType DEF Servers
  <2>3. call' \in [Calls -> {"none", "waiting", "evaluated", "allowed", "denied"}]
    BY <1>0, <1>h DEF HeapFails, TrafficType
  <2>4. TrafficType'
    BY <1>0, <1>h, <2>2, <2>3 DEF HeapFails, TrafficType
  <2> QED
    BY <2>1, <2>4 DEF TypeOK, StartingType, TrafficType, Threads, Servers
<1> SUFFICES ASSUME UNCHANGED <<starting, running>> \/ UNCHANGED vars,
                    ~(Start \/ Stop \/ HeapFails)
             PROVE  TrafficType'
  <2>1. UNCHANGED <<starting, running>> \/ UNCHANGED vars \/ Start \/ Stop \/ HeapFails
    BY DEF Next, Kernel, Port, Worker, Send, Timeout, PortGet, PortAllow, PortCheck, PortPush,
           WorkerWake, WorkerTake, WorkerReply, WorkerAudit, WorkerAuditFails
  <2>2. UNCHANGED <<starting, running>> => StartingType'
    BY <1>0 DEF starting, StartingType
  <2>3. UNCHANGED vars => StartingType'
    BY <1>0 DEF vars, starting, StartingType
  <2> QED
    BY <1>1, <1>h, <2>1, <2>2, <2>3 DEF TypeOK, StartingType, TrafficType, Threads, Servers
<1>2. ASSUME NEW c \in Calls, Send(c) \/ Timeout(c)
      PROVE  TrafficType'
  BY <1>0, <1>2 DEF Send, Timeout, queue, TrafficType
<1>3. ASSUME NEW t \in PortThreads, NEW c \in Calls, PortGet(t, c)
      PROVE  TrafficType'
  <2>1. [pc |-> IF disabled THEN "default" ELSE "notify", msg |-> c] \in Threads
    BY DEF Threads
  <2> QED
    BY <1>0, <1>3, <2>1 DEF PortGet, queue, TrafficType
<1>4. ASSUME NEW t \in PortThreads, PortAllow(t)
      PROVE  TrafficType'
  <2>1. portThread[t].msg \in Calls /\ Reply(portThread[t].msg, "allowed")
    BY <1>0, <1>4, ThreadMessage DEF PortAllow
  <2> QED
    BY <1>0, <1>4, <2>1, ReplyType, IdleType DEF PortAllow, queue, TrafficType
<1>5. ASSUME NEW t \in PortThreads, PortCheck(t)
      PROVE  TrafficType'
  <2>1. portThread[t].msg \in Calls /\ [portThread[t] EXCEPT !.pc = "push"] \in Threads
    BY <1>0, <1>5, ThreadMessage DEF PortCheck
  <2> QED
    BY <1>0, <1>5, <2>1, IdleType DEF PortCheck, queue, kernel, TrafficType
<1>6. ASSUME NEW t \in PortThreads, PortPush(t)
      PROVE  TrafficType'
  <2>1. portThread[t].msg \in Calls
    BY <1>0, <1>6, ThreadMessage DEF PortPush
  <2> QED
    BY <1>0, <1>6, <2>1, IdleType DEF PortPush, kernel, TrafficType
<1>7. ASSUME NEW w \in Workers, WorkerWake(w)
      PROVE  TrafficType'
  <2>1. /\ [worker[w] EXCEPT !.pc = "ended"] = [pc |-> "ended", req |-> NoCall]
        /\ [worker[w] EXCEPT !.pc = "take"] = [pc |-> "take", req |-> NoCall]
    BY <1>0, <1>7, WorkerRequest DEF WorkerWake
  <2>2. \A p \in {"ended", "take"} : [worker[w] EXCEPT !.pc = p] \in Servers
    BY <2>1 DEF Servers
  <2> QED
    BY <1>0, <1>7, <2>2 DEF WorkerWake, queue, kernel, TrafficType
<1>8. ASSUME NEW w \in Workers, WorkerTake(w)
      PROVE  TrafficType'
  <2>1. CASE list = <<>>
    <3>1. [worker[w] EXCEPT !.pc = "wait"] \in Servers
      BY <1>0, <1>8, WorkerRequest DEF WorkerTake, Servers
    <3> QED
      BY <1>0, <1>8, <2>1, <3>1 DEF WorkerTake, kernel, TrafficType
  <2>2. CASE list # <<>>
    <3>1. Head(list) \in Calls /\ Tail(list) \in Seq(Calls)
      BY <1>0, <2>2 DEF TrafficType
    <3>2. [pc |-> "evaluate", req |-> Head(list)] \in Servers
      BY <3>1 DEF Servers
    <3> QED
      BY <1>0, <1>8, <2>2, <3>1, <3>2 DEF WorkerTake, kernel, TrafficType
  <2> QED
    BY <2>1, <2>2
<1>9. ASSUME NEW w \in Workers, WorkerReply(w)
      PROVE  TrafficType'
  <2>1. worker[w].req \in Calls /\ Reply(worker[w].req, "evaluated")
    BY <1>0, <1>9, WorkerRequest DEF WorkerReply
  <2>2. [worker[w] EXCEPT !.pc = "audit"] \in Servers
    BY <1>0, <1>9, <2>1, WorkerRequest DEF WorkerReply, Servers
  <2> QED
    BY <1>0, <1>9, <2>1, <2>2, ReplyType DEF WorkerReply, queue, TrafficType
<1>10. ASSUME NEW w \in Workers, WorkerAudit(w)
       PROVE  TrafficType'
  <2>1. [pc |-> "wait", req |-> NoCall] \in Servers
    BY DEF Servers
  <2> QED
    BY <1>0, <1>10, <2>1 DEF WorkerAudit, queue, kernel, TrafficType
<1>f. ASSUME NEW w \in Workers, WorkerAuditFails(w)
      PROVE  TrafficType'
  <2>1. [pc |-> "wait", req |-> NoCall] \in Servers
    BY DEF Servers
  <2>2. worker[w].req \in Calls
    BY <1>0, <1>f, WorkerRequest DEF WorkerAuditFails
  <2>3. call' \in [Calls -> {"none", "waiting", "evaluated", "allowed", "denied"}]
    BY <1>0, <1>f DEF WorkerAuditFails, TrafficType
  <2>4. replies' \in [Calls -> Nat] /\ failed' \subseteq Calls /\ worker' \in [Workers -> Servers]
    BY <1>0, <1>f, <2>1, <2>2 DEF WorkerAuditFails, TrafficType
  <2>5. UNCHANGED <<list, requested, port, portThread, refused>>
    BY <1>f DEF WorkerAuditFails, queue
  <2> QED
    BY <1>0, <2>3, <2>4, <2>5 DEF TrafficType
<1>11. CASE UNCHANGED vars
  BY <1>0, <1>11 DEF vars, traffic, queue, kernel, TrafficType
<1> QED
  BY <1>2, <1>3, <1>4, <1>5, <1>6, <1>7, <1>8, <1>9, <1>10, <1>f, <1>11
  DEF Next, Kernel, Port, Worker

\* Every variable keeps its type.
THEOREM TypeCorrect == Spec => []TypeOK
<1> QED
  BY TypeInit, TypeStep, PTL DEF Spec

-----------------------------------------------------------------------------
(* A message is answered at most once *)

\* Where a message may be while there is something to do about it.
AtThread(c, t) == portThread[t].msg = c
AtList(c, i) == i \in 1..Len(list) /\ list[i] = c
AtWorker(c, w) == worker[w].req = c
Elsewhere(c) ==
    /\ \A t \in PortThreads : ~AtThread(c, t)
    /\ \A i \in Nat : ~AtList(c, i)
    /\ \A w \in Workers : ~AtWorker(c, w)

\* A message is nowhere before it is sent, then in at most one place, and it has
\* not been answered while it is anywhere but with the worker that audits it.
OnceInv ==
    /\ \A c \in Calls : replies[c] <= IF c \in failed THEN 2 ELSE 1
    /\ \A c \in Calls : call[c] = "none" => c \notin port /\ Elsewhere(c) /\ replies[c] = 0
    /\ \A c \in port : Elsewhere(c) /\ replies[c] = 0
    /\ \A c \in Calls, t \in PortThreads : AtThread(c, t) =>
           /\ replies[c] = 0
           /\ \A u \in PortThreads \ {t} : ~AtThread(c, u)
           /\ \A i \in Nat : ~AtList(c, i)
           /\ \A w \in Workers : ~AtWorker(c, w)
    /\ \A c \in Calls, i \in Nat : AtList(c, i) =>
           /\ replies[c] = 0
           /\ \A j \in Nat \ {i} : ~AtList(c, j)
           /\ \A w \in Workers : ~AtWorker(c, w)
    /\ \A c \in Calls, w \in Workers : AtWorker(c, w) =>
           /\ replies[c] = IF worker[w].pc = "audit" THEN 1 ELSE 0
           /\ \A v \in Workers \ {w} : ~AtWorker(c, v)

LEMMA OnceInit == Init => OnceInv
BY FilterPortConstants DEF Init, OnceInv, Elsewhere, AtThread, AtList, AtWorker

\* A step after which no message is in a new place, and none is answered.
LEMMA FewerPlaces ==
    ASSUME TypeOK, OnceInv, UNCHANGED <<port, call, replies, failed>>,
           \A d \in Calls :
               /\ \A t \in PortThreads : AtThread(d, t)' => AtThread(d, t)
               /\ \A i \in Nat : AtList(d, i)' => AtList(d, i)
               /\ \A w \in Workers : AtWorker(d, w)' => AtWorker(d, w) /\ worker'[w] = worker[w]
    PROVE  OnceInv'
<1>1. port \subseteq Calls
  BY DEF TypeOK
<1> QED
  BY <1>1 DEF OnceInv, Elsewhere

LEMMA OnceStep == TypeOK /\ OnceInv /\ [Next]_vars => OnceInv'
<1> SUFFICES ASSUME TypeOK, OnceInv, [Next]_vars
             PROVE  OnceInv'
  OBVIOUS
<1>0. StartingType /\ TrafficType
  BY TypeParts
<1> USE FilterPortConstants
<1>1. CASE Start \/ Stop
  <2>1. CASE UNCHANGED traffic
    BY <2>1, FewerPlaces DEF traffic, queue, kernel, AtThread, AtList, AtWorker
  <2>2. CASE /\ worker' = [w \in Workers |-> [pc |-> "wait", req |-> NoCall]]
             /\ UNCHANGED <<queue, kernel, portThread, replies, refused, failed>>
    <3>1. \A c \in Calls, w \in Workers : ~AtWorker(c, w)'
      BY <2>2 DEF AtWorker
    <3> QED
      BY <2>2, <3>1, FewerPlaces DEF queue, kernel, AtThread, AtList
  <2> QED
    BY <1>1, <2>1, <2>2, StartingStep
<1>2. ASSUME NEW c \in Calls, Send(c)
      PROVE  OnceInv'
  BY <1>0, <1>2 DEF Send, queue, TrafficType, OnceInv, Elsewhere, AtThread, AtList, AtWorker
<1>3. ASSUME NEW c \in Calls, Timeout(c)
      PROVE  OnceInv'
  BY <1>0, <1>3 DEF Timeout, queue, TrafficType, OnceInv, Elsewhere, AtThread, AtList, AtWorker
<1>4. ASSUME NEW t \in PortThreads, NEW c \in Calls, PortGet(t, c)
      PROVE  OnceInv'
  <2>1. \A d \in Calls, u \in PortThreads :
            AtThread(d, u)' <=> (IF u = t THEN d = c ELSE AtThread(d, u))
    BY <1>0, <1>4 DEF PortGet, TrafficType, AtThread
  <2>2. \A d \in Calls : /\ \A i \in Nat : AtList(d, i)' <=> AtList(d, i)
                         /\ \A w \in Workers : AtWorker(d, w)' <=> AtWorker(d, w)
    BY <1>4 DEF PortGet, queue, AtList, AtWorker
  <2>3. /\ c \in port /\ port' = port \ {c} /\ port \subseteq Calls
        /\ UNCHANGED <<call, replies, failed, worker>>
    BY <1>0, <1>4 DEF PortGet, TrafficType
  <2> QED
    BY <2>1, <2>2, <2>3 DEF OnceInv, Elsewhere
<1>5. ASSUME NEW t \in PortThreads, PortAllow(t)
      PROVE  OnceInv'
  <2> DEFINE m == portThread[t].msg
  <2>1. m \in Calls /\ AtThread(m, t)
    BY <1>0, <1>5, ThreadMessage DEF PortAllow, AtThread
  <2>2. \A d \in Calls, u \in PortThreads : AtThread(d, u)' => u # t /\ AtThread(d, u)
    BY <1>0, <1>5 DEF PortAllow, TrafficType, AtThread, Idle
  <2>3. \A d \in Calls : /\ \A i \in Nat : AtList(d, i)' <=> AtList(d, i)
                         /\ \A w \in Workers : AtWorker(d, w)' <=> AtWorker(d, w)
    BY <1>5 DEF PortAllow, queue, AtList, AtWorker
  <2>4. /\ replies'[m] = replies[m] + 1
        /\ \A d \in Calls \ {m} : replies'[d] = replies[d]
        /\ \A d \in Calls : call'[d] = "none" => call[d] = "none"
    BY <1>0, <1>5, <2>1, ReplyType DEF PortAllow
  <2>5. port' = port /\ port \subseteq Calls /\ UNCHANGED <<failed, worker>>
    BY <1>0, <1>5 DEF PortAllow, TrafficType
  <2> HIDE DEF m
  <2> QED
    BY <2>1, <2>2, <2>3, <2>4, <2>5 DEF OnceInv, Elsewhere
<1>6. ASSUME NEW t \in PortThreads, PortCheck(t)
      PROVE  OnceInv'
  <2>1. \A d \in Calls, u \in PortThreads : AtThread(d, u)' => AtThread(d, u)
    BY <1>0, <1>6, ThreadMessage DEF PortCheck, TrafficType, AtThread, Idle
  <2> QED
    BY <1>6, <2>1, FewerPlaces DEF PortCheck, queue, kernel, AtList, AtWorker
<1>7. ASSUME NEW t \in PortThreads, PortPush(t)
      PROVE  OnceInv'
  <2> DEFINE m == portThread[t].msg
  <2>1. m \in Calls /\ AtThread(m, t)
    BY <1>0, <1>7, ThreadMessage DEF PortPush, AtThread
  <2>2. \A d \in Calls, u \in PortThreads : AtThread(d, u)' => u # t /\ AtThread(d, u)
    BY <1>0, <1>7 DEF PortPush, TrafficType, AtThread, Idle
  <2>3. list' = Append(list, m) /\ list \in Seq(Calls)
    BY <1>0, <1>7 DEF PortPush, TrafficType
  <2>4. \A d \in Calls, i \in Nat :
            AtList(d, i)' <=> AtList(d, i) \/ (i = Len(list) + 1 /\ d = m)
    BY <2>1, <2>3 DEF AtList
  <2>5. \A d \in Calls, w \in Workers : AtWorker(d, w)' <=> AtWorker(d, w)
    BY <1>7 DEF PortPush, AtWorker
  <2>6. UNCHANGED <<port, call, replies, failed, worker>> /\ port \subseteq Calls
    BY <1>0, <1>7 DEF PortPush, kernel, TrafficType
  <2> HIDE DEF m
  <2> QED
    BY <2>1, <2>2, <2>4, <2>5, <2>6 DEF OnceInv, Elsewhere
<1>8. ASSUME NEW w \in Workers, WorkerWake(w)
      PROVE  OnceInv'
  <2>1. PICK p \in {"ended", "take"} :
            worker' = [worker EXCEPT ![w] = [pc |-> p, req |-> NoCall]]
    BY <1>0, <1>8, WorkerRequest DEF WorkerWake
  <2>2. \A d \in Calls, v \in Workers : AtWorker(d, v)' => AtWorker(d, v) /\ worker'[v] = worker[v]
    BY <1>0, <2>1 DEF TrafficType, AtWorker
  <2> QED
    BY <1>8, <2>2, FewerPlaces DEF WorkerWake, queue, kernel, AtThread, AtList
<1>9. ASSUME NEW w \in Workers, WorkerTake(w)
      PROVE  OnceInv'
  <2>1. CASE list = <<>>
    <3>1. worker' = [worker EXCEPT ![w] = [pc |-> "wait", req |-> NoCall]]
      BY <1>0, <1>9, <2>1, WorkerRequest DEF WorkerTake
    <3>2. \A d \in Calls, v \in Workers : AtWorker(d, v)' => AtWorker(d, v) /\ worker'[v] = worker[v]
      BY <1>0, <3>1 DEF TrafficType, AtWorker
    <3> QED
      BY <1>9, <2>1, <3>2, FewerPlaces DEF WorkerTake, kernel, AtThread, AtList
  <2>2. CASE list # <<>>
    <3>1. list \in Seq(Calls) /\ list' = Tail(list) /\ Head(list) \in Calls
          /\ Head(list) = list[1] /\ 1 \in 1..Len(list)
      BY <1>0, <1>9, <2>2 DEF WorkerTake, TrafficType
    <3>2. \A d \in Calls, i \in Nat : AtList(d, i)' => i + 1 \in Nat \ {1} /\ AtList(d, i + 1)
      BY <2>2, <3>1 DEF AtList
    <3>3. PICK h \in Calls : h = Head(list)
      BY <3>1
    <3>4. AtList(h, 1)
      BY <3>1, <3>3 DEF AtList
    <3>5. \A d \in Calls, t \in PortThreads : AtThread(d, t)' <=> AtThread(d, t)
      BY <1>9 DEF WorkerTake, AtThread
    <3>6. UNCHANGED <<port, call, replies>> /\ port \subseteq Calls
      BY <1>0, <1>9 DEF WorkerTake, kernel, TrafficType
    <3>7. h \notin port /\ replies[h] = 0 /\ call[h] # "none"
      BY <3>4 DEF OnceInv, Elsewhere
    <3>8. \A d \in Calls, v \in Workers :
              AtWorker(d, v)' <=> (IF v = w THEN d = h ELSE AtWorker(d, v))
      BY <1>0, <1>9, <2>2, <3>3 DEF WorkerTake, TrafficType, AtWorker
    <3>p. /\ worker'[w].pc = "evaluate"
          /\ \A v \in Workers \ {w} : worker'[v] = worker[v]
      BY <1>0, <1>9, <2>2 DEF WorkerTake, TrafficType
    <3>q. failed' = failed
      BY <1>9 DEF WorkerTake
    <3>9. \A i \in Nat : ~AtList(h, i)'
      <4>1. \A j \in Nat \ {1} : ~AtList(h, j)
        BY <3>4 DEF OnceInv
      <4> QED
        BY <3>2, <4>1
    <3>10. \A d \in Calls, i, j \in Nat : AtList(d, i)' /\ AtList(d, j)' => i = j
      <4> SUFFICES ASSUME NEW d \in Calls, NEW i \in Nat, NEW j \in Nat,
                          AtList(d, i)', AtList(d, j)'
                   PROVE  i = j
        OBVIOUS
      <4>1. AtList(d, i + 1) /\ AtList(d, j + 1)
        BY <3>2
      <4>2. i + 1 = j + 1
        BY <4>1 DEF OnceInv
      <4> QED
        BY <4>2
    <3>11. \A d \in Calls, i \in Nat : AtList(d, i)' =>
               /\ d # h /\ d \notin port /\ call[d] # "none" /\ replies[d] = 0
               /\ \A t \in PortThreads : ~AtThread(d, t)
               /\ \A v \in Workers : ~AtWorker(d, v)
      <4> SUFFICES ASSUME NEW d \in Calls, NEW i \in Nat, AtList(d, i)'
                   PROVE  /\ d # h /\ d \notin port /\ call[d] # "none" /\ replies[d] = 0
                          /\ \A t \in PortThreads : ~AtThread(d, t)
                          /\ \A v \in Workers : ~AtWorker(d, v)
        OBVIOUS
      <4>1. i + 1 \in Nat /\ AtList(d, i + 1)
        BY <3>2
      <4>2. d # h
        BY <3>9
      <4>3. /\ replies[d] = 0
            /\ \A v \in Workers : ~AtWorker(d, v)
        BY <4>1 DEF OnceInv
      <4>4. ~Elsewhere(d)
        BY <4>1 DEF Elsewhere
      <4>5. d \notin port /\ call[d] # "none"
        BY <4>4 DEF OnceInv
      <4>6. \A t \in PortThreads : ~AtThread(d, t)
        BY <4>1 DEF OnceInv
      <4> QED
        BY <4>2, <4>3, <4>5, <4>6
    <3> QED
      BY <3>4, <3>5, <3>6, <3>7, <3>8, <3>9, <3>10, <3>11, <3>p, <3>q DEF OnceInv, Elsewhere
  <2> QED
    BY <2>1, <2>2
<1>10. ASSUME NEW w \in Workers, WorkerReply(w)
       PROVE  OnceInv'
  <2> DEFINE r == worker[w].req
  <2>1. r \in Calls /\ AtWorker(r, w) /\ worker[w].pc = "evaluate"
    BY <1>0, <1>10, WorkerRequest DEF WorkerReply, AtWorker
  <2>2. /\ \A d \in Calls, v \in Workers : AtWorker(d, v)' <=> AtWorker(d, v)
        /\ worker'[w].pc = "audit"
        /\ \A v \in Workers \ {w} : worker'[v] = worker[v]
    BY <1>0, <1>10, WorkerRequest DEF WorkerReply, TrafficType, AtWorker
  <2>3. \A d \in Calls : /\ \A i \in Nat : AtList(d, i)' <=> AtList(d, i)
                         /\ \A t \in PortThreads : AtThread(d, t)' <=> AtThread(d, t)
    BY <1>10 DEF WorkerReply, queue, AtList, AtThread
  <2>4. /\ replies'[r] = replies[r] + 1
        /\ \A d \in Calls \ {r} : replies'[d] = replies[d]
        /\ \A d \in Calls : call'[d] = "none" => call[d] = "none"
    BY <1>0, <1>10, <2>1, ReplyType DEF WorkerReply
  <2>5. port' = port /\ port \subseteq Calls /\ failed' = failed
    BY <1>0, <1>10 DEF WorkerReply, TrafficType
  <2>6. \A d \in Calls : AtWorker(d, w) => d = r
    BY DEF AtWorker
  <2> HIDE DEF r
  <2>7. /\ replies[r] = 0 /\ r \notin port /\ call[r] # "none"
        /\ \A t \in PortThreads : ~AtThread(r, t)
        /\ \A i \in Nat : ~AtList(r, i)
        /\ \A v \in Workers \ {w} : ~AtWorker(r, v)
    BY <2>1 DEF OnceInv, Elsewhere
  <2> QED
    BY <2>1, <2>2, <2>3, <2>4, <2>5, <2>6, <2>7 DEF OnceInv, Elsewhere
<1>11. ASSUME NEW w \in Workers, WorkerAudit(w)
       PROVE  OnceInv'
  <2>1. \A d \in Calls, v \in Workers : AtWorker(d, v)' => AtWorker(d, v) /\ worker'[v] = worker[v]
    BY <1>0, <1>11 DEF WorkerAudit, TrafficType, AtWorker
  <2> QED
    BY <1>11, <2>1, FewerPlaces DEF WorkerAudit, queue, kernel, AtThread, AtList
<1>f. ASSUME NEW w \in Workers, WorkerAuditFails(w)
      PROVE  OnceInv'
  <2> DEFINE r == worker[w].req
  <2>1. r \in Calls /\ AtWorker(r, w) /\ worker[w].pc = "audit"
    BY <1>0, <1>f, WorkerRequest DEF WorkerAuditFails, AtWorker
  <2>2. \A d \in Calls, v \in Workers :
            AtWorker(d, v)' => v # w /\ AtWorker(d, v) /\ worker'[v] = worker[v]
    BY <1>0, <1>f DEF WorkerAuditFails, TrafficType, AtWorker
  <2>3. \A d \in Calls : /\ \A i \in Nat : AtList(d, i)' <=> AtList(d, i)
                         /\ \A t \in PortThreads : AtThread(d, t)' <=> AtThread(d, t)
    BY <1>f DEF WorkerAuditFails, queue, AtList, AtThread
  <2>4. /\ replies'[r] = replies[r] + 1
        /\ \A d \in Calls \ {r} : replies'[d] = replies[d]
        /\ failed' = failed \cup {r}
    BY <1>0, <1>f, <2>1 DEF WorkerAuditFails, TrafficType
  <2>5. \A d \in Calls : call'[d] = "none" => call[d] = "none"
    BY <1>0, <1>f DEF WorkerAuditFails, TrafficType
  <2>6. port' = port /\ port \subseteq Calls
    BY <1>0, <1>f DEF WorkerAuditFails, TrafficType
  <2> HIDE DEF r
  <2>7. /\ replies[r] = 1 /\ r \notin port /\ call[r] # "none"
        /\ \A t \in PortThreads : ~AtThread(r, t)
        /\ \A i \in Nat : ~AtList(r, i)
        /\ \A v \in Workers \ {w} : ~AtWorker(r, v)
    BY <2>1 DEF OnceInv, Elsewhere
  <2> QED
    BY <2>1, <2>2, <2>3, <2>4, <2>5, <2>6, <2>7 DEF OnceInv, Elsewhere
<1>h. CASE HeapFails
  <2>1. port' = {} /\ replies' = replies /\ failed' = failed /\ list' = <<>>
    BY <1>h DEF HeapFails
  <2>2. \A d \in Calls : /\ \A t \in PortThreads : ~AtThread(d, t)'
                         /\ \A w \in Workers : ~AtWorker(d, w)'
    BY <1>h DEF HeapFails, Idle, AtThread, AtWorker
  <2>3. \A d \in Calls : \A i \in Nat : ~AtList(d, i)'
    BY <2>1 DEF AtList
  <2>4. \A d \in Calls : call'[d] = "none" => call[d] = "none"
    BY <1>0, <1>h DEF HeapFails, TrafficType
  <2> QED
    BY <2>1, <2>2, <2>3, <2>4 DEF OnceInv, Elsewhere
<1>12. CASE UNCHANGED vars
  BY <1>12, FewerPlaces DEF vars, traffic, queue, kernel, AtThread, AtList, AtWorker
<1> QED
  BY <1>1, <1>2, <1>3, <1>4, <1>5, <1>6, <1>7, <1>8, <1>9, <1>10, <1>11, <1>12, <1>f, <1>h
  DEF Next, Kernel, Port, Worker

\* No message is answered twice, neither by nxrmfltman and the service nor by two
\* workers, but by the worker whose audit throws, and by nobody three times.
THEOREM AnsweredOnce == Spec => []RepliedOnce
<1>1. OnceInv => RepliedOnce
  BY DEF OnceInv, RepliedOnce
<1> QED
  BY <1>1, TypeCorrect, OnceInit, OnceStep, PTL DEF Spec

-----------------------------------------------------------------------------
(* Quiet after the stop *)

\* serv_flt stays started until stop() is over, and once it has been stopped
\* nobody starts it again.
QuietInv ==
    /\ main \in {"stopFiltering", "signal", "join", "resetStop"} => flt = "started"
    /\ main = "resetStop" => \A w \in Workers : worker[w].pc = "ended"
    /\ main \in {"shutdown", "exit", "gone"} /\ ~late =>
           /\ flt = "stopped"
           /\ \A w \in Workers : worker[w].pc = "ended"

LEMMA QuietInit == Init => QuietInv
BY DEF Init, QuietInv

\* A worker that has ended does nothing.
LEMMA EndedStays ==
    ASSUME TypeOK, Kernel \/ (\E t \in PortThreads : Port(t)) \/ (\E w \in Workers : Worker(w))
    PROVE  /\ UNCHANGED <<starting, running>>
           /\ \A w \in Workers : worker[w].pc = "ended" => worker'[w].pc = "ended"
<1>0. StartingType /\ TrafficType
  BY TypeParts
<1>1. CASE Kernel \/ (\E t \in PortThreads : Port(t))
  BY <1>1 DEF Kernel, Port, Send, Timeout, PortGet, PortAllow, PortCheck, PortPush
<1>2. ASSUME NEW v \in Workers, Worker(v)
      PROVE  /\ UNCHANGED <<starting, running>>
             /\ worker[v].pc # "ended"
             /\ \A w \in Workers \ {v} : worker'[w] = worker[w]
  BY <1>0, <1>2 DEF Worker, WorkerWake, WorkerTake, WorkerReply, WorkerAudit, WorkerAuditFails,
     TrafficType
<1> QED
  BY <1>1, <1>2

\* The heap ends the process: nothing of it is left.
LEMMA HeapEnds ==
    ASSUME HeapFails
    PROVE  /\ main' = "gone" /\ heartbeat' = "done" /\ flt' = "stopped" /\ late' = late
           /\ \A w \in Workers : worker'[w].pc = "ended"
BY DEF HeapFails

LEMMA QuietStep == TypeOK /\ QuietInv /\ [Next]_vars => QuietInv'
<1> SUFFICES ASSUME TypeOK, QuietInv, [Next]_vars
             PROVE  QuietInv'
  OBVIOUS
<1>1. CASE Start
  BY <1>1 DEF Start, MainTo, MainLoad, MainActivate, HeartbeatKeys, FltCreate, FltCreateFails,
              FltStartFiltering, FltStartWorkers, FltStarted, Starter, QuietInv, traffic
<1>2. CASE Stop
  BY <1>2 DEF Stop, MainTo, MainStop, MainCheck, MainStopFiltering, MainSignal, MainJoin,
              MainResetStop, MainShutdown, QuietInv, traffic
<1>3. CASE Kernel \/ (\E t \in PortThreads : Port(t)) \/ (\E w \in Workers : Worker(w))
  BY <1>3, EndedStays DEF starting, QuietInv
<1>h. CASE HeapFails
  BY <1>h, HeapEnds DEF QuietInv
<1>4. CASE UNCHANGED vars
  BY <1>4 DEF vars, starting, traffic, QuietInv
<1> QED
  BY <1>1, <1>2, <1>3, <1>4, <1>h DEF Next

\* When OnStop has stopped serv_flt, no worker is left to use what OnStop takes
\* down next.
THEOREM WorkersGone == Spec => []QuietAfterStop
<1>1. QuietInv => QuietAfterStop
  BY DEF QuietInv, QuietAfterStop
<1> QED
  BY <1>1, TypeCorrect, QuietInit, QuietStep, PTL DEF Spec

-----------------------------------------------------------------------------
(* What must eventually happen *)

\* The steps of OnStop, of the destructor and of serv_flt::stop.
StopSteps == MainCheck \/ MainStopFiltering \/ MainSignal \/ MainJoin
             \/ MainResetStop \/ MainShutdown
AllEnded == \A w \in Workers : worker[w].pc = "ended"
Asked(w) == worker[w].pc = "wait" /\ (stopEvent \/ requested)
Busy(w) == worker[w].pc \in {"take", "evaluate", "audit"}

\* The prover knows nothing of ENABLED.  What is on the left is the guard of a
\* disjunct of the action, the rest of it assigns, and main, flt or the worker is
\* not what it was.
StepsEnabled ==
    /\ main \in {"check", "stopFiltering", "signal", "resetStop", "exit"} => ENABLED <<StopSteps>>_vars
    /\ main = "join" /\ AllEnded => ENABLED <<StopSteps>>_vars
    /\ main = "shutdown" /\ heartbeat # "start" => ENABLED <<StopSteps>>_vars
    /\ heartbeat = "start" /\ flt \in {"none", "created", "filtering", "workers"} => ENABLED <<Start>>_vars
    /\ \A w \in Workers : Asked(w) \/ Busy(w) => ENABLED <<Worker(w)>>_vars

\* The heartbeat that brings the first keys is in serv_flt::start; a worker that
\* must end sees the stop event; and every worker there is has its thread.
StopInv ==
    /\ heartbeat = "start" => flt \in {"none", "created", "filtering", "workers"}
    /\ main = "join" => stopEvent
    /\ flt \in {"workers", "started"} => \A w \in Workers : worker[w].pc # "none"

LEMMA WorkerStays ==
    ASSUME TypeOK, Kernel \/ (\E t \in PortThreads : Port(t)) \/ (\E w \in Workers : Worker(w))
    PROVE  \A w \in Workers : worker[w].pc # "none" => worker'[w].pc # "none"
<1>0. StartingType /\ TrafficType
  BY TypeParts
<1>1. CASE Kernel \/ (\E t \in PortThreads : Port(t))
  BY <1>1 DEF Kernel, Port, Send, Timeout, PortGet, PortAllow, PortCheck, PortPush
<1>2. ASSUME NEW v \in Workers, Worker(v)
      PROVE  /\ worker'[v].pc # "none"
             /\ \A w \in Workers \ {v} : worker'[w] = worker[w]
  <2>1. worker[v] \in Servers /\ worker \in [Workers -> Servers]
    BY <1>0 DEF TrafficType
  <2>2. CASE WorkerWake(v)
    BY <2>1, <2>2 DEF WorkerWake, Servers
  <2>3. CASE WorkerTake(v)
    BY <2>1, <2>3 DEF WorkerTake, Servers
  <2>4. CASE WorkerReply(v)
    BY <2>1, <2>4 DEF WorkerReply, Servers
  <2>5. CASE WorkerAudit(v) \/ WorkerAuditFails(v)
    BY <2>1, <2>5 DEF WorkerAudit, WorkerAuditFails, Servers
  <2> QED
    BY <1>2, <2>2, <2>3, <2>4, <2>5 DEF Worker
<1> QED
  BY <1>1, <1>2

LEMMA StopInvHolds == Spec => [](TypeOK /\ QuietInv /\ StopInv)
<1>1. Init => StopInv
  BY DEF Init, StopInv
<1>2. TypeOK /\ QuietInv /\ StopInv /\ [Next]_vars => StopInv'
  <2> SUFFICES ASSUME TypeOK, QuietInv, StopInv, [Next]_vars PROVE StopInv'
    OBVIOUS
  <2>1. CASE Start
    BY <2>1 DEF Start, MainTo, MainLoad, MainActivate, HeartbeatKeys, FltCreate, FltCreateFails,
                FltStartFiltering, FltStartWorkers, FltStarted, Starter, StopInv, QuietInv, traffic
  <2>2. CASE Stop
    BY <2>2 DEF Stop, MainTo, MainStop, MainCheck, MainStopFiltering, MainSignal, MainJoin,
                MainResetStop, MainShutdown, StopInv, QuietInv, traffic
  <2>3. CASE Kernel \/ (\E t \in PortThreads : Port(t)) \/ (\E w \in Workers : Worker(w))
    BY <2>3, EndedStays, WorkerStays DEF starting, StopInv
  <2>h. CASE HeapFails
    BY <2>h, HeapEnds DEF StopInv
  <2>4. CASE UNCHANGED vars
    BY <2>4 DEF vars, starting, traffic, StopInv
  <2> QED
    BY <2>1, <2>2, <2>3, <2>4, <2>h DEF Next
<1> QED
  BY <1>1, <1>2, TypeCorrect, QuietInit, QuietStep, PTL DEF Spec

StopsInv == TypeOK /\ QuietInv /\ StopInv

\* The thread that stops the service: it stops serv_flt once at most.
At(pc) == main = pc

LEMMA StopMoves ==
    ASSUME StopsInv, [Next]_vars
    PROVE  /\ At("check") => At("check")' \/ At("stopFiltering")' \/ At("shutdown")' \/ At("gone")'
           /\ At("stopFiltering") => At("stopFiltering")' \/ At("signal")' \/ At("gone")'
           /\ At("signal") => At("signal")' \/ At("join")' \/ At("gone")'
           /\ At("join") => At("join")' \/ At("resetStop")' \/ At("gone")'
           /\ At("resetStop") => At("resetStop")' \/ At("gone")' \/ (~late /\ At("shutdown")')
           /\ At("shutdown") => At("shutdown")' \/ At("exit")' \/ At("gone")'
           /\ At("exit") => At("exit")' \/ At("gone")' \/ (late /\ At("stopFiltering")')
           /\ ~At("check") => late' = late
           /\ StopSteps => main' # main
<1>1. CASE Start
  BY <1>1 DEF Start, MainTo, MainLoad, MainActivate, HeartbeatKeys, FltCreate, FltCreateFails,
              FltStartFiltering, FltStartWorkers, FltStarted, Starter, StopsInv, QuietInv, At,
              StopSteps, MainCheck, MainStopFiltering, MainSignal, MainJoin, MainResetStop, MainShutdown
<1>2. CASE Stop
  <2>1. CASE MainStop
    BY <2>1 DEF MainStop, MainTo, At, StopSteps, MainCheck, MainStopFiltering, MainSignal, MainJoin,
                MainResetStop, MainShutdown
  <2>2. CASE MainCheck
    BY <2>2 DEF MainCheck, StopsInv, QuietInv, At, TypeOK
  <2>3. CASE MainStopFiltering \/ MainSignal \/ MainJoin \/ MainShutdown
    BY <2>3 DEF MainStopFiltering, MainSignal, MainJoin, MainShutdown, MainTo, At
  <2>4. CASE MainResetStop
    BY <2>4 DEF MainResetStop, MainTo, At
  <2> QED
    BY <1>2, <2>1, <2>2, <2>3, <2>4 DEF Stop
<1>3. CASE Kernel \/ (\E t \in PortThreads : Port(t)) \/ (\E w \in Workers : Worker(w)) \/ UNCHANGED vars
  <2>1. UNCHANGED <<main, late>>
    BY <1>3, EndedStays DEF starting, vars, StopsInv
  <2> QED
    BY <2>1 DEF At, StopSteps, MainTo, MainCheck, MainStopFiltering, MainSignal, MainJoin,
                MainResetStop, MainShutdown
<1>4. CASE HeapFails
  <2>1. main # "gone" /\ main' = "gone" /\ late' = late
    BY <1>4 DEF HeapFails
  <2> QED
    BY <2>1 DEF At
<1> QED
  BY <1>1, <1>2, <1>3, <1>4 DEF Next

\* The heartbeat's start of serv_flt, while the main thread waits for its thread.
Bringing(f) == heartbeat = "start" /\ flt = f

LEMMA BringingMoves ==
    ASSUME StopsInv, [Next]_vars, At("shutdown"), At("shutdown")'
    PROVE  /\ Bringing("none") => Bringing("none")' \/ Bringing("created")' \/ (heartbeat = "done")'
           /\ Bringing("created") => Bringing("created")' \/ Bringing("filtering")'
           /\ Bringing("filtering") => Bringing("filtering")' \/ Bringing("workers")'
           /\ Bringing("workers") => Bringing("workers")' \/ (heartbeat = "done")'
           /\ heartbeat = "done" => (heartbeat = "done")'
           /\ Start => /\ ~(Bringing("none") /\ Bringing("none")')
                       /\ ~(Bringing("created") /\ Bringing("created")')
                       /\ ~(Bringing("filtering") /\ Bringing("filtering")')
                       /\ ~(Bringing("workers") /\ Bringing("workers")')
<1>1. CASE Start
  BY <1>1 DEF Start, MainTo, MainLoad, MainActivate, HeartbeatKeys, FltCreate, FltCreateFails,
              FltStartFiltering, FltStartWorkers, FltStarted, Starter, At, Bringing, traffic
<1>2. CASE ~Start
  <2>1. CASE Stop
    <3>1. UNCHANGED <<heartbeat, flt>>
      BY <2>1 DEF Stop, MainTo, MainStop, MainCheck, MainStopFiltering, MainSignal, MainJoin,
                  MainResetStop, MainShutdown, At
    <3> QED
      BY <1>2, <3>1 DEF Bringing
  <2>2. CASE Kernel \/ (\E t \in PortThreads : Port(t)) \/ (\E w \in Workers : Worker(w)) \/ UNCHANGED vars
    <3>1. UNCHANGED <<heartbeat, flt>>
      BY <2>2, EndedStays DEF starting, vars, StopsInv
    <3> QED
      BY <1>2, <3>1 DEF Bringing
  <2>3. CASE HeapFails
    BY <2>3, HeapEnds DEF At
  <2> QED
    BY <1>2, <2>1, <2>2, <2>3 DEF Next
<1> QED
  BY <1>1, <1>2

\* A worker finishes its request and ends, once the stop event is set.
Doing(w, pc) == worker[w].pc = pc

LEMMA WorkerMoves ==
    ASSUME StopsInv, [Next]_vars, At("join"), At("join")', NEW w \in Workers
    PROVE  /\ Doing(w, "wait") => Doing(w, "wait")' \/ Doing(w, "ended")'
           /\ Doing(w, "take") => Doing(w, "take")' \/ Doing(w, "evaluate")' \/ Doing(w, "wait")'
           /\ Doing(w, "evaluate") => Doing(w, "evaluate")' \/ Doing(w, "audit")'
           /\ Doing(w, "audit") => Doing(w, "audit")' \/ Doing(w, "wait")'
           /\ Doing(w, "ended") => Doing(w, "ended")'
           /\ Worker(w) => /\ ~(Doing(w, "wait") /\ Doing(w, "wait")')
                           /\ ~(Doing(w, "take") /\ Doing(w, "take")')
                           /\ ~(Doing(w, "evaluate") /\ Doing(w, "evaluate")')
                           /\ ~(Doing(w, "audit") /\ Doing(w, "audit")')
<1>0. /\ StartingType /\ TrafficType /\ main = "join" /\ flt = "started" /\ stopEvent
      /\ worker[w] \in Servers /\ worker \in [Workers -> Servers]
  BY TypeParts DEF StopsInv, QuietInv, StopInv, At, TrafficType
<1>1. CASE Worker(w)
  <2>1. CASE WorkerWake(w)
    BY <1>0, <2>1 DEF WorkerWake, Servers, Doing
  <2>2. CASE WorkerTake(w)
    BY <1>0, <2>2 DEF WorkerTake, Servers, Doing
  <2>3. CASE WorkerReply(w)
    BY <1>0, <2>3 DEF WorkerReply, Servers, Doing
  <2>4. CASE WorkerAudit(w) \/ WorkerAuditFails(w)
    BY <1>0, <2>4 DEF WorkerAudit, WorkerAuditFails, Servers, Doing
  <2> QED
    BY <1>1, <2>1, <2>2, <2>3, <2>4 DEF Worker
<1>2. CASE ~Worker(w)
  <2>1. worker'[w] = worker[w]
    <3>1. CASE Start
      BY <1>0, <3>1 DEF Start, MainTo, MainLoad, MainActivate, HeartbeatKeys, FltCreate, FltCreateFails,
              FltStartFiltering, FltStartWorkers, FltStarted, Starter, traffic
    <3>2. CASE Stop
      BY <3>2 DEF Stop, MainTo, MainStop, MainCheck, MainStopFiltering, MainSignal, MainJoin,
              MainResetStop, MainShutdown, traffic
    <3>3. CASE Kernel \/ (\E t \in PortThreads : Port(t)) \/ UNCHANGED vars
      BY <3>3 DEF Kernel, Port, Send, Timeout, PortGet, PortAllow, PortCheck, PortPush, vars, traffic
    <3>4. ASSUME NEW v \in Workers \ {w}, Worker(v) PROVE worker'[w] = worker[w]
      BY <1>0, <3>4 DEF Worker, WorkerWake, WorkerTake, WorkerReply, WorkerAudit, WorkerAuditFails
    <3>5. ~HeapFails
      BY HeapEnds DEF At
    <3> QED
      BY <1>2, <3>1, <3>2, <3>3, <3>4, <3>5 DEF Next
  <2> QED
    BY <1>2, <2>1 DEF Doing
<1> QED
  BY <1>1, <1>2

LEMMA FairStops ==
    FairSpec => []StopsInv /\ [][Next]_vars /\ WF_vars(Start) /\ WF_vars(StopSteps)
BY StopInvHolds, PTL DEF FairSpec, Spec, StopsInv, StopSteps

WorkerFair(w) == WF_vars(Worker(w))

LEMMA WorkersFair == FairSpec => (\A w \in Workers : WorkerFair(w))
BY PTL DEF FairSpec, WorkerFair

\* A worker that stop() waits for ends, whatever request it has.
Leaves(w) == <>[](worker[w].pc = "ended")
JoinsForEver == <>[](main = "join")

LEMMA WorkerEnds ==
    ASSUME NEW w \in Workers
    PROVE  FairSpec /\ []StepsEnabled /\ JoinsForEver => Leaves(w)
<1>1. FairSpec => []StopsInv /\ [][Next]_vars /\ WF_vars(Worker(w))
  <2>1. FairSpec => WorkerFair(w)
    BY WorkersFair
  <2> QED
    BY <2>1, FairStops, PTL DEF WorkerFair
<1>2. StopsInv /\ [Next]_vars /\ At("join") /\ At("join")' =>
          /\ Doing(w, "wait") => Doing(w, "wait")' \/ Doing(w, "ended")'
          /\ Doing(w, "take") => Doing(w, "take")' \/ Doing(w, "evaluate")' \/ Doing(w, "wait")'
          /\ Doing(w, "evaluate") => Doing(w, "evaluate")' \/ Doing(w, "audit")'
          /\ Doing(w, "audit") => Doing(w, "audit")' \/ Doing(w, "wait")'
          /\ Doing(w, "ended") => Doing(w, "ended")'
  BY WorkerMoves
<1>3. StopsInv /\ [Next]_vars /\ At("join") /\ At("join")' /\ <<Worker(w)>>_vars =>
          /\ ~(Doing(w, "wait") /\ Doing(w, "wait")')
          /\ ~(Doing(w, "take") /\ Doing(w, "take")')
          /\ ~(Doing(w, "evaluate") /\ Doing(w, "evaluate")')
          /\ ~(Doing(w, "audit") /\ Doing(w, "audit")')
  BY WorkerMoves
<1>4. StopsInv /\ StepsEnabled /\ At("join") =>
          /\ Doing(w, "wait") => ENABLED <<Worker(w)>>_vars
          /\ Doing(w, "take") => ENABLED <<Worker(w)>>_vars
          /\ Doing(w, "evaluate") => ENABLED <<Worker(w)>>_vars
          /\ Doing(w, "audit") => ENABLED <<Worker(w)>>_vars
  BY DEF StepsEnabled, StopsInv, StopInv, At, Doing, Asked, Busy
<1>5. StopsInv /\ At("join") => \/ Doing(w, "wait") \/ Doing(w, "take") \/ Doing(w, "evaluate")
                                \/ Doing(w, "audit") \/ Doing(w, "ended")
  <2>1. StopsInv => worker[w] \in Servers
    BY TypeParts DEF StopsInv, TrafficType
  <2> QED
    BY <2>1 DEF StopsInv, StopInv, QuietInv, At, Doing, Servers
<1>6. /\ At("join") <=> main = "join"
      /\ Doing(w, "ended") <=> worker[w].pc = "ended"
  BY DEF At, Doing
<1>7. FairSpec /\ []StepsEnabled => (Doing(w, "wait") ~> Doing(w, "ended") \/ ~At("join"))
  BY <1>1, <1>2, <1>3, <1>4, PTL
<1>8. FairSpec /\ []StepsEnabled => (Doing(w, "audit") ~> Doing(w, "wait") \/ ~At("join"))
  BY <1>1, <1>2, <1>3, <1>4, PTL
<1>9. FairSpec /\ []StepsEnabled => (Doing(w, "evaluate") ~> Doing(w, "audit") \/ ~At("join"))
  BY <1>1, <1>2, <1>3, <1>4, PTL
<1>10. FairSpec /\ []StepsEnabled =>
           (Doing(w, "take") ~> Doing(w, "evaluate") \/ Doing(w, "wait") \/ ~At("join"))
  BY <1>1, <1>2, <1>3, <1>4, PTL
<1>11. FairSpec /\ []StepsEnabled /\ <>[]At("join") => <>Doing(w, "ended")
  BY <1>1, <1>5, <1>7, <1>8, <1>9, <1>10, PTL
<1>12. FairSpec /\ []StepsEnabled /\ <>[]At("join") => []<>Doing(w, "ended")
  BY <1>1, <1>5, <1>7, <1>8, <1>9, <1>10, PTL
<1> QED
  BY <1>1, <1>2, <1>6, <1>12, PTL DEF Leaves, JoinsForEver

\* The workers are finitely many: when each of them has ended for good, all have.
\* No proof here can count them.
Together == (\A w \in Workers : Leaves(w)) => <>[]AllEnded

\* So the wait for the workers is over.
LEMMA JoinEnds ==
    FairSpec /\ []StepsEnabled /\ Together => (At("join") ~> At("resetStop") \/ At("gone"))
<1>1. FairSpec /\ []StepsEnabled /\ JoinsForEver => (\A w \in Workers : Leaves(w))
  BY WorkerEnds
<1>2. FairSpec /\ []StepsEnabled /\ Together /\ JoinsForEver => <>[]AllEnded
  BY <1>1 DEF Together
<1>3. StopsInv /\ [Next]_vars =>
          /\ At("join") => At("join")' \/ At("resetStop")' \/ At("gone")'
          /\ <<StopSteps>>_vars => ~(At("join") /\ At("join")')
  BY StopMoves DEF At
<1>4. StepsEnabled /\ At("join") /\ AllEnded => ENABLED <<StopSteps>>_vars
  BY DEF StepsEnabled, At
<1>5. At("join") <=> main = "join"
  BY DEF At
<1>6. FairSpec /\ []StepsEnabled /\ Together => ~<>[]At("join")
  BY <1>2, <1>3, <1>4, <1>5, FairStops, PTL DEF JoinsForEver
<1> QED
  BY <1>3, <1>6, FairStops, PTL

\* And so is the wait for the heartbeat's thread.
LEMMA ShutdownEnds == FairSpec /\ []StepsEnabled => (At("shutdown") ~> At("exit") \/ At("gone"))
<1>1. StopsInv /\ [Next]_vars /\ At("shutdown") /\ At("shutdown")' =>
          /\ Bringing("none") => Bringing("none")' \/ Bringing("created")' \/ (heartbeat = "done")'
          /\ Bringing("created") => Bringing("created")' \/ Bringing("filtering")'
          /\ Bringing("filtering") => Bringing("filtering")' \/ Bringing("workers")'
          /\ Bringing("workers") => Bringing("workers")' \/ (heartbeat = "done")'
          /\ heartbeat = "done" => (heartbeat = "done")'
          /\ <<Start>>_vars => /\ ~(Bringing("none") /\ Bringing("none")')
                               /\ ~(Bringing("created") /\ Bringing("created")')
                               /\ ~(Bringing("filtering") /\ Bringing("filtering")')
                               /\ ~(Bringing("workers") /\ Bringing("workers")')
  BY BringingMoves
<1>2. StepsEnabled =>
          /\ Bringing("none") => ENABLED <<Start>>_vars
          /\ Bringing("created") => ENABLED <<Start>>_vars
          /\ Bringing("filtering") => ENABLED <<Start>>_vars
          /\ Bringing("workers") => ENABLED <<Start>>_vars
          /\ At("shutdown") /\ heartbeat = "done" => ENABLED <<StopSteps>>_vars
          /\ At("shutdown") /\ ~(heartbeat = "start") => ENABLED <<StopSteps>>_vars
  BY DEF StepsEnabled, Bringing, At
<1>3. StopsInv /\ heartbeat = "start" => \/ Bringing("none") \/ Bringing("created")
                                         \/ Bringing("filtering") \/ Bringing("workers")
  BY DEF StopsInv, StopInv, Bringing
<1>4. StopsInv /\ [Next]_vars =>
          /\ At("shutdown") => At("shutdown")' \/ At("exit")' \/ At("gone")'
          /\ <<StopSteps>>_vars => ~(At("shutdown") /\ At("shutdown")')
  BY StopMoves DEF At
<1>5. FairSpec /\ []StepsEnabled =>
          (At("shutdown") /\ heartbeat = "done" ~> ~At("shutdown"))
  BY <1>1, <1>2, <1>4, FairStops, PTL
<1>6. FairSpec /\ []StepsEnabled =>
          (At("shutdown") /\ Bringing("workers")
               ~> (At("shutdown") /\ heartbeat = "done") \/ ~At("shutdown"))
  BY <1>1, <1>2, FairStops, PTL
<1>7. FairSpec /\ []StepsEnabled =>
          (At("shutdown") /\ Bringing("filtering")
               ~> (At("shutdown") /\ Bringing("workers")) \/ ~At("shutdown"))
  BY <1>1, <1>2, FairStops, PTL
<1>8. FairSpec /\ []StepsEnabled =>
          (At("shutdown") /\ Bringing("created")
               ~> (At("shutdown") /\ Bringing("filtering")) \/ ~At("shutdown"))
  BY <1>1, <1>2, FairStops, PTL
<1>9. FairSpec /\ []StepsEnabled =>
          (At("shutdown") /\ Bringing("none")
               ~> \/ At("shutdown") /\ Bringing("created")
                  \/ At("shutdown") /\ heartbeat = "done"
                  \/ ~At("shutdown"))
  BY <1>1, <1>2, FairStops, PTL
<1>10. FairSpec /\ []StepsEnabled =>
          (At("shutdown") /\ heartbeat = "start" ~> ~At("shutdown"))
  BY <1>3, <1>5, <1>6, <1>7, <1>8, <1>9, FairStops, PTL
<1> QED
  BY <1>2, <1>4, <1>10, FairStops, PTL

\* Stopping ends: with requests in the list or without, with calls under way, and
\* also when the heartbeat brings the first keys meanwhile.
THEOREM StopReturns == FairSpec /\ []StepsEnabled /\ Together => StopEnds
<1>1. StopsInv /\ [Next]_vars =>
          /\ At("check") => At("check")' \/ At("stopFiltering")' \/ At("shutdown")' \/ At("gone")'
          /\ At("stopFiltering") => At("stopFiltering")' \/ At("signal")' \/ At("gone")'
          /\ At("signal") => At("signal")' \/ At("join")' \/ At("gone")'
          /\ At("resetStop") => At("resetStop")' \/ At("gone")' \/ (~late /\ At("shutdown")')
          /\ At("exit") => At("exit")' \/ At("gone")' \/ (late /\ At("stopFiltering")')
  BY StopMoves
<1>2. StopsInv /\ [Next]_vars /\ <<StopSteps>>_vars =>
          /\ ~(At("check") /\ At("check")')
          /\ ~(At("stopFiltering") /\ At("stopFiltering")')
          /\ ~(At("signal") /\ At("signal")')
          /\ ~(At("resetStop") /\ At("resetStop")')
          /\ ~(At("exit") /\ At("exit")')
  BY StopMoves DEF At
<1>3. StepsEnabled =>
          /\ At("check") => ENABLED <<StopSteps>>_vars
          /\ At("stopFiltering") => ENABLED <<StopSteps>>_vars
          /\ At("signal") => ENABLED <<StopSteps>>_vars
          /\ At("resetStop") => ENABLED <<StopSteps>>_vars
          /\ At("exit") => ENABLED <<StopSteps>>_vars
  BY DEF StepsEnabled, At
\* late is settled once OnStop has looked
<1>4. StopsInv /\ [Next]_vars /\ ~At("check") => (late => late') /\ (~late => ~late')
  <2>1. StopsInv /\ [Next]_vars /\ ~At("check") => late' = late
    BY StopMoves
  <2> QED
    BY <2>1, Zenon
<1>5. At("stopFiltering") \/ At("signal") \/ At("join") \/ At("resetStop") \/ At("exit")
          => ~At("check")
  BY DEF At
<1>6. FairSpec /\ []StepsEnabled => (At("check") ~> At("stopFiltering") \/ At("shutdown") \/ At("gone"))
  BY <1>1, <1>2, <1>3, FairStops, PTL
<1>7. FairSpec /\ []StepsEnabled => (At("stopFiltering") ~> At("signal") \/ At("gone"))
  BY <1>1, <1>2, <1>3, FairStops, PTL
<1>8. FairSpec /\ []StepsEnabled => (At("signal") ~> At("join") \/ At("gone"))
  BY <1>1, <1>2, <1>3, FairStops, PTL
<1>9. FairSpec /\ []StepsEnabled => (At("resetStop") /\ late ~> At("gone"))
  BY <1>1, <1>2, <1>3, <1>4, <1>5, FairStops, PTL
<1>10. FairSpec /\ []StepsEnabled => (At("resetStop") ~> At("gone") \/ At("shutdown"))
  BY <1>1, <1>2, <1>3, FairStops, PTL
<1>11. FairSpec /\ []StepsEnabled => (At("exit") ~> At("gone") \/ (At("stopFiltering") /\ late))
  BY <1>1, <1>2, <1>3, <1>4, <1>5, FairStops, PTL
\* a stop that was late does not come back a third time
<1>12. FairSpec /\ []StepsEnabled => (At("stopFiltering") /\ late ~> (At("signal") /\ late) \/ At("gone"))
  BY <1>1, <1>2, <1>3, <1>4, <1>5, FairStops, PTL
<1>13. FairSpec /\ []StepsEnabled => (At("signal") /\ late ~> (At("join") /\ late) \/ At("gone"))
  BY <1>1, <1>2, <1>3, <1>4, <1>5, FairStops, PTL
<1>14. FairSpec /\ []StepsEnabled /\ Together => 
          (At("join") /\ late ~> (At("resetStop") /\ late) \/ At("gone"))
  <2>1. StopsInv /\ [Next]_vars => (At("join") => At("join")' \/ At("resetStop")' \/ At("gone")')
    BY StopMoves
  <2> QED
    BY <1>4, <1>5, <2>1, JoinEnds, FairStops, PTL
<1>15. FairSpec /\ []StepsEnabled /\ Together => (At("stopFiltering") /\ late ~> At("gone"))
  BY <1>9, <1>12, <1>13, <1>14, PTL
<1>16. FairSpec /\ []StepsEnabled /\ Together => (At("shutdown") ~> At("gone"))
  BY <1>11, <1>15, ShutdownEnds, PTL
<1>17. FairSpec /\ []StepsEnabled /\ Together => (At("check") ~> At("gone"))
  BY <1>6, <1>7, <1>8, <1>10, <1>16, JoinEnds, PTL
<1>18. (At("check") <=> main = "check") /\ (At("gone") <=> main = "gone")
  BY DEF At
<1> QED
  BY <1>17, <1>18, PTL DEF StopEnds
=============================================================================
