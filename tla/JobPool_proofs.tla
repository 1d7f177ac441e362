--------------------------- MODULE JobPool_proofs ---------------------------
(***************************************************************************)
(* Proofs about JobPool, for any number of triggers: its invariants, and   *)
(* what becomes of a registration and of a stop.                           *)
(***************************************************************************)
EXTENDS JobPool, TLAPS

-----------------------------------------------------------------------------
(* The queue *)

\* add puts a job at the end.
LEMMA AddJob ==
    ASSUME pool \in Seq(Jobs), NEW j \in Jobs
    PROVE  /\ Added(j) \in Seq(Jobs)
           /\ \A k \in Jobs : (\E i \in 1..Len(Added(j)) : Added(j)[i] = k) <=> InPool(k) \/ k = j
<1>1. CASE InPool(j)
  BY <1>1 DEF Added, InPool
<1>2. CASE ~InPool(j)
  <2> DEFINE q == Append(pool, j)
  <2>1. q \in Seq(Jobs) /\ Len(q) = Len(pool) + 1 /\ Len(pool) \in Nat
    OBVIOUS
  <2>2. q[Len(pool) + 1] = j /\ \A i \in 1..Len(pool) : q[i] = pool[i]
    OBVIOUS
  <2>3. Added(j) = q
    BY <1>2 DEF Added
  <2> HIDE DEF q
  <2>4. \A k \in Jobs : (\E i \in 1..Len(q) : q[i] = k) <=> InPool(k) \/ k = j
    BY <2>1, <2>2 DEF InPool
  <2> QED
    BY <2>1, <2>3, <2>4
<1> QED
  BY <1>1, <1>2

\* remove takes out that job and no other.
LEMMA RemoveJob ==
    ASSUME pool \in Seq(Jobs), NEW j \in Jobs, InPool(j), pool' = RemoveAt(pool, PlaceOf(j))
    PROVE  /\ pool' \in Seq(Jobs)
           /\ \A k \in Jobs \ {j} : InPool(k) => InPool(k)'
<1> DEFINE p == PlaceOf(j)
<1>1. p \in 1..Len(pool) /\ pool[p] = j
  BY DEF InPool, PlaceOf
<1>2. Len(pool) \in Nat
  OBVIOUS
<1> HIDE DEF p
<1> DEFINE a == SubSeq(pool, 1, p - 1)
           b == SubSeq(pool, p + 1, Len(pool))
<1>3. a \in Seq(Jobs) /\ Len(a) = p - 1 /\ \A i \in 1..(p - 1) : a[i] = pool[i]
  BY <1>1, <1>2
<1>4. b \in Seq(Jobs) /\ Len(b) = Len(pool) - p /\ \A i \in 1..(Len(pool) - p) : b[i] = pool[p + i]
  BY <1>1, <1>2
<1>5. pool' = a \o b
  BY DEF RemoveAt, p
<1> HIDE DEF a, b
<1>6. pool' \in Seq(Jobs) /\ Len(pool') = Len(pool) - 1
  BY <1>1, <1>2, <1>3, <1>4, <1>5
<1>7. /\ \A i \in 1..(p - 1) : pool'[i] = pool[i]
      /\ \A i \in 1..(Len(pool) - p) : pool'[(p - 1) + i] = pool[p + i]
  BY <1>1, <1>2, <1>3, <1>4, <1>5
<1>8. ASSUME NEW k \in Jobs \ {j}, InPool(k)
      PROVE  InPool(k)'
  <2>1. PICK i \in 1..Len(pool) : pool[i] = k
    BY <1>8 DEF InPool
  <2>2. CASE i < p
    <3>1. i \in 1..(p - 1) /\ i \in 1..Len(pool')
      BY <1>1, <1>2, <1>6, <2>1, <2>2
    <3> QED
      BY <1>7, <2>1, <3>1 DEF InPool
  <2>3. CASE i > p
    <3>1. i - p \in 1..(Len(pool) - p) /\ p + (i - p) = i
      BY <1>1, <1>2, <2>1, <2>3
    <3>2. pool'[(p - 1) + (i - p)] = k
      BY <1>7, <2>1, <3>1
    <3>3. (p - 1) + (i - p) \in 1..Len(pool')
      BY <1>1, <1>2, <1>6, <2>1, <2>3
    <3> QED
      BY <3>2, <3>3 DEF InPool
  <2>4. i # p
    BY <1>1, <1>8, <2>1
  <2> QED
    BY <1>1, <2>1, <2>2, <2>3, <2>4
<1> QED
  BY <1>6, <1>8

-----------------------------------------------------------------------------
(* Type correctness *)

MainPlaces == {"runJobs", "startAudit", "addAudit", "addCheckupdate", "wait",
               "clear", "stop", "join", "end", "crashed"}

\* clear() keeps the lock while it walks the queue, and main.at is a place in it.
TypeInv ==
    /\ TypeOK
    /\ main \in [pc : MainPlaces, at : Nat]
    /\ main.pc \in {"stop", "join"} => lock = "main"
    /\ main.pc \notin {"stop", "join"} => main.at = 0
    /\ main.pc = "join" => main.at \in 1..Len(pool)

\* A step that leaves the main thread where it is keeps the types, if those
\* that change the queue need the lock.
LEMMA TypeKept ==
    ASSUME TypeInv, registered' \in BOOLEAN, running' \in BOOLEAN, UNCHANGED <<main, lock>>,
           pool' = pool \/ (pool' \in Seq(Jobs) /\ lock = "free"),
           thread' \in [Jobs -> Places], stopping' \in [Jobs -> BOOLEAN],
           event' \in [Jobs -> BOOLEAN], triggers' \in 0..MaxTriggers
    PROVE  TypeInv'
<1>1. CASE pool' = pool
  BY <1>1 DEF TypeInv, TypeOK
<1>2. CASE pool' \in Seq(Jobs) /\ lock = "free"
  <2>1. main.at = 0 /\ main.pc \notin {"stop", "join"} /\ Len(pool') \in Nat
    BY <1>2 DEF TypeInv
  <2>2. 0 \in 0..(Len(pool') + 1)
    BY <2>1
  <2> QED
    BY <1>2, <2>1, <2>2 DEF TypeInv, TypeOK
<1> QED
  BY <1>1, <1>2

\* The main thread goes on outside clear().
LEMMA MainMoves ==
    ASSUME TypeInv, NEW pc \in MainPlaces \ {"stop", "join"}, MainTo(pc), lock = "free",
           main.pc \notin {"stop", "join"}
    PROVE  main' \in [pc : MainPlaces, at : Nat] /\ main'.pc = pc /\ main'.at = 0
BY DEF TypeInv, MainTo

LEMMA AddTypes ==
    ASSUME TypeInv, NEW j \in Jobs
    PROVE  Added(j) \in Seq(Jobs) /\ Started(j) \in [Jobs -> Places]
<1>1. pool \in Seq(Jobs) /\ thread \in [Jobs -> Places] /\ "turn" \in Places
  BY DEF TypeInv, TypeOK, Places
<1> QED
  BY <1>1, AddJob DEF Started

LEMMA TypeInit == Init => TypeInv
<1> SUFFICES ASSUME Init
             PROVE  TypeInv
  OBVIOUS
<1>1. <<>> \in Seq(Jobs) /\ Len(<<>>) = 0 /\ 0 \in 0..MaxTriggers
  BY JobPoolConstants
<1> QED
  BY <1>1 DEF Init, TypeInv, TypeOK, MainPlaces, Places

LEMMA ToType ==
    ASSUME TypeInv, NEW j \in Jobs, NEW place \in Places, To(j, place)
    PROVE  thread' \in [Jobs -> Places]
BY DEF TypeInv, TypeOK, To

\* The steps of threads that only move their thread.
MoveSelf == \/ RegisterFails \/ RegisterStartAudit \/ HeartbeatNewFrequency \/ HeartbeatGet
            \/ UpgradeStarted \/ \E j \in Jobs : TurnEnds(j) \/ UseFreed(j)

LEMMA TypeStep == TypeInv /\ [Next]_vars => TypeInv'
<1> SUFFICES ASSUME TypeInv, [Next]_vars
             PROVE  TypeInv'
  OBVIOUS
<1>0. /\ registered \in BOOLEAN /\ running \in BOOLEAN /\ triggers \in 0..MaxTriggers
      /\ lock \in {"free", "main"} /\ pool \in Seq(Jobs) /\ Len(pool) \in Nat
      /\ thread \in [Jobs -> Places] /\ stopping \in [Jobs -> BOOLEAN]
      /\ event \in [Jobs -> BOOLEAN] /\ main \in [pc : MainPlaces, at : Nat]
  BY DEF TypeInv, TypeOK
<1>1. CASE RunJobs
  <2>1. pool' \in Seq(Jobs) /\ thread' \in [Jobs -> Places]
    BY <1>1, AddTypes DEF RunJobs, Jobs
  <2>2. main' \in [pc : MainPlaces, at : Nat] /\ main'.pc \in {"startAudit", "wait"} /\ main'.at = 0
    BY <1>1, MainMoves DEF RunJobs, MainPlaces
  <2> QED
    BY <1>0, <1>1, <2>1, <2>2 DEF RunJobs, TypeInv, TypeOK
<1>2. CASE RunStartAudit \/ StopService
  BY <1>0, <1>2 DEF RunStartAudit, StopService, MainTo, TypeInv, TypeOK, MainPlaces
<1>3. CASE RunAddAudit \/ RunAddCheckupdate
  <2>1. PICK j \in Jobs, pc \in {"addAudit", "addCheckupdate"}, next \in {"addCheckupdate", "wait"} :
            RunAdd(j, pc, next)
    BY <1>3 DEF RunAddAudit, RunAddCheckupdate, Jobs
  <2>2. pool' \in Seq(Jobs) /\ thread' \in [Jobs -> Places]
    BY <2>1, AddTypes DEF RunAdd
  <2>3. main' \in [pc : MainPlaces, at : Nat] /\ main'.pc = next /\ main'.at = 0
    BY <2>1, MainMoves DEF RunAdd, MainPlaces
  <2> QED
    BY <1>0, <2>1, <2>2, <2>3 DEF RunAdd, TypeInv, TypeOK
<1>4. CASE Clear
  BY <1>0, <1>4 DEF Clear, TypeInv, TypeOK, MainPlaces
<1>5. CASE ClearStop
  <2>1. main.at \in 1..Len(pool) /\ main' = [main EXCEPT !.pc = "join"]
    BY <1>0, <1>5 DEF ClearStop, MainTo
  <2>2. main' \in [pc : MainPlaces, at : Nat] /\ main'.pc = "join" /\ main'.at = main.at
    BY <1>0, <2>1 DEF MainPlaces
  <2>3. stopping' \in [Jobs -> BOOLEAN] /\ event' \in [Jobs -> BOOLEAN]
    BY <1>0, <1>5 DEF ClearStop
  <2> QED
    BY <1>0, <1>5, <2>1, <2>2, <2>3 DEF ClearStop, TypeInv, TypeOK
<1>6. CASE ClearJoin
  BY <1>0, <1>6 DEF ClearJoin, TypeInv, TypeOK, MainPlaces
<1>7. CASE ClearDone
  BY <1>0, <1>7 DEF ClearDone, TypeInv, TypeOK, MainPlaces
<1>8. CASE Pause
  BY <1>0, <1>8, TypeKept DEF Pause
<1>9. CASE MoveSelf
  <2>1. OnlyThread
    BY <1>9 DEF MoveSelf, RegisterFails, RegisterStartAudit, HeartbeatNewFrequency,
                HeartbeatGet, UpgradeStarted, TurnEnds, UseFreed
  <2>2. PICK j \in Jobs, place \in {"wait", "addAudit", "getHeartbeat", "remove", "ended"} :
            To(j, place)
    BY <1>9 DEF MoveSelf, RegisterFails, RegisterStartAudit, HeartbeatNewFrequency,
                HeartbeatGet, UpgradeStarted, TurnEnds, UseFreed, Jobs
  <2>3. thread' \in [Jobs -> Places]
    BY <2>2, ToType DEF Places
  <2> QED
    BY <1>0, <2>1, <2>3, TypeKept DEF OnlyThread
<1>10. CASE RegisterAgent
  <2>1. thread' \in [Jobs -> Places]
    BY <1>10, ToType DEF RegisterAgent, Jobs, Places
  <2> QED
    BY <1>0, <1>10, <2>1, TypeKept DEF RegisterAgent
<1>11. CASE RegisterAddHeartbeat \/ RegisterAddAudit \/ RegisterAddCheckupdate
  <2>1. PICK j \in Jobs, place \in Places, next \in Places : RegisterAdd(j, place, next)
    BY <1>11 DEF RegisterAddHeartbeat, RegisterAddAudit, RegisterAddCheckupdate, Jobs, Places
  <2>2. pool' \in Seq(Jobs) /\ thread' \in [Jobs -> Places]
    BY <2>1, AddTypes DEF RegisterAdd
  <2> QED
    BY <1>0, <2>1, <2>2, TypeKept DEF RegisterAdd
<1>12. CASE Crash
  <2>1. pool' \in Seq(Jobs) /\ Len(pool') = 0 /\ 0 \in 0..(Len(pool') + 1)
    BY <1>12 DEF Crash
  <2>2. thread' \in [Jobs -> Places]
    BY <1>12 DEF Crash, Places
  <2>3. main'.pc = "crashed" /\ main'.at = 0 /\ main' \in [pc : MainPlaces, at : Nat]
    BY <1>12 DEF Crash, MainPlaces
  <2>4. lock' = "free" /\ running' = FALSE /\ UNCHANGED <<registered, stopping, event, triggers>>
    BY <1>12 DEF Crash
  <2> QED
    BY <1>0, <2>1, <2>2, <2>3, <2>4 DEF TypeInv, TypeOK
<1>13. ASSUME NEW j \in Jobs, NEW signalled \in BOOLEAN, WorkerWake(j, signalled)
       PROVE  TypeInv'
  <2>1. thread' \in [Jobs -> Places] /\ event' \in [Jobs -> BOOLEAN]
    BY <1>0, <1>13 DEF WorkerWake, Places
  <2> QED
    BY <1>0, <1>13, <2>1, TypeKept DEF WorkerWake
<1>14. ASSUME NEW j \in Jobs, RemoveSelf(j)
       PROVE  TypeInv'
  <2>1. thread' \in [Jobs -> Places]
    BY <1>14, ToType DEF RemoveSelf, Places
  <2>2. pool' \in Seq(Jobs) /\ lock = "free"
    BY <1>0, <1>14, RemoveJob DEF RemoveSelf
  <2> QED
    BY <1>0, <1>14, <2>1, <2>2, TypeKept DEF RemoveSelf
<1>15. ASSUME NEW j \in Jobs, DetachSelf(j)
       PROVE  TypeInv'
  <2>1. thread' \in [Jobs -> Places]
    BY <1>15, ToType DEF DetachSelf, Places
  <2>2. stopping' \in [Jobs -> BOOLEAN] /\ event' \in [Jobs -> BOOLEAN]
    BY <1>0, <1>15 DEF DetachSelf
  <2> QED
    BY <1>0, <1>15, <2>1, <2>2, TypeKept DEF DetachSelf
<1>16. CASE Trigger
  <2>1. triggers' \in 0..MaxTriggers
    BY <1>0, <1>16, JobPoolConstants DEF Trigger
  <2>2. event' \in [Jobs -> BOOLEAN]
    BY <1>0, <1>16 DEF Trigger
  <2> QED
    BY <1>0, <1>16, <2>1, <2>2, TypeKept DEF Trigger
<1>17. CASE UNCHANGED vars
  BY <1>0, <1>17, TypeKept DEF vars
<1> QED
  BY <1>1, <1>2, <1>3, <1>4, <1>5, <1>6, <1>7, <1>8, <1>9, <1>10, <1>11, <1>12, <1>13, <1>14,
     <1>15, <1>16, <1>17
  DEF Next, Main, Register, Worker, Turns, MoveSelf, RegisterTerminates, UseFreedFaults

LEMMA TypeInvHolds == Spec => []TypeInv
<1> QED
  BY TypeInit, TypeStep, PTL DEF Spec

\* Every variable keeps its type, main.at a place of the queue that is walked.
THEOREM TypeCorrect == Spec => []TypeOK
<1>1. TypeInv => TypeOK
  BY DEF TypeInv
<1> QED
  BY <1>1, TypeInvHolds, PTL

-----------------------------------------------------------------------------
(* No turn after the stop *)

\* Threads that are at work or wait for their next turn.
Live(j) == thread[j] \notin {"none", "ended", "detach", "freed"}

\* A job with a live thread is in the pool, and those clear() has passed are not
\* live any more.
PoolInv ==
    /\ \A j \in Jobs : Live(j) => InPool(j)
    /\ main.pc \in {"stop", "join"} =>
           \A i \in 1..Len(pool) : i < main.at => Ended(pool[i])
    /\ main.pc = "end" => pool = <<>>

LEMMA PoolInit == Init => PoolInv
BY DEF Init, PoolInv, Live

\* A step outside clear() that makes no thread live without its job.
LEMMA PoolKept ==
    ASSUME TypeInv, PoolInv, main' = main, pool' = pool,
           \A j \in Jobs : Live(j)' => Live(j),
           \A j \in Jobs : Ended(j) => Ended(j)'
    PROVE  PoolInv'
<1>1. \A j \in Jobs : InPool(j)' <=> InPool(j)
  BY DEF InPool
<1>2. \A i \in 1..Len(pool) : pool[i] \in Jobs
  BY DEF TypeInv, TypeOK
<1> QED
  BY <1>1, <1>2 DEF PoolInv

\* add, by a thread that is not in clear().
LEMMA PoolAdd ==
    ASSUME TypeInv, PoolInv, NEW j \in Jobs, pool' = Added(j),
           \A k \in Jobs : Live(k)' => Live(k) \/ k = j,
           main'.pc \notin {"stop", "join", "end"}
    PROVE  PoolInv'
<1>1. \A k \in Jobs : InPool(k)' <=> InPool(k) \/ k = j
  <2>1. \A k \in Jobs : (\E i \in 1..Len(pool') : pool'[i] = k) <=> InPool(k) \/ k = j
    <3>1. pool \in Seq(Jobs)
      BY DEF TypeInv, TypeOK
    <3> QED
      BY <3>1, AddJob
  <2> QED
    BY <2>1 DEF InPool
<1> QED
  BY <1>1 DEF PoolInv

LEMMA PoolStep == TypeInv /\ PoolInv /\ [Next]_vars => PoolInv'
<1> SUFFICES ASSUME TypeInv, PoolInv, [Next]_vars
             PROVE  PoolInv'
  OBVIOUS
<1>0. /\ pool \in Seq(Jobs) /\ Len(pool) \in Nat /\ thread \in [Jobs -> Places]
      /\ main \in [pc : MainPlaces, at : Nat]
  BY DEF TypeInv, TypeOK
<1>1. CASE RunJobs
  <2>1. PICK j \in Jobs : pool' = Added(j) /\ thread' = Started(j)
    BY <1>1 DEF RunJobs, Jobs
  <2>2. main'.pc \notin {"stop", "join", "end"}
    BY <1>1, MainMoves DEF RunJobs, MainPlaces
  <2>3. \A k \in Jobs : Live(k)' => Live(k) \/ k = j
    BY <1>0, <2>1 DEF Started, Live
  <2> QED
    BY <2>1, <2>2, <2>3, PoolAdd
<1>2. CASE RunStartAudit \/ StopService
  <2>1. main'.pc \notin {"stop", "join", "end"} /\ UNCHANGED <<pool, thread>>
    BY <1>0, <1>2 DEF RunStartAudit, StopService, MainTo
  <2> QED
    BY <2>1 DEF PoolInv, Live, InPool
<1>3. CASE RunAddAudit \/ RunAddCheckupdate
  <2>1. PICK j \in Jobs, pc \in {"addAudit", "addCheckupdate"}, next \in {"addCheckupdate", "wait"} :
            RunAdd(j, pc, next)
    BY <1>3 DEF RunAddAudit, RunAddCheckupdate, Jobs
  <2>2. main'.pc \notin {"stop", "join", "end"}
    BY <2>1, MainMoves DEF RunAdd, MainPlaces
  <2>3. \A k \in Jobs : Live(k)' => Live(k) \/ k = j
    BY <1>0, <2>1 DEF RunAdd, Started, Live
  <2> QED
    BY <2>1, <2>2, <2>3, PoolAdd DEF RunAdd
<1>4. CASE Clear
  <2>1. main'.pc = "stop" /\ main'.at = 1 /\ UNCHANGED <<pool, thread>>
    BY <1>4 DEF Clear
  <2> QED
    BY <1>0, <2>1 DEF PoolInv, Live, InPool
<1>5. CASE ClearStop
  <2>1. main.pc = "stop" /\ main'.pc = "join" /\ main'.at = main.at /\ UNCHANGED <<pool, thread>>
    BY <1>0, <1>5 DEF ClearStop, MainTo
  <2> QED
    BY <2>1 DEF PoolInv, Live, InPool, Ended
<1>6. CASE ClearJoin
  <2>1. main.pc = "join" /\ main'.pc = "stop" /\ main'.at = main.at + 1
        /\ Ended(pool[main.at]) /\ UNCHANGED <<pool, thread>>
    BY <1>6 DEF ClearJoin
  <2>2. ASSUME NEW i \in 1..Len(pool), i < main.at + 1
        PROVE  Ended(pool[i])
    <3>1. i < main.at \/ i = main.at
      BY <1>0, <2>2
    <3> QED
      BY <2>1, <3>1 DEF PoolInv
  <2> QED
    BY <2>1, <2>2 DEF PoolInv, Live, InPool, Ended
<1>7. CASE ClearDone
  <2>1. main.pc = "stop" /\ main.at = Len(pool) + 1 /\ main'.pc = "end" /\ pool' = <<>>
        /\ UNCHANGED thread
    BY <1>7 DEF ClearDone
  <2>2. \A i \in 1..Len(pool) : Ended(pool[i])
    BY <1>0, <2>1 DEF PoolInv
  <2>3. \A j \in Jobs : InPool(j) => Ended(j)
    BY <2>2 DEF InPool
  <2>4. \A j \in Jobs : ~Live(j)
    BY <2>3 DEF PoolInv, Live, Ended
  <2> QED
    BY <2>1, <2>4 DEF PoolInv, Live
<1>8. CASE Pause
  BY <1>8, PoolKept DEF Pause, Live, Ended
<1>9. CASE MoveSelf
  <2>1. OnlyThread
    BY <1>9 DEF MoveSelf, RegisterFails, RegisterStartAudit, HeartbeatNewFrequency,
                HeartbeatGet, UpgradeStarted, TurnEnds, UseFreed
  <2>2. PICK j \in Jobs, place \in {"wait", "addAudit", "getHeartbeat", "remove", "ended"} :
            /\ To(j, place) /\ ~Ended(j)
            /\ Live(j) \/ place = "ended"
    BY <1>9 DEF MoveSelf, RegisterFails, RegisterStartAudit, HeartbeatNewFrequency,
                HeartbeatGet, UpgradeStarted, TurnEnds, UseFreed, Jobs, Live, Ended
  <2>3. \A k \in Jobs : (Live(k)' => Live(k)) /\ (Ended(k) => Ended(k)')
    BY <1>0, <2>2 DEF To, Live, Ended
  <2> QED
    BY <2>1, <2>3, PoolKept DEF OnlyThread
<1>10. CASE RegisterAgent
  <2>1. \A k \in Jobs : (Live(k)' => Live(k)) /\ (Ended(k) => Ended(k)')
    BY <1>0, <1>10 DEF RegisterAgent, To, Live, Ended, Jobs
  <2> QED
    BY <1>10, <2>1, PoolKept DEF RegisterAgent
<1>11. CASE RegisterAddHeartbeat \/ RegisterAddAudit \/ RegisterAddCheckupdate
  <2>1. PICK j \in Jobs, next \in Places :
            \E place \in {"addHeartbeat", "addAudit", "addCheckupdate"} :
                RegisterAdd(j, place, next)
    BY <1>11 DEF RegisterAddHeartbeat, RegisterAddAudit, RegisterAddCheckupdate, Jobs, Places
  <2>2. Live("register") /\ lock = "free" /\ pool' = Added(j) /\ main' = main
        /\ thread' = [Started(j) EXCEPT !["register"] = next]
    BY <2>1 DEF RegisterAdd, Live
  <2>3. main'.pc \notin {"stop", "join", "end"}
    <3>1. InPool("register") /\ pool # <<>>
      BY <1>0, <2>2 DEF PoolInv, InPool, Jobs
    <3> QED
      BY <2>2, <3>1 DEF PoolInv, TypeInv
  <2>4. \A k \in Jobs : Live(k)' => Live(k) \/ k = j
    BY <1>0, <2>2 DEF Started, Live, Jobs
  <2> QED
    BY <2>2, <2>3, <2>4, PoolAdd
<1>12. CASE Crash
  BY <1>12 DEF Crash, PoolInv, Live
<1>13. ASSUME NEW j \in Jobs, NEW signalled \in BOOLEAN, WorkerWake(j, signalled)
       PROVE  PoolInv'
  <2>1. \A k \in Jobs : (Live(k)' => Live(k)) /\ (Ended(k) => Ended(k)')
    BY <1>0, <1>13 DEF WorkerWake, Live, Ended
  <2> QED
    BY <1>13, <2>1, PoolKept DEF WorkerWake
<1>14. ASSUME NEW j \in Jobs, RemoveSelf(j)
       PROVE  PoolInv'
  <2>1. InPool(j) /\ pool # <<>>
    BY <1>14 DEF RemoveSelf, PoolInv, Live, InPool
  <2>2. pool' = RemoveAt(pool, PlaceOf(j)) /\ To(j, "detach") /\ main' = main /\ lock = "free"
    BY <1>14, <2>1 DEF RemoveSelf
  <2>3. \A k \in Jobs \ {j} : InPool(k) => InPool(k)'
    BY <1>0, <2>1, <2>2, RemoveJob
  <2>4. ~Live(j)' /\ \A k \in Jobs \ {j} : Live(k)' => Live(k)
    BY <1>0, <2>2 DEF To, Live
  <2> QED
    BY <2>1, <2>2, <2>3, <2>4 DEF PoolInv, TypeInv
<1>15. ASSUME NEW j \in Jobs, DetachSelf(j)
       PROVE  PoolInv'
  <2>1. \A k \in Jobs : (Live(k)' => Live(k)) /\ (Ended(k) => Ended(k)')
    BY <1>0, <1>15 DEF DetachSelf, To, Live, Ended
  <2> QED
    BY <1>15, <2>1, PoolKept DEF DetachSelf
<1>16. CASE Trigger
  BY <1>16, PoolKept DEF Trigger, Live, Ended
<1>17. CASE UNCHANGED vars
  BY <1>17, PoolKept DEF vars, Live, Ended
<1> QED
  BY <1>1, <1>2, <1>3, <1>4, <1>5, <1>6, <1>7, <1>8, <1>9, <1>10, <1>11, <1>12, <1>13, <1>14,
     <1>15, <1>16, <1>17
  DEF Next, Main, Register, Worker, Turns, MoveSelf, RegisterTerminates, UseFreedFaults

LEMMA PoolInvHolds == Spec => []PoolInv
<1> QED
  BY TypeInvHolds, PoolInit, PoolStep, PTL DEF Spec

\* After clear() no job begins another turn, however the jobs add and remove each
\* other while the service stops.
THEOREM StoppedForGood == Spec => []NoTurnAfterStop
<1>1. PoolInv => NoTurnAfterStop
  BY DEF PoolInv, NoTurnAfterStop, Live, InPool, Ended
<1> QED
  BY <1>1, PoolInvHolds, PTL

-----------------------------------------------------------------------------
(* The assertions of do_job *)

\* The register job is past the registration exactly when it adds the other jobs
\* or removes itself, and the other jobs exist only once the agent is registered.
AssertInv ==
    /\ thread["register"] \in {"turn", "wait"} => ~registered
    /\ thread["register"] \in {"addHeartbeat", "startAudit", "addAudit", "addCheckupdate"}
           => registered
    /\ \A j \in Jobs \ {"register"} : thread[j] # "none" => registered
    /\ main.pc \in {"startAudit", "addAudit", "addCheckupdate"} => registered

LEMMA AssertInit == Init => AssertInv
BY DEF Init, AssertInv, Jobs

\* A step that starts no job and does not change what the register job knows.
LEMMA AssertKept ==
    ASSUME AssertInv, registered' = registered,
           main' = main \/ main'.pc \notin {"startAudit", "addAudit", "addCheckupdate"},
           \/ thread'["register"] = thread["register"]
           \/ thread'["register"] \notin {"turn", "wait", "addHeartbeat", "startAudit",
                                          "addAudit", "addCheckupdate"},
           \A j \in Jobs \ {"register"} : thread'[j] # "none" => thread[j] # "none"
    PROVE  AssertInv'
BY DEF AssertInv

LEMMA AssertStep == TypeInv /\ PoolInv /\ AssertInv /\ [Next]_vars => AssertInv'
<1> SUFFICES ASSUME TypeInv, PoolInv, AssertInv, [Next]_vars
             PROVE  AssertInv'
  OBVIOUS
<1>0. /\ thread \in [Jobs -> Places] /\ main \in [pc : MainPlaces, at : Nat]
      /\ registered \in BOOLEAN
  BY DEF TypeInv, TypeOK
<1>r. "register" \in Jobs
  BY DEF Jobs
<1>1. CASE RunJobs
  <2>1. registered' = registered
        /\ main'.pc = IF registered THEN "startAudit" ELSE "wait"
    BY <1>0, <1>1 DEF RunJobs, MainTo
  <2>2. CASE registered
    <3>1. thread' = Started("heartbeat")
      BY <1>1, <2>2 DEF RunJobs
    <3>2. thread'["register"] = thread["register"]
      BY <1>0, <1>r, <3>1 DEF Started
    <3> QED
      BY <2>1, <2>2, <3>2 DEF AssertInv
  <2>3. CASE ~registered
    <3>1. thread' = Started("register")
      BY <1>1, <2>3 DEF RunJobs
    <3>2. thread'["register"] \in {"turn", thread["register"]}
          /\ \A j \in Jobs \ {"register"} : thread'[j] = thread[j]
      BY <1>0, <1>r, <3>1 DEF Started
    <3> QED
      BY <2>1, <2>3, <3>2 DEF AssertInv
  <2> QED
    BY <2>2, <2>3
<1>2. CASE RunStartAudit
  <2>1. main.pc = "startAudit" /\ UNCHANGED <<registered, thread>>
    BY <1>2 DEF RunStartAudit
  <2> QED
    BY <2>1 DEF AssertInv
<1>3. CASE RunAddAudit \/ RunAddCheckupdate
  <2>1. PICK j \in Jobs \ {"register"} : thread' = Started(j)
    BY <1>3 DEF RunAddAudit, RunAddCheckupdate, RunAdd, Jobs
  <2>2. main.pc \in {"addAudit", "addCheckupdate"} /\ UNCHANGED registered
    BY <1>3 DEF RunAddAudit, RunAddCheckupdate, RunAdd
  <2>3. thread'["register"] = thread["register"]
    BY <1>0, <1>r, <2>1 DEF Started
  <2> QED
    BY <2>2, <2>3 DEF AssertInv
<1>4. CASE StopService \/ Clear \/ ClearStop \/ ClearJoin \/ ClearDone \/ Pause
  <2>1. UNCHANGED <<registered, thread>>
    BY <1>4 DEF StopService, Clear, ClearStop, ClearJoin, ClearDone, Pause
  <2>2. main' = main \/ main'.pc \in {"clear", "stop", "join", "end"}
    BY <1>0, <1>4 DEF StopService, Clear, ClearStop, ClearJoin, ClearDone, Pause, MainTo
  <2> QED
    BY <2>1, <2>2, AssertKept
<1>5. CASE RegisterFails
  <2>1. thread["register"] = "turn" /\ thread'["register"] = "wait"
        /\ UNCHANGED <<registered, main>>
        /\ \A j \in Jobs \ {"register"} : thread'[j] = thread[j]
    BY <1>0, <1>r, <1>5 DEF RegisterFails, To, OnlyThread
  <2> QED
    BY <2>1 DEF AssertInv
<1>6. CASE RegisterAgent
  <2>1. thread'["register"] = "addHeartbeat" /\ registered' = TRUE
    BY <1>0, <1>r, <1>6 DEF RegisterAgent, To
  <2> QED
    BY <2>1 DEF AssertInv
<1>7. CASE RegisterStartAudit
  <2>1. thread["register"] = "startAudit" /\ thread'["register"] = "addAudit"
        /\ UNCHANGED <<registered, main>>
    BY <1>0, <1>r, <1>7 DEF RegisterStartAudit, To, OnlyThread
  <2> QED
    BY <2>1 DEF AssertInv
<1>8. CASE RegisterAddHeartbeat \/ RegisterAddAudit \/ RegisterAddCheckupdate
  <2>1. PICK j \in Jobs, next \in {"startAudit", "addCheckupdate", "remove"} :
            thread' = [Started(j) EXCEPT !["register"] = next]
    BY <1>8 DEF RegisterAddHeartbeat, RegisterAddAudit, RegisterAddCheckupdate, RegisterAdd, Jobs
  <2>2. registered /\ UNCHANGED <<registered, main>>
    BY <1>8 DEF RegisterAddHeartbeat, RegisterAddAudit, RegisterAddCheckupdate, RegisterAdd,
                AssertInv
  <2>3. thread'["register"] = next
    BY <1>0, <1>r, <2>1 DEF Started
  <2> QED
    BY <2>2, <2>3 DEF AssertInv
<1>9. CASE Crash
  BY <1>9 DEF Crash, AssertInv, Jobs
<1>10. ASSUME NEW j \in Jobs, NEW signalled \in BOOLEAN, WorkerWake(j, signalled)
       PROVE  AssertInv'
  <2>1. /\ thread[j] = "wait" /\ thread'[j] \in {"turn", "ended"}
        /\ UNCHANGED <<registered, main>>
        /\ \A k \in Jobs \ {j} : thread'[k] = thread[k]
    BY <1>0, <1>10 DEF WorkerWake
  <2>2. CASE j = "register"
    BY <2>1, <2>2 DEF AssertInv
  <2>3. CASE j # "register"
    BY <1>r, <2>1, <2>3, AssertKept
  <2> QED
    BY <2>2, <2>3
<1>11. ASSUME NEW j \in Jobs, RemoveSelf(j)
       PROVE  AssertInv'
  <2>1. InPool(j)
    BY <1>11 DEF RemoveSelf, PoolInv, Live
  <2>2. thread[j] = "remove" /\ thread'[j] = "detach" /\ UNCHANGED <<registered, main>>
        /\ \A k \in Jobs \ {j} : thread'[k] = thread[k]
    BY <1>0, <1>11, <2>1 DEF RemoveSelf, To
  <2> QED
    BY <1>r, <2>2, AssertKept
<1>12. ASSUME NEW j \in Jobs, DetachSelf(j) \/ UseFreed(j)
       PROVE  AssertInv'
  <2>1. thread[j] # "none" /\ thread'[j] \in {"freed", "ended"} /\ UNCHANGED <<registered, main>>
        /\ \A k \in Jobs \ {j} : thread'[k] = thread[k]
    BY <1>0, <1>12 DEF DetachSelf, UseFreed, To, OnlyThread
  <2> QED
    BY <1>r, <2>1, AssertKept
<1>13. CASE HeartbeatNewFrequency \/ HeartbeatGet \/ UpgradeStarted \/ \E j \in Jobs : TurnEnds(j)
  <2>1. PICK j \in Jobs \ {"register"}, place \in Places : To(j, place) /\ thread[j] # "none"
    BY <1>13 DEF HeartbeatNewFrequency, HeartbeatGet, UpgradeStarted, TurnEnds, Jobs, Places
  <2>2. UNCHANGED <<registered, main>>
    BY <1>13 DEF HeartbeatNewFrequency, HeartbeatGet, UpgradeStarted, TurnEnds, OnlyThread
  <2>3. \A k \in Jobs \ {j} : thread'[k] = thread[k]
    BY <1>0, <2>1 DEF To
  <2> QED
    BY <1>r, <2>1, <2>2, <2>3, AssertKept
<1>14. CASE Trigger
  BY <1>14, AssertKept DEF Trigger
<1>15. CASE UNCHANGED vars
  BY <1>15, AssertKept DEF vars
<1> QED
  BY <1>1, <1>2, <1>3, <1>4, <1>5, <1>6, <1>7, <1>8, <1>9, <1>10, <1>11, <1>12, <1>13, <1>14,
     <1>15
  DEF Next, Main, Register, Worker, Turns, RegisterTerminates, UseFreedFaults

\* The assertions at the head of do_job hold: nobody registers an agent that is
\* registered, and the other jobs only work for one that is.
THEOREM AssertionsOfJobs == Spec => []AssertionsHold
<1>1. AssertInv => AssertionsHold
  BY DEF AssertInv, AssertionsHold, InTurn
<1> QED
  BY <1>1, TypeInvHolds, PoolInvHolds, AssertInit, AssertStep, PTL DEF Spec
-----------------------------------------------------------------------------
(* What must eventually happen *)

\* The prover knows nothing of ENABLED.  What is on the left is the guard of
\* each of these actions, or of a disjunct of Register, the rest of it assigns,
\* and what it assigns to main or to thread is not what was there.
StepsEnabled ==
    /\ main.pc = "clear" /\ lock = "free" => ENABLED <<Clear>>_vars
    /\ main.pc = "stop" /\ main.at \in 1..Len(pool) => ENABLED <<ClearStop>>_vars
    /\ main.pc = "stop" /\ main.at = Len(pool) + 1 => ENABLED <<ClearDone>>_vars
    /\ main.pc = "join" /\ Ended(pool[main.at]) => ENABLED <<ClearJoin>>_vars
    /\ (\/ thread["register"] \in {"turn", "startAudit"}
        \/ thread["register"] \in {"addHeartbeat", "addAudit", "addCheckupdate"} /\ lock = "free")
           => ENABLED <<Register>>_vars
    /\ \A j \in Jobs :
          /\ thread[j] = "wait" /\ event[j] => ENABLED <<WorkerWake(j, TRUE)>>_vars
          /\ thread[j] = "detach" => ENABLED <<DetachSelf(j)>>_vars
          /\ thread[j] = "freed" => ENABLED <<UseFreed(j)>>_vars
          /\ thread[j] = "turn" /\ j # "register" => ENABLED <<TurnEnds(j)>>_vars

\* No job is in the queue twice.
NoTwice(q) == \A i, k \in 1..Len(q) : q[i] = q[k] => i = k

LEMMA AddNoTwice ==
    ASSUME pool \in Seq(Jobs), NoTwice(pool), NEW j \in Jobs
    PROVE  NoTwice(Added(j))
<1>1. CASE InPool(j)
  BY <1>1 DEF Added
<1>2. CASE ~InPool(j)
  <2> DEFINE q == Append(pool, j)
  <2>1. Len(q) = Len(pool) + 1 /\ Len(pool) \in Nat
    OBVIOUS
  <2>2. q[Len(pool) + 1] = j /\ \A i \in 1..Len(pool) : q[i] = pool[i]
    OBVIOUS
  <2>3. Added(j) = q
    BY <1>2 DEF Added
  <2>4. \A i \in 1..Len(pool) : pool[i] # j
    BY <1>2 DEF InPool
  <2> HIDE DEF q
  <2> SUFFICES ASSUME NEW i \in 1..Len(q), NEW k \in 1..Len(q), q[i] = q[k] PROVE i = k
    BY <2>3 DEF NoTwice
  <2>5. CASE i \in 1..Len(pool) /\ k \in 1..Len(pool)
    BY <2>2, <2>5 DEF NoTwice
  <2>6. CASE i = Len(pool) + 1 \/ k = Len(pool) + 1
    BY <2>1, <2>2, <2>4, <2>6
  <2> QED
    BY <2>1, <2>5, <2>6
<1> QED
  BY <1>1, <1>2

LEMMA RemoveAtShifts ==
    ASSUME pool \in Seq(Jobs), NEW p \in 1..Len(pool)
    PROVE  LET q == RemoveAt(pool, p)
           IN  /\ Len(q) = Len(pool) - 1
               /\ \A i \in 1..Len(q) : q[i] = IF i < p THEN pool[i] ELSE pool[i + 1]
<1>1. Len(pool) \in Nat
  OBVIOUS
<1> DEFINE a == SubSeq(pool, 1, p - 1)
           b == SubSeq(pool, p + 1, Len(pool))
           q == a \o b
<1>2. a \in Seq(Jobs) /\ Len(a) = p - 1 /\ \A i \in 1..(p - 1) : a[i] = pool[i]
  BY <1>1
<1>3. b \in Seq(Jobs) /\ Len(b) = Len(pool) - p /\ \A i \in 1..(Len(pool) - p) : b[i] = pool[p + i]
  BY <1>1
<1>4. RemoveAt(pool, p) = q
  BY DEF RemoveAt
<1> HIDE DEF a, b
<1>5. Len(q) = Len(pool) - 1
  <2>1. ASSUME NEW c \in Seq(Jobs), NEW d \in Seq(Jobs) PROVE Len(c \o d) = Len(c) + Len(d)
    OBVIOUS
  <2>2. Len(a \o b) = Len(a) + Len(b)
    BY <1>2, <1>3, <2>1
  <2> QED
    BY <1>1, <1>2, <1>3, <2>2
<1>6. \A i \in 1..Len(q) : q[i] = IF i < p THEN pool[i] ELSE pool[i + 1]
  <2> SUFFICES ASSUME NEW i \in 1..Len(q)
               PROVE  q[i] = IF i < p THEN pool[i] ELSE pool[i + 1]
    OBVIOUS
  <2>1. CASE i < p
    BY <1>1, <1>2, <1>3, <1>5, <2>1
  <2>2. CASE i >= p
    <3>1. i - (p - 1) \in 1..(Len(pool) - p) /\ p + (i - (p - 1)) = i + 1
      BY <1>1, <1>5, <2>2
    <3>2. q[i] = b[i - (p - 1)]
      BY <1>1, <1>2, <1>3, <1>5, <2>2
    <3> QED
      BY <1>3, <2>2, <3>1, <3>2
  <2> QED
    BY <1>1, <1>5, <2>1, <2>2
<1> HIDE DEF q
<1> QED
  BY <1>4, <1>5, <1>6

LEMMA RemoveNoTwice ==
    ASSUME pool \in Seq(Jobs), NoTwice(pool), NEW p \in 1..Len(pool)
    PROVE  NoTwice(RemoveAt(pool, p))
<1> DEFINE q == RemoveAt(pool, p)
           from(n) == IF n < p THEN n ELSE n + 1
<1>1. Len(pool) \in Nat
  OBVIOUS
<1>2. Len(q) = Len(pool) - 1 /\ \A i \in 1..Len(q) : q[i] = pool[from(i)]
  BY RemoveAtShifts
<1> HIDE DEF q
<1> SUFFICES ASSUME NEW i \in 1..Len(q), NEW k \in 1..Len(q), q[i] = q[k] PROVE i = k
  BY DEF NoTwice, q
<1>3. from(i) \in 1..Len(pool) /\ from(k) \in 1..Len(pool)
  BY <1>1, <1>2
<1>4. from(i) = from(k)
  BY <1>2, <1>3 DEF NoTwice
<1> QED
  BY <1>1, <1>4

LEMMA RemoveFrom ==
    ASSUME pool \in Seq(Jobs), NEW p \in 1..Len(pool), pool' = RemoveAt(pool, p)
    PROVE  \A k \in Jobs : InPool(k)' => InPool(k)
<1> SUFFICES ASSUME NEW i \in 1..Len(pool') PROVE \E n \in 1..Len(pool) : pool[n] = pool'[i]
  BY DEF InPool
<1>1. Len(pool') = Len(pool) - 1 /\ pool'[i] = IF i < p THEN pool[i] ELSE pool[i + 1]
  BY RemoveAtShifts
<1>2. Len(pool) \in Nat
  OBVIOUS
<1>3. (i < p => i \in 1..Len(pool)) /\ i + 1 \in 1..Len(pool)
  BY <1>1, <1>2
<1> QED
  BY <1>1, <1>3

\* So it never holds more than the four jobs there are.
LEMMA AtMostFour ==
    ASSUME pool \in Seq(Jobs), NoTwice(pool)
    PROVE  Len(pool) <= 4
<1> SUFFICES ASSUME Len(pool) > 4 PROVE FALSE
  OBVIOUS
<1>1. {1, 2, 3, 4, 5} \subseteq 1..Len(pool)
  OBVIOUS
<1>2. \A i \in {1, 2, 3, 4, 5} : pool[i] \in {"register", "heartbeat", "audit", "checkupdate"}
  BY <1>1 DEF Jobs
<1>3. \A i, k \in {1, 2, 3, 4, 5} : pool[i] = pool[k] => i = k
  BY <1>1 DEF NoTwice
<1> QED
  BY <1>2, <1>3

\* Only clear() keeps the lock; a job in the queue has its thread; and the job
\* that clear() waits for has been told: it finds its event when it waits.
Told(j) == stopping[j] /\ (event[j] \/ Ended(j))
WalkInv ==
    /\ lock = "main" => main.pc \in {"stop", "join"}
    /\ main.pc = "stop" => main.at >= 1
    /\ NoTwice(pool)
    /\ \A j \in Jobs : InPool(j) => thread[j] # "none"
    /\ main.pc = "join" => Told(pool[main.at])

\* Steps that leave the queue alone.
LEMMA WalkKept ==
    ASSUME TypeInv, WalkInv, UNCHANGED <<main, pool, lock>>,
           \A j \in Jobs : thread[j] # "none" => thread'[j] # "none",
           \A j \in Jobs : Told(j) => Told(j)'
    PROVE  WalkInv'
<1>1. \A j \in Jobs : InPool(j)' <=> InPool(j)
  BY DEF InPool
<1>2. main.pc = "join" => pool[main.at] \in Jobs
  BY DEF TypeInv, TypeOK
<1>3. NoTwice(pool)'
  BY DEF WalkInv, NoTwice
<1>4. main'.pc = "join" => Told(pool[main.at])'
  BY <1>2 DEF WalkInv, Told, Ended
<1> QED
  BY <1>1, <1>3, <1>4 DEF WalkInv

\* Steps that change it, outside clear().
LEMMA WalkPool ==
    ASSUME TypeInv, WalkInv, lock' = "free", main'.pc \notin {"stop", "join"},
           NoTwice(pool'), \A j \in Jobs : InPool(j)' => thread'[j] # "none"
    PROVE  WalkInv'
BY DEF WalkInv, NoTwice

\* add.
LEMMA WalkAdd ==
    ASSUME TypeInv, WalkInv, NEW j \in Jobs, pool' = Added(j), lock' = "free",
           main'.pc \notin {"stop", "join"},
           \A k \in Jobs : Started(j)[k] # "none" => thread'[k] # "none"
    PROVE  WalkInv' /\ thread'[j] # "none"
<1>0. pool \in Seq(Jobs) /\ thread \in [Jobs -> Places]
  BY DEF TypeInv, TypeOK
<1>1. NoTwice(pool')
  BY <1>0, AddNoTwice DEF WalkInv
<1>2. \A k \in Jobs : (\E i \in 1..Len(pool') : pool'[i] = k) <=> InPool(k) \/ k = j
  BY <1>0, AddJob
<1>3. \A k \in Jobs : InPool(k) \/ k = j => Started(j)[k] # "none"
  BY <1>0 DEF WalkInv, Started
<1>4. \A k \in Jobs : InPool(k)' => thread'[k] # "none"
  BY <1>2, <1>3 DEF InPool
<1> QED
  BY <1>1, <1>3, <1>4, WalkPool

LEMMA WalkStep == TypeInv /\ WalkInv /\ [Next]_vars => WalkInv'
<1> SUFFICES ASSUME TypeInv, WalkInv, [Next]_vars PROVE WalkInv'
  OBVIOUS
<1>0. /\ lock \in {"free", "main"} /\ pool \in Seq(Jobs) /\ thread \in [Jobs -> Places]
      /\ stopping \in [Jobs -> BOOLEAN] /\ event \in [Jobs -> BOOLEAN]
      /\ main \in [pc : MainPlaces, at : Nat]
      /\ main.pc \in {"stop", "join"} => lock = "main"
      /\ main.pc = "join" => main.at \in 1..Len(pool)
  BY DEF TypeInv, TypeOK
<1>1. CASE RunJobs
  <2>1. PICK j \in Jobs : pool' = Added(j) /\ thread' = Started(j)
    BY <1>1 DEF RunJobs, Jobs
  <2>2. lock' = "free" /\ main'.pc \in {"startAudit", "wait"}
    BY <1>0, <1>1 DEF RunJobs, MainTo
  <2> QED
    BY <2>1, <2>2, WalkAdd
<1>2. CASE RunAddAudit \/ RunAddCheckupdate
  <2>1. PICK j \in Jobs, pc \in MainPlaces, next \in {"addCheckupdate", "wait"} : RunAdd(j, pc, next)
    BY <1>2 DEF RunAddAudit, RunAddCheckupdate, Jobs, MainPlaces
  <2>2. lock' = "free" /\ main'.pc \in {"addCheckupdate", "wait"}
    BY <1>0, <2>1 DEF RunAdd, MainTo
  <2> QED
    BY <2>1, <2>2, WalkAdd DEF RunAdd
<1>3. CASE RegisterAddHeartbeat \/ RegisterAddAudit \/ RegisterAddCheckupdate
  <2>1. PICK j \in Jobs, place \in Places, next \in Places \ {"none"} : RegisterAdd(j, place, next)
    BY <1>3 DEF RegisterAddHeartbeat, RegisterAddAudit, RegisterAddCheckupdate, Jobs, Places
  <2>2. lock' = "free" /\ main'.pc \notin {"stop", "join"} /\ pool' = Added(j)
    BY <1>0, <2>1 DEF RegisterAdd
  <2>3. Started(j) \in [Jobs -> Places]
    BY <1>0, AddTypes
  <2>4. \A k \in Jobs : Started(j)[k] # "none" => thread'[k] # "none"
    BY <2>1, <2>3 DEF RegisterAdd
  <2> QED
    BY <2>2, <2>4, WalkAdd
<1>4. ASSUME NEW j \in Jobs, RemoveSelf(j) PROVE WalkInv'
  <2>1. lock' = "free" /\ main'.pc \notin {"stop", "join"}
    BY <1>0, <1>4 DEF RemoveSelf
  <2>2. \A k \in Jobs : thread[k] # "none" => thread'[k] # "none"
    BY <1>0, <1>4 DEF RemoveSelf, To
  <2>3. CASE InPool(j)
    <3>1. PlaceOf(j) \in 1..Len(pool) /\ pool' = RemoveAt(pool, PlaceOf(j))
      BY <1>4, <2>3 DEF RemoveSelf, PlaceOf, InPool
    <3>2. NoTwice(pool')
      BY <1>0, <3>1, RemoveNoTwice DEF WalkInv
    <3>3. \A k \in Jobs : InPool(k)' => InPool(k)
      BY <1>0, <3>1, RemoveFrom
    <3> QED
      BY <2>1, <2>2, <3>2, <3>3, WalkPool DEF WalkInv
  <2>4. CASE ~InPool(j)
    <3>1. pool' = pool
      BY <1>4, <2>4 DEF RemoveSelf
    <3> QED
      BY <2>1, <2>2, <3>1, WalkPool DEF WalkInv, InPool
  <2> QED
    BY <2>3, <2>4
<1>5. CASE Crash
  <2>1. pool' = <<>> /\ lock' = "free" /\ main'.pc = "crashed"
    BY <1>5 DEF Crash
  <2> QED
    BY <2>1, WalkPool DEF NoTwice, InPool
<1>6. CASE Clear \/ ClearJoin
  <2>1. main'.pc = "stop" /\ main'.at >= 1 /\ pool' = pool /\ thread' = thread
    BY <1>0, <1>6 DEF Clear, ClearJoin
  <2> QED
    BY <2>1 DEF WalkInv, NoTwice, InPool
<1>7. CASE ClearStop
  <2>1. main.at \in 1..Len(pool) /\ pool[main.at] \in Jobs
    BY <1>0, <1>7 DEF ClearStop
  <2>2. main'.pc = "join" /\ main'.at = main.at /\ UNCHANGED <<pool, thread, lock>>
    BY <1>0, <1>7 DEF ClearStop, MainTo
  <2>3. stopping'[pool[main.at]] /\ event'[pool[main.at]]
    BY <1>0, <1>7, <2>1 DEF ClearStop
  <2> QED
    BY <2>2, <2>3 DEF WalkInv, NoTwice, InPool, Told
<1>8. CASE ClearDone
  <2>1. pool' = <<>> /\ lock' = "free" /\ main'.pc = "end"
    BY <1>8 DEF ClearDone
  <2> QED
    BY <2>1, WalkPool DEF NoTwice, InPool
<1>9. CASE RunStartAudit \/ StopService
  <2>1. main.pc \notin {"stop", "join"} /\ main'.pc \notin {"stop", "join"}
        /\ UNCHANGED <<lock, pool, thread>>
    BY <1>0, <1>9 DEF RunStartAudit, StopService, MainTo
  <2> QED
    BY <1>0, <2>1 DEF WalkInv, NoTwice, InPool
<1>10. CASE MoveSelf
  <2>1. OnlyThread
    BY <1>10 DEF MoveSelf, RegisterFails, RegisterStartAudit, HeartbeatNewFrequency,
                HeartbeatGet, UpgradeStarted, TurnEnds, UseFreed
  <2>2. PICK j \in Jobs, place \in {"wait", "addAudit", "getHeartbeat", "remove", "ended"} :
            To(j, place) /\ ~Ended(j)
    BY <1>10 DEF MoveSelf, RegisterFails, RegisterStartAudit, HeartbeatNewFrequency,
                HeartbeatGet, UpgradeStarted, TurnEnds, UseFreed, Ended, Jobs
  <2>3. \A k \in Jobs : Told(k) => Told(k)'
    BY <1>0, <2>1, <2>2 DEF OnlyThread, To, Told, Ended
  <2>4. \A k \in Jobs : thread[k] # "none" => thread'[k] # "none"
    BY <1>0, <2>2 DEF To
  <2> QED
    BY <2>1, <2>3, <2>4, WalkKept DEF OnlyThread
<1>11. CASE RegisterAgent
  <2>1. \A k \in Jobs : Told(k) => Told(k)'
    BY <1>0, <1>11 DEF RegisterAgent, To, Told, Ended
  <2>2. \A k \in Jobs : thread[k] # "none" => thread'[k] # "none"
    BY <1>0, <1>11 DEF RegisterAgent, To
  <2> QED
    BY <1>11, <2>1, <2>2, WalkKept DEF RegisterAgent
<1>12. ASSUME NEW j \in Jobs, NEW signalled \in BOOLEAN, WorkerWake(j, signalled)
       PROVE  WalkInv'
  <2>1. \A k \in Jobs : Told(k) => Told(k)'
    BY <1>0, <1>12 DEF WorkerWake, Told, Ended
  <2>2. \A k \in Jobs : thread[k] # "none" => thread'[k] # "none"
    BY <1>0, <1>12 DEF WorkerWake
  <2> QED
    BY <1>12, <2>1, <2>2, WalkKept DEF WorkerWake
<1>13. ASSUME NEW j \in Jobs, DetachSelf(j) PROVE WalkInv'
  <2>1. \A k \in Jobs : Told(k) => Told(k)'
    BY <1>0, <1>13 DEF DetachSelf, To, Told, Ended
  <2>2. \A k \in Jobs : thread[k] # "none" => thread'[k] # "none"
    BY <1>0, <1>13 DEF DetachSelf, To
  <2> QED
    BY <1>13, <2>1, <2>2, WalkKept DEF DetachSelf
<1>14. CASE Trigger
  BY <1>0, <1>14, WalkKept DEF Trigger, Told, Ended
<1>15. CASE Pause \/ UNCHANGED vars
  BY <1>15, WalkKept DEF Pause, vars, Told, Ended
<1> QED
  BY <1>1, <1>2, <1>3, <1>4, <1>5, <1>6, <1>7, <1>8, <1>9, <1>10, <1>11, <1>12, <1>13, <1>14,
     <1>15
  DEF Next, Main, Register, Worker, Turns, MoveSelf, RegisterTerminates, UseFreedFaults
JobInv == TypeInv /\ PoolInv /\ WalkInv

LEMMA JobInvHolds == Spec => []JobInv
<1>1. Init => WalkInv
  BY DEF Init, WalkInv, NoTwice, InPool
<1> QED
  BY <1>1, WalkStep, TypeInvHolds, PoolInvHolds, PTL DEF Spec, JobInv

-----------------------------------------------------------------------------
(* The jobs of an agent that has just been registered *)

\* The service has been told to stop, or is gone.
Ending == main.pc \in {"clear", "stop", "join", "end", "crashed"}
Has(j) == thread[j] # "none"
AddPlaces == {"addHeartbeat", "startAudit", "addAudit", "addCheckupdate"}
\* The register job's steps, and who has a thread by then.
AddingHeartbeat == thread["register"] = "addHeartbeat"
StartingAudit == thread["register"] = "startAudit" /\ Has("heartbeat")
AddingAudit == thread["register"] = "addAudit" /\ Has("heartbeat")
AddingCheckupdate == thread["register"] = "addCheckupdate" /\ Has("heartbeat") /\ Has("audit")
AllThree == Has("heartbeat") /\ Has("audit") /\ Has("checkupdate")

\* Only the end of the process takes a thread from a job, and nobody but the
\* register job moves its thread while it adds the others.
LEMMA RegisterFrame ==
    ASSUME JobInv, [Next]_vars, ~Crash
    PROVE  /\ \A j \in Jobs : Has(j) => Has(j)'
           /\ thread["register"] \in AddPlaces /\ ~Register => thread'["register"] = thread["register"]
<1>0. thread \in [Jobs -> Places] /\ "register" \in Jobs
  BY DEF JobInv, TypeInv, TypeOK, Jobs
<1> USE DEF Has, AddPlaces
<1>1. CASE RunJobs \/ RunAddAudit \/ RunAddCheckupdate
  <2>1. PICK j \in Jobs : thread' = Started(j)
    BY <1>1 DEF RunJobs, RunAddAudit, RunAddCheckupdate, RunAdd, Jobs
  <2>2. \A k \in Jobs : thread'[k] = thread[k] \/ (k = j /\ ~InPool(k) /\ thread'[k] = "turn")
    BY <1>0, <2>1 DEF Started
  <2>3. thread["register"] \in AddPlaces => InPool("register")
    BY <1>0 DEF JobInv, PoolInv, Live
  <2> QED
    BY <1>0, <2>2, <2>3
<1>2. CASE RegisterAddHeartbeat \/ RegisterAddAudit \/ RegisterAddCheckupdate
  <2>1. PICK j \in Jobs, place \in Places, next \in Places \ {"none"} : RegisterAdd(j, place, next)
    BY <1>2 DEF RegisterAddHeartbeat, RegisterAddAudit, RegisterAddCheckupdate, Jobs, Places
  <2>2. thread' = [Started(j) EXCEPT !["register"] = next] /\ Started(j) \in [Jobs -> Places]
    BY <2>1, AddTypes DEF RegisterAdd, JobInv
  <2>3. \A k \in Jobs : Has(k) => Started(j)[k] # "none"
    BY <1>0 DEF Started
  <2> QED
    BY <1>2, <2>2, <2>3 DEF Register
<1>3. CASE RegisterFails \/ RegisterAgent \/ RegisterStartAudit
  BY <1>0, <1>3 DEF RegisterFails, RegisterAgent, RegisterStartAudit, To, Register
<1>4. ASSUME NEW j \in Jobs, Worker(j)
      PROVE  /\ \A k \in Jobs : Has(k) => Has(k)'
             /\ thread["register"] \in AddPlaces => thread'["register"] = thread["register"]
  BY <1>0, <1>4 DEF Worker, WorkerWake, RemoveSelf, DetachSelf, UseFreed, UseFreedFaults, TurnEnds, To
<1>5. CASE Turns
  BY <1>0, <1>5 DEF Turns, HeartbeatNewFrequency, HeartbeatGet, UpgradeStarted, To
<1>6. CASE \/ RunStartAudit \/ StopService \/ Clear \/ ClearStop \/ ClearJoin \/ ClearDone
           \/ Pause \/ Trigger \/ UNCHANGED vars
  BY <1>6 DEF RunStartAudit, StopService, Clear, ClearStop, ClearJoin, ClearDone, Pause, Trigger, vars
<1> QED
  BY <1>1, <1>2, <1>3, <1>4, <1>5, <1>6 DEF Next, Main, Register, RegisterTerminates

\* A service that is told to stop does not go back.
LEMMA EndingStays ==
    ASSUME JobInv, [Next]_vars
    PROVE  /\ Ending => Ending'
           /\ Crash => Ending'
<1>0. main \in [pc : MainPlaces, at : Nat]
  BY DEF JobInv, TypeInv
<1>1. Crash => Ending'
  BY DEF Crash, Ending
<1>2. Main => (Ending => Ending')
  BY <1>0 DEF Main, RunJobs, RunStartAudit, RunAddAudit, RunAddCheckupdate, RunAdd, StopService,
     Clear, ClearStop, ClearJoin, ClearDone, MainTo, Ending
<1>3. ~Main /\ ~Crash => main' = main
  BY DEF Next, Pause, Register, RegisterFails, RegisterAgent, RegisterAddHeartbeat, RegisterStartAudit,
     RegisterAddAudit, RegisterAddCheckupdate, RegisterTerminates, RegisterAdd, Worker, WorkerWake,
     RemoveSelf, DetachSelf, UseFreed, UseFreedFaults, TurnEnds, Turns, HeartbeatNewFrequency,
     HeartbeatGet, UpgradeStarted, Trigger, OnlyThread, vars
<1> QED
  BY <1>1, <1>2, <1>3 DEF Ending

\* What the register job's steps do, while it adds.
LEMMA RegisterMoves ==
    ASSUME JobInv, [Next]_vars, Register, ~Ending'
    PROVE  /\ AddingHeartbeat => StartingAudit'
           /\ StartingAudit => AddingAudit'
           /\ AddingAudit => AddingCheckupdate'
           /\ AddingCheckupdate => AllThree'
<1>0. thread \in [Jobs -> Places] /\ Jobs = {"register", "heartbeat", "audit", "checkupdate"}
  BY DEF JobInv, TypeInv, TypeOK, Jobs
<1>1. ~Crash
  BY EndingStays
<1>2. \A k \in Jobs : Has(k) => Has(k)'
  BY <1>1, RegisterFrame
<1>3. ASSUME NEW j \in Jobs \ {"register"}, NEW place \in Places, NEW next \in Places,
             RegisterAdd(j, place, next)
      PROVE  thread'["register"] = next /\ Has(j)'
  <2>1. thread' = [Started(j) EXCEPT !["register"] = next] /\ Started(j) \in [Jobs -> Places]
    BY <1>3, AddTypes DEF RegisterAdd, JobInv
  <2>2. Started(j)[j] # "none"
    BY <1>0 DEF Started, JobInv, WalkInv
  <2> QED
    BY <1>0, <2>1, <2>2 DEF Has
<1>4. CASE RegisterAddHeartbeat
  <2>1. thread["register"] = "addHeartbeat" /\ thread'["register"] = "startAudit" /\ Has("heartbeat")'
    BY <1>0, <1>3, <1>4 DEF RegisterAddHeartbeat, Places, RegisterAdd
  <2> QED
    BY <2>1 DEF AddingHeartbeat, StartingAudit, AddingAudit, AddingCheckupdate
<1>5. CASE RegisterAddAudit
  <2>1. thread["register"] = "addAudit" /\ thread'["register"] = "addCheckupdate" /\ Has("audit")'
    BY <1>0, <1>3, <1>5 DEF RegisterAddAudit, Places, RegisterAdd
  <2> QED
    BY <1>0, <1>2, <2>1 DEF AddingHeartbeat, StartingAudit, AddingAudit, AddingCheckupdate
<1>6. CASE RegisterAddCheckupdate
  <2>1. thread["register"] = "addCheckupdate" /\ Has("checkupdate")'
    BY <1>0, <1>3, <1>6 DEF RegisterAddCheckupdate, Places, RegisterAdd
  <2> QED
    BY <1>0, <1>2, <2>1 DEF AddingHeartbeat, StartingAudit, AddingAudit, AddingCheckupdate, AllThree
<1>7. CASE RegisterFails \/ RegisterAgent \/ RegisterStartAudit
  BY <1>0, <1>2, <1>7 DEF RegisterFails, RegisterAgent, RegisterStartAudit, To,
     AddingHeartbeat, StartingAudit, AddingAudit, AddingCheckupdate
<1> QED
  BY <1>1, <1>4, <1>5, <1>6, <1>7 DEF Register, RegisterTerminates

LEMMA AddingMoves ==
    ASSUME JobInv, [Next]_vars
    PROVE  /\ AddingHeartbeat => AddingHeartbeat' \/ StartingAudit' \/ Ending'
           /\ StartingAudit => StartingAudit' \/ AddingAudit' \/ Ending'
           /\ AddingAudit => AddingAudit' \/ AddingCheckupdate' \/ Ending'
           /\ AddingCheckupdate => AddingCheckupdate' \/ AllThree' \/ Ending'
           /\ Register => /\ AddingHeartbeat => StartingAudit' \/ Ending'
                          /\ StartingAudit => AddingAudit' \/ Ending'
                          /\ AddingAudit => AddingCheckupdate' \/ Ending'
                          /\ AddingCheckupdate => AllThree' \/ Ending'
<1>1. CASE Ending'
  BY <1>1
<1>2. CASE Register /\ ~Ending'
  BY <1>2, RegisterMoves
<1>3. CASE ~Register /\ ~Ending'
  BY <1>3, EndingStays, RegisterFrame
  DEF AddPlaces, AddingHeartbeat, StartingAudit, AddingAudit, AddingCheckupdate, Jobs
<1> QED
  BY <1>1, <1>2, <1>3

\* An agent that has just been registered gets its three jobs, whatever the main
\* thread and the other jobs do meanwhile, unless the service is stopped or ends
\* by itself: for any number of triggers.
THEOREM RegisteredGetsJobs == FairSpec /\ []StepsEnabled => JobsFollowRegistration
<1>1. JobInv /\ [Next]_vars =>
          /\ AddingHeartbeat => AddingHeartbeat' \/ StartingAudit' \/ Ending'
          /\ StartingAudit => StartingAudit' \/ AddingAudit' \/ Ending'
          /\ AddingAudit => AddingAudit' \/ AddingCheckupdate' \/ Ending'
          /\ AddingCheckupdate => AddingCheckupdate' \/ AllThree' \/ Ending'
  BY AddingMoves
<1>2. JobInv /\ [Next]_vars /\ <<Register>>_vars =>
          /\ AddingHeartbeat => StartingAudit' \/ Ending'
          /\ StartingAudit => AddingAudit' \/ Ending'
          /\ AddingAudit => AddingCheckupdate' \/ Ending'
          /\ AddingCheckupdate => AllThree' \/ Ending'
  BY AddingMoves
<1>3. JobInv /\ ~Ending => lock = "free"
  BY DEF JobInv, WalkInv, Ending, TypeInv, TypeOK
<1>4. JobInv /\ StepsEnabled /\ ~Ending =>
          /\ AddingHeartbeat => ENABLED <<Register>>_vars
          /\ StartingAudit => ENABLED <<Register>>_vars
          /\ AddingAudit => ENABLED <<Register>>_vars
          /\ AddingCheckupdate => ENABLED <<Register>>_vars
  BY <1>3 DEF StepsEnabled, AddingHeartbeat, StartingAudit, AddingAudit, AddingCheckupdate
<1>5. FairSpec => []JobInv /\ [][Next]_vars /\ WF_vars(Register)
  BY JobInvHolds, PTL DEF FairSpec, Spec
<1>6. FairSpec /\ []StepsEnabled => (AddingHeartbeat ~> StartingAudit \/ Ending)
  BY <1>1, <1>2, <1>4, <1>5, PTL
<1>7. FairSpec /\ []StepsEnabled => (StartingAudit ~> AddingAudit \/ Ending)
  BY <1>1, <1>2, <1>4, <1>5, PTL
<1>8. FairSpec /\ []StepsEnabled => (AddingAudit ~> AddingCheckupdate \/ Ending)
  BY <1>1, <1>2, <1>4, <1>5, PTL
<1>9. FairSpec /\ []StepsEnabled => (AddingCheckupdate ~> AllThree \/ Ending)
  BY <1>1, <1>2, <1>4, <1>5, PTL
<1>10. /\ thread["register"] = "addHeartbeat" => AddingHeartbeat
       /\ AllThree \/ Ending
              => \/ thread["heartbeat"] # "none" /\ thread["audit"] # "none"
                    /\ thread["checkupdate"] # "none"
                 \/ main.pc \in {"clear", "stop", "join", "end", "crashed"}
  BY DEF AddingHeartbeat, AllThree, Has, Ending
<1> QED
  BY <1>6, <1>7, <1>8, <1>9, <1>10, PTL DEF JobsFollowRegistration

-----------------------------------------------------------------------------
(* clear() ends unless a job needs the lock it keeps *)

Halted == main.pc \in {"end", "crashed"} \/ Stuck
\* clear() is about to tell the i-th job, or waits for it, and which job that is.
WalkAt(i) == main.pc = "stop" /\ main.at = i
JoinAt(i) == main.pc = "join" /\ main.at = i
Joining(i, j) == JoinAt(i) /\ pool[i] = j
\* What the thread of a job that clear() waits for goes through.
Working(j) == thread[j] \in {"turn", "startAudit"}
Waiting(j) == thread[j] = "wait" /\ event[j] /\ stopping[j]
Leaving(j, place) == thread[j] = place

\* Who moves while clear() has the lock: it, or a job that does not need the pool.
LEMMA LockedSteps ==
    ASSUME lock = "main", [Next]_vars
    PROVE  \/ ClearStop \/ ClearJoin \/ ClearDone
           \/ RunStartAudit \/ StopService \/ Pause \/ Crash
           \/ RegisterFails \/ RegisterAgent \/ RegisterStartAudit
           \/ \E j \in Jobs : \/ \E signalled \in BOOLEAN : WorkerWake(j, signalled)
                              \/ DetachSelf(j) \/ UseFreed(j) \/ TurnEnds(j)
           \/ HeartbeatNewFrequency \/ UpgradeStarted
           \/ UNCHANGED vars
BY DEF Next, Main, RunJobs, RunAddAudit, RunAddCheckupdate, RunAdd, Clear, Register,
   RegisterAddHeartbeat, RegisterAddAudit, RegisterAddCheckupdate, RegisterAdd, RegisterTerminates,
   Worker, RemoveSelf, UseFreedFaults, Turns, HeartbeatGet, Trigger

\* While clear() waits for a job, only that job's own thread moves it, and it
\* only moves towards its end.
JoinStep(i, j) ==
    /\ Joining(i, j)' \/ (Ended(j) /\ WalkAt(i + 1)')
    /\ Working(j) => Working(j)' \/ Waiting(j)'
    /\ Waiting(j) => Waiting(j)' \/ Ended(j)'
    /\ Leaving(j, "detach") => Leaving(j, "detach")' \/ Leaving(j, "freed")'
    /\ Leaving(j, "freed") => Leaving(j, "freed")' \/ Ended(j)'
    /\ Ended(j) => Ended(j)'

LEMMA JoinMoves ==
    ASSUME JobInv, [Next]_vars, NEW i \in Nat, NEW j \in Jobs, Joining(i, j), ~Halted, ~Halted'
    PROVE  JoinStep(i, j)
<1>0. /\ lock = "main" /\ thread \in [Jobs -> Places] /\ pool[i] = j /\ main.pc = "join"
      /\ main.at = i /\ main \in [pc : MainPlaces, at : Nat]
      /\ event \in [Jobs -> BOOLEAN] /\ stopping \in [Jobs -> BOOLEAN]
      /\ stopping[j] /\ (event[j] \/ Ended(j))
  BY DEF JobInv, TypeInv, TypeOK, WalkInv, Told, Joining, JoinAt
<1>1. main' = main /\ pool' = pool => thread'[j] \notin NeedsLock
  BY <1>0 DEF Halted, Stuck
<1> USE DEF JoinStep, Working, Waiting, Leaving, Ended, Joining, JoinAt, WalkAt
<1>2. CASE ClearJoin
  BY <1>0, <1>2 DEF ClearJoin
<1>3. CASE ClearStop \/ ClearDone \/ RunStartAudit \/ StopService \/ Crash
  BY <1>0, <1>3 DEF ClearStop, ClearDone, RunStartAudit, StopService, Crash, Halted
\* the thread is not j's
<1>4. ASSUME UNCHANGED <<main, pool>>, thread'[j] = thread[j], event'[j] = event[j],
             stopping'[j] = stopping[j]
      PROVE  JoinStep(i, j)
  <2>1. Joining(i, j)'
    BY <1>0, <1>4
  <2>2. /\ Working(j) => Working(j)'
        /\ Leaving(j, "detach") => Leaving(j, "detach")'
        /\ Leaving(j, "freed") => Leaving(j, "freed")'
        /\ Ended(j) => Ended(j)'
    BY <1>4
  <2>3. Waiting(j) => Waiting(j)'
    BY <1>4, Zenon
  <2> QED
    BY <2>1, <2>2, <2>3
<1>5. ASSUME NEW k \in Jobs, UNCHANGED <<main, pool, stopping, event>>, ~Ended(k), thread[k] # "wait",
             \A n \in Jobs \ {k} : thread'[n] = thread[n],
             \/ thread[k] \in {"turn", "startAudit"} /\ thread'[k] \in {"wait"} \cup NeedsLock
             \/ thread[k] = "freed" /\ thread'[k] = "ended"
      PROVE  JoinStep(i, j)
  <2>1. CASE k # j
    BY <1>4, <1>5, <2>1
  <2>2. CASE k = j
    <3>1. Joining(i, j)'
      BY <1>0, <1>5
    <3>2. Working(j) => thread'[j] = "wait"
      BY <1>1, <1>5, <2>2
    <3>3. Working(j) => Waiting(j)'
      BY <1>0, <1>5, <3>2
    <3>4. ~Waiting(j) /\ ~Leaving(j, "detach") /\ ~Ended(j)
      BY <1>5, <2>2
    <3>5. Leaving(j, "freed") => Ended(j)'
      BY <1>5, <2>2
    <3> QED
      BY <3>1, <3>3, <3>4, <3>5
  <2> QED
    BY <2>1, <2>2
<1>6. CASE RegisterFails \/ RegisterAgent \/ RegisterStartAudit \/ HeartbeatNewFrequency \/ UpgradeStarted
  BY <1>0, <1>5, <1>6 DEF RegisterFails, RegisterAgent, RegisterStartAudit, HeartbeatNewFrequency,
     UpgradeStarted, To, OnlyThread, NeedsLock, Jobs
<1>7. ASSUME NEW k \in Jobs, TurnEnds(k) \/ UseFreed(k) PROVE JoinStep(i, j)
  BY <1>0, <1>5, <1>7 DEF TurnEnds, UseFreed, To, OnlyThread
<1>8. ASSUME NEW k \in Jobs, NEW signalled \in BOOLEAN, WorkerWake(k, signalled) PROVE JoinStep(i, j)
  <2>1. CASE k # j
    BY <1>0, <1>4, <1>8, <2>1 DEF WorkerWake
  <2>2. CASE k = j
    <3>1. Joining(i, j)' /\ thread[j] = "wait" /\ thread'[j] = "ended"
      BY <1>0, <1>8, <2>2 DEF WorkerWake
    <3> QED
      BY <3>1
  <2> QED
    BY <2>1, <2>2
<1>9. ASSUME NEW k \in Jobs, DetachSelf(k) PROVE JoinStep(i, j)
  <2>1. CASE k # j
    BY <1>0, <1>4, <1>9, <2>1 DEF DetachSelf, To
  <2>2. CASE k = j
    <3>1. Joining(i, j)' /\ thread[j] = "detach" /\ thread'[j] = "freed"
      BY <1>0, <1>9, <2>2 DEF DetachSelf, To
    <3> QED
      BY <3>1
  <2> QED
    BY <2>1, <2>2
<1>10. CASE Pause \/ UNCHANGED vars
  BY <1>4, <1>10 DEF Pause, vars
<1> QED
  BY <1>0, <1>2, <1>3, <1>6, <1>7, <1>8, <1>9, <1>10, LockedSteps

\* What each of the fair steps does then.
LEMMA JoinHelps ==
    ASSUME JobInv, [Next]_vars, NEW i \in Nat, NEW j \in Jobs, Joining(i, j), ~Halted, ~Halted'
    PROVE  /\ TurnEnds(j) => Waiting(j)'
           /\ Register /\ j = "register" /\ Working(j) => Waiting(j)'
           /\ WorkerWake(j, TRUE) => Ended(j)'
           /\ DetachSelf(j) => Leaving(j, "freed")'
           /\ UseFreed(j) => Ended(j)'
           /\ ClearJoin => WalkAt(i + 1)'
<1>0. /\ lock = "main" /\ thread \in [Jobs -> Places] /\ pool[i] = j /\ main.pc = "join"
      /\ main.at = i /\ main \in [pc : MainPlaces, at : Nat]
      /\ event \in [Jobs -> BOOLEAN] /\ stopping \in [Jobs -> BOOLEAN]
      /\ stopping[j] /\ (event[j] \/ Ended(j))
  BY DEF JobInv, TypeInv, TypeOK, WalkInv, Told, Joining, JoinAt
<1>1. main' = main /\ pool' = pool => thread'[j] \notin NeedsLock
  BY <1>0 DEF Halted, Stuck
<1> USE DEF Working, Waiting, Leaving, Ended
<1>2. TurnEnds(j) => Waiting(j)'
  BY <1>0 DEF TurnEnds, To, OnlyThread
<1>3. Register /\ j = "register" /\ Working(j) => Waiting(j)'
  BY <1>0, <1>1 DEF Register, RegisterFails, RegisterAgent, RegisterStartAudit, RegisterTerminates,
     RegisterAddHeartbeat, RegisterAddAudit, RegisterAddCheckupdate, RegisterAdd, Crash, Halted,
     To, OnlyThread, NeedsLock
<1>4. WorkerWake(j, TRUE) => Ended(j)'
  BY <1>0 DEF WorkerWake
<1>5. DetachSelf(j) => Leaving(j, "freed")'
  BY <1>0 DEF DetachSelf, To
<1>6. UseFreed(j) => Ended(j)'
  BY <1>0 DEF UseFreed, To
<1>7. ClearJoin => WalkAt(i + 1)'
  BY <1>0 DEF ClearJoin, WalkAt
<1> QED
  BY <1>2, <1>3, <1>4, <1>5, <1>6, <1>7

\* Only the register job's thread starts the audit service.
OwnPlaces == \A j \in Jobs \ {"register"} : thread[j] # "startAudit"

LEMMA OwnPlacesHolds == Spec => []OwnPlaces
<1>1. Init => OwnPlaces
  BY DEF Init, OwnPlaces
<1>2. TypeInv /\ OwnPlaces /\ [Next]_vars => OwnPlaces'
  <2> SUFFICES ASSUME TypeInv, OwnPlaces, [Next]_vars PROVE OwnPlaces'
    OBVIOUS
  <2>0. thread \in [Jobs -> Places]
    BY DEF TypeInv, TypeOK
  <2>1. \A k \in Jobs : Started(k) \in [Jobs -> Places] /\ \A j \in Jobs \ {"register"} : Started(k)[j] # "startAudit"
    BY <2>0 DEF Started, OwnPlaces, Places
  <2>2. CASE RunJobs
    BY <2>1, <2>2 DEF RunJobs, OwnPlaces, Jobs
  <2>3. CASE RunAddAudit \/ RunAddCheckupdate
    BY <2>1, <2>3 DEF RunAddAudit, RunAddCheckupdate, RunAdd, OwnPlaces, Jobs
  <2>4. CASE RegisterAddHeartbeat \/ RegisterAddAudit \/ RegisterAddCheckupdate
    BY <2>1, <2>4 DEF RegisterAddHeartbeat, RegisterAddAudit, RegisterAddCheckupdate, RegisterAdd,
       OwnPlaces, Jobs
  <2>5. CASE \/ RegisterFails \/ RegisterAgent \/ RegisterStartAudit \/ RegisterTerminates
             \/ Turns
    BY <2>0, <2>5 DEF RegisterFails, RegisterAgent, RegisterStartAudit, RegisterTerminates, Crash, Turns,
       HeartbeatNewFrequency, HeartbeatGet, UpgradeStarted, To, OwnPlaces
  <2>6. ASSUME NEW j \in Jobs, Worker(j) PROVE OwnPlaces'
    BY <2>0, <2>6 DEF Worker, WorkerWake, RemoveSelf, DetachSelf, UseFreed, UseFreedFaults, Crash,
       TurnEnds, To, OwnPlaces
  <2>7. CASE \/ RunStartAudit \/ StopService \/ Clear \/ ClearStop \/ ClearJoin \/ ClearDone
             \/ Pause \/ Trigger \/ UNCHANGED vars
    BY <2>7 DEF RunStartAudit, StopService, Clear, ClearStop, ClearJoin, ClearDone, Pause, Trigger,
       vars, OwnPlaces
  <2> QED
    BY <2>2, <2>3, <2>4, <2>5, <2>6, <2>7 DEF Next, Main, Register
<1> QED
  BY <1>1, <1>2, TypeInvHolds, PTL DEF Spec

LEMMA WorkersFair == FairSpec => (\A j \in Jobs : WorkerFair(j))
BY PTL DEF FairSpec

\* Wherever its thread is, a job that was told ends, and clear() goes on to the
\* next one.
JobLeaves(i, j) == Joining(i, j) ~> WalkAt(i + 1) \/ Halted

LEMMA JobEnds ==
    ASSUME NEW i \in Nat, NEW j \in Jobs
    PROVE  FairSpec /\ []StepsEnabled => JobLeaves(i, j)
<1> DEFINE Inv == JobInv /\ OwnPlaces
<1>1. FairSpec => []Inv /\ [][Next]_vars
  BY JobInvHolds, OwnPlacesHolds, PTL DEF FairSpec, Spec
<1>2. FairSpec => WF_vars(Register) /\ WF_vars(ClearJoin)
  BY PTL DEF FairSpec
<1>3. FairSpec => /\ WF_vars(WorkerWake(j, TRUE)) /\ WF_vars(DetachSelf(j))
                  /\ WF_vars(UseFreed(j)) /\ WF_vars(TurnEnds(j))
  <2>1. FairSpec => WorkerFair(j)
    BY WorkersFair
  <2>2. WorkerFair(j) => /\ WF_vars(WorkerWake(j, TRUE)) /\ WF_vars(DetachSelf(j))
                         /\ WF_vars(UseFreed(j)) /\ WF_vars(TurnEnds(j))
    BY PTL DEF WorkerFair
  <2> QED
    BY <2>1, <2>2, PTL
\* where its thread can be
<1>4. Inv /\ Joining(i, j) => \/ Halted \/ Working(j) \/ Waiting(j) \/ Leaving(j, "detach")
                              \/ Leaving(j, "freed") \/ Ended(j)
  BY DEF JobInv, TypeInv, TypeOK, WalkInv, Told, Joining, JoinAt, Halted, Stuck, Working, Waiting,
     Leaving, Ended, Places, NeedsLock
\* what the steps do
<1>5. Inv /\ [Next]_vars /\ Joining(i, j) /\ ~Halted =>
          \/ Halted'
          \/ WalkAt(i + 1)'
          \/ /\ Joining(i, j)'
             /\ Working(j) => Working(j)' \/ Waiting(j)'
             /\ Waiting(j) => Waiting(j)' \/ Ended(j)'
             /\ Leaving(j, "detach") => Leaving(j, "detach")' \/ Leaving(j, "freed")'
             /\ Leaving(j, "freed") => Leaving(j, "freed")' \/ Ended(j)'
             /\ Ended(j) => Ended(j)'
  BY JoinMoves DEF JoinStep
<1>6. Inv /\ [Next]_vars /\ Joining(i, j) /\ ~Halted =>
          \/ Halted'
          \/ /\ TurnEnds(j) => Waiting(j)'
             /\ Register /\ j = "register" /\ Working(j) => Waiting(j)'
             /\ WorkerWake(j, TRUE) => Ended(j)'
             /\ DetachSelf(j) => Leaving(j, "freed")'
             /\ UseFreed(j) => Ended(j)'
             /\ ClearJoin => WalkAt(i + 1)'
  BY JoinHelps
\* one after the other
<1>7. FairSpec /\ []StepsEnabled =>
          (Joining(i, j) /\ Working(j) ~> (Joining(i, j) /\ Waiting(j)) \/ WalkAt(i + 1) \/ Halted)
  <2>1. CASE j = "register"
    <3>1. StepsEnabled /\ Working(j) => ENABLED <<Register>>_vars
      BY <2>1 DEF StepsEnabled, Working
    <3>2. Inv /\ [Next]_vars /\ <<Register>>_vars /\ Joining(i, j) /\ ~Halted /\ Working(j)
              => Halted' \/ Waiting(j)'
      BY <1>6, <2>1
    <3> QED
      BY <1>1, <1>2, <1>5, <3>1, <3>2, PTL
  <2>2. CASE j # "register"
    <3>1. Inv /\ StepsEnabled /\ Working(j) => ENABLED <<TurnEnds(j)>>_vars
      BY <2>2 DEF StepsEnabled, Working, OwnPlaces
    <3>2. Inv /\ [Next]_vars /\ <<TurnEnds(j)>>_vars /\ Joining(i, j) /\ ~Halted
              => Halted' \/ Waiting(j)'
      BY <1>6
    <3> QED
      BY <1>1, <1>3, <1>5, <3>1, <3>2, PTL
  <2> QED
    BY <2>1, <2>2
<1>8. FairSpec /\ []StepsEnabled =>
          (Joining(i, j) /\ Waiting(j) ~> (Joining(i, j) /\ Ended(j)) \/ WalkAt(i + 1) \/ Halted)
  <2>1. StepsEnabled /\ Waiting(j) => ENABLED <<WorkerWake(j, TRUE)>>_vars
    BY DEF StepsEnabled, Waiting
  <2>2. Inv /\ [Next]_vars /\ <<WorkerWake(j, TRUE)>>_vars /\ Joining(i, j) /\ ~Halted
            => Halted' \/ Ended(j)'
    BY <1>6
  <2> QED
    BY <1>1, <1>3, <1>5, <2>1, <2>2, PTL
<1>9. FairSpec /\ []StepsEnabled =>
          (Joining(i, j) /\ Leaving(j, "detach")
               ~> (Joining(i, j) /\ Leaving(j, "freed")) \/ WalkAt(i + 1) \/ Halted)
  <2>1. StepsEnabled /\ Leaving(j, "detach") => ENABLED <<DetachSelf(j)>>_vars
    BY DEF StepsEnabled, Leaving
  <2>2. Inv /\ [Next]_vars /\ <<DetachSelf(j)>>_vars /\ Joining(i, j) /\ ~Halted
            => Halted' \/ Leaving(j, "freed")'
    BY <1>6
  <2> QED
    BY <1>1, <1>3, <1>5, <2>1, <2>2, PTL
<1>10. FairSpec /\ []StepsEnabled =>
          (Joining(i, j) /\ Leaving(j, "freed")
               ~> (Joining(i, j) /\ Ended(j)) \/ WalkAt(i + 1) \/ Halted)
  <2>1. StepsEnabled /\ Leaving(j, "freed") => ENABLED <<UseFreed(j)>>_vars
    BY DEF StepsEnabled, Leaving
  <2>2. Inv /\ [Next]_vars /\ <<UseFreed(j)>>_vars /\ Joining(i, j) /\ ~Halted
            => Halted' \/ Ended(j)'
    BY <1>6
  <2> QED
    BY <1>1, <1>3, <1>5, <2>1, <2>2, PTL
<1>11. FairSpec /\ []StepsEnabled =>
          (Joining(i, j) /\ Ended(j) ~> WalkAt(i + 1) \/ Halted)
  <2>1. StepsEnabled /\ Joining(i, j) /\ Ended(j) => ENABLED <<ClearJoin>>_vars
    BY DEF StepsEnabled, Joining, JoinAt
  <2>2. Inv /\ [Next]_vars /\ <<ClearJoin>>_vars /\ Joining(i, j) /\ ~Halted
            => Halted' \/ WalkAt(i + 1)'
    BY <1>6
  <2> QED
    BY <1>1, <1>2, <1>5, <2>1, <2>2, PTL
<1> QED
  BY <1>1, <1>4, <1>7, <1>8, <1>9, <1>10, <1>11, PTL DEF JobLeaves

\* clear() gets the lock, tells each job when it comes to it, and is done after
\* the last.
InQueue(i) == i <= Len(pool)

LEMMA WalkMoves ==
    ASSUME JobInv, [Next]_vars, ~Halted, NEW i \in 1..5
    PROVE  /\ main.pc = "clear" => main'.pc = "clear" \/ WalkAt(1)' \/ Halted'
           /\ WalkAt(i) /\ InQueue(i) => (WalkAt(i) /\ InQueue(i))' \/ JoinAt(i)' \/ Halted'
           /\ WalkAt(i) /\ ~InQueue(i) => (WalkAt(i) /\ ~InQueue(i))' \/ Halted'
           /\ Clear => WalkAt(1)'
           /\ ClearStop /\ WalkAt(i) => JoinAt(i)'
           /\ ClearDone => Halted'
<1>0. /\ main \in [pc : MainPlaces, at : Nat] /\ pool \in Seq(Jobs) /\ Len(pool) \in Nat
      /\ main.pc = "stop" => lock = "main"
  BY DEF JobInv, TypeInv, TypeOK
<1> USE DEF WalkAt, JoinAt, InQueue
<1>1. /\ Clear => WalkAt(1)'
      /\ ClearStop /\ WalkAt(i) => JoinAt(i)'
      /\ ClearDone => Halted'
  BY <1>0 DEF Clear, ClearStop, ClearDone, MainTo, Halted
<1>2. main.pc = "clear" => main'.pc = "clear" \/ WalkAt(1)' \/ Halted'
  <2>1. Main /\ main.pc = "clear" => Clear
    BY DEF Main, RunJobs, RunStartAudit, RunAddAudit, RunAddCheckupdate, RunAdd, StopService,
       ClearStop, ClearJoin, ClearDone
  <2>2. Crash => Halted'
    BY DEF Crash, Halted
  <2>3. ~Main /\ ~Crash => main' = main
    BY DEF Next, Pause, Register, RegisterFails, RegisterAgent, RegisterAddHeartbeat, RegisterStartAudit,
       RegisterAddAudit, RegisterAddCheckupdate, RegisterTerminates, RegisterAdd, Worker, WorkerWake,
       RemoveSelf, DetachSelf, UseFreed, UseFreedFaults, TurnEnds, Turns, HeartbeatNewFrequency,
       HeartbeatGet, UpgradeStarted, Trigger, OnlyThread, vars
  <2> QED
    BY <1>1, <2>1, <2>2, <2>3
<1>3. ASSUME WalkAt(i)
      PROVE  \/ UNCHANGED <<main, pool>> \/ ClearStop \/ ClearDone \/ Crash
  BY <1>0, <1>3, LockedSteps
  DEF ClearJoin, RunStartAudit, StopService, Pause, RegisterFails, RegisterAgent, RegisterStartAudit,
      WorkerWake, DetachSelf, UseFreed, TurnEnds, HeartbeatNewFrequency, UpgradeStarted,
      OnlyThread, vars
<1>4. Crash => Halted'
  BY DEF Crash, Halted
<1>5. ClearStop /\ WalkAt(i) => InQueue(i)
  BY <1>0 DEF ClearStop
<1> QED
  BY <1>1, <1>2, <1>3, <1>4, <1>5

\* One turn of clear()'s loop.
WalkGoesOn(i) == WalkAt(i) ~> WalkAt(i + 1) \/ Halted

LEMMA WalkStepEnds ==
    ASSUME NEW i \in 1..5
    PROVE  FairSpec /\ []StepsEnabled => WalkGoesOn(i)
<1>1. FairSpec => []JobInv /\ [][Next]_vars /\ WF_vars(ClearStop) /\ WF_vars(ClearDone)
  BY JobInvHolds, PTL DEF FairSpec, Spec
<1>2. FairSpec /\ []StepsEnabled => (WalkAt(i) /\ InQueue(i) ~> JoinAt(i) \/ Halted)
  <2>1. JobInv /\ StepsEnabled /\ WalkAt(i) /\ InQueue(i) => ENABLED <<ClearStop>>_vars
    BY DEF StepsEnabled, WalkAt, InQueue, JobInv, TypeInv, TypeOK
  <2>2. JobInv /\ [Next]_vars /\ ~Halted /\ WalkAt(i) /\ InQueue(i)
            => (WalkAt(i) /\ InQueue(i))' \/ JoinAt(i)' \/ Halted'
    BY WalkMoves
  <2>3. JobInv /\ [Next]_vars /\ <<ClearStop>>_vars /\ ~Halted /\ WalkAt(i) => JoinAt(i)'
    BY WalkMoves
  <2> QED
    BY <1>1, <2>1, <2>2, <2>3, PTL
<1>3. FairSpec /\ []StepsEnabled => (WalkAt(i) /\ ~InQueue(i) ~> Halted)
  <2>1. JobInv /\ StepsEnabled /\ WalkAt(i) /\ ~InQueue(i) => ENABLED <<ClearDone>>_vars
    <3> SUFFICES ASSUME JobInv, StepsEnabled, WalkAt(i), ~InQueue(i)
                 PROVE  ENABLED <<ClearDone>>_vars
      OBVIOUS
    <3>1. main.at = Len(pool) + 1
      BY DEF WalkAt, InQueue, JobInv, TypeInv, TypeOK
    <3> QED
      BY <3>1 DEF StepsEnabled, WalkAt
  <2>2. JobInv /\ [Next]_vars /\ ~Halted /\ WalkAt(i) /\ ~InQueue(i)
            => (WalkAt(i) /\ ~InQueue(i))' \/ Halted'
    BY WalkMoves
  <2>3. JobInv /\ [Next]_vars /\ <<ClearDone>>_vars /\ ~Halted => Halted'
    BY WalkMoves
  <2> QED
    BY <1>1, <2>1, <2>2, <2>3, PTL
<1>4. JobInv /\ JoinAt(i) => \/ Joining(i, "register") \/ Joining(i, "heartbeat")
                             \/ Joining(i, "audit") \/ Joining(i, "checkupdate")
  BY DEF JobInv, TypeInv, TypeOK, JoinAt, Joining, Jobs
<1>5. FairSpec /\ []StepsEnabled => /\ JobLeaves(i, "register") /\ JobLeaves(i, "heartbeat")
                                    /\ JobLeaves(i, "audit") /\ JobLeaves(i, "checkupdate")
  <2>1. i \in Nat
    OBVIOUS
  <2> QED
    BY <2>1, JobEnds DEF Jobs
<1> QED
  BY <1>1, <1>2, <1>3, <1>4, <1>5, PTL DEF WalkGoesOn, JobLeaves

\* The queue never holds more than the four jobs, so the fifth turn of the loop
\* is past its end: clear() ends, unless the job it waits for needs the lock.
THEOREM StopHangsOnLock == FairSpec /\ []StepsEnabled => StopHangsOnlyOnLock
<1>1. FairSpec /\ []StepsEnabled => (main.pc = "clear" ~> WalkAt(1) \/ Halted)
  <2>1. FairSpec => []JobInv /\ [][Next]_vars /\ WF_vars(Clear)
    BY JobInvHolds, PTL DEF FairSpec, Spec
  <2>2. JobInv /\ StepsEnabled /\ main.pc = "clear" => ENABLED <<Clear>>_vars
    BY DEF StepsEnabled, JobInv, WalkInv, TypeInv, TypeOK
  <2>3. JobInv /\ [Next]_vars /\ ~Halted /\ main.pc = "clear"
            => (main.pc = "clear")' \/ WalkAt(1)' \/ Halted'
    BY WalkMoves
  <2>4. JobInv /\ [Next]_vars /\ <<Clear>>_vars /\ ~Halted => WalkAt(1)'
    BY WalkMoves
  <2> QED
    BY <2>1, <2>2, <2>3, <2>4, PTL
<1>2. FairSpec /\ []StepsEnabled =>
          /\ WalkAt(1) ~> WalkAt(2) \/ Halted
          /\ WalkAt(2) ~> WalkAt(3) \/ Halted
          /\ WalkAt(3) ~> WalkAt(4) \/ Halted
          /\ WalkAt(4) ~> WalkAt(5) \/ Halted
          /\ WalkAt(5) ~> WalkAt(6) \/ Halted
  <2>1. FairSpec /\ []StepsEnabled => /\ WalkGoesOn(1) /\ WalkGoesOn(2) /\ WalkGoesOn(3)
                                      /\ WalkGoesOn(4) /\ WalkGoesOn(5)
    BY WalkStepEnds
  <2>2. /\ WalkAt(1 + 1) <=> WalkAt(2)
        /\ WalkAt(2 + 1) <=> WalkAt(3)
        /\ WalkAt(3 + 1) <=> WalkAt(4)
        /\ WalkAt(4 + 1) <=> WalkAt(5)
        /\ WalkAt(5 + 1) <=> WalkAt(6)
    BY DEF WalkAt
  <2> QED
    BY <2>1, <2>2, PTL DEF WalkGoesOn
<1>3. FairSpec => []JobInv
  BY JobInvHolds, PTL DEF FairSpec
<1>4. JobInv => ~WalkAt(6)
  <2> SUFFICES ASSUME JobInv, main.pc = "stop", main.at = 6 PROVE FALSE
    BY DEF WalkAt
  <2>1. Len(pool) <= 4 /\ Len(pool) \in Nat
    BY AtMostFour DEF JobInv, WalkInv, TypeInv, TypeOK
  <2>2. main.at <= Len(pool) + 1
    BY <2>1 DEF JobInv, TypeInv, TypeOK
  <2> QED
    BY <2>1, <2>2
<1>5. Halted => main.pc \in {"end", "crashed"} \/ Stuck
  BY DEF Halted
<1> QED
  BY <1>1, <1>2, <1>3, <1>4, <1>5, PTL DEF StopHangsOnlyOnLock
=============================================================================
