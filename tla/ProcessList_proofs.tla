------------------------- MODULE ProcessList_proofs -------------------------
(***************************************************************************)
(* Proofs about ProcessList, for any numbers of ids, threads, nodes, files *)
(* and lives.  The invariant says who owns a node: the list, or the one    *)
(* notification or call that has it outside the list; what is in the list  *)
(* is kept by its users' references until their process's exit has waited  *)
(* for them.                                                               *)
(***************************************************************************)
EXTENDS ProcessList, TLAPS

Exiting == {"exitRundown", "exitWait", "exitRemove"}
OwnNode == {"createInsert", "exitFree"}

\* A notification's node is one of its process, in the list or out of it.
NotificationNode == \A p \in Procs :
    /\ process[p].pc \in Exiting \cup OwnNode =>
           process[p].node \in Nodes /\ proc[process[p].node] = p
    /\ process[p].pc \notin Exiting \cup OwnNode => process[p].node = NoNode
    /\ process[p].pc \in Exiting => process[p].node \in list
    /\ process[p].pc \in OwnNode => process[p].node \notin list

\* A call's node is one of its process; its reference is counted if others see it.
CallNode == \A c \in Callers :
    /\ call[c].pc \in Holding \cup {"insert"} => proc[call[c].node] = call[c].proc
    /\ call[c].pc = "insert" => call[c].node \notin list
    /\ call[c].pc \in Holding /\ call[c].node \in list => c \in users[call[c].node]

\* A call's node outside the list is nobody else's.
PrivateNode == \A c \in Callers :
    (call[c].pc \in Holding \cup {"insert"} /\ call[c].node \notin list) =>
        /\ \A p \in Procs : process[p].node # call[c].node
        /\ \A d \in Callers : d # c => call[d].node # call[c].node

\* A node is run down by its process's exit, which has waited before it removes it.
RundownNode ==
    /\ \A n \in rundown : /\ proc[n] \in Procs
                          /\ process[proc[n]].node = n
                          /\ process[proc[n]].pc \in {"exitWait", "exitRemove", "exitFree"}
    /\ \A p \in Procs :
           /\ process[p].pc \in {"exitWait", "exitRemove"} => process[p].node \in rundown
           /\ process[p].pc = "exitRemove" => users[process[p].node] = {}

\* A purge walks over the list, which stays as it is, and alone.
WalksList ==
    /\ \A n \in list : proc[n] # NoProc
    /\ policy.pc = "idle" \/ purge.pc = "idle"
    /\ policy.todo \subseteq list /\ (policy.at = NoNode \/ policy.at \in policy.todo)
    /\ purge.todo \subseteq list /\ (purge.at = NoNode \/ purge.at \in purge.todo)

Owned == NotificationNode /\ CallNode /\ PrivateNode /\ RundownNode /\ WalksList

\* A call's process lives on, as far as its id is concerned.
CallLife == \A c \in Callers : call[c].pc # "idle" => call[c].life = life[call[c].proc]

\* A process the driver knows of has begun a life.
Started == \A p \in Procs : process[p].pc # "gone" => life[p] # 0

\* A node is empty when it is inserted.
EmptyNode ==
    /\ \A c \in Callers : call[c].pc = "insert" => \A f \in Files : tree[call[c].node][f] = 0
    /\ \A p \in Procs : process[p].pc = "createInsert" =>
                            \A f \in Files : tree[process[p].node][f] = 0
    /\ \A p \in Procs : process[p].pc = "exitFree" => Listed(p) \subseteq orphan

-----------------------------------------------------------------------------
(* Types of what the actions assign *)

Notifications == [pc : {"gone", "createFind", "createAlloc", "createInsert", "alive",
                        "exitFind", "exitRundown", "exitWait", "exitRemove", "exitFree"},
                  node : Nodes \cup {NoNode}]
Searching == [pc : {"find", "alloc"}, proc : Procs, node : {NoNode}, file : Files, life : 1..MaxLives]
Using == [pc : Holding \cup {"insert"}, proc : Procs, node : Nodes, file : Files, life : 1..MaxLives]
Walks == {NoWalk} \cup [pc : {"walk"}, todo : SUBSET Nodes, at : Nodes \cup {NoNode}]

\* What happens to a caller's record when only its place changes.
LEMMA CallToFacts ==
    ASSUME TypeOK, NEW c \in Callers, call[c].pc # "idle", NEW to, CallTo(c, to)
    PROVE  /\ call'[c] = [pc |-> to, proc |-> call[c].proc, node |-> call[c].node,
                          file |-> call[c].file, life |-> call[c].life]
           /\ call'[c].pc = to /\ call'[c].node = call[c].node
           /\ call'[c].proc = call[c].proc /\ call'[c].life = call[c].life
           /\ \A d \in Callers : d # c => call'[d] = call[d]
           /\ to \in Holding /\ call[c] \in Using => call' \in [Callers -> {NoCall} \cup Searching \cup Using]
           /\ to = "alloc" /\ call[c] \in Searching => call' \in [Callers -> {NoCall} \cup Searching \cup Using]
<1>0. call \in [Callers -> {NoCall} \cup Searching \cup Using]
  BY DEF TypeOK, Searching, Using
<1>1. call[c] \in Searching \cup Using
  BY <1>0 DEF NoCall
<1>2. call'[c] = [pc |-> to, proc |-> call[c].proc, node |-> call[c].node,
                  file |-> call[c].file, life |-> call[c].life]
  BY <1>0, <1>1 DEF CallTo, Searching, Using
<1>3. \A d \in Callers : d # c => call'[d] = call[d]
  BY <1>0 DEF CallTo
<1>4. to \in Holding /\ call[c] \in Using => call'[c] \in Using
  BY <1>2 DEF Using
<1>5. to = "alloc" /\ call[c] \in Searching => call'[c] \in Searching
  BY <1>2 DEF Searching
<1>6. call' = [call EXCEPT ![c] = call'[c]]
  BY <1>0 DEF CallTo
<1> QED
  BY <1>0, <1>2, <1>3, <1>4, <1>5, <1>6

\* A caller that finds a node, and one that goes on with its own.
LEMMA UseFacts ==
    ASSUME TypeOK, NEW c \in Callers, call[c].pc # "idle", NEW n \in Nodes, Use(c, n)
    PROVE  /\ call'[c].pc \in {"lookup", "send", "release"} /\ call'[c].pc \in Holding
           /\ call'[c] = [pc |-> call'[c].pc, proc |-> call[c].proc, node |-> n,
                          file |-> call[c].file, life |-> call[c].life]
           /\ call'[c].node = n /\ call'[c].proc = call[c].proc /\ call'[c].life = call[c].life
           /\ \A d \in Callers : d # c => call'[d] = call[d]
           /\ call' \in [Callers -> {NoCall} \cup Searching \cup Using]
<1>0. call \in [Callers -> {NoCall} \cup Searching \cup Using]
  BY DEF TypeOK, Searching, Using
<1>1. call[c] \in Searching \cup Using
  BY <1>0 DEF NoCall
<1>2. PICK to \in {"lookup", "send", "release"} :
          call' = [call EXCEPT ![c].node = n, ![c].pc = to]
  BY DEF Use
<1>3. call'[c] = [pc |-> to, proc |-> call[c].proc, node |-> n,
                  file |-> call[c].file, life |-> call[c].life]
  BY <1>0, <1>1, <1>2 DEF Searching, Using
<1>4. \A d \in Callers : d # c => call'[d] = call[d]
  BY <1>0, <1>2
<1>5. call'[c] \in Using
  BY <1>1, <1>3 DEF Searching, Using, Holding
<1>51. call'[c].pc \in {"lookup", "send", "release"} /\ call'[c].pc \in Holding
  BY <1>2, <1>3 DEF Holding
<1>6. call' = [call EXCEPT ![c] = call'[c]]
  BY <1>0, <1>2
<1> QED
  BY <1>0, <1>3, <1>4, <1>5, <1>51, <1>6

LEMMA CallKinds ==
    ASSUME TypeOK, NEW c \in Callers
    PROVE  /\ call[c].pc = "idle" => call[c] = NoCall
           /\ call[c].pc \in {"find", "alloc"} => call[c] \in Searching
           /\ call[c].pc \in Holding \cup {"insert"} => call[c] \in Using
           /\ call[c].pc \in {"idle", "find", "alloc", "insert"} \cup Holding
           /\ call \in [Callers -> {NoCall} \cup Searching \cup Using]
BY DEF TypeOK, Searching, Using, Holding, NoCall

LEMMA ProcessType == TypeOK => process \in [Procs -> Notifications]
BY DEF TypeOK, Notifications

LEMMA WalkType == TypeOK => policy \in Walks /\ purge \in Walks
BY DEF TypeOK, Walks

LEMMA NodeSets ==
    TypeOK => /\ list \subseteq Nodes /\ rundown \subseteq Nodes /\ orphan \subseteq Nodes
              /\ proc \in [Nodes -> Procs \cup {NoProc}]
              /\ users \in [Nodes -> SUBSET Callers]
              /\ tree \in [Nodes -> [Files -> 0..MaxLives]]
BY DEF TypeOK

LEMMA TreeTypes ==
    ASSUME TypeOK
    PROVE  /\ \A p \in Procs, n \in Nodes : Allocate(p, n) =>
                 proc' \in [Nodes -> Procs \cup {NoProc}] /\ tree' \in [Nodes -> [Files -> 0..MaxLives]]
           /\ \A n \in Nodes : Free(n) =>
                 /\ proc' \in [Nodes -> Procs \cup {NoProc}]
                 /\ tree' \in [Nodes -> [Files -> 0..MaxLives]]
                 /\ rundown' \subseteq Nodes /\ orphan' \subseteq Nodes
<1>1. [f \in Files |-> 0] \in [Files -> 0..MaxLives]
  BY ProcessListConstants
<1>2. /\ proc \in [Nodes -> Procs \cup {NoProc}] /\ tree \in [Nodes -> [Files -> 0..MaxLives]]
      /\ rundown \subseteq Nodes /\ orphan \subseteq Nodes
  BY DEF TypeOK
<1>3. \A n \in Nodes : [tree EXCEPT ![n] = [f \in Files |-> 0]] \in [Nodes -> [Files -> 0..MaxLives]]
  BY <1>1, <1>2
<1>4. ASSUME NEW p \in Procs, NEW n \in Nodes, Allocate(p, n)
      PROVE  proc' \in [Nodes -> Procs \cup {NoProc}] /\ tree' \in [Nodes -> [Files -> 0..MaxLives]]
  <2>1. proc' = [proc EXCEPT ![n] = p] /\ tree' = [tree EXCEPT ![n] = [f \in Files |-> 0]]
    BY <1>4 DEF Allocate
  <2> QED
    BY <1>2, <1>3, <2>1
<1>5. ASSUME NEW n \in Nodes, Free(n)
      PROVE  /\ proc' \in [Nodes -> Procs \cup {NoProc}]
             /\ tree' \in [Nodes -> [Files -> 0..MaxLives]]
             /\ rundown' \subseteq Nodes /\ orphan' \subseteq Nodes
  <2>1. /\ proc' = [proc EXCEPT ![n] = NoProc]
        /\ tree' = [tree EXCEPT ![n] = [f \in Files |-> 0]]
        /\ rundown' = rundown \ {n} /\ orphan' = orphan \ {n}
    BY <1>5 DEF Free
  <2> QED
    BY <1>2, <1>3, <2>1
<1> QED
  BY <1>4, <1>5

-----------------------------------------------------------------------------
(* Type correctness *)

LEMMA TypeInit == Init => TypeOK
<1> SUFFICES ASSUME Init PROVE TypeOK
  OBVIOUS
<1>1. [f \in Files |-> 0] \in [Files -> 0..MaxLives] /\ {0, 1} \cap (0..MaxLives) # {}
  BY ProcessListConstants
<1>2. life \in [Procs -> 0..MaxLives]
  BY ProcessListConstants DEF Init
<1> QED
  BY <1>1, <1>2 DEF Init, TypeOK

LEMMA TypeNotification ==
    ASSUME TypeOK, NotificationNode, NEW p \in Procs, Create(p) \/ Exit(p) PROVE TypeOK'
<1> USE DEF TypeOK, nodes
<1>1. CASE CreateProcess(p)
  BY <1>1, ProcessListConstants DEF CreateProcess, ProcessTo
<1>2. CASE CreateFind(p)
  BY <1>2 DEF CreateFind, ProcessTo, Listed
<1>3. CASE CreateAlloc(p)
  BY <1>3, TreeTypes DEF CreateAlloc, ProcessTo
<1>4. CASE CreateAllocFails(p)
  BY <1>4 DEF CreateAllocFails, ProcessTo
<1>5. CASE CreateInsert(p)
  <2>1. process[p].node \in Nodes
    BY <1>5 DEF CreateInsert, NotificationNode, OwnNode
  <2> QED
    BY <1>5, <2>1, TreeTypes DEF CreateInsert, ProcessTo
<1>6. CASE ExitProcess(p)
  BY <1>6 DEF ExitProcess, ProcessTo
<1>7. CASE ExitFind(p)
  BY <1>7 DEF ExitFind, ProcessTo, Listed
<1>8. CASE ExitRundown(p)
  <2>1. process[p].node \in Nodes
    BY <1>8 DEF ExitRundown, NotificationNode, Exiting
  <2> QED
    BY <1>8, <2>1 DEF ExitRundown
<1>9. CASE ExitWait(p)
  BY <1>9 DEF ExitWait
<1>10. CASE ExitRemove(p)
  BY <1>10 DEF ExitRemove
<1>11. CASE ExitFree(p)
  <2>1. process[p].node \in Nodes
    BY <1>11 DEF ExitFree, NotificationNode, OwnNode
  <2> QED
    BY <1>11, <2>1, TreeTypes DEF ExitFree, ProcessTo
<1> QED
  BY <1>1, <1>2, <1>3, <1>4, <1>5, <1>6, <1>7, <1>8, <1>9, <1>10, <1>11 DEF Create, Exit

LEMMA CallType ==
    ASSUME TypeOK, call' \in [Callers -> {NoCall} \cup Searching \cup Using],
           UNCHANGED <<process, life, list, proc, rundown, tree, leaked, orphan, policy, purge>>,
           users' \in [Nodes -> SUBSET Callers]
    PROVE  TypeOK'
BY DEF TypeOK, Searching, Using

LEMMA TypeCall ==
    ASSUME TypeOK, Started, NEW c \in Callers, Call(c) PROVE TypeOK'
<1> USE CallKinds
<1>1. CASE \E p \in Procs, f \in Files : CallBegin(c, p, f)
  <2>1. PICK p \in Procs, f \in Files : CallBegin(c, p, f)
    BY <1>1
  <2> QED
    <3>1. call' = [call EXCEPT ![c] =
              [pc |-> "find", proc |-> p, node |-> NoNode, file |-> f, life |-> life[p]]]
      BY <2>1 DEF CallBegin
    <3>2. life[p] \in 1..MaxLives
      BY <2>1, ProcessListConstants DEF CallBegin, Started, TypeOK
    <3>3. call' \in [Callers -> {NoCall} \cup Searching \cup Using]
      BY <3>1, <3>2 DEF Searching
    <3> QED
      BY <2>1, <3>3, CallType DEF CallBegin, nodes, TypeOK
<1>2. CASE CallFind(c)
  <2>1. CASE \E n \in Listed(call[c].proc) \ rundown :
                 Use(c, n) /\ users' = [users EXCEPT ![n] = @ \cup {c}]
    <3>1. PICK n \in Listed(call[c].proc) :
                 Use(c, n) /\ users' = [users EXCEPT ![n] = @ \cup {c}]
      BY <2>1
    <3>2. n \in Nodes /\ users' \in [Nodes -> SUBSET Callers]
      BY <3>1 DEF TypeOK, Listed
    <3>3. call' \in [Callers -> {NoCall} \cup Searching \cup Using]
      BY <1>2, <3>1, <3>2, UseFacts DEF CallFind
    <3> QED
      BY <1>2, <3>2, <3>3, CallType DEF CallFind
  <2>2. CASE CallTo(c, "alloc") /\ UNCHANGED users
    <3>1. call' \in [Callers -> {NoCall} \cup Searching \cup Using]
      BY <1>2, <2>2, CallToFacts DEF CallFind
    <3> QED
      BY <1>2, <2>2, <3>1, CallType DEF CallFind, TypeOK
  <2> QED
    BY <1>2, <2>1, <2>2 DEF CallFind
<1>3. CASE CallAlloc(c)
  BY <1>3, TreeTypes DEF CallAlloc, Using, Searching, TypeOK
<1>4. CASE CallAllocFails(c)
  BY <1>4, CallType DEF CallAllocFails, nodes, TypeOK
<1>5. CASE CallInsert(c)
  <2>1. call[c].node \in Nodes /\ call[c].pc # "idle"
    BY <1>5 DEF CallInsert, Using
  <2>2. \A n \in Nodes : Use(c, n) => call' \in [Callers -> {NoCall} \cup Searching \cup Using]
    BY <2>1, UseFacts
  <2>3. Listed(call[c].proc) \subseteq Nodes
    BY DEF Listed, TypeOK
  <2>4. call' \in [Callers -> {NoCall} \cup Searching \cup Using]
    BY <1>5, <2>1, <2>2, <2>3 DEF CallInsert
  <2>5. /\ list' \subseteq Nodes /\ users' \in [Nodes -> SUBSET Callers] /\ orphan' \subseteq Nodes
        /\ proc' \in [Nodes -> Procs \cup {NoProc}] /\ tree' \in [Nodes -> [Files -> 0..MaxLives]]
        /\ rundown' \subseteq Nodes
    BY <1>5, <2>1, <2>3, TreeTypes DEF CallInsert, TypeOK
  <2> QED
    BY <1>5, <2>4, <2>5 DEF CallInsert, TypeOK, Searching, Using
<1>6. CASE CallLookup(c)
  BY <1>6, CallType, CallToFacts DEF CallLookup, nodes, Holding, TypeOK
<1>7. CASE CallRead(c)
  BY <1>7, CallType, CallToFacts DEF CallRead, nodes, Holding, TypeOK
<1>8. CASE CallSend(c)
  BY <1>8, CallType, CallToFacts DEF CallSend, nodes, Holding, TypeOK
<1>9. CASE CallStore(c)
  BY <1>9, CallType, CallToFacts DEF CallStore, nodes, Holding, TypeOK
<1>10. CASE CallWrite(c)
  <2>1. call[c] \in Using
    BY <1>10 DEF CallWrite, Holding
  <2>2. call' \in [Callers -> {NoCall} \cup Searching \cup Using]
    BY <1>10, <2>1, CallToFacts DEF CallWrite, Holding
  <2>3. PICK entry \in {call[c].life, 0} :
            tree' = [tree EXCEPT ![call[c].node][call[c].file] = entry]
    BY <1>10 DEF CallWrite
  <2>4. entry \in 0..MaxLives
    BY <2>1, <2>3, ProcessListConstants DEF Using
  <2>5. tree' \in [Nodes -> [Files -> 0..MaxLives]]
    BY <2>1, <2>3, <2>4 DEF TypeOK, Using
  <2> QED
    BY <1>10, <2>2, <2>5 DEF CallWrite, TypeOK, Searching, Using
<1>11. CASE CallRelease(c)
  BY <1>11, CallType DEF CallRelease, TypeOK
<1> QED
  BY <1>1, <1>2, <1>3, <1>4, <1>5, <1>6, <1>7, <1>8, <1>9, <1>10, <1>11 DEF Call

LEMMA TypePurges ==
    ASSUME TypeOK, Policy \/ Purge PROVE TypeOK'
<1> USE DEF TypeOK, nodes, NoWalk
<1>1. CASE PolicyBegin
  BY <1>1 DEF PolicyBegin
<1>2. CASE \E n \in Nodes : PolicyAcquire(n)
  BY <1>2 DEF PolicyAcquire
<1>3. CASE PolicySwap
  <2>1. [f \in Files |-> 0] \in [Files -> 0..MaxLives]
    BY ProcessListConstants
  <2>2. policy.at \in Nodes /\ policy \in [pc : {"walk"}, todo : SUBSET Nodes, at : Nodes \cup {NoNode}]
    BY <1>3, ProcessListConstants DEF PolicySwap
  <2>3. tree' \in [Nodes -> [Files -> 0..MaxLives]]
    BY <1>3, <2>1, <2>2 DEF PolicySwap
  <2>4. policy' \in [pc : {"walk"}, todo : SUBSET Nodes, at : Nodes \cup {NoNode}]
    BY <1>3, <2>2 DEF PolicySwap
  <2> QED
    BY <1>3, <2>3, <2>4 DEF PolicySwap
<1>4. CASE PolicyEnd
  BY <1>4 DEF PolicyEnd
<1>5. CASE PurgeBegin
  BY <1>5 DEF PurgeBegin
<1>6. CASE \E n \in Nodes : PurgeSearch(n)
  BY <1>6 DEF PurgeSearch
<1>7. CASE \E f \in Files : PurgeErase(f)
  <2>1. PICK f \in Files : PurgeErase(f)
    BY <1>7
  <2>2. purge.at \in Nodes
    BY <2>1 DEF PurgeErase
  <2>3. PICK entry \in {0, tree[purge.at][f]} : tree' = [tree EXCEPT ![purge.at][f] = entry]
    BY <2>1 DEF PurgeErase
  <2>4. entry \in 0..MaxLives
    BY <2>2, <2>3, ProcessListConstants
  <2>5. tree' \in [Nodes -> [Files -> 0..MaxLives]]
    BY <2>2, <2>3, <2>4
  <2>6. purge' \in [pc : {"walk"}, todo : SUBSET Nodes, at : Nodes \cup {NoNode}]
    BY <2>1, <2>2 DEF PurgeErase
  <2> QED
    BY <2>1, <2>5, <2>6 DEF PurgeErase
<1>8. CASE PurgeEnd
  BY <1>8 DEF PurgeEnd
<1> QED
  BY <1>1, <1>2, <1>3, <1>4, <1>5, <1>6, <1>7, <1>8 DEF Policy, Purge

LEMMA TypeNext == ASSUME TypeOK, NotificationNode, Started, [Next]_vars PROVE TypeOK'
<1>1. CASE UNCHANGED vars
  BY <1>1 DEF vars, nodes, TypeOK
<1> QED
  BY <1>1, TypeNotification, TypeCall, TypePurges DEF Next

-----------------------------------------------------------------------------
(* Who owns a node *)

LEMMA OwnedInit == Init => Owned
BY DEF Init, Owned, NotificationNode, CallNode, PrivateNode, RundownNode, WalksList,
       Exiting, OwnNode, Holding, NoCall, NoWalk

\* A call's node and a notification's are never "none".
LEMMA CallHasNode ==
    ASSUME TypeOK, NEW c \in Callers, call[c].pc \in Holding \cup {"insert"}
    PROVE  call[c].node \in Nodes /\ call[c].proc \in Procs /\ call[c].node # NoNode
BY CallKinds, ProcessListConstants DEF Using

\* A notification that has no node before the step nor after it.
LEMMA OwnedIdle ==
    ASSUME TypeOK, Owned, NEW p \in Procs,
           process[p].pc \notin Exiting \cup OwnNode,
           process'[p].pc \notin Exiting \cup OwnNode, process'[p].node = NoNode,
           \A q \in Procs : q # p => process'[q] = process[q],
           UNCHANGED <<list, proc, rundown, users, call, policy, purge>>
    PROVE  Owned'
<1> USE DEF Owned, Exiting, OwnNode
<1>1. NotificationNode'
  BY DEF NotificationNode
<1>2. CallNode'
  BY DEF CallNode
<1>3. PrivateNode'
  BY CallHasNode DEF PrivateNode
<1>4. RundownNode'
  BY DEF RundownNode
<1>5. WalksList'
  BY DEF WalksList
<1> QED
  BY <1>1, <1>2, <1>3, <1>4, <1>5

\* Nobody has free memory.
LEMMA FreeUnowned ==
    ASSUME TypeOK, Owned, NEW n \in Nodes, proc[n] = NoProc
    PROVE  /\ n \notin list /\ n \notin rundown
           /\ \A p \in Procs : process[p].node # n
           /\ \A c \in Callers : call[c].node # n
<1>1. n \notin list /\ n \notin rundown
  BY ProcessListConstants DEF Owned, WalksList, RundownNode
<1>2. \A p \in Procs : process[p].node # n
  BY ProcessListConstants DEF Owned, NotificationNode, Exiting, OwnNode
<1>3. ASSUME NEW c \in Callers PROVE call[c].node # n
  <2>1. CASE call[c].pc \in Holding \cup {"insert"}
    BY <2>1, CallHasNode, ProcessListConstants DEF Owned, CallNode
  <2>2. CASE call[c].pc \notin Holding \cup {"insert"}
    BY <2>2, CallKinds, ProcessListConstants DEF Searching, NoCall
  <2> QED
    BY <2>1, <2>2
<1> QED
  BY <1>1, <1>2, <1>3

\* Memory that nobody but the step's notification or call has is freed.
LEMMA FreedNode ==
    ASSUME TypeOK, NEW n \in Nodes, Free(n)
    PROVE  /\ proc'[n] = NoProc
           /\ \A m \in Nodes : m # n => proc'[m] = proc[m] /\ tree'[m] = tree[m]
           /\ rundown' = rundown \ {n} /\ orphan' = orphan \ {n}
BY DEF Free, TypeOK

LEMMA AllocatedNode ==
    ASSUME TypeOK, NEW p \in Procs, NEW n \in Nodes, Allocate(p, n)
    PROVE  /\ proc[n] = NoProc /\ proc'[n] = p
           /\ \A f \in Files : tree'[n][f] = 0
           /\ \A m \in Nodes : m # n => proc'[m] = proc[m] /\ tree'[m] = tree[m]
BY DEF Allocate, TypeOK

LEMMA OwnedCreate ==
    ASSUME TypeOK, Owned, NEW p \in Procs, Create(p) PROVE Owned'
<1> USE DEF Owned, Exiting, OwnNode
<1>1. CASE CreateProcess(p) \/ CreateFind(p) \/ CreateAllocFails(p)
  <2>1. /\ process[p].pc \notin Exiting \cup OwnNode
        /\ process'[p].pc \notin Exiting \cup OwnNode /\ process'[p].node = NoNode
        /\ \A q \in Procs : q # p => process'[q] = process[q]
    BY <1>1, ProcessType DEF CreateProcess, CreateFind, CreateAllocFails, ProcessTo
  <2> QED
    BY <1>1, <2>1, OwnedIdle DEF CreateProcess, CreateFind, CreateAllocFails, nodes
<1>2. CASE CreateAlloc(p)
  <2>1. PICK n \in Nodes : Allocate(p, n) /\ ProcessTo(p, "createInsert", n)
    BY <1>2 DEF CreateAlloc
  <2>2. /\ process'[p] = [pc |-> "createInsert", node |-> n]
        /\ \A q \in Procs : q # p => process'[q] = process[q]
    BY <2>1, ProcessType DEF ProcessTo
  <2>3. /\ proc'[n] = p /\ \A m \in Nodes : m # n => proc'[m] = proc[m]
        /\ n \notin list /\ n \notin rundown /\ n # NoNode
        /\ \A q \in Procs : process[q].node # n
        /\ \A c \in Callers : call[c].node # n
    BY <2>1, AllocatedNode, FreeUnowned, ProcessListConstants
  <2>4. /\ process[p].pc = "createAlloc" /\ process[p].node = NoNode
        /\ UNCHANGED <<list, rundown, users, call, policy, purge>>
    BY <1>2 DEF CreateAlloc, NotificationNode
  <2>5. NotificationNode'
    BY <2>2, <2>3, <2>4 DEF NotificationNode
  <2>6. CallNode'
    BY <2>3, <2>4, CallHasNode DEF CallNode
  <2>7. PrivateNode'
    BY <2>2, <2>3, <2>4 DEF PrivateNode
  <2>8. RundownNode'
    <3>1. ASSUME NEW m \in rundown'
          PROVE  /\ proc'[m] \in Procs
                 /\ process'[proc'[m]].node = m
                 /\ process'[proc'[m]].pc \in {"exitWait", "exitRemove", "exitFree"}
      <4>1. /\ m \in rundown /\ m \in Nodes /\ m # n
            /\ proc[m] \in Procs /\ process[proc[m]].node = m
            /\ process[proc[m]].pc \in {"exitWait", "exitRemove", "exitFree"}
        BY <2>2, <2>3, <2>4, NodeSets DEF RundownNode
      <4>2. proc'[m] = proc[m] /\ proc[m] # p
        BY <4>1, <2>2, <2>3, <2>4
      <4> QED
        BY <4>1, <4>2, <2>2, <2>3, <2>4
    <3>2. ASSUME NEW q \in Procs
          PROVE  /\ process'[q].pc \in {"exitWait", "exitRemove"} => process'[q].node \in rundown'
                 /\ process'[q].pc = "exitRemove" => users'[process'[q].node] = {}
      BY <2>2, <2>3, <2>4 DEF RundownNode
    <3> QED
      BY <3>1, <3>2 DEF RundownNode
  <2>9. WalksList'
    BY <2>3, <2>4, ProcessListConstants DEF WalksList, TypeOK
  <2> QED
    BY <2>5, <2>6, <2>7, <2>8, <2>9
<1>3. CASE CreateInsert(p)
  <2> DEFINE n == process[p].node
  <2>1. /\ process[p].pc = "createInsert" /\ ListFree /\ ProcessTo(p, "alive", NoNode)
        /\ UNCHANGED <<users, call, policy, purge>>
    BY <1>3 DEF CreateInsert
  <2>2. /\ n \in Nodes /\ proc[n] = p /\ n \notin list /\ n \notin rundown
        /\ \A q \in Procs : q # p => process[q].node # n
    BY <2>1, ProcessListConstants DEF NotificationNode, RundownNode
  <2>3. \A c \in Callers : call[c].pc \in Holding \cup {"insert"} => call[c].node # n
    BY <2>2 DEF PrivateNode
  <2>4. /\ process'[p] = [pc |-> "alive", node |-> NoNode]
        /\ \A q \in Procs : q # p => process'[q] = process[q]
    BY <2>1, ProcessType DEF ProcessTo
  <2>5. policy.pc = "idle" /\ purge.pc = "idle"
    BY <2>1 DEF ListFree
  <2>6. /\ list' \in {list, list \cup {n}} /\ rundown' = rundown
        /\ \A m \in Nodes : m # n => proc'[m] = proc[m]
        /\ n \in list' => proc'[n] = p
    BY <1>3, <2>2, FreedNode DEF CreateInsert
  <2>7. NotificationNode'
    BY <2>2, <2>4, <2>6 DEF NotificationNode
  <2>8. CallNode'
    BY <2>1, <2>2, <2>3, <2>6, CallHasNode DEF CallNode
  <2>9. PrivateNode'
    BY <2>1, <2>3, <2>4, <2>6, CallHasNode DEF PrivateNode
  <2>10. RundownNode'
    <3>1. ASSUME NEW m \in rundown'
          PROVE  /\ proc'[m] \in Procs
                 /\ process'[proc'[m]].node = m
                 /\ process'[proc'[m]].pc \in {"exitWait", "exitRemove", "exitFree"}
      <4>1. /\ m \in rundown /\ m \in Nodes /\ m # n
            /\ proc[m] \in Procs /\ process[proc[m]].node = m
            /\ process[proc[m]].pc \in {"exitWait", "exitRemove", "exitFree"}
        BY <2>1, <2>2, <2>4, <2>6, NodeSets DEF RundownNode
      <4>2. proc'[m] = proc[m] /\ proc[m] # p
        BY <4>1, <2>1, <2>2, <2>4, <2>6
      <4> QED
        BY <4>1, <4>2, <2>1, <2>2, <2>4, <2>6
    <3>2. ASSUME NEW q \in Procs
          PROVE  /\ process'[q].pc \in {"exitWait", "exitRemove"} => process'[q].node \in rundown'
                 /\ process'[q].pc = "exitRemove" => users'[process'[q].node] = {}
      BY <2>1, <2>2, <2>4, <2>6 DEF RundownNode
    <3> QED
      BY <3>1, <3>2 DEF RundownNode
  <2>11. WalksList'
    BY <2>1, <2>2, <2>5, <2>6, ProcessListConstants DEF WalksList, TypeOK
  <2> QED
    BY <2>7, <2>8, <2>9, <2>10, <2>11
<1> QED
  BY <1>1, <1>2, <1>3 DEF Create

LEMMA OwnedExit ==
    ASSUME TypeOK, Owned, NEW p \in Procs, Exit(p) PROVE Owned'
<1> USE DEF Owned, Exiting, OwnNode
<1>1. CASE ExitProcess(p)
  <2>1. /\ process[p].pc \notin Exiting \cup OwnNode
        /\ process'[p].pc \notin Exiting \cup OwnNode /\ process'[p].node = NoNode
        /\ \A q \in Procs : q # p => process'[q] = process[q]
    BY <1>1, ProcessType DEF ExitProcess, ProcessTo
  <2> QED
    BY <1>1, <2>1, OwnedIdle DEF ExitProcess, nodes
<1>2. CASE ExitFind(p)
  <2>0. process[p].pc = "exitFind" /\ UNCHANGED <<list, proc, rundown, users, call, policy, purge>>
    BY <1>2 DEF ExitFind, nodes
  <2>1. CASE ProcessTo(p, "gone", NoNode)
    <3>1. /\ process'[p].pc \notin Exiting \cup OwnNode /\ process'[p].node = NoNode
          /\ \A q \in Procs : q # p => process'[q] = process[q]
      BY <2>1, ProcessType DEF ProcessTo
    <3> QED
      BY <2>0, <3>1, OwnedIdle
  <2>2. CASE \E n \in Listed(p) \ rundown : ProcessTo(p, "exitRundown", n)
    <3>1. PICK n \in list \ rundown : proc[n] = p /\ ProcessTo(p, "exitRundown", n)
      BY <2>2 DEF Listed
    <3>2. /\ process'[p] = [pc |-> "exitRundown", node |-> n] /\ n \in Nodes
          /\ \A q \in Procs : q # p => process'[q] = process[q]
      BY <3>1, ProcessType, NodeSets DEF ProcessTo
    <3>3. NotificationNode'
      BY <2>0, <3>1, <3>2 DEF NotificationNode
    <3>4. CallNode'
      BY <2>0 DEF CallNode
    <3>5. PrivateNode'
      BY <2>0, <3>1, <3>2 DEF PrivateNode
    <3>6. RundownNode'
      BY <2>0, <3>1, <3>2 DEF RundownNode
    <3>7. WalksList'
      BY <2>0 DEF WalksList
    <3> QED
      BY <3>3, <3>4, <3>5, <3>6, <3>7
  <2> QED
    BY <1>2, <2>1, <2>2 DEF ExitFind
<1>3. CASE ExitRundown(p) \/ ExitWait(p)
  <2>1. /\ process'[p].node = process[p].node
        /\ process[p].pc \in {"exitRundown", "exitWait"}
        /\ process'[p].pc \in {"exitWait", "exitRemove"}
        /\ process'[p].pc = "exitRemove" => users[process[p].node] = {}
        /\ \A q \in Procs : q # p => process'[q] = process[q]
        /\ rundown' \in {rundown, rundown \cup {process[p].node}}
        /\ process[p].pc = "exitRundown" => process[p].node \in rundown'
        /\ UNCHANGED <<list, proc, users, call, policy, purge>>
    BY <1>3, ProcessType DEF ExitRundown, ExitWait, nodes, Notifications
  <2>2. proc[process[p].node] = p
    BY <2>1 DEF NotificationNode
  <2>3. NotificationNode'
    BY <2>1 DEF NotificationNode
  <2>4. CallNode'
    BY <2>1 DEF CallNode
  <2>5. PrivateNode'
    BY <2>1 DEF PrivateNode
  <2>6. RundownNode'
    BY <2>1, <2>2 DEF RundownNode
  <2>7. WalksList'
    BY <2>1 DEF WalksList
  <2> QED
    BY <2>3, <2>4, <2>5, <2>6, <2>7
<1>4. CASE ExitRemove(p)
  <2> DEFINE n == process[p].node
  <2>1. /\ process[p].pc = "exitRemove" /\ process'[p] = [pc |-> "exitFree", node |-> n]
        /\ \A q \in Procs : q # p => process'[q] = process[q]
        /\ list' = list \ {n}
        /\ policy.pc = "idle" /\ purge.pc = "idle"
        /\ UNCHANGED <<proc, rundown, users, call, policy, purge>>
    BY <1>4, ProcessType DEF ExitRemove, ListFree, Notifications
  <2>2. n \in list /\ n \in Nodes /\ proc[n] = p /\ users[n] = {}
    BY <2>1 DEF NotificationNode, RundownNode
  <2>3. \A q \in Procs : q # p => process[q].node # n
    BY <2>2, ProcessListConstants DEF NotificationNode
  <2>4. \A c \in Callers : call[c].pc \in Holding \cup {"insert"} => call[c].node # n
    BY <2>2 DEF CallNode
  <2>5. NotificationNode'
    BY <2>1, <2>2, <2>3 DEF NotificationNode
  <2>6. CallNode'
    BY <2>1 DEF CallNode
  <2>7. PrivateNode'
    BY <2>1, <2>4 DEF PrivateNode
  <2>8. RundownNode'
    BY <2>1, <2>2 DEF RundownNode
  <2>9. WalksList'
    BY <2>1 DEF WalksList, TypeOK, NoWalk
  <2> QED
    BY <2>5, <2>6, <2>7, <2>8, <2>9
<1>5. CASE ExitFree(p)
  <2> DEFINE n == process[p].node
  <2>1. /\ process[p].pc = "exitFree" /\ Free(n) /\ ProcessTo(p, "gone", NoNode)
        /\ UNCHANGED <<list, users, call, policy, purge>>
    BY <1>5 DEF ExitFree
  <2>2. /\ process'[p] = [pc |-> "gone", node |-> NoNode]
        /\ \A q \in Procs : q # p => process'[q] = process[q]
    BY <2>1, ProcessType DEF ProcessTo
  <2>3. n \in Nodes /\ proc[n] = p /\ n \notin list
    BY <2>1 DEF NotificationNode
  <2>4. /\ \A q \in Procs : q # p => process[q].node # n
        /\ \A c \in Callers : call[c].pc \in Holding \cup {"insert"} => call[c].node # n
    BY <2>3, ProcessListConstants DEF NotificationNode, PrivateNode
  <2>5. rundown' = rundown \ {n} /\ \A m \in Nodes : m # n => proc'[m] = proc[m]
    BY <2>1, <2>3, FreedNode
  <2>6. NotificationNode'
    BY <2>1, <2>2, <2>4, <2>5 DEF NotificationNode
  <2>7. CallNode'
    BY <2>1, <2>4, <2>5, CallHasNode DEF CallNode
  <2>8. PrivateNode'
    BY <2>1, <2>2, <2>4, CallHasNode DEF PrivateNode
  <2>9. RundownNode'
    <3>1. ASSUME NEW m \in rundown'
          PROVE  /\ proc'[m] \in Procs
                 /\ process'[proc'[m]].node = m
                 /\ process'[proc'[m]].pc \in {"exitWait", "exitRemove", "exitFree"}
      <4>1. /\ m \in rundown /\ m \in Nodes /\ m # n
            /\ proc[m] \in Procs /\ process[proc[m]].node = m
            /\ process[proc[m]].pc \in {"exitWait", "exitRemove", "exitFree"}
        BY <2>1, <2>2, <2>3, <2>4, <2>5, NodeSets DEF RundownNode
      <4>2. proc'[m] = proc[m] /\ proc[m] # p
        BY <4>1, <2>1, <2>2, <2>3, <2>4, <2>5
      <4> QED
        BY <4>1, <4>2, <2>1, <2>2, <2>3, <2>4, <2>5
    <3>2. ASSUME NEW q \in Procs
          PROVE  /\ process'[q].pc \in {"exitWait", "exitRemove"} => process'[q].node \in rundown'
                 /\ process'[q].pc = "exitRemove" => users'[process'[q].node] = {}
      BY <2>1, <2>2, <2>3, <2>4, <2>5 DEF RundownNode
    <3> QED
      BY <3>1, <3>2 DEF RundownNode
  <2>10. WalksList'
    BY <2>1, <2>3, <2>5 DEF WalksList, TypeOK
  <2> QED
    BY <2>6, <2>7, <2>8, <2>9, <2>10
<1> QED
  BY <1>1, <1>2, <1>3, <1>4, <1>5 DEF Exit

\* A call that keeps its node.
LEMMA OwnedKeep ==
    ASSUME TypeOK, Owned, NEW c \in Callers,
           call[c].pc \in Holding, call'[c].pc \in Holding,
           call'[c].node = call[c].node, call'[c].proc = call[c].proc,
           \A d \in Callers : d # c => call'[d] = call[d],
           UNCHANGED <<process, list, proc, rundown, users, policy, purge>>
    PROVE  Owned'
<1> USE DEF Owned, Holding
<1>1. NotificationNode'
  BY DEF NotificationNode
<1>2. CallNode'
  BY DEF CallNode
<1>3. PrivateNode'
  BY DEF PrivateNode
<1>4. RundownNode' /\ WalksList'
  BY DEF RundownNode, WalksList
<1> QED
  BY <1>1, <1>2, <1>3, <1>4

\* A call without a node, which may have given back a reference.
LEMMA OwnedLeave ==
    ASSUME TypeOK, Owned, NEW c \in Callers,
           call'[c].pc \notin Holding \cup {"insert"}, call'[c].node = NoNode,
           \A d \in Callers : d # c => call'[d] = call[d],
           \A n \in Nodes : users[n] \ {c} \subseteq users'[n] /\ users'[n] \subseteq users[n],
           UNCHANGED <<process, list, proc, rundown, policy, purge>>
    PROVE  Owned'
<1> USE DEF Owned
<1>1. NotificationNode'
  BY DEF NotificationNode
<1>2. CallNode'
  BY CallHasNode DEF CallNode
<1>3. PrivateNode'
  BY CallHasNode DEF PrivateNode
<1>4. RundownNode' /\ WalksList'
  BY NodeSets DEF RundownNode, WalksList
<1> QED
  BY <1>1, <1>2, <1>3, <1>4

\* A call that takes a reference to a node of the list.
LEMMA OwnedTake ==
    ASSUME TypeOK, Owned, NEW c \in Callers, NEW n \in list,
           n \notin rundown, proc[n] = call[c].proc,
           call'[c].pc \in Holding, call'[c].node = n, call'[c].proc = call[c].proc,
           \A d \in Callers : d # c => call'[d] = call[d],
           users' = [users EXCEPT ![n] = @ \cup {c}],
           UNCHANGED <<process, list, proc, rundown, policy, purge>>
    PROVE  Owned'
<1> USE NodeSets DEF Owned
<1>1. NotificationNode'
  BY DEF NotificationNode
<1>2. CallNode'
  BY CallHasNode DEF CallNode, Holding
<1>3. PrivateNode'
  BY DEF PrivateNode
<1>4. RundownNode'
  BY DEF RundownNode
<1>5. WalksList'
  BY DEF WalksList
<1> QED
  BY <1>1, <1>2, <1>3, <1>4, <1>5

LEMMA OwnedSearch ==
    ASSUME TypeOK, Owned, NEW c \in Callers,
           (\E p \in Procs, f \in Files : CallBegin(c, p, f)) \/ CallFind(c)
           \/ CallAlloc(c) \/ CallAllocFails(c) \/ CallRelease(c)
    PROVE  Owned'
<1>1. CASE (\E p \in Procs, f \in Files : CallBegin(c, p, f)) \/ CallAllocFails(c) \/ CallRelease(c)
  <2>1. /\ call'[c].pc \in {"idle", "find"} /\ call'[c].node = NoNode
        /\ \A d \in Callers : d # c => call'[d] = call[d]
    BY <1>1, CallKinds DEF CallBegin, CallAllocFails, CallRelease, NoCall
  <2>2. \A n \in Nodes : users[n] \ {c} \subseteq users'[n] /\ users'[n] \subseteq users[n]
    BY <1>1, NodeSets DEF CallBegin, CallAllocFails, CallRelease, nodes
  <2> QED
    BY <1>1, <2>1, <2>2, OwnedLeave DEF CallBegin, CallAllocFails, CallRelease, nodes, Holding
<1>2. CASE CallFind(c)
  <2>1. /\ call[c].pc = "find" /\ UNCHANGED <<process, list, proc, rundown, policy, purge>>
    BY <1>2 DEF CallFind
  <2>2. CASE CallTo(c, "alloc") /\ UNCHANGED users
    <3>1. /\ call'[c].pc = "alloc" /\ call'[c].node = NoNode
          /\ \A d \in Callers : d # c => call'[d] = call[d]
      BY <2>1, <2>2, CallKinds, CallToFacts DEF Searching
    <3> QED
      BY <2>1, <2>2, <3>1, OwnedLeave DEF Holding
  <2>3. CASE \E n \in Listed(call[c].proc) \ rundown :
                 Use(c, n) /\ users' = [users EXCEPT ![n] = @ \cup {c}]
    <3>1. PICK n \in list \ rundown :
              /\ proc[n] = call[c].proc /\ Use(c, n)
              /\ users' = [users EXCEPT ![n] = @ \cup {c}]
      BY <2>3 DEF Listed
    <3>2. /\ call'[c].pc \in Holding /\ call'[c].node = n /\ call'[c].proc = call[c].proc
          /\ \A d \in Callers : d # c => call'[d] = call[d]
      BY <2>1, <3>1, UseFacts, NodeSets DEF Holding
    <3> QED
      BY <2>1, <3>1, <3>2, OwnedTake
  <2> QED
    BY <1>2, <2>2, <2>3 DEF CallFind
<1>3. CASE CallAlloc(c)
  <2>1. PICK n \in Nodes : /\ Allocate(call[c].proc, n)
                           /\ call' = [call EXCEPT ![c].node = n, ![c].pc = "insert"]
    BY <1>3 DEF CallAlloc
  <2>2. call[c] \in Searching /\ call[c].proc \in Procs
    BY <1>3, CallKinds DEF CallAlloc, Searching
  <2>3. /\ call'[c].pc = "insert" /\ call'[c].node = n /\ call'[c].proc = call[c].proc
        /\ \A d \in Callers : d # c => call'[d] = call[d]
    BY <2>1, <2>2, CallKinds DEF Searching
  <2>4. /\ proc'[n] = call[c].proc /\ \A m \in Nodes : m # n => proc'[m] = proc[m]
        /\ n \notin list /\ n \notin rundown
        /\ \A p \in Procs : process[p].node # n
        /\ \A d \in Callers : call[d].node # n
    BY <2>1, <2>2, AllocatedNode, FreeUnowned
  <2>5. UNCHANGED <<process, list, rundown, users, policy, purge>>
    BY <1>3 DEF CallAlloc
  <2> USE DEF Owned
  <2>6. NotificationNode'
    BY <2>4, <2>5 DEF NotificationNode, Exiting, OwnNode
  <2>7. CallNode'
    BY <2>3, <2>4, <2>5, CallHasNode DEF CallNode, Holding
  <2>8. PrivateNode'
    BY <2>3, <2>4, <2>5, CallHasNode DEF PrivateNode
  <2>9. RundownNode'
    BY <2>4, <2>5, NodeSets DEF RundownNode
  <2>10. WalksList'
    BY <2>4, <2>5, NodeSets DEF WalksList
  <2> QED
    BY <2>6, <2>7, <2>8, <2>9, <2>10
<1> QED
  BY <1>1, <1>2, <1>3

LEMMA OwnedInsert == ASSUME TypeOK, Owned, NEW c \in Callers, CallInsert(c) PROVE Owned'
<1> DEFINE n == call[c].node
           p == call[c].proc
<1>1. /\ call[c].pc = "insert" /\ n \in Nodes /\ p \in Procs /\ n # NoNode
      /\ policy.pc = "idle" /\ purge.pc = "idle"
      /\ UNCHANGED <<process, policy, purge>>
  BY CallHasNode DEF CallInsert, ListFree
<1>2. /\ proc[n] = p /\ n \notin list
      /\ \A q \in Procs : process[q].node # n
      /\ \A d \in Callers : d # c => call[d].node # n
  BY <1>1 DEF Owned, CallNode, PrivateNode
<1>3. n \notin rundown
  BY <1>1, <1>2 DEF Owned, RundownNode
<1>4. ASSUME NEW m \in Nodes, Use(c, m)
      PROVE  /\ call'[c].pc \in Holding /\ call'[c].node = m /\ call'[c].proc = p
             /\ \A d \in Callers : d # c => call'[d] = call[d]
  BY <1>1, <1>4, UseFacts DEF Holding
<1> USE DEF Owned
<1>5. CASE /\ list' = list \cup {n} /\ users' = [users EXCEPT ![n] = {c}] /\ Use(c, n)
           /\ UNCHANGED <<proc, rundown>>
  <2>1. /\ call'[c].pc \in Holding /\ call'[c].node = n /\ call'[c].proc = p
        /\ \A d \in Callers : d # c => call'[d] = call[d]
    BY <1>1, <1>4, <1>5
  <2>2. users'[n] = {c} /\ \A m \in Nodes : m # n => users'[m] = users[m]
    BY <1>1, <1>5, NodeSets
  <2>3. NotificationNode'
    BY <1>1, <1>2, <1>5 DEF NotificationNode
  <2>4. CallNode'
    BY <1>1, <1>2, <1>5, <2>1, <2>2, CallHasNode DEF CallNode, Holding
  <2>5. PrivateNode'
    BY <1>1, <1>2, <1>5, <2>1 DEF PrivateNode
  <2>6. RundownNode'
    BY <1>1, <1>2, <1>3, <1>5, <2>2, NodeSets DEF RundownNode
  <2>7. WalksList'
    BY <1>1, <1>2, <1>5, ProcessListConstants DEF WalksList
  <2> QED
    BY <2>3, <2>4, <2>5, <2>6, <2>7
<1>6. CASE \E m \in Listed(p) \ rundown :
              /\ users' = [users EXCEPT ![m] = @ \cup {c}]
              /\ Free(n) /\ Use(c, m) /\ UNCHANGED list
  <2>1. PICK m \in list \ rundown :
            /\ proc[m] = p /\ users' = [users EXCEPT ![m] = @ \cup {c}]
            /\ Free(n) /\ Use(c, m) /\ UNCHANGED list
    BY <1>6 DEF Listed
  <2>2. /\ m \in Nodes /\ m # n
        /\ call'[c].pc \in Holding /\ call'[c].node = m /\ call'[c].proc = p
        /\ \A d \in Callers : d # c => call'[d] = call[d]
    BY <1>2, <1>4, <2>1, NodeSets
  <2>3. rundown' = rundown /\ \A k \in Nodes : k # n => proc'[k] = proc[k]
    BY <1>1, <1>3, <2>1, FreedNode
  <2>4. users'[m] = users[m] \cup {c} /\ \A k \in Nodes : k # m => users'[k] = users[k]
    BY <2>1, <2>2, NodeSets
  <2>5. NotificationNode'
    BY <1>1, <1>2, <2>1, <2>3 DEF NotificationNode
  <2>6. CallNode'
    BY <1>2, <2>1, <2>2, <2>3, <2>4, CallHasNode DEF CallNode, Holding
  <2>7. PrivateNode'
    BY <1>1, <1>2, <2>1, <2>2 DEF PrivateNode
  <2>8. RundownNode'
    <3>1. \A k \in rundown : proc'[k] = proc[k]
      BY <1>3, <2>3, NodeSets
    <3> QED
      BY <1>1, <2>1, <2>3, <2>4, <3>1, NodeSets DEF RundownNode
  <2>9. WalksList'
    BY <1>1, <1>2, <2>1, <2>3, NodeSets DEF WalksList
  <2> QED
    BY <2>5, <2>6, <2>7, <2>8, <2>9
<1>7. CASE Use(c, n) /\ UNCHANGED <<list, users, proc, rundown>>
  <2>1. /\ call'[c].pc \in Holding /\ call'[c].node = n /\ call'[c].proc = p
        /\ \A d \in Callers : d # c => call'[d] = call[d]
    BY <1>1, <1>4, <1>7
  <2>2. NotificationNode'
    BY <1>1, <1>7 DEF NotificationNode
  <2>3. CallNode'
    BY <1>2, <1>7, <2>1 DEF CallNode, Holding
  <2>4. PrivateNode'
    BY <1>1, <1>2, <1>7, <2>1 DEF PrivateNode
  <2>5. RundownNode' /\ WalksList'
    BY <1>1, <1>7 DEF RundownNode, WalksList
  <2> QED
    BY <2>2, <2>3, <2>4, <2>5
<1> QED
  BY <1>5, <1>6, <1>7 DEF CallInsert

LEMMA OwnedCall == ASSUME TypeOK, Owned, NEW c \in Callers, Call(c) PROVE Owned'
<1>1. CASE CallLookup(c) \/ CallRead(c) \/ CallSend(c) \/ CallStore(c) \/ CallWrite(c)
  <2>1. PICK to \in Holding : CallTo(c, to)
    BY <1>1 DEF CallLookup, CallRead, CallSend, CallStore, CallWrite, Holding
  <2>2. call[c].pc \in Holding /\ call[c].pc # "idle"
    BY <1>1 DEF CallLookup, CallRead, CallSend, CallStore, CallWrite, Holding
  <2>3. /\ call'[c].pc \in Holding /\ call'[c].node = call[c].node /\ call'[c].proc = call[c].proc
        /\ \A d \in Callers : d # c => call'[d] = call[d]
    BY <2>1, <2>2, CallToFacts
  <2>4. UNCHANGED <<process, list, proc, rundown, users, policy, purge>>
    BY <1>1 DEF CallLookup, CallRead, CallSend, CallStore, CallWrite, nodes
  <2> QED
    BY <2>2, <2>3, <2>4, OwnedKeep
<1> QED
  BY <1>1, OwnedSearch, OwnedInsert DEF Call

LEMMA OwnedPurges == ASSUME TypeOK, Owned, Policy \/ Purge PROVE Owned'
<1>1. UNCHANGED <<process, list, proc, rundown, users, call>>
  BY DEF Policy, Purge, PolicyBegin, PolicyAcquire, PolicySwap, PolicyEnd,
         PurgeBegin, PurgeSearch, PurgeErase, PurgeEnd, nodes
<1>2. NotificationNode' /\ CallNode' /\ PrivateNode' /\ RundownNode'
  BY <1>1 DEF Owned, NotificationNode, CallNode, PrivateNode, RundownNode
<1>3. CASE Policy
  <2>1. /\ UNCHANGED purge /\ policy.pc \in {"idle", "walk"}
        /\ policy.pc = "idle" => policy = NoWalk
    BY <1>3, WalkType DEF Policy, PolicyBegin, PolicyAcquire, PolicySwap, PolicyEnd, Walks, NoWalk
  <2> QED
    BY <1>1, <1>2, <1>3, <2>1 DEF Owned, WalksList, Policy, PolicyBegin, PolicyAcquire, PolicySwap,
       PolicyEnd, ListFree, TypeOK, NoWalk
<1>4. CASE Purge
  <2>1. /\ UNCHANGED policy /\ purge.pc \in {"idle", "walk"}
        /\ purge.pc = "idle" => purge = NoWalk
    BY <1>4, WalkType DEF Purge, PurgeBegin, PurgeSearch, PurgeErase, PurgeEnd, Walks, NoWalk
  <2> QED
    BY <1>1, <1>2, <1>4, <2>1 DEF Owned, WalksList, Purge, PurgeBegin, PurgeSearch, PurgeErase,
       PurgeEnd, ListFree, TypeOK, NoWalk
<1> QED
  BY <1>3, <1>4

LEMMA OwnedNext == ASSUME TypeOK, Owned, [Next]_vars PROVE Owned'
<1>1. CASE UNCHANGED vars
  BY <1>1 DEF vars, nodes, Owned, NotificationNode, CallNode, PrivateNode, RundownNode, WalksList
<1> QED
  BY <1>1, OwnedCreate, OwnedExit, OwnedCall, OwnedPurges DEF Next

-----------------------------------------------------------------------------
(* Lives, and the trees of nodes that are being made *)

LEMMA StartedNext == ASSUME TypeOK, Started, [Next]_vars PROVE Started'
<1>1. CASE \E p \in Procs : CreateProcess(p)
  <2>1. PICK p \in Procs : CreateProcess(p)
    BY <1>1
  <2>2. life'[p] # 0 /\ \A q \in Procs : q # p => life'[q] = life[q] /\ process'[q] = process[q]
    BY <2>1, ProcessType DEF CreateProcess, ProcessTo, TypeOK
  <2> QED
    BY <2>2 DEF Started
<1>2. ASSUME NEW p \in Procs, (Create(p) /\ ~CreateProcess(p)) \/ Exit(p) PROVE Started'
  <2>1. process[p].pc # "gone" /\ UNCHANGED life /\ \A q \in Procs : q # p => process'[q] = process[q]
    BY <1>2, ProcessType DEF Create, CreateFind, CreateAlloc, CreateAllocFails, CreateInsert, Exit,
       ExitProcess, ExitFind, ExitRundown, ExitWait, ExitRemove, ExitFree, ProcessTo
  <2> QED
    BY <2>1 DEF Started
<1>3. CASE UNCHANGED <<process, life>>
  BY <1>3 DEF Started
<1>4. ASSUME NEW c \in Callers, Call(c) PROVE UNCHANGED <<process, life>>
  BY <1>4 DEF Call, CallBegin, CallFind, CallAlloc, CallAllocFails, CallInsert, CallLookup, CallRead,
     CallSend, CallStore, CallWrite, CallRelease
<1>5. Policy \/ Purge \/ UNCHANGED vars => UNCHANGED <<process, life>>
  BY DEF Policy, Purge, PolicyBegin, PolicyAcquire, PolicySwap, PolicyEnd,
     PurgeBegin, PurgeSearch, PurgeErase, PurgeEnd, vars
<1> QED
  BY <1>1, <1>2, <1>3, <1>4, <1>5 DEF Next

\* A call's step leaves it idle, or begins it, or keeps its process and its life.
LEMMA CallStep ==
    ASSUME TypeOK, NEW c \in Callers, Call(c)
    PROVE  /\ \A d \in Callers : d # c => call'[d] = call[d]
           /\ \/ call'[c].pc = "idle"
              \/ /\ call[c].pc = "idle" /\ call'[c].proc \in Procs
                 /\ call'[c].pc = "find" /\ call'[c].life = life[call'[c].proc]
              \/ /\ call[c].pc # "idle"
                 /\ call'[c].proc = call[c].proc /\ call'[c].life = call[c].life
<1>1. CASE \E p \in Procs, f \in Files : CallBegin(c, p, f)
  BY <1>1, CallKinds DEF CallBegin
<1>2. CASE CallAllocFails(c) \/ CallRelease(c)
  BY <1>2, CallKinds DEF CallAllocFails, CallRelease, NoCall
<1>3. CASE CallLookup(c) \/ CallRead(c) \/ CallSend(c) \/ CallStore(c) \/ CallWrite(c)
  <2>1. PICK to \in Holding : CallTo(c, to)
    BY <1>3 DEF CallLookup, CallRead, CallSend, CallStore, CallWrite, Holding
  <2>2. call[c].pc # "idle"
    BY <1>3 DEF CallLookup, CallRead, CallSend, CallStore, CallWrite
  <2> QED
    BY <2>1, <2>2, CallToFacts
<1>4. CASE CallAlloc(c)
  <2>1. PICK n \in Nodes : call' = [call EXCEPT ![c].node = n, ![c].pc = "insert"]
    BY <1>4 DEF CallAlloc
  <2>2. call[c] \in Searching /\ call[c].pc # "idle"
    BY <1>4, CallKinds DEF CallAlloc
  <2> QED
    BY <2>1, <2>2, CallKinds DEF Searching
<1>5. CASE CallFind(c) \/ CallInsert(c)
  <2>1. call[c].pc # "idle"
    BY <1>5 DEF CallFind, CallInsert
  <2>2. CASE \E n \in Nodes : Use(c, n)
    BY <2>1, <2>2, UseFacts
  <2>3. CASE CallTo(c, "alloc")
    BY <2>1, <2>3, CallToFacts
  <2>4. call[c].pc = "insert" => call[c].node \in Nodes
    BY CallHasNode
  <2> QED
    BY <1>5, <2>2, <2>3, <2>4, NodeSets DEF CallFind, CallInsert, Listed
<1> QED
  BY <1>1, <1>2, <1>3, <1>4, <1>5 DEF Call

LEMMA CallLifeNext == ASSUME TypeOK, CallLife, [Next]_vars PROVE CallLife'
<1>1. CASE \E p \in Procs : CreateProcess(p)
  <2>1. PICK p \in Procs : CreateProcess(p)
    BY <1>1
  <2>2. \A q : q # p => life'[q] = life[q]
    BY <2>1 DEF CreateProcess, TypeOK
  <2>3. UNCHANGED call /\ \A c \in Callers : call[c].proc # p
    BY <2>1 DEF CreateProcess
  <2> QED
    BY <2>2, <2>3 DEF CallLife
<1>2. ASSUME NEW p \in Procs, (Create(p) /\ ~CreateProcess(p)) \/ Exit(p) PROVE CallLife'
  BY <1>2 DEF CallLife, Create, CreateFind, CreateAlloc, CreateAllocFails, CreateInsert, Exit,
     ExitProcess, ExitFind, ExitRundown, ExitWait, ExitRemove, ExitFree
<1>3. ASSUME NEW c \in Callers, Call(c) PROVE CallLife'
  <2>1. UNCHANGED life
    BY <1>3 DEF Call, CallBegin, CallFind, CallAlloc, CallAllocFails, CallInsert, CallLookup, CallRead,
       CallSend, CallStore, CallWrite, CallRelease
  <2> QED
    BY <1>3, <2>1, CallStep DEF CallLife
<1>4. Policy \/ Purge \/ UNCHANGED vars => UNCHANGED <<call, life>>
  BY DEF Policy, Purge, PolicyBegin, PolicyAcquire, PolicySwap, PolicyEnd,
     PurgeBegin, PurgeSearch, PurgeErase, PurgeEnd, vars
<1> QED
  BY <1>1, <1>2, <1>3, <1>4 DEF Next, CallLife

-----------------------------------------------------------------------------
(* The properties that need to know who owns a node *)

LEMMA HeldFromOwned == TypeOK /\ Owned => HeldNodeStays
<1> SUFFICES ASSUME TypeOK, Owned PROVE HeldNodeStays
  OBVIOUS
<1>1. \A n \in Nodes : n # NoNode
  BY ProcessListConstants
<1> QED
  BY <1>1 DEF Owned, CallNode, WalksList, HeldNodeStays

LEMMA TreeSafeNext == ASSUME TypeOK, Owned, TreeSafe, [Next]_vars PROVE TreeSafe'
<1> USE DEF TreeSafe, Readers, Writers
<1>1. CASE UNCHANGED <<call, policy, purge>>
  BY <1>1
<1>2. ASSUME NEW c \in Callers, Call(c) PROVE TreeSafe'
  <2>1. UNCHANGED <<policy, purge>> /\ \A d \in Callers : d # c => call'[d] = call[d]
    BY <1>2, CallStep DEF Call, CallBegin, CallFind, CallAlloc, CallAllocFails, CallInsert, CallLookup,
       CallRead, CallSend, CallStore, CallWrite, CallRelease
  <2>2. CASE CallLookup(c)
    <3>1. /\ call'[c].pc = "read" /\ call'[c].node = call[c].node
          /\ ~CacheLocked(call[c].node)
      BY <2>2, CallToFacts DEF CallLookup
    <3> QED
      BY <2>1, <3>1 DEF CacheLocked
  <2>3. CASE CallStore(c)
    <3>1. /\ call'[c].pc = "write" /\ call'[c].node = call[c].node
          /\ ~CacheLocked(call[c].node) /\ Readers(call[c].node) = {}
      BY <2>3, CallToFacts DEF CallStore
    <3> QED
      BY <2>1, <3>1 DEF CacheLocked
  <2>4. CASE call'[c].pc \notin {"read", "write"}
    BY <2>1, <2>4
  <2>5. ~CallLookup(c) /\ ~CallStore(c) => call'[c].pc \notin {"read", "write"}
    <3>1. CASE CallRead(c) \/ CallSend(c) \/ CallWrite(c)
      <4>1. PICK to \in {"store", "send", "release"} : CallTo(c, to)
        BY <3>1 DEF CallRead, CallSend, CallWrite
      <4>2. call[c].pc # "idle"
        BY <3>1 DEF CallRead, CallSend, CallWrite
      <4> QED
        BY <4>1, <4>2, CallToFacts
    <3>2. CASE CallFind(c) \/ CallInsert(c)
      <4>1. call[c].pc # "idle"
        BY <3>2 DEF CallFind, CallInsert
      <4>2. CASE \E n \in Nodes : Use(c, n)
        BY <4>1, <4>2, UseFacts
      <4>3. CASE CallTo(c, "alloc")
        <5>1. call'[c].pc = "alloc"
          BY <4>1, <4>3, CallKinds DEF CallTo
        <5> QED
          BY <5>1
      <4>4. call[c].pc = "insert" => call[c].node \in Nodes
        BY CallHasNode
      <4> QED
        BY <3>2, <4>2, <4>3, <4>4, NodeSets DEF CallFind, CallInsert, Listed
    <3>3. CASE CallAlloc(c)
      <4>1. PICK n \in Nodes : call' = [call EXCEPT ![c].node = n, ![c].pc = "insert"]
        BY <3>3 DEF CallAlloc
      <4>2. call[c] \in Searching
        BY <3>3, CallKinds DEF CallAlloc
      <4> QED
        BY <4>1, <4>2, CallKinds DEF Searching
    <3>4. CASE (\E p \in Procs, f \in Files : CallBegin(c, p, f)) \/ CallAllocFails(c) \/ CallRelease(c)
      BY <3>4, CallKinds DEF CallBegin, CallAllocFails, CallRelease, NoCall
    <3> QED
      BY <1>2, <3>1, <3>2, <3>3, <3>4 DEF Call
  <2> QED
    BY <2>2, <2>3, <2>4, <2>5
<1>3. CASE Policy
  <2>1. UNCHANGED <<call, purge>>
    BY <1>3 DEF Policy, PolicyBegin, PolicyAcquire, PolicySwap, PolicyEnd, nodes
  <2>2. CASE \E n \in Nodes : PolicyAcquire(n)
    <3>1. PICK n \in Nodes : PolicyAcquire(n)
      BY <2>2
    <3>2. /\ policy'.at = n /\ ~CacheLocked(n) /\ Readers(n) = {} /\ n \in policy.todo
      BY <3>1, WalkType DEF PolicyAcquire, Walks, NoWalk
    <3>3. purge.at # n
      <4>1. policy.pc # "idle"
        BY <3>2, WalkType DEF Walks, NoWalk
      <4>2. purge = NoWalk
        BY <4>1, WalkType DEF Owned, WalksList, Walks
      <4> QED
        BY <4>2, ProcessListConstants DEF NoWalk
    <3> QED
      BY <2>1, <3>2, <3>3 DEF CacheLocked
  <2>3. CASE policy'.at = NoNode
    BY <2>1, <2>3, ProcessListConstants
  <2> QED
    BY <1>3, <2>2, <2>3 DEF Policy, PolicyBegin, PolicySwap, PolicyEnd, NoWalk
<1>4. CASE Purge
  <2>1. UNCHANGED <<call, policy>>
    BY <1>4 DEF Purge, PurgeBegin, PurgeSearch, PurgeErase, PurgeEnd, nodes
  <2>2. CASE purge.pc = "idle"
    <3>1. purge' = purge \/ purge'.at = NoNode
      BY <1>4, <2>2, WalkType DEF Purge, PurgeBegin, PurgeSearch, PurgeErase, PurgeEnd, Walks, NoWalk
    <3> QED
      BY <2>1, <3>1, ProcessListConstants
  <2>3. CASE purge.pc # "idle"
    <3>1. policy = NoWalk
      BY <2>3, WalkType DEF Owned, WalksList, Walks
    <3> QED
      BY <2>1, <3>1, ProcessListConstants DEF NoWalk
  <2> QED
    BY <2>2, <2>3
<1>5. ASSUME NEW p \in Procs, Create(p) \/ Exit(p) PROVE UNCHANGED <<call, policy, purge>>
  BY <1>5 DEF Create, CreateProcess, CreateFind, CreateAlloc, CreateAllocFails, CreateInsert, Exit,
     ExitProcess, ExitFind, ExitRundown, ExitWait, ExitRemove, ExitFree
<1> QED
  BY <1>1, <1>2, <1>3, <1>4, <1>5 DEF Next, vars

\* A node that comes into the list is the first of its process, empty, and of a
\* process whose exit is still to be handled, or an orphan.
LEMMA ListStep ==
    ASSUME TypeOK, Owned, EmptyNode, [Next]_vars
    PROVE  \/ /\ list' \subseteq list /\ orphan \cap list' \subseteq orphan'
              /\ \A m \in list' : proc'[m] = proc[m]
           \/ \E n \in Nodes :
                 /\ n \notin list /\ list' = list \cup {n} /\ Listed(proc[n]) = {}
                 /\ proc' = proc /\ tree' = tree /\ orphan \subseteq orphan'
                 /\ \A f \in Files : tree[n][f] = 0
                 /\ process'[proc[n]].pc = "alive" \/ (ExitHandled(proc[n]) => n \in orphan')
                 /\ proc[n] \in Procs
                 /\ process' = process \/ (process'[proc[n]].pc = "alive"
                       /\ \A q \in Procs : q # proc[n] => process'[q] = process[q])
                 /\ UNCHANGED life
<1> DEFINE Same == UNCHANGED <<list, orphan>> /\ \A m \in list : proc'[m] = proc[m]
<1> USE NodeSets DEF Owned
<1>1. ASSUME NEW p \in Procs, CreateProcess(p) \/ CreateFind(p) \/ CreateAllocFails(p) \/ ExitProcess(p)
             \/ ExitFind(p) \/ ExitRundown(p) \/ ExitWait(p)
      PROVE  Same
  BY <1>1 DEF CreateProcess, CreateFind, CreateAllocFails, ExitProcess, ExitFind, ExitRundown, ExitWait, nodes
<1>2. ASSUME NEW p \in Procs, CreateAlloc(p) PROVE Same
  BY <1>2, AllocatedNode, FreeUnowned DEF CreateAlloc
<1>3. ASSUME NEW c \in Callers, CallAlloc(c) PROVE Same
  <2>1. call[c].proc \in Procs
    BY <1>3, CallKinds DEF CallAlloc, Searching
  <2> QED
    BY <1>3, <2>1, AllocatedNode, FreeUnowned DEF CallAlloc
<1>4. ASSUME NEW c \in Callers, Call(c), ~CallAlloc(c), ~CallInsert(c) PROVE Same
  BY <1>4 DEF Call, CallBegin, CallFind, CallAllocFails, CallLookup, CallRead, CallSend, CallStore,
     CallWrite, CallRelease, nodes
<1>5. Policy \/ Purge \/ UNCHANGED vars => Same
  BY DEF Policy, Purge, PolicyBegin, PolicyAcquire, PolicySwap, PolicyEnd, PurgeBegin, PurgeSearch,
     PurgeErase, PurgeEnd, vars, nodes
<1>6. ASSUME NEW p \in Procs, ExitRemove(p)
      PROVE  list' \subseteq list /\ UNCHANGED <<proc, orphan>>
  BY <1>6 DEF ExitRemove
<1>7. ASSUME NEW n \in Nodes, n \notin list, Free(n), UNCHANGED list
      PROVE  orphan \cap list' \subseteq orphan' /\ \A m \in list' : proc'[m] = proc[m]
  BY <1>7, FreedNode
<1>8. ASSUME NEW p \in Procs, ExitFree(p)
      PROVE  /\ list' \subseteq list /\ orphan \cap list' \subseteq orphan'
             /\ \A m \in list' : proc'[m] = proc[m]
  <2>1. process[p].node \in Nodes /\ process[p].node \notin list
    BY <1>8 DEF ExitFree, NotificationNode, OwnNode
  <2> QED
    BY <1>7, <1>8, <2>1 DEF ExitFree
<1> DEFINE Inserted(n) ==
                 /\ n \notin list /\ list' = list \cup {n} /\ Listed(proc[n]) = {}
                 /\ proc' = proc /\ tree' = tree /\ orphan \subseteq orphan'
                 /\ \A f \in Files : tree[n][f] = 0
                 /\ process'[proc[n]].pc = "alive" \/ (ExitHandled(proc[n]) => n \in orphan')
                 /\ proc[n] \in Procs
                 /\ process' = process \/ (process'[proc[n]].pc = "alive"
                       /\ \A q \in Procs : q # proc[n] => process'[q] = process[q])
                 /\ UNCHANGED life
           Shrunk == /\ list' \subseteq list /\ orphan \cap list' \subseteq orphan'
                     /\ \A m \in list' : proc'[m] = proc[m]
<1>9. ASSUME NEW p \in Procs, CreateInsert(p) PROVE Shrunk \/ Inserted(process[p].node)
  <2>1. /\ process[p].node \in Nodes /\ process[p].node \notin list /\ proc[process[p].node] = p
        /\ \A f \in Files : tree[process[p].node][f] = 0
    BY <1>9 DEF CreateInsert, NotificationNode, OwnNode, EmptyNode
  <2>2. /\ process'[p].pc = "alive" /\ \A q \in Procs : q # p => process'[q] = process[q]
        /\ UNCHANGED life
    BY <1>9, ProcessType DEF CreateInsert, ProcessTo
  <2>3. CASE Listed(p) = {}
    BY <1>9, <2>1, <2>2, <2>3 DEF CreateInsert
  <2>4. CASE Listed(p) # {}
    BY <1>7, <1>9, <2>1, <2>4 DEF CreateInsert
  <2> QED
    BY <2>3, <2>4
<1>10. ASSUME NEW c \in Callers, CallInsert(c) PROVE Shrunk \/ Inserted(call[c].node)
  <2>1. /\ call[c].node \in Nodes /\ call[c].node \notin list /\ call[c].proc \in Procs
        /\ proc[call[c].node] = call[c].proc
        /\ \A f \in Files : tree[call[c].node][f] = 0
    BY <1>10, CallHasNode DEF CallInsert, CallNode, EmptyNode
  <2>2. UNCHANGED <<process, life>>
    BY <1>10 DEF CallInsert
  <2>3. CASE Listed(call[c].proc) = {} /\ list' = list \cup {call[c].node}
             /\ orphan' = (IF ExitHandled(call[c].proc) THEN orphan \cup {call[c].node} ELSE orphan)
             /\ UNCHANGED <<proc, tree, rundown>>
    BY <2>1, <2>2, <2>3
  <2>4. CASE Free(call[c].node) /\ UNCHANGED list
    BY <1>7, <2>1, <2>4
  <2>5. CASE UNCHANGED <<list, orphan, proc>>
    BY <2>5
  <2> QED
    BY <1>10, <2>3, <2>4, <2>5 DEF CallInsert
<1>11. CASE \E p \in Procs : CreateInsert(p)
  <2>1. PICK p \in Procs : CreateInsert(p)
    BY <1>11
  <2>2. process[p].node \in Nodes
    BY <2>1 DEF CreateInsert, NotificationNode, OwnNode
  <2> QED
    BY <1>9, <2>1, <2>2
<1>12. CASE \E c \in Callers : CallInsert(c)
  <2>1. PICK c \in Callers : CallInsert(c)
    BY <1>12
  <2>2. call[c].node \in Nodes
    BY <2>1, CallHasNode DEF CallInsert
  <2> QED
    BY <1>10, <2>1, <2>2
<1>13. CASE Same \/ \E p \in Procs : ExitRemove(p) \/ ExitFree(p)
  BY <1>6, <1>8, <1>13
<1> QED
  BY <1>1, <1>2, <1>3, <1>4, <1>5, <1>11, <1>12, <1>13 DEF Next, Create, Exit

LEMMA OneNodeNext ==
    ASSUME TypeOK, Owned, EmptyNode, OneNodePerProcess, [Next]_vars PROVE OneNodePerProcess'
<1>1. CASE list' \subseteq list /\ \A m \in list' : proc'[m] = proc[m]
  BY <1>1 DEF OneNodePerProcess
<1>2. CASE \E n \in Nodes : n \notin list /\ list' = list \cup {n} /\ Listed(proc[n]) = {} /\ proc' = proc
  BY <1>2 DEF OneNodePerProcess, Listed
<1> QED
  BY <1>1, <1>2, ListStep

\* An entry is removed, or stays, or is a call's that writes it.
LEMMA TreeStep ==
    ASSUME TypeOK, Owned, [Next]_vars, NEW n \in Nodes, NEW f \in Files
    PROVE  \/ tree'[n][f] \in {0, tree[n][f]}
           \/ \E c \in Callers : /\ call[c].pc = "write" /\ call[c].node = n
                                 /\ tree'[n][f] = call[c].life
<1> USE NodeSets
<1>1. CASE UNCHANGED tree
  BY <1>1
<1>2. ASSUME NEW m \in Nodes, Free(m) PROVE tree'[n][f] \in {0, tree[n][f]}
  BY <1>2 DEF Free
<1>3. ASSUME NEW m \in Nodes, NEW p \in Procs, Allocate(p, m) PROVE tree'[n][f] \in {0, tree[n][f]}
  BY <1>3 DEF Allocate
<1>4. ASSUME NEW c \in Callers, CallWrite(c)
      PROVE  \/ tree'[n][f] \in {0, tree[n][f]}
             \/ call[c].pc = "write" /\ call[c].node = n /\ tree'[n][f] = call[c].life
  <2>1. PICK entry \in {call[c].life, 0} : tree' = [tree EXCEPT ![call[c].node][call[c].file] = entry]
    BY <1>4 DEF CallWrite
  <2>2. call[c].pc = "write"
    BY <1>4 DEF CallWrite
  <2> QED
    BY <2>1, <2>2
<1>5. CASE PolicySwap
  BY <1>5 DEF PolicySwap
<1>6. ASSUME NEW g \in Files, PurgeErase(g) PROVE tree'[n][f] \in {0, tree[n][f]}
  <2>1. PICK entry \in {0, tree[purge.at][g]} : tree' = [tree EXCEPT ![purge.at][g] = entry]
    BY <1>6 DEF PurgeErase
  <2> QED
    BY <2>1
<1>7. ASSUME NEW p \in Procs, Create(p) \/ Exit(p) PROVE tree'[n][f] \in {0, tree[n][f]}
  <2>1. process[p].pc \in OwnNode => process[p].node \in Nodes
    BY DEF Owned, NotificationNode
  <2>2. CASE CreateAlloc(p)
    BY <1>3, <2>2 DEF CreateAlloc
  <2>3. CASE CreateInsert(p)
    BY <1>2, <2>1, <2>3 DEF CreateInsert, OwnNode
  <2>4. CASE ExitFree(p)
    BY <1>2, <2>1, <2>4 DEF ExitFree, OwnNode
  <2> QED
    BY <1>7, <2>2, <2>3, <2>4 DEF Create, CreateProcess, CreateFind, CreateAllocFails, Exit,
       ExitProcess, ExitFind, ExitRundown, ExitWait, ExitRemove, nodes
<1>8. ASSUME NEW c \in Callers, Call(c), ~CallWrite(c) PROVE tree'[n][f] \in {0, tree[n][f]}
  <2>1. CASE CallAlloc(c)
    <3>1. call[c].proc \in Procs
      BY <2>1, CallKinds DEF CallAlloc, Searching
    <3> QED
      BY <1>3, <2>1, <3>1 DEF CallAlloc
  <2>2. CASE CallInsert(c)
    <3>1. call[c].node \in Nodes
      BY <2>2, CallHasNode DEF CallInsert
    <3> QED
      BY <1>2, <2>2, <3>1 DEF CallInsert
  <2> QED
    BY <1>8, <2>1, <2>2 DEF Call, CallBegin, CallFind, CallAllocFails, CallLookup, CallRead, CallSend,
       CallStore, CallRelease, nodes
<1>9. Policy \/ Purge \/ UNCHANGED vars =>
          UNCHANGED tree \/ PolicySwap \/ \E g \in Files : PurgeErase(g)
  BY DEF Policy, Purge, PolicyBegin, PolicyAcquire, PolicyEnd, PurgeBegin, PurgeSearch, PurgeEnd, vars, nodes
<1> QED
  BY <1>1, <1>4, <1>5, <1>6, <1>7, <1>8, <1>9 DEF Next

LEMMA EmptyCall ==
    ASSUME TypeOK, Owned, EmptyNode, [Next]_vars, NEW c \in Callers, call'[c].pc = "insert"
    PROVE  \A f \in Files : tree'[call'[c].node][f] = 0
<1>1. CASE CallAlloc(c)
  <2>1. PICK n \in Nodes : /\ Allocate(call[c].proc, n)
                           /\ call' = [call EXCEPT ![c].node = n, ![c].pc = "insert"]
    BY <1>1 DEF CallAlloc
  <2>2. call[c] \in Searching
    BY <1>1, CallKinds DEF CallAlloc
  <2>3. call'[c].node = n /\ call[c].proc \in Procs
    BY <2>1, <2>2, CallKinds DEF Searching
  <2> QED
    BY <2>1, <2>3, AllocatedNode
<1>2. CASE ~CallAlloc(c)
  <2>1. call'[c] = call[c]
    <3>1. CASE Call(c)
      <4>1. CASE \E to \in Holding \cup {"alloc"} : CallTo(c, to)
        <5>1. PICK to \in Holding \cup {"alloc"} : CallTo(c, to)
          BY <4>1
        <5>2. call'[c].pc = to
          BY <5>1, CallKinds DEF CallTo, Searching, Using, NoCall
        <5> QED
          BY <5>2 DEF Holding
      <4>2. CASE \E n \in Nodes : Use(c, n)
        <5>1. CASE call[c].pc # "idle"
          BY <4>2, <5>1, UseFacts
        <5>2. CASE call[c].pc = "idle"
          BY <3>1, <4>2, <5>2, CallKinds DEF Call, CallBegin, CallFind, CallAlloc, CallAllocFails, CallInsert,
             CallLookup, CallRead, CallSend, CallStore, CallWrite, CallRelease
        <5> QED
          BY <5>1, <5>2
      <4>3. CASE (\E p \in Procs, f \in Files : CallBegin(c, p, f)) \/ CallAllocFails(c) \/ CallRelease(c)
        BY <4>3, CallKinds DEF CallBegin, CallAllocFails, CallRelease, NoCall
      <4>4. call[c].pc = "insert" => call[c].node \in Nodes
        BY CallHasNode
      <4> QED
        BY <1>2, <3>1, <4>1, <4>2, <4>3, <4>4, NodeSets DEF Call, CallFind, CallInsert, CallLookup, CallRead,
           CallSend, CallStore, CallWrite, Listed, Holding
    <3>2. ASSUME NEW d \in Callers, d # c, Call(d) PROVE call'[c] = call[c]
      BY <3>2, CallStep
    <3>3. ASSUME NEW p \in Procs, Create(p) \/ Exit(p) PROVE UNCHANGED call
      BY <3>3 DEF Create, CreateProcess, CreateFind, CreateAlloc, CreateAllocFails, CreateInsert, Exit,
         ExitProcess, ExitFind, ExitRundown, ExitWait, ExitRemove, ExitFree
    <3>4. Policy \/ Purge \/ UNCHANGED vars => UNCHANGED call
      BY DEF Policy, Purge, PolicyBegin, PolicyAcquire, PolicySwap, PolicyEnd,
         PurgeBegin, PurgeSearch, PurgeErase, PurgeEnd, vars
    <3> QED
      BY <3>1, <3>2, <3>3, <3>4 DEF Next
  <2>2. /\ call[c].pc = "insert" /\ call[c].node \in Nodes /\ call[c].node \notin list
        /\ \A f \in Files : tree[call[c].node][f] = 0
        /\ \A d \in Callers : d # c => call[d].node # call[c].node
    BY <2>1, CallHasNode DEF Owned, CallNode, PrivateNode, EmptyNode
  <2> QED
    BY <2>1, <2>2, TreeStep
<1> QED
  BY <1>1, <1>2

LEMMA EmptyNotification ==
    ASSUME TypeOK, Owned, EmptyNode, [Next]_vars, NEW p \in Procs, process'[p].pc = "createInsert"
    PROVE  \A f \in Files : tree'[process'[p].node][f] = 0
<1>1. CASE CreateAlloc(p)
  <2>1. PICK n \in Nodes : Allocate(p, n) /\ ProcessTo(p, "createInsert", n)
    BY <1>1 DEF CreateAlloc
  <2>2. process'[p].node = n
    BY <2>1, ProcessType DEF ProcessTo
  <2> QED
    BY <2>1, <2>2, AllocatedNode
<1>2. CASE ~CreateAlloc(p)
  <2>1. process'[p] = process[p]
    <3>1. CASE Create(p)
      BY <1>2, <3>1, ProcessType DEF Create, CreateProcess, CreateFind, CreateAllocFails, CreateInsert, ProcessTo
    <3>2. CASE Exit(p)
      BY <3>2, ProcessType DEF Exit, ExitProcess, ExitFind, ExitRundown, ExitWait, ExitRemove, ExitFree,
         ProcessTo, Notifications
    <3>3. ASSUME NEW q \in Procs, q # p, Create(q) \/ Exit(q) PROVE process'[p] = process[p]
      BY <3>3, ProcessType DEF Create, CreateProcess, CreateFind, CreateAlloc, CreateAllocFails, CreateInsert,
         Exit, ExitProcess, ExitFind, ExitRundown, ExitWait, ExitRemove, ExitFree, ProcessTo
    <3>4. ASSUME NEW c \in Callers, Call(c) PROVE UNCHANGED process
      BY <3>4 DEF Call, CallBegin, CallFind, CallAlloc, CallAllocFails, CallInsert, CallLookup, CallRead,
         CallSend, CallStore, CallWrite, CallRelease
    <3>5. Policy \/ Purge \/ UNCHANGED vars => UNCHANGED process
      BY DEF Policy, Purge, PolicyBegin, PolicyAcquire, PolicySwap, PolicyEnd,
         PurgeBegin, PurgeSearch, PurgeErase, PurgeEnd, vars
    <3> QED
      BY <3>1, <3>2, <3>3, <3>4, <3>5 DEF Next
  <2>2. /\ process[p].node \in Nodes /\ process[p].node \notin list
        /\ \A f \in Files : tree[process[p].node][f] = 0
    BY <2>1 DEF Owned, NotificationNode, OwnNode, EmptyNode
  <2>3. \A c \in Callers : call[c].pc = "write" => call[c].node # process[p].node
    BY <2>2 DEF Owned, PrivateNode, Holding
  <2> QED
    BY <2>1, <2>2, <2>3, TreeStep
<1> QED
  BY <1>1, <1>2

\* Where a process is after a step that is not its own.
LEMMA ProcessStep ==
    ASSUME TypeOK, [Next]_vars, NEW p \in Procs
    PROVE  /\ \/ process'[p] = process[p]
              \/ CreateProcess(p) /\ process'[p].pc = "createFind"
              \/ ExitFind(p) /\ process'[p].pc # "exitFree"
                     /\ (process'[p].pc = "gone" => Listed(p) \subseteq rundown)
              \/ ExitFree(p) /\ process'[p].pc = "gone"
              \/ ExitRemove(p)
              \/ process'[p].pc \notin {"gone", "exitFree"}
           /\ life'[p] = life[p] \/ process[p].pc = "gone"
<1>1. CASE Create(p)
  BY <1>1, ProcessType DEF Create, CreateProcess, CreateFind, CreateAlloc, CreateAllocFails, CreateInsert, ProcessTo
<1>2. CASE Exit(p)
  <2>1. CASE ExitFind(p)
    <3>1. UNCHANGED life
      BY <2>1 DEF ExitFind
    <3>2. CASE Listed(p) \subseteq rundown /\ ProcessTo(p, "gone", NoNode)
      BY <2>1, <3>1, <3>2, ProcessType DEF ProcessTo
    <3>3. CASE \E n \in Listed(p) \ rundown : ProcessTo(p, "exitRundown", n)
      <4>1. process'[p].pc = "exitRundown"
        BY <3>3, ProcessType DEF ProcessTo
      <4> QED
        BY <3>1, <4>1
    <3> QED
      BY <2>1, <3>2, <3>3 DEF ExitFind
  <2>2. CASE ExitProcess(p) \/ ExitRundown(p) \/ ExitWait(p)
    BY <2>2, ProcessType DEF ExitProcess, ExitRundown, ExitWait, ProcessTo, Notifications
  <2>3. CASE ExitFree(p) \/ ExitRemove(p)
    BY <2>3, ProcessType DEF ExitFree, ExitRemove, ProcessTo
  <2> QED
    BY <1>2, <2>1, <2>2, <2>3 DEF Exit
<1>3. ASSUME NEW q \in Procs, q # p, Create(q) \/ Exit(q)
      PROVE  process'[p] = process[p] /\ life'[p] = life[p]
  BY <1>3, ProcessType DEF Create, CreateProcess, CreateFind, CreateAlloc, CreateAllocFails, CreateInsert,
     Exit, ExitProcess, ExitFind, ExitRundown, ExitWait, ExitRemove, ExitFree, ProcessTo, TypeOK
<1>4. ASSUME NEW c \in Callers, Call(c) PROVE UNCHANGED <<process, life>>
  BY <1>4 DEF Call, CallBegin, CallFind, CallAlloc, CallAllocFails, CallInsert, CallLookup, CallRead,
     CallSend, CallStore, CallWrite, CallRelease
<1>5. Policy \/ Purge \/ UNCHANGED vars => UNCHANGED <<process, life>>
  BY DEF Policy, Purge, PolicyBegin, PolicyAcquire, PolicySwap, PolicyEnd,
     PurgeBegin, PurgeSearch, PurgeErase, PurgeEnd, vars
<1> QED
  BY <1>1, <1>2, <1>3, <1>4, <1>5 DEF Next

LEMMA OrphansBehindExit ==
    ASSUME TypeOK, Owned, EmptyNode, OneNodePerProcess, [Next]_vars,
           NEW p \in Procs, process'[p].pc = "exitFree"
    PROVE  Listed(p)' \subseteq orphan'
<1>1. CASE ExitRemove(p)
  <2>1. /\ process[p].pc = "exitRemove" /\ list' = list \ {process[p].node} /\ proc' = proc
    BY <1>1 DEF ExitRemove
  <2>2. process[p].node \in list /\ proc[process[p].node] = p
    BY <2>1 DEF Owned, NotificationNode, Exiting
  <2> QED
    BY <2>1, <2>2 DEF OneNodePerProcess, Listed
<1>2. CASE process'[p] = process[p]
  <2>1. Listed(p) \subseteq orphan /\ ExitHandled(p)
    BY <1>2 DEF EmptyNode, ExitHandled
  <2>2. CASE list' \subseteq list /\ orphan \cap list' \subseteq orphan' /\ \A m \in list' : proc'[m] = proc[m]
    BY <2>1, <2>2 DEF Listed
  <2>3. CASE \E n \in Nodes : /\ list' = list \cup {n} /\ proc' = proc /\ orphan \subseteq orphan'
                              /\ process'[proc[n]].pc = "alive" \/ (ExitHandled(proc[n]) => n \in orphan')
    BY <1>2, <2>1, <2>3 DEF Listed, ExitHandled
  <2> QED
    BY <2>2, <2>3, ListStep
<1> QED
  <2>1. \/ process'[p] = process[p] \/ ExitRemove(p)
        \/ process'[p].pc # "exitFree"
    BY ProcessStep
  <2> QED
    BY <1>1, <1>2, <2>1

LEMMA EmptyNodeNext ==
    ASSUME TypeOK, Owned, EmptyNode, OneNodePerProcess, [Next]_vars PROVE EmptyNode'
BY EmptyCall, EmptyNotification, OrphansBehindExit DEF EmptyNode

LEMMA InheritedNext ==
    ASSUME TypeOK, Owned, CallLife, EmptyNode, NoInheritedRights, [Next]_vars PROVE NoInheritedRights'
<1>1. ASSUME NEW n \in list, n \notin orphan, proc'[n] = proc[n], NEW f \in Files
      PROVE  process'[proc[n]].pc # "gone" /\ tree'[n][f] \in {0, life'[proc[n]]}
  <2> DEFINE p == proc[n]
  <2>1. p \in Procs /\ n \in Nodes /\ process[p].pc # "gone" /\ tree[n][f] \in {0, life[p]} /\ n \in Listed(p)
    BY <1>1, NodeSets DEF Owned, WalksList, NoInheritedRights, Listed
  <2>2. life'[p] = life[p]
    BY <2>1, ProcessStep
  <2>3. ~(ExitFind(p) /\ Listed(p) \subseteq rundown)
    BY <2>1 DEF ExitFind, Owned, RundownNode, Listed
  <2>4. ~ExitFree(p)
    BY <1>1, <2>1 DEF ExitFree, EmptyNode
  <2>5. ExitRemove(p) => process'[p].pc # "gone"
    BY <2>1, ProcessType DEF ExitRemove, Notifications
  <2>6. process'[p].pc # "gone"
    BY <2>1, <2>3, <2>4, <2>5, ProcessStep
  <2>7. \A c \in Callers : call[c].pc = "write" /\ call[c].node = n => call[c].life = life[p]
    BY DEF CallLife, Owned, CallNode, Holding
  <2>8. tree'[n][f] \in {0, life[p]}
    BY <2>1, <2>7, TreeStep
  <2> QED
    BY <2>2, <2>6, <2>8
<1>2. CASE list' \subseteq list /\ orphan \cap list' \subseteq orphan' /\ \A m \in list' : proc'[m] = proc[m]
  BY <1>1, <1>2 DEF NoInheritedRights
<1>3. ASSUME NEW n \in Nodes, list' = list \cup {n}, proc' = proc, tree' = tree, orphan \subseteq orphan',
             \A f \in Files : tree[n][f] = 0,
             process'[proc[n]].pc = "alive" \/ (ExitHandled(proc[n]) => n \in orphan'),
             process' = process \/ process'[proc[n]].pc = "alive"
      PROVE  NoInheritedRights'
  <2>1. n \notin orphan' => process'[proc[n]].pc # "gone"
    BY <1>3 DEF ExitHandled
  <2> QED
    BY <1>1, <1>3, <2>1 DEF NoInheritedRights
<1>4. CASE \E n \in Nodes :
                 /\ list' = list \cup {n} /\ proc' = proc /\ tree' = tree /\ orphan \subseteq orphan'
                 /\ \A f \in Files : tree[n][f] = 0
                 /\ process'[proc[n]].pc = "alive" \/ (ExitHandled(proc[n]) => n \in orphan')
                 /\ process' = process \/ process'[proc[n]].pc = "alive"
  BY <1>3, <1>4
<1> QED
  BY <1>2, <1>4, ListStep

-----------------------------------------------------------------------------
(* The theorems *)

IInv == TypeOK /\ Owned /\ Started /\ CallLife /\ EmptyNode
        /\ OneNodePerProcess /\ TreeSafe /\ NoInheritedRights

LEMMA IInvInit == Init => IInv
<1> SUFFICES ASSUME Init PROVE IInv
  OBVIOUS
<1>1. TypeOK /\ Owned
  BY TypeInit, OwnedInit
<1>2. Started
  BY DEF Init, Started
<1>3. CallLife /\ EmptyNode
  BY DEF Init, CallLife, EmptyNode, NoCall
<1>4. OneNodePerProcess /\ NoInheritedRights
  BY DEF Init, OneNodePerProcess, NoInheritedRights
<1>5. TreeSafe
  BY ProcessListConstants DEF Init, TreeSafe, Writers, Readers, NoCall, NoWalk
<1> QED
  BY <1>1, <1>2, <1>3, <1>4, <1>5 DEF IInv

LEMMA IInvNext == IInv /\ [Next]_vars => IInv'
<1> SUFFICES ASSUME IInv, [Next]_vars PROVE IInv'
  OBVIOUS
<1>1. TypeOK' /\ Owned'
  BY TypeNext, OwnedNext DEF IInv, Owned
<1>2. Started' /\ CallLife'
  BY StartedNext, CallLifeNext DEF IInv
<1>3. EmptyNode' /\ OneNodePerProcess'
  BY EmptyNodeNext, OneNodeNext DEF IInv
<1>4. TreeSafe' /\ NoInheritedRights'
  BY TreeSafeNext, InheritedNext DEF IInv
<1> QED
  BY <1>1, <1>2, <1>3, <1>4 DEF IInv

LEMMA Invariance == Spec => []IInv
BY IInvInit, IInvNext, PTL DEF Spec

\* Every variable keeps its type, and so no call goes on without a node
\* (nxrmfltutils.c 3478-3546).
THEOREM TypeCorrect == Spec => []TypeOK
<1>1. IInv => TypeOK
  BY DEF IInv
<1> QED
  BY <1>1, Invariance, PTL

\* A process has one node in the list (nxrmfltutils.c 3497, nxrmflt.c 1608).
THEOREM OneNode == Spec => []OneNodePerProcess
<1>1. IInv => OneNodePerProcess
  BY DEF IInv
<1> QED
  BY <1>1, Invariance, PTL

\* A node in use is not freed (nxrmflt.c 1563-1573).
THEOREM HeldNodes == Spec => []HeldNodeStays
<1>1. IInv => HeldNodeStays
  BY HeldFromOwned DEF IInv
<1> QED
  BY <1>1, Invariance, PTL

\* Only the purge of a file enters a tree that is being changed
\* (nxrmfltutils.c 4900-4936).
THEOREM TreesSafe == Spec => []TreeSafe
<1>1. IInv => TreeSafe
  BY DEF IInv
<1> QED
  BY <1>1, Invariance, PTL

\* A process has no rights of an earlier user of its id, but through a node
\* inserted behind an exit notification (nxrmfltutils.c 3513-3523).
THEOREM NothingInherited == Spec => []NoInheritedRights
<1>1. IInv => NoInheritedRights
  BY DEF IInv
<1> QED
  BY <1>1, Invariance, PTL
=============================================================================
