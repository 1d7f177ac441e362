----------------------------- MODULE ProcessList -----------------------------
(***************************************************************************)
(* The filter driver's list of processes.                                  *)
(*                                                                         *)
(* The driver keeps one node per process, with a tree of the rights it has *)
(* cached for the process's files.  A node is made when the process is     *)
(* created, or by the first call of a process older than the driver, and   *)
(* freed when the process exits; calls hold it by a rundown reference.     *)
(* NxlProcessListLock protects the list, each node's RightsCacheLock its   *)
(* tree: a policy change purges all trees under both, the purge of one     *)
(* file under the first only.  Process ids are used again.                 *)
(***************************************************************************)
EXTENDS Naturals

CONSTANTS Procs,    \* process ids
          Callers,  \* threads that are in the driver on behalf of a process
          Nodes,    \* memory for nodes
          Files,
          NoProc,   \* the process of free memory
          NoNode,
          MaxLives  \* bound: how often an id is used

ASSUME ProcessListConstants ==
    /\ NoProc \notin Procs
    /\ NoNode \notin Nodes
    /\ MaxLives \in Nat \ {0}

VARIABLES
    process, \* where each process is, and the node its notification works on
    life,    \* which use of its id a process is
    list,    \* Global.NxlProcessList
    proc,    \* the process each node was allocated for
    rundown, \* nodes whose rundown has begun
    users,   \* the callers that hold a rundown reference to each node
    tree,    \* RightsCache: for each file, the life whose decision it is, 0 for none
    call,    \* what each caller is doing
    policy,  \* the thread that handles nxrmfltPolicyChanged
    purge,   \* the thread that is in nxrmfltPurgeRightsCache
    leaked,  \* nodes with a reference that nobody releases
    orphan   \* history: nodes inserted when their process's exit had been handled

nodes == <<list, proc, rundown, users, tree, leaked, orphan>>
vars == <<process, life, nodes, call, policy, purge>>

-----------------------------------------------------------------------------
NoCall == [pc |-> "idle", proc |-> NoProc, node |-> NoNode, file |-> "none", life |-> 0]
NoWalk == [pc |-> "idle", todo |-> {}, at |-> NoNode]

Holding == {"lookup", "read", "send", "store", "write", "release"}

TypeOK ==
    /\ process \in [Procs -> [pc : {"gone", "createFind", "createAlloc", "createInsert",
                                    "alive", "exitFind", "exitRundown", "exitWait", "exitRemove",
                                    "exitFree"},
                              node : Nodes \cup {NoNode}]]
    /\ life \in [Procs -> 0..MaxLives]
    /\ list \subseteq Nodes
    /\ proc \in [Nodes -> Procs \cup {NoProc}]
    /\ rundown \subseteq Nodes
    /\ users \in [Nodes -> SUBSET Callers]
    /\ tree \in [Nodes -> [Files -> 0..MaxLives]]
    /\ call \in [Callers -> {NoCall}
           \cup [pc : {"find", "alloc"}, proc : Procs, node : {NoNode}, file : Files, life : 1..MaxLives]
           \cup [pc : Holding \cup {"insert"}, proc : Procs, node : Nodes, file : Files, life : 1..MaxLives]]
    /\ policy \in {NoWalk} \cup [pc : {"walk"}, todo : SUBSET Nodes, at : Nodes \cup {NoNode}]
    /\ purge \in {NoWalk} \cup [pc : {"walk"}, todo : SUBSET Nodes, at : Nodes \cup {NoNode}]
    /\ leaked \subseteq Nodes
    /\ orphan \subseteq Nodes

\* A process is new to the driver, or older than it and without a node.
Init ==
    /\ life \in [Procs -> {0, 1}]
    /\ process = [p \in Procs |-> [pc |-> IF life[p] = 0 THEN "gone" ELSE "alive", node |-> NoNode]]
    /\ list = {}
    /\ proc = [n \in Nodes |-> NoProc]
    /\ rundown = {}
    /\ users = [n \in Nodes |-> {}]
    /\ tree = [n \in Nodes |-> [f \in Files |-> 0]]
    /\ call = [c \in Callers |-> NoCall]
    /\ policy = NoWalk
    /\ purge = NoWalk
    /\ leaked = {}
    /\ orphan = {}

-----------------------------------------------------------------------------
(* Nodes and locks *)

\* NxlProcessListLock: the purges hold it from step to step, others within one.
ListFree == policy.pc = "idle" /\ purge.pc = "idle"

\* RightsCacheLock, shared and exclusive.
Readers(n) == {c \in Callers : call[c].pc = "read" /\ call[c].node = n}
Writers(n) == {c \in Callers : call[c].pc = "write" /\ call[c].node = n}
CacheLocked(n) == Writers(n) # {} \/ policy.at = n

\* The nodes a search of the list for the process finds.
Listed(p) == {n \in list : proc[n] = p}

\* The process's exit has been looked up in the list, or carried out.
ExitHandled(p) == process[p].pc \notin {"alive", "exitFind"}

Allocate(p, n) ==
    /\ proc[n] = NoProc
    /\ proc' = [proc EXCEPT ![n] = p]
    /\ tree' = [tree EXCEPT ![n] = [f \in Files |-> 0]]

\* nxrmfltFreeProcessNode; the reference count and the flags go with the memory.
Free(n) ==
    /\ proc' = [proc EXCEPT ![n] = NoProc]
    /\ tree' = [tree EXCEPT ![n] = [f \in Files |-> 0]]
    /\ rundown' = rundown \ {n}
    /\ orphan' = orphan \ {n}

-----------------------------------------------------------------------------
(* nxrmfltCreateProcessNotifyEx: a process is created *)

ProcessTo(p, to, n) == process' = [process EXCEPT ![p] = [pc |-> to, node |-> n]]

\* The id is not used again while a thread of its last user is in the driver.
CreateProcess(p) ==
    /\ process[p].pc = "gone"
    /\ life[p] < MaxLives
    /\ \A c \in Callers : call[c].proc # p
    /\ life' = [life EXCEPT ![p] = @ + 1]
    /\ ProcessTo(p, "createFind", NoNode)
    /\ UNCHANGED <<nodes, call, policy, purge>>

\* A node found keeps the reference taken here: only the exit's branch releases it.
CreateFind(p) ==
    /\ process[p].pc = "createFind"
    /\ ListFree
    /\ LET found == Listed(p) \ rundown
       IN  /\ leaked' = leaked \cup found
           /\ ProcessTo(p, IF found = {} THEN "createAlloc" ELSE "alive", NoNode)
    /\ UNCHANGED <<life, list, proc, rundown, users, tree, orphan, call, policy, purge>>

CreateAlloc(p) ==
    /\ process[p].pc = "createAlloc"
    /\ \E n \in Nodes : Allocate(p, n) /\ ProcessTo(p, "createInsert", n)
    /\ UNCHANGED <<life, list, rundown, users, leaked, orphan, call, policy, purge>>

CreateAllocFails(p) ==
    /\ process[p].pc = "createAlloc"
    /\ ProcessTo(p, "alive", NoNode)
    /\ UNCHANGED <<life, nodes, call, policy, purge>>

\* The list is searched again; a node made needlessly is freed.
CreateInsert(p) ==
    /\ process[p].pc = "createInsert"
    /\ ListFree
    /\ LET n == process[p].node
       IN  IF Listed(p) = {}
           THEN list' = list \cup {n} /\ UNCHANGED <<proc, tree, rundown, orphan>>
           ELSE Free(n) /\ UNCHANGED list
    /\ ProcessTo(p, "alive", NoNode)
    /\ UNCHANGED <<life, users, leaked, call, policy, purge>>

-----------------------------------------------------------------------------
(* nxrmfltCreateProcessNotifyEx: a process exits *)

ExitProcess(p) ==
    /\ process[p].pc = "alive"
    /\ ProcessTo(p, "exitFind", NoNode)
    /\ UNCHANGED <<life, nodes, call, policy, purge>>

\* Mutant: the reference taken by the search is never given back.
ExitFindKeeps(p) ==
    /\ process[p].pc = "exitFind"
    /\ ListFree
    /\ LET found == Listed(p) \ rundown
       IN  /\ leaked' = leaked \cup found
           /\ \/ \E n \in found : ProcessTo(p, "exitRundown", n)
              \/ found = {} /\ ProcessTo(p, "gone", NoNode)
    /\ UNCHANGED <<life, list, proc, rundown, users, tree, orphan, call, policy, purge>>

\* The reference taken by the search is given back at once.
ExitFind(p) ==
    /\ process[p].pc = "exitFind"
    /\ ListFree
    /\ \/ \E n \in Listed(p) \ rundown : ProcessTo(p, "exitRundown", n)
       \/ Listed(p) \subseteq rundown /\ ProcessTo(p, "gone", NoNode)
    /\ UNCHANGED <<life, nodes, call, policy, purge>>

\* From here on the node gives no reference.
ExitRundown(p) ==
    /\ process[p].pc = "exitRundown"
    /\ rundown' = rundown \cup {process[p].node}
    /\ process' = [process EXCEPT ![p].pc = "exitWait"]
    /\ UNCHANGED <<life, list, proc, users, tree, leaked, orphan, call, policy, purge>>

\* Mutant: the node's users are not waited for.
ExitWaitNot(p) ==
    /\ process[p].pc = "exitWait"
    /\ process' = [process EXCEPT ![p].pc = "exitRemove"]
    /\ UNCHANGED <<life, nodes, call, policy, purge>>

\* Mutant: a node that is in use stays in the list.
ExitWaitUnused(p) ==
    /\ process[p].pc = "exitWait"
    /\ LET n == process[p].node
       IN  IF users[n] = {} /\ n \notin leaked
           THEN ProcessTo(p, "exitRemove", n)
           ELSE ProcessTo(p, "gone", NoNode)
    /\ UNCHANGED <<life, nodes, call, policy, purge>>

\* All references are released.
ExitWait(p) ==
    /\ process[p].pc = "exitWait"
    /\ users[process[p].node] = {}
    /\ process[p].node \notin leaked
    /\ process' = [process EXCEPT ![p].pc = "exitRemove"]
    /\ UNCHANGED <<life, nodes, call, policy, purge>>

ExitRemove(p) ==
    /\ process[p].pc = "exitRemove"
    /\ ListFree
    /\ list' = list \ {process[p].node}
    /\ process' = [process EXCEPT ![p].pc = "exitFree"]
    /\ UNCHANGED <<life, proc, rundown, users, tree, leaked, orphan, call, policy, purge>>

ExitFree(p) ==
    /\ process[p].pc = "exitFree"
    /\ Free(process[p].node)
    /\ ProcessTo(p, "gone", NoNode)
    /\ UNCHANGED <<life, list, users, leaked, call, policy, purge>>

-----------------------------------------------------------------------------
(* nxrmfltCheckRights and nxrmfltCheckHideNXLExtsionByProcessId *)

CallTo(c, to) == call' = [call EXCEPT ![c].pc = to]

CallBegin(c, p, f) ==
    /\ call[c].pc = "idle"
    /\ process[p].pc = "alive"
    /\ call' = [call EXCEPT ![c] =
           [pc |-> "find", proc |-> p, node |-> NoNode, file |-> f, life |-> life[p]]]
    /\ UNCHANGED <<process, life, nodes, policy, purge>>

\* With a node, a call looks in its tree, or asks the service (IgnoreCache), or
\* has read a flag of it and is done (hide the extension).
Use(c, n) == \E to \in {"lookup", "send", "release"} :
    call' = [call EXCEPT ![c].node = n, ![c].pc = to]

CallFind(c) ==
    /\ call[c].pc = "find"
    /\ ListFree
    /\ \/ \E n \in Listed(call[c].proc) \ rundown :
              Use(c, n) /\ users' = [users EXCEPT ![n] = @ \cup {c}]
       \/ Listed(call[c].proc) \subseteq rundown /\ CallTo(c, "alloc") /\ UNCHANGED users
    /\ UNCHANGED <<process, life, list, proc, rundown, tree, leaked, orphan, policy, purge>>

CallAlloc(c) ==
    /\ call[c].pc = "alloc"
    /\ \E n \in Nodes :
           /\ Allocate(call[c].proc, n)
           /\ call' = [call EXCEPT ![c].node = n, ![c].pc = "insert"]
    /\ UNCHANGED <<process, life, list, rundown, users, leaked, orphan, policy, purge>>

\* Mutant: the call goes on without a node.
CallAllocNull(c) ==
    /\ call[c].pc = "alloc"
    /\ CallTo(c, "send")
    /\ UNCHANGED <<process, life, nodes, policy, purge>>

\* No rights, or the flag of the application's name.
CallAllocFails(c) ==
    /\ call[c].pc = "alloc"
    /\ call' = [call EXCEPT ![c] = NoCall]
    /\ UNCHANGED <<process, life, nodes, policy, purge>>

\* Mutant: the list is not searched again.
CallInsertBlind(c) ==
    /\ call[c].pc = "insert"
    /\ ListFree
    /\ LET p == call[c].proc
           n == call[c].node
       IN  /\ list' = list \cup {n}
           /\ users' = [users EXCEPT ![n] = {c}]
           /\ orphan' = IF ExitHandled(p) THEN orphan \cup {n} ELSE orphan
           /\ Use(c, n)
    /\ UNCHANGED <<process, life, proc, rundown, tree, leaked, policy, purge>>

\* The list is searched again: the node is inserted, or freed for the one found,
\* or, when that one's rundown has begun, kept by the call alone (and then lost).
CallInsert(c) ==
    /\ call[c].pc = "insert"
    /\ ListFree
    /\ LET p == call[c].proc
           n == call[c].node
       IN  \/ /\ Listed(p) = {}
              /\ list' = list \cup {n}
              /\ users' = [users EXCEPT ![n] = {c}]
              /\ orphan' = IF ExitHandled(p) THEN orphan \cup {n} ELSE orphan
              /\ Use(c, n)
              /\ UNCHANGED <<proc, tree, rundown>>
           \/ \E m \in Listed(p) \ rundown :
                 /\ users' = [users EXCEPT ![m] = @ \cup {c}]
                 /\ Free(n)
                 /\ Use(c, m)
                 /\ UNCHANGED list
           \/ /\ Listed(p) \cap rundown # {}
              /\ Use(c, n)
              /\ UNCHANGED <<list, users, orphan, proc, tree, rundown>>
    /\ UNCHANGED <<process, life, leaked, policy, purge>>

CallLookup(c) ==
    /\ call[c].pc = "lookup"
    /\ ~CacheLocked(call[c].node)
    /\ CallTo(c, "read")
    /\ UNCHANGED <<process, life, nodes, policy, purge>>

\* An entry the purge of a file is erasing is found or is not.
Erasing(n) == purge.at = n

CallRead(c) ==
    /\ call[c].pc = "read"
    /\ \E found \in IF Erasing(call[c].node) THEN BOOLEAN
                    ELSE {tree[call[c].node][call[c].file] # 0} :
           CallTo(c, IF found THEN "release" ELSE "send")
    /\ UNCHANGED <<process, life, nodes, policy, purge>>

\* The service's answer is to be kept, or it is not, or there is none in time.
CallSend(c) ==
    /\ call[c].pc = "send"
    /\ \E to \in {"store", "release"} : CallTo(c, to)
    /\ UNCHANGED <<process, life, nodes, policy, purge>>

CallStore(c) ==
    /\ call[c].pc = "store"
    /\ ~CacheLocked(call[c].node)
    /\ Readers(call[c].node) = {}
    /\ CallTo(c, "write")
    /\ UNCHANGED <<process, life, nodes, policy, purge>>

\* Mutant: the node is looked up in the list before its tree is changed.
CallWriteListed(c) ==
    /\ call[c].pc = "write"
    /\ ListFree
    /\ call[c].node \in list =>
           tree' = [tree EXCEPT ![call[c].node][call[c].file] = call[c].life]
    /\ call[c].node \notin list => UNCHANGED tree
    /\ CallTo(c, "release")
    /\ UNCHANGED <<process, life, list, proc, rundown, users, leaked, orphan, policy, purge>>

\* A new entry, or an update of the one that is there.
CallWrite(c) ==
    /\ call[c].pc = "write"
    /\ \E entry \in {call[c].life} \cup IF Erasing(call[c].node) THEN {0} ELSE {} :
           tree' = [tree EXCEPT ![call[c].node][call[c].file] = entry]
    /\ CallTo(c, "release")
    /\ UNCHANGED <<process, life, list, proc, rundown, users, leaked, orphan, policy, purge>>

CallRelease(c) ==
    /\ call[c].pc = "release"
    /\ users' = [users EXCEPT ![call[c].node] = @ \ {c}]
    /\ call' = [call EXCEPT ![c] = NoCall]
    /\ UNCHANGED <<process, life, list, proc, rundown, tree, leaked, orphan, policy, purge>>

-----------------------------------------------------------------------------
(* nxrmfltPolicyChanged: the tree of every node is emptied *)

PolicyBegin ==
    /\ ListFree
    /\ policy' = [pc |-> "walk", todo |-> list, at |-> NoNode]
    /\ UNCHANGED <<process, life, nodes, call, purge>>

\* Mutant: the purge takes no lock of the node.
PolicyAcquireNothing(n) ==
    /\ n \in policy.todo
    /\ policy.at = NoNode
    /\ policy' = [policy EXCEPT !.at = n]
    /\ UNCHANGED <<process, life, nodes, call, purge>>

PolicyAcquire(n) ==
    /\ n \in policy.todo
    /\ policy.at = NoNode
    /\ ~CacheLocked(n)
    /\ Readers(n) = {}
    /\ policy' = [policy EXCEPT !.at = n]
    /\ UNCHANGED <<process, life, nodes, call, purge>>

PolicySwap ==
    /\ policy.at # NoNode
    /\ tree' = [tree EXCEPT ![policy.at] = [f \in Files |-> 0]]
    /\ policy' = [pc |-> "walk", todo |-> policy.todo \ {policy.at}, at |-> NoNode]
    /\ UNCHANGED <<process, life, list, proc, rundown, users, leaked, orphan, call, purge>>

PolicyEnd ==
    /\ policy.pc = "walk"
    /\ policy.todo = {}
    /\ policy' = NoWalk
    /\ UNCHANGED <<process, life, nodes, call, purge>>

-----------------------------------------------------------------------------
(* nxrmfltPurgeRightsCache: the entry of one file is removed from every tree *)

PurgeBegin ==
    /\ ListFree
    /\ purge' = [pc |-> "walk", todo |-> list, at |-> NoNode]
    /\ UNCHANGED <<process, life, nodes, call, policy>>

\* RightsCacheLock is not taken.
PurgeSearch(n) ==
    /\ n \in purge.todo
    /\ purge.at = NoNode
    /\ purge' = [purge EXCEPT !.at = n]
    /\ UNCHANGED <<process, life, nodes, call, policy>>

\* Where a call is in the tree at the same time, the entry may survive.
PurgeErase(f) ==
    /\ purge.at # NoNode
    /\ \E entry \in {0} \cup IF Writers(purge.at) = {} THEN {} ELSE {tree[purge.at][f]} :
           tree' = [tree EXCEPT ![purge.at][f] = entry]
    /\ purge' = [pc |-> "walk", todo |-> purge.todo \ {purge.at}, at |-> NoNode]
    /\ UNCHANGED <<process, life, list, proc, rundown, users, leaked, orphan, call, policy>>

PurgeEnd ==
    /\ purge.pc = "walk"
    /\ purge.todo = {}
    /\ purge' = NoWalk
    /\ UNCHANGED <<process, life, nodes, call, policy>>

-----------------------------------------------------------------------------
Create(p) == CreateProcess(p) \/ CreateFind(p) \/ CreateAlloc(p) \/ CreateAllocFails(p)
             \/ CreateInsert(p)
Exit(p) == ExitProcess(p) \/ ExitFind(p) \/ ExitRundown(p) \/ ExitWait(p) \/ ExitRemove(p)
           \/ ExitFree(p)
Call(c) == \/ \E p \in Procs, f \in Files : CallBegin(c, p, f)
           \/ CallFind(c) \/ CallAlloc(c) \/ CallAllocFails(c) \/ CallInsert(c)
           \/ CallLookup(c) \/ CallRead(c) \/ CallSend(c) \/ CallStore(c) \/ CallWrite(c)
           \/ CallRelease(c)
Policy == PolicyBegin \/ (\E n \in Nodes : PolicyAcquire(n)) \/ PolicySwap \/ PolicyEnd
Purge == PurgeBegin \/ (\E n \in Nodes : PurgeSearch(n)) \/ (\E f \in Files : PurgeErase(f))
         \/ PurgeEnd
Next == \/ \E p \in Procs : Create(p) \/ Exit(p)
        \/ \E c \in Callers : Call(c)
        \/ Policy
        \/ Purge

Spec == Init /\ [][Next]_vars

\* Threads in the driver go on, and a lock is handed on to those who wait for it
\* (push locks queue them).  Nothing makes a process start, call or exit.
FairSpec ==
    /\ Spec
    /\ \A p \in Procs :
           /\ WF_vars(ExitRundown(p) \/ ExitWait(p) \/ ExitFree(p) \/ CreateAlloc(p) \/ CreateAllocFails(p))
           /\ SF_vars(CreateFind(p) \/ CreateInsert(p) \/ ExitFind(p) \/ ExitRemove(p))
    /\ \A c \in Callers :
           /\ WF_vars(CallAlloc(c) \/ CallAllocFails(c) \/ CallRead(c) \/ CallSend(c)
                      \/ CallWrite(c) \/ CallRelease(c))
           /\ SF_vars(CallFind(c) \/ CallInsert(c) \/ CallLookup(c) \/ CallStore(c))
    /\ WF_vars(PolicySwap \/ PolicyEnd)
    /\ \A n \in Nodes : SF_vars(PolicyAcquire(n))
    /\ WF_vars((\E n \in Nodes : PurgeSearch(n)) \/ (\E f \in Files : PurgeErase(f)) \/ PurgeEnd)

-----------------------------------------------------------------------------
(* Properties *)

\* A process has one node, although the lock is released between the search that
\* found none and the insertion ("search the list again because we released
\* lock", nxrmfltutils.c 3497, nxrmflt.c 1608).
OneNodePerProcess == \A m, n \in list : proc[m] = proc[n] => m = n

\* The node a call holds or a purge stands on is not freed, nor used for another
\* process, whatever exits meanwhile (nxrmflt.c 1563-1573).
HeldNodeStays ==
    /\ \A c \in Callers : call[c].pc \in Holding => proc[call[c].node] = call[c].proc
    /\ \A n \in Nodes : policy.at = n \/ purge.at = n => n \in list /\ proc[n] # NoProc

\* Who changes a tree is alone in it, but for the purge of a file, which takes no
\* lock of the node (nxrmfltutils.c 4900-4936): at most it meets calls, never the
\* purge of a policy change.
TreeSafe == \A n \in Nodes :
    /\ Writers(n) # {} => Readers(n) = {} /\ policy.at # n
    /\ policy.at = n => Readers(n) = {} /\ purge.at # n
    /\ \A c, d \in Writers(n) : c = d

\* A process is not given rights that were decided for an earlier user of its id,
\* unless a call of that one inserted a node behind its exit notification.
NoInheritedRights == \A n \in list \ orphan : \A f \in Files :
    /\ process[proc[n]].pc # "gone"
    /\ tree[n][f] \in {0, life[proc[n]]}

\* The exit of a process ends, though its node is in use, unless the process was
\* created with a node of its id in the list (nxrmflt.c 1541, 1563).
ExitEnds == \A p \in Procs :
    (process[p].pc = "exitFind") ~> (process[p].pc = "gone" \/ process[p].node \in orphan)

\* A policy change gets through to every tree, whatever calls wait for the
\* service (nxrmfltcommunication.c 337-368).
PurgeEnds == (policy.pc = "walk") ~> (policy.pc = "idle")

\* Nobody waits for ever for a node: neither the exit, which waits for the calls
\* that use it, nor the purge, which waits for the lock of its tree (nxrmflt.c
\* 1563, nxrmfltcommunication.c 339-347).
WaitsEnd == ExitEnds /\ PurgeEnds
=============================================================================
