---------------------------- MODULE Heartbeat_proofs ----------------------------
(***************************************************************************)
(* Proofs about Heartbeat for every number of users, sessions, policy      *)
(* versions, crashes and requests for an update: nothing is lost, and what *)
(* has to arrive arrives.                                                  *)
(***************************************************************************)
EXTENDS Heartbeat, TLAPS

-----------------------------------------------------------------------------
(* The type of the job's turn *)

LEMMA TurnType ==
    /\ Turn \in Turns /\ Turn.pc = "start" /\ Turn.reply = NoBundle
    /\ Over \in Turns /\ Over.pc = "respond" /\ Over.reply = NoBundle
    /\ [Turn EXCEPT !.pc = "wait"] \in Turns /\ [Turn EXCEPT !.pc = "wait"].pc = "wait"
    /\ [Turn EXCEPT !.pc = "wait"].reply = NoBundle
BY DEF Turn, Over, Turns, Places, Replies

\* What the actions do to a turn: each field but those named stays.
LEMMA TurnPC ==
    ASSUME NEW h \in Turns, NEW p \in Places
    PROVE  /\ [h EXCEPT !.pc = p] \in Turns
           /\ [h EXCEPT !.pc = p].pc = p /\ [h EXCEPT !.pc = p].users = h.users
           /\ [h EXCEPT !.pc = p].forced = h.forced /\ [h EXCEPT !.pc = p].reply = h.reply
BY DEF Turns

LEMMA TurnSave ==
    ASSUME NEW h \in Turns
    PROVE  /\ [h EXCEPT !.pc = "save", !.forced = FALSE] \in Turns
           /\ [h EXCEPT !.pc = "save", !.forced = FALSE].pc = "save"
           /\ [h EXCEPT !.pc = "save", !.forced = FALSE].reply = h.reply
BY DEF Turns, Places

\* What the request comes back with, named.
AnswerIs(r) ==
    /\ r \in Replies
    /\ hb' \in Turns
    /\ hb'.pc = "answered" /\ hb'.reply = r

LEMMA AnswerType ==
    ASSUME TypeOK, NEW r \in Replies, AnswerWith(r)
    PROVE  AnswerIs(r)
BY DEF TypeOK, Turns, Places, AnswerWith, AnswerIs

LEMMA Answers ==
    ASSUME TypeOK
    PROVE  /\ HeartbeatAnswer =>
                  \E r \in {[ver |-> server, users |-> hb.users], NoBundle} :
                      AnswerIs(r) /\ (bundle.ver # server => r = [ver |-> server, users |-> hb.users])
           /\ HeartbeatBadPolicy => AnswerIs(NoBundle)
           /\ HeartbeatUnreadable => AnswerIs(Unreadable)
<1>1. [ver |-> server, users |-> hb.users] \in Bundles
  <2>1. server \in 0..MaxVersion /\ hb.users \in SUBSET Users
    BY HeartbeatConstants DEF TypeOK, Turns
  <2> QED
    BY <2>1 DEF Bundles
<1>2. [ver |-> server, users |-> hb.users] \in Replies /\ NoBundle \in Replies /\ Unreadable \in Replies
  BY <1>1 DEF Replies
<1>3. CASE hb.forced \/ bundle.ver # server
  BY <1>2, <1>3, AnswerType DEF HeartbeatAnswer, HeartbeatBadPolicy, HeartbeatUnreadable
<1>4. CASE ~(hb.forced \/ bundle.ver # server)
  BY <1>2, <1>4, AnswerType DEF HeartbeatAnswer, HeartbeatBadPolicy, HeartbeatUnreadable
<1> QED
  BY <1>3, <1>4

-----------------------------------------------------------------------------
(* Type correctness *)

LEMMA NothingType == Nothing \in Bundles
BY HeartbeatConstants DEF Nothing, Bundles

LEMMA TypeInit == Init => TypeOK
<1> SUFFICES ASSUME Init PROVE TypeOK
  OBVIOUS
<1>1. hb \in Turns /\ bundle \in Bundles
  BY TurnType, NothingType DEF Init
<1>2. caller \in [Users -> {"new", "recorded", "saved", "flagged", "done"}]
  BY DEF Init
<1>3. server \in 1..MaxVersion /\ triggers \in 0..MaxTriggers /\ restarts \in 0..MaxRestarts
  BY HeartbeatConstants DEF Init
<1> QED
  BY <1>1, <1>2, <1>3 DEF TypeOK, Init

LEMMA TypeStep == TypeOK /\ [Next]_vars => TypeOK'
<1> SUFFICES ASSUME TypeOK, [Next]_vars
             PROVE  TypeOK'
  OBVIOUS
<1> USE HeartbeatConstants
<1>0. hb \in Turns /\ bundle \in Bundles /\ hb.reply \in Replies
  BY DEF TypeOK, Turns
<1>1. CASE HeartbeatBegin
  <2>1. [hb EXCEPT !.pc = "build", !.forced = Empty(bundle) \/ force] \in Turns
    BY <1>0 DEF TypeOK, Turns, Places, Empty
  <2> QED
    BY <1>1, <2>1 DEF TypeOK, HeartbeatBegin, clients, past
<1>2. CASE HeartbeatSend
  <2>1. [hb EXCEPT !.pc = "sent", !.users = known] \in Turns
    BY <1>0 DEF TypeOK, Turns, Places
  <2> QED
    BY <1>2, <2>1 DEF TypeOK, HeartbeatSend, clients
<1>3. CASE Ask
  <2>1. hb' \in Turns
    BY <1>3, Answers, TurnType DEF Ask, AnswerIs, HeartbeatFail
  <2>2. UNCHANGED <<server, event, bundle, file, clients, asked, past>>
    BY <1>3 DEF Ask, HeartbeatAnswer, HeartbeatBadPolicy, HeartbeatUnreadable, HeartbeatFail
  <2> QED
    BY <2>1, <2>2 DEF TypeOK, clients, past
<1>4. CASE HeartbeatResetFlag
  <2>1. hb' \in Turns
    BY <1>0, <1>4, TurnPC DEF HeartbeatResetFlag, Places
  <2>2. force' \in BOOLEAN
    BY <1>4 DEF HeartbeatResetFlag
  <2> QED
    BY <1>4, <2>1, <2>2 DEF TypeOK, HeartbeatResetFlag, past
<1>5. CASE Install
  <2>1. hb' \in Turns
    BY <1>0, <1>5, TurnSave, TurnType DEF Install, HeartbeatInstall, HeartbeatInstallFails
  <2>2. /\ UNCHANGED <<server, event, bundle, clients, asked, past>>
        /\ file' \in {file, NoBundle}
    BY <1>5 DEF Install, HeartbeatInstall, HeartbeatInstallFails
  <2> QED
    BY <2>1, <2>2 DEF TypeOK, clients, past
<1>6. CASE Save
  <2>1. hb' \in Turns
    <3>1. [hb EXCEPT !.pc = "load"] \in Turns /\ Over \in Turns
      BY <1>0, TurnPC, TurnType DEF Places
    <3> QED
      BY <1>6, <3>1 DEF Save, HeartbeatSave, HeartbeatSaveFails
  <2>2. /\ UNCHANGED <<server, event, bundle, clients, asked, past>>
        /\ file' \in {file, NoBundle} \/ file' \in Bundles
    BY <1>6 DEF Save, HeartbeatSave, HeartbeatSaveFails
  <2>3. file' \in Bundles \cup {NoBundle}
    BY <2>2 DEF TypeOK
  <2> QED
    BY <2>1, <2>2, <2>3 DEF TypeOK, clients, past
<1>7. CASE HeartbeatLoad
  <2>1. hb' \in Turns
    BY <1>7, TurnType DEF HeartbeatLoad
  <2>2. bundle' \in Bundles
    BY <1>0, <1>7 DEF HeartbeatLoad
  <2> QED
    BY <1>7, <2>1, <2>2 DEF TypeOK, HeartbeatLoad, clients, past
<1>8. CASE HeartbeatReadRequestor
  <2>1. ASSUME NEW p \in Places
        PROVE  [hb EXCEPT !.pc = p, !.asker = requestor] \in Turns
    BY <1>0 DEF TypeOK, Turns
  <2>2. hb' \in Turns
    BY <1>8, <2>1 DEF HeartbeatReadRequestor, Places
  <2> QED
    BY <1>8, <2>2 DEF TypeOK, HeartbeatReadRequestor, clients, past
<1>9. CASE HeartbeatRespond
  BY <1>9, TurnType DEF TypeOK, HeartbeatRespond, past
<1>10. CASE HeartbeatWake \/ HeartbeatTimeout
  BY <1>10, TurnType DEF TypeOK, HeartbeatWake, HeartbeatTimeout, clients, past
<1>11. ASSUME NEW u \in Users, \/ FirstLogonRecord(u) \/ FirstLogonSave(u) \/ FirstStart(u)
                               \/ FirstLogonFlag(u) \/ FirstLogonTrigger(u)
       PROVE  TypeOK'
  <2>1. triggers' \in 0..MaxTriggers
    BY <1>11 DEF TypeOK, FirstLogonRecord, FirstLogonSave, FirstStart, FirstLogonFlag, FirstLogonTrigger
  <2>2. /\ known' \subseteq Users /\ listed' \subseteq known'
        /\ caller' \in [Users -> {"new", "recorded", "saved", "flagged", "done"}]
        /\ force' \in BOOLEAN /\ event' \in BOOLEAN
        /\ UNCHANGED <<server, bundle, file, hb, requestor, waiting, asked, past>>
    BY <1>11
    DEF TypeOK, FirstLogonRecord, FirstLogonSave, FirstStart, FirstLogonFlag, FirstLogonTrigger, past
  <2> QED
    BY <2>1, <2>2 DEF TypeOK, past
<1>12. ASSUME NEW s \in Sessions, RequestUpdate(s)
       PROVE  TypeOK'
  BY <1>12 DEF TypeOK, RequestUpdate, past
<1>13. CASE Publish
  BY <1>13 DEF TypeOK, Publish, clients, past
<1>14. CASE Restart
  <2>1. /\ caller' \in [Users -> {"new", "recorded", "saved", "flagged", "done"}]
        /\ known' \subseteq Users /\ listed' \subseteq known' /\ lost' \subseteq Users
    BY <1>14 DEF TypeOK, Restart
  <2>2. restarts' \in 0..MaxRestarts
    BY <1>14 DEF TypeOK, Restart
  <2>3. bundle' \in Bundles
    BY <1>14, NothingType DEF TypeOK, Restart
  <2> QED
    BY <1>14, <2>1, <2>2, <2>3, TurnType DEF TypeOK, Restart
<1>15. CASE UNCHANGED vars
  BY <1>15 DEF TypeOK, vars, clients, past
<1> QED
  BY <1>1, <1>2, <1>3, <1>4, <1>5, <1>6, <1>7, <1>8, <1>9, <1>10, <1>11, <1>12, <1>13,
     <1>14, <1>15 DEF Next, Job, Clients

\* Every variable keeps its type.
THEOREM TypeCorrect == Spec => []TypeOK
<1> QED
  BY TypeInit, TypeStep, PTL DEF Spec

-----------------------------------------------------------------------------
(* No policy is lost *)

\* The turn has an answer that may still be installed.
Pending == hb.pc \in {"answered", "install", "save", "load"} /\ hb.reply \in Bundles

\* Why an answer is never worse than the bundle in force: a request names every
\* user that was known when it was made, the bundle is for known users and for
\* users who were lost, and only this turn changes the bundle.  And why what a
\* crash leaves on disk is not worse either: the file is empty while it is being
\* written, holds the answer until that is loaded, and then the bundle in force.
PolicyInv ==
    /\ bundle.ver <= server
    /\ bundle.users \subseteq known \cup lost
    /\ hb.pc = "sent" => bundle.users \ lost \subseteq hb.users /\ hb.users \subseteq known
    /\ Pending => /\ bundle.ver <= hb.reply.ver /\ hb.reply.ver <= server
                  /\ bundle.users \ lost \subseteq hb.reply.users /\ hb.reply.users \subseteq known
    /\ hb.pc = "save" => file = NoBundle
    /\ hb.pc = "load" /\ file # NoBundle => file = hb.reply
    /\ hb.pc \notin {"save", "load"} /\ file # NoBundle => file = bundle

LEMMA PolicyInit == Init => PolicyInv
BY HeartbeatConstants DEF Init, PolicyInv, Turn, Nothing, Pending

LEMMA NoBundleIsNone == NoBundle \notin Bundles /\ Unreadable \notin Bundles
<1>1. Bundles \subseteq [ver : Nat, users : SUBSET Users]
  BY HeartbeatConstants DEF Bundles
<1> QED
  BY <1>1, HeartbeatConstants

LEMMA PolicyStep == TypeOK /\ PolicyInv /\ [Next]_vars => PolicyInv'
<1> SUFFICES ASSUME TypeOK, PolicyInv, [Next]_vars
             PROVE  PolicyInv'
  OBVIOUS
<1> USE HeartbeatConstants, NoBundleIsNone
<1>0. hb \in Turns /\ server \in Nat /\ bundle.ver \in Nat
  BY DEF TypeOK, Turns, Bundles
<1>a. hb.reply \in Bundles => hb.reply.ver \in Nat
  BY DEF Bundles
<1>1. CASE HeartbeatBegin
  <2>1. hb.pc = "start" /\ hb'.pc = "build"
    BY <1>0, <1>1 DEF HeartbeatBegin, Turns
  <2> QED
    BY <1>1, <2>1 DEF HeartbeatBegin, PolicyInv, clients, past, Pending
<1>2. CASE HeartbeatSend
  <2>1. hb.pc = "build" /\ hb'.pc = "sent" /\ hb'.users = known
    BY <1>0, <1>2 DEF HeartbeatSend, Turns
  <2> QED
    BY <1>2, <2>1 DEF HeartbeatSend, PolicyInv, clients, Pending
<1>3. CASE Ask
  <2>1. CASE HeartbeatAnswer
    <3>1. PICK r \in {[ver |-> server, users |-> hb.users], NoBundle} : AnswerIs(r)
      BY <2>1, Answers
    <3>2. r \in Bundles => r.ver = server /\ r.users = hb.users
      BY <3>1
    <3>3. hb.pc = "sent" /\ hb'.pc = "answered" /\ hb'.reply = r
      BY <2>1, <3>1 DEF HeartbeatAnswer, AnswerIs
    <3> QED
      BY <1>0, <2>1, <3>2, <3>3 DEF HeartbeatAnswer, PolicyInv, clients, past, Pending
  <2>2. CASE HeartbeatBadPolicy \/ HeartbeatUnreadable
    <3>1. hb.pc = "sent" /\ hb'.pc = "answered" /\ hb'.reply \notin Bundles
      BY <2>2, Answers DEF AnswerIs, HeartbeatBadPolicy, HeartbeatUnreadable
    <3> QED
      BY <2>2, <3>1 DEF HeartbeatBadPolicy, HeartbeatUnreadable, PolicyInv, clients, past, Pending
  <2>3. CASE HeartbeatFail
    <3>1. hb.pc = "sent" /\ hb'.pc = "respond"
      BY <2>3, TurnType DEF HeartbeatFail
    <3> QED
      BY <2>3, <3>1 DEF HeartbeatFail, PolicyInv, clients, past, Pending
  <2> QED
    BY <1>3, <2>1, <2>2, <2>3 DEF Ask
<1>4. CASE HeartbeatResetFlag
  <2>1. hb.pc = "answered" /\ hb'.pc = "install" /\ hb'.reply = hb.reply
    BY <1>0, <1>4, TurnPC DEF HeartbeatResetFlag, Places
  <2> QED
    BY <1>4, <2>1 DEF HeartbeatResetFlag, PolicyInv, past, Pending
<1>5. CASE Install
  <2>1. CASE HeartbeatInstall /\ News
    <3>1. hb.pc = "install" /\ hb'.pc = "save" /\ hb'.reply = hb.reply /\ file' = NoBundle
      BY <1>0, <2>1, TurnSave DEF HeartbeatInstall
    <3> QED
      BY <2>1, <3>1 DEF HeartbeatInstall, PolicyInv, clients, past, Pending
  <2>2. CASE HeartbeatInstallFails \/ (HeartbeatInstall /\ ~News)
    <3>1. hb.pc = "install" /\ hb'.pc = "respond" /\ file' = file
      BY <2>2, TurnType DEF HeartbeatInstall, HeartbeatInstallFails
    <3> QED
      BY <2>2, <3>1 DEF HeartbeatInstall, HeartbeatInstallFails, PolicyInv, clients, past, Pending
  <2> QED
    BY <1>5, <2>1, <2>2 DEF Install
<1>6. CASE Save
  <2>1. CASE HeartbeatSave
    <3>1. /\ hb.pc = "save" /\ hb'.pc = "load" /\ hb'.reply = hb.reply
          /\ file' \in {NoBundle, hb.reply}
      BY <1>0, <2>1, TurnPC DEF HeartbeatSave, Places
    <3> QED
      BY <2>1, <3>1 DEF HeartbeatSave, PolicyInv, clients, past, Pending
  <2>2. CASE HeartbeatSaveFails
    <3>1. hb' = Over => hb'.pc = "respond"
      BY TurnType
    <3>2. hb' = [hb EXCEPT !.pc = "load"] => hb'.pc = "load" /\ hb'.reply = hb.reply
      BY <1>0, TurnPC DEF Places
    <3>3. hb.pc = "save" /\ (hb'.pc = "respond" \/ (hb'.pc = "load" /\ hb'.reply = hb.reply))
      BY <2>2, <3>1, <3>2 DEF HeartbeatSaveFails
    <3> QED
      BY <2>2, <3>3 DEF HeartbeatSaveFails, PolicyInv, clients, past, Pending
  <2> QED
    BY <1>6, <2>1, <2>2 DEF Save
<1>7. CASE HeartbeatLoad
  <2>1. hb.pc = "load" /\ hb'.pc = "respond"
    BY <1>7, TurnType DEF HeartbeatLoad
  <2>2. file # NoBundle => file \in Bundles
    BY DEF TypeOK
  <2>3. CASE hb.reply \in Bundles
    BY <1>7, <2>1, <2>3 DEF HeartbeatLoad, PolicyInv, clients, past, Pending
  <2>4. CASE hb.reply \notin Bundles
    BY <1>7, <2>1, <2>2, <2>4 DEF HeartbeatLoad, PolicyInv, clients, past, Pending
  <2> QED
    BY <2>3, <2>4
<1>8. CASE HeartbeatReadRequestor
  <2>1. hb.pc = "respond" /\ hb'.pc \in {"wait", "clear"}
    BY <1>0, <1>8 DEF HeartbeatReadRequestor, Turns
  <2> QED
    BY <1>8, <2>1 DEF HeartbeatReadRequestor, PolicyInv, clients, past, Pending
<1>9. CASE HeartbeatRespond
  <2>1. hb.pc = "clear" /\ hb'.pc = "wait"
    BY <1>9, TurnType DEF HeartbeatRespond
  <2> QED
    BY <1>9, <2>1 DEF HeartbeatRespond, PolicyInv, past, Pending
<1>10. CASE HeartbeatWake \/ HeartbeatTimeout
  <2>1. hb.pc = "wait" /\ hb'.pc = "start"
    BY <1>10, TurnType DEF HeartbeatWake, HeartbeatTimeout
  <2> QED
    BY <1>10, <2>1 DEF HeartbeatWake, HeartbeatTimeout, PolicyInv, clients, past, Pending
<1>11. CASE Clients
  <2>1. UNCHANGED <<server, bundle, file, hb, past>> /\ known \subseteq known'
    BY <1>11
    DEF Clients, FirstLogonRecord, FirstLogonSave, FirstStart, FirstLogonFlag, FirstLogonTrigger,
        RequestUpdate, past
  <2> QED
    BY <2>1 DEF PolicyInv, past, Pending
<1>12. CASE Publish
  <2>1. server' = server + 1 /\ UNCHANGED <<bundle, file, hb, known, past>>
    BY <1>12 DEF Publish, clients
  <2> QED
    BY <1>0, <1>a, <2>1 DEF PolicyInv, past, Pending
<1>13. CASE Restart
  <2>1. hb'.pc = "start" /\ known \subseteq known' \cup lost' /\ lost \subseteq lost'
    BY <1>13, TurnType DEF Restart
  <2>2. CASE file = NoBundle
    BY <1>13, <2>1, <2>2 DEF Restart, PolicyInv, Nothing, Pending, TypeOK
  <2>3. CASE file # NoBundle
    <3>1. file \in Bundles
      BY <2>3 DEF TypeOK
    <3>2. file.ver <= server /\ file.users \subseteq known \cup lost
      BY <2>3, <3>1 DEF PolicyInv, Pending
    <3> QED
      BY <1>13, <2>1, <2>3, <3>2 DEF Restart, PolicyInv, Pending
  <2> QED
    BY <2>2, <2>3
<1>14. CASE UNCHANGED vars
  BY <1>14 DEF vars, clients, past, PolicyInv, Pending
<1> QED
  BY <1>1, <1>2, <1>3, <1>4, <1>5, <1>6, <1>7, <1>8, <1>9, <1>10, <1>11, <1>12, <1>13,
     <1>14 DEF Next, Job

\* Only the end of an installation and a restart change the bundle.
LEMMA BundleChanges ==
    ASSUME [Next]_vars
    PROVE  bundle' = bundle \/ HeartbeatLoad \/ Restart
BY DEF Next, Job, Ask, Install, Save, Clients, vars, clients, HeartbeatBegin, HeartbeatSend,
       HeartbeatAnswer, HeartbeatBadPolicy, HeartbeatUnreadable, HeartbeatFail, HeartbeatResetFlag,
       HeartbeatInstall, HeartbeatInstallFails, HeartbeatSave, HeartbeatSaveFails,
       HeartbeatReadRequestor, HeartbeatRespond, HeartbeatWake, HeartbeatTimeout, FirstLogonRecord,
       FirstLogonSave, FirstStart, FirstLogonFlag, FirstLogonTrigger, RequestUpdate, Publish

LEMMA PolicyInvHolds == Spec => []PolicyInv
<1> QED
  BY TypeCorrect, PolicyInit, PolicyStep, PTL DEF Spec

\* An installed bundle is never replaced by an older one, nor by one that leaves
\* out a user it was for; a crash during or after a save that came to nothing may
\* lose it, but brings no older one back.  For any number of users, versions and
\* crashes.
THEOREM PoliciesKept == Spec => NoPolicyLost
<1>1. ASSUME TypeOK, PolicyInv, [Next]_vars, bundle' # bundle
      PROVE  \/ /\ bundle'.ver >= bundle.ver
                /\ bundle.users \ lost \subseteq bundle'.users
             \/ /\ restarts' # restarts
                /\ file = NoBundle /\ bundle' = Nothing
  <2>0. bundle.ver \in Nat
    BY <1>1 DEF TypeOK, Bundles
  <2>1. CASE HeartbeatLoad
    <3>1. hb.pc = "load" /\ hb.reply \in Bundles /\ bundle' = hb.reply
      BY <1>1, <2>1 DEF HeartbeatLoad
    <3>2. hb.reply.ver \in Nat
      BY <3>1 DEF Bundles
    <3> QED
      BY <1>1, <2>0, <3>1, <3>2 DEF PolicyInv, Pending
  <2>2. CASE Restart
    <3>1. restarts' # restarts
      BY <1>1, <2>2 DEF Restart, TypeOK
    <3>2. CASE file = NoBundle
      BY <2>2, <3>1, <3>2 DEF Restart
    <3>3. CASE file # NoBundle
      <4>1. bundle' = file /\ file \in Bundles
        BY <1>1, <2>2, <3>3 DEF Restart, TypeOK
      <4>2. hb.pc = "load" /\ file = hb.reply
        BY <1>1, <3>3, <4>1 DEF PolicyInv
      <4>3. file.ver \in Nat
        BY <4>1 DEF Bundles
      <4> QED
        BY <1>1, <2>0, <4>1, <4>2, <4>3 DEF PolicyInv, Pending
    <3> QED
      BY <3>2, <3>3
  <2> QED
    BY <1>1, <2>1, <2>2, BundleChanges
<1>2. TypeOK /\ PolicyInv /\ [Next]_vars
        => [\/ /\ bundle'.ver >= bundle.ver
               /\ bundle.users \ lost \subseteq bundle'.users
            \/ /\ restarts' # restarts
               /\ file = NoBundle /\ bundle' = Nothing]_bundle
  BY <1>1
<1> QED
  BY <1>2, TypeCorrect, PolicyInvHolds, PTL DEF Spec, NoPolicyLost

-----------------------------------------------------------------------------
(* No trigger is lost *)

\* A user whose first logon has begun is recorded, so every request sent from
\* then on names that user.
TriggerInv ==
    /\ \A u \in Users : caller[u] # "new" => u \in known
    /\ TriggerNotLost

LEMMA TriggerInit == Init => TriggerInv
BY DEF Init, TriggerInv, TriggerNotLost, Turn

LEMMA TriggerStep == TypeOK /\ TriggerInv /\ [Next]_vars => TriggerInv'
<1> SUFFICES ASSUME TypeOK, TriggerInv, [Next]_vars
             PROVE  TriggerInv'
  OBVIOUS
<1>0. hb \in Turns
  BY DEF TypeOK
<1>1. CASE HeartbeatBegin
  <2>1. hb'.pc = "build"
    BY <1>0, <1>1 DEF HeartbeatBegin, Turns
  <2> QED
    BY <1>1, <2>1 DEF HeartbeatBegin, TriggerInv, TriggerNotLost, clients
<1>2. CASE HeartbeatSend
  <2>1. hb'.pc = "sent"
    BY <1>0, <1>2 DEF HeartbeatSend, Turns
  <2> QED
    BY <1>2, <2>1 DEF HeartbeatSend, TriggerInv, TriggerNotLost, clients
<1>3. CASE Ask \/ Install \/ Save \/ HeartbeatLoad
  <2>1. /\ hb.pc \notin {"start", "build", "wait"} /\ hb'.pc # "wait"
        /\ UNCHANGED <<known, caller, requestor, event, asked>>
    <3>1. Ask => hb'.pc \in {"answered", "respond"}
      BY Answers, TurnType DEF Ask, AnswerIs, HeartbeatFail
    <3>2. Install => hb'.pc \in {"save", "respond"}
      BY <1>0, TurnSave, TurnType DEF Install, HeartbeatInstall, HeartbeatInstallFails
    <3>3. Save => hb'.pc \in {"load", "respond"}
      <4>1. [hb EXCEPT !.pc = "load"].pc = "load" /\ Over.pc = "respond"
        BY <1>0, TurnPC, TurnType DEF Places
      <4> QED
        BY <4>1 DEF Save, HeartbeatSave, HeartbeatSaveFails
    <3>4. HeartbeatLoad => hb'.pc = "respond"
      BY TurnType DEF HeartbeatLoad
    <3>5. /\ hb.pc \notin {"start", "build", "wait"}
          /\ UNCHANGED <<known, caller, requestor, event, asked>>
      BY <1>3 DEF Ask, Install, Save, HeartbeatAnswer, HeartbeatBadPolicy, HeartbeatUnreadable,
                  HeartbeatFail, HeartbeatInstall, HeartbeatInstallFails, HeartbeatSave,
                  HeartbeatSaveFails, HeartbeatLoad, clients
    <3> QED
      BY <1>3, <3>1, <3>2, <3>3, <3>4, <3>5
  <2> QED
    BY <2>1 DEF TriggerInv, TriggerNotLost
<1>5. CASE HeartbeatResetFlag
  <2>1. hb.pc = "answered" /\ hb'.pc = "install"
    BY <1>0, <1>5, TurnPC DEF HeartbeatResetFlag, Places
  <2> QED
    BY <1>5, <2>1 DEF HeartbeatResetFlag, TriggerInv, TriggerNotLost
<1>7. CASE HeartbeatReadRequestor
  <2>1. hb.pc = "respond" /\ hb'.pc \in {"wait", "clear"}
    BY <1>0, <1>7 DEF HeartbeatReadRequestor, Turns
  <2>2. requestor # NoSession => hb'.pc = "clear"
    BY <1>0, <1>7 DEF HeartbeatReadRequestor, Turns
  <2> QED
    BY <1>7, <2>1, <2>2 DEF HeartbeatReadRequestor, TriggerInv, TriggerNotLost, clients
<1>8. CASE HeartbeatRespond
  <2>1. hb.pc = "clear" /\ hb'.pc = "wait"
    BY <1>8, TurnType DEF HeartbeatRespond
  <2> QED
    BY <1>8, <2>1 DEF HeartbeatRespond, TriggerInv, TriggerNotLost
<1>9. CASE HeartbeatWake \/ HeartbeatTimeout
  <2>1. hb'.pc = "start"
    BY <1>9, TurnType DEF HeartbeatWake, HeartbeatTimeout
  <2> QED
    BY <1>9, <2>1 DEF HeartbeatWake, HeartbeatTimeout, TriggerInv, TriggerNotLost, clients
<1>10. ASSUME NEW u \in Users, FirstLogonRecord(u) \/ FirstLogonSave(u) \/ FirstStart(u)
       PROVE  TriggerInv'
  BY <1>10 DEF FirstLogonRecord, FirstLogonSave, FirstStart, TypeOK, TriggerInv, TriggerNotLost
<1>11. ASSUME NEW u \in Users, FirstLogonFlag(u)
       PROVE  TriggerInv'
  BY <1>11 DEF FirstLogonFlag, TypeOK, TriggerInv, TriggerNotLost
<1>12. ASSUME NEW u \in Users, FirstLogonTrigger(u)
       PROVE  TriggerInv'
  BY <1>12 DEF FirstLogonTrigger, TypeOK, TriggerInv, TriggerNotLost
<1>13. ASSUME NEW s \in Sessions, RequestUpdate(s)
       PROVE  TriggerInv'
  BY <1>13 DEF RequestUpdate, TriggerInv, TriggerNotLost
<1>14. CASE Publish
  BY <1>14 DEF Publish, TriggerInv, TriggerNotLost, clients
<1>15. CASE Restart
  BY <1>15, TurnType DEF Restart, TypeOK, TriggerInv, TriggerNotLost
<1>16. CASE UNCHANGED vars
  BY <1>16 DEF vars, clients, TriggerInv, TriggerNotLost
<1> QED
  BY <1>1, <1>2, <1>3, <1>5, <1>7, <1>8, <1>9, <1>10, <1>11, <1>12, <1>13,
     <1>14, <1>15, <1>16 DEF Next, Job, Clients

\* Whatever the job is doing when somebody triggers it, a request that names the
\* new user has been sent since or is on its way, and whoever asked for an update
\* is read by a turn that runs or is due.
THEOREM NoTriggerLost == Spec => []TriggerNotLost
<1>1. TriggerInv => TriggerNotLost
  BY DEF TriggerInv
<1> QED
  BY <1>1, TypeCorrect, TriggerInit, TriggerStep, PTL DEF Spec
-----------------------------------------------------------------------------
(* What must eventually happen *)

\* The prover knows nothing of ENABLED.  At each place one of the job's actions
\* has its guard, the rest of it assigns, and the field pc of hb is not left as
\* it was; so for the actions of which strong fairness is assumed.
StepsEnabled ==
    /\ ENABLED <<Job>>_vars
    /\ hb.pc = "sent" => ENABLED <<HeartbeatAnswer>>_vars
    /\ hb.pc = "install" /\ hb.reply \in Bundles => ENABLED <<BundleTaken>>_vars
    /\ hb.pc = "save" /\ hb.reply \in Bundles => ENABLED <<BundleSaved>>_vars

At(p) == hb.pc = p

LEMMA SomewhereAt ==
    TypeOK => \/ At("start") \/ At("build") \/ At("sent") \/ At("answered") \/ At("install")
              \/ At("save") \/ At("load") \/ At("respond") \/ At("clear") \/ At("wait")
BY DEF TypeOK, Turns, Places, At

\* Where the job's own steps lead.
LEMMA JobMoves ==
    ASSUME TypeOK, Job
    PROVE  /\ At("start") => At("build")'
           /\ At("build") => At("sent")'
           /\ At("sent") => At("answered")' \/ At("respond")'
           /\ At("answered") => At("install")'
           /\ At("install") => At("save")' \/ At("respond")'
           /\ At("save") => At("load")' \/ At("respond")'
           /\ At("load") => At("respond")'
           /\ At("respond") => IF requestor = NoSession THEN At("wait")' ELSE At("clear")'
           /\ At("clear") => HeartbeatRespond /\ At("wait")'
           /\ At("wait") => At("start")'
<1>0. hb \in Turns
  BY DEF TypeOK
<1>1. CASE HeartbeatBegin \/ HeartbeatSend \/ HeartbeatReadRequestor
  BY <1>0, <1>1 DEF HeartbeatBegin, HeartbeatSend, HeartbeatReadRequestor, Turns, At
<1>2. CASE Ask
  BY <1>2, Answers, TurnType
  DEF Ask, AnswerIs, HeartbeatAnswer, HeartbeatBadPolicy, HeartbeatUnreadable, HeartbeatFail, At
<1>3. CASE HeartbeatResetFlag
  BY <1>0, <1>3, TurnPC DEF HeartbeatResetFlag, Places, At
<1>4. CASE Install
  BY <1>0, <1>4, TurnSave, TurnType DEF Install, HeartbeatInstall, HeartbeatInstallFails, At
<1>5. CASE Save
  <2>1. [hb EXCEPT !.pc = "load"].pc = "load" /\ Over.pc = "respond"
    BY <1>0, TurnPC, TurnType DEF Places
  <2> QED
    BY <1>5, <2>1 DEF Save, HeartbeatSave, HeartbeatSaveFails, At
<1>6. CASE HeartbeatLoad \/ HeartbeatRespond \/ HeartbeatWake \/ HeartbeatTimeout
  BY <1>6, TurnType DEF HeartbeatLoad, HeartbeatRespond, HeartbeatWake, HeartbeatTimeout, At
<1> QED
  BY <1>1, <1>2, <1>3, <1>4, <1>5, <1>6 DEF Job

\* Only the job's own steps and a crash move the job's thread.
LEMMA OthersStay ==
    ASSUME [Next]_vars, ~Job, ~Restart
    PROVE  hb' = hb
BY DEF Next, Clients, FirstLogonRecord, FirstLogonSave, FirstStart, FirstLogonFlag,
       FirstLogonTrigger, RequestUpdate, Publish, vars

-----------------------------------------------------------------------------
(* Whoever asks for an update alone is answered *)

\* Whoever is in the cell, or has been read out of it, has not been answered.
AskerInv ==
    /\ requestor # NoSession => requestor \in waiting
    /\ hb.pc = "clear" => hb.asker \in waiting

LEMMA AskerInvHolds == Spec => [](TypeOK /\ AskerInv)
<1>1. Init => AskerInv
  BY DEF Init, AskerInv, Turn
<1>2. TypeOK /\ AskerInv /\ [Next]_vars => AskerInv'
  <2> SUFFICES ASSUME TypeOK, AskerInv, [Next]_vars PROVE AskerInv'
    OBVIOUS
  <2>0. hb \in Turns
    BY DEF TypeOK
  <2>1. CASE HeartbeatReadRequestor
    <3>1. hb'.asker = requestor /\ (hb'.pc = "clear" => requestor # NoSession)
      BY <2>0, <2>1 DEF HeartbeatReadRequestor, Turns
    <3> QED
      BY <2>1, <3>1 DEF HeartbeatReadRequestor, clients, AskerInv
  <2>2. CASE HeartbeatRespond
    <3>1. hb'.pc = "wait"
      BY <2>2, TurnType DEF HeartbeatRespond
    <3> QED
      BY <2>2, <3>1 DEF HeartbeatRespond, AskerInv
  <2>3. CASE Job /\ ~HeartbeatReadRequestor /\ ~HeartbeatRespond
    <3>1. requestor' = requestor /\ waiting' = waiting /\ hb.pc \notin {"respond", "clear"}
      BY <2>3
      DEF Job, Ask, Install, Save, HeartbeatBegin, HeartbeatSend, HeartbeatAnswer,
          HeartbeatBadPolicy, HeartbeatUnreadable, HeartbeatFail, HeartbeatResetFlag,
          HeartbeatInstall, HeartbeatInstallFails, HeartbeatSave, HeartbeatSaveFails,
          HeartbeatLoad, HeartbeatWake, HeartbeatTimeout, clients
    <3>2. hb'.pc # "clear"
      BY <2>3, <3>1, JobMoves, SomewhereAt DEF At
    <3> QED
      BY <3>1, <3>2 DEF AskerInv
  <2>4. CASE Clients
    BY <2>4
    DEF Clients, FirstLogonRecord, FirstLogonSave, FirstStart, FirstLogonFlag, FirstLogonTrigger,
        RequestUpdate, AskerInv
  <2>5. CASE Publish \/ UNCHANGED vars
    BY <2>5 DEF Publish, vars, clients, AskerInv
  <2>6. CASE Restart
    BY <2>6, TurnType DEF Restart, AskerInv
  <2> QED
    BY <2>1, <2>2, <2>3, <2>4, <2>5, <2>6 DEF Next
<1> QED
  BY <1>1, <1>2, TypeCorrect, PTL DEF Spec

\* Session s, alone, waits for an answer.
Alone(s) == requestor = s /\ waiting = {s}
Answered(s) == s \notin waiting \/ waiting # {s}

\* Alone, at place p of the job's turn.
AloneAt(s, p) == Alone(s) /\ At(p)

LEMMA AloneStep ==
    ASSUME TypeOK, AskerInv, [Next]_vars, NEW s \in Sessions, Alone(s), ~Answered(s)'
    PROVE  Alone(s)' /\ ~Restart /\ ~HeartbeatRespond
<1>1. waiting' = {s}
  BY DEF Answered
<1>2. ~Restart
  BY <1>1 DEF Restart
<1>3. ~HeartbeatRespond
  BY <1>1 DEF HeartbeatRespond, AskerInv, Alone
<1>4. requestor' = requestor
  BY <1>1, <1>2, <1>3
  DEF Next, Job, Ask, Install, Save, Clients, HeartbeatBegin, HeartbeatSend, HeartbeatAnswer,
      HeartbeatBadPolicy, HeartbeatUnreadable, HeartbeatFail, HeartbeatResetFlag,
      HeartbeatInstall, HeartbeatInstallFails, HeartbeatSave, HeartbeatSaveFails, HeartbeatLoad,
      HeartbeatReadRequestor, HeartbeatWake, HeartbeatTimeout, FirstLogonRecord, FirstLogonSave,
      FirstStart, FirstLogonFlag, FirstLogonTrigger, RequestUpdate, Publish, Alone, vars, clients
<1> QED
  BY <1>1, <1>2, <1>3, <1>4 DEF Alone

LEMMA AloneMoves ==
    ASSUME TypeOK, AskerInv, NEW s \in Sessions, [Next]_vars, Alone(s), ~Answered(s)'
    PROVE  /\ Alone(s)'
           /\ At("start") => (~Job /\ At("start")') \/ At("build")'
           /\ At("build") => (~Job /\ At("build")') \/ At("sent")'
           /\ At("sent") => (~Job /\ At("sent")') \/ At("answered")' \/ At("respond")'
           /\ At("answered") => (~Job /\ At("answered")') \/ At("install")'
           /\ At("install") => (~Job /\ At("install")') \/ At("save")' \/ At("respond")'
           /\ At("save") => (~Job /\ At("save")') \/ At("load")' \/ At("respond")'
           /\ At("load") => (~Job /\ At("load")') \/ At("respond")'
           /\ At("respond") => (~Job /\ At("respond")') \/ At("clear")'
           /\ At("clear") => ~Job /\ At("clear")'
           /\ At("wait") => (~Job /\ At("wait")') \/ At("start")'
<1>1. Alone(s)' /\ ~Restart /\ ~HeartbeatRespond
  BY AloneStep
<1>2. requestor # NoSession
  BY HeartbeatConstants DEF Alone
<1>3. CASE Job
  BY <1>1, <1>2, <1>3, JobMoves
<1>4. CASE ~Job
  <2>1. hb' = hb
    BY <1>1, <1>4, OthersStay
  <2> QED
    BY <1>1, <1>4, <2>1 DEF At
<1> QED
  BY <1>3, <1>4

\* A session that asks for an update is answered even if the turn fails, unless
\* another one asks meanwhile and takes its place in the one cell there is: for
\* any number of sessions and requests.
THEOREM SoleRequesterHeard == FairSpec /\ []StepsEnabled => SoleRequesterAnswered
<1> SUFFICES ASSUME NEW s \in Sessions
             PROVE  FairSpec /\ []StepsEnabled =>
                        ((requestor = s /\ waiting = {s})
                             ~> (s \notin waiting \/ waiting # {s}))
  BY DEF SoleRequesterAnswered
<1> DEFINE Inv == TypeOK /\ AskerInv
           Runs == []Inv /\ [][Next]_vars /\ []StepsEnabled /\ WF_vars(Job)
           J == Answered(s)
<1>1. Inv /\ [Next]_vars =>
          /\ AloneAt(s, "start") => AloneAt(s, "start")' \/ AloneAt(s, "build")' \/ J'
          /\ AloneAt(s, "build") => AloneAt(s, "build")' \/ AloneAt(s, "sent")' \/ J'
          /\ AloneAt(s, "sent") => \/ AloneAt(s, "sent")' \/ AloneAt(s, "answered")'
                                   \/ AloneAt(s, "respond")' \/ J'
          /\ AloneAt(s, "answered") => AloneAt(s, "answered")' \/ AloneAt(s, "install")' \/ J'
          /\ AloneAt(s, "install") => \/ AloneAt(s, "install")' \/ AloneAt(s, "save")'
                                      \/ AloneAt(s, "respond")' \/ J'
          /\ AloneAt(s, "save") => \/ AloneAt(s, "save")' \/ AloneAt(s, "load")'
                                   \/ AloneAt(s, "respond")' \/ J'
          /\ AloneAt(s, "load") => AloneAt(s, "load")' \/ AloneAt(s, "respond")' \/ J'
          /\ AloneAt(s, "respond") => AloneAt(s, "respond")' \/ AloneAt(s, "clear")' \/ J'
          /\ AloneAt(s, "clear") => AloneAt(s, "clear")' \/ J'
          /\ AloneAt(s, "wait") => AloneAt(s, "wait")' \/ AloneAt(s, "start")' \/ J'
  BY AloneMoves DEF AloneAt
\* The job's next step leaves the place.
<1>2. Inv /\ [Next]_vars /\ <<Job>>_vars =>
          /\ AloneAt(s, "start") => ~AloneAt(s, "start")' \/ J'
          /\ AloneAt(s, "build") => ~AloneAt(s, "build")' \/ J'
          /\ AloneAt(s, "sent") => ~AloneAt(s, "sent")' \/ J'
          /\ AloneAt(s, "answered") => ~AloneAt(s, "answered")' \/ J'
          /\ AloneAt(s, "install") => ~AloneAt(s, "install")' \/ J'
          /\ AloneAt(s, "save") => ~AloneAt(s, "save")' \/ J'
          /\ AloneAt(s, "load") => ~AloneAt(s, "load")' \/ J'
          /\ AloneAt(s, "respond") => ~AloneAt(s, "respond")' \/ J'
          /\ AloneAt(s, "clear") => ~AloneAt(s, "clear")' \/ J'
          /\ AloneAt(s, "wait") => ~AloneAt(s, "wait")' \/ J'
  BY AloneMoves DEF AloneAt, At
<1>3. StepsEnabled => ENABLED <<Job>>_vars
  BY DEF StepsEnabled
<1>4. FairSpec /\ []StepsEnabled => Runs
  BY AskerInvHolds, PTL DEF FairSpec, Spec
<1>5. Runs => (AloneAt(s, "clear") ~> J)
  BY <1>1, <1>2, <1>3, PTL
<1>6. Runs => (AloneAt(s, "respond") ~> AloneAt(s, "clear") \/ J)
  BY <1>1, <1>2, <1>3, PTL
<1>7. Runs => (AloneAt(s, "load") ~> AloneAt(s, "respond") \/ J)
  BY <1>1, <1>2, <1>3, PTL
<1>8. Runs => (AloneAt(s, "save") ~> AloneAt(s, "load") \/ AloneAt(s, "respond") \/ J)
  BY <1>1, <1>2, <1>3, PTL
<1>9. Runs => (AloneAt(s, "install") ~> AloneAt(s, "save") \/ AloneAt(s, "respond") \/ J)
  BY <1>1, <1>2, <1>3, PTL
<1>10. Runs => (AloneAt(s, "answered") ~> AloneAt(s, "install") \/ J)
  BY <1>1, <1>2, <1>3, PTL
<1>11. Runs => (AloneAt(s, "sent") ~> AloneAt(s, "answered") \/ AloneAt(s, "respond") \/ J)
  BY <1>1, <1>2, <1>3, PTL
<1>12. Runs => (AloneAt(s, "build") ~> AloneAt(s, "sent") \/ J)
  BY <1>1, <1>2, <1>3, PTL
<1>13. Runs => (AloneAt(s, "start") ~> AloneAt(s, "build") \/ J)
  BY <1>1, <1>2, <1>3, PTL
<1>14. Runs => (AloneAt(s, "wait") ~> AloneAt(s, "start") \/ J)
  BY <1>1, <1>2, <1>3, PTL
<1>15. Inv /\ Alone(s) => \/ AloneAt(s, "start") \/ AloneAt(s, "build") \/ AloneAt(s, "sent")
                          \/ AloneAt(s, "answered") \/ AloneAt(s, "install")
                          \/ AloneAt(s, "save") \/ AloneAt(s, "load") \/ AloneAt(s, "respond")
                          \/ AloneAt(s, "clear") \/ AloneAt(s, "wait")
  BY SomewhereAt DEF AloneAt
<1>16. Runs => (Alone(s) ~> J)
  BY <1>5, <1>6, <1>7, <1>8, <1>9, <1>10, <1>11, <1>12, <1>13, <1>14, <1>15, PTL
<1>17. /\ requestor = s /\ waiting = {s} => Alone(s)
       /\ J => s \notin waiting \/ waiting # {s}
  BY DEF Alone, Answered
<1> QED
  BY <1>4, <1>16, <1>17, PTL
-----------------------------------------------------------------------------
(* A new policy arrives *)

\* The service crashes finitely often, which the bound MaxRestarts says too: the
\* prover cannot count down from it.
CrashesEnd == <>[][~Restart]_vars

\* Version v is published and not installed; the answer at hand brings it; none
\* that was given before the version was published is left.
Due(v) == server >= v /\ bundle.ver < v
Installed(v) == bundle.ver >= v
Brought(v) == hb.reply \in Bundles /\ hb.reply.ver >= v
Fresh(v) == Pending => Brought(v)

\* While the version is due it stays so or is installed.
LEMMA DueStays ==
    ASSUME TypeOK, [Next]_vars, NEW v \in 1..MaxVersion, Due(v)
    PROVE  Due(v)' \/ Installed(v)'
<1>0. server \in Nat /\ v \in Nat
  BY HeartbeatConstants DEF TypeOK
<1>1. server' \in Nat /\ server' >= server
  BY <1>0
  DEF Next, Job, Ask, Install, Save, Clients, vars, clients, HeartbeatBegin, HeartbeatSend,
      HeartbeatAnswer, HeartbeatBadPolicy, HeartbeatUnreadable, HeartbeatFail, HeartbeatResetFlag,
      HeartbeatInstall, HeartbeatInstallFails, HeartbeatSave, HeartbeatSaveFails, HeartbeatLoad,
      HeartbeatReadRequestor, HeartbeatRespond, HeartbeatWake, HeartbeatTimeout, FirstLogonRecord,
      FirstLogonSave, FirstStart, FirstLogonFlag, FirstLogonTrigger, RequestUpdate, Publish, Restart
<1>2. bundle'.ver \in Nat
  BY TypeStep DEF TypeOK, Bundles
<1> QED
  BY <1>0, <1>1, <1>2 DEF Due, Installed

\* An answer given meanwhile brings it, stays at hand and is installed, unless the
\* disk refuses it.
LEMMA DueSteps ==
    ASSUME TypeOK, Job, NEW v \in 1..MaxVersion, Due(v)
    PROVE  /\ HeartbeatAnswer => At("answered")' /\ Brought(v)'
           /\ At("answered") /\ Brought(v) => At("install")' /\ Brought(v)'
           /\ BundleTaken /\ Brought(v) => At("save")' /\ Brought(v)'
           /\ BundleSaved /\ Brought(v) => At("load")' /\ Brought(v)'
           /\ At("load") /\ Brought(v) => Installed(v)'
           /\ Fresh(v) => Fresh(v)'
<1> USE HeartbeatConstants, NoBundleIsNone
<1>0. hb \in Turns /\ server \in Nat /\ bundle.ver \in Nat /\ v \in Nat
  BY DEF TypeOK, Bundles
<1>a. hb.reply \in Bundles => hb.reply.ver \in Nat
  BY DEF Bundles
<1>1. ASSUME HeartbeatAnswer PROVE At("answered")' /\ Brought(v)'
  <2>1. bundle.ver # server
    BY <1>0 DEF Due
  <2>2. AnswerIs([ver |-> server, users |-> hb.users])
    BY <1>1, <2>1, Answers
  <2>3. [ver |-> server, users |-> hb.users] \in Bundles
    BY <1>0 DEF TypeOK, Turns, Bundles
  <2> QED
    BY <2>2, <2>3 DEF AnswerIs, At, Brought, Due
<1>2. ASSUME At("answered") PROVE At("install")' /\ hb'.reply = hb.reply
  <2>1. HeartbeatResetFlag
    BY <1>2
    DEF At, Job, Ask, Install, Save, HeartbeatBegin, HeartbeatSend, HeartbeatAnswer,
        HeartbeatBadPolicy, HeartbeatUnreadable, HeartbeatFail, HeartbeatInstall,
        HeartbeatInstallFails, HeartbeatSave, HeartbeatSaveFails, HeartbeatLoad,
        HeartbeatReadRequestor, HeartbeatRespond, HeartbeatWake, HeartbeatTimeout
  <2> QED
    BY <1>0, <2>1, TurnPC DEF HeartbeatResetFlag, Places, At
<1>3. ASSUME At("install") PROVE (At("save")' /\ hb'.reply = hb.reply) \/ At("respond")'
  <2>1. Install
    BY <1>3
    DEF At, Job, Ask, Save, HeartbeatBegin, HeartbeatSend, HeartbeatAnswer, HeartbeatBadPolicy,
        HeartbeatUnreadable, HeartbeatFail, HeartbeatResetFlag, HeartbeatSave,
        HeartbeatSaveFails, HeartbeatLoad, HeartbeatReadRequestor, HeartbeatRespond,
        HeartbeatWake, HeartbeatTimeout
  <2> QED
    BY <1>0, <2>1, TurnSave, TurnType DEF Install, HeartbeatInstall, HeartbeatInstallFails, At
<1>4. ASSUME BundleTaken, Brought(v) PROVE At("save")' /\ Brought(v)'
  <2>1. News
    BY <1>0, <1>a, <1>4 DEF News, Brought, Due
  <2>2. At("save")' /\ hb'.reply = hb.reply
    BY <1>0, <1>4, <2>1, TurnSave DEF BundleTaken, HeartbeatInstall, At
  <2> QED
    BY <1>4, <2>2 DEF Brought
<1>5. ASSUME At("save") PROVE (At("load")' /\ hb'.reply = hb.reply) \/ At("respond")'
  <2>1. Save
    BY <1>5
    DEF At, Job, Ask, Install, HeartbeatBegin, HeartbeatSend, HeartbeatAnswer,
        HeartbeatBadPolicy, HeartbeatUnreadable, HeartbeatFail, HeartbeatResetFlag,
        HeartbeatInstall, HeartbeatInstallFails, HeartbeatLoad, HeartbeatReadRequestor,
        HeartbeatRespond, HeartbeatWake, HeartbeatTimeout
  <2>2. /\ [hb EXCEPT !.pc = "load"].pc = "load" /\ [hb EXCEPT !.pc = "load"].reply = hb.reply
        /\ Over.pc = "respond"
    BY <1>0, TurnPC, TurnType DEF Places
  <2> QED
    BY <2>1, <2>2 DEF Save, HeartbeatSave, HeartbeatSaveFails, At
<1>6. ASSUME BundleSaved, Brought(v) PROVE At("load")' /\ Brought(v)'
  <2>1. At("load")' /\ hb'.reply = hb.reply
    BY <1>0, <1>6, TurnPC DEF BundleSaved, HeartbeatSave, Places, At
  <2> QED
    BY <1>6, <2>1 DEF Brought
<1>7. ASSUME At("load"), Brought(v) PROVE Installed(v)'
  <2>1. HeartbeatLoad
    BY <1>7
    DEF At, Job, Ask, Install, Save, HeartbeatBegin, HeartbeatSend, HeartbeatAnswer,
        HeartbeatBadPolicy, HeartbeatUnreadable, HeartbeatFail, HeartbeatResetFlag,
        HeartbeatInstall, HeartbeatInstallFails, HeartbeatSave, HeartbeatSaveFails,
        HeartbeatReadRequestor, HeartbeatRespond, HeartbeatWake, HeartbeatTimeout
  <2> QED
    BY <1>7, <2>1 DEF HeartbeatLoad, Brought, Installed
<1>8. ASSUME Fresh(v) PROVE Fresh(v)'
  <2>1. CASE At("sent")
    <3>1. Ask
      BY <2>1
      DEF At, Job, Install, Save, HeartbeatBegin, HeartbeatSend, HeartbeatResetFlag,
          HeartbeatInstall, HeartbeatInstallFails, HeartbeatSave, HeartbeatSaveFails,
          HeartbeatLoad, HeartbeatReadRequestor, HeartbeatRespond, HeartbeatWake,
          HeartbeatTimeout
    <3>2. HeartbeatBadPolicy \/ HeartbeatUnreadable => hb'.reply \notin Bundles
      BY Answers DEF AnswerIs
    <3>3. HeartbeatFail => hb'.pc = "respond"
      BY TurnType DEF HeartbeatFail
    <3> QED
      BY <1>1, <3>1, <3>2, <3>3 DEF Ask, Fresh, Pending
  <2>2. CASE At("answered") \/ At("install") \/ At("save")
    BY <1>2, <1>3, <1>5, <1>8, <2>2 DEF Fresh, Pending, Brought, At
  <2>3. CASE ~(At("sent") \/ At("answered") \/ At("install") \/ At("save"))
    BY <2>3, JobMoves, SomewhereAt DEF Fresh, Pending, At
  <2> QED
    BY <2>1, <2>2, <2>3
<1> QED
  BY <1>1, <1>2, <1>4, <1>6, <1>7, <1>8 DEF Brought

\* A policy the server publishes is installed, or a newer one is, whatever calls
\* and writes fail meanwhile, once the crashes have ended: for any number of users,
\* versions, sessions and requests.
THEOREM PolicyInstalled == FairSpec /\ []StepsEnabled /\ CrashesEnd => NewPolicyArrives
<1> SUFFICES ASSUME NEW v \in 1..MaxVersion
             PROVE  FairSpec /\ []StepsEnabled /\ CrashesEnd => ((server = v) ~> (bundle.ver >= v))
  BY DEF NewPolicyArrives
<1> DEFINE Calm == /\ []TypeOK /\ []StepsEnabled /\ [][Next]_vars /\ [][~Restart]_vars
                   /\ WF_vars(Job) /\ SF_vars(HeartbeatAnswer) /\ SF_vars(BundleTaken)
                   /\ SF_vars(BundleSaved)
<1>1. TypeOK /\ [Next]_vars /\ [~Restart]_vars =>
          /\ At("start") => At("start")' \/ At("build")'
          /\ At("build") => At("build")' \/ At("sent")'
          /\ At("answered") => At("answered")' \/ At("install")'
          /\ At("install") => At("install")' \/ At("save")' \/ At("respond")'
          /\ At("save") => At("save")' \/ At("load")' \/ At("respond")'
          /\ At("load") => At("load")' \/ At("respond")'
          /\ At("respond") => At("respond")' \/ At("clear")' \/ At("wait")'
          /\ At("clear") => At("clear")' \/ At("wait")'
          /\ At("wait") => At("wait")' \/ At("start")'
  <2> SUFFICES ASSUME TypeOK, [Next]_vars, [~Restart]_vars
               PROVE  Job \/ hb' = hb
    BY JobMoves DEF At
  <2> QED
    BY OthersStay DEF vars
<1>2. TypeOK /\ <<Job>>_vars =>
          /\ At("start") => ~At("start")'
          /\ At("build") => ~At("build")'
          /\ At("answered") => ~At("answered")'
          /\ At("install") => ~At("install")'
          /\ At("save") => ~At("save")'
          /\ At("load") => ~At("load")'
          /\ At("respond") => ~At("respond")'
          /\ At("clear") => ~At("clear")'
          /\ At("wait") => ~At("wait")'
  BY JobMoves DEF At
<1>3. StepsEnabled => /\ ENABLED <<Job>>_vars
                      /\ At("sent") => ENABLED <<HeartbeatAnswer>>_vars
                      /\ At("install") /\ Brought(v) => ENABLED <<BundleTaken>>_vars
                      /\ At("save") /\ Brought(v) => ENABLED <<BundleSaved>>_vars
  BY DEF StepsEnabled, At, Brought
<1>4. FairSpec /\ []StepsEnabled /\ CrashesEnd => <>Calm
  BY TypeCorrect, PTL DEF FairSpec, Spec, CrashesEnd
\* Turn after turn the job asks the server, and the server answers.
<1>5. Calm => (At("start") ~> At("build"))
  BY <1>1, <1>2, <1>3, PTL
<1>6. Calm => (At("build") ~> At("sent"))
  BY <1>1, <1>2, <1>3, PTL
<1>7. Calm => (At("answered") ~> At("install"))
  BY <1>1, <1>2, <1>3, PTL
<1>8. Calm => (At("install") ~> At("save") \/ At("respond"))
  BY <1>1, <1>2, <1>3, PTL
<1>9. Calm => (At("save") ~> At("load") \/ At("respond"))
  BY <1>1, <1>2, <1>3, PTL
<1>10. Calm => (At("load") ~> At("respond"))
  BY <1>1, <1>2, <1>3, PTL
<1>11. Calm => (At("respond") ~> At("clear") \/ At("wait"))
  BY <1>1, <1>2, <1>3, PTL
<1>12. Calm => (At("clear") ~> At("wait"))
  BY <1>1, <1>2, <1>3, PTL
<1>13. Calm => (At("wait") ~> At("start"))
  BY <1>1, <1>2, <1>3, PTL
<1>14. Calm => []<>At("sent")
  BY <1>5, <1>6, <1>7, <1>8, <1>9, <1>10, <1>11, <1>12, <1>13, SomewhereAt, PTL
<1>15. Calm => []<><<HeartbeatAnswer>>_vars
  BY <1>3, <1>14, PTL
\* Suppose the version stays due.  Answers of before it are soon out of the way ...
<1>16. TypeOK /\ [Next]_vars => (Due(v) => Due(v)' \/ Installed(v)')
  BY DueStays
<1>17. At("sent") => Fresh(v)
  BY DEF At, Fresh, Pending
<1>18. TypeOK /\ [Next]_vars /\ [~Restart]_vars /\ Due(v) /\ Fresh(v) => Fresh(v)'
  <2> SUFFICES ASSUME TypeOK, [Next]_vars, [~Restart]_vars, Due(v), Fresh(v)
               PROVE  Fresh(v)'
    OBVIOUS
  <2>1. CASE Job
    BY <2>1, DueSteps
  <2>2. CASE ~Job
    <3>1. hb' = hb
      BY <2>2, OthersStay DEF vars
    <3> QED
      BY <3>1 DEF Fresh, Pending, Brought
  <2> QED
    BY <2>1, <2>2
<1>19. Calm /\ []Due(v) => <>[]Fresh(v)
  BY <1>14, <1>17, <1>18, PTL
\* ... and every answer from then on brings it: one is taken, saved and loaded.
<1>20. TypeOK /\ [Next]_vars /\ Due(v) /\ <<HeartbeatAnswer>>_vars => At("answered")' /\ Brought(v)'
  BY DueSteps DEF Job, Ask
<1>21. TypeOK /\ [Next]_vars /\ [~Restart]_vars /\ Due(v) =>
          /\ At("answered") /\ Brought(v) => \/ At("answered")' /\ Brought(v)'
                                             \/ At("install")' /\ Brought(v)'
          /\ At("load") /\ Brought(v) => (At("load")' /\ Brought(v)') \/ Installed(v)'
  <2> SUFFICES ASSUME TypeOK, [Next]_vars, [~Restart]_vars, Due(v), Brought(v)
               PROVE  /\ At("answered") => \/ At("answered")' /\ Brought(v)'
                                           \/ At("install")' /\ Brought(v)'
                      /\ At("load") => (At("load")' /\ Brought(v)') \/ Installed(v)'
    OBVIOUS
  <2>1. CASE Job
    BY <2>1, DueSteps
  <2>2. CASE ~Job
    <3>1. hb' = hb
      BY <2>2, OthersStay DEF vars
    <3> QED
      BY <3>1 DEF At, Brought
  <2> QED
    BY <2>1, <2>2
<1>22. TypeOK /\ Due(v) /\ Fresh(v) =>
          /\ <<BundleTaken>>_vars => At("save")' /\ Brought(v)'
          /\ <<BundleSaved>>_vars => At("load")' /\ Brought(v)'
  <2> SUFFICES ASSUME TypeOK, Due(v), Fresh(v), BundleTaken \/ BundleSaved
               PROVE  /\ BundleTaken => At("save")' /\ Brought(v)'
                      /\ BundleSaved => At("load")' /\ Brought(v)'
    OBVIOUS
  <2>1. Job /\ Brought(v)
    BY DEF BundleTaken, BundleSaved, HeartbeatInstall, HeartbeatSave, Job, Install, Save, Fresh,
           Pending
  <2> QED
    BY <2>1, DueSteps
<1>23. Calm /\ []Due(v) => []<>(At("answered") /\ Brought(v))
  BY <1>15, <1>20, PTL
<1>24. Calm /\ []Due(v) => []<>((At("install") /\ Brought(v)) \/ Installed(v))
  BY <1>2, <1>3, <1>21, <1>23, PTL
<1>25. TypeOK /\ Due(v) => ~Installed(v)
  BY HeartbeatConstants DEF TypeOK, Bundles, Due, Installed
<1>26. Calm /\ []Due(v) => []<><<BundleTaken>>_vars
  BY <1>3, <1>24, <1>25, PTL
<1>27. Calm /\ []Due(v) => []<>(At("save") /\ Brought(v))
  BY <1>19, <1>22, <1>26, PTL
<1>28. Calm /\ []Due(v) => []<><<BundleSaved>>_vars
  BY <1>3, <1>27, PTL
<1>29. Calm /\ []Due(v) => []<>(At("load") /\ Brought(v))
  BY <1>19, <1>22, <1>28, PTL
<1>30. Calm /\ []Due(v) => <>Installed(v)
  BY <1>2, <1>3, <1>21, <1>29, PTL
<1>31. Calm => (Due(v) ~> Installed(v))
  BY <1>16, <1>25, <1>30, PTL
<1>32. TypeOK /\ server = v => Due(v) \/ Installed(v)
  BY HeartbeatConstants DEF TypeOK, Bundles, Due, Installed
<1>33. FairSpec => [][Next]_vars /\ []TypeOK
  BY TypeCorrect, PTL DEF FairSpec, Spec
<1>34. Installed(v) => bundle.ver >= v
  BY DEF Installed
<1> QED
  BY <1>4, <1>16, <1>31, <1>32, <1>33, <1>34, PTL
=============================================================================
