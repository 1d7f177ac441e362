------------------------- MODULE AuditUpload_proofs -------------------------
(***************************************************************************)
(* Proofs about the audit log, for any set of records and any number of    *)
(* restarts and failed reads and writes: it keeps the promise of           *)
(* AuditTrail, its archive has a record once, and every record arrives.   *)
(***************************************************************************)
EXTENDS AuditUpload, TLAPS

-----------------------------------------------------------------------------
(* Lists of records *)

LEMMA AppendRecord ==
    ASSUME NEW s \in Seq(Records), NEW r \in Records
    PROVE  /\ Append(s, r) \in Seq(Records)
           /\ In(Append(s, r)) = In(s) \cup {r}
           /\ Once(s) /\ r \notin In(s) => Once(Append(s, r))
<1>1. DOMAIN s = 1..Len(s) /\ DOMAIN Append(s, r) = 1..(Len(s) + 1) /\ Len(s) \in Nat
  OBVIOUS
<1>2. /\ \A i \in 1..Len(s) : Append(s, r)[i] = s[i]
      /\ Append(s, r)[Len(s) + 1] = r
  OBVIOUS
<1>3. In(Append(s, r)) = In(s) \cup {r}
  BY <1>1, <1>2 DEF In
<1>4. ASSUME Once(s), r \notin In(s)
      PROVE  Once(Append(s, r))
  <2> SUFFICES ASSUME NEW i \in 1..(Len(s) + 1), NEW j \in 1..(Len(s) + 1),
                      Append(s, r)[i] = Append(s, r)[j]
               PROVE  i = j
    BY <1>1 DEF Once
  <2>1. CASE i \in 1..Len(s) /\ j \in 1..Len(s)
    BY <1>1, <1>2, <1>4, <2>1 DEF Once
  <2>2. CASE i = Len(s) + 1 \/ j = Len(s) + 1
    BY <1>1, <1>2, <1>4, <2>2 DEF In
  <2> QED
    BY <1>1, <2>1, <2>2
<1> QED
  BY <1>3, <1>4

LEMMA ConcatRecords ==
    ASSUME NEW s \in Seq(Records), NEW t \in Seq(Records)
    PROVE  /\ s \o t \in Seq(Records)
           /\ In(s \o t) = In(s) \cup In(t)
           /\ Once(s) /\ Once(t) /\ In(s) \cap In(t) = {} => Once(s \o t)
<1> DEFINE u == s \o t
<1>1. DOMAIN s = 1..Len(s) /\ DOMAIN t = 1..Len(t) /\ DOMAIN u = 1..(Len(s) + Len(t))
      /\ Len(s) \in Nat /\ Len(t) \in Nat
  OBVIOUS
<1>2. /\ \A i \in 1..Len(s) : u[i] = s[i]
      /\ \A i \in 1..Len(t) : u[Len(s) + i] = t[i]
  OBVIOUS
<1>3. u \in Seq(Records)
  OBVIOUS
<1> HIDE DEF u
<1>4. \A i \in DOMAIN u : \/ i \in 1..Len(s)
                          \/ i - Len(s) \in 1..Len(t) /\ u[i] = t[i - Len(s)]
  <2> SUFFICES ASSUME NEW i \in DOMAIN u, i \notin 1..Len(s)
               PROVE  i - Len(s) \in 1..Len(t) /\ u[i] = t[i - Len(s)]
    OBVIOUS
  <2>1. i - Len(s) \in 1..Len(t) /\ i = Len(s) + (i - Len(s))
    BY <1>1
  <2> QED
    BY <1>2, <2>1
<1>5. In(u) = In(s) \cup In(t)
  <2>1. In(u) \subseteq In(s) \cup In(t)
    BY <1>1, <1>2, <1>4 DEF In
  <2>2. In(s) \subseteq In(u)
    BY <1>1, <1>2 DEF In
  <2>3. In(t) \subseteq In(u)
    <3> SUFFICES ASSUME NEW i \in 1..Len(t)
                 PROVE  t[i] \in In(u)
      BY <1>1 DEF In
    <3>1. Len(s) + i \in DOMAIN u /\ u[Len(s) + i] = t[i]
      BY <1>1, <1>2
    <3> QED
      BY <3>1 DEF In
  <2> QED
    BY <2>1, <2>2, <2>3
<1>6. ASSUME Once(s), Once(t), In(s) \cap In(t) = {}
      PROVE  Once(u)
  <2> SUFFICES ASSUME NEW i \in DOMAIN u, NEW j \in DOMAIN u, u[i] = u[j]
               PROVE  i = j
    BY DEF Once
  <2>1. CASE i \in 1..Len(s) /\ j \in 1..Len(s)
    BY <1>1, <1>2, <1>6, <2>1 DEF Once
  <2>2. CASE i \in 1..Len(s) /\ j \notin 1..Len(s)
    BY <1>1, <1>2, <1>4, <1>6, <2>2 DEF In
  <2>3. CASE i \notin 1..Len(s) /\ j \in 1..Len(s)
    BY <1>1, <1>2, <1>4, <1>6, <2>3 DEF In
  <2>4. CASE i \notin 1..Len(s) /\ j \notin 1..Len(s)
    <3>1. i - Len(s) = j - Len(s)
      BY <1>1, <1>4, <1>6, <2>4 DEF Once
    <3> QED
      BY <1>1, <3>1
  <2> QED
    BY <2>1, <2>2, <2>3, <2>4
<1> QED
  BY <1>3, <1>5, <1>6 DEF u

LEMMA FirstRecord ==
    ASSUME NEW s \in Seq(Records), s # <<>>
    PROVE  /\ Head(s) \in Records /\ Tail(s) \in Seq(Records)
           /\ Len(s) # 1 => Tail(s) # <<>>
           /\ Len(s) = 1 => In(s) = {Head(s)}
           /\ In(s) = In(Tail(s)) \cup {Head(s)}
           /\ Once(s) => Head(s) \notin In(Tail(s)) /\ Once(Tail(s))
<1>1. DOMAIN s = 1..Len(s) /\ Len(s) \in Nat \ {0} /\ Head(s) = s[1]
  OBVIOUS
<1>2. /\ Tail(s) \in Seq(Records) /\ Len(Tail(s)) = Len(s) - 1
      /\ DOMAIN Tail(s) = 1..(Len(s) - 1)
      /\ \A i \in 1..(Len(s) - 1) : Tail(s)[i] = s[i + 1]
  OBVIOUS
<1>3. Head(s) \in Records /\ (Len(s) # 1 => Tail(s) # <<>>)
  <2>1. Len(s) # 1 => Len(Tail(s)) # 0
    BY <1>1, <1>2
  <2>2. Len(s) # 1 => Tail(s) # <<>>
    BY <2>1
  <2>3. Head(s) \in Records
    BY <1>1
  <2> QED
    BY <2>2, <2>3
<1>4. Len(s) = 1 => In(s) = {Head(s)}
  BY <1>1 DEF In
<1>5. In(s) = In(Tail(s)) \cup {Head(s)}
  <2>1. In(Tail(s)) \cup {Head(s)} \subseteq In(s)
    BY <1>1, <1>2 DEF In
  <2>2. ASSUME NEW i \in 1..Len(s), i # 1
        PROVE  s[i] \in In(Tail(s))
    <3>1. i - 1 \in DOMAIN Tail(s) /\ Tail(s)[i - 1] = s[i]
      BY <1>1, <1>2, <2>2
    <3> QED
      BY <3>1 DEF In
  <2>3. In(s) \subseteq In(Tail(s)) \cup {Head(s)}
    BY <1>1, <2>2 DEF In
  <2> QED
    BY <2>1, <2>3
<1>6. ASSUME Once(s)
      PROVE  Head(s) \notin In(Tail(s)) /\ Once(Tail(s))
  <2>1. \A i \in 1..(Len(s) - 1) : s[i + 1] # s[1]
    BY <1>1, <1>6 DEF Once
  <2>2. \A i, j \in 1..(Len(s) - 1) : s[i + 1] = s[j + 1] => i = j
    BY <1>1, <1>6 DEF Once
  <2> QED
    BY <1>1, <1>2, <2>1, <2>2 DEF In, Once
<1> QED
  BY <1>2, <1>3, <1>4, <1>5, <1>6

-----------------------------------------------------------------------------
(* Type correctness *)

Uploads == [pc : {"idle", "send", "save", "refused", "back"}, recs : Seq(Records)]

\* The job has records exactly while it is in the middle of a turn.
TypeInv ==
    /\ TypeOK
    /\ upload.pc = "idle" <=> upload.recs = <<>>

LEMMA IdleType == Idle \in Uploads /\ Idle.pc = "idle" /\ Idle.recs = <<>>
<1>1. <<>> \in Seq(Records)
  OBVIOUS
<1> QED
  BY <1>1 DEF Idle, Uploads

LEMMA TypeInit == Init => TypeInv
<1> SUFFICES ASSUME Init
             PROVE  TypeInv
  OBVIOUS
<1>1. 0 \in 0..MaxRestarts /\ 0 \in 0..MaxFaults /\ <<>> \in Seq(Records)
  BY AuditConstants
<1> QED
  BY <1>1, IdleType DEF Init, Uploads, TypeInv, TypeOK

\* The job is done with the first of the refused records, written or not.
LEMMA FirstDone ==
    ASSUME TypeInv, UploadBack \/ UploadBackFails
    PROVE  /\ upload.recs \in Seq(Records) /\ upload.recs # <<>>
           /\ upload.pc \in {"refused", "back"}
           /\ \/ upload' = Idle /\ In(upload.recs) = {Head(upload.recs)}
              \/ /\ upload'.pc = "back" /\ upload'.recs = Tail(upload.recs)
                 /\ upload' \in Uploads /\ Tail(upload.recs) # <<>>
                 /\ In(upload.recs) = In(Tail(upload.recs)) \cup {Head(upload.recs)}
<1>1. upload.pc \in {"refused", "back"} /\ upload' = AfterFirst
  BY DEF UploadBack, UploadBackFails
<1>2. upload.recs \in Seq(Records) /\ upload.recs # <<>>
  BY <1>1 DEF TypeInv, TypeOK
<1>3. CASE Len(upload.recs) = 1
  <2>1. In(upload.recs) = {Head(upload.recs)}
    BY <1>2, <1>3, FirstRecord
  <2> QED
    BY <1>1, <1>2, <1>3, <2>1 DEF AfterFirst
<1>4. CASE Len(upload.recs) # 1
  <2>1. Tail(upload.recs) \in Seq(Records) /\ Tail(upload.recs) # <<>>
    BY <1>2, <1>4, FirstRecord
  <2>2. In(upload.recs) = In(Tail(upload.recs)) \cup {Head(upload.recs)}
    BY <1>2, FirstRecord
  <2>3. upload' = [pc |-> "back", recs |-> Tail(upload.recs)]
    BY <1>1, <1>4 DEF AfterFirst
  <2> QED
    BY <1>1, <1>2, <2>1, <2>2, <2>3 DEF Uploads
<1> QED
  BY <1>3, <1>4

LEMMA TypeStep == TypeInv /\ [Next]_vars => TypeInv'
<1> SUFFICES ASSUME TypeInv, [Next]_vars
             PROVE  TypeInv'
  OBVIOUS
<1>0. /\ cache \in Seq(Records) /\ archive \in Seq(Records)
      /\ upload \in Uploads /\ upload.recs \in Seq(Records)
  BY DEF TypeInv, TypeOK, Uploads
<1>1. ASSUME NEW r \in Records, AuditBegin(r)
      PROVE  TypeInv'
  BY <1>1 DEF AuditBegin, TypeInv, TypeOK, bounds
<1>2. ASSUME NEW r \in Records, AuditWrite(r)
      PROVE  TypeInv'
  <2>1. cache' \in Seq(Records)
    BY <1>0, <1>2, AppendRecord DEF AuditWrite
  <2> QED
    BY <1>2, <2>1 DEF AuditWrite, TypeInv, TypeOK, bounds
<1>f. ASSUME NEW r \in Records, AuditWriteFails(r)
      PROVE  TypeInv'
  <2>1. faults' \in 0..MaxFaults
    BY <1>f, AuditConstants DEF AuditWriteFails, TypeInv, TypeOK
  <2> QED
    BY <1>f, <2>1 DEF AuditWriteFails, TypeInv, TypeOK
<1>3. CASE UploadTake \/ UploadTakeFails
  <2>1. faults' \in 0..MaxFaults /\ restarts' = restarts
    BY <1>3, AuditConstants DEF UploadTake, UploadTakeFails, TypeInv, TypeOK, bounds
  <2>2. upload' \in Uploads /\ (upload'.pc = "idle" <=> upload'.recs = <<>>)
    BY <1>0, <1>3 DEF UploadTake, UploadTakeFails, Uploads, TypeInv
  <2>3. <<>> \in Seq(Records) /\ cache' = <<>>
    BY <1>3 DEF UploadTake, UploadTakeFails
  <2> QED
    BY <1>3, <2>1, <2>2, <2>3 DEF UploadTake, UploadTakeFails, Uploads, TypeInv, TypeOK
<1>4. CASE SendConfirmed \/ SendFails
  <2>1. In(upload.recs) \subseteq Records
    BY <1>0 DEF In
  <2>2. upload' \in Uploads /\ upload'.recs = upload.recs
        /\ upload'.pc # "idle" /\ upload.pc # "idle"
    BY <1>0, <1>4 DEF SendConfirmed, SendFails, Uploads
  <2>3. received' \subseteq Records /\ connected' \in BOOLEAN
    BY <1>4, <2>1 DEF SendConfirmed, SendFails, TypeInv, TypeOK
  <2> QED
    BY <1>4, <2>2, <2>3 DEF SendConfirmed, SendFails, Uploads, TypeInv, TypeOK, bounds
<1>5. CASE UploadSave
  <2>1. archive' \in Seq(Records)
    BY <1>0, <1>5, ConcatRecords DEF UploadSave, TypeInv, TypeOK
  <2> QED
    BY <1>5, <2>1 DEF UploadSave, Idle, TypeInv, TypeOK, bounds
<1>6. CASE UploadBack \/ UploadBackFails
  <2>1. upload.recs # <<>>
    BY <1>6 DEF UploadBack, UploadBackFails, TypeInv
  <2>2. cache' \in Seq(Records)
    BY <1>0, <1>6, <2>1, AppendRecord, FirstRecord DEF UploadBack, UploadBackFails
  <2>3. /\ upload' \in Uploads
        /\ upload'.pc = "idle" <=> upload'.recs = <<>>
    BY <1>6, FirstDone, IdleType
  <2>4. faults' \in 0..MaxFaults /\ restarts' = restarts
    BY <1>6, AuditConstants DEF UploadBack, UploadBackFails, TypeInv, TypeOK, bounds
  <2> QED
    BY <1>6, <2>2, <2>3, <2>4 DEF UploadBack, UploadBackFails, Uploads, TypeInv, TypeOK
<1>7. CASE Connection \/ StopAudit \/ ServiceEnds
  BY <1>7 DEF Connection, StopAudit, ServiceEnds, TypeInv, TypeOK, bounds
<1>8. CASE Crash
  BY <1>8, IdleType DEF Crash, Uploads, TypeInv, TypeOK, bounds
<1>9. CASE Start
  <2>1. restarts' \in 0..MaxRestarts
    BY <1>9, AuditConstants DEF Start, TypeInv, TypeOK
  <2> QED
    BY <1>9, <2>1 DEF Start, TypeInv, TypeOK
<1>10. CASE UNCHANGED vars
  BY <1>10 DEF vars, TypeInv, TypeOK, bounds
<1> QED
  BY <1>1, <1>2, <1>f, <1>3, <1>4, <1>5, <1>6, <1>7, <1>8, <1>9, <1>10
  DEF Next, Worker, Upload, Service

LEMMA TypeInvHolds == Spec => []TypeInv
<1> QED
  BY TypeInit, TypeStep, PTL DEF Spec

\* Every variable keeps its type.
THEOREM TypeCorrect == Spec => []TypeOK
<1>1. TypeInv => TypeOK
  BY DEF TypeInv
<1> QED
  BY <1>1, TypeInvHolds, PTL

-----------------------------------------------------------------------------
(* Where the copies of a record are *)

\* What the job has taken out of the cache, confirmed or not.
Taken == In(upload.recs)

\* Nobody knows a record that was not audited, the archive and the job's last
\* step have what the server has, and a record has one copy, be it with a worker,
\* in the cache, with the job or in the archive.
CopiesInv ==
    /\ composing \cup In(cache) \cup Taken \cup In(archive) \cup received \subseteq audited
    /\ In(archive) \subseteq received
    /\ upload.pc = "save" => Taken \subseteq received
    /\ Once(cache) /\ Once(upload.recs) /\ Once(archive)
    /\ composing \cap In(cache) = {} /\ composing \cap Taken = {}
    /\ composing \cap In(archive) = {} /\ In(cache) \cap Taken = {}
    /\ In(cache) \cap In(archive) = {} /\ Taken \cap In(archive) = {}

LEMMA NoRecords == In(<<>>) = {} /\ Once(<<>>)
BY DEF In, Once

LEMMA CopiesInit == Init => CopiesInv
BY NoRecords, IdleType DEF Init, CopiesInv, Taken

LEMMA CopiesStep == TypeInv /\ CopiesInv /\ [Next]_vars => CopiesInv'
<1> SUFFICES ASSUME TypeInv, CopiesInv, [Next]_vars
             PROVE  CopiesInv'
  OBVIOUS
<1>0. /\ cache \in Seq(Records) /\ archive \in Seq(Records)
      /\ upload \in Uploads /\ upload.recs \in Seq(Records)
  BY DEF TypeInv, TypeOK, Uploads
<1>i. Idle.recs = <<>> /\ Idle.pc = "idle" /\ In(<<>>) = {} /\ Once(<<>>)
  BY NoRecords, IdleType
<1>1. ASSUME NEW r \in Records, AuditBegin(r)
      PROVE  CopiesInv'
  BY <1>1 DEF AuditBegin, CopiesInv, Taken
<1>2. ASSUME NEW r \in Records, AuditWrite(r)
      PROVE  CopiesInv'
  <2>1. r \in composing /\ r \notin In(cache)
    BY <1>2 DEF AuditWrite, CopiesInv
  <2>2. Once(cache') /\ In(cache') \subseteq In(cache) \cup {r}
    BY <1>0, <1>2, <2>1, AppendRecord DEF AuditWrite, CopiesInv
  <2>3. composing' = composing \ {r} /\ UNCHANGED <<upload, received, archive, audited>>
    BY <1>2 DEF AuditWrite
  <2> QED
    BY <2>1, <2>2, <2>3 DEF CopiesInv, Taken
<1>f. ASSUME NEW r \in Records, AuditWriteFails(r)
      PROVE  CopiesInv'
  BY <1>f DEF AuditWriteFails, CopiesInv, Taken
<1>3. CASE UploadTake
  <2>1. cache' = <<>> /\ upload'.recs = cache /\ upload'.pc = "send" /\ upload.recs = <<>>
    BY <1>3 DEF UploadTake, UploadReady, TypeInv
  <2>2. UNCHANGED <<composing, received, archive, audited>>
    BY <1>3 DEF UploadTake
  <2> QED
    BY <1>i, <2>1, <2>2 DEF CopiesInv, Taken
<1>4. CASE UploadTakeFails
  BY <1>i, <1>4 DEF UploadTakeFails, CopiesInv, Taken
<1>5. CASE SendConfirmed \/ SendFails
  <2>1. upload'.recs = upload.recs /\ (upload'.pc = "save" => received' = received \cup Taken)
    BY <1>0, <1>5 DEF SendConfirmed, SendFails, Uploads, Taken
  <2>2. received' \in {received, received \cup Taken}
    BY <1>5 DEF SendConfirmed, SendFails, Taken
  <2>3. UNCHANGED <<composing, cache, archive, audited>>
    BY <1>5 DEF SendConfirmed, SendFails
  <2> QED
    BY <2>1, <2>2, <2>3 DEF CopiesInv, Taken
<1>6. CASE UploadSave
  <2>1. Once(archive') /\ In(archive') \subseteq In(archive) \cup Taken
    <3>1. archive' \in {archive, archive \o upload.recs}
      BY <1>6 DEF UploadSave
    <3>2. Once(archive) /\ Once(upload.recs) /\ In(archive) \cap In(upload.recs) = {}
      BY DEF CopiesInv, Taken
    <3>3. /\ Once(archive \o upload.recs)
          /\ In(archive \o upload.recs) = In(archive) \cup Taken
      BY <1>0, <3>2, ConcatRecords DEF Taken
    <3>4. CASE archive' = archive
      BY <3>2, <3>4 DEF Taken
    <3>5. CASE archive' = archive \o upload.recs
      BY <3>3, <3>5
    <3> QED
      BY <3>1, <3>4, <3>5
  <2>2. upload'.recs = <<>> /\ upload'.pc = "idle" /\ upload.pc = "save"
        /\ UNCHANGED <<composing, cache, received, audited>>
    BY <1>i, <1>6 DEF UploadSave
  <2> QED
    BY <1>i, <2>1, <2>2 DEF CopiesInv, Taken
<1>7. CASE UploadBack \/ UploadBackFails
  <2> DEFINE r == Head(upload.recs)
  <2>1. upload.recs # <<>>
    BY <1>7 DEF UploadBack, UploadBackFails, TypeInv
  <2>2. r \in Records /\ r \in Taken /\ r \notin In(cache)
    BY <1>0, <2>1, FirstRecord DEF CopiesInv, Taken
  <2>3. Once(cache') /\ In(cache') \subseteq In(cache) \cup {r}
    BY <1>0, <1>7, <2>2, AppendRecord DEF UploadBack, UploadBackFails, AfterFirst, CopiesInv
  <2>4. Once(upload'.recs) /\ Taken' \subseteq Taken \ {r} /\ upload'.pc # "save"
    <3>1. \/ upload'.recs = <<>> /\ upload'.pc = "idle"
          \/ upload'.recs = Tail(upload.recs) /\ upload'.pc = "back"
      BY <1>i, <1>7, FirstDone
    <3>2. /\ Once(Tail(upload.recs)) /\ r \notin In(Tail(upload.recs))
          /\ In(Tail(upload.recs)) \subseteq Taken
      BY <1>0, <2>1, FirstRecord DEF CopiesInv, Taken
    <3> HIDE DEF r
    <3> QED
      BY <1>i, <3>1, <3>2 DEF Taken
  <2>5. UNCHANGED <<composing, received, archive, audited>>
    BY <1>7 DEF UploadBack, UploadBackFails
  <2> HIDE DEF r
  <2> QED
    BY <2>2, <2>3, <2>4, <2>5 DEF CopiesInv, Taken
<1>8. CASE Connection \/ StopAudit \/ ServiceEnds \/ Start
  BY <1>8 DEF Connection, StopAudit, ServiceEnds, Start, CopiesInv, Taken
<1>9. CASE Crash
  BY <1>i, <1>9 DEF Crash, CopiesInv, Taken
<1>10. CASE UNCHANGED vars
  BY <1>10 DEF vars, CopiesInv, Taken
<1> QED
  BY <1>1, <1>2, <1>f, <1>3, <1>4, <1>5, <1>6, <1>7, <1>8, <1>9, <1>10
  DEF Next, Worker, Upload, Service

LEMMA CopiesInvHolds == Spec => []CopiesInv
<1> QED
  BY TypeInvHolds, CopiesInit, CopiesStep, PTL DEF Spec

\* The archive has what the server confirmed, and each record once, whatever
\* workers, uploads, refusals, lost answers, stops and crashes overlap.
THEOREM ArchivedRecordsOnce == Spec => []ArchivedOnce
<1>1. CopiesInv => ArchivedOnce
  BY DEF CopiesInv, ArchivedOnce
<1> QED
  BY <1>1, CopiesInvHolds, PTL

-----------------------------------------------------------------------------
(* The log implements AuditTrail *)

LEMMA KeptRecords ==
    ASSUME TypeInv, CopiesInv
    PROVE  /\ Kept \subseteq Records /\ Kept \subseteq audited /\ received \subseteq audited
           /\ Taken \subseteq Records
<1>1. cache \in Seq(Records) /\ upload.recs \in Seq(Records) /\ composing \subseteq Records
  BY DEF TypeInv, TypeOK
<1>2. In(cache) \subseteq Records /\ Taken \subseteq Records
  BY <1>1 DEF In, Taken
<1> QED
  BY <1>1, <1>2 DEF Kept, CopiesInv, Taken

\* What a step loses that leaves what the server has as it is.
LEMMA LosingStep ==
    ASSUME TypeInv, CopiesInv, Kept' \subseteq Kept, received' = received, audited' = audited,
           NEW gone, gone = (Kept \ received) \ (Kept' \ received)
    PROVE  gone \in SUBSET Records /\ Trail!Lose(gone)
<1>1. gone \in SUBSET Records
  BY KeptRecords
<1>2. Trail!Lose(gone)
  BY KeptRecords DEF Trail!Lose, Lost
<1> QED
  BY <1>1, <1>2

\* A step that costs copies by a fault of the file.
LEMMA FaultStep ==
    ASSUME TypeInv, CopiesInv, Kept' \subseteq Kept, received' = received, audited' = audited,
           faults' = faults + 1, open' = open
    PROVE  Trail!Next
<1> DEFINE gone == (Kept \ received) \ (Kept' \ received)
<1>1. gone \in SUBSET Records /\ Trail!Lose(gone)
  BY LosingStep
<1>2. Trail!Fault(gone)
  BY <1>1 DEF Trail!Fault
<1> QED
  BY <1>1, <1>2 DEF Trail!Next

\* A step that leaves the log closed, and may cost copies.
LEMMA DownStep ==
    ASSUME TypeInv, CopiesInv, Kept' \subseteq Kept, received' = received, audited' = audited,
           faults' = faults, open' = FALSE
    PROVE  Trail!Next
<1> DEFINE gone == (Kept \ received) \ (Kept' \ received)
<1>1. gone \in SUBSET Records /\ Trail!Lose(gone)
  BY LosingStep
<1>2. Trail!Down(gone)
  BY <1>1 DEF Trail!Down
<1> QED
  BY <1>1, <1>2 DEF Trail!Next

\* A step that moves copies about.
LEMMA MovingStep ==
    ASSUME Kept' = Kept, UNCHANGED <<received, audited, open, faults>>
    PROVE  UNCHANGED Trail!vars
BY DEF Trail!vars, Lost

\* A step with which the server gets what the job has taken.
LEMMA ReceivingStep ==
    ASSUME TypeInv, CopiesInv, upload.pc = "send",
           upload'.pc \in {"save", "refused"}, upload'.recs = upload.recs,
           received' = received \cup Taken,
           UNCHANGED <<composing, cache, audited, open, faults>>
    PROVE  Trail!Next
<1> DEFINE rs == Taken \ received
<1>1. Kept = composing \cup In(cache) \cup Taken
      /\ Kept' \in {composing \cup In(cache), Kept}
  BY DEF Kept, Taken
<1>2. rs \in SUBSET Records
  BY KeptRecords
<1>3. Trail!Deliver(rs)
  BY <1>1 DEF Trail!Deliver, Lost
<1> QED
  BY <1>2, <1>3 DEF Trail!Next

LEMMA TrailInit == Init => Trail!Init
BY NoRecords, IdleType DEF Init, Trail!Init, Kept, Lost

LEMMA TrailStep ==
    TypeInv /\ CopiesInv /\ [Next]_vars => [Trail!Next]_(Trail!vars)
<1> SUFFICES ASSUME TypeInv, CopiesInv, [Next]_vars
             PROVE  Trail!Next \/ UNCHANGED Trail!vars
  OBVIOUS
<1>0. /\ cache \in Seq(Records) /\ archive \in Seq(Records)
      /\ upload \in Uploads /\ upload.recs \in Seq(Records)
  BY DEF TypeInv, TypeOK, Uploads
<1>i. Idle.recs = <<>> /\ Idle.pc = "idle" /\ In(<<>>) = {}
  BY NoRecords, IdleType
<1>1. ASSUME NEW r \in Records, AuditBegin(r)
      PROVE  Trail!Next
  <2>1. Kept' = Kept \cup {r} /\ audited' = audited \cup {r} /\ r \notin audited
        /\ UNCHANGED <<received, open, faults>>
    BY <1>1 DEF AuditBegin, Kept, bounds
  <2>2. Trail!Audit(r)
    BY <2>1, KeptRecords DEF Trail!Audit, Lost
  <2> QED
    BY <2>2 DEF Trail!Next
<1>2. ASSUME NEW r \in Records, AuditWrite(r)
      PROVE  Trail!Next \/ UNCHANGED Trail!vars
  <2>1. r \in composing /\ composing' = composing \ {r}
        /\ UNCHANGED <<upload, received, audited, open, faults>>
    BY <1>2 DEF AuditWrite, bounds
  <2>2. CASE open
    <3>1. In(cache') = In(cache) \cup {r}
      BY <1>0, <1>2, <2>2, AppendRecord DEF AuditWrite
    <3>2. Kept' = Kept
      BY <2>1, <3>1 DEF Kept
    <3> QED
      BY <2>1, <3>2, MovingStep
  <2>3. CASE ~open
    <3>1. Kept' \subseteq Kept
      BY <1>2, <2>1, <2>3 DEF AuditWrite, Kept
    <3>2. open' = FALSE
      BY <2>1, <2>3 DEF TypeInv, TypeOK
    <3> QED
      BY <2>1, <3>1, <3>2, DownStep
  <2> QED
    BY <2>2, <2>3 DEF TypeInv, TypeOK
<1>f. ASSUME NEW r \in Records, AuditWriteFails(r)
      PROVE  Trail!Next
  <2>1. Kept' \subseteq Kept /\ faults' = faults + 1 /\ UNCHANGED <<received, audited, open>>
    BY <1>f DEF AuditWriteFails, Kept
  <2> QED
    BY <2>1, FaultStep
<1>3. CASE UploadTake
  <2>1. cache' = <<>> /\ upload'.recs = cache /\ upload'.pc = "send" /\ upload.pc = "idle"
    BY <1>3 DEF UploadTake, UploadReady
  <2>2. UNCHANGED <<composing, received, audited, open, faults>>
    BY <1>3 DEF UploadTake, bounds
  <2>3. Kept' = Kept
    BY <1>i, <2>1, <2>2 DEF Kept
  <2> QED
    BY <2>2, <2>3, MovingStep
<1>4. CASE UploadTakeFails
  <2>1. Kept' \subseteq Kept /\ faults' = faults + 1 /\ UNCHANGED <<received, audited, open>>
    BY <1>i, <1>4 DEF UploadTakeFails, Kept
  <2> QED
    BY <2>1, FaultStep
<1>5. CASE SendConfirmed \/ SendFails
  <2>1. upload.pc = "send" /\ upload'.pc \in {"save", "refused"}
        /\ upload'.recs = upload.recs
    BY <1>0, <1>5 DEF SendConfirmed, SendFails, Uploads, Taken
  <2>2. UNCHANGED <<composing, cache, audited, open, faults>>
    BY <1>5 DEF SendConfirmed, SendFails, bounds
  <2>3. CASE received' = received \cup Taken
    BY <2>1, <2>2, <2>3, ReceivingStep
  <2>4. CASE received' = received /\ upload'.pc = "refused"
    <3>1. Kept' = Kept
      BY <2>1, <2>2, <2>4 DEF Kept
    <3> QED
      BY <2>2, <2>4, <3>1, MovingStep
  <2> QED
    BY <1>0, <1>5, <2>3, <2>4 DEF SendConfirmed, SendFails, Uploads, Taken
<1>6. CASE UploadSave
  <2>1. upload.pc = "save" /\ upload'.pc = "idle"
        /\ UNCHANGED <<composing, cache, received, audited, open, faults>>
    BY <1>i, <1>6 DEF UploadSave, bounds
  <2>2. Kept' = Kept
    BY <2>1 DEF Kept
  <2> QED
    BY <2>1, <2>2, MovingStep
<1>7. CASE UploadBack \/ UploadBackFails
  <2>1. upload.recs # <<>> /\ UNCHANGED <<composing, received, audited, open>>
    BY <1>7 DEF UploadBack, UploadBackFails, TypeInv
  <2>2. /\ upload.pc \in {"refused", "back"}
        /\ \/ upload'.pc = "idle" /\ In(upload.recs) = {Head(upload.recs)}
           \/ /\ upload'.pc = "back" /\ upload'.recs = Tail(upload.recs)
              /\ In(upload.recs) = In(Tail(upload.recs)) \cup {Head(upload.recs)}
    BY <1>i, <1>7, FirstDone
  <2>3. CASE UploadBack /\ open
    <3>1. In(cache') = In(cache) \cup {Head(upload.recs)}
      BY <1>0, <2>1, <2>3, AppendRecord, FirstRecord DEF UploadBack
    <3>2. Kept' = Kept
      BY <2>1, <2>2, <3>1 DEF Kept
    <3>3. faults' = faults
      BY <2>3 DEF UploadBack, bounds
    <3> QED
      BY <2>1, <3>2, <3>3, MovingStep
  <2>4. CASE UploadBack /\ ~open
    <3>1. Kept' \subseteq Kept
      BY <2>1, <2>2, <2>4 DEF UploadBack, Kept
    <3>2. open' = FALSE /\ faults' = faults
      BY <2>1, <2>4 DEF UploadBack, bounds, TypeInv, TypeOK
    <3> QED
      BY <2>1, <3>1, <3>2, DownStep
  <2>5. CASE UploadBackFails
    <3>1. Kept' \subseteq Kept /\ faults' = faults + 1
      BY <2>1, <2>2, <2>5 DEF UploadBackFails, Kept
    <3> QED
      BY <2>1, <3>1, FaultStep
  <2> QED
    BY <1>7, <2>3, <2>4, <2>5
<1>8. CASE Connection \/ ServiceEnds
  <2>1. Kept' = Kept /\ UNCHANGED <<received, audited, open, faults>>
    BY <1>8 DEF Connection, ServiceEnds, Kept, bounds
  <2> QED
    BY <2>1, MovingStep
<1>9. CASE StopAudit \/ Crash
  <2>1. Kept' \subseteq Kept /\ open' = FALSE /\ UNCHANGED <<received, audited, faults>>
    BY <1>i, <1>9 DEF StopAudit, Crash, Kept, bounds
  <2> QED
    BY <2>1, DownStep
<1>10. CASE Start
  <2>1. Trail!Recover
    BY <1>10 DEF Start, Trail!Recover, Kept, Lost
  <2> QED
    BY <2>1 DEF Trail!Next
<1>11. CASE UNCHANGED vars
  <2>1. Kept' = Kept /\ UNCHANGED <<received, audited, open, faults>>
    BY <1>11 DEF vars, Kept, bounds
  <2> QED
    BY <2>1, MovingStep
<1> QED
  BY <1>1, <1>2, <1>f, <1>3, <1>4, <1>5, <1>6, <1>7, <1>8, <1>9, <1>10, <1>11
  DEF Next, Worker, Upload, Service

\* The log keeps the promise of AuditTrail: a record that was audited is pending
\* or received, and is lost only with the log closed or by a read or write that
\* failed, whatever the server does.
THEOREM TrailKept == Spec => KeepsTrail
<1> QED
  BY TypeInvHolds, CopiesInvHolds, TrailInit, TrailStep, PTL
  DEF Spec, KeepsTrail, Trail!Spec

-----------------------------------------------------------------------------
(* What must eventually happen *)

\* The prover knows nothing of ENABLED.  What is on the left is the guard of
\* each of these actions, the rest of it assigns, and upload or connected is not
\* what it was.
StepsEnabled ==
    /\ UploadReady /\ cache # <<>> => ENABLED <<UploadTake>>_vars
    /\ service = "up" /\ ~connected => ENABLED <<Connection /\ ~connected>>_vars
    /\ upload.pc = "send" => ENABLED <<SendConfirmed>>_vars
    /\ upload.pc = "send" => ENABLED <<SendFails>>_vars
    /\ upload.pc = "save" => ENABLED <<UploadSave>>_vars
    /\ upload.pc = "refused" => ENABLED <<UploadBack>>_vars

\* The refused records are appended to the end: they are a finite list, whose
\* length no proof here can count down.
BackEnds == (upload.pc = "back") ~> (upload.pc # "back")

\* A log that is open belongs to a service that runs.
QuietInv == TypeInv /\ CopiesInv /\ (open => service = "up")

LEMMA QuietInvHolds == Spec => []QuietInv
<1>1. Init => (open => service = "up")
  BY DEF Init
<1>2. (open => service = "up") /\ [Next]_vars => (open => service = "up")'
  BY DEF Next, Worker, Upload, Service, AuditBegin, AuditWrite, AuditWriteFails, UploadTake,
     UploadTakeFails, SendConfirmed, SendFails, UploadSave, UploadBack, UploadBackFails,
     Connection, StopAudit, ServiceEnds, Crash, Start, vars
<1> QED
  BY <1>1, <1>2, TypeInvHolds, CopiesInvHolds, PTL DEF Spec, QuietInv

\* A record in the file: it waits for a turn of the job, is on its way to the
\* server, or comes back; or it is over with it.
Over(r) == r \in received \/ ~open \/ r \in Lost
Here(r) == r \in In(cache) \cup Taken
Home(r) == upload.pc = "idle" /\ r \in In(cache)
Sent(r) == upload.pc = "send" /\ r \in Taken
Back(r) == upload.pc \in {"refused", "back"} /\ Here(r)
Round(r) == Home(r) \/ Sent(r) \/ Back(r)

LEMMA RecordMoves ==
    ASSUME QuietInv, [Next]_vars, NEW r \in Records, ~Over(r), ~Over(r)'
    PROVE  /\ Here(r) => Here(r)'
           /\ Home(r) => Home(r)' \/ Sent(r)'
           /\ Home(r) /\ UploadTake => Sent(r)'
           /\ Sent(r) => Sent(r)' \/ Back(r)'
           /\ ~SendConfirmed \/ ~Sent(r)
           /\ Back(r) => Back(r)' \/ Home(r)'
           /\ upload.pc = "send" => upload'.pc \in {"send", "save", "refused"}
           /\ upload.pc = "save" => upload'.pc \in {"save", "idle"}
           /\ upload.pc = "refused" => upload'.pc \in {"refused", "back", "idle"}
           /\ upload.pc = "back" => upload'.pc \in {"back", "idle"}
<1>0. /\ cache \in Seq(Records) /\ upload \in Uploads /\ upload.recs \in Seq(Records)
      /\ upload.pc = "idle" => Taken = {}
      /\ upload.pc # "idle" => upload.recs # <<>>
      /\ upload.pc = "save" => r \notin Taken
      /\ service = "up" /\ open
  BY NoRecords DEF QuietInv, TypeInv, TypeOK, CopiesInv, Uploads, Taken, Over
<1>i. Idle.recs = <<>> /\ Idle.pc = "idle" /\ In(<<>>) = {}
  BY NoRecords, IdleType
<1>8. upload' = upload => ~UploadTake /\ ~SendConfirmed
  <2>1. UploadTake => upload.pc = "idle" /\ upload'.pc = "send"
    BY DEF UploadTake, UploadReady
  <2>2. SendConfirmed => upload.pc = "send" /\ upload'.pc = "save"
    BY <1>0 DEF SendConfirmed, Uploads
  <2> QED
    BY <2>1, <2>2
\* a record in the file is lost when it is nowhere any more
<1>k. Here(r) /\ composing' \subseteq composing /\ audited' = audited => r \in In(cache') \cup Taken'
  <2> SUFFICES ASSUME Here(r), composing' \subseteq composing, audited' = audited
               PROVE  r \in In(cache') \cup Taken'
    OBVIOUS
  <2>1. r \in audited /\ r \notin composing
    BY DEF Here, QuietInv, CopiesInv
  <2>2. r \in Kept'
    BY <2>1 DEF Over, Lost
  <2> QED
    BY <2>1, <2>2 DEF Kept, Taken
<1> USE DEF Here, Home, Sent, Back
<1>1. ASSUME NEW s \in Records, AuditBegin(s) \/ AuditWrite(s) \/ AuditWriteFails(s)
      PROVE  upload' = upload /\ (r \in In(cache) => r \in In(cache'))
  BY <1>0, <1>1, AppendRecord DEF AuditBegin, AuditWrite, AuditWriteFails
<1>2. CASE UploadTake
  BY <1>0, <1>i, <1>2 DEF UploadTake, UploadReady, Taken, SendConfirmed
<1>3. CASE SendConfirmed \/ SendFails
  <2>1. upload.pc = "send" /\ upload'.recs = upload.recs /\ cache' = cache
        /\ upload'.pc \in {"save", "refused"}
    BY <1>0, <1>3 DEF SendConfirmed, SendFails, Uploads
  <2>2. SendConfirmed => ~Sent(r)
    BY DEF SendConfirmed, Over, Taken
  <2>3. ~UploadTake
    BY <2>1 DEF UploadTake, UploadReady
  <2>4. upload'.pc = "save" => SendConfirmed
    BY <1>0, <1>3 DEF SendFails, Uploads
  <2> QED
    BY <2>1, <2>2, <2>3, <2>4 DEF Taken
<1>4. CASE UploadSave
  BY <1>0, <1>i, <1>4 DEF UploadSave, Taken, SendConfirmed, UploadTake, UploadReady
<1>5. CASE UploadBack \/ UploadBackFails
  <2>1. /\ upload.pc \in {"refused", "back"}
        /\ \/ upload'.pc = "idle" /\ In(upload.recs) = {Head(upload.recs)}
           \/ /\ upload'.pc = "back" /\ upload'.recs = Tail(upload.recs)
              /\ In(upload.recs) = In(Tail(upload.recs)) \cup {Head(upload.recs)}
    BY <1>i, <1>5, FirstDone DEF QuietInv
  <2>2. CASE UploadBack
    <3>1. In(cache') = In(cache) \cup {Head(upload.recs)}
      BY <1>0, <2>1, <2>2, AppendRecord, FirstRecord DEF UploadBack
    <3> QED
      BY <2>1, <3>1 DEF Taken, SendConfirmed, UploadTake, UploadReady
  <2>3. CASE UploadBackFails
    <3>1. cache' = cache /\ composing' = composing /\ audited' = audited
      BY <2>3 DEF UploadBackFails
    <3>2. Here(r) => r \in In(cache') \cup Taken'
      BY <1>k, <3>1
    <3>3. upload'.pc = "idle" => Taken' = {}
      BY <1>5, <1>i, <2>1, FirstDone DEF QuietInv, Taken
    <3> QED
      BY <2>1, <3>1, <3>2, <3>3 DEF Taken, SendConfirmed, UploadTake, UploadReady
  <2> QED
    BY <1>5, <2>2, <2>3
<1>6. CASE StopAudit \/ Crash
  BY <1>6 DEF StopAudit, Crash, Over
<1>f. CASE UploadTakeFails
  <2>1. upload' = upload /\ composing' = composing /\ audited' = audited /\ upload.pc = "idle"
        /\ In(cache') = {}
    BY <1>i, <1>f DEF UploadTakeFails, UploadReady
  <2>2. ~Here(r)
    BY <1>0, <1>k, <2>1 DEF Taken
  <2> QED
    BY <1>8, <2>1, <2>2
<1>7. CASE Connection \/ ServiceEnds \/ Start \/ UNCHANGED vars
  <2>1. upload' = upload /\ cache' = cache
    BY <1>7 DEF Connection, ServiceEnds, Start, vars
  <2> QED
    BY <1>0, <1>8, <2>1 DEF Taken, Uploads
<1> QED
  BY <1>0, <1>1, <1>2, <1>3, <1>4, <1>5, <1>6, <1>7, <1>8, <1>f
  DEF Next, Worker, Upload, Service, Taken, Uploads

\* The job comes back to its wait.
LEMMA JobComesBack ==
    ASSUME NEW r \in Records
    PROVE  FairSpec /\ []StepsEnabled /\ BackEnds => (Here(r) ~> Home(r) \/ Sent(r) \/ Over(r))
<1>1. FairSpec => /\ []QuietInv /\ [][Next]_vars
                  /\ WF_vars(SendFails) /\ WF_vars(UploadSave) /\ WF_vars(UploadBack)
  BY QuietInvHolds, PTL DEF FairSpec, Spec
<1>2. QuietInv /\ [Next]_vars /\ ~Over(r) =>
          \/ Over(r)'
          \/ /\ Here(r) => Here(r)'
             /\ upload.pc = "send" => upload'.pc \in {"send", "save", "refused"}
             /\ upload.pc = "save" => upload'.pc \in {"save", "idle"}
             /\ upload.pc = "refused" => upload'.pc \in {"refused", "back", "idle"}
             /\ upload.pc = "back" => upload'.pc \in {"back", "idle"}
  BY RecordMoves
<1>3. QuietInv /\ [Next]_vars /\ ~Over(r) =>
          \/ Over(r)'
          \/ /\ Here(r) => Here(r)'
             /\ upload.pc = "send" => (upload.pc = "send")' \/ (upload.pc = "save")' \/ (upload.pc = "refused")'
             /\ upload.pc = "save" => (upload.pc = "save")' \/ (upload.pc = "idle")'
             /\ upload.pc = "refused"
                    => (upload.pc = "refused")' \/ (upload.pc = "back")' \/ (upload.pc = "idle")'
             /\ upload.pc = "back" => (upload.pc = "back")' \/ (upload.pc = "idle")'
  BY <1>2
<1>4. /\ QuietInv /\ <<SendFails>>_vars => (upload.pc = "refused")'
      /\ QuietInv /\ <<UploadSave>>_vars => (upload.pc = "idle")'
      /\ QuietInv /\ <<UploadBack>>_vars => (upload.pc = "idle")' \/ (upload.pc = "back")'
  BY IdleType, FirstDone DEF SendFails, UploadSave, QuietInv, TypeInv, TypeOK
<1>5. StepsEnabled =>
          /\ upload.pc = "send" => ENABLED <<SendFails>>_vars
          /\ upload.pc = "save" => ENABLED <<UploadSave>>_vars
          /\ upload.pc = "refused" => ENABLED <<UploadBack>>_vars
  BY DEF StepsEnabled
<1>6. QuietInv => \/ upload.pc = "idle" \/ upload.pc = "send" \/ upload.pc = "save"
                  \/ upload.pc = "refused" \/ upload.pc = "back"
  BY DEF QuietInv, TypeInv, TypeOK
<1>7. QuietInv /\ Here(r) /\ upload.pc = "idle" => Home(r)
  BY NoRecords DEF QuietInv, TypeInv, Here, Home, Taken
<1>8. FairSpec /\ []StepsEnabled =>
          (Here(r) /\ upload.pc = "send" ~> \/ Here(r) /\ upload.pc = "save"
                                            \/ Here(r) /\ upload.pc = "refused"
                                            \/ Over(r))
  BY <1>1, <1>3, <1>4, <1>5, PTL
<1>9. FairSpec /\ []StepsEnabled =>
          (Here(r) /\ upload.pc = "save" ~> (Here(r) /\ upload.pc = "idle") \/ Over(r))
  BY <1>1, <1>3, <1>4, <1>5, PTL
<1>10. FairSpec /\ []StepsEnabled =>
          (Here(r) /\ upload.pc = "refused" ~> \/ Here(r) /\ upload.pc = "idle"
                                               \/ Here(r) /\ upload.pc = "back"
                                               \/ Over(r))
  BY <1>1, <1>3, <1>4, <1>5, PTL
<1>11. FairSpec /\ []StepsEnabled /\ BackEnds =>
          (Here(r) /\ upload.pc = "back" ~> (Here(r) /\ upload.pc = "idle") \/ Over(r))
  <2>1. upload.pc # "back" => ~(upload.pc = "back")
    OBVIOUS
  <2> QED
    BY <1>1, <1>3, <2>1, PTL DEF BackEnds
<1> QED
  BY <1>1, <1>6, <1>7, <1>8, <1>9, <1>10, <1>11, PTL

\* A record in the file reaches the server in the end, however often the server
\* is not reached or its confirmation is lost, unless the log is closed or a
\* fault has cost this record.
Arrives(r) == (r \in In(cache)) ~> (r \in received \/ ~open \/ r \in Lost)

LEMMA RecordArrives ==
    ASSUME NEW r \in Records
    PROVE  FairSpec /\ []StepsEnabled /\ BackEnds => Arrives(r)
<1>1. FairSpec => /\ []QuietInv /\ [][Next]_vars /\ WF_vars(Connection /\ ~connected)
                  /\ SF_vars(UploadTake) /\ SF_vars(SendConfirmed)
  BY QuietInvHolds, PTL DEF FairSpec, Spec
\* where the record goes
<1>2. QuietInv /\ [Next]_vars /\ ~Over(r) =>
          \/ Over(r)'
          \/ /\ Here(r) => Here(r)'
             /\ Home(r) => Home(r)' \/ Sent(r)'
             /\ Sent(r) => Sent(r)' \/ Back(r)'
             /\ Back(r) => Back(r)' \/ Home(r)'
  BY RecordMoves
<1>3. QuietInv /\ [Next]_vars /\ ~Over(r) =>
          /\ <<UploadTake>>_vars => Over(r)' \/ ~Home(r) \/ Sent(r)'
          /\ <<SendConfirmed>>_vars => Over(r)' \/ ~Sent(r)
  BY RecordMoves
<1>4. QuietInv /\ StepsEnabled /\ ~Over(r) =>
          /\ Home(r) /\ connected => ENABLED <<UploadTake>>_vars
          /\ ~connected => ENABLED <<Connection /\ ~connected>>_vars
          /\ Sent(r) => ENABLED <<SendConfirmed>>_vars
  <2> SUFFICES ASSUME QuietInv, StepsEnabled, ~Over(r)
               PROVE  /\ Home(r) /\ connected => ENABLED <<UploadTake>>_vars
                      /\ ~connected => ENABLED <<Connection /\ ~connected>>_vars
                      /\ Sent(r) => ENABLED <<SendConfirmed>>_vars
    OBVIOUS
  <2>1. service = "up" /\ open
    BY DEF QuietInv, Over
  <2>2. Home(r) => cache # <<>>
    BY NoRecords DEF Home
  <2> QED
    BY <2>1, <2>2 DEF StepsEnabled, UploadReady, Home, Sent
<1>5. QuietInv /\ <<Connection /\ ~connected>>_vars => connected'
  BY DEF Connection, QuietInv, TypeInv, TypeOK
<1>s. <<SendConfirmed>>_vars => ~Home(r) /\ ~Back(r)
  BY DEF SendConfirmed, Home, Back
\* waiting for a turn, it is taken; sent again and again, it is confirmed
<1>6. FairSpec /\ []StepsEnabled => (Home(r) ~> Sent(r) \/ Over(r))
  BY <1>1, <1>2, <1>3, <1>4, <1>5, PTL
<1>7. Sent(r) => Here(r)
  BY DEF Sent, Here
<1>8. Back(r) => Here(r)
  BY DEF Back, Here
<1>9. FairSpec /\ []StepsEnabled /\ BackEnds => (Here(r) ~> Sent(r) \/ Over(r))
  BY <1>6, JobComesBack, PTL
<1>10. FairSpec /\ []StepsEnabled /\ BackEnds => (Here(r) ~> Over(r))
  BY <1>1, <1>2, <1>3, <1>4, <1>7, <1>8, <1>9, <1>s, PTL
<1>11. r \in In(cache) => Here(r)
  BY DEF Here
<1>12. Over(r) => r \in received \/ ~open \/ r \in Lost
  BY DEF Over
<1> QED
  BY <1>10, <1>11, <1>12, PTL DEF Arrives

\* Every record that has got into the list reaches the server, whatever refusals,
\* failed calls and lost confirmations come first, unless the log is closed or a
\* fault of the file costs this very record: for any set of records.
THEOREM EveryRecordArrives == FairSpec /\ []StepsEnabled /\ BackEnds => RecordsArrive
<1>1. FairSpec /\ []StepsEnabled /\ BackEnds => (\A r \in Records : Arrives(r))
  BY RecordArrives
<1> QED
  BY <1>1 DEF RecordsArrive, Arrives
=============================================================================
