----------------------------- MODULE AuditUpload -----------------------------
(***************************************************************************)
(* The audit log of the service (serv_audit) and its upload.               *)
(*                                                                         *)
(* Worker threads of the filter driver's queue append records to the file  *)
(* audit.cache.  The audit job takes all of them out, sends them to the    *)
(* server and archives them, or appends them again when the server did not *)
(* confirm.  OnStop joins the workers, closes the log and then waits for   *)
(* the job.  _cache_lock is held across the appending of refused records   *)
(* and within single steps otherwise.  Records are written through to the  *)
(* disk; nobody looks whether a write succeeded.                           *)
(***************************************************************************)
EXTENDS Naturals, Sequences

CONSTANTS Records,      \* audited evaluations
          MaxRestarts,  \* bound: starts of the service after the first
          MaxFaults     \* bound: reads and writes of the cache file that fail

ASSUME AuditConstants ==
    /\ MaxRestarts \in Nat
    /\ MaxFaults \in Nat

VARIABLES
    service,    \* up, stopping (the log is closed), down
    open,       \* _writer and _archiver are open
    connected,  \* GLOBAL.connected()
    composing,  \* records of worker threads inside serv_audit::audit
    cache,      \* audit.cache
    upload,     \* the audit job: where it is, and the records it has taken
    received,   \* records the server has
    archive,    \* the daily logs
    audited,    \* history: records of calls that found the log open
    restarts,   \* starts so far
    faults      \* failed reads and writes so far

bounds == <<restarts, faults>>
vars == <<service, open, connected, composing, cache, upload, received, archive,
          audited, bounds>>

-----------------------------------------------------------------------------
In(seq) == {seq[i] : i \in DOMAIN seq}
Idle == [pc |-> "idle", recs |-> <<>>]
LockHeld == upload.pc = "back"

TypeOK ==
    /\ service \in {"up", "stopping", "down"}
    /\ open \in BOOLEAN
    /\ connected \in BOOLEAN
    /\ composing \subseteq Records
    /\ cache \in Seq(Records)
    /\ upload \in [pc : {"idle", "send", "save", "refused", "back"}, recs : Seq(Records)]
    /\ received \subseteq Records
    /\ archive \in Seq(Records)
    /\ audited \subseteq Records
    /\ restarts \in 0..MaxRestarts
    /\ faults \in 0..MaxFaults

\* serv_audit::start has opened the files.
Init ==
    /\ service = "up"
    /\ open = TRUE
    /\ connected = FALSE
    /\ composing = {}
    /\ cache = <<>>
    /\ upload = Idle
    /\ received = {}
    /\ archive = <<>>
    /\ audited = {}
    /\ restarts = 0
    /\ faults = 0

-----------------------------------------------------------------------------
(* serv_audit::audit on a worker thread *)

\* The file is open: the record is put together, without the lock.
AuditBegin(r) ==
    /\ service = "up"
    /\ open
    /\ r \notin audited
    /\ audited' = audited \cup {r}
    /\ composing' = composing \cup {r}
    /\ UNCHANGED <<service, open, connected, cache, upload, received, archive, bounds>>

AuditWrite(r) ==
    /\ r \in composing
    /\ ~LockHeld
    /\ composing' = composing \ {r}
    /\ cache' = IF open THEN Append(cache, r) ELSE cache
    /\ UNCHANGED <<service, open, connected, upload, received, archive, audited, bounds>>

\* WriteFile fails, or putting the record together throws: the result is not
\* looked at, the exception is swallowed, and the record is gone.
AuditWriteFails(r) ==
    /\ r \in composing
    /\ ~LockHeld
    /\ faults < MaxFaults
    /\ faults' = faults + 1
    /\ composing' = composing \ {r}
    /\ UNCHANGED <<service, open, connected, cache, upload, received, archive, audited, restarts>>

-----------------------------------------------------------------------------
(* serv_audit::upload in the audit job *)

UploadReady == upload.pc = "idle" /\ open /\ connected

\* get_upload_records: the file is read and truncated under the lock.
UploadTake ==
    /\ UploadReady
    /\ cache # <<>>
    /\ upload' = [pc |-> "send", recs |-> cache]
    /\ cache' = <<>>
    /\ UNCHANGED <<service, open, connected, composing, received, archive, audited, bounds>>

\* get_lines returns nothing when ReadFile fails; the file is truncated all the
\* same.
UploadTakeFails ==
    /\ UploadReady
    /\ cache # <<>>
    /\ faults < MaxFaults
    /\ faults' = faults + 1
    /\ cache' = <<>>
    /\ UNCHANGED <<service, open, connected, composing, upload, received, archive, audited, restarts>>

\* The server has the records and says so.
SendConfirmed ==
    /\ upload.pc = "send"
    /\ received' = received \cup In(upload.recs)
    /\ connected' = TRUE
    /\ upload' = [upload EXCEPT !.pc = "save"]
    /\ UNCHANGED <<service, open, composing, cache, archive, audited, bounds>>

\* The server is not reached, refuses, or its confirmation is lost.
SendFails ==
    /\ upload.pc = "send"
    /\ received' \in {received, received \cup In(upload.recs)}
    /\ connected' \in BOOLEAN
    /\ upload' = [upload EXCEPT !.pc = "refused"]
    /\ UNCHANGED <<service, open, composing, cache, archive, audited, bounds>>

\* Mutant: confirmed records go back to the cache as well.
UploadSaveAndKeep ==
    /\ upload.pc = "save"
    /\ archive' = IF open THEN archive \o upload.recs ELSE archive
    /\ cache' = IF open /\ Len(archive) < 6 THEN cache \o upload.recs ELSE cache
    /\ upload' = Idle
    /\ UNCHANGED <<service, open, connected, composing, received, audited, bounds>>

\* Mutant: the job does not finish its turn.
UploadSaveUnfinished ==
    /\ upload.pc = "save"
    /\ archive' = IF open THEN archive \o upload.recs ELSE archive
    /\ upload' = [upload EXCEPT !.pc = "saved"]
    /\ UNCHANGED <<service, open, connected, composing, cache, received, audited, bounds>>

\* A daily log that could not be opened takes nothing.
UploadSave ==
    /\ upload.pc = "save"
    /\ archive' \in {archive} \cup (IF open THEN {archive \o upload.recs} ELSE {})
    /\ upload' = Idle
    /\ UNCHANGED <<service, open, connected, composing, cache, received, audited, bounds>>

\* Mutant: only the first of the refused records is appended.
UploadBackOne ==
    /\ upload.pc \in {"refused", "back"}
    /\ cache' = IF open THEN Append(cache, Head(upload.recs)) ELSE cache
    /\ upload' = Idle
    /\ UNCHANGED <<service, open, connected, composing, received, archive, audited, bounds>>

AfterFirst == IF Len(upload.recs) = 1 THEN Idle
              ELSE [pc |-> "back", recs |-> Tail(upload.recs)]

\* The refused records are appended again, one by one under the lock; writing
\* to a closed file does nothing.
UploadBack ==
    /\ upload.pc \in {"refused", "back"}
    /\ cache' = IF open THEN Append(cache, Head(upload.recs)) ELSE cache
    /\ upload' = AfterFirst
    /\ UNCHANGED <<service, open, connected, composing, received, archive, audited, bounds>>

\* The write fails and nobody looks.
UploadBackFails ==
    /\ upload.pc \in {"refused", "back"}
    /\ faults < MaxFaults
    /\ faults' = faults + 1
    /\ upload' = AfterFirst
    /\ UNCHANGED <<service, open, connected, composing, cache, received, archive, audited, restarts>>

\* Mutant: a request that reaches the server again goes unnoticed.
ConnectionLost ==
    /\ service = "up"
    /\ connected
    /\ connected' = FALSE
    /\ UNCHANGED <<service, open, composing, cache, upload, received, archive, audited, bounds>>

\* The other jobs' requests reach the server, or do not.
Connection ==
    /\ service = "up"
    /\ connected' = ~connected
    /\ UNCHANGED <<service, open, composing, cache, upload, received, archive, audited, bounds>>

-----------------------------------------------------------------------------
(* Start, stop and crash of the service *)

\* OnStop: the workers have been joined; serv_audit::stop closes the files.
StopAudit ==
    /\ service = "up"
    /\ composing = {}
    /\ ~LockHeld
    /\ service' = "stopping"
    /\ open' = FALSE
    /\ UNCHANGED <<connected, composing, cache, upload, received, archive, audited, bounds>>

\* job_pool::clear has joined the audit job.
ServiceEnds ==
    /\ service = "stopping"
    /\ upload.pc = "idle"
    /\ service' = "down"
    /\ UNCHANGED <<open, connected, composing, cache, upload, received, archive, audited, bounds>>

Crash ==
    /\ service # "down"
    /\ service' = "down"
    /\ open' = FALSE
    /\ composing' = {}
    /\ upload' = Idle
    /\ UNCHANGED <<connected, cache, received, archive, audited, bounds>>

\* Mutant: the cache file is created anew.
StartTruncating ==
    /\ service = "down"
    /\ restarts < MaxRestarts
    /\ restarts' = restarts + 1
    /\ service' = "up"
    /\ open' = TRUE
    /\ connected' = FALSE
    /\ cache' = <<>>
    /\ UNCHANGED <<composing, upload, received, archive, audited, faults>>

\* serv_audit::start: OPEN_ALWAYS, at the end of the file.
Start ==
    /\ service = "down"
    /\ restarts < MaxRestarts
    /\ restarts' = restarts + 1
    /\ service' = "up"
    /\ open' = TRUE
    /\ connected' = FALSE
    /\ UNCHANGED <<composing, cache, upload, received, archive, audited, faults>>

Worker(r) == AuditBegin(r) \/ AuditWrite(r) \/ AuditWriteFails(r)
Upload == \/ UploadTake \/ UploadTakeFails \/ SendConfirmed \/ SendFails
          \/ UploadSave \/ UploadBack \/ UploadBackFails
Service == Connection \/ StopAudit \/ ServiceEnds \/ Crash \/ Start

Next == (\E r \in Records : Worker(r)) \/ Upload \/ Service
Spec == Init /\ [][Next]_vars

\* The audit job runs at every interval; a server that is asked again and again
\* is reached and confirms again and again.
FairSpec == /\ Spec
            /\ \A r \in Records : WF_vars(AuditWrite(r))
            /\ WF_vars(Connection /\ ~connected) /\ SF_vars(UploadTake)
            /\ SF_vars(SendConfirmed) /\ WF_vars(SendFails)
            /\ WF_vars(UploadSave) /\ WF_vars(UploadBack)

-----------------------------------------------------------------------------
(* Properties *)

\* The copies of a record: being put together, in the cache, or taken out of it
\* and not yet known to be received.
Kept == composing \cup In(cache) \cup
        (IF upload.pc \in {"send", "refused", "back"} THEN In(upload.recs) ELSE {})

Lost == audited \ (Kept \cup received)

\* The log keeps the promise of AuditTrail: nothing is lost while the service
\* runs undisturbed and its file can be read and written, whatever the server
\* does (audit.cpp 308-485).
Trail == INSTANCE AuditTrail WITH
             pending <- Kept \ received,
             delivered <- received,
             lost <- Lost,
             running <- open
KeepsTrail == Trail!Spec

\* The archive has what the server confirmed, and a record once, however often
\* it was sent (audit.cpp 468-471: "append to saver").
Once(seq) == \A i, j \in DOMAIN seq : seq[i] = seq[j] => i = j
ArchivedOnce == In(archive) \subseteq received /\ Once(archive)

\* A record in the file reaches the server in the end, unless the log is closed
\* first or a fault of the file has cost this record: no other record's fault
\* holds it up (audit.cpp 452-485).
RecordsArrive == \A r \in Records : (r \in In(cache)) ~> (r \in received \/ ~open \/ r \in Lost)
=============================================================================
