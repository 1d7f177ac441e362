---------------------------- MODULE MCAuditUpload ----------------------------
(* Three records: two can be refused together while a third one is written. *)
EXTENDS AuditUpload
=============================================================================
