---------------------------- MODULE MCProcessList ----------------------------
(***************************************************************************)
(* A process id that is used twice, two threads, two nodes: one node may   *)
(* be in the list, or with one thread, while the other thread has its own. *)
(***************************************************************************)
EXTENDS ProcessList

MCProcs == {"p"}
MCFiles == {"f"}
MCNoProc == "no process"
MCNoNode == 0
=============================================================================
