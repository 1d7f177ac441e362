--------------------------- MODULE MCRightsRefresh ---------------------------
(***************************************************************************)
(* One session with one process, one thread that checks rights, users who  *)
(* log on in turn; in MCRightsRefresh.cfg a worker of the core driver's    *)
(* queue that logs them off beside the control pipe.                       *)
(***************************************************************************)
EXTENDS RightsRefresh
CONSTANTS s1
MCSessionOf == [p \in Procs |-> s1]
=============================================================================
