------------------------------ MODULE MCJobPool ------------------------------
(* The four jobs of the service, a few triggers of the heartbeat. *)
EXTENDS JobPool
=============================================================================
