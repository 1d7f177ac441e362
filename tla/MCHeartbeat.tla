----------------------------- MODULE MCHeartbeat -----------------------------
(***************************************************************************)
(* A user of RMS and one of Windows, whose first logons interleave, and    *)
(* two sessions that ask for updates: two of these triggers in a run.      *)
(***************************************************************************)
EXTENDS Heartbeat
=============================================================================
