-------------------------- MODULE MCServiceControl --------------------------
(* Two sessions, two logons and two pauses; the SCM holds two notifications. *)
EXTENDS ServiceControl
=============================================================================
