---------------------------- MODULE MCSessionApp ----------------------------
(***************************************************************************)
(* One tray of an earlier service, or none, and the trays of the keeper,   *)
(* of which one runs at a time.                                            *)
(***************************************************************************)
EXTENDS SessionApp

MCTrays == {1, 2, 3}
MCNoTray == 0
=============================================================================
