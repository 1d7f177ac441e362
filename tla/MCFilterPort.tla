---------------------------- MODULE MCFilterPort ----------------------------
(***************************************************************************)
(* A service with two workers and two threads of nxrmfltman.               *)
(***************************************************************************)
EXTENDS FilterPort

MCCalls == 1..2
MCPortThreads == {"p1", "p2"}
MCWorkers == {"w1", "w2"}
MCNoCall == 0
=============================================================================
