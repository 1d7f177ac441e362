----------------------------- MODULE AuditTrail -----------------------------
(***************************************************************************)
(* What the audit log promises about each record: once audited it is       *)
(* pending until the server has it, it is never taken back from the        *)
(* server, and it is lost only when the log closes, while it is closed, or *)
(* by a fault of its file.                                                 *)
(***************************************************************************)
EXTENDS Naturals

CONSTANT Records

VARIABLES pending, delivered, lost, running, faults
vars == <<pending, delivered, lost, running, faults>>

Init ==
    /\ pending = {}
    /\ delivered = {}
    /\ lost = {}
    /\ running = TRUE
    /\ faults = 0

\* A record is audited once.
Audit(r) ==
    /\ r \in Records \ (pending \cup delivered \cup lost)
    /\ pending' = pending \cup {r}
    /\ UNCHANGED <<delivered, lost, running, faults>>

Deliver(rs) ==
    /\ rs \subseteq pending
    /\ pending' = pending \ rs
    /\ delivered' = delivered \cup rs
    /\ UNCHANGED <<lost, running, faults>>

Lose(rs) ==
    /\ rs \subseteq pending
    /\ pending' = pending \ rs
    /\ lost' = lost \cup rs
    /\ UNCHANGED delivered

\* A read or write that fails may cost records, once.
Fault(rs) == Lose(rs) /\ faults' = faults + 1 /\ UNCHANGED running

\* The log closes, or is closed.
Down(rs) == Lose(rs) /\ running' = FALSE /\ UNCHANGED faults

Recover ==
    /\ running' = TRUE
    /\ UNCHANGED <<pending, delivered, lost, faults>>

Next == \/ \E r \in Records : Audit(r)
        \/ \E rs \in SUBSET Records : Deliver(rs) \/ Fault(rs) \/ Down(rs)
        \/ Recover
Spec == Init /\ [][Next]_vars
=============================================================================
