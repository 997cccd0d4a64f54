---------------------------- MODULE AlertPromise ----------------------------
(***************************************************************************)
(* What the alert outbox promises to the consumer of standard output and   *)
(* to whoever reads the outcomes: an alert is settled at most once and     *)
(* never unsettled, and it counts as delivered only if it has been         *)
(* written.  How often it is written is not promised: the consumer removes *)
(* duplicates by the idempotency key.                                      *)
(***************************************************************************)
EXTENDS Naturals

CONSTANT MaxAlerts

VARIABLES queued, emitted, settled

pvars == <<queued, emitted, settled>>

Alerts == 1..MaxAlerts
Verdicts == {"delivered", "permanent_failure", "expired"}

Init ==
    /\ queued = 0
    /\ emitted = {}
    /\ settled = [a \in Alerts |-> "pending"]

Enqueue ==
    /\ queued < MaxAlerts
    /\ queued' = queued + 1
    /\ UNCHANGED <<emitted, settled>>

Emit(a) ==
    /\ a <= queued
    /\ emitted' = emitted \union {a}
    /\ UNCHANGED <<queued, settled>>

Settle(a, verdict) ==
    /\ a <= queued
    /\ settled[a] = "pending"
    /\ verdict = "delivered" => a \in emitted
    /\ settled' = [settled EXCEPT ![a] = verdict]
    /\ UNCHANGED <<queued, emitted>>

Next ==
    \/ Enqueue
    \/ \E a \in Alerts : Emit(a) \/ \E verdict \in Verdicts : Settle(a, verdict)

Spec == Init /\ [][Next]_pvars
=============================================================================
