--------------------------- MODULE FrozenSchedule ---------------------------
(***************************************************************************)
(* What the ledger of a campaign promises to whoever evaluates it: every   *)
(* slot of every scope is decided at most once and in order; a slot is     *)
(* attempted only inside its own interval and given up only after it; a    *)
(* decision never changes; and after the campaign is closed, which is not  *)
(* possible before the last slot has elapsed, nothing is decided any more. *)
(* Who decides, with which locks and after which failures, is not said.    *)
(***************************************************************************)
EXTENDS Naturals, Sequences

CONSTANTS Scopes, Slots, Interval

VARIABLES now, decided, closed

svars == <<now, decided, closed>>

Opens(k) == Interval * k
Elapses(k) == Interval * k + Interval

Missed == [outcome |-> "missed", at |-> 0]
Attempts(k) == [outcome : {"success", "failure"}, at : Opens(k)..Elapses(k)]

Init == now = 0 /\ decided = [s \in Scopes |-> <<>>] /\ closed = FALSE

Tick == now' = now + 1 /\ UNCHANGED <<decided, closed>>

(* The next slots of s are decided together: any number of elapsed slots   *)
(* is given up, and after them at most one slot that has been attempted.   *)
Decide(s) ==
    LET n == Len(decided[s])
        m == Len(decided'[s])
        new == decided'[s]
    IN  /\ ~closed
        /\ m \in (n + 1)..Slots
        /\ \A k \in 1..n : new[k] = decided[s][k]
        /\ \A k \in (n + 1)..m :
              \/ new[k] = Missed /\ now > Elapses(k)
              \/ new[k] \in Attempts(k) /\ new[k].at <= now /\ k = m
        /\ \A r \in Scopes \ {s} : decided'[r] = decided[r]
        /\ UNCHANGED <<now, closed>>

Close ==
    /\ ~closed
    /\ now >= Elapses(Slots)
    /\ closed' = TRUE
    /\ UNCHANGED <<now, decided>>

Next == Tick \/ Close \/ \E s \in Scopes : Decide(s)

Spec == Init /\ [][Next]_svars
=============================================================================
