----------------------- MODULE CampaignLedgerInvariant -----------------------
(***************************************************************************)
(* The inductive invariant of CampaignLedger: why the campaign lock is     *)
(* enough for the ledger, and the checkpoint for the final report.         *)
(***************************************************************************)
EXTENDS CampaignLedger

InTransaction == {"insert", "commit"} \union Executing

(* A worker executes a slot of the schedule, whether its session lives or  *)
(* not.                                                                    *)
ExecutesSlot ==
    \A p \in Workers :
        pc[p] \in Executing \union {"insert"} => tx[p].seq \in 1..Slots

(* A session that is alive and past the lock request holds the lock.       *)
LockHeld ==
    /\ \A p \in Workers :
          /\ pc[p] \in {"locking", "planning", "commit"} => tx[p].live
          /\ pc[p] \in {"planning"} \union InTransaction /\ tx[p].live => lock = p
    /\ \A r \in Reporters : rpc[r] \in {"storeInsert", "storeCommit"} => lock = r

(* At time t the frozen schedule allows this row for slot k.               *)
RowOfSlot(row, k, t) ==
    \/ row.outcome = "missed" /\ row.startedAt = 0 /\ t > SlotEnd(k)
    \/ /\ row.outcome \in {"success", "failure"}
       /\ row.startedAt \in Expected(k)..SlotEnd(k)
       /\ row.startedAt <= t

(* Rows that decide the slots after the n-th; an attempt can only be the   *)
(* last of them, once it is done.                                          *)
Continues(rows, n, t, done) ==
    /\ n + Len(rows) <= Slots
    /\ \A i \in 1..Len(rows) :
          /\ RowOfSlot(rows[i], n + i, t)
          /\ rows[i].outcome # "missed" => done /\ i = Len(rows)

(* The uncommitted rows of a live session continue the ledger.             *)
RowsContinueLedger ==
    \A p \in Workers : tx[p].live /\ pc[p] \in InTransaction =>
        LET n == Len(cycles[tx[p].scope])
        IN  /\ Continues(tx[p].rows, n, now, pc[p] = "commit")
            /\ IF pc[p] = "commit"
               THEN tx[p].rows # <<>> /\ reports = {}
               ELSE tx[p].seq = n + Len(tx[p].rows) + 1

(* A report about to be committed is the first one, and no reporter is     *)
(* active before the grace is over.                                        *)
ReportIsFirst ==
    \A r \in Reporters :
        /\ rpc[r] # "idle" => now >= GraceEnd
        /\ rpc[r] = "storeCommit" => reports = {}

(* From the first checkpoint of a reporter on, no attempt is in flight     *)
(* that started before the grace was over.                                 *)
Reporting == {"build", "store", "storeLock", "storeInsert", "storeCommit"}
LateStart(row) == row.outcome # "missed" => row.startedAt >= GraceEnd
AttemptsAreLate ==
    reports # {} \/ (\E r \in Reporters : rpc[r] \in Reporting) =>
        /\ now >= GraceEnd
        /\ \A p \in Workers : tx[p].live =>
              /\ pc[p] \in Executing \union {"insert"} => tx[p].startedAt >= GraceEnd
              /\ pc[p] = "commit" => \A row \in Range(tx[p].rows) : LateStart(row)

(* What a reporter has built contains every early attempt of the ledger.   *)
Covers(attempts) ==
    \A s \in Scopes : \A row \in AttemptsOf(cycles)[s] :
        row.startedAt < GraceEnd => row \in attempts[s]
BuiltCoversAttempts ==
    \A r \in Reporters :
        rpc[r] \in Reporting \ {"build"} => Covers(rtx[r].built.attempts)

(* The strengthening that every step preserves.                            *)
LedgerInvariant ==
    /\ ExecutesSlot
    /\ LockHeld
    /\ RowsContinueLedger
    /\ ReportIsFirst
    /\ AttemptsAreLate
    /\ BuiltCoversAttempts
=============================================================================
