--------------------------- MODULE CampaignLedger ---------------------------
(***************************************************************************)
(* The PostgreSQL ledger of one frozen T4 observation campaign, and the    *)
(* three kinds of clients that write it:                                   *)
(*                                                                         *)
(*  - workers, the processes of `observe-run` (cli.py,                     *)
(*    _run_observation_cycle_command), each of which executes              *)
(*    ObservationRepository.run_cycle once per Begin;                      *)
(*  - reporters, the processes of `observe-report`                         *)
(*    (_run_observation_report_command, store_final_report);               *)
(*  - the evidence verifier, which imports signed bridge events            *)
(*    (record_verified_t4_bridge_observation_event).                       *)
(*                                                                         *)
(* One step is one SQL statement, one commit, or one step of the executor  *)
(* callback that commits in a transaction of its own.  Campaign time is an *)
(* integer that starts at 0 with the campaign.                             *)
(*                                                                         *)
(* The advisory lock of the scope is always taken with the campaign lock   *)
(* held (observation.py:987-994, 0018:2471-2476), so it is never contended *)
(* and is not represented.                                                 *)
(***************************************************************************)
EXTENDS Naturals, Sequences, FiniteSets, Functions

CONSTANTS
    Workers,     \* processes that run observe-run
    Reporters,   \* processes that run observe-report
    Scopes,      \* the frozen scope manifest of the campaign
    Slots,       \* number of scheduled slots of each scope
    Interval,    \* cycle_interval_seconds, in ticks
    MaxTime,     \* bound: the clock stops here
    MaxEvents,   \* bound: signed bridge events imported
    NoProc       \* nobody holds the campaign lock

ASSUME ScopesAssumption == Scopes # {}
ASSUME SlotsAssumption == Slots \in Nat \ {0}
ASSUME IntervalAssumption == Interval \in Nat \ {0}
ASSUME BoundAssumption == MaxTime \in Nat /\ MaxEvents \in Nat
ASSUME ProcAssumption == /\ NoProc \notin Workers \union Reporters
                         /\ Workers \intersect Reporters = {}

VARIABLES
    now,      \* clock_timestamp() of the database server
    cycles,   \* committed rows of t4_observation_cycles, by scope
    runs,     \* committed research run of each trace
    batches,  \* traces whose T4 batch has been ingested
    events,   \* committed rows of t4_bridge_observation_events
    reports,  \* committed rows of t4_observation_quality_reports
    lock,     \* holder of the campaign advisory transaction lock
    pc, tx,   \* control and transaction of each worker
    rpc, rtx  \* control and transaction of each reporter

db == <<cycles, runs, batches, events, reports>>
wvars == <<pc, tx>>
rvars == <<rpc, rtx>>
vars == <<now, db, lock, wvars, rvars>>

-----------------------------------------------------------------------------
(* The frozen schedule. *)

Times == 0..MaxTime

Expected(k) == Interval * k
PlannedEnd == Expected(Slots)
(* Mutant: the interval of a slot that has elapsed is forgotten.           *)
SlotEndAtStart(k) == Expected(k)

SlotEnd(k) == Expected(k) + Interval
GraceEnd == PlannedEnd + Interval

(* deterministic_observation_trace_id: one trace for each slot of a scope. *)
TraceOf(s, k) == <<s, k>>
Traces == Scopes \X (1..Slots)

Outcomes == {"missed", "failure", "success"}
Causes == {"none", "provider", "ingest", "analysis", "trace_conflict"}

(* A row of the ledger; cause is the step of the executor that failed. A   *)
(* missed row has no start (NULL in the table): it carries 0.              *)
Row == [seq : Nat, outcome : Outcomes, startedAt : Nat, cause : Causes]

MissedRow(k) ==
    [seq |-> k, outcome |-> "missed", startedAt |-> 0, cause |-> "none"]

AttemptRow(k, t, c) ==
    [seq |-> k, outcome |-> IF c = "none" THEN "success" ELSE "failure",
     startedAt |-> t, cause |-> c]

(* SELECT ... ORDER BY sequence_no DESC LIMIT 1, in a session that has     *)
(* inserted the rows `mine' and has not committed them.                    *)
LastSeq(s, mine) == Len(cycles[s]) + Len(mine)

(* The catch-up loop of run_cycle marks the slots before k missed and      *)
(* stops at k, the first slot that has not elapsed or the end of schedule. *)
CatchesUpTo(s, k) ==
    LET first == LastSeq(s, <<>>) + 1
    IN  /\ k \in first..(Slots + 1)
        /\ \A j \in first..(k - 1) : now > SlotEnd(j)
        /\ k = Slots + 1 \/ now <= SlotEnd(k)

MissedRows(s, k) ==
    LET n == LastSeq(s, <<>>) IN [i \in 1..(k - 1 - n) |-> MissedRow(n + i)]

(* Trigger enforce_t4_observation_cycle_chain with the guard of the        *)
(* research-input link a success inserts first.                            *)
InsertAllowed(s, mine, row) ==
    /\ reports = {}
    /\ row.seq \in 1..Slots
    /\ row.seq = LastSeq(s, mine) + 1
    /\ IF row.outcome = "missed"
       THEN now > SlotEnd(row.seq)
       ELSE row.startedAt \in Expected(row.seq)..SlotEnd(row.seq) /\ row.startedAt <= now
    /\ row.outcome = "success" =>
          /\ runs[TraceOf(s, row.seq)] = "completed"
          /\ TraceOf(s, row.seq) \in batches

-----------------------------------------------------------------------------
(* Initial state: the campaign has been created, nothing is recorded.      *)

NoTx == [scope |-> CHOOSE s \in Scopes : TRUE, startedAt |-> 0, seq |-> 0,
         rows |-> <<>>, live |-> FALSE, cause |-> "none"]

Snapshot == [cycles |-> cycles, events |-> events, reports |-> reports]

(* What _build_quality_report_with_cursor derives from a snapshot: the     *)
(* attempted slots and the bridge events up to the last checkpoint.  A     *)
(* missed row and a slot with no row count the same (`unexplained').       *)
AttemptsOf(rows) ==
    [s \in Scopes |-> {row \in Range(rows[s]) : row.outcome # "missed"}]
Certified(evs) ==
    {i \in 1..Len(evs) : \E j \in i..Len(evs) : evs[j] = "checkpoint"}
ReportOf(snap) ==
    [attempts |-> AttemptsOf(snap.cycles), journal |-> Certified(snap.events)]

NoSnapshot ==
    [cycles |-> [s \in Scopes |-> <<>>], events |-> <<>>, reports |-> {}]
NoRtx == [built |-> ReportOf(NoSnapshot), snap |-> NoSnapshot, checkpoint |-> 0]

Init ==
    /\ now = 0
    /\ cycles = [s \in Scopes |-> <<>>]
    /\ runs = [t \in Traces |-> "none"]
    /\ batches = {}
    /\ events = <<>>
    /\ reports = {}
    /\ lock = NoProc
    /\ pc = [p \in Workers |-> "idle"]
    /\ tx = [p \in Workers |-> NoTx]
    /\ rpc = [r \in Reporters |-> "idle"]
    /\ rtx = [r \in Reporters |-> NoRtx]

-----------------------------------------------------------------------------
(* Workers: ObservationRepository.run_cycle with the executor of           *)
(* _run_observation_cycle_command.                                         *)

Executing == {"fetch", "ingest", "analyse"}

(* The transaction ends without an effect and its locks are released.      *)
Rollback(p) ==
    /\ pc' = [pc EXCEPT ![p] = "idle"]
    /\ tx' = [tx EXCEPT ![p] = NoTx]
    /\ lock' = IF lock = p THEN NoProc ELSE lock
    /\ UNCHANGED <<now, db, rvars>>

(* observe-run is started for scope s and opens its transaction.           *)
Begin(p, s) ==
    /\ pc[p] = "idle"
    /\ pc' = [pc EXCEPT ![p] = "locking"]
    /\ tx' = [tx EXCEPT ![p] = [NoTx EXCEPT !.scope = s, !.live = TRUE]]
    /\ UNCHANGED <<now, db, lock, rvars>>

(* Mutant: the campaign lock is not exclusive.                             *)
LockCampaignShared(p) ==
    /\ pc[p] = "locking"
    /\ lock' = p
    /\ pc' = [pc EXCEPT ![p] = "planning"]
    /\ UNCHANGED <<now, db, tx, rvars>>

LockCampaign(p) ==
    /\ pc[p] = "locking"
    /\ lock = NoProc
    /\ lock' = p
    /\ pc' = [pc EXCEPT ![p] = "planning"]
    /\ UNCHANGED <<now, db, tx, rvars>>

(* SET LOCAL lock_timeout = '5s' expires: OBSERVATION_CYCLE_UNAVAILABLE.   *)
LockTimeout(p) ==
    /\ pc[p] = "locking"
    /\ lock # NoProc
    /\ Rollback(p)

(* Reads the schedule, the clock and the last row, and marks every elapsed *)
(* slot missed.  Missed rows alone are committed; with none and no due     *)
(* slot the command ends in OBSERVATION_SCHEDULE_COMPLETE or               *)
(* OBSERVATION_CYCLE_NOT_DUE.                                              *)
Plan(p) ==
    /\ pc[p] = "planning"
    /\ \E k \in 1..(Slots + 1) :
          LET s == tx[p].scope
              missed == MissedRows(s, k)
              due == k <= Slots /\ Expected(k) <= now
          IN  /\ CatchesUpTo(s, k)
              /\ IF \/ missed # <<>> /\ ~InsertAllowed(s, <<>>, missed[1])
                    \/ missed = <<>> /\ ~due
                 THEN Rollback(p)
                 ELSE /\ pc' = [pc EXCEPT ![p] = IF due THEN "fetch" ELSE "commit"]
                      /\ tx' = [tx EXCEPT ![p].startedAt = now, ![p].seq = k,
                                          ![p].rows = missed]
                      /\ UNCHANGED <<now, db, lock, rvars>>

(* The executor has failed: its error becomes the failure of the slot.     *)
Fail(p, c) ==
    /\ pc' = [pc EXCEPT ![p] = "insert"]
    /\ tx' = [tx EXCEPT ![p].cause = c]

TraceOfTx(p) == TraceOf(tx[p].scope, tx[p].seq)

(* MonitoringRepository.record_failure in its own transaction.  A trace    *)
(* that already has a run conflicts with it (run hash), and an unavailable *)
(* store loses the record: both leave the runs as they are.                *)
RecordFailure(t) ==
    \/ runs[t] = "none" /\ runs' = [runs EXCEPT ![t] = "failed"]
    \/ UNCHANGED runs

FetchBatch(p) ==
    /\ pc[p] = "fetch"
    /\ \/ /\ pc' = [pc EXCEPT ![p] = "ingest"]
          /\ UNCHANGED <<tx, runs>>
       \/ Fail(p, "provider") /\ RecordFailure(TraceOfTx(p))
    /\ UNCHANGED <<now, cycles, batches, events, reports, lock, rvars>>

(* T4IngestRepository.ingest commits the batch; a repeated payload returns *)
(* the batch that is already stored.                                       *)
IngestBatch(p) ==
    /\ pc[p] = "ingest"
    /\ \/ /\ batches' = batches \union {TraceOfTx(p)}
          /\ pc' = [pc EXCEPT ![p] = "analyse"]
          /\ UNCHANGED tx
       \/ Fail(p, "ingest") /\ UNCHANGED batches
    /\ UNCHANGED <<now, cycles, runs, events, reports, lock, rvars>>

(* run_monitored_analysis when the analysis itself raises.                 *)
AnalysisFails(p) ==
    /\ pc[p] = "analyse"
    /\ Fail(p, "analysis")
    /\ RecordFailure(TraceOfTx(p))
    /\ UNCHANGED <<now, cycles, batches, events, reports, lock, rvars>>

(* MonitoringRepository.record_report commits the run of the trace.  The   *)
(* `completed' event carries the recording time in its hash, so a trace    *)
(* that has any run already is an idempotency conflict.  A recorded report *)
(* may still fail the linkage checks of the executor.                      *)
RecordReport(p) ==
    /\ pc[p] = "analyse"
    /\ IF runs[TraceOfTx(p)] = "none"
       THEN /\ runs' = [runs EXCEPT ![TraceOfTx(p)] = "completed"]
            /\ Fail(p, "none") \/ Fail(p, "analysis")
       ELSE Fail(p, "trace_conflict") /\ UNCHANGED runs
    /\ UNCHANGED <<now, cycles, batches, events, reports, lock, rvars>>

(* The row of the attempted slot is inserted; a rejected insert, or a      *)
(* session the server has already closed, ends the command.                *)
InsertResult(p) ==
    LET row == AttemptRow(tx[p].seq, tx[p].startedAt, tx[p].cause)
    IN  /\ pc[p] = "insert"
        /\ IF tx[p].live /\ InsertAllowed(tx[p].scope, tx[p].rows, row)
           THEN /\ pc' = [pc EXCEPT ![p] = "commit"]
                /\ tx' = [tx EXCEPT ![p].rows = Append(@, row)]
                /\ UNCHANGED <<now, db, lock, rvars>>
           ELSE Rollback(p)

Commit(p) ==
    /\ pc[p] = "commit"
    /\ cycles' = [cycles EXCEPT ![tx[p].scope] = @ \o tx[p].rows]
    /\ lock' = NoProc
    /\ pc' = [pc EXCEPT ![p] = "idle"]
    /\ tx' = [tx EXCEPT ![p] = NoTx]
    /\ UNCHANGED <<now, runs, batches, events, reports, rvars>>

(* The process is killed (the supervisor's timeout, a reboot) before its   *)
(* transaction commits.                                                    *)
Crash(p) ==
    /\ pc[p] # "idle"
    /\ Rollback(p)

(* Mutant: idle_in_transaction_session_timeout is not set.                 *)
SessionNeverEnds(p) ==
    /\ pc[p] \in Executing
    /\ tx[p].live
    /\ UNCHANGED vars

(* While the executor runs, its session is idle in transaction: the server *)
(* ends it after idle_in_transaction_session_timeout or when the           *)
(* connection breaks, and releases the lock. The executor is not told.     *)
SessionEnds(p) ==
    /\ pc[p] \in Executing
    /\ tx[p].live
    /\ tx' = [tx EXCEPT ![p].live = FALSE]
    /\ lock' = NoProc
    /\ UNCHANGED <<now, db, pc, rvars>>

-----------------------------------------------------------------------------
(* Reporters: _run_observation_report_command and store_final_report.      *)

StopReport(r) ==
    /\ rpc' = [rpc EXCEPT ![r] = "idle"]
    /\ rtx' = [rtx EXCEPT ![r] = NoRtx]
    /\ lock' = IF lock = r THEN NoProc ELSE lock
    /\ UNCHANGED <<now, db, wvars>>

(* The cutoff is frozen; before the grace has elapsed the command ends in  *)
(* OBSERVATION_FINALIZATION_GRACE_INCOMPLETE.                              *)
BeginReport(r) ==
    /\ rpc[r] = "idle"
    /\ now >= GraceEnd
    /\ rpc' = [rpc EXCEPT ![r] = "checkpoint"]
    /\ UNCHANGED <<now, db, lock, wvars, rtx>>

(* Mutant: the checkpoint is imported without the campaign lock.           *)
CheckpointUnlocked(r) ==
    /\ rpc[r] = "checkpoint"
    /\ IF reports = {}
       THEN /\ Len(events) < MaxEvents
            /\ events' = Append(events, "checkpoint")
            /\ rpc' = [rpc EXCEPT ![r] = "build"]
            /\ rtx' = [rtx EXCEPT ![r].checkpoint = Len(events')]
            /\ UNCHANGED <<now, cycles, runs, batches, reports, lock, wvars>>
       ELSE StopReport(r)

(* The bridge signs a checkpoint and the verifier imports it, in a         *)
(* transaction that holds the campaign lock.                               *)
Checkpoint(r) ==
    /\ rpc[r] = "checkpoint"
    /\ lock = NoProc
    /\ IF reports = {}
       THEN /\ Len(events) < MaxEvents
            /\ events' = Append(events, "checkpoint")
            /\ rpc' = [rpc EXCEPT ![r] = "build"]
            /\ rtx' = [rtx EXCEPT ![r].checkpoint = Len(events')]
            /\ UNCHANGED <<now, cycles, runs, batches, reports, lock, wvars>>
       ELSE StopReport(r)

(* build_quality_report in a read-only transaction, without the lock.      *)
Build(r) ==
    /\ rpc[r] = "build"
    /\ rtx' = [rtx EXCEPT ![r].built = ReportOf(Snapshot)]
    /\ rpc' = [rpc EXCEPT ![r] = "store"]
    /\ UNCHANGED <<now, db, lock, wvars>>

(* store_final_report is SERIALIZABLE and its first query is the one that  *)
(* asks for the campaign lock: PostgreSQL takes the snapshot of the whole  *)
(* transaction when that query starts, before the lock is granted.         *)
TakeSnapshot(r) ==
    /\ rpc[r] = "store"
    /\ rtx' = [rtx EXCEPT ![r].snap = Snapshot]
    /\ rpc' = [rpc EXCEPT ![r] = "storeLock"]
    /\ UNCHANGED <<now, db, lock, wvars>>

LockForReport(r) ==
    /\ rpc[r] = "storeLock"
    /\ lock = NoProc
    /\ lock' = r
    /\ rpc' = [rpc EXCEPT ![r] = "storeInsert"]
    /\ UNCHANGED <<now, db, wvars, rtx>>

(* UNIQUE (campaign_id): it is checked against committed rows, not against *)
(* the snapshot.                                                           *)
ReportIsUnique == reports = {}

(* The checks of store_final_report and of the trigger                     *)
(* enforce_t4_observation_final_report; both read the snapshot.            *)
ReportAllowed(r) ==
    LET snap == rtx[r].snap
    IN  /\ now >= GraceEnd
        /\ rtx[r].built = ReportOf(snap)
        /\ rtx[r].checkpoint = Len(snap.events)
        /\ snap.reports = {}
        /\ ReportIsUnique

InsertReport(r) ==
    /\ rpc[r] = "storeInsert"
    /\ IF ReportAllowed(r)
       THEN /\ rpc' = [rpc EXCEPT ![r] = "storeCommit"]
            /\ UNCHANGED <<now, db, lock, wvars, rtx>>
       ELSE StopReport(r)

CommitReport(r) ==
    /\ rpc[r] = "storeCommit"
    /\ reports' = reports \union {[attempts |-> rtx[r].built.attempts,
                                   checkpoint |-> rtx[r].checkpoint]}
    /\ lock' = NoProc
    /\ rpc' = [rpc EXCEPT ![r] = "idle"]
    /\ rtx' = [rtx EXCEPT ![r] = NoRtx]
    /\ UNCHANGED <<now, cycles, runs, batches, events, wvars>>

ReporterCrash(r) ==
    /\ rpc[r] # "idle"
    /\ StopReport(r)

-----------------------------------------------------------------------------
(* Mutant: the import does not look for a final report.                    *)
RecordBridgeEventAnyTime ==
    /\ lock = NoProc
    /\ Len(events) < MaxEvents
    /\ events' = Append(events, "observed")
    /\ UNCHANGED <<now, cycles, runs, batches, reports, lock, wvars, rvars>>

(* The verifier imports a bridge event (not a checkpoint).                 *)
RecordBridgeEvent ==
    /\ lock = NoProc
    /\ reports = {}
    /\ Len(events) < MaxEvents
    /\ events' = Append(events, "observed")
    /\ UNCHANGED <<now, cycles, runs, batches, reports, lock, wvars, rvars>>

Tick ==
    /\ now < MaxTime
    /\ now' = now + 1
    /\ UNCHANGED <<db, lock, wvars, rvars>>

WorkerStep(p) ==
    \/ LockCampaign(p) \/ LockTimeout(p) \/ Plan(p)
    \/ FetchBatch(p) \/ IngestBatch(p) \/ AnalysisFails(p) \/ RecordReport(p)
    \/ InsertResult(p) \/ Commit(p)

ReporterStep(r) ==
    \/ Checkpoint(r) \/ Build(r) \/ TakeSnapshot(r) \/ LockForReport(r)
    \/ InsertReport(r) \/ CommitReport(r)

Next ==
    \/ Tick
    \/ RecordBridgeEvent
    \/ \E p \in Workers : \/ \E s \in Scopes : Begin(p, s)
                          \/ WorkerStep(p)
                          \/ Crash(p)
                          \/ SessionEnds(p)
    \/ \E r \in Reporters : \/ BeginReport(r)
                            \/ ReporterStep(r)
                            \/ ReporterCrash(r)

Spec == Init /\ [][Next]_vars

(* Statements between two executor calls are not delayed for ever by the   *)
(* code; an executor may hang, and then the server ends its session.       *)
Fairness ==
    /\ \A p \in Workers : /\ WF_vars(Plan(p))
                          /\ WF_vars(InsertResult(p))
                          /\ WF_vars(Commit(p))
                          /\ WF_vars(SessionEnds(p))
    /\ \A r \in Reporters : /\ WF_vars(InsertReport(r))
                            /\ WF_vars(CommitReport(r))

FairSpec == Spec /\ Fairness

-----------------------------------------------------------------------------
(* Properties. *)

Attempts == [Scopes -> SUBSET Row]
Events == Seq({"observed", "checkpoint"})
Report == [attempts : Attempts, checkpoint : Nat]
WorkerStates == {"idle", "locking", "planning", "insert", "commit"} \union Executing
Tx == [scope : Scopes, startedAt : Times, seq : Nat, rows : Seq(Row),
       live : BOOLEAN, cause : Causes]
ReporterStates == {"idle", "checkpoint", "build", "store", "storeLock",
                   "storeInsert", "storeCommit"}
Rtx == [built : [attempts : Attempts, journal : SUBSET Nat],
        snap : [cycles : [Scopes -> Seq(Row)], events : Events,
                reports : SUBSET Report],
        checkpoint : Nat]

(* Every variable has its type. *)
TypeOK ==
    /\ now \in Times
    /\ cycles \in [Scopes -> Seq(Row)]
    /\ runs \in [Traces -> {"none", "failed", "completed"}]
    /\ batches \subseteq Traces
    /\ events \in Events
    /\ reports \subseteq Report
    /\ lock \in Workers \union Reporters \union {NoProc}
    /\ pc \in [Workers -> WorkerStates]
    /\ tx \in [Workers -> Tx]
    /\ rpc \in [Reporters -> ReporterStates]
    /\ rtx \in [Reporters -> Rtx]

(* The ledger implements the schedule it was created with (the claims of   *)
(* the runbook under "Retry i brak duplikatow"), whatever workers,         *)
(* crashes and lost sessions do.                                           *)
Schedule == INSTANCE FrozenSchedule WITH
    decided <- [s \in Scopes |->
                  [k \in 1..Len(cycles[s]) |->
                     [outcome |-> cycles[s][k].outcome, at |-> cycles[s][k].startedAt]]],
    closed <- reports # {}

ImplementsSchedule == Schedule!Spec

(* A stored final report contains every attempt that started before the    *)
(* grace period was over.  The report is computed from a snapshot that is  *)
(* older than the campaign lock, so this rests on the checkpoint: it is    *)
(* imported under the lock and after the grace, when no earlier attempt    *)
(* can be in flight any more.                                              *)
ReportCoversAttempts ==
    \A report \in reports :
        \A s \in Scopes : \A row \in AttemptsOf(cycles)[s] :
            row.startedAt < GraceEnd => row \in report.attempts[s]

(* Nothing the final report was computed from changes after it, and it is  *)
(* never replaced, however many observe-report commands race.              *)
FinalLedgerIsFrozen ==
    [][reports # {} => UNCHANGED <<cycles, events, reports>>]_vars

(* What a worker has planned under the lock stays true until it commits:   *)
(* while its session lives, the slot it executes, which may take minutes   *)
(* of fetching and analysis, is still the next slot of the scope, no       *)
(* matter who else is started, killed or loses its session meanwhile.      *)
PlanStaysCurrent ==
    \A p \in Workers :
        tx[p].live /\ pc[p] \in Executing \union {"insert"} =>
            tx[p].seq = LastSeq(tx[p].scope, tx[p].rows) + 1

(* No holder keeps the campaign lock for ever: a hung executor loses its   *)
(* session, so the other scope, the verifier and the report can proceed.   *)
LockIsReleased ==
    \A p \in Workers \union Reporters : lock = p ~> lock # p

(* The final report is stored with the exact head of the signed journal    *)
(* (the trigger requires checkpoint.sequence_no to be the maximum).        *)
CheckpointIsHead ==
    \A report \in reports : report.checkpoint = Len(events)
=============================================================================
