------------------------ MODULE CampaignLedgerProofs ------------------------
(***************************************************************************)
(* Proofs about the ledger of a campaign, for any number of workers,       *)
(* reporters, scopes and slots.                                            *)
(***************************************************************************)
EXTENDS CampaignLedgerInvariant, SequenceTheorems, TLAPS

LEMMA NoTxType == NoTx \in Tx
BY ScopesAssumption, BoundAssumption DEF NoTx, Times, Causes, Tx

LEMMA ReportOfType ==
    ASSUME NEW c \in [Scopes -> Seq(Row)], NEW e \in Events, NEW rs \in SUBSET Report
    PROVE  ReportOf([cycles |-> c, events |-> e, reports |-> rs])
              \in [attempts : Attempts, journal : SUBSET Nat]
<1>1. AttemptsOf(c) \in Attempts
  BY DEF AttemptsOf, Attempts, Range
<1>2. Certified(e) \in SUBSET Nat
  BY DEF Certified, Events
<1> QED
  BY <1>1, <1>2 DEF ReportOf

LEMMA NoRtxType == NoRtx \in Rtx
<1>1. /\ [s \in Scopes |-> <<>>] \in [Scopes -> Seq(Row)]
      /\ <<>> \in Events
  BY DEF Events
<1> QED
  BY <1>1, ReportOfType DEF NoRtx, NoSnapshot, Rtx

LEMMA AttemptRowType ==
    ASSUME NEW k \in Nat, NEW t \in Times, NEW c \in Causes
    PROVE  AttemptRow(k, t, c) \in Row
BY BoundAssumption DEF AttemptRow, Row, Outcomes, Times

LEMMA MissedRowsType ==
    ASSUME cycles \in [Scopes -> Seq(Row)], NEW s \in Scopes,
           NEW k \in 1..(Slots + 1), CatchesUpTo(s, k)
    PROVE  /\ Len(cycles[s]) \in Nat
           /\ k - 1 - Len(cycles[s]) \in Nat
           /\ MissedRows(s, k) \in Seq(Row)
           /\ Len(MissedRows(s, k)) = k - 1 - Len(cycles[s])
           /\ \A i \in 1..(k - 1 - Len(cycles[s])) :
                 MissedRows(s, k)[i] = MissedRow(Len(cycles[s]) + i)
<1>1. Len(cycles[s]) \in Nat /\ LastSeq(s, <<>>) = Len(cycles[s])
  BY DEF LastSeq
<1>2. k - 1 - Len(cycles[s]) \in Nat
  BY <1>1, SlotsAssumption DEF CatchesUpTo
<1> DEFINE n == Len(cycles[s])
           m == k - 1 - n
           f == [i \in 1..m |-> MissedRow(n + i)]
<1>3. MissedRows(s, k) = f
  BY <1>1 DEF MissedRows
<1>4. \A i \in 1..m : MissedRow(n + i) \in Row
  BY <1>1, <1>2 DEF MissedRow, Row, Outcomes, Causes
<1>5. m \in Nat /\ n \in Nat
  BY <1>1, <1>2
<1> HIDE DEF m, n
<1>6. f \in Seq(Row) /\ Len(f) = m /\ \A i \in 1..m : f[i] = MissedRow(n + i)
  BY <1>4, <1>5, IsASeq
<1> QED
  BY <1>3, <1>5, <1>6 DEF m, n

LEMMA TxPlannedType ==
    ASSUME NEW x \in Tx, NEW k \in Nat, NEW t \in Times, NEW rows \in Seq(Row)
    PROVE  [x EXCEPT !.startedAt = t, !.seq = k, !.rows = rows] \in Tx
BY DEF Tx

LEMMA TxAppendedType ==
    ASSUME NEW x \in Tx, NEW row \in Row
    PROVE  [x EXCEPT !.rows = Append(@, row)] \in Tx
<1>1. Append(x.rows, row) \in Seq(Row)
  BY DEF Tx
<1> QED
  BY <1>1 DEF Tx

LEMMA RtxBuiltType ==
    ASSUME NEW x \in Rtx, NEW b \in [attempts : Attempts, journal : SUBSET Nat]
    PROVE  [x EXCEPT !.built = b] \in Rtx
BY DEF Rtx

LEMMA EventAppendedType ==
    ASSUME NEW e \in Events
    PROVE  /\ Append(e, "checkpoint") \in Events
           /\ Len(Append(e, "checkpoint")) \in Nat
BY DEF Events

(* Every variable keeps its type. *)
LEMMA TypeInvariance ==
    ASSUME TypeOK, ExecutesSlot, [Next]_vars
    PROVE  TypeOK'
<1> USE DEF TypeOK, vars, db, wvars, rvars
<1>1. CASE Tick
  BY <1>1, BoundAssumption DEF Tick, Times
<1>2. CASE RecordBridgeEvent
  BY <1>2 DEF RecordBridgeEvent, Events
<1>3. ASSUME NEW p \in Workers, NEW s \in Scopes, Begin(p, s)
      PROVE  TypeOK'
  <2>1. [NoTx EXCEPT !.scope = s, !.live = TRUE] \in Tx
    BY NoTxType DEF Tx
  <2> QED
    BY <1>3, <2>1 DEF Begin, WorkerStates
<1>4. ASSUME NEW p \in Workers, Rollback(p)
      PROVE  TypeOK'
  BY <1>4, NoTxType DEF Rollback, WorkerStates
<1>5. ASSUME NEW p \in Workers, LockCampaign(p)
      PROVE  TypeOK'
  BY <1>5 DEF LockCampaign, WorkerStates
<1>6. ASSUME NEW p \in Workers, Plan(p)
      PROVE  TypeOK'
  <2>1. PICK k \in 1..(Slots + 1) :
           /\ CatchesUpTo(tx[p].scope, k)
           /\ \/ Rollback(p)
              \/ /\ \/ pc' = [pc EXCEPT ![p] = "fetch"]
                    \/ pc' = [pc EXCEPT ![p] = "commit"]
                 /\ tx' = [tx EXCEPT ![p].startedAt = now, ![p].seq = k,
                                     ![p].rows = MissedRows(tx[p].scope, k)]
                 /\ UNCHANGED <<now, db, lock, rvars>>
    BY <1>6 DEF Plan
  <2>2. tx[p].scope \in Scopes
    BY DEF Tx
  <2>3. MissedRows(tx[p].scope, k) \in Seq(Row)
    BY <2>1, <2>2, MissedRowsType
  <2>4. [tx[p] EXCEPT !.startedAt = now, !.seq = k,
                      !.rows = MissedRows(tx[p].scope, k)] \in Tx
    <3>1. tx[p] \in Tx /\ now \in Times /\ k \in Nat
      BY SlotsAssumption
    <3> QED
      BY <2>3, <3>1, TxPlannedType
  <2>5. CASE ~Rollback(p)
    <3>1. tx' \in [Workers -> Tx]
      BY <2>1, <2>4, <2>5
    <3>2. pc' \in [Workers -> WorkerStates]
      BY <2>1, <2>5 DEF WorkerStates, Executing
    <3> QED
      BY <2>1, <2>5, <3>1, <3>2
  <2> QED
    BY <1>4, <2>5
<1>7. ASSUME NEW p \in Workers, NEW c \in Causes, Fail(p, c)
      PROVE  pc' \in [Workers -> WorkerStates] /\ tx' \in [Workers -> Tx]
  <2>1. [tx[p] EXCEPT !.cause = c] \in Tx
    BY DEF Tx
  <2> QED
    BY <1>7, <2>1 DEF Fail, WorkerStates
<1>8. ASSUME NEW p \in Workers, FetchBatch(p)
      PROVE  TypeOK'
  <2>1. runs' \in [Traces -> {"none", "failed", "completed"}]
    BY <1>8 DEF FetchBatch, RecordFailure
  <2>2. pc' \in [Workers -> WorkerStates] /\ tx' \in [Workers -> Tx]
    BY <1>7, <1>8 DEF FetchBatch, WorkerStates, Executing, Causes
  <2> QED
    BY <1>8, <2>1, <2>2 DEF FetchBatch
<1>9. ASSUME NEW p \in Workers, IngestBatch(p)
      PROVE  TypeOK'
  <2>1. TraceOfTx(p) \in Traces
    BY <1>9 DEF IngestBatch, ExecutesSlot, Executing, TraceOfTx, TraceOf, Traces, Tx
  <2>2. pc' \in [Workers -> WorkerStates] /\ tx' \in [Workers -> Tx]
    BY <1>7, <1>9 DEF IngestBatch, WorkerStates, Executing, Causes
  <2> QED
    BY <1>9, <2>1, <2>2 DEF IngestBatch
<1>10. ASSUME NEW p \in Workers, AnalysisFails(p) \/ RecordReport(p)
       PROVE  TypeOK'
  <2>1. runs' \in [Traces -> {"none", "failed", "completed"}]
    BY <1>10 DEF AnalysisFails, RecordReport, RecordFailure
  <2>2. pc' \in [Workers -> WorkerStates] /\ tx' \in [Workers -> Tx]
    BY <1>7, <1>10 DEF AnalysisFails, RecordReport, Causes
  <2> QED
    BY <1>10, <2>1, <2>2 DEF AnalysisFails, RecordReport
<1>11. ASSUME NEW p \in Workers, InsertResult(p)
       PROVE  TypeOK'
  <2> DEFINE row == AttemptRow(tx[p].seq, tx[p].startedAt, tx[p].cause)
  <2>1. row \in Row
    BY AttemptRowType DEF Tx
  <2>2. [tx[p] EXCEPT !.rows = Append(@, row)] \in Tx
    BY <2>1, TxAppendedType
  <2>3. CASE ~Rollback(p)
    BY <1>11, <2>2, <2>3 DEF InsertResult, WorkerStates
  <2> QED
    BY <1>4, <2>3
<1>12. ASSUME NEW p \in Workers, Commit(p)
       PROVE  TypeOK'
  <2>1. cycles' \in [Scopes -> Seq(Row)]
    <3>1. cycles[tx[p].scope] \o tx[p].rows \in Seq(Row)
      BY ConcatProperties DEF Tx
    <3> QED
      BY <1>12, <3>1 DEF Commit
  <2> QED
    BY <1>12, <2>1, NoTxType DEF Commit, WorkerStates
<1>13. ASSUME NEW p \in Workers, SessionEnds(p)
       PROVE  TypeOK'
  <2>1. [tx[p] EXCEPT !.live = FALSE] \in Tx
    BY DEF Tx
  <2> QED
    BY <1>13, <2>1 DEF SessionEnds
<1>14. ASSUME NEW r \in Reporters, StopReport(r)
       PROVE  TypeOK'
  BY <1>14, NoRtxType DEF StopReport, ReporterStates
<1>15. ASSUME NEW r \in Reporters, BeginReport(r)
       PROVE  TypeOK'
  BY <1>15 DEF BeginReport, ReporterStates
<1>16. ASSUME NEW r \in Reporters, Checkpoint(r)
       PROVE  TypeOK'
  <2>1. CASE ~StopReport(r)
    <3>1. events' \in Events /\ Len(events') \in Nat
      BY <1>16, <2>1, EventAppendedType DEF Checkpoint
    <3>2. [rtx[r] EXCEPT !.checkpoint = Len(events')] \in Rtx
      BY <3>1 DEF Rtx
    <3> QED
      BY <1>16, <2>1, <3>1, <3>2 DEF Checkpoint, ReporterStates
  <2> QED
    BY <1>14, <2>1
<1>17. ASSUME NEW r \in Reporters, Build(r)
       PROVE  TypeOK'
  <2>1. ReportOf(Snapshot) \in [attempts : Attempts, journal : SUBSET Nat]
    BY ReportOfType DEF Snapshot
  <2>2. [rtx[r] EXCEPT !.built = ReportOf(Snapshot)] \in Rtx
    BY <2>1, RtxBuiltType
  <2> QED
    BY <1>17, <2>2 DEF Build, ReporterStates
<1>18. ASSUME NEW r \in Reporters, TakeSnapshot(r)
       PROVE  TypeOK'
  <2>1. [rtx[r] EXCEPT !.snap = Snapshot] \in Rtx
    BY DEF Rtx, Snapshot
  <2> QED
    BY <1>18, <2>1 DEF TakeSnapshot, ReporterStates
<1>19. ASSUME NEW r \in Reporters, LockForReport(r)
       PROVE  TypeOK'
  BY <1>19 DEF LockForReport, ReporterStates
<1>20. ASSUME NEW r \in Reporters, InsertReport(r)
       PROVE  TypeOK'
  BY <1>14, <1>20 DEF InsertReport, ReporterStates
<1>21. ASSUME NEW r \in Reporters, CommitReport(r)
       PROVE  TypeOK'
  <2>1. [attempts |-> rtx[r].built.attempts, checkpoint |-> rtx[r].checkpoint]
           \in Report
    BY DEF Rtx, Report
  <2> QED
    BY <1>21, <2>1, NoRtxType DEF CommitReport, ReporterStates
<1>22. CASE UNCHANGED vars
  BY <1>22
<1> QED
  BY <1>1, <1>2, <1>3, <1>4, <1>5, <1>6, <1>8, <1>9, <1>10, <1>11, <1>12,
     <1>13, <1>14, <1>15, <1>16, <1>17, <1>18, <1>19, <1>20, <1>21, <1>22
  DEF Next, WorkerStep, LockTimeout, Crash, ReporterStep, ReporterCrash

-----------------------------------------------------------------------------
(* The inductive invariant, conjunct by conjunct. *)

(* What the steps of a worker do to its control and its transaction. *)
LEMMA ControlType == TypeOK => /\ pc \in [Workers -> WorkerStates]
                               /\ tx \in [Workers -> Tx]
                               /\ rpc \in [Reporters -> ReporterStates]
BY DEF TypeOK

ExecutorStep(p) ==
    FetchBatch(p) \/ IngestBatch(p) \/ AnalysisFails(p) \/ RecordReport(p)

LEMMA ExecutorFrame ==
    ASSUME TypeOK, NEW p \in Workers, ExecutorStep(p)
    PROVE  /\ pc[p] \in Executing
           /\ pc'[p] \in Executing \union {"insert"}
           /\ \A q \in Workers \ {p} : pc'[q] = pc[q] /\ tx'[q] = tx[q]
           /\ tx'[p].live = tx[p].live
           /\ tx'[p].scope = tx[p].scope
           /\ tx'[p].seq = tx[p].seq
           /\ tx'[p].startedAt = tx[p].startedAt
           /\ tx'[p].rows = tx[p].rows
           /\ UNCHANGED <<now, cycles, events, reports, lock, rpc, rtx>>
<1>1. ASSUME NEW c \in Causes, Fail(p, c)
      PROVE  /\ pc'[p] = "insert"
             /\ \A q \in Workers \ {p} : pc'[q] = pc[q] /\ tx'[q] = tx[q]
             /\ tx'[p].live = tx[p].live
             /\ tx'[p].scope = tx[p].scope
             /\ tx'[p].seq = tx[p].seq
             /\ tx'[p].startedAt = tx[p].startedAt
             /\ tx'[p].rows = tx[p].rows
  BY <1>1, ControlType DEF Fail, Tx
<1>2. CASE FetchBatch(p)
  BY <1>1, <1>2, ControlType DEF FetchBatch, Executing, rvars, Causes
<1>3. CASE IngestBatch(p)
  BY <1>1, <1>3, ControlType DEF IngestBatch, Executing, rvars, Causes
<1>4. CASE AnalysisFails(p)
  BY <1>1, <1>4 DEF AnalysisFails, Executing, rvars, Causes
<1>5. CASE RecordReport(p)
  BY <1>1, <1>5 DEF RecordReport, Executing, rvars, Causes
<1> QED
  BY <1>2, <1>3, <1>4, <1>5 DEF ExecutorStep

LEMMA PlanFrame ==
    ASSUME TypeOK, NEW p \in Workers, Plan(p), ~Rollback(p)
    PROVE  \E k \in 1..(Slots + 1) :
              LET s == tx[p].scope
                  missed == MissedRows(s, k)
              IN  /\ pc[p] = "planning"
                  /\ CatchesUpTo(s, k)
                  /\ missed # <<>> => InsertAllowed(s, <<>>, missed[1])
                  /\ \/ k <= Slots /\ Expected(k) <= now /\ pc'[p] = "fetch"
                     \/ missed # <<>> /\ pc'[p] = "commit"
                  /\ \A q \in Workers \ {p} : pc'[q] = pc[q] /\ tx'[q] = tx[q]
                  /\ tx'[p].live = tx[p].live
                  /\ tx'[p].scope = s
                  /\ tx'[p].seq = k
                  /\ tx'[p].startedAt = now
                  /\ tx'[p].rows = missed
                  /\ UNCHANGED <<now, cycles, events, reports, lock, rpc, rtx>>
<1>1. tx[p] \in Tx
  BY ControlType
<1>2. PICK k \in 1..(Slots + 1) :
         LET s == tx[p].scope
             missed == MissedRows(s, k)
         IN  /\ pc[p] = "planning"
             /\ CatchesUpTo(s, k)
             /\ missed # <<>> => InsertAllowed(s, <<>>, missed[1])
             /\ \/ k <= Slots /\ Expected(k) <= now /\ pc' = [pc EXCEPT ![p] = "fetch"]
                \/ missed # <<>> /\ pc' = [pc EXCEPT ![p] = "commit"]
             /\ tx' = [tx EXCEPT ![p].startedAt = now, ![p].seq = k, ![p].rows = missed]
             /\ UNCHANGED <<now, db, lock, rvars>>
  BY DEF Plan
<1>3. tx'[p] = [tx[p] EXCEPT !.startedAt = now, !.seq = k,
                             !.rows = MissedRows(tx[p].scope, k)]
  BY <1>2, ControlType
<1>4. /\ tx'[p].live = tx[p].live
      /\ tx'[p].scope = tx[p].scope
      /\ tx'[p].seq = k
      /\ tx'[p].startedAt = now
      /\ tx'[p].rows = MissedRows(tx[p].scope, k)
  BY <1>1, <1>3 DEF Tx
<1> QED
  BY <1>2, <1>4, ControlType DEF db, rvars

LEMMA InsertFrame ==
    ASSUME TypeOK, NEW p \in Workers, InsertResult(p), ~Rollback(p)
    PROVE  LET row == AttemptRow(tx[p].seq, tx[p].startedAt, tx[p].cause)
           IN  /\ pc[p] = "insert" /\ pc'[p] = "commit"
               /\ tx[p].live
               /\ InsertAllowed(tx[p].scope, tx[p].rows, row)
               /\ \A q \in Workers \ {p} : pc'[q] = pc[q] /\ tx'[q] = tx[q]
               /\ tx'[p].live = tx[p].live
               /\ tx'[p].scope = tx[p].scope
               /\ tx'[p].rows = Append(tx[p].rows, row)
               /\ UNCHANGED <<now, cycles, events, reports, lock, rpc, rtx>>
BY ControlType DEF InsertResult, Tx, db, rvars

LEMMA RollbackFrame ==
    ASSUME TypeOK, NEW p \in Workers, Rollback(p) \/ Commit(p)
    PROVE  /\ pc'[p] = "idle" /\ ~tx'[p].live
           /\ \A q \in Workers \ {p} : pc'[q] = pc[q] /\ tx'[q] = tx[q]
           /\ lock' # lock => lock' = NoProc
           /\ Rollback(p) /\ lock' # lock => lock = p
           /\ UNCHANGED <<now, reports, events, rpc, rtx>>
BY ControlType, NoTxType DEF Rollback, Commit, NoTx, Tx, db, rvars

LEMMA ExecutesSlotInvariance ==
    ASSUME TypeOK, ExecutesSlot, [Next]_vars
    PROVE  ExecutesSlot'
<1> USE ControlType DEF ExecutesSlot, Executing, wvars, rvars
<1>1. ASSUME NEW p \in Workers, Rollback(p) \/ LockCampaign(p) \/ Commit(p) \/ SessionEnds(p)
      PROVE  ExecutesSlot'
  BY <1>1, NoTxType DEF Rollback, LockCampaign, Commit, SessionEnds, Tx
<1>2. ASSUME NEW p \in Workers, NEW s \in Scopes, Begin(p, s)
      PROVE  ExecutesSlot'
  BY <1>2, NoTxType DEF Begin, Tx
<1>3. ASSUME NEW p \in Workers, Plan(p)
      PROVE  ExecutesSlot'
  <2>1. CASE ~Rollback(p)
    BY <1>3, <2>1, PlanFrame, SlotsAssumption
  <2> QED
    BY <1>1, <2>1
<1>4. ASSUME NEW p \in Workers, ExecutorStep(p)
      PROVE  ExecutesSlot'
  BY <1>4, ExecutorFrame
<1>5. ASSUME NEW p \in Workers, InsertResult(p)
      PROVE  ExecutesSlot'
  BY <1>1, <1>5 DEF InsertResult, Tx
<1>6. CASE UNCHANGED <<pc, tx>>
  BY <1>6
<1> QED
  BY <1>1, <1>2, <1>3, <1>4, <1>5, <1>6
  DEF Next, WorkerStep, ExecutorStep, LockTimeout, Crash, ReporterStep, ReporterCrash, vars,
      Tick, RecordBridgeEvent, BeginReport, Checkpoint, Build, TakeSnapshot,
      LockForReport, InsertReport, CommitReport, StopReport

LEMMA LockHeldInvariance ==
    ASSUME TypeOK, LockHeld, [Next]_vars
    PROVE  LockHeld'
<1> USE ProcAssumption, ControlType DEF LockHeld, Executing, InTransaction, wvars, rvars
<1>1. ASSUME NEW p \in Workers, Rollback(p)
      PROVE  LockHeld'
  BY <1>1, NoTxType DEF Rollback, NoTx, Tx
<1>2. ASSUME NEW p \in Workers, LockCampaign(p) \/ Commit(p)
      PROVE  LockHeld'
  <2>1. CASE LockCampaign(p)
    BY <2>1 DEF LockCampaign
  <2>2. CASE Commit(p)
    <3>1. lock = p
      BY <2>2 DEF Commit
    <3> QED
      BY <2>2, <3>1, RollbackFrame
  <2> QED
    BY <1>2, <2>1, <2>2
<1>3. ASSUME NEW p \in Workers, NEW s \in Scopes, Begin(p, s)
      PROVE  LockHeld'
  BY <1>3, NoTxType DEF Begin, Tx
<1>4. ASSUME NEW p \in Workers, Plan(p)
      PROVE  LockHeld'
  <2>1. CASE ~Rollback(p)
    BY <1>4, <2>1, PlanFrame
  <2> QED
    BY <1>1, <2>1
<1>5. ASSUME NEW p \in Workers, ExecutorStep(p)
      PROVE  LockHeld'
  BY <1>5, ExecutorFrame
<1>6. ASSUME NEW p \in Workers, InsertResult(p)
      PROVE  LockHeld'
  <2>1. CASE ~Rollback(p)
    BY <1>6, <2>1, InsertFrame
  <2> QED
    BY <1>1, <2>1
<1>7. ASSUME NEW p \in Workers, SessionEnds(p)
      PROVE  LockHeld'
  BY <1>7 DEF SessionEnds, Tx
<1>8. ASSUME NEW r \in Reporters, StopReport(r)
      PROVE  LockHeld'
  BY <1>8 DEF StopReport
<1>9. ASSUME NEW r \in Reporters,
             BeginReport(r) \/ Build(r) \/ TakeSnapshot(r) \/ LockForReport(r) \/ CommitReport(r)
      PROVE  LockHeld'
  BY <1>9 DEF BeginReport, Build, TakeSnapshot, LockForReport, CommitReport
<1>10. ASSUME NEW r \in Reporters, Checkpoint(r) \/ InsertReport(r)
       PROVE  LockHeld'
  BY <1>8, <1>10 DEF Checkpoint, InsertReport
<1>11. CASE UNCHANGED <<lock, pc, tx, rpc>>
  BY <1>11
<1> QED
  BY <1>1, <1>2, <1>3, <1>4, <1>5, <1>6, <1>7, <1>8, <1>9, <1>10, <1>11
  DEF Next, WorkerStep, ExecutorStep, LockTimeout, Crash, ReporterStep, ReporterCrash, vars,
      Tick, RecordBridgeEvent

(* The uncommitted rows stay in step with the ledger: only the holder of   *)
(* the lock changes either.                                                *)

LEMMA ExpectedType ==
    ASSUME NEW k \in Nat
    PROVE  Expected(k) \in Nat /\ SlotEnd(k) \in Nat
<1>1. Expected(k) \in Nat
  BY IntervalAssumption DEF Expected
<1> QED
  BY <1>1, IntervalAssumption DEF SlotEnd

LEMMA ContinuesMonotone ==
    ASSUME NEW rows \in Seq(Row), NEW n \in Nat, NEW t \in Nat, NEW u \in Nat,
           NEW done \in BOOLEAN, u >= t, Continues(rows, n, t, done)
    PROVE  Continues(rows, n, u, done)
<1> SUFFICES ASSUME NEW i \in 1..Len(rows)
             PROVE  RowOfSlot(rows[i], n + i, u)
  BY DEF Continues
<1>1. RowOfSlot(rows[i], n + i, t)
  BY DEF Continues
<1>2. n + i \in Nat /\ rows[i] \in Row
  OBVIOUS
<1>3. rows[i].startedAt \in Nat /\ SlotEnd(n + i) \in Nat
  BY <1>2, ExpectedType DEF Row
<1> QED
  BY <1>1, <1>3 DEF RowOfSlot

LEMMA ContinuesAppend ==
    ASSUME NEW rows \in Seq(Row), NEW n \in Nat, NEW t \in Nat, NEW row \in Row,
           Continues(rows, n, t, FALSE),
           n + Len(rows) + 1 <= Slots, RowOfSlot(row, n + Len(rows) + 1, t)
    PROVE  Continues(Append(rows, row), n, t, TRUE)
<1> DEFINE m == Len(rows)
<1>1. /\ m \in Nat
      /\ Len(Append(rows, row)) = m + 1
      /\ Append(rows, row)[m + 1] = row
      /\ \A i \in 1..m : Append(rows, row)[i] = rows[i]
  OBVIOUS
<1>2. \A i \in 1..m : RowOfSlot(rows[i], n + i, t) /\ rows[i].outcome = "missed"
  BY DEF Continues
<1>3. RowOfSlot(row, n + (m + 1), t) /\ n + (m + 1) <= Slots
  BY <1>1
<1> DEFINE new == Append(rows, row)
<1>4. ASSUME NEW i \in 1..(m + 1)
      PROVE  RowOfSlot(new[i], n + i, t) /\ (new[i].outcome # "missed" => i = m + 1)
  <2>1. i \in 1..m \/ i = m + 1
    BY <1>1
  <2> QED
    BY <1>1, <1>2, <1>3, <2>1
<1> HIDE DEF m
<1> QED
  BY <1>1, <1>3, <1>4 DEF Continues

LEMMA MissedRowsContinue ==
    ASSUME cycles \in [Scopes -> Seq(Row)], now \in Nat, NEW s \in Scopes,
           NEW k \in 1..(Slots + 1), CatchesUpTo(s, k)
    PROVE  Continues(MissedRows(s, k), Len(cycles[s]), now, FALSE)
<1> DEFINE n == Len(cycles[s])
<1>1. /\ n \in Nat
      /\ Len(MissedRows(s, k)) = k - 1 - n /\ k - 1 - n \in Nat
      /\ \A i \in 1..(k - 1 - n) : MissedRows(s, k)[i] = MissedRow(n + i)
  BY MissedRowsType
<1>2. \A j \in (n + 1)..(k - 1) : now > SlotEnd(j)
  BY DEF CatchesUpTo, LastSeq
<1> HIDE DEF n
<1>3. ASSUME NEW i \in 1..(k - 1 - n)
      PROVE  RowOfSlot(MissedRow(n + i), n + i, now) /\ MissedRow(n + i).outcome = "missed"
  <2>1. n + i \in (n + 1)..(k - 1)
    BY <1>1, SlotsAssumption
  <2> QED
    BY <1>2, <2>1 DEF RowOfSlot, MissedRow
<1>4. n + Len(MissedRows(s, k)) <= Slots
  BY <1>1, SlotsAssumption
<1> QED
  BY <1>1, <1>3, <1>4 DEF Continues, n

LEMMA InsertAllowedFacts ==
    ASSUME NEW s \in Scopes, NEW mine \in Seq(Row), NEW row \in Row,
           Len(cycles[s]) \in Nat, InsertAllowed(s, mine, row)
    PROVE  /\ reports = {}
           /\ row.seq <= Slots
           /\ row.seq = Len(cycles[s]) + Len(mine) + 1
           /\ row.outcome # "missed" =>
                 /\ row.startedAt \in Expected(row.seq)..SlotEnd(row.seq)
                 /\ row.startedAt <= now
BY SlotsAssumption DEF InsertAllowed, LastSeq

LEMMA RowsContinueInvariance ==
    ASSUME TypeOK, LockHeld, RowsContinueLedger, [Next]_vars
    PROVE  RowsContinueLedger'
<1>1. /\ now \in Nat
      /\ cycles \in [Scopes -> Seq(Row)]
      /\ \A p \in Workers : /\ tx[p].scope \in Scopes
                            /\ tx[p].rows \in Seq(Row)
                            /\ tx[p].startedAt \in Times
                            /\ tx[p].seq \in Nat
                            /\ tx[p].cause \in Causes
                            /\ Len(cycles[tx[p].scope]) \in Nat
                            /\ Len(tx[p].rows) \in Nat
  BY BoundAssumption DEF TypeOK, Tx, Times
<1> DEFINE Kept(q) == /\ pc'[q] = pc[q]
                      /\ tx'[q].live => tx[q].live
                      /\ tx'[q].scope = tx[q].scope
                      /\ tx'[q].rows = tx[q].rows
                      /\ tx'[q].seq = tx[q].seq
           Out(q) == ~tx'[q].live \/ pc'[q] \notin InTransaction
<1>2. ASSUME UNCHANGED <<now, cycles, reports>>,
             \A q \in Workers : Kept(q) \/ Out(q)
      PROVE  RowsContinueLedger'
  BY <1>2 DEF RowsContinueLedger
<1>3. CASE Tick
  <2>1. now' \in Nat /\ now' >= now
    BY <1>1, <1>3 DEF Tick
  <2>2. UNCHANGED <<cycles, reports, pc, tx>>
    BY <1>3 DEF Tick, db, wvars
  <2> QED
    BY <1>1, <2>1, <2>2, ContinuesMonotone DEF RowsContinueLedger
<1>4. ASSUME NEW p \in Workers, Rollback(p)
      PROVE  RowsContinueLedger'
  BY <1>2, <1>4, RollbackFrame DEF Rollback, db
<1>5. ASSUME NEW p \in Workers,
             LockCampaign(p) \/ SessionEnds(p) \/ (\E s \in Scopes : Begin(p, s))
      PROVE  RowsContinueLedger'
  <2>1. \A q \in Workers : Kept(q) \/ Out(q)
    BY <1>5, ControlType DEF LockCampaign, SessionEnds, Begin, InTransaction, Executing, Tx
  <2> QED
    BY <1>2, <1>5, <2>1 DEF LockCampaign, SessionEnds, Begin, db
<1>6. ASSUME NEW p \in Workers, Plan(p), ~Rollback(p)
      PROVE  RowsContinueLedger'
  <2>1. PICK k \in 1..(Slots + 1) :
           LET s == tx[p].scope
               missed == MissedRows(s, k)
           IN  /\ pc[p] = "planning"
               /\ CatchesUpTo(s, k)
               /\ missed # <<>> => InsertAllowed(s, <<>>, missed[1])
               /\ \/ k <= Slots /\ Expected(k) <= now /\ pc'[p] = "fetch"
                  \/ missed # <<>> /\ pc'[p] = "commit"
               /\ \A q \in Workers \ {p} : pc'[q] = pc[q] /\ tx'[q] = tx[q]
               /\ tx'[p].live = tx[p].live
               /\ tx'[p].scope = s
               /\ tx'[p].seq = k
               /\ tx'[p].startedAt = now
               /\ tx'[p].rows = missed
               /\ UNCHANGED <<now, cycles, events, reports, lock, rpc, rtx>>
    BY <1>6, PlanFrame
  <2>2. /\ Continues(MissedRows(tx[p].scope, k), Len(cycles[tx[p].scope]), now, FALSE)
        /\ Len(MissedRows(tx[p].scope, k)) = k - 1 - Len(cycles[tx[p].scope])
    BY <1>1, <2>1, MissedRowsContinue, MissedRowsType
  <2>3. Continues(tx'[p].rows, Len(cycles'[tx'[p].scope]), now', pc'[p] = "commit")
    BY <2>1, <2>2 DEF Continues
  <2>4. pc'[p] = "commit" => tx'[p].rows # <<>> /\ reports' = {}
    BY <2>1 DEF InsertAllowed
  <2>5. pc'[p] # "commit" => tx'[p].seq = Len(cycles'[tx'[p].scope]) + Len(tx'[p].rows) + 1
    BY <1>1, <2>1, <2>2
  <2> QED
    BY <2>1, <2>3, <2>4, <2>5 DEF RowsContinueLedger
<1>7. ASSUME NEW p \in Workers, ExecutorStep(p)
      PROVE  RowsContinueLedger'
  <2>1. /\ pc[p] \in Executing /\ pc'[p] \in Executing \union {"insert"}
        /\ \A q \in Workers \ {p} : Kept(q)
        /\ tx'[p].live = tx[p].live /\ tx'[p].scope = tx[p].scope
        /\ tx'[p].rows = tx[p].rows /\ tx'[p].seq = tx[p].seq
        /\ UNCHANGED <<now, cycles, reports>>
    BY <1>7, ExecutorFrame
  <2>2. (pc[p] = "commit") = FALSE /\ (pc'[p] = "commit") = FALSE
    BY <2>1 DEF Executing
  <2>3. pc[p] \in InTransaction /\ pc[p] # "commit" /\ pc'[p] # "commit"
    BY <2>1, <2>2 DEF InTransaction
  <2>4. tx[p].live =>
           LET n == Len(cycles[tx[p].scope])
           IN  /\ Continues(tx[p].rows, n, now, FALSE)
               /\ tx[p].seq = n + Len(tx[p].rows) + 1
    BY <2>2, <2>3 DEF RowsContinueLedger
  <2> QED
    BY <2>1, <2>2, <2>3, <2>4 DEF RowsContinueLedger
<1>8. ASSUME NEW p \in Workers, InsertResult(p), ~Rollback(p)
      PROVE  RowsContinueLedger'
  <2> DEFINE row == AttemptRow(tx[p].seq, tx[p].startedAt, tx[p].cause)
             n == Len(cycles[tx[p].scope])
             m == Len(tx[p].rows)
  <2>1. /\ pc[p] = "insert" /\ pc'[p] = "commit" /\ tx[p].live
        /\ InsertAllowed(tx[p].scope, tx[p].rows, row)
        /\ \A q \in Workers \ {p} : pc'[q] = pc[q] /\ tx'[q] = tx[q]
        /\ tx'[p].live = tx[p].live
        /\ tx'[p].scope = tx[p].scope
        /\ tx'[p].rows = Append(tx[p].rows, row)
        /\ UNCHANGED <<now, cycles, reports>>
    BY <1>8, InsertFrame
  <2>2. row \in Row /\ row.seq = tx[p].seq /\ row.outcome \in {"success", "failure"}
        /\ row.startedAt = tx[p].startedAt
    BY <1>1, AttemptRowType DEF AttemptRow
  <2> HIDE DEF row
  <2>3. Continues(tx[p].rows, n, now, FALSE)
    BY <2>1 DEF RowsContinueLedger, InTransaction
  <2>4. n + m + 1 <= Slots /\ RowOfSlot(row, n + m + 1, now) /\ reports = {}
    <3>1. row.seq = n + m + 1 /\ row.seq <= Slots /\ reports = {}
      BY <1>1, <2>1, <2>2, InsertAllowedFacts
    <3>2. row.startedAt \in Expected(row.seq)..SlotEnd(row.seq) /\ row.startedAt <= now
      BY <1>1, <2>1, <2>2, InsertAllowedFacts
    <3> QED
      BY <2>2, <3>1, <3>2 DEF RowOfSlot
  <2>5. Continues(Append(tx[p].rows, row), n, now, TRUE)
    BY <1>1, <2>2, <2>3, <2>4, ContinuesAppend
  <2>6. Append(tx[p].rows, row) # <<>>
    BY <1>1, <2>2
  <2> QED
    BY <2>1, <2>4, <2>5, <2>6 DEF RowsContinueLedger
<1>9. ASSUME NEW p \in Workers, Commit(p)
      PROVE  RowsContinueLedger'
  <2>1. lock = p
    BY <1>9, ControlType DEF Commit, LockHeld, InTransaction
  <2>2. \A q \in Workers : Out(q)
    BY <1>9, <2>1, RollbackFrame DEF LockHeld
  <2> QED
    BY <2>2 DEF RowsContinueLedger
<1>10. ASSUME NEW r \in Reporters, CommitReport(r)
       PROVE  RowsContinueLedger'
  <2>1. lock = r /\ UNCHANGED <<pc, tx>>
    BY <1>10 DEF CommitReport, LockHeld, wvars
  <2>2. \A q \in Workers : Out(q)
    BY <2>1, ProcAssumption DEF LockHeld
  <2> QED
    BY <2>2 DEF RowsContinueLedger
<1>11. CASE UNCHANGED <<now, cycles, reports, pc, tx>>
  BY <1>2, <1>11
<1> QED
  BY <1>3, <1>4, <1>5, <1>6, <1>7, <1>8, <1>9, <1>10, <1>11
  DEF Next, WorkerStep, ExecutorStep, LockTimeout, Crash, ReporterStep, ReporterCrash, vars,
      db, wvars, RecordBridgeEvent, BeginReport, Checkpoint, Build, TakeSnapshot,
      LockForReport, InsertReport, StopReport

(* The final report: it is the first, and complete. *)

LEMMA GraceEndType == GraceEnd \in Nat /\ GraceEnd' = GraceEnd
<1>1. PlannedEnd \in Nat
  BY SlotsAssumption, ExpectedType DEF PlannedEnd
<1> QED
  BY <1>1, IntervalAssumption DEF GraceEnd, PlannedEnd, Expected

LEMMA AttemptStartType ==
    ASSUME NEW c \in [Scopes -> Seq(Row)], NEW s \in Scopes, NEW row \in AttemptsOf(c)[s]
    PROVE  row.startedAt \in Nat
<1>1. row \in Range(c[s])
  BY DEF AttemptsOf
<1>2. row \in Row
  BY <1>1 DEF Range
<1> QED
  BY <1>2 DEF Row

LEMMA ReportIsFirstInvariance ==
    ASSUME TypeOK, LockHeld, ReportIsFirst, [Next]_vars
    PROVE  ReportIsFirst'
<1>1. now \in Nat /\ GraceEnd \in Nat
  <2>1. PlannedEnd \in Nat
    BY SlotsAssumption, ExpectedType DEF PlannedEnd
  <2> QED
    BY <2>1, BoundAssumption, IntervalAssumption DEF TypeOK, Times, GraceEnd
<1>2. CASE Tick
  <2>1. now' = now + 1 /\ UNCHANGED <<reports, rpc>>
    BY <1>2 DEF Tick, db, rvars
  <2>2. GraceEnd' = GraceEnd
    BY DEF GraceEnd, PlannedEnd, Expected
  <2> QED
    BY <1>1, <2>1, <2>2 DEF ReportIsFirst
<1>3. CASE UNCHANGED <<now, reports, rpc>>
  BY <1>3 DEF ReportIsFirst, GraceEnd, PlannedEnd, Expected
<1>4. ASSUME NEW r \in Reporters, StopReport(r) \/ BeginReport(r) \/ Build(r)
                                  \/ TakeSnapshot(r) \/ LockForReport(r)
      PROVE  ReportIsFirst'
  <2>1. UNCHANGED <<now, reports>>
    BY <1>4 DEF StopReport, BeginReport, Build, TakeSnapshot, LockForReport, db
  <2>2. \A q \in Reporters : rpc'[q] # "storeCommit" \/ rpc'[q] = rpc[q]
    BY <1>4, ControlType DEF StopReport, BeginReport, Build, TakeSnapshot, LockForReport
  <2>3. \A q \in Reporters : rpc'[q] = "idle" \/ rpc[q] # "idle" \/ now >= GraceEnd
    BY <1>4, ControlType DEF StopReport, BeginReport, Build, TakeSnapshot, LockForReport
  <2> QED
    BY <2>1, <2>2, <2>3 DEF ReportIsFirst, GraceEnd, PlannedEnd, Expected
<1>5. ASSUME NEW r \in Reporters, Checkpoint(r) \/ InsertReport(r), ~StopReport(r)
      PROVE  ReportIsFirst'
  <2>1. UNCHANGED <<now, reports>> /\ rpc[r] # "idle"
    BY <1>5 DEF Checkpoint, InsertReport, db
  <2>2. \A q \in Reporters \ {r} : rpc'[q] = rpc[q]
    BY <1>5, ControlType DEF Checkpoint, InsertReport
  <2>3. rpc'[r] = "storeCommit" => reports = {}
    BY <1>5, ControlType DEF Checkpoint, InsertReport, ReportAllowed, ReportIsUnique
  <2> QED
    BY <2>1, <2>2, <2>3 DEF ReportIsFirst, GraceEnd, PlannedEnd, Expected
<1>6. ASSUME NEW r \in Reporters, CommitReport(r)
      PROVE  ReportIsFirst'
  <2>1. lock = r /\ rpc'[r] = "idle" /\ now' = now
    BY <1>6, ControlType DEF CommitReport, LockHeld
  <2>2. \A q \in Reporters \ {r} : rpc'[q] = rpc[q] /\ rpc[q] # "storeCommit"
    BY <1>6, <2>1, ControlType DEF CommitReport, LockHeld
  <2> QED
    BY <2>1, <2>2 DEF ReportIsFirst, GraceEnd, PlannedEnd, Expected
<1>7. ASSUME NEW p \in Workers, WorkerStep(p) \/ Rollback(p) \/ SessionEnds(p)
                                \/ (\E s \in Scopes : Begin(p, s))
      PROVE  UNCHANGED <<now, reports, rpc>>
  BY <1>7 DEF WorkerStep, Rollback, SessionEnds, Begin, LockCampaign, LockTimeout, Plan,
              FetchBatch, IngestBatch, AnalysisFails, RecordReport, InsertResult, Commit,
              db, rvars
<1> QED
  BY <1>2, <1>3, <1>4, <1>5, <1>6, <1>7
  DEF Next, Crash, ReporterStep, ReporterCrash, vars, db, rvars, RecordBridgeEvent

ReportUnderWay == reports # {} \/ \E r \in Reporters : rpc[r] \in Reporting
Late(p) ==
    tx[p].live =>
        /\ pc[p] \in Executing \union {"insert"} => tx[p].startedAt >= GraceEnd
        /\ pc[p] = "commit" => \A row \in Range(tx[p].rows) : LateStart(row)

LEMMA AttemptsAreLateInvariance ==
    ASSUME TypeOK, LockHeld, RowsContinueLedger, ReportIsFirst, ReportIsFirst',
           AttemptsAreLate, [Next]_vars
    PROVE  AttemptsAreLate'
<1>0. /\ now \in Nat /\ GraceEnd \in Nat /\ GraceEnd' = GraceEnd
      /\ cycles \in [Scopes -> Seq(Row)]
      /\ \A p \in Workers : /\ tx[p].scope \in Scopes
                            /\ tx[p].rows \in Seq(Row)
                            /\ tx[p].startedAt \in Times
                            /\ tx[p].seq \in Nat
                            /\ tx[p].cause \in Causes
                            /\ Len(tx[p].rows) \in Nat
                            /\ Len(cycles[tx[p].scope]) \in Nat
  <2>1. PlannedEnd \in Nat
    BY SlotsAssumption, ExpectedType DEF PlannedEnd
  <2> QED
    BY <2>1, BoundAssumption, IntervalAssumption DEF TypeOK, Times, GraceEnd, PlannedEnd, Expected, Tx
<1>1. ReportUnderWay => now >= GraceEnd /\ \A p \in Workers : Late(p)
  BY DEF AttemptsAreLate, ReportUnderWay, Late
<1>2. SUFFICES ASSUME ReportUnderWay'
               PROVE  now' >= GraceEnd /\ \A p \in Workers : Late(p)'
  BY <1>0 DEF AttemptsAreLate, ReportUnderWay, Late, LateStart
<1>3. ASSUME UNCHANGED <<reports, rpc>>
      PROVE  ReportUnderWay
  BY <1>2, <1>3 DEF ReportUnderWay
<1>4. ASSUME ReportUnderWay, UNCHANGED now,
             \A q \in Workers : \/ pc'[q] = pc[q] /\ tx'[q] = tx[q]
                               \/ ~tx'[q].live
                               \/ pc'[q] \notin InTransaction
      PROVE  now' >= GraceEnd /\ \A p \in Workers : Late(p)'
  BY <1>0, <1>1, <1>4 DEF Late, InTransaction, Executing, LateStart
<1>5. CASE Tick
  <2>1. ReportUnderWay /\ now' = now + 1 /\ UNCHANGED <<pc, tx>>
    BY <1>3, <1>5 DEF Tick, db, rvars, wvars
  <2>2. \A p \in Workers : Late(p)'
    BY <1>0, <1>1, <2>1 DEF Late, LateStart
  <2> QED
    BY <1>0, <1>1, <2>1, <2>2
<1>6. ASSUME NEW p \in Workers, Rollback(p) \/ Commit(p)
      PROVE  now' >= GraceEnd /\ \A q \in Workers : Late(q)'
  BY <1>3, <1>4, <1>6, RollbackFrame
<1>7. ASSUME NEW p \in Workers,
             LockCampaign(p) \/ SessionEnds(p) \/ (\E s \in Scopes : Begin(p, s))
      PROVE  now' >= GraceEnd /\ \A q \in Workers : Late(q)'
  <2>1. \A q \in Workers : \/ pc'[q] = pc[q] /\ tx'[q] = tx[q]
                          \/ ~tx'[q].live
                          \/ pc'[q] \notin InTransaction
    BY <1>7, ControlType DEF LockCampaign, SessionEnds, Begin, InTransaction, Executing, Tx
  <2>2. UNCHANGED <<now, reports, rpc>>
    BY <1>7 DEF LockCampaign, SessionEnds, Begin, db, rvars
  <2> QED
    BY <1>3, <1>4, <2>1, <2>2
<1>8. ASSUME NEW p \in Workers, Plan(p), ~Rollback(p)
      PROVE  now' >= GraceEnd /\ \A q \in Workers : Late(q)'
  <2>1. PICK k \in 1..(Slots + 1) :
           /\ CatchesUpTo(tx[p].scope, k)
           /\ \A q \in Workers \ {p} : pc'[q] = pc[q] /\ tx'[q] = tx[q]
           /\ tx'[p].startedAt = now
           /\ tx'[p].rows = MissedRows(tx[p].scope, k)
           /\ UNCHANGED <<now, reports, rpc>>
    BY <1>8, PlanFrame
  <2>2. ReportUnderWay /\ now >= GraceEnd /\ \A q \in Workers : Late(q)
    BY <1>1, <1>3, <2>1
  <2>3. \A row \in Range(MissedRows(tx[p].scope, k)) : row.outcome = "missed"
    <3>1. Continues(MissedRows(tx[p].scope, k), Len(cycles[tx[p].scope]), now, FALSE)
      BY <1>0, <2>1, MissedRowsContinue
    <3>2. MissedRows(tx[p].scope, k) \in Seq(Row)
      BY <1>0, <2>1, MissedRowsType
    <3> QED
      BY <3>1, <3>2 DEF Continues, Range
  <2>4. Late(p)'
    BY <1>0, <2>1, <2>2, <2>3 DEF Late, LateStart
  <2>5. \A q \in Workers \ {p} : Late(q)'
    BY <1>0, <2>1, <2>2 DEF Late, LateStart
  <2> QED
    BY <2>1, <2>2, <2>4, <2>5
<1>9. ASSUME NEW p \in Workers, ExecutorStep(p)
      PROVE  now' >= GraceEnd /\ \A q \in Workers : Late(q)'
  <2>1. /\ pc[p] \in Executing /\ pc'[p] \in Executing \union {"insert"}
        /\ \A q \in Workers \ {p} : pc'[q] = pc[q] /\ tx'[q] = tx[q]
        /\ tx'[p].live = tx[p].live
        /\ tx'[p].startedAt = tx[p].startedAt
        /\ UNCHANGED <<now, reports, rpc>>
    BY <1>9, ExecutorFrame
  <2>2. ReportUnderWay /\ now >= GraceEnd /\ \A q \in Workers : Late(q)
    BY <1>1, <1>3, <2>1
  <2>3. Late(p)'
    BY <1>0, <2>1, <2>2 DEF Late, Executing
  <2>4. \A q \in Workers \ {p} : Late(q)'
    BY <1>0, <2>1, <2>2 DEF Late, LateStart
  <2> QED
    BY <2>1, <2>2, <2>3, <2>4
<1>10. ASSUME NEW p \in Workers, InsertResult(p), ~Rollback(p)
       PROVE  now' >= GraceEnd /\ \A q \in Workers : Late(q)'
  <2> DEFINE row == AttemptRow(tx[p].seq, tx[p].startedAt, tx[p].cause)
  <2>1. /\ pc[p] = "insert" /\ pc'[p] = "commit" /\ tx[p].live
        /\ \A q \in Workers \ {p} : pc'[q] = pc[q] /\ tx'[q] = tx[q]
        /\ tx'[p].rows = Append(tx[p].rows, row)
        /\ UNCHANGED <<now, reports, rpc>>
    BY <1>10, InsertFrame
  <2>2. row \in Row /\ row.startedAt = tx[p].startedAt
    BY <1>0, AttemptRowType DEF AttemptRow
  <2> HIDE DEF row
  <2>3. ReportUnderWay /\ now >= GraceEnd /\ \A q \in Workers : Late(q)
    BY <1>1, <1>3, <2>1
  <2>4. row.startedAt >= GraceEnd
    BY <2>1, <2>2, <2>3 DEF Late
  <2>5. \A i \in 1..Len(tx[p].rows) : tx[p].rows[i].outcome = "missed"
    BY <2>1 DEF RowsContinueLedger, InTransaction, Continues
  <2>6. \A r \in Range(Append(tx[p].rows, row)) :
           r = row \/ \E i \in 1..Len(tx[p].rows) : r = tx[p].rows[i]
    BY <1>0, <2>2 DEF Range
  <2>7. Late(p)'
    BY <1>0, <2>1, <2>4, <2>5, <2>6 DEF Late, LateStart, Executing
  <2>8. \A q \in Workers \ {p} : Late(q)'
    BY <1>0, <2>1, <2>3 DEF Late, LateStart
  <2> QED
    BY <2>1, <2>3, <2>7, <2>8
<1>11. ASSUME NEW r \in Reporters, Checkpoint(r)
       PROVE  now' >= GraceEnd /\ \A q \in Workers : Late(q)'
  <2>1. now' = now /\ now >= GraceEnd /\ UNCHANGED <<pc, tx>>
    BY <1>11 DEF Checkpoint, StopReport, ReportIsFirst, wvars
  <2>2. \A q \in Workers : tx[q].live => pc[q] \notin InTransaction
    BY <1>11, ProcAssumption DEF Checkpoint, LockHeld
  <2> QED
    BY <2>1, <2>2 DEF Late, InTransaction
<1>12. ASSUME NEW r \in Reporters,
              StopReport(r) \/ BeginReport(r) \/ Build(r) \/ TakeSnapshot(r)
              \/ LockForReport(r) \/ InsertReport(r) \/ CommitReport(r)
       PROVE  now' >= GraceEnd /\ \A q \in Workers : Late(q)'
  <2>1. ReportUnderWay
    BY <1>2, <1>12, ControlType
    DEF ReportUnderWay, Reporting, StopReport, BeginReport, Build, TakeSnapshot,
        LockForReport, InsertReport, CommitReport, db
  <2>2. UNCHANGED <<now, pc, tx>>
    BY <1>12 DEF StopReport, BeginReport, Build, TakeSnapshot, LockForReport,
                 InsertReport, CommitReport, wvars
  <2> QED
    BY <1>4, <2>1, <2>2
<1>13. CASE UNCHANGED <<now, reports, rpc, pc, tx>>
  BY <1>3, <1>4, <1>13
<1> QED
  BY <1>5, <1>6, <1>7, <1>8, <1>9, <1>10, <1>11, <1>12, <1>13
  DEF Next, WorkerStep, ExecutorStep, LockTimeout, Crash, ReporterStep, ReporterCrash,
      vars, db, wvars, rvars, RecordBridgeEvent

LEMMA OnlyCommitWritesCycles ==
    ASSUME [Next]_vars
    PROVE  UNCHANGED cycles \/ \E p \in Workers : Commit(p)
BY DEF Next, WorkerStep, Begin, LockCampaign, LockTimeout, Plan, FetchBatch, IngestBatch,
       AnalysisFails, RecordReport, InsertResult, Crash, SessionEnds, Rollback,
       ReporterStep, ReporterCrash, BeginReport, Checkpoint, Build, TakeSnapshot,
       LockForReport, InsertReport, CommitReport, StopReport,
       Tick, RecordBridgeEvent, vars, db

(* Once a report is under way, an attempt that reaches the ledger started  *)
(* after the grace.                                                        *)
LEMMA NewAttemptsAreLate ==
    ASSUME TypeOK, LockHeld, AttemptsAreLate, ReportUnderWay, [Next]_vars
    PROVE  \A s \in Scopes : \A row \in AttemptsOf(cycles')[s] :
              row \in AttemptsOf(cycles)[s] \/ row.startedAt >= GraceEnd
<1>1. CASE UNCHANGED cycles
  BY <1>1
<1>2. ASSUME NEW p \in Workers, Commit(p)
      PROVE  \A s \in Scopes : \A row \in AttemptsOf(cycles')[s] :
                row \in AttemptsOf(cycles)[s] \/ row.startedAt >= GraceEnd
  <2>1. /\ pc[p] = "commit" /\ tx[p].live
        /\ tx[p].scope \in Scopes /\ tx[p].rows \in Seq(Row)
        /\ cycles \in [Scopes -> Seq(Row)]
    BY <1>2 DEF Commit, LockHeld, TypeOK, Tx
  <2>2. \A row \in Range(tx[p].rows) : LateStart(row)
    BY <2>1 DEF AttemptsAreLate, ReportUnderWay
  <2>3. \A s \in Scopes : s # tx[p].scope => cycles'[s] = cycles[s]
    BY <1>2, <2>1 DEF Commit
  <2>4. cycles'[tx[p].scope] = cycles[tx[p].scope] \o tx[p].rows
    BY <1>2, <2>1 DEF Commit
  <2>5. Range(cycles'[tx[p].scope]) = Range(cycles[tx[p].scope]) \union Range(tx[p].rows)
    BY <2>1, <2>4, RangeConcatenation
  <2> QED
    BY <2>1, <2>2, <2>3, <2>5 DEF AttemptsOf, LateStart
<1> QED
  BY <1>1, <1>2, OnlyCommitWritesCycles

LEMMA BuiltCoversInvariance ==
    ASSUME TypeOK, TypeOK', LockHeld, AttemptsAreLate, BuiltCoversAttempts, [Next]_vars
    PROVE  BuiltCoversAttempts'
<1> SUFFICES ASSUME NEW r \in Reporters, rpc'[r] \in Reporting \ {"build"},
                    NEW s \in Scopes, NEW row \in AttemptsOf(cycles')[s],
                    row.startedAt < GraceEnd
             PROVE  row \in rtx'[r].built.attempts[s]
  BY DEF BuiltCoversAttempts, Covers, GraceEnd, PlannedEnd, Expected
<1>1. CASE Build(r)
  <2>1. rtx'[r].built = ReportOf(Snapshot) /\ cycles' = cycles
    BY <1>1 DEF Build, TypeOK, Rtx, db
  <2>2. ReportOf(Snapshot).attempts = AttemptsOf(cycles)
    BY DEF ReportOf, Snapshot
  <2> QED
    BY <2>1, <2>2
<1>2. CASE ~Build(r)
  <2>1. rpc[r] \in Reporting \ {"build"} /\ rtx'[r].built = rtx[r].built
    <3>1. /\ rpc \in [Reporters -> ReporterStates]
          /\ rtx \in [Reporters -> Rtx]
      BY DEF TypeOK
    <3>2. ASSUME NEW q \in Reporters, StopReport(q) \/ BeginReport(q) \/ CommitReport(q)
          PROVE  rpc[r] \in Reporting \ {"build"} /\ rtx'[r].built = rtx[r].built
      BY <3>1, <3>2 DEF StopReport, BeginReport, CommitReport, Reporting
    <3>3. ASSUME NEW q \in Reporters, TakeSnapshot(q) \/ LockForReport(q)
          PROVE  rpc[r] \in Reporting \ {"build"} /\ rtx'[r].built = rtx[r].built
      BY <3>1, <3>3 DEF TakeSnapshot, LockForReport, Reporting, Rtx
    <3>4. ASSUME NEW q \in Reporters, InsertReport(q), ~StopReport(q)
          PROVE  rpc[r] \in Reporting \ {"build"} /\ rtx'[r].built = rtx[r].built
      BY <3>1, <3>4 DEF InsertReport, Reporting
    <3>5. ASSUME NEW q \in Reporters, Checkpoint(q), ~StopReport(q)
          PROVE  rpc[r] \in Reporting \ {"build"} /\ rtx'[r].built = rtx[r].built
      BY <3>1, <3>5 DEF Checkpoint, Reporting
    <3>6. ASSUME NEW q \in Reporters, q # r, Build(q)
          PROVE  rpc[r] \in Reporting \ {"build"} /\ rtx'[r].built = rtx[r].built
      BY <3>1, <3>6 DEF Build
    <3>7. ASSUME UNCHANGED <<rpc, rtx>>
          PROVE  rpc[r] \in Reporting \ {"build"} /\ rtx'[r].built = rtx[r].built
      BY <3>7
    <3> QED
      BY <1>2, <3>2, <3>3, <3>4, <3>5, <3>6, <3>7
      DEF Next, WorkerStep, Begin, LockCampaign, LockTimeout, Plan, FetchBatch, IngestBatch,
          AnalysisFails, RecordReport, InsertResult, Commit, Crash, SessionEnds, Rollback,
          ReporterStep, ReporterCrash, Tick, RecordBridgeEvent, vars, rvars
  <2>2. row \in AttemptsOf(cycles)[s]
    <3>1. row \in AttemptsOf(cycles)[s] \/ row.startedAt >= GraceEnd
      BY <2>1, NewAttemptsAreLate DEF ReportUnderWay
    <3>2. row.startedAt \in Nat
      BY AttemptStartType DEF TypeOK
    <3> QED
      BY <3>1, <3>2, GraceEndType
  <2> QED
    BY <2>1, <2>2 DEF BuiltCoversAttempts, Covers
<1> QED
  BY <1>1, <1>2

LEMMA ReportCoversInvariance ==
    ASSUME TypeOK, TypeOK', LockHeld, AttemptsAreLate, BuiltCoversAttempts,
           ReportCoversAttempts, [Next]_vars
    PROVE  ReportCoversAttempts'
<1> SUFFICES ASSUME NEW report \in reports',
                    NEW s \in Scopes, NEW row \in AttemptsOf(cycles')[s],
                    row.startedAt < GraceEnd
             PROVE  row \in report.attempts[s]
  BY GraceEndType DEF ReportCoversAttempts
<1>1. row.startedAt \in Nat
  BY AttemptStartType DEF TypeOK
<1>2. CASE report \in reports
  <2>1. row \in AttemptsOf(cycles)[s]
    BY <1>1, <1>2, NewAttemptsAreLate, GraceEndType DEF ReportUnderWay
  <2> QED
    BY <1>2, <2>1 DEF ReportCoversAttempts
<1>3. CASE report \notin reports
  <2>1. PICK r \in Reporters : CommitReport(r)
    BY <1>3
    DEF Next, WorkerStep, Begin, LockCampaign, LockTimeout, Plan, FetchBatch, IngestBatch,
        AnalysisFails, RecordReport, InsertResult, Commit, Crash, SessionEnds, Rollback,
        ReporterStep, ReporterCrash, BeginReport, Checkpoint, Build, TakeSnapshot,
        LockForReport, InsertReport, StopReport, Tick, RecordBridgeEvent, vars, db
  <2>2. report.attempts = rtx[r].built.attempts /\ cycles' = cycles
    BY <1>3, <2>1 DEF CommitReport
  <2>3. rpc[r] \in Reporting \ {"build"}
    BY <2>1 DEF CommitReport, Reporting
  <2> QED
    BY <2>2, <2>3 DEF BuiltCoversAttempts, Covers
<1> QED
  BY <1>2, <1>3

-----------------------------------------------------------------------------
(* The theorems. *)

IInv == TypeOK /\ LedgerInvariant /\ ReportCoversAttempts

LEMMA InitInvariant == Init => IInv
<1> SUFFICES ASSUME Init PROVE IInv
  OBVIOUS
<1>1. TypeOK
  BY NoTxType, NoRtxType, BoundAssumption, ProcAssumption
  DEF Init, TypeOK, Times, Events, WorkerStates, ReporterStates
<1>2. ExecutesSlot /\ LockHeld /\ RowsContinueLedger
  BY DEF Init, ExecutesSlot, LockHeld, RowsContinueLedger, InTransaction, Executing
<1>3. ReportIsFirst /\ AttemptsAreLate /\ BuiltCoversAttempts
  BY DEF Init, ReportIsFirst, AttemptsAreLate, BuiltCoversAttempts, Reporting
<1>4. ReportCoversAttempts
  BY DEF Init, ReportCoversAttempts
<1> QED
  BY <1>1, <1>2, <1>3, <1>4 DEF IInv, LedgerInvariant

(* Every step of a worker, of a reporter, of the verifier and of the clock *)
(* preserves the strengthened invariant.                                   *)
THEOREM LedgerInvariantIsInductive == IInv /\ [Next]_vars => IInv'
<1> SUFFICES ASSUME IInv, [Next]_vars PROVE IInv'
  OBVIOUS
<1> USE DEF IInv, LedgerInvariant
<1>1. TypeOK'
  BY TypeInvariance
<1>2. ExecutesSlot' /\ LockHeld' /\ RowsContinueLedger'
  BY ExecutesSlotInvariance, LockHeldInvariance, RowsContinueInvariance
<1>3. ReportIsFirst'
  BY ReportIsFirstInvariance
<1>4. AttemptsAreLate'
  BY <1>3, AttemptsAreLateInvariance
<1>5. BuiltCoversAttempts' /\ ReportCoversAttempts'
  BY <1>1, BuiltCoversInvariance, ReportCoversInvariance
<1> QED
  BY <1>1, <1>2, <1>3, <1>4, <1>5

(* The inductive invariant holds in every state of the campaign.           *)
THEOREM LedgerIsInvariant == Spec => []IInv
BY InitInvariant, LedgerInvariantIsInductive, PTL DEF Spec

(* Type correctness.                                                       *)
THEOREM LedgerTypeCorrect == Spec => []TypeOK
<1>1. IInv => TypeOK
  BY DEF IInv
<1> QED
  BY <1>1, LedgerIsInvariant, PTL

(* A worker whose session lives still works on the next slot of its scope  *)
(* when the executor returns, for any number of competing workers.         *)
THEOREM PlansStayCurrent == Spec => []PlanStaysCurrent
<1>1. IInv => PlanStaysCurrent
  BY DEF IInv, LedgerInvariant, TypeOK, Tx, RowsContinueLedger, PlanStaysCurrent,
         LastSeq, InTransaction, Executing
<1> QED
  BY <1>1, LedgerIsInvariant, PTL

(* The final report contains every attempt that started before the grace   *)
(* was over, although it is computed from a snapshot older than its lock.  *)
THEOREM ReportsCoverAttempts == Spec => []ReportCoversAttempts
<1>1. IInv => ReportCoversAttempts
  BY DEF IInv
<1> QED
  BY <1>1, LedgerIsInvariant, PTL

-----------------------------------------------------------------------------
(* After the final report, and against the abstract specification. *)

LEMMA CommitIsBeforeReport ==
    ASSUME IInv, NEW p \in Workers, Commit(p)
    PROVE  reports = {} /\ tx[p].live
BY DEF IInv, LedgerInvariant, LockHeld, RowsContinueLedger, Commit, InTransaction

LEMMA OnlyCommitReportWritesReports ==
    ASSUME [Next]_vars
    PROVE  UNCHANGED reports \/ \E r \in Reporters : CommitReport(r)
BY DEF Next, WorkerStep, Begin, LockCampaign, LockTimeout, Plan, FetchBatch, IngestBatch,
       AnalysisFails, RecordReport, InsertResult, Commit, Crash, SessionEnds, Rollback,
       ReporterStep, ReporterCrash, BeginReport, Checkpoint, Build, TakeSnapshot,
       LockForReport, InsertReport, StopReport, Tick, RecordBridgeEvent, vars, db

(* No command of any process changes the ledger, the signed journal or the *)
(* report once the final report is committed.                              *)
THEOREM FinalLedgerStaysFrozen == Spec => FinalLedgerIsFrozen
<1>1. ASSUME IInv, [Next]_vars, reports # {}
      PROVE  UNCHANGED <<cycles, events, reports>>
  <2>1. UNCHANGED cycles
    BY <1>1, OnlyCommitWritesCycles, CommitIsBeforeReport
  <2>2. UNCHANGED reports
    BY <1>1, OnlyCommitReportWritesReports
    DEF IInv, LedgerInvariant, ReportIsFirst, CommitReport
  <2>3. UNCHANGED events
    BY <1>1
    DEF Next, WorkerStep, Begin, LockCampaign, LockTimeout, Plan, FetchBatch, IngestBatch,
        AnalysisFails, RecordReport, InsertResult, Commit, Crash, SessionEnds, Rollback,
        ReporterStep, ReporterCrash, BeginReport, Checkpoint, Build, TakeSnapshot,
        LockForReport, InsertReport, CommitReport, StopReport, Tick, RecordBridgeEvent,
        vars, db
  <2> QED
    BY <2>1, <2>2, <2>3
<1>2. IInv /\ [Next]_vars => [reports # {} => UNCHANGED <<cycles, events, reports>>]_vars
  BY <1>1
<1> QED
  BY <1>2, LedgerIsInvariant, PTL DEF Spec, FinalLedgerIsFrozen

DecisionOf(row) == [outcome |-> row.outcome, at |-> row.startedAt]
DecidedBy(rows) == [k \in 1..Len(rows) |-> DecisionOf(rows[k])]

LEMMA DecidedByType ==
    ASSUME NEW rows \in Seq(Row)
    PROVE  /\ Len(DecidedBy(rows)) = Len(rows)
           /\ \A k \in 1..Len(rows) : DecidedBy(rows)[k] = DecisionOf(rows[k])
<1> DEFINE n == Len(rows)
           S == [outcome : Outcomes, at : Nat]
           f == [k \in 1..n |-> DecisionOf(rows[k])]
<1>1. n \in Nat /\ \A k \in 1..n : DecisionOf(rows[k]) \in S
  <2>1. ASSUME NEW row \in Row
        PROVE  DecisionOf(row) \in S
    BY DEF DecisionOf, Row
  <2>2. n \in Nat /\ \A k \in 1..n : rows[k] \in Row
    OBVIOUS
  <2> HIDE DEF n, S
  <2> QED
    BY <2>1, <2>2
<1> HIDE DEF n, S
<1>2. f \in Seq(S) /\ Len(f) = n
  BY <1>1, IsASeq
<1> QED
  BY <1>2 DEF DecidedBy, n

AllowedDecision(d, k, t, last) ==
    \/ d = Schedule!Missed /\ t > Schedule!Elapses(k)
    \/ d \in Schedule!Attempts(k) /\ d.at <= t /\ last

LEMMA RowIsAllowedDecision ==
    ASSUME NEW row \in Row, NEW k \in Nat, NEW t \in Nat, RowOfSlot(row, k, t)
    PROVE  AllowedDecision(DecisionOf(row), k, t, row.outcome # "missed")
<1>1. Expected(k) = Schedule!Opens(k) /\ SlotEnd(k) = Schedule!Elapses(k)
  BY DEF Expected, SlotEnd, Schedule!Opens, Schedule!Elapses
<1>2. CASE row.outcome = "missed"
  BY <1>1, <1>2 DEF RowOfSlot, DecisionOf, Schedule!Missed, AllowedDecision
<1>3. CASE row.outcome # "missed"
  <2>1. /\ row.outcome \in {"success", "failure"}
        /\ row.startedAt \in Expected(k)..SlotEnd(k)
        /\ row.startedAt <= t
    BY <1>3 DEF RowOfSlot
  <2> QED
    BY <1>1, <1>3, <2>1 DEF DecisionOf, Schedule!Attempts, AllowedDecision
<1> QED
  BY <1>2, <1>3

(* Rows that continue a ledger are one decision of the abstract schedule.  *)
LEMMA ContinuationDecides ==
    ASSUME NEW old \in Seq(Row), NEW rows \in Seq(Row), NEW t \in Nat,
           Continues(rows, Len(old), t, TRUE), rows # <<>>
    PROVE  LET d == DecidedBy(old)
               e == DecidedBy(old \o rows)
           IN  /\ Len(e) \in (Len(d) + 1)..Slots
               /\ \A k \in 1..Len(d) : e[k] = d[k]
               /\ \A k \in (Len(d) + 1)..Len(e) :
                     AllowedDecision(e[k], k, t, k = Len(e))
<1> DEFINE n == Len(old)
           m == Len(rows)
           new == old \o rows
<1>1. n \in Nat /\ m \in Nat \ {0}
  BY EmptySeq
<1>2. /\ n + m <= Slots
      /\ \A i \in 1..m : RowOfSlot(rows[i], n + i, t)
      /\ \A i \in 1..m : rows[i].outcome # "missed" => i = m
  BY DEF Continues
<1>3. /\ new \in Seq(Row) /\ Len(new) = n + m
      /\ \A k \in 1..(n + m) : new[k] = IF k <= n THEN old[k] ELSE rows[k - n]
  BY ConcatProperties
<1>4. /\ Len(DecidedBy(old)) = n
      /\ \A k \in 1..n : DecidedBy(old)[k] = DecisionOf(old[k])
  BY DecidedByType
<1> HIDE DEF n, m, new
<1>5. /\ Len(DecidedBy(new)) = n + m
      /\ \A k \in 1..(n + m) : DecidedBy(new)[k] = DecisionOf(new[k])
  BY <1>3, DecidedByType
<1>6. \A k \in 1..n : DecidedBy(new)[k] = DecidedBy(old)[k]
  BY <1>1, <1>3, <1>4, <1>5
<1>7. ASSUME NEW k \in (n + 1)..(n + m)
      PROVE  AllowedDecision(DecidedBy(new)[k], k, t, k = n + m)
  <2>1. /\ k - n \in 1..m /\ n + (k - n) = k /\ k \in Nat
        /\ new[k] = rows[k - n] /\ DecidedBy(new)[k] = DecisionOf(rows[k - n])
    BY <1>1, <1>3, <1>5
  <2>2. rows[k - n] \in Row
    BY <2>1 DEF m
  <2>3. RowOfSlot(rows[k - n], k, t)
    BY <1>1, <1>2, <2>1
  <2>4. rows[k - n].outcome # "missed" => k = n + m
    BY <1>1, <1>2, <2>1
  <2>5. AllowedDecision(DecisionOf(rows[k - n]), k, t, rows[k - n].outcome # "missed")
    BY <2>1, <2>2, <2>3, RowIsAllowedDecision
  <2> QED
    BY <2>1, <2>4, <2>5 DEF AllowedDecision
<1> QED
  BY <1>1, <1>2, <1>4, <1>5, <1>6, <1>7, SlotsAssumption DEF new

LEMMA CommitDecides ==
    ASSUME IInv, NEW p \in Workers, Commit(p)
    PROVE  Schedule!Decide(tx[p].scope)
<1> DEFINE s == tx[p].scope
           D == [r \in Scopes |-> DecidedBy(cycles[r])]
<1>1. /\ s \in Scopes /\ tx[p].rows \in Seq(Row) /\ now \in Nat
      /\ cycles \in [Scopes -> Seq(Row)] /\ cycles[s] \in Seq(Row)
  BY BoundAssumption DEF IInv, TypeOK, Tx, Times
<1>2. /\ reports = {} /\ Continues(tx[p].rows, Len(cycles[s]), now, TRUE)
      /\ tx[p].rows # <<>> /\ UNCHANGED <<now, reports>>
  BY CommitIsBeforeReport
  DEF IInv, LedgerInvariant, RowsContinueLedger, Commit, InTransaction
<1>3. cycles' = [cycles EXCEPT ![s] = @ \o tx[p].rows]
  BY DEF Commit
<1>4. D[s] = DecidedBy(cycles[s]) /\ D'[s] = DecidedBy(cycles[s] \o tx[p].rows)
  BY <1>1, <1>3
<1>5. \A r \in Scopes \ {s} : D'[r] = D[r]
  BY <1>1, <1>3
<1>6. /\ Len(D'[s]) \in (Len(D[s]) + 1)..Slots
      /\ \A k \in 1..Len(D[s]) : D'[s][k] = D[s][k]
      /\ \A k \in (Len(D[s]) + 1)..Len(D'[s]) :
            AllowedDecision(D'[s][k], k, now, k = Len(D'[s]))
  <2> HIDE DEF D, s
  <2>1. LET d == DecidedBy(cycles[s])
            e == DecidedBy(cycles[s] \o tx[p].rows)
        IN  /\ Len(e) \in (Len(d) + 1)..Slots
            /\ \A k \in 1..Len(d) : e[k] = d[k]
            /\ \A k \in (Len(d) + 1)..Len(e) :
                  AllowedDecision(e[k], k, now, k = Len(e))
    BY <1>1, <1>2, ContinuationDecides
  <2> QED
    BY <1>4, <2>1
<1> HIDE DEF D
<1>7. \A k \in (Len(D[s]) + 1)..Len(D'[s]) :
         \/ D'[s][k] = Schedule!Missed /\ now > Schedule!Elapses(k)
         \/ /\ D'[s][k] \in Schedule!Attempts(k)
            /\ D'[s][k].at <= now
            /\ k = Len(D'[s])
  BY <1>6 DEF AllowedDecision
<1> QED
  BY <1>1, <1>2, <1>5, <1>6, <1>7 DEF D, DecidedBy, DecisionOf, Schedule!Decide

(* The detailed ledger implements the frozen schedule.                     *)
THEOREM LedgerImplementsSchedule == Spec => ImplementsSchedule
<1>1. Init => Schedule!Init
  <2> SUFFICES ASSUME Init PROVE Schedule!Init
    OBVIOUS
  <2>1. \A s \in Scopes : cycles[s] = <<>>
    BY DEF Init
  <2>2. [k \in 1..Len(<<>>) |-> DecisionOf(<<>>[k])] = <<>>
    OBVIOUS
  <2> QED
    BY <2>1, <2>2 DEF Init, Schedule!Init, DecisionOf
<1>2. IInv /\ [Next]_vars => [Schedule!Next]_(Schedule!svars)
  <2> SUFFICES ASSUME IInv, [Next]_vars
               PROVE  [Schedule!Next]_(Schedule!svars)
    OBVIOUS
  <2>1. CASE Tick
    BY <2>1 DEF Tick, db, Schedule!Next, Schedule!Tick
  <2>2. ASSUME NEW p \in Workers, Commit(p)
        PROVE  Schedule!Next
    <3>1. tx[p].scope \in Scopes
      BY DEF IInv, TypeOK, Tx
    <3>2. Schedule!Decide(tx[p].scope)
      BY <2>2, CommitDecides
    <3> QED
      BY <3>1, <3>2 DEF Schedule!Next, Schedule!Decide
  <2>3. ASSUME NEW r \in Reporters, CommitReport(r)
        PROVE  Schedule!Next
    BY <2>3
    DEF IInv, LedgerInvariant, ReportIsFirst, CommitReport, GraceEnd, PlannedEnd, Expected,
        Schedule!Next, Schedule!Close, Schedule!Elapses
  <2>4. CASE UNCHANGED <<now, cycles, reports>>
    BY <2>4 DEF Schedule!svars
  <2> QED
    BY <2>1, <2>2, <2>3, <2>4
    DEF Next, WorkerStep, Begin, LockCampaign, LockTimeout, Plan, FetchBatch, IngestBatch,
        AnalysisFails, RecordReport, InsertResult, Crash, SessionEnds, Rollback,
        ReporterStep, ReporterCrash, BeginReport, Checkpoint, Build, TakeSnapshot,
        LockForReport, InsertReport, StopReport, RecordBridgeEvent, vars, db
<1> QED
  BY <1>1, <1>2, LedgerIsInvariant, PTL DEF Spec, ImplementsSchedule, Schedule!Spec
=============================================================================
