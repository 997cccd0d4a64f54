--------------------------- MODULE AnalysisRequest ---------------------------
(***************************************************************************)
(* One analysis from its request to its records.  POST /v1/analyze         *)
(* (api.py) hands an analysis to a thread and waits for it at most Work +  *)
(* Reserve + Grace ticks; the thread works against a deadline of its own   *)
(* (deadline.py), stores the report in SQLite (storage.py) and then its    *)
(* run in PostgreSQL (monitoring.py, postgres.py), two commits that        *)
(* nothing makes atomic.  A failed analysis leaves a failed run and an     *)
(* incident instead.  `monitor` (cli.py) does the same without a deadline. *)
(*                                                                         *)
(* A run writes at most one row that another run may be writing too: the   *)
(* incident of its code, or the alert of its evidence.  The first writer   *)
(* holds the unique key until its transaction ends, and the others wait.   *)
(***************************************************************************)
EXTENDS Naturals, FiniteSets

CONSTANTS
    Requests,     \* HTTP requests, each with its trace
    Monitors,     \* cycles of `monitor`, each with its trace
    Nobody,
    Work,         \* ticks an analysis may take
    Reserve,      \* ANALYSIS_TIMEOUT_RECORDING_RESERVE_SECONDS, in ticks
    Grace,        \* what the handler waits longer than that, in ticks
    BusyTimeout,  \* _DEFAULT_SQLITE_TIMEOUT_SECONDS, in ticks
    MinConnect,   \* the shortest budget a connection is opened with, in ticks
    Evidence,     \* what an analysis can have seen: data_snapshot_id
    MaxTime       \* bound: the clock stops here

Runs == Requests \union Monitors
ASSUME RunsAssumption == Requests \intersect Monitors = {} /\ Nobody \notin Runs
ASSUME TimesAssumption == /\ {Work, Reserve, Grace, BusyTimeout} \subseteq Nat \ {0}
                          /\ MinConnect \in Nat /\ MaxTime \in Nat

FailureCodes == {"TIMEOUT", "FAILED", "UNEXPECTED"}
Incidents == FailureCodes \union {"T4"}
ASSUME EvidenceAssumption == Evidence \intersect (Incidents \union {"none"}) = {}

VARIABLES
    now,
    handler,    \* what the caller of each run has heard
    start,      \* when each request began
    thread,     \* control of each analysis
    sqlite,     \* who holds the writer lock of the SQLite file
    reports,    \* research_reports, by trace
    key,        \* holder of each uncommitted incident or alert
    runs,       \* research_runs, by trace
    incidents,  \* data_quality_incident_events, by incident
    alerts      \* alerts with their outbox row: the run that made it

local == <<sqlite, reports>>
postgres == <<key, runs, incidents, alerts>>
vars == <<now, handler, start, thread, local, postgres>>

Keys == Incidents \union Evidence
Answers == {"200", "422", "500", "503", "504"}
Outcomes == {"none", "report", "timeout", "rejected", "unavailable", "error"}
Working == {"build", "fetch", "lock", "insert", "save", "saved"}
Recording == {"connect", "write", "check", "send", "commit"}

(* limit: the deadline in force; until: end of the wait for SQLite; code:  *)
(* the failure that is being recorded; touches: the shared row.            *)
Thread == [pc : {"none", "queued", "done"} \union Working \union Recording,
           limit : Nat, until : Nat, code : FailureCodes \union {"none"},
           touches : Keys \union {"none"}, entry : {"none", "first", "again"},
           result : Outcomes]

NoThread == [pc |-> "none", limit |-> 0, until |-> 0, code |-> "none",
             touches |-> "none", entry |-> "none", result |-> "none"]

TypeOK ==
    /\ now \in 0..MaxTime
    /\ handler \in [Runs -> {"new", "waiting", "narrating", "lost"} \union Answers]
    /\ start \in [Requests -> Nat]
    /\ thread \in [Runs -> Thread]
    /\ sqlite \in Runs \union {Nobody}
    /\ reports \subseteq Runs
    /\ key \in [Keys -> Runs \union {Nobody}]
    /\ runs \in [Runs -> {"none", "completed", "failed"}]
    /\ incidents \in [Incidents -> SUBSET ({"opened", "commented"} \X Runs)]
    /\ alerts \in [Evidence -> Runs \union {Nobody}]

Init ==
    /\ now = 0
    /\ handler = [r \in Runs |-> "new"]
    /\ start = [r \in Requests |-> 0]
    /\ thread = [r \in Runs |-> NoThread]
    /\ sqlite = Nobody
    /\ reports = {}
    /\ key = [k \in Keys |-> Nobody]
    /\ runs = [r \in Runs |-> "none"]
    /\ incidents = [k \in Incidents |-> {}]
    /\ alerts = [e \in Evidence |-> Nobody]

-----------------------------------------------------------------------------
(* The deadline. *)

(* ensure_analysis_deadline raises.  A cycle of `monitor` has no deadline. *)
Expired(r) == r \in Requests /\ now >= thread[r].limit

(* PsycopgConnectionFactory refuses to connect with so little time left.   *)
TooShort(r) == r \in Requests /\ now + MinConnect > thread[r].limit

Deadline(r) == start[r] + Work + Reserve

Tick == now < MaxTime /\ now' = now + 1
        /\ UNCHANGED <<handler, start, thread, local, postgres>>

-----------------------------------------------------------------------------
(* The thread. *)

At(r, pc) == thread[r].pc = pc
Goto(r, pc) == thread' = [thread EXCEPT ![r].pc = pc]
Ends(r, result) == thread' = [thread EXCEPT ![r].pc = "done", ![r].result = result]

(* run_monitored_analysis, its except clauses: the failure is recorded;    *)
(* after a timeout within a deadline of its own.                           *)
RecordingLimit(r) == IF Deadline(r) < now + Reserve THEN Deadline(r) ELSE now + Reserve
Failed(r, code) ==
    thread' = [thread EXCEPT ![r].pc = "connect", ![r].code = code,
                  ![r].touches = code,
                  ![r].limit = IF code = "TIMEOUT" THEN RecordingLimit(r) ELSE @]

(* The executor has a thread for the request, some time, and the deadline  *)
(* scope is entered: a request that waited too long ends at once.          *)
Take(r) ==
    /\ At(r, "queued")
    /\ IF Expired(r) THEN Ends(r, "timeout") ELSE Goto(r, "build")
    /\ UNCHANGED <<now, handler, start, local, postgres>>

(* build_orchestrator, the SQLite schema included, and                     *)
(* build_monitoring_repository: nothing that fails here is recorded.       *)
Build(r) ==
    /\ At(r, "build")
    /\ IF Expired(r) THEN Ends(r, "timeout")
       ELSE Goto(r, "fetch") \/ Ends(r, "rejected") \/ Ends(r, "unavailable")
    /\ UNCHANGED <<now, handler, start, local, postgres>>

(* ResearchOrchestrator.analyze until it saves: a report of good evidence, *)
(* worth an alert or not, a report of a provider error, or an exception.   *)
Analyze(r) ==
    /\ At(r, "fetch")
    /\ \/ Failed(r, "FAILED")
       \/ Failed(r, "UNEXPECTED")
       \/ IF Expired(r) THEN Failed(r, "TIMEOUT")
          ELSE \E touched \in {"none", "T4"} \union Evidence :
                  thread' = [thread EXCEPT ![r].pc = "lock", ![r].touches = touched,
                                ![r].until = now + BusyTimeout]
    /\ UNCHANGED <<now, handler, start, local, postgres>>

(* ReportRepository.save: BEGIN IMMEDIATE waits for the writer lock, at    *)
(* most for the busy timeout and the time that was left when it began.     *)
GetLock(r) ==
    /\ At(r, "lock")
    /\ sqlite = Nobody
    /\ sqlite' = r
    /\ Goto(r, "insert")
    /\ UNCHANGED <<now, handler, start, reports, postgres>>

NoLock(r) ==
    /\ At(r, "lock")
    /\ sqlite # Nobody
    /\ \/ Expired(r) /\ thread[r].limit < thread[r].until /\ Failed(r, "TIMEOUT")
       \/ /\ now >= thread[r].until
          /\ r \in Requests => thread[r].until <= thread[r].limit
          /\ Failed(r, "FAILED")
    /\ UNCHANGED <<now, handler, start, local, postgres>>

(* The rows are inserted and the deadline is looked at for the last time.  *)
InsertReport(r) ==
    /\ At(r, "insert")
    /\ \/ /\ \E code \in FailureCodes :
                (code = "TIMEOUT" => Expired(r)) /\ Failed(r, code)
          /\ sqlite' = Nobody
       \/ ~Expired(r) /\ Goto(r, "save") /\ UNCHANGED sqlite
    /\ UNCHANGED <<now, handler, start, reports, postgres>>

(* Mutant: the deadline is looked at once more after the commit.           *)
SaveReportThenCheck(r) ==
    /\ At(r, "save")
    /\ reports' = reports \union {r}
    /\ sqlite' = Nobody
    /\ IF Expired(r) THEN Failed(r, "TIMEOUT") ELSE Goto(r, "saved")
    /\ UNCHANGED <<now, handler, start, postgres>>

SaveReport(r) ==
    /\ At(r, "save")
    /\ \/ reports' = reports \union {r} /\ Goto(r, "saved")
       \/ Failed(r, "FAILED") /\ UNCHANGED reports
    /\ sqlite' = Nobody
    /\ UNCHANGED <<now, handler, start, postgres>>

(* The end of run_monitored_analysis, outside of its try: a timeout from   *)
(* here on is not recorded.                                                *)
Analyzed(r) ==
    /\ At(r, "saved")
    /\ IF Expired(r) THEN Ends(r, "timeout") ELSE Goto(r, "connect")
    /\ UNCHANGED <<now, handler, start, local, postgres>>

-----------------------------------------------------------------------------
(* The transaction of record_report or of record_failure.                  *)

Raised(code) == CASE code = "TIMEOUT" -> "timeout"
                  [] code = "FAILED" -> "rejected"
                  [] OTHER -> "error"

(* Mutant: no failure to record anything is reported.                      *)
UnrecordedIsFine(r) ==
    Ends(r, IF Expired(r) \/ thread[r].code = "TIMEOUT" THEN "timeout"
            ELSE IF thread[r].code = "none" THEN "report" ELSE Raised(thread[r].code))

(* The recording ends with an error.  That of a timeout is swallowed, any  *)
(* other takes the place of the failure.                                   *)
Unrecorded(r) ==
    Ends(r, IF Expired(r) \/ thread[r].code = "TIMEOUT" THEN "timeout" ELSE "unavailable")

Recorded(r) ==
    Ends(r, IF thread[r].code = "none" THEN "report" ELSE Raised(thread[r].code))

Released(r) == [k \in Keys |-> IF key[k] = r THEN Nobody ELSE key[k]]

Rollback(r) ==
    /\ Unrecorded(r)
    /\ key' = Released(r)
    /\ UNCHANGED <<runs, incidents, alerts>>

Connect(r) ==
    /\ At(r, "connect")
    /\ IF TooShort(r)
       THEN Ends(r, "timeout")
       ELSE Goto(r, "write") \/ Unrecorded(r)
    /\ UNCHANGED <<now, handler, start, local, postgres>>

(* Is the incident or the alert of key k stored already?  An alert that is *)
(* stored was made from the same evidence and is found to be the same.     *)
Stored(k) == IF k \in Incidents THEN incidents[k] # {} ELSE alerts[k] # Nobody

(* _open_incident and _enqueue_alert: INSERT ... ON CONFLICT DO NOTHING    *)
(* tells the first writer from the next ones.                              *)
Entry(k) == IF k = "none" THEN "none" ELSE IF Stored(k) THEN "again" ELSE "first"

(* Mutant: the shared row is looked for first, and not locked.             *)
WriteUnlocked(r) ==
    LET k == thread[r].touches
    IN  /\ At(r, "write")
        /\ runs[r] = "none"
        /\ thread' = [thread EXCEPT ![r].pc = "check", ![r].entry = Entry(k)]
        /\ UNCHANGED <<now, handler, start, local, postgres>>

(* _insert_run or _insert_failed_run, with its events, then the shared     *)
(* row.  The insert of a key that another transaction has inserted waits.  *)
Write(r) ==
    LET k == thread[r].touches
    IN  /\ At(r, "write")
        /\ runs[r] = "none"
        /\ k # "none" => key[k] = Nobody
        /\ thread' = [thread EXCEPT ![r].pc = "check", ![r].entry = Entry(k)]
        /\ key' = IF Entry(k) = "first" THEN [key EXCEPT ![k] = r] ELSE key
        /\ UNCHANGED <<now, handler, start, local, runs, incidents, alerts>>

(* A statement fails, a timeout of the server included. *)
StatementFails(r) ==
    /\ thread[r].pc \in {"write", "check", "commit"}
    /\ Rollback(r)
    /\ UNCHANGED <<now, handler, start, local>>

(* _commit_with_analysis_deadline up to its last look at the deadline.     *)
Check(r) ==
    /\ At(r, "check")
    /\ IF Expired(r) THEN Rollback(r)
       ELSE Goto(r, "send") /\ UNCHANGED postgres
    /\ UNCHANGED <<now, handler, start, local>>

(* COMMIT goes out: what is cancelled before that is not cancelled.        *)
SendCommit(r) ==
    /\ At(r, "send")
    /\ Goto(r, "commit")
    /\ UNCHANGED <<now, handler, start, local, postgres>>

(* The rows of r become visible. *)
Apply(r) ==
    LET k == thread[r].touches
        event == IF thread[r].entry = "first" THEN "opened" ELSE "commented"
    IN  /\ runs' = [runs EXCEPT ![r] = IF thread[r].code = "none" THEN "completed"
                                       ELSE "failed"]
        /\ incidents' = IF k \in Incidents
                        THEN [incidents EXCEPT ![k] = @ \union {<<event, r>>}]
                        ELSE incidents
        /\ alerts' = IF k \in Evidence /\ thread[r].entry = "first"
                     THEN [alerts EXCEPT ![k] = r] ELSE alerts
        /\ key' = Released(r)

(* The server answers.  The deadline is looked at again, and what has been *)
(* committed may be a timeout to the caller all the same.                  *)
Commit(r) ==
    /\ At(r, "commit")
    /\ Apply(r)
    /\ IF Expired(r) THEN Unrecorded(r) ELSE Recorded(r)
    /\ UNCHANGED <<now, handler, start, local>>

(* Mutant: the timer cancels once, and a COMMIT sent later goes on.        *)
CancelOnce(r) ==
    /\ At(r, "commit") /\ r \in Requests /\ now = thread[r].limit
    /\ Rollback(r) \/ (Apply(r) /\ Unrecorded(r))
    /\ UNCHANGED <<now, handler, start, local>>

(* _cancel_commit_until_finished: from the deadline on a COMMIT that hangs *)
(* is cancelled, before or after it has had its effect.                    *)
Cancel(r) ==
    /\ At(r, "commit") /\ Expired(r)
    /\ Rollback(r) \/ (Apply(r) /\ Unrecorded(r))
    /\ UNCHANGED <<now, handler, start, local>>

-----------------------------------------------------------------------------
(* The handler of the API. *)

(* analyze computes its deadlines and asks the executor for a thread; a    *)
(* cycle of `monitor` needs none.                                          *)
Begin(r) ==
    /\ handler[r] = "new"
    /\ handler' = [handler EXCEPT ![r] = "waiting"]
    /\ IF r \in Requests
       THEN /\ now + Work + Reserve + Grace <= MaxTime
            /\ start' = [start EXCEPT ![r] = now]
            /\ thread' = [thread EXCEPT ![r].pc = "queued", ![r].limit = now + Work]
       ELSE Goto(r, "queued") /\ UNCHANGED start
    /\ UNCHANGED <<now, local, postgres>>

Status(r) == CASE thread[r].result = "report" -> "200"
               [] r \in Monitors -> "500"
               [] thread[r].result = "timeout" -> "504"
               [] thread[r].result = "rejected" -> "422"
               [] thread[r].result = "unavailable" -> "503"
               [] OTHER -> "500"

(* The thread is done in time; the caller may have asked for a narrative.  *)
Answer(r) ==
    /\ handler[r] = "waiting" /\ At(r, "done")
    /\ \E narrate \in BOOLEAN :
          /\ narrate => r \in Requests /\ thread[r].result = "report"
          /\ handler' = [handler EXCEPT ![r] = IF narrate THEN "narrating"
                                               ELSE Status(r)]
    /\ UNCHANGED <<now, start, thread, local, postgres>>

(* OpenAINarrator.explain within what is left of the deadline. *)
Narrate(r) ==
    /\ handler[r] = "narrating"
    /\ \E status \in {"200", "503", "504"} :
          /\ IF status = "504" THEN now >= Deadline(r) ELSE now <= Deadline(r)
          /\ handler' = [handler EXCEPT ![r] = status]
    /\ UNCHANGED <<now, start, thread, local, postgres>>

(* asyncio.wait_for gives up.  A thread that runs goes on; one that waits  *)
(* for the executor is taken out of its queue.                             *)
GiveUp(r) ==
    /\ r \in Requests /\ handler[r] = "waiting"
    /\ now >= Deadline(r) + Grace
    /\ handler' = [handler EXCEPT ![r] = "504"]
    /\ IF At(r, "queued") THEN Ends(r, "timeout") ELSE UNCHANGED thread
    /\ UNCHANGED <<now, start, local, postgres>>

(* The API dies with all its requests, or a cycle of `monitor`: SQLite and *)
(* PostgreSQL roll back what was not committed.                            *)
Unheard == {"waiting", "narrating"}
Running == {r \in Runs : handler[r] \in Unheard \/ thread[r].pc \notin {"none", "done"}}
Dies(dead) ==
    /\ dead # {}
    /\ handler' = [r \in Runs |-> IF r \in dead /\ handler[r] \in Unheard
                                  THEN "lost" ELSE handler[r]]
    /\ thread' = [r \in Runs |-> IF r \in dead THEN [thread[r] EXCEPT !.pc = "done"]
                                 ELSE thread[r]]
    /\ sqlite' = IF sqlite \in dead THEN Nobody ELSE sqlite
    /\ key' = [k \in Keys |-> IF key[k] \in dead THEN Nobody ELSE key[k]]
    /\ UNCHANGED <<now, start, reports, runs, incidents, alerts>>

Crash == \/ Dies(Running \intersect Requests)
         \/ \E m \in Monitors : Dies(Running \intersect {m})

-----------------------------------------------------------------------------
Analysis(r) == Build(r) \/ Analyze(r) \/ Analyzed(r)
Storing(r) == GetLock(r) \/ NoLock(r) \/ InsertReport(r) \/ SaveReport(r)
Recorder(r) == Connect(r) \/ Write(r) \/ Check(r) \/ SendCommit(r)
Handler(r) == Answer(r) \/ Narrate(r) \/ GiveUp(r)

Statement(r) == Write(r) \/ (At(r, "write") /\ StatementFails(r))

Next ==
    \/ Tick \/ Crash
    \/ \E r \in Runs :
          \/ Begin(r) \/ Take(r) \/ Handler(r)
          \/ Analysis(r) \/ Storing(r) \/ Recorder(r)
          \/ StatementFails(r) \/ Commit(r) \/ Cancel(r)

Spec == Init /\ [][Next]_vars

(* Threads run, the server ends a statement in time (statement_timeout and *)
(* lock_timeout of _begin_monitoring_transaction), and the clock goes on.  *)
(* Nothing makes the server answer a COMMIT, or the executor find a thread *)
(* for a request.                                                          *)
FairSpec ==
    /\ Spec
    /\ WF_vars(Tick)
    /\ \A r \in Runs :
          /\ WF_vars(Analysis(r)) /\ WF_vars(Storing(r)) /\ WF_vars(Statement(r))
          /\ WF_vars(Connect(r) \/ Check(r) \/ SendCommit(r))
          /\ WF_vars(Cancel(r)) /\ WF_vars(Handler(r))
-----------------------------------------------------------------------------
(* What the two databases say of a run agrees, though they are committed   *)
(* one after the other and time may run out in between: a completed run    *)
(* has its report, and a failed one has none (storage.save, run_monitored_ *)
(* analysis).                                                              *)
RunMatchesReport ==
    \A r \in Runs : /\ runs[r] = "completed" => r \in reports
                    /\ runs[r] = "failed" => r \notin reports

(* A caller that has heard of success finds everything stored: the report, *)
(* its run, the incident it mentions and the alert it raised, which may be *)
(* that of another run with the same evidence (api.analyze).               *)
AnswerIsBacked ==
    \A r \in Runs : handler[r] \in {"200", "narrating"} =>
        LET k == thread[r].touches
        IN  /\ r \in reports /\ runs[r] = "completed"
            /\ k \in Incidents => \E event \in incidents[k] : event[2] = r
            /\ k \in Evidence => runs[alerts[k]] = "completed"

(* Whatever runs fail at once and roll back, an incident is opened by one  *)
(* of them, every other one that is stored comments on it, and an incident *)
(* names stored runs only (_open_incident).                                *)
IncidentIsOpenedOnce ==
    \A k \in Incidents : incidents[k] # {} =>
        /\ Cardinality({r \in Runs : <<"opened", r>> \in incidents[k]}) = 1
        /\ \A r \in Runs :
              (runs[r] # "none" /\ thread[r].touches = k)
                  <=> \E event \in incidents[k] : event[2] = r

(* Every request is answered and its thread ends, with its locks: nobody   *)
(* waits for ever for a writer lock, a unique key or a COMMIT (api.analyze,*)
(* _commit_with_analysis_deadline).                                        *)
RequestEnds ==
    \A r \in Requests :
        handler[r] = "waiting" ~> handler[r] \in Answers \union {"lost"} /\ At(r, "done")
=============================================================================
