# Verification of Agent_Crypto

Agent_Crypto is a read-only research agent: it collects crypto-futures market
data through a Plus500 T4 bridge, computes bounded analytical reports, and gives
evidence of its own operation. Its V1 gate is a 14-day *observation campaign*: a
frozen schedule of slots for each instrument, decided one by one in a PostgreSQL
ledger, put to controlled trials of its own failures, finalised in one quality
report, and driven by a supervisor that is meant to survive crashes, timeouts and
reboots.

This directory holds TLA+ models of that machinery, TLC runs of small instances,
and TLAPS proofs for every instance. Paths below are relative to the repository
(`crypto_agent` is `src/crypto_agent`). Definitions carry the names of the code
where TLA+ allows; `PROJECT.json` gives the lines each of them models.

## 1. The system

### 1.1 Components

| Component | State | Operations | Status |
|---|---|---|---|
| Campaign ledger: `observation.py` `run_cycle`, schemas 0017 and 0018 | campaign, scopes, append-only cycles, research-input links | create, record a cycle, catch up missed slots, attempt a due slot | partly: `CampaignLedger` |
| Final report: `observation.py`, `cli.py` `observe-report` | one quality report for a campaign | checkpoint, build, store | partly: `CampaignLedger` |
| Supervisor: `campaign_supervisor.py` | counters, progress snapshot | tick, ensure services, run due scopes with retry and backoff, finalise | partly: `CampaignSupervisor` |
| Supervisor state store | `supervisor.lock`, `events.jsonl`, `daily-snapshots.jsonl`, `status.json` | lock, recover, append, replace the status | partly: `SupervisorJournal` |
| Monitoring and alert outbox: `monitoring.py`, schemas 0012 and 0016 | runs, incidents, alerts, outbox rows, delivery attempts | record a run or a failure, open an incident, queue, select due, write, record the outcome | partly: `AnalysisRequest`, `AlertOutbox` |
| Bridge evidence journal: `t4-bridge/ObservationEvidence.cs` | sequence, previous hash, file | append, sign, checkpoint, recover | partly: `SignedEvents`, `BridgeReader` |
| Bridge reader: `t4-bridge/OfficialT4MarketDataReader.cs`, `FuturesEvidenceValidator.cs` | session, subscriptions, buffers, pending control | connect, subscribe, fail, refresh health, answer, apply a control, stop | partly: `BridgeReader`, `T4Payload` |
| Evidence verifier: `evidence_verifier.py`, schema 0018 | verified bridge events, attestations | import, begin, complete, attest | partly: `ScenarioTrial`, `T4Ingest` |
| Scenario trials: `observation_scenarios.py`, schema 0018 | trials, evidence, completions | request, trigger, collect, complete | partly: `ScenarioTrial` |
| T4 ingestion and replay: `t4_ingest.py`, schemas 0014 and 0015 | batches with candles and futures evidence | ingest, choose, replay | partly: `T4Ingest`, `T4Payload` |
| T4 bridge client: `providers/t4.py` | none | fetch, parse | partly: `T4Payload` |
| Orchestrator and policy: `orchestrator.py`, `policy.py`, `quality.py`, `futures_analytics.py` | none (pure) | the decision of an analysis | partly: `DecisionGate` |
| Deadline: `deadline.py` | the deadline of a thread | enter, nest, check | modelled: `AnalysisRequest` |
| PostgreSQL storage: `postgres.py` | connections, transactions | connect in a budget, commit and cancel it | partly: `AnalysisRequest` |
| SQLite storage: `storage.py` | reports | save under the writer lock | modelled: `AnalysisRequest` |
| API, dashboard, narrator | requests under way | analyse, narrate | partly: `AnalysisRequest` |
| Command line and configuration | none | the actors of all of the above | partly |
| Deployment units and CI | none | | not modelled |

### 1.2 Interactions

    systemd -> observe-supervise --(subprocess, timeout, retry)--> observe-run -----+
                    |    |                                                          |
                    |    +--(subprocess, timeout)--> observe-report --------+       |
                    v                                                       v       v
          events.jsonl, daily-snapshots.jsonl                 PostgreSQL: advisory locks,
                                                              triggers, append-only tables
    observe-scenario --> evidence verifier --(import, begin, complete, attest)--^   ^
                              |  ^                                                  |
                     control  v  |  signed events, checkpoints                      |
                            T4 bridge --(market data)--> client -> ingest ----------+
                                                             \                      |
    POST /v1/analyze, monitor --> orchestrator --> gate ------+--> SQLite, then ----+
                                                                                    |
                                              monitor-deliver <--- alert outbox ----+

Everything shared goes through PostgreSQL, through the bridge's journal or through
the supervisor's directory. Processes are started and killed independently: the
supervisor kills a command that exceeds its timeout, the server ends a session that
idles in a transaction too long, a caller of the verifier or of the API gives up
while the operation goes on, a person may start any command by hand.

### 1.3 What is hard here, and what makes each part correct

* *One slot, one decision.* Two `observe-run` processes, a killed one and its
  retry, or a long outage must not decide a slot twice, skip one, or attempt one
  outside its interval. While the executor runs, for minutes, the plan made under
  the lock must stay true. (`ImplementsSchedule`, `PlanStaysCurrent`)
* *One final report, and it is complete.* Checkpoint, build and store are
  separate transactions, and the last of them has a snapshot older than its
  lock. (`ReportCoversAttempts`, `FinalLedgerIsFrozen`)
* *A hung executor must not stop the campaign.* (`LockIsReleased`)
* *A scope that hangs must not take the slots of the others.* Scopes are run one
  after the other, with retries and delays, and the next slot does not wait.
  (`HealthyScopeIsNotStarved`, `HealthyScopeIsComplete`)
* *The campaign ends, and its record is whole*, although answers are lost and the
  supervisor forgets what it announced. (`CampaignCompletes`, `NoMissedIsOverlooked`)
* *A journal outlives crashes*, those in the middle of its own recovery too.
  (`ChainIsIntact`, `HeadIsLastRecord`, `OneSnapshotPerDay`, `LossNeedsTwoCrashes`)
* *An alert is written at least once and settled*, with a write to a pipe that
  cannot be undone before a commit that may fail. (`AttemptsAreChained`,
  `DeliveredWasWritten`, `KeepsPromise`, `EveryAlertSettles`)
* *A trial injures a live bridge once and proves it.* A command is run again after
  any failure; its verifier goes on when it has given up; requests that nobody waits
  for are still applied; the bridge may crash with a control armed; the session
  thread appends without the control's gate. (`ControlHasOpenTrial`,
  `ControlIsNotRepeated`, `TrialIsProven`, `TrialHasOneReceipt`, `ControlIsSettled`)
* *One rule, written three times.* The bridge (C#), the verifier (Python) and the
  database (SQL) each have their own definition of a good event, of the evidence of a
  trial and of a good answer; a case accepted by one and refused by the next stops an
  import or a watch loop for good. (`EmittedIsAccepted`, `AcceptedIsStored`,
  `EvidenceIsAgreed`, `AnswerIsStored`)
* *A replay does not see the future*, and what is attested is what it finds, with
  writers whose transactions are dated before they are visible. (`ChosenIsUsable`,
  `ReceiptIsReplayable`, `QuietReplayIsFinal`, `AttestedIsChosen`)
* *An alert rests on evidence that is still good when it is sealed*, minutes after
  it was asked for. (`AlertIsJustified`, `ReplayDecidesAlike`, `DeliveredIsLive`)
* *Two databases say the same of an analysis*, committed one after the other under a
  deadline, with a COMMIT that may be cancelled after it took effect.
  (`RunMatchesReport`, `AnswerIsBacked`, `IncidentIsOpenedOnce`, `RequestEnds`)

`PROJECT.json` lists each hazard at its line with the property that covers it.

### 1.4 Plan

Done, each with its proofs: `FrozenSchedule` and `CampaignLedger`, `SupervisorJournal`,
`AlertPromise` and `AlertOutbox`, `CampaignSupervisor`, `SignedEvents`, `BridgeReader` and
`ScenarioTrial`, `T4Payload`, `DecisionGate` and `MCContracts`, `T4Ingest`,
`AnalysisRequest`.

Left, in this order:

1. passive scenarios (`roll_transition`, `replay_blocked`) and what the final report
   refuses after them;
2. key registration and the bytes of the evidence journal (torn writes, its own
   recovery).

## 2. The modules

### FrozenSchedule

The promise of a campaign to whoever evaluates it: slots are decided in order,
each once; an attempt lies in its own interval; a slot is given up only after it;
after `Close`, possible only when the last slot has elapsed, nothing is decided.

### CampaignLedger

State: the tables (`cycles`, `runs`, `batches`, `events`, `reports`), the campaign
advisory lock, and control and transaction of each worker (`observe-run`) and
reporter (`observe-report`). A step is a SQL statement, a commit, or a step of the
executor that commits in a transaction of its own.

| Action | Code |
|---|---|
| `Begin`, `LockCampaign`, `LockTimeout` | the start of `run_cycle`: session limits and advisory locks |
| `Plan` | schedule, clock, last row, the whole catch-up loop |
| `FetchBatch`, `IngestBatch`, `AnalysisFails`, `RecordReport` | the executor callback of `cli.py`, with `record_failure` and `record_report` |
| `InsertResult`, `Commit` | the row of the slot, the triggers of 0018, the commit |
| `Crash`, `SessionEnds` | the subprocess is killed; the server ends the idle session and the executor is not told |
| `BeginReport`, `Checkpoint`, `Build` | grace check, signed checkpoint, `build_quality_report` |
| `TakeSnapshot`, `LockForReport`, `InsertReport`, `CommitReport` | `store_final_report`, SERIALIZABLE: the snapshot precedes the lock |
| `RecordBridgeEvent`, `Tick` | an import by the verifier; the server's clock |

Abstractions: payloads and hashes are gone, a trace is the pair of its scope and
slot; a report is the set of attempts and the certified part of the journal it was
computed from; the cause of a failure stands for the error of the executor's step.
The scope lock is always taken with the campaign lock held, so it is never
contended and is not represented.

### SupervisorJournal

State: both files as lines and an unterminated tail, the `flock`, each process'
control and memory (`_event_head`, `_daily_head`, `_last_daily_date`), the records
whose append has returned. A hash is a serial number. `Start`, `Recover`,
`Rewrite` and `Verify` are the four places of `__enter__` between which a crash
leaves something different on the disk; `BeginAppend` and `EndAppend` are the two
sides of `_append_fsynced`; `Crash` leaves any prefix of the lines under way and
any part of the next. `Kept` models `rsplit`, with its result for a file that has
no newline.

Only the date of a snapshot is kept of a payload. The date is that of the database
clock, which is assumed not to go back.

### AlertPromise and AlertOutbox

`AlertPromise` is what the consumer of the output may rely on: an alert is settled
once, and counts as delivered only if it was written. How often is not promised.

`AlertOutbox` is `monitor-deliver` on schema 0016. State: the queue, the committed
attempts of each alert, the row locks, the lines on the output, and what each
worker knows. The hash chain is the sequence of attempts itself.

| Action | Code |
|---|---|
| `Enqueue`, `ChangePolicy`, `Tick` | `_enqueue_alert` in the transaction of a run; a new policy file; the host clock |
| `Begin` | `attempted_at` is read, before the connection is opened |
| `TakeSnapshot`, `Select` | the SELECT of `_select_due_delivery`: first what it reads, then, perhaps later, which row it locks (SKIP LOCKED); the checks of `from_row`, the expiry, the safety margin |
| `Write` | `_bounded_stream_write`: the line, nothing, or a part of it |
| `Record` | `_record_delivery_outcome` and the trigger `enforce_alert_delivery_attempt` (`InsertAllowed`), which reads what is committed then |
| `Commit`, `Crash`, `SessionLost` | the attempt and the released lock appear together; the worker is killed or its transaction rolled back; the server drops a broken connection and its lock while the worker goes on |

`TakeSnapshot` and `Select` are two actions because an outbox row is never updated:
PostgreSQL re-reads a row it had to wait for only if that row has changed, so a row
that was freed in between is taken with an old attempt.

### CampaignSupervisor

State: the clock, the ledger reduced to counters (committed and missed slots of each
scope, the report), the services, what `events.jsonl` has announced, and the
supervisor's control, wait and memory. Time is explicit: `left` is what remains of
the current wait, and only waits take time. `queue` has the positions in the manifest,
which names each scope once (`ObservationCampaign.validate`), of the scopes that the
tick still has to run; the first of them is `Running`.

| Action | Code |
|---|---|
| `Check` | `ensure_services`, with the cooldown of a restart |
| `Load`, `Reload` | `load_progress` and `_record_new_missed`, before and after the cycles |
| `StartCycle`, `Retry`, `CycleFails`, `CycleFinished` | `_run_scope`: attempts, timeout, delays (one after the last attempt, too), a lost answer |
| `PlanCycle`, `CommitCycle` | what `run_cycle` decides, at the time it gets the lock, and its commit |
| `StartReport`, `StoreReport`, `ReportFinished` | `store_report` and the `observe-report` it runs, with a stored report whose answer is lost |
| `EndTick`, `Again` | the return value of `_tick` and the poll of `run` |
| `Crash`, `Boot` | an error or a kill, and `Restart=on-failure` |
| `Tick`, `Outage`, `Recover` | time; a service goes down and comes back (`Restart=always`) |

`Prompt` names the scopes whose commands record within their timeout; of all others
nothing is assumed. A transaction of a killed command that commits after the next
attempt has started is not represented here; `CampaignLedger` has it.

### SignedEvents

No state: operators. `Emitted` is every shape of event that the bridge appends
(`OfficialT4MarketDataReader.cs`, `ObservationEvidence.cs`); `VerifierAccepts` is
`_validated_event` and `_validate_event_semantics` of `observation_scenarios.py`;
`DatabaseAccepts` is the check of `record_verified_t4_bridge_observation_event` and
of the trigger on its table. `Fragment` is `_controlled_evidence_fragment`, the
stretch of the journal that the verifier submits for a trial; `Proven` is what
`enforce_t4_observation_scenario_trial` wants of it. Signatures, hashes and
identifiers are those of honest parties.

### BridgeReader

The bridge process as far as its journal shows it. State: the journal, the boot and
session generation, where `ExecuteAsync` is, whether the socket is aborted, the
readiness of the followed scope, the pending control, where `ApplyControl` is.

| Action | Code |
|---|---|
| `Connect`, `Subscribe`, `SessionFails`, `SessionClears` | `ExecuteAsync`: connecting, authenticated and subscribed, its catch and its finally |
| `RefreshChecks`, `RefreshRecordsReady` | `RefreshHealth`: the look at the connection, and the append under the gate; a pending reconnect is consumed |
| `ControlIsRequested`, `ControlArms`, `ControlIsApplied` | `ApplyControl` under `_controlGate`: the three appends and what is cleared between them |
| `ReadConsumes`, `ReadFindsNoData` | `ReadAsync`: an armed fault is refused and recorded; real missing or stale data, once in a session |
| `StopIsRecorded`, `Exit`, `Crash`, `Boot` | `StopAsync`, the end of the process, a kill, the next start with a clock that may be earlier |

Simplifications: a pending fault is taken and recorded in one step (the code does
both under the gate); `reconnect_count` and the session generation are one number;
authentication and subscription are one step; an operator's own stop and an append
that fails (which stops the process) are left out.

### ScenarioTrial

`BridgeReader` with the verifier, the database, the operator's command
(`observe-scenario` of `cli.py`) and the campaign's cycles of one scope.

| Action | Code |
|---|---|
| `VerifierTakes`, `Release` | the one lock of `create_evidence_verifier_app`; an operation goes on when its caller has gone |
| `CheckpointIsCalled`, `CheckpointIsSigned` | `checkpoint` |
| `VerifierFetches`, `FetchFails` | import: a page is verified and stored by one transaction |
| `BeginRefuses`, `BeginResumes`, `BeginOpens` | `start_controlled`: collision, a receipt that is known, the trial requested before the control |
| `VerifierTriggers`, `TriggerTimesOut` | the control request to the bridge; nobody waits for it any more |
| `CompletePeeks`, `CompleteResumes`, `CollectPolls`, `CollectFails`, `CollectSubmits` | `complete_controlled`, `collect_controlled`, `complete_t4_observation_scenario_trial` |
| `VerifierCrashes` | the process dies with its queue; requests it sent do not |
| `BridgeTakesRequest`, `BridgeApplies`, `BridgeRefuses`, `BridgeGoes` | the control endpoint and what its caller hears |
| `CommandStarts` ... `CommandGivesUp` | the command: begin, check, begin, exercise, recovery, complete; any failure makes it start again with the same request |
| `SlotBecomesDue`, `CycleStarts`, `CycleReads`, `CycleRecords`, `CycleIsLost`, `OtherReads` | the scheduled cycles and another reader of the scope, which may consume the fault |

Cycles are kept as what the rules of 0018 ask of them: whether the newest one
succeeded (`lastOk`), whether the newest failure spans the event that ends the
evidence (`failed`), whether a live batch came after it (`recovered`). An abandoned
checkpoint is followed from the moment it has the lock. One trial is followed;
passive scenarios, and trials after the final report, are not.

What a recorded trial shows is `TrialIsProven`: its control was applied, once in the
life of the process that applied it, and what it was to injure, the session or the
process, was replaced between the first and the last event. That it is *one*
application, over all processes, is `TrialHasOneReceipt`; that is what the code means
to ensure, and it does not (finding 3).

`PromptSpec` in `MCScenarioTrial` has some of the behaviours of `Spec`: whatever the
bridge, the cycles, the command and the verifier can do without a failure is done at
once. Its action is `Next` with more guards, so what it violates, `Spec` violates.

### T4Payload, DecisionGate and MCContracts

`T4Payload` is one answer of `GET /v1/market-data` and everybody who judges it:
`ReadAnswer` and `ReaderAnswers` (the bridge makes it from its buffers),
`BridgeAccepts` (`FuturesEvidenceValidator.cs`), `ProviderAccepts`
(`providers/t4.py`), `EnvelopeAccepts` (`t4_ingest.py`), `TablesAccept` (0014, 0015),
`Candidate`, `Chosen` and `ReplayUsable` (the replay). Of the data it keeps times,
contracts, and the state of the book; the last two bars of the history stand for all.

`DecisionGate` is the analysis of an answer: quality, attested source, futures gate,
proposal, risk gate, decision, and whether the alert may be delivered. Prices, volumes
and movements are classes: on which side of its limits a number lies. Score
arithmetic is kept where it decides (a doubled bar costs, but does not fail).

`MCContracts` has one variable, the case: any shape of event, any payload at two
cutoffs, any honest answer with every class at every time it may be sealed. Its runs
compare each stage with the next.

### T4Ingest

State: the bridge's buffers, each writer's control and transaction, the table of
batches, the receipts, the attestation. One clock serves bridge, agent and database,
and what arrives is observed, available and read in at that time.

| Action | Code |
|---|---|
| `Tick`, `HistoryFails` | books, index and charts arrive and are evicted; the history cannot be loaded |
| `Ask`, `Fetch` | the cutoff is read, then the answer is made, for whatever is in the buffers then |
| `Begin`, `Insert`, `FindStored`, `Commit`, `Fail` | `ingest`: the transaction's date, the insert with ON CONFLICT, which waits for another uncommitted insert of the same bytes, the comparison with a batch that is there, the commit whose answer may be lost, any error |
| `AttestReplays`, `AttestRecords` | `attest_campaign`: the replay and the record are two transactions |

A batch and its children are inserted in one step. A command that fails may be run
again (`MaxAsks`). Answers in schema versions 2 to 4 are left out; hashes are right.

### AnalysisRequest

`POST /v1/analyze` (`api.py`) and `monitor` (`cli.py`): the handler, its thread, the
writer lock of the SQLite file, the reports, the unique keys that uncommitted inserts
hold in PostgreSQL, runs, incidents, alerts.

| Action | Code |
|---|---|
| `Begin`, `Answer`, `Narrate`, `GiveUp` | `analyze` of `api.py`: the deadlines, `asyncio.wait_for`, the narrative, the status |
| `Take`, `Build`, `Analyze` | the executor's thread, the factory, `ResearchOrchestrator.analyze` |
| `GetLock`, `NoLock`, `InsertReport`, `SaveReport` | `ReportRepository.save`: BEGIN IMMEDIATE and its wait, the last look at the deadline, COMMIT |
| `Analyzed`, `Failed` | `run_monitored_analysis`: its end, and its except clauses with the shorter deadline of a timeout |
| `Connect`, `Write`, `StatementFails` | the connection in its budget, `_insert_run` or `_insert_failed_run`, `_open_incident`, `_enqueue_alert`, an error of the server |
| `Check`, `SendCommit`, `Commit`, `Cancel` | `_commit_with_analysis_deadline` and `_cancel_commit_until_finished`: a cancelled COMMIT may or may not have had its effect |
| `Dies` | the API with all its requests, or one cycle of `monitor` |

Simplifications: a run shares at most one row with other runs (the incident of its
code or the alert of its evidence); an alert is the same when its evidence is; the
size of the executor is left open (`Take` may be delayed for ever); `monitor` has no
deadline, and nothing promises that its COMMIT is answered; the inputs of a replayed
run are inserted elsewhere.

## 3. The runs

| Run | Instance | Shows |
|---|---|---|
| `ledger` | 2 workers, 1 reporter, 1 slot, 2 events, fair | live plans, refinement of `FrozenSchedule`, complete report, frozen ledger, and the lock is always released |
| `ledger_checkpoint_head` | 1 worker, 1 reporter | counterexample of finding 1 |
| `supervisor_campaign` | 2 scopes of which one may hang, 2 slots, 1 retry, 2 failures, fair | inductive invariant, no starved scope, complete scope, announced slots, the campaign ends |
| `journal_chain` | 2 processes, 4 records, 2 days | chain, head, one snapshot for a date, what a record that was acknowledged can be lost by |
| `outbox_chain` | 2 fair workers, 1 alert, 2 attempts, 2 policies, 1 failure | chain, delivered only if written, refinement of `AlertPromise`, every alert of the deployed policy settles |
| `evidence_trial` | missing data or a restart, one failure of any kind, pages of 6 events | no control without its trial, no repeated control, a recorded trial is real |
| `evidence_second_receipt` | a restart, three failures of which two are timeouts, prompt behaviours | counterexample of finding 3 |
| `evidence_settles` | missing data or a reconnect, no crashes, one other failure, fair | both rules agree on the evidence (with crashes too: section 4); an applied control is recorded, or why not |
| `contracts` | every case of a bounded set | each stage against the next: events, answers, replays, decisions, deliveries |
| `ingest` | 2 writers, 3 requests, a roll, clock to 4, fair transactions | one batch for the same bytes, receipts, final replays, the attestation, no endless wait |
| `ingest_late_commit` | the same | counterexample of finding 2 |
| `analysis` | 1 request, 1 cycle of `monitor`, clock to 5, fair | report and run agree, a 200 is backed, one run opens an incident, every request ends |

*Bounds, ledger.* `MaxTime` stops the clock one tick after the grace of the campaign,
past every comparison of the code. `MaxEvents` = 2 gives two checkpoints, or one and
an event before or after it. Two workers are every worker: at most one holds the lock,
and what a third would do a second does after a crash. One slot is the last one, and
the one whose late attempt meets the report. That slots follow each other, and that
reporters may race, is not in this instance; the four safety properties are proved for
any number of slots, scopes, workers and reporters (section 4), and what `LockIsReleased`
is about, an executor that holds the lock, is the same in every slot.

*Bounds, journals and outbox.* Four records give a journal with a committed prefix, a
torn record, a second crash during its recovery, and an append after it; two days give
a date that has its snapshot and one that has not. Two attempts are a first and a last
one, a lifetime of two ticks gives retries before and at the expiry, and a crash or a
lost session lets the second worker take what the first one had.

*Bounds, supervisor.* `Interval` = 16 is exactly what the first scope can take: two
ticks of T = (Retries + 1) * Timeout + Backoff * (2^(Retries + 1) - 1) = 7 ticks, a
poll less the tick in which it ends, and the timeout of the second scope's own
command; with 15 TLC finds a missed slot. `IntervalSuffices` is the same bound for any
scopes and any configuration; it is a hypothesis of the proofs, and
`MCCampaignSupervisor` asserts that the run meets it with nothing to spare. Two slots
are a first and a last one.

*Bounds, trials.* One failure (or checkpoint) in a behaviour, of any kind, at any step;
`PageSize` = 6 makes the journal of a trial two pages and more, so that an import stops
between them; `MaxFragment` = 64 is never reached, as 5,000 is not in practice. A
fault consumed by a read, a control consumed by the session thread and one consumed
by the stop of the process are the three ways a control ends: `missing_data`,
`reconnect`, `bridge_restart`; `stale_data` and `rate_limit` differ from the first in
what is cleared, which `contracts` covers for each shape. The counterexample of
`evidence_second_receipt` needs three failures and 62 states, beyond what TLC can
search in `Spec`; `PromptSpec` reaches it, with one page for the whole journal.

*Bounds, contracts.* Every inequality of the rules has a case on each side and on its
edge: three ages around `SnapshotAge` = 2 and `HistoryAge` = 3, stamps in order and out
of order, a payload before the roll at 5, after it, and with the evidence of the old
contract inside and outside of its window. `CHECK_DEADLOCK` is FALSE: a case has no
next state.

*Bounds, ingest.* A roll at 3 of a clock to 4, a buffer of two items, three requests:
two writers with the same bytes, and one more that is newer; the campaign's end at 3
lies before the last commits.

*Bounds, analysis.* With `Work` = 2, `Reserve` = 2 and `Grace` = 1 each of the limits
comes before, with and after the others; `BusyTimeout` = 1 is shorter than `Work`,
so both ends of a wait for SQLite occur; one request and one cycle of `monitor` share
the file, an incident and an alert. `MaxTime` is the end of a request's longest wait.

`CHECK_DEADLOCK` is FALSE where the clock is bounded (ledger, ingest, analysis), and
for the trial and the supervisor, which really stop: a recorded trial and a finished
campaign have nothing left to do.

*Fairness.* `ledger`: weak fairness of the statements between executor calls,
and of `SessionEnds`, which is `idle_in_transaction_session_timeout`, set by
`run_cycle` itself and enforced by the server. Nothing is assumed of the executor, of
lock requests or of crashes. `outbox_chain`: time passes, and a worker of
`monitor-deliver --watch` goes on, since it polls for ever, its statements and its
write have timeouts, and SKIP LOCKED never waits; crashes and lost sessions are
finitely many (`MaxFailures`). `supervisor_campaign`: time passes, the process goes on,
since every command it waits for has a timeout, systemd restarts a service that has
ended, and `observe-report`, tried again in every poll while both services are up,
succeeds in the end (strong fairness of `StoreReport`); nothing is assumed of
`observe-run`. `evidence_settles`: the bridge's threads and the verifier go on, systemd
starts the bridge again, T4 lets a session up, the scheduler gives every slot, and the
operator runs the command until it says that the trial is recorded; no failure is fair.
`ingest`: a transaction that was opened goes on, since the server ends a statement or a
lock that takes too long; nothing is assumed of the bridge or of the verifier.
`analysis`: threads run, `statement_timeout` and `lock_timeout` of
`_begin_monitoring_transaction` end a statement, the clock goes on, the timer that
cancels a COMMIT and the handler's own wait act; nothing is assumed of the executor's
queue or of the server's answer to a COMMIT.

## 4. The proofs

`CampaignLedgerProofs`: `TypeOK` and `LedgerInvariant` are inductive, for any
number of workers, reporters, scopes, slots and any interval. `LedgerInvariant`
says that a live session past its lock request holds the lock (`LockHeld`), that its
uncommitted rows continue the committed ones (`RowsContinueLedger`), that a report
about to be committed is the first (`ReportIsFirst`), and that from the first
checkpoint after the grace no early attempt is in flight (`AttemptsAreLate`), so
what has been built covers every early attempt (`BuiltCoversAttempts`). From it
follow `PlansStayCurrent`, `ReportsCoverAttempts`, `FinalLedgerStaysFrozen` and
`LedgerImplementsSchedule`. The last one is the refinement: only `Commit` and
`CommitReport` are steps of `FrozenSchedule` other than its clock, all others
stutter.

`SupervisorJournalProofs`: `ChainInvariant` says what each process has recovered so
far and that what recovery *would* keep of each file is intact (`KeptIsIntact`),
which is what makes a crash during recovery harmless for the chain. From it follow
`JournalsStayChained`, `HeadsAreLastRecords` and `LossTakesTwoCrashes`: a record whose
append has returned leaves the files, and the memory of who rewrites them, only by a
crash of a process that is rewriting. `DayInvariant`, inductive on top of it, gives
`OneSnapshotForADate`.

`AlertOutboxProofs`: `OutboxInvariant` is inductive for any number of workers, alerts,
attempts, policies and failures. It says that a live session past its SELECT holds
the row lock of its alert (`HoldsLock`), that a worker that has written finds its
line on the output (`LineIsThere`), and that an attempt accepted by the trigger still
fits the chain when it is committed (`AcceptedFollows`), because the lock keeps others
from extending it: `OtherWorkerStaysOk`, the lemma behind every step. What a worker
knows from its snapshot is *not* in the invariant; it may be old, and the trigger is
what makes that harmless. From it follow `AttemptsStayChained`,
`DeliveredStaysWritten` and the refinement `OutboxKeepsPromise`, in which `Enqueue`,
`Write` and `Commit` are steps of `AlertPromise` and the others stutter.

`CampaignSupervisorProofs`: `SupervisorInvariant` says that after its commands a tick
reads the progress again before it goes on to the report (`ProgressIsCurrent`), and
that what is announced is never less than what the process has counted
(`CountedIsAnnounced`), also when a restart sets the count to zero. From it follows
`NothingMissedIsOverlooked`.

`HealthyScopesAreNotStarved` and `HealthyScopesAreComplete` bound the time of a tick, for
any number of scopes in any order. `TickLeft` is the most that the rest of a tick may
take: what is left of the running command, with the timeouts and doubled delays that its
attempts may still need (`CommandLeft`), and the cost of those behind it (`QueueCost`).
Every step makes it shorter by at least the time that passes. `TimeInvariant` says of each
scope of `Prompt`, as long as nothing has failed: if it waits in the queue, it is due and
the whole of the tick ends before its slot does; if it does not, the rest of the tick, the
poll and one run of *all* scopes end before its next slot does (`OnTime`). The property
itself says nothing of the time left, so it is not inductive. The step that needs the
second part of `IntervalSuffices` is `Load`: a scope that is not due yet may become due
in the next instant, and then everything else is run twice before it. The first part is
needed by a commit, after which the scope has one interval more, and at the start. The
hypothesis says what the code does not check: `observe-start` and the supervisor accept
any interval, timeout and number of retries, and the documented ones do not meet it for
a campaign of two scopes (section 5). The second hypothesis, `Powers`, is that 2^a is a number
and doubles, of which the provers know nothing; TLC evaluates it for its instance. The
lemmas on `Cardinality` and on the least of a set of numbers come from the library.

`AnalysisRequestProofs`: `AnalysisInvariant` is inductive for any requests, any number
of crashes and any transactions open at once. It says that a run is recorded as
completed only when its report is already in SQLite, and as failed only when there is
none (`Own`); that what an open transaction knows of the row it shares is true
(`Entitled`), because its first writer holds the key until it ends (`Held`); and that
what is stored of incidents and alerts belongs to stored runs (`Tables`). From it follow `RunsMatchReports`,
`AnswersAreBacked` and `IncidentsAreOpenedOnce`. The two databases agree because of
the order of their commits; nothing is assumed of the clock.

`T4IngestProofs`: `IngestInvariant` says that an insert that is not committed carries
the date of its transaction and differs from every other insert, committed or not
(`ClaimIsOwn`). `PayloadsAreStoredOnce` follows. `QuietReplaysAreFinal` needs the date:
a commit adds rows that no cutoff before the start of their transaction may choose
(`LateRowsDoNotMatter`). `AttestationsAreChosen` needs that the order in which a replay
prefers batches is strict (`ChoiceIsUnique`). `ReceiptsStayReplayable` has
`ReceiptInvariant`: what is stored came from a whole answer and its times fit its
transaction (`Lasting`), so it is a candidate for every cutoff from that transaction on
(`Backed`). That the candidates of a cutoff have a best one would be an induction over
the finite set of batches; `ReceiptInvariant` carries it along instead (`Newest`): a
commit adds one batch, which is better than the best one until then or is not.

`ContractsProofs` states each rule against the next one for all inputs, not only for
the cases that TLC enumerates: `AnswerPasses` (bridge, client, envelope, tables),
`ChosenPasses` (replay and policy), `AlertOnAnswer`, `ReplayIsFaithful`, with any times,
ages, number of bars and rolls. The answer is one that the bridge's validator accepts
for a cutoff that has a selectable contract, as the bridge asks before it reads.
The properties of `contracts` follow, with a small
invariant that says where a case of `MCContracts` comes from (`CaseInvariant`).

`ScenarioTrialProofs`: `TrialInvariant` follows a control from the verifier that is
about to post it, over the request on its way and the thread that applies it, to what
it has armed and to its events (`ControlExists`); wherever it is, the trial is open.
Hence `ControlsHaveOpenTrials`. The invariant also says that the journal has no other
shapes of event than those of `Emitted`; with `EmittedIsAccepted`, a lemma over all of
them, `JournalsAreAccepted` follows: the import never refuses an event for its shape.
Four more invariants stand on it, each inductive with the ones before:

* `TypeInvariant` gives every variable its type (`TrialTypesAreCorrect`). What a caller
  hears must be an answer to *its* request, although answers of abandoned requests are
  still on their way.
* `CountInvariant` counts what was spent, the receipts in the journal, the requests that
  nobody waits for any more, and the checkpoints, against the failures
  (`SpentIsBacked`). One receipt may have no failure behind it, and then the verifier
  knows it (`ReceiptIsKnown`): it is not about to post, and if it is in its begin, it
  has read that receipt. `ControlsAreNotRepeated` is the bound for any number of failures.
* `JournalInvariant` describes the journal as a whole: processes follow each other and
  start with `bridge_started` (`BootsPart`); a `session_connecting` has a higher number
  than all events of its process before it (`GensPart`); no session is ready after a
  `session_disconnected` without a `session_connecting` in between (`SessionPart`); what
  was consumed was applied in the same process, and between two receipts of one process
  the control was consumed (`ControlPart`). It is stated with operators on a journal,
  and a lemma for each says what an `Append` does to it.
* `EvidenceInvariant` has what the two rules for evidence differ in: the numbers of the
  sessions of one process never fall (`GensOrdered`); a control in progress was asked
  for, and a receipt for missing data comes after its request and the cache that was
  cleared for it (`CachePart`); nothing but a restart or a crash ends a process
  (`ProcessPart`).

`TrialsAreProven` combines them: what the database's rule finds in the stretch that
`complete` submits (`EvidenceIsShown`), together with what holds of every journal, is
what happened to the bridge, and a journal that grows leaves it so.

`VerifierAndDatabaseAgree` goes the other way: whatever stretch the Python rules find
(`FragmentBegins`, `FaultEnds`, `ReconnectEnds`, `RestartEnds` say what each of them has
looked for), the SQL rules accept (`FragmentIsProven`), although SQL asks for more: a
higher number of the session at the end of a reconnection, the same process at its two
ends, another one at those of a restart, a cleared cache before the receipt. There is
one exception, and it is real: a reconnection that was asked for in a process that
crashed, asked for again in the next one, and consumed there. The verifier's stretch
begins at the *first* request, the two ends have different boots, and the database
refuses it every time. The theorem says that nothing else does: no other scenario, and
no reconnection without a crash of the bridge. The length of a stretch is not part of
either rule; `ControlIsSettled` lists it (`StretchIsRefused`).

Assumptions: those in the modules (`ASSUME`), all about the constants: at least one
scope, positive slots and interval, `NoProc` not a process, `NoWorker` not a worker, at
least one attempt, a positive retry delay, evidence that is not named like an
incident, scenarios that the bridge knows.

Only model-checked: `LockIsReleased`, `EveryAlertSettles`, `CampaignCompletes`,
`ControlIsSettled`, `IngestEnds` and `RequestEnds` (liveness under fairness is out of
the prover's reach); and the counterexamples. Every invariant and every action property
that a passing run checks is also a theorem.

## 5. Findings

1. `ledger_checkpoint_head`: the snapshot of the SERIALIZABLE store is older than
   its lock, so a report can be stored with a checkpoint that is not the head.
2. `ingest_late_commit`: a batch carries the start of its transaction and is seen from
   its commit on, so a replay for a cutoff in the past may change. `QuietReplayIsFinal`
   says exactly when it cannot; `AttestedIsChosen` holds because the verifier looks
   again when it records.
3. `evidence_second_receipt`: a trial is recorded over two applications of its control.
   `start_controlled` and `complete_controlled` count the receipts of the request in the
   journal they have read (`evidence_verifier.py:609`, `observation_scenarios.py:1235`)
   and refuse a second one, "Controlled scenario receipt identifier was reused";
   `collect_controlled` then polls the journal for the rest of the evidence and never
   counts again, and the trigger of schema 0018 asks only for *a* receipt (line 768). In
   the trace two requests of the verifier time out, so that nobody waits for them. The
   bridge applies the first one, crashes, and starts again; the command goes on with
   that receipt and collects. Then the second one is applied by the new process, which
   does not know of the first, and the bridge is restarted once more. The failures are
   those that the code provides for: the request has a timeout, the command is run again
   with the same identifier, and systemd starts the bridge again. A count when the
   stretch is submitted would refuse it.

Known from modelling, and not checked by a run of their own:

* *A retry after a timeout may only fail.* The executor commits the slot's monitoring
  run, which has a deterministic trace, before the slot. Killed in between, the retry
  computes another run hash, and `_insert_run` (`monitoring.py:545`) raises
  "Monitoring trace idempotency conflict": the slot can only be recorded as failed.
  `docs/CAMPAIGN_SUPERVISOR_RUNBOOK.md:115` says that a timeout without a commit may be
  retried. In `CampaignLedger` this is the cause `trace_conflict`.
* *A torn first record is kept.* `rsplit` of a file without a newline is the whole file
  (`campaign_supervisor.py:662`), so every later start ends with
  `SUPERVISOR_JOURNAL_INVALID`; the runbook (line 103) says that an incomplete last
  record is discarded. `Kept` models it.
* *Recovery is not atomic.* It truncates and then writes
  (`campaign_supervisor.py:664`); a second crash there loses committed records,
  although the runbook (line 104) says that the committed prefix stays valid.
  `LossNeedsTwoCrashes`, checked and proved, says that nothing else loses one.
* *A settled alert may be written again.* A worker whose SELECT started before another
  one committed takes the row it has just released (`monitoring.py:1217`); only the
  insert of its attempt is refused. `docs/MONITORING_RUNBOOK.md:83` forbids another
  attempt. The promise of `AlertPromise`, at least once, survives it.
* *An alert of a replaced policy blocks the queue.* `from_row` raises for it on every
  poll (`monitoring.py:1435`), it never expires, and the alerts behind it wait;
  `docs/MONITORING_RUNBOOK.md:127` says that pending entries survive.
  `EveryAlertSettles` is therefore stated for alerts of the deployed policy.
* *A reconnect may be impossible to record.* The rule at
  `observation_scenarios.py:1836` wants `session_disconnected` after `control_applied`.
  `ApplyControl` aborts the socket before it appends `control_applied`
  (`OfficialT4MarketDataReader.cs:319`, 357), and the session thread appends
  `session_disconnected` without the gate (1374), so it may come first. The request is
  deterministic, hence the trial can then never be recorded. In `ControlIsSettled` this
  is `ControlIsLost`. `docs/T4_OBSERVATION_RUNBOOK.md:290` promises that a reconnect is
  confirmed by the next live batch.
* *A crash may do the same.* The evidence begins at the first `control_requested` of the
  request (`observation_scenarios.py:1787`). If the bridge crashes before the receipt,
  the command has the control applied by the next process, and the stretch spans both;
  the trigger wants one `boot_id` at its two ends
  (`0018_t4_scenario_evidence.sql:909`). This is the exception in `EvidenceIsAgreed`.
* *A SQLite COMMIT may end after the 504.* The last look at the deadline precedes it;
  the margin of 1.75 s makes it unlikely, and the comment at `storage.py:92` says that
  it cannot happen.
* *A hanging scope and a short interval.* By the bound of `supervisor_campaign`, one
  scope that hangs needs an interval of about 880 s with the default configuration (120 s
  timeout, 2 retries, 2 s backoff, 15 s poll) to leave the scopes behind it unharmed;
  `docs/T4_OBSERVATION_RUNBOOK.md` starts a campaign with 300 s.

## 6. What is not modelled

A stop of the supervisor by a signal; `status.json` and the directory entry of a new
journal; the bytes of a partly written line; the dashboard and `trace` of
`monitoring.py`, which only read; `record_cycle`, `record_session_event` and
`create_campaign` (the campaign exists in `Init`); the numeric criteria of
`evaluate_observation`; passive scenarios, apart from the attestation of a replay, and
trials after the final report; the registration of the bridge's key, the hash chain,
signatures and file of its journal; the T4 protocol and its parsing; answers in schema
versions 2 to 4; floating-point analytics, of which `DecisionGate` keeps the side of a
limit; migrations, seeds and the health catalog; the endpoints of the API that format
stored state; configuration files, deployment units, CI. The rest of the plan is in 1.4.
