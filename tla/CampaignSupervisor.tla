------------------------- MODULE CampaignSupervisor -------------------------
(***************************************************************************)
(* The supervisor of an observation campaign (campaign_supervisor.py):     *)
(* once in every poll it looks at the services, reads the progress of the  *)
(* campaign, runs `observe-run' for each scope that is due, with a timeout *)
(* and bounded retries, and `observe-report' when the campaign is over.    *)
(* systemd starts it again whenever it fails.                              *)
(*                                                                         *)
(* Time is explicit: every wait of the supervisor is a number of ticks.    *)
(* What takes no wait takes no time.  The ledger is represented by what    *)
(* FrozenSchedule allows an observe-run to do, as counters.  There is one  *)
(* supervisor: SupervisorJournal is about the lock that ensures it.        *)
(***************************************************************************)
EXTENDS Integers, Sequences, FiniteSets

CONSTANTS
    Manifest,     \* the frozen scopes, in their order
    Prompt,       \* scopes whose commands always record, within the timeout
    Services,     \* the services that systemd and the supervisor keep up
    Slots,        \* number of scheduled slots of each scope
    Interval,     \* cycle_interval_seconds
    Timeout,      \* cycle_timeout_seconds
    Retries,      \* command_retries
    Backoff,      \* retry_backoff_seconds
    Poll,         \* poll_seconds
    Cooldown,     \* service_restart_cooldown_seconds
    RestartSec,   \* of the supervisor's systemd unit
    MaxFailures   \* bound: crashes of the supervisor and outages of services

Positions == 1..Len(Manifest)
Scopes == {Manifest[i] : i \in Positions}

ASSUME ManifestAssumption == /\ Manifest \in Seq(Scopes) /\ Manifest # <<>> /\ Prompt \subseteq Scopes
                             /\ \A i, j \in Positions : Manifest[i] = Manifest[j] => i = j
ASSUME ScheduleAssumption == Slots \in Nat \ {0} /\ Interval \in Nat \ {0}
ASSUME ConfigAssumption == /\ Timeout \in Nat \ {0} /\ Retries \in Nat
                           /\ Backoff \in Nat \ {0} /\ Poll \in Nat \ {0}
                           /\ Cooldown \in Nat /\ RestartSec \in Nat /\ MaxFailures \in Nat

VARIABLES
    now,       \* clock_timestamp() of the database server
    seq,       \* committed slots of each scope
    missed,    \* those of them that were missed
    report,    \* the final report is stored
    up,        \* the services that are active
    announced, \* missed slots of each scope announced in events.jsonl
    pc, left,  \* control of the supervisor and ticks until its wait is over
    queue,     \* positions of the scopes still to run in this tick of the supervisor
    job,       \* what else this tick knows
    counted,   \* _last_missed_counts
    cooling,   \* ticks until a service may be restarted again
    failures   \* crashes and outages so far

ledger == <<seq, missed, report>>
memory == <<counted, cooling>>
vars == <<now, ledger, up, announced, pc, left, queue, job, memory, failures>>

-----------------------------------------------------------------------------
Expected(k) == Interval * k
SlotEnd(k) == Expected(k) + Interval
GraceEnd == SlotEnd(Slots)

(* The clock is compared with nothing beyond the end of the grace.         *)
EndOfTime == GraceEnd + 1

(* A command has planned to decide the slots up to `to', the last one by   *)
(* an attempt if it is due.                                                *)
NoPlan == [to |-> 0, due |-> FALSE]
NoJob == [active |-> {}, ran |-> FALSE, finalize |-> FALSE,
          stored |-> FALSE, attempt |-> 0, planned |-> FALSE, plan |-> NoPlan,
          committed |-> FALSE]

Init ==
    /\ now = 0
    /\ seq = [s \in Scopes |-> 0]
    /\ missed = [s \in Scopes |-> 0]
    /\ report = FALSE
    /\ up = Services
    /\ announced = [s \in Scopes |-> 0]
    /\ pc = "check" /\ left = 0
    /\ queue = {}
    /\ job = NoJob
    /\ counted = [s \in Scopes |-> 0]
    /\ cooling = [v \in Services |-> 0]
    /\ failures = 0

-----------------------------------------------------------------------------
(* The environment. *)

Waiting == {"cycle", "backoff", "report", "poll", "down"}

(* Time passes while the supervisor waits for something.                   *)
Tick ==
    /\ pc \in Waiting /\ left > 0
    /\ now' = IF now < EndOfTime THEN now + 1 ELSE now
    /\ left' = left - 1
    /\ cooling' = [v \in Services |-> IF cooling[v] > 0 THEN cooling[v] - 1 ELSE 0]
    /\ UNCHANGED <<ledger, up, announced, pc, queue, job, counted, failures>>

Fails == failures < MaxFailures /\ failures' = failures + 1

Outage(v) ==
    /\ v \in up
    /\ up' = up \ {v}
    /\ Fails
    /\ UNCHANGED <<now, ledger, announced, pc, left, queue, job, memory>>

(* Restart=always of the services. *)
Recover(v) ==
    /\ v \in Services \ up
    /\ up' = up \union {v}
    /\ UNCHANGED <<now, ledger, announced, pc, left, queue, job, memory, failures>>

(* The supervisor is killed, or ends in an error, such as an unavailable   *)
(* database in load_progress.  Its command is killed with it.              *)
Crash ==
    /\ pc \notin {"down", "done"}
    /\ pc' = "down" /\ left' = RestartSec
    /\ queue' = {}
    /\ job' = NoJob
    /\ counted' = [s \in Scopes |-> 0]
    /\ cooling' = [v \in Services |-> 0]
    /\ Fails
    /\ UNCHANGED <<now, ledger, up, announced>>

(* Restart=on-failure of the supervisor. *)
Boot ==
    /\ pc = "down" /\ left = 0
    /\ pc' = "check"
    /\ UNCHANGED <<now, ledger, up, announced, left, queue, job, memory, failures>>

-----------------------------------------------------------------------------
(* A tick of the supervisor (_tick). *)

Go(state, wait) == pc' = state /\ left' = wait

(* ensure_services: an inactive service is restarted, unless that was done *)
(* less than the cooldown ago, and looked at once more.                    *)
Check ==
    LET restarted == {v \in Services \ up : cooling[v] = 0}
    IN  /\ pc = "check"
        /\ \E recovered \in SUBSET restarted :
              /\ up' = up \union recovered
              /\ job' = [NoJob EXCEPT !.active = up']
        /\ cooling' = [v \in Services |-> IF v \in restarted THEN Cooldown ELSE cooling[v]]
        /\ Go("load", 0)
        /\ UNCHANGED <<now, ledger, announced, queue, counted, failures>>

Due(s) == seq[s] < Slots /\ Expected(seq[s] + 1) <= now

(* Mutant: the grace of the last slot is not awaited.                      *)
GraceNotAwaited == ~report /\ now >= Expected(Slots)

FinalizationDue == ~report /\ now >= GraceEnd

(* Mutant: only the answer of observe-report tells that it is stored.      *)
ProgressWithoutReport(j) == [j EXCEPT !.finalize = FinalizationDue]

(* What load_progress says of the report and of the end of the campaign.   *)
Progress(j) == [j EXCEPT !.finalize = FinalizationDue, !.stored = report]

(* _record_new_missed compares with what this process has seen before.     *)
RecordNewMissed ==
    /\ announced' = [s \in Scopes |-> announced[s] +
                        IF missed[s] > counted[s] THEN missed[s] - counted[s] ELSE 0]
    /\ counted' = missed

(* load_progress; only with both services active are cycles run.           *)
Load ==
    /\ pc = "load"
    /\ queue' = IF job.active = Services /\ ~report
                THEN {i \in Positions : Due(Manifest[i])} ELSE {}
    /\ job' = Progress(job)
    /\ RecordNewMissed
    /\ Go("next", 0)
    /\ UNCHANGED <<now, ledger, up, cooling, failures>>

(* The scopes that are due are run in the order of the manifest.           *)
First == CHOOSE i \in queue : \A j \in queue : i <= j
Running == Manifest[First]

StartCommand(attempt) ==
    /\ job' = [job EXCEPT !.attempt = attempt, !.planned = FALSE, !.plan = NoPlan,
                          !.committed = FALSE]
    /\ Go("cycle", Timeout)

StartCycle ==
    /\ pc = "next" /\ queue # {}
    /\ StartCommand(0)
    /\ UNCHANGED <<now, ledger, up, announced, queue, memory, failures>>

(* All slots of s before k have elapsed, and k has not. *)
CatchesUpTo(s, k) ==
    /\ k > seq[s]
    /\ \A j \in (seq[s] + 1)..(k - 1) : now > SlotEnd(j)
    /\ k = Slots + 1 \/ now <= SlotEnd(k)

PlanTo(k) ==
    LET due == k <= Slots /\ Expected(k) <= now
    IN  [to |-> IF due THEN k ELSE k - 1, due |-> due]

(* The command has the campaign lock and plans with the time of then: the  *)
(* elapsed slots are missed, the one after them is attempted if it is due. *)
PlanCycle ==
    /\ pc = "cycle" /\ ~job.planned
    /\ \E k \in 1..(Slots + 1) :
          /\ CatchesUpTo(Running, k)
          /\ job' = [job EXCEPT !.planned = TRUE, !.plan = PlanTo(k)]
    /\ UNCHANGED <<now, ledger, up, announced, pc, left, queue, memory, failures>>

(* The transaction of the command commits. *)
CommitCycle ==
    LET s == Running
        given == job.plan.to - seq[s] - IF job.plan.due THEN 1 ELSE 0
    IN  /\ pc = "cycle" /\ job.planned /\ ~job.committed /\ ~report
        /\ job.plan.to > seq[s]
        /\ seq' = [seq EXCEPT ![s] = job.plan.to]
        /\ missed' = [missed EXCEPT ![s] = @ + given]
        /\ job' = [job EXCEPT !.committed = TRUE]
        /\ UNCHANGED <<now, report, up, announced, pc, left, queue, memory, failures>>

Steady == Running \in Prompt /\ ~(job.planned /\ job.plan.to = seq[Running])

(* The command is done with its scope: its answer has arrived, or an error *)
(* that is not retried, which may also hide a commit.                      *)
CycleFinished ==
    /\ pc = "cycle"
    /\ job.committed \/ ~Steady
    /\ queue' = queue \ {First}
    /\ job' = [job EXCEPT !.ran = TRUE]
    /\ Go("next", 0)
    /\ UNCHANGED <<now, ledger, up, announced, memory, failures>>

(* Mutant: the delay doubles once more. *)
DelayFromTwo(attempt) == Backoff * 2^(attempt + 1)

Delay(attempt) == Backoff * 2^attempt

(* An error that is retried, or the timeout, which kills the command; it   *)
(* may have committed.  The last attempt is followed by a delay, too.      *)
CycleFails ==
    /\ pc = "cycle"
    /\ Running \notin Prompt
    /\ Go("backoff", Delay(job.attempt))
    /\ UNCHANGED <<now, ledger, up, announced, queue, job, memory, failures>>

Retry ==
    /\ pc = "backoff" /\ left = 0
    /\ IF job.attempt < Retries
       THEN StartCommand(job.attempt + 1) /\ UNCHANGED queue
       ELSE /\ queue' = queue \ {First}
            /\ job' = [job EXCEPT !.ran = TRUE]
            /\ Go("next", 0)
    /\ UNCHANGED <<now, ledger, up, announced, memory, failures>>

(* Mutant: the progress from before the cycles is used.                    *)
ReloadSkipped ==
    /\ pc = "next" /\ queue = {} /\ job.ran
    /\ job' = [job EXCEPT !.ran = FALSE]
    /\ UNCHANGED <<now, ledger, up, announced, pc, left, queue, memory, failures>>

Reload ==
    /\ pc = "next" /\ queue = {} /\ job.ran
    /\ job' = Progress([job EXCEPT !.ran = FALSE])
    /\ RecordNewMissed
    /\ UNCHANGED <<now, ledger, up, pc, left, queue, cooling, failures>>

StartReport ==
    /\ pc = "next" /\ queue = {} /\ ~job.ran /\ job.finalize
    /\ job' = [job EXCEPT !.finalize = FALSE]
    /\ Go("report", Timeout)
    /\ UNCHANGED <<now, ledger, up, announced, queue, memory, failures>>

(* observe-report needs the bridge for its checkpoint and the verifier for *)
(* its import.                                                             *)
StoreReport ==
    /\ pc = "report" /\ ~report
    /\ up = Services
    /\ report' = TRUE
    /\ UNCHANGED <<now, seq, missed, up, announced, pc, left, queue, job, memory, failures>>

(* `stored', an error, or the timeout; only after `stored' the progress is *)
(* read again.                                                             *)
ReportFinished ==
    /\ pc = "report"
    /\ \/ report /\ job' = [job EXCEPT !.stored = TRUE]
       \/ UNCHANGED job
    /\ Go("next", 0)
    /\ UNCHANGED <<now, ledger, up, announced, queue, memory, failures>>

EndTick ==
    /\ pc = "next" /\ queue = {} /\ ~job.ran /\ ~job.finalize
    /\ IF job.stored THEN Go("done", 0) ELSE Go("poll", Poll)
    /\ job' = NoJob
    /\ UNCHANGED <<now, ledger, up, announced, queue, memory, failures>>

Again ==
    /\ pc = "poll" /\ left = 0
    /\ Go("check", 0)
    /\ UNCHANGED <<now, ledger, up, announced, queue, job, memory, failures>>

SupervisorStep ==
    \/ Boot \/ Check \/ Load \/ StartCycle \/ PlanCycle \/ CommitCycle \/ CycleFinished
    \/ CycleFails \/ Retry \/ Reload \/ StartReport \/ ReportFinished \/ EndTick \/ Again

Next ==
    \/ Tick \/ Crash \/ SupervisorStep \/ StoreReport
    \/ \E v \in Services : Outage(v) \/ Recover(v)

Spec == Init /\ [][Next]_vars

(* The process runs, systemd restarts services, and a report that is asked *)
(* for again and again while the services are up is stored at last.        *)
FairSpec ==
    /\ Spec
    /\ WF_vars(Tick)
    /\ WF_vars(SupervisorStep)
    /\ \A v \in Services : WF_vars(Recover(v))
    /\ SF_vars(StoreReport)

-----------------------------------------------------------------------------
Ticks == 0..(Timeout + Poll + RestartSec + DelayFromTwo(Retries))
Plan == [to : 0..Slots, due : BOOLEAN]
Job == [active : SUBSET Services, ran : BOOLEAN,
        finalize : BOOLEAN, stored : BOOLEAN, attempt : 0..Retries,
        planned : BOOLEAN, plan : Plan, committed : BOOLEAN]

TypeOK ==
    /\ now \in 0..EndOfTime
    /\ seq \in [Scopes -> 0..Slots]
    /\ missed \in [Scopes -> 0..Slots]
    /\ report \in BOOLEAN
    /\ up \in SUBSET Services
    /\ announced \in [Scopes -> Nat]
    /\ pc \in Waiting \union {"check", "load", "next", "done"}
    /\ left \in Ticks
    /\ queue \in SUBSET Positions
    /\ job \in Job
    /\ counted \in [Scopes -> 0..Slots]
    /\ cooling \in [Services -> 0..Cooldown]
    /\ failures \in 0..MaxFailures

(* The delays double (a hypothesis of proofs, which know nothing of ^).    *)
Powers == \A a \in 0..Retries + 1 : 2^a \in Nat /\ (a <= Retries => 2^(a + 1) = 2 * 2^a)

(* How long a scope may hold the loop of _tick after some attempts that    *)
(* all time out, each followed by its delay; how long a queue may; and an  *)
(* interval that has room for the worst: a scope becomes due just after a  *)
(* tick has read the progress, all others are run in that tick, and all of *)
(* them again before it in the next one.                                   *)
Spent(attempts) == attempts * Timeout + Backoff * (2^attempts - 1)
Longest == Spent(Retries + 1)
QueueCost(waiting) ==
    Timeout * Cardinality({i \in waiting : Manifest[i] \in Prompt})
        + Longest * Cardinality({i \in waiting : Manifest[i] \notin Prompt})
IntervalSuffices ==
    LET worst == QueueCost(Positions)
    IN  Poll + worst <= Interval /\ Poll + 2 * worst - Timeout <= Interval + 1

(* A scope whose commands always record within their timeout loses no slot *)
(* to the timeouts and the retries of the scopes before it, as long as the *)
(* interval is long enough for them (the loop over due_scopes in _tick is  *)
(* sequential, and _run_scope may hold it for all its attempts and delays).*)
HealthyScopeIsNotStarved ==
    failures = 0 => \A s \in Prompt : missed[s] = 0

(* Nor does the final report close the campaign before its last slot was   *)
(* attempted: finalization_due waits for the grace, and the cycles that    *)
(* are due are run before observe-report in the same _tick.                *)
HealthyScopeIsComplete ==
    failures = 0 /\ report => \A s \in Prompt : seq[s] = Slots

(* The supervisor ends only with a stored report, and then events.jsonl    *)
(* has announced every missed slot, whichever commands committed them and  *)
(* however often the supervisor was restarted (_record_new_missed).        *)
NoMissedIsOverlooked ==
    pc = "done" => report /\ \A s \in Scopes : announced[s] >= missed[s]

(* Why nothing is overlooked: after the commands of a tick the progress is *)
(* read again before the tick goes on to the report or to its end, a known *)
(* report is a stored one, and a restart forgets what was announced, so it *)
(* announces too much and never too little.                                *)
CountsOK ==
    /\ seq \in [Scopes -> Nat]
    /\ missed \in [Scopes -> Nat]
    /\ announced \in [Scopes -> Nat]
    /\ counted \in [Scopes -> Nat]
    /\ report \in BOOLEAN
    /\ up \in SUBSET Services
    /\ job \in Job

CountedIsAnnounced == \A s \in Scopes : announced[s] >= counted[s]

ProgressIsCurrent ==
    /\ pc \in {"next", "report"} /\ ~job.ran => counted = missed
    /\ job.stored => report

SupervisorInvariant ==
    /\ CountsOK
    /\ CountedIsAnnounced
    /\ ProgressIsCurrent
    /\ pc = "load" => ~job.ran
    /\ pc = "done" => report /\ counted = missed

(* The supervisor brings its campaign to an end, whatever crashes,         *)
(* outages, timeouts and lost answers there are on the way (run).          *)
CampaignCompletes == <>(pc = "done")
=============================================================================
