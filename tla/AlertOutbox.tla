----------------------------- MODULE AlertOutbox -----------------------------
(***************************************************************************)
(* The alert outbox of monitoring.py and migration 0016.  Alerts are       *)
(* queued by the transaction that records a report; workers, the processes *)
(* of `monitor-deliver', take one due alert at a time in a READ COMMITTED  *)
(* transaction (deliver_one), write it to their standard output, and       *)
(* record the outcome as an attempt, which a trigger chains to the         *)
(* previous one.                                                           *)
(*                                                                         *)
(* Time is the clock of the hosts, which run in step, in ticks.  The hash  *)
(* of an attempt contains the one before it, so a chain is represented by  *)
(* the sequence of its attempts; two attempts made at different moments    *)
(* never have the same hash.                                               *)
(***************************************************************************)
EXTENDS Naturals, Sequences

CONSTANTS
    Workers,      \* processes of monitor-deliver
    NoWorker,     \* an outbox row that nobody has locked
    MaxAlerts,    \* bound: alerts ever queued
    MaxTime,      \* bound: the clock stops here, and alerts expire before
    MaxLifetime,  \* bound: ticks between the queueing of an alert and its expiry
    MaxAttempts,  \* max_attempts of the policy
    RetryBase, RetryMax,  \* retry_base_seconds and retry_max_seconds, in ticks
    Margin,       \* safety_margin of deliver_one, in ticks
    MaxPolicies,  \* bound: monitoring policies ever deployed
    MaxFailures   \* bound: crashes and lost sessions

ASSUME WorkersAssumption == NoWorker \notin Workers
ASSUME BoundsAssumption == /\ MaxAlerts \in Nat /\ MaxTime \in Nat
                           /\ MaxLifetime \in Nat /\ MaxPolicies \in Nat
                           /\ MaxFailures \in Nat
ASSUME PolicyAssumption == /\ MaxAttempts \in Nat \ {0} /\ Margin \in Nat
                           /\ RetryBase \in Nat \ {0} /\ RetryMax \in Nat
                           /\ RetryBase <= RetryMax

VARIABLES
    now,       \* the clock
    policy,    \* the monitoring policy that is deployed
    outbox,    \* alert_delivery_outbox; the index is the identity of a row
    attempts,  \* committed rows of alert_delivery_attempts, by alert
    lock,      \* holder of the row lock of each outbox row
    written,   \* lines written to standard output, by alert
    pc, work,  \* control of each worker and what it knows
    failures   \* crashes and lost sessions so far

db == <<outbox, attempts>>
wvars == <<pc, work>>
vars == <<now, policy, db, lock, written, wvars, failures>>

-----------------------------------------------------------------------------
Alerts == 1..MaxAlerts
Terminal == {"delivered", "permanent_failure", "expired"}

(* next is next_attempt_at; 0 is NULL. *)
Attempt == [outcome : Terminal \union {"retryable_failure"},
            started : Nat, finished : Nat, next : Nat]
OutboxRow == [available : Nat, expires : Nat, policy : Nat]
Written == [no : Nat, at : Nat]

LastOf(chain) == chain[Len(chain)]
Settled(chain) == chain # <<>> /\ LastOf(chain).outcome \in Terminal

NoAttempt == [outcome |-> "expired", started |-> 0, finished |-> 0, next |-> 0]
NoWork == [at |-> 0, policy |-> 0, visible |-> 0, seen |-> [a \in Alerts |-> <<>>],
           alert |-> 1, previous |-> <<>>, live |-> FALSE, wrote |-> FALSE,
           row |-> NoAttempt]

Init ==
    /\ now = 0
    /\ policy = 1
    /\ outbox = <<>>
    /\ attempts = [a \in Alerts |-> <<>>]
    /\ lock = [a \in Alerts |-> NoWorker]
    /\ written = [a \in Alerts |-> {}]
    /\ pc = [w \in Workers |-> "idle"]
    /\ work = [w \in Workers |-> NoWork]
    /\ failures = 0

-----------------------------------------------------------------------------
(* record_report queues a new alert with its run.  An alert that is known  *)
(* already is compared and left alone.                                     *)
Enqueue ==
    /\ Len(outbox) < MaxAlerts
    /\ \E life \in 1..MaxLifetime :
          /\ now + life <= MaxTime
          /\ outbox' = Append(outbox, [available |-> now, expires |-> now + life,
                                       policy |-> policy])
    /\ UNCHANGED <<now, policy, attempts, lock, written, wvars, failures>>

(* Another monitoring_policy file is deployed. *)
ChangePolicy ==
    /\ policy < MaxPolicies
    /\ policy' = policy + 1
    /\ UNCHANGED <<now, db, lock, written, wvars, failures>>

Tick ==
    /\ now < MaxTime
    /\ now' = now + 1
    /\ UNCHANGED <<policy, db, lock, written, wvars, failures>>

-----------------------------------------------------------------------------
(* Workers: MonitoringRepository.deliver_one.                              *)

Unlocked(w) == [a \in Alerts |-> IF lock[a] = w THEN NoWorker ELSE lock[a]]

(* The transaction ends without an effect. *)
Rollback(w) ==
    /\ pc' = [pc EXCEPT ![w] = "idle"]
    /\ work' = [work EXCEPT ![w] = NoWork]
    /\ lock' = Unlocked(w)
    /\ UNCHANGED <<now, policy, db, written>>

Fails == failures < MaxFailures /\ failures' = failures + 1

(* The policy is loaded and attempted_at is read before the transaction.   *)
Begin(w) ==
    /\ pc[w] = "idle"
    /\ pc' = [pc EXCEPT ![w] = "begun"]
    /\ work' = [work EXCEPT ![w].at = now, ![w].policy = policy, ![w].live = TRUE]
    /\ UNCHANGED <<now, policy, db, lock, written>>

(* The SELECT starts: everything it reads, the latest attempt of each      *)
(* alert included, is as of this moment.                                   *)
TakeSnapshot(w) ==
    /\ pc[w] = "begun"
    /\ pc' = [pc EXCEPT ![w] = "selecting"]
    /\ work' = [work EXCEPT ![w].visible = Len(outbox), ![w].seen = attempts]
    /\ UNCHANGED <<now, policy, db, lock, written>>

(* The WHERE clause of _select_due_delivery. *)
Due(w, a) ==
    LET chain == work[w].seen[a]
    IN  /\ outbox[a].available <= work[w].at
        /\ \/ chain = <<>>
           \/ /\ LastOf(chain).outcome = "retryable_failure"
              /\ \/ LastOf(chain).next <= work[w].at
                 \/ outbox[a].expires <= work[w].at

(* FOR UPDATE OF outbox SKIP LOCKED.  A row that was locked when the query *)
(* started and is free by now is taken with the attempt as it was then:    *)
(* outbox rows are never updated, so PostgreSQL does not read them again.  *)
Candidates(w) == {a \in 1..work[w].visible : lock[a] = NoWorker /\ Due(w, a)}

Take(w, a, state) ==
    /\ lock' = [lock EXCEPT ![a] = w]
    /\ pc' = [pc EXCEPT ![w] = state]
    /\ work' = [work EXCEPT ![w] = [NoWork EXCEPT !.at = work[w].at, !.live = TRUE,
                                        !.alert = a, !.previous = work[w].seen[a]]]
    /\ UNCHANGED <<now, policy, db, written>>

(* Mutant: an expired alert falls into the branch of the safety margin.    *)
SelectWithoutExpiry(w) ==
    /\ pc[w] = "selecting"
    /\ \/ Candidates(w) = {} /\ Rollback(w)
       \/ \E a \in Candidates(w) :
             /\ \A b \in Candidates(w) : a <= b
             /\ IF \/ outbox[a].policy # work[w].policy
                   \/ outbox[a].expires <= work[w].at + Margin
                THEN Rollback(w)
                ELSE Take(w, a, "writing")

(* The oldest candidate.  An alert of another policy is an error           *)
(* (_DeliveryRow.from_row); too close to its expiry it is left for later.  *)
Select(w) ==
    /\ pc[w] = "selecting"
    /\ \/ Candidates(w) = {} /\ Rollback(w)
       \/ \E a \in Candidates(w) :
             /\ \A b \in Candidates(w) : a <= b
             /\ IF outbox[a].policy # work[w].policy
                THEN Rollback(w)
                ELSE IF outbox[a].expires <= work[w].at
                THEN Take(w, a, "recording")
                ELSE IF outbox[a].expires <= work[w].at + Margin
                THEN Rollback(w)
                ELSE Take(w, a, "writing")

(* _bounded_stream_write: the whole line goes out, or not, which is an     *)
(* error and leaves at most a part that the consumer cannot use.           *)
Write(w) ==
    LET a == work[w].alert
        line == [no |-> Len(work[w].previous) + 1, at |-> now]
    IN  /\ pc[w] = "writing"
        /\ \/ /\ written' = [written EXCEPT ![a] = @ \union {line}]
              /\ work' = [work EXCEPT ![w].wrote = TRUE]
           \/ UNCHANGED <<written, work>>
        /\ pc' = [pc EXCEPT ![w] = "recording"]
        /\ UNCHANGED <<now, policy, db, lock>>

(* Mutant: a line written after the expiry is not told from one in time.   *)
OutcomesWithoutWindow(w) ==
    LET expires == outbox[work[w].alert].expires
        no == Len(work[w].previous) + 1
        Ended(outcome) == [outcome |-> outcome, started |-> work[w].at,
                           finished |-> now, next |-> 0]
    IN  IF expires <= work[w].at
        THEN {[Ended("expired") EXCEPT !.finished = work[w].at]}
        ELSE {Ended("delivered")}

(* The attempts deliver_one may record: their outcome depends on the       *)
(* write, on the time and on the jittered delay before the next attempt.   *)
Outcomes(w) ==
    LET expires == outbox[work[w].alert].expires
        no == Len(work[w].previous) + 1
        Ended(outcome) == [outcome |-> outcome, started |-> work[w].at,
                           finished |-> now, next |-> 0]
        Retried(at) ==
            IF no < MaxAttempts /\ at < expires /\ now < expires
            THEN [Ended("retryable_failure") EXCEPT !.next = at]
            ELSE Ended("permanent_failure")
    IN  IF expires <= work[w].at
        THEN {[Ended("expired") EXCEPT !.finished = work[w].at]}
        ELSE IF ~work[w].wrote
        THEN {Retried(now + delay) : delay \in RetryBase..RetryMax}
        ELSE {Ended(IF now > expires THEN "permanent_failure" ELSE "delivered")}

(* Mutant: the trigger does not look at the attempts that exist.           *)
InsertUnchained(a, previous, row) ==
    /\ Len(previous) < MaxAttempts
    /\ row.outcome = "expired" => row.started >= outbox[a].expires

(* Trigger enforce_alert_delivery_attempt, which sees what is committed    *)
(* when the row is inserted.                                               *)
InsertAllowed(a, previous, row) ==
    LET chain == attempts[a]
        no == Len(previous) + 1
    IN  /\ no = Len(chain) + 1
        /\ chain # <<>> =>
              /\ LastOf(chain).outcome \notin Terminal
              /\ previous = chain
              /\ row.started >= LastOf(chain).finished
              /\ row.outcome # "expired" => row.started >= LastOf(chain).next
        /\ no <= MaxAttempts
        /\ row.outcome = "retryable_failure" => no < MaxAttempts
        /\ IF row.outcome = "expired"
           THEN row.started >= outbox[a].expires
           ELSE /\ row.started \in outbox[a].available..(outbox[a].expires - 1)
                /\ row.outcome = "delivered" => row.finished <= outbox[a].expires
        /\ row.next < outbox[a].expires

(* _record_delivery_outcome; a rejected insert or a lost session ends the  *)
(* transaction in an error, with the line written.                         *)
Record(w) ==
    /\ pc[w] = "recording"
    /\ \E row \in Outcomes(w) :
          IF work[w].live /\ InsertAllowed(work[w].alert, work[w].previous, row)
          THEN /\ pc' = [pc EXCEPT ![w] = "committing"]
               /\ work' = [work EXCEPT ![w].row = row]
               /\ UNCHANGED <<now, policy, db, lock, written>>
          ELSE Rollback(w)

Commit(w) ==
    /\ pc[w] = "committing"
    /\ attempts' = [attempts EXCEPT ![work[w].alert] = Append(@, work[w].row)]
    /\ lock' = Unlocked(w)
    /\ pc' = [pc EXCEPT ![w] = "idle"]
    /\ work' = [work EXCEPT ![w] = NoWork]
    /\ UNCHANGED <<now, policy, outbox, written>>

(* The process is killed, or its transaction is rolled back by the server  *)
(* before or during the commit.                                            *)
Crash(w) ==
    /\ pc[w] # "idle"
    /\ Rollback(w)
    /\ Fails

(* The connection breaks while the worker writes: the server releases the  *)
(* lock at once and the worker notices when it records the outcome.        *)
SessionLost(w) ==
    /\ pc[w] \in {"writing", "recording"}
    /\ work[w].live
    /\ work' = [work EXCEPT ![w].live = FALSE]
    /\ lock' = Unlocked(w)
    /\ Fails
    /\ UNCHANGED <<now, policy, db, written, pc>>

WorkerStep(w) ==
    /\ Begin(w) \/ TakeSnapshot(w) \/ Select(w) \/ Write(w) \/ Record(w) \/ Commit(w)
    /\ UNCHANGED failures

Next ==
    \/ Enqueue \/ ChangePolicy \/ Tick
    \/ \E w \in Workers : WorkerStep(w) \/ Crash(w) \/ SessionLost(w)

Spec == Init /\ [][Next]_vars

(* `monitor-deliver --watch' polls for ever, every statement and the write *)
(* have a timeout, nothing waits for a lock, and time passes.              *)
FairSpec ==
    /\ Spec
    /\ WF_vars(Tick)
    /\ \A w \in Workers : WF_vars(WorkerStep(w))

-----------------------------------------------------------------------------
(* Properties. *)

WorkerStates == {"idle", "begun", "selecting", "writing", "recording", "committing"}
Work == [at : Nat, policy : Nat, visible : 0..MaxAlerts,
         seen : [Alerts -> Seq(Attempt)], alert : Nat \ {0}, previous : Seq(Attempt),
         live : BOOLEAN, wrote : BOOLEAN, row : Attempt]

(* Every variable has its type. *)
TypeOK ==
    /\ now \in Nat
    /\ policy \in Nat
    /\ outbox \in Seq(OutboxRow) /\ Len(outbox) <= MaxAlerts
    /\ attempts \in [Alerts -> Seq(Attempt)]
    /\ lock \in [Alerts -> Workers \union {NoWorker}]
    /\ written \in [Alerts -> SUBSET Written]
    /\ pc \in [Workers -> WorkerStates]
    /\ work \in [Workers -> Work]
    /\ failures \in Nat

(* Whatever workers race, crash, lose their session or read an attempt     *)
(* that is no longer the latest: the attempts of an alert are at most      *)
(* MaxAttempts, only the last one settles it, and each starts after the    *)
(* end of the one before it and, unless the alert has expired, not before  *)
(* the moment that one set for the retry.                                  *)
ChainOk(chain) ==
    /\ Len(chain) <= MaxAttempts
    /\ \A i \in 1..(Len(chain) - 1) :
          /\ chain[i].outcome = "retryable_failure"
          /\ chain[i].finished <= chain[i + 1].started
          /\ chain[i + 1].outcome # "expired" => chain[i].next <= chain[i + 1].started
    /\ chain # <<>> /\ LastOf(chain).outcome = "retryable_failure" =>
          Len(chain) < MaxAttempts
AttemptsAreChained == \A a \in Alerts : ChainOk(attempts[a])

(* An attempt recorded as delivered has put its line on the output between *)
(* its start and its end, inside the delivery window.                      *)
DeliveredIn(a, no, row) ==
    row.outcome = "delivered" =>
        \E line \in written[a] :
            /\ line.no = no
            /\ line.at \in row.started..row.finished
            /\ line.at <= outbox[a].expires
DeliveredWasWritten ==
    \A a \in Alerts : \A i \in 1..Len(attempts[a]) : DeliveredIn(a, i, attempts[a][i])

(* The outbox keeps the promise of an at-least-once delivery.              *)
Promise == INSTANCE AlertPromise WITH
    queued <- Len(outbox),
    emitted <- {a \in Alerts : written[a] # {}},
    settled <- [a \in Alerts |-> IF Settled(attempts[a])
                                 THEN LastOf(attempts[a]).outcome ELSE "pending"]
KeepsPromise == Promise!Spec

(* Every queued alert is settled in the end, however workers fail, if they *)
(* do so finitely often: no worker, retry, lock or expiry leaves it        *)
(* behind.  An alert of another policy does: it is an error of every poll, *)
(* and all alerts wait behind it (_DeliveryRow.from_row).                  *)
QueuedUnder(p) == policy = p /\ \A b \in 1..Len(outbox) : outbox[b].policy = p
EveryAlertSettles ==
    \A a \in Alerts : \A p \in 1..MaxPolicies :
        (Len(outbox) >= a /\ QueuedUnder(p)) ~> (Settled(attempts[a]) \/ policy # p)

-----------------------------------------------------------------------------
(* The inductive invariant. *)

Holding == {"writing", "recording", "committing"}

(* A live session past its SELECT holds the row lock of its alert. *)
HoldsLock(w) ==
    /\ pc[w] \in Holding =>
          /\ work[w].alert \in 1..Len(outbox)
          /\ work[w].live => lock[work[w].alert] = w
    /\ pc[w] = "committing" => work[w].live

(* Nothing a worker knows is in the future. *)
NotAhead(w) == work[w].at <= now /\ work[w].visible <= Len(outbox)

(* A worker that has written finds its line on the output. *)
LineIsThere(w) ==
    /\ pc[w] = "writing" => ~work[w].wrote
    /\ pc[w] = "recording" /\ work[w].wrote =>
          \E line \in written[work[w].alert] :
              /\ line.no = Len(work[w].previous) + 1
              /\ line.at \in work[w].at..now

(* The attempt may follow the chain. *)
Follows(chain, row) ==
    /\ Len(chain) < MaxAttempts
    /\ row.outcome = "retryable_failure" => Len(chain) + 1 < MaxAttempts
    /\ chain # <<>> =>
          /\ LastOf(chain).outcome = "retryable_failure"
          /\ LastOf(chain).finished <= row.started
          /\ row.outcome # "expired" => LastOf(chain).next <= row.started

(* What the trigger has accepted stays acceptable until the commit, since  *)
(* nobody else can record an attempt of the alert meanwhile.               *)
AcceptedFollows(w) ==
    pc[w] = "committing" =>
        /\ Follows(attempts[work[w].alert], work[w].row)
        /\ DeliveredIn(work[w].alert, Len(attempts[work[w].alert]) + 1, work[w].row)

WorkerOk(w) == HoldsLock(w) /\ NotAhead(w) /\ LineIsThere(w) /\ AcceptedFollows(w)

(* Attempts and lines belong to queued alerts. *)
OnlyQueued ==
    \A a \in Alerts : attempts[a] # <<>> \/ written[a] # {} => a <= Len(outbox)

OutboxInvariant ==
    /\ TypeOK
    /\ OnlyQueued
    /\ AttemptsAreChained
    /\ DeliveredWasWritten
    /\ \A w \in Workers : WorkerOk(w)
=============================================================================
