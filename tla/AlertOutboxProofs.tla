------------------------- MODULE AlertOutboxProofs -------------------------
(***************************************************************************)
(* Proofs about AlertOutbox for any number of workers, alerts, attempts,   *)
(* policies and failures: the inductive invariant, and the refinement of   *)
(* AlertPromise.                                                           *)
(***************************************************************************)
EXTENDS AlertOutbox, SequenceTheorems, TLAPS

(* Chains of attempts. *)

(* An attempt that follows a chain keeps it a chain. *)
LEMMA AppendFollows ==
  ASSUME NEW chain \in Seq(Attempt), NEW row \in Attempt,
         ChainOk(chain), Follows(chain, row)
  PROVE  ChainOk(Append(chain, row))
<1> DEFINE longer == Append(chain, row)
           n == Len(chain)
<1>1. /\ n \in Nat /\ Len(longer) = n + 1 /\ longer[n + 1] = row /\ longer # <<>>
      /\ \A i \in 1..n : longer[i] = chain[i]
      /\ chain # <<>> => n \in 1..n
  <2>1. longer \in Seq(Attempt) /\ n \in Nat /\ Len(longer) = n + 1
    OBVIOUS
  <2>2. longer[n + 1] = row /\ \A i \in 1..n : longer[i] = chain[i]
    OBVIOUS
  <2>3. chain # <<>> => n \in 1..n
    BY EmptySeq
  <2> QED
    BY <2>1, <2>2, <2>3
<1>2. MaxAttempts \in Nat
  BY PolicyAssumption
<1>3. Len(longer) <= MaxAttempts
  BY <1>1, <1>2 DEF Follows
<1>4. ASSUME NEW i \in 1..n
      PROVE  /\ longer[i].outcome = "retryable_failure"
             /\ longer[i].finished <= longer[i + 1].started
             /\ longer[i + 1].outcome # "expired" => longer[i].next <= longer[i + 1].started
  <2>1. CASE i = n
    <3>1. chain # <<>> /\ longer[i] = LastOf(chain) /\ longer[i + 1] = row
      BY <1>1, <2>1 DEF LastOf
    <3> QED
      BY <3>1 DEF Follows
  <2>2. CASE i # n
    <3>1. i \in 1..(n - 1) /\ i + 1 \in 1..n
      BY <1>1, <2>2
    <3>2. longer[i] = chain[i] /\ longer[i + 1] = chain[i + 1]
      BY <1>1, <3>1
    <3> QED
      BY <3>1, <3>2 DEF ChainOk
  <2> QED
    BY <2>1, <2>2
<1>5. LastOf(longer) = row
  BY <1>1 DEF LastOf
<1>6. LastOf(longer).outcome = "retryable_failure" => Len(longer) < MaxAttempts
  BY <1>1, <1>5 DEF Follows
<1> QED
  BY <1>1, <1>3, <1>4, <1>6 DEF ChainOk

(* The trigger accepts only an attempt that follows the chain            *)
(* (enforce_alert_delivery_attempt).                                       *)
LEMMA AllowedFollows ==
  ASSUME NEW a \in Alerts, NEW previous \in Seq(Attempt), NEW row \in Attempt,
         attempts[a] \in Seq(Attempt), InsertAllowed(a, previous, row)
  PROVE  Follows(attempts[a], row) /\ Len(previous) = Len(attempts[a])
<1> DEFINE chain == attempts[a]
<1>1. Len(previous) \in Nat /\ Len(chain) \in Nat /\ MaxAttempts \in Nat
  BY PolicyAssumption
<1>2. Len(previous) = Len(chain) /\ Len(chain) < MaxAttempts
  BY <1>1 DEF InsertAllowed
<1>3. row.outcome = "retryable_failure" => Len(chain) + 1 < MaxAttempts
  BY <1>1, <1>2 DEF InsertAllowed
<1>4. ASSUME chain # <<>>
      PROVE  /\ LastOf(chain).outcome = "retryable_failure"
             /\ LastOf(chain).finished <= row.started
             /\ row.outcome # "expired" => LastOf(chain).next <= row.started
  <2>1. LastOf(chain) \in Attempt
    BY <1>4 DEF LastOf
  <2>2. /\ LastOf(chain).outcome \in Terminal \union {"retryable_failure"}
        /\ LastOf(chain).finished \in Nat /\ LastOf(chain).next \in Nat
        /\ row.started \in Nat
    BY <2>1 DEF Attempt
  <2>3. /\ LastOf(chain).outcome \notin Terminal
        /\ row.started >= LastOf(chain).finished
        /\ row.outcome # "expired" => row.started >= LastOf(chain).next
    BY <1>4 DEF InsertAllowed
  <2> QED
    BY <2>2, <2>3
<1> QED
  BY <1>2, <1>3, <1>4 DEF Follows

(* The attempts a worker may record are rows of the table. *)
LEMMA OutcomesAreAttempts ==
  ASSUME TypeOK, NEW w \in Workers, NEW row \in Outcomes(w)
  PROVE  /\ row \in Attempt
         /\ row.started = work[w].at
         /\ row.outcome = "delivered" =>
               /\ work[w].wrote
               /\ row.finished = now
               /\ ~(now > outbox[work[w].alert].expires)
<1>1. now \in Nat /\ work[w].at \in Nat /\ work[w].wrote \in BOOLEAN
  BY DEF TypeOK, Work
<1>2. RetryBase \in Nat /\ RetryMax \in Nat
  BY PolicyAssumption
<1>3. \A delay \in RetryBase..RetryMax : now + delay \in Nat
  BY <1>1, <1>2
<1> QED
  BY <1>1, <1>3 DEF Outcomes, Attempt, Terminal

-----------------------------------------------------------------------------
(* Initial states. *)

(* Nothing is queued. *)
LEMMA InvariantHoldsInitially == Init => OutboxInvariant
<1> SUFFICES ASSUME Init PROVE OutboxInvariant
  OBVIOUS
<1>1. NoWork \in Work
  BY BoundsAssumption DEF NoWork, Work, NoAttempt, Attempt, Terminal
<1>2. TypeOK
  BY <1>1, BoundsAssumption DEF Init, TypeOK, WorkerStates
<1>3. OnlyQueued
  BY DEF Init, OnlyQueued
<1>4. AttemptsAreChained
  BY PolicyAssumption DEF Init, AttemptsAreChained, ChainOk
<1>5. DeliveredWasWritten
  BY DEF Init, DeliveredWasWritten
<1>6. ASSUME NEW w \in Workers PROVE WorkerOk(w)
  <2>1. pc[w] = "idle" /\ work[w].at = 0 /\ work[w].visible = 0
    BY DEF Init, NoWork
  <2> QED
    BY <2>1 DEF Init, WorkerOk, HoldsLock, NotAhead, LineIsThere, AcceptedFollows, Holding
<1> QED
  BY <1>2, <1>3, <1>4, <1>5, <1>6 DEF OutboxInvariant

-----------------------------------------------------------------------------
(* What the steps of others leave. *)

(* A worker that does nothing itself keeps what it knows: its row lock     *)
(* keeps everybody else from recording an attempt of its alert.            *)
LEMMA OtherWorkerStaysOk ==
  ASSUME OutboxInvariant, NEW q \in Workers,
         pc'[q] = pc[q], work'[q] = work[q],
         \A a \in Alerts : lock[a] = q => lock'[a] = q /\ attempts'[a] = attempts[a],
         now' \in Nat, now <= now',
         Len(outbox') \in Nat, Len(outbox) <= Len(outbox'),
         \A a \in 1..Len(outbox) : outbox'[a] = outbox[a],
         \A a \in Alerts : written[a] \subseteq written'[a]
  PROVE  WorkerOk(q)'
<1>1. TypeOK /\ WorkerOk(q)
  BY DEF OutboxInvariant
<1>2. /\ now \in Nat /\ Len(outbox) \in Nat /\ Len(outbox) <= MaxAlerts
      /\ work[q] \in Work /\ written \in [Alerts -> SUBSET Written]
      /\ MaxAlerts \in Nat
  BY <1>1, BoundsAssumption DEF TypeOK
<1>3. /\ work[q].at \in Nat /\ work[q].visible \in Nat /\ work[q].alert \in Nat
      /\ work[q].live \in BOOLEAN
  BY <1>2 DEF Work
<1>4. pc[q] \in Holding => work[q].alert \in 1..Len(outbox) /\ work[q].alert \in Alerts
  BY <1>1, <1>2, <1>3 DEF WorkerOk, HoldsLock, Alerts
<1>5. HoldsLock(q)'
  BY <1>1, <1>2, <1>3, <1>4 DEF WorkerOk, HoldsLock
<1>6. NotAhead(q)'
  BY <1>1, <1>2, <1>3 DEF WorkerOk, NotAhead
<1>7. LineIsThere(q)'
  <2>0. pc'[q] = "writing" => ~work'[q].wrote
    BY <1>1 DEF WorkerOk, LineIsThere
  <2> SUFFICES ASSUME pc[q] = "recording", work[q].wrote
               PROVE  \E line \in written'[work[q].alert] :
                         /\ line.no = Len(work[q].previous) + 1
                         /\ line.at \in work[q].at..now'
    BY <2>0 DEF LineIsThere
  <2>1. PICK line \in written[work[q].alert] :
           /\ line.no = Len(work[q].previous) + 1
           /\ line.at \in work[q].at..now
    BY <1>1 DEF WorkerOk, LineIsThere
  <2>2. line \in written'[work[q].alert]
    BY <1>4, <2>1 DEF Holding
  <2>3. line.at \in work[q].at..now'
    BY <1>2, <1>3, <2>1
  <2> QED
    BY <2>1, <2>2, <2>3
<1>8. AcceptedFollows(q)'
  <2> DEFINE a == work[q].alert
  <2> SUFFICES ASSUME pc[q] = "committing"
               PROVE  /\ Follows(attempts'[a], work[q].row)
                      /\ work[q].row.outcome = "delivered" =>
                            \E line \in written'[a] :
                               /\ line.no = Len(attempts'[a]) + 1
                               /\ line.at \in work[q].row.started..work[q].row.finished
                               /\ line.at <= outbox'[a].expires
    BY DEF AcceptedFollows, DeliveredIn, Follows
  <2>1. work[q].live /\ lock[a] = q /\ a \in 1..Len(outbox) /\ a \in Alerts
    BY <1>1, <1>4 DEF WorkerOk, HoldsLock, Holding
  <2>2. /\ attempts'[a] = attempts[a] /\ outbox'[a] = outbox[a]
        /\ written[a] \subseteq written'[a]
    BY <2>1
  <2>3. /\ Follows(attempts[a], work[q].row)
        /\ DeliveredIn(a, Len(attempts[a]) + 1, work[q].row)
    BY <1>1 DEF WorkerOk, AcceptedFollows
  <2> QED
    BY <2>2, <2>3 DEF DeliveredIn
<1> QED
  BY <1>5, <1>6, <1>7, <1>8 DEF WorkerOk

(* A step of w that neither writes nor records keeps the invariant if it   *)
(* keeps it for w.                                                         *)
LEMMA QuietStep ==
  ASSUME OutboxInvariant, NEW w \in Workers, TypeOK', WorkerOk(w)',
         UNCHANGED <<now, outbox, attempts, written>>,
         \A q \in Workers \ {w} :
            /\ pc'[q] = pc[q] /\ work'[q] = work[q]
            /\ \A a \in Alerts : lock[a] = q => lock'[a] = q
  PROVE  OutboxInvariant'
<1>1. now \in Nat /\ Len(outbox) \in Nat
  BY DEF OutboxInvariant, TypeOK
<1>2. \A q \in Workers \ {w} : WorkerOk(q)'
  BY <1>1, OtherWorkerStaysOk
<1>3. \A q \in Workers : WorkerOk(q)'
  BY <1>2
<1>4. OnlyQueued' /\ AttemptsAreChained'
  BY DEF OutboxInvariant, OnlyQueued, AttemptsAreChained
<1>5. DeliveredWasWritten'
  BY DEF OutboxInvariant, DeliveredWasWritten, DeliveredIn
<1> QED
  BY <1>3, <1>4, <1>5 DEF OutboxInvariant

(* The locks that are left when w gives up its own. *)
LEMMA UnlockedByOwner ==
  ASSUME TypeOK, NEW w \in Workers
  PROVE  /\ Unlocked(w) \in [Alerts -> Workers \union {NoWorker}]
         /\ \A q \in Workers \ {w} : \A a \in Alerts : lock[a] = q => Unlocked(w)[a] = q
  BY DEF Unlocked, TypeOK

(* The default of the transaction record. *)
LEMMA NoWorkIsWork == NoWork \in Work
  BY BoundsAssumption DEF NoWork, Work, NoAttempt, Attempt, Terminal

(* An error, a crash, an empty queue: the transaction is rolled back.      *)
LEMMA RollbackKeeps ==
  ASSUME OutboxInvariant, NEW w \in Workers, Rollback(w),
         failures' \in Nat
  PROVE  OutboxInvariant'
<1>1. TypeOK
  BY DEF OutboxInvariant
<1>2. /\ UNCHANGED <<now, policy, outbox, attempts, written>>
      /\ pc' = [pc EXCEPT ![w] = "idle"]
      /\ work' = [work EXCEPT ![w] = NoWork]
      /\ lock' = Unlocked(w)
  BY DEF Rollback, db
<1>3. TypeOK'
  BY <1>1, <1>2, NoWorkIsWork, UnlockedByOwner DEF TypeOK, WorkerStates
<1>4. \A q \in Workers \ {w} :
         /\ pc'[q] = pc[q] /\ work'[q] = work[q]
         /\ \A a \in Alerts : lock[a] = q => lock'[a] = q
  BY <1>1, <1>2, UnlockedByOwner DEF TypeOK
<1>5. pc'[w] = "idle" /\ work'[w] = NoWork
  BY <1>1, <1>2 DEF TypeOK
<1>6. WorkerOk(w)'
  <2>1. work'[w].at = 0 /\ work'[w].visible = 0 /\ now' \in Nat /\ Len(outbox') \in Nat
    BY <1>3, <1>5 DEF NoWork, TypeOK
  <2> QED
    BY <1>5, <2>1
    DEF WorkerOk, HoldsLock, NotAhead, LineIsThere, AcceptedFollows, Holding
<1> QED
  BY <1>2, <1>3, <1>4, <1>6, QuietStep

-----------------------------------------------------------------------------
(* The steps of deliver_one. *)

(* attempted_at is read. *)
LEMMA BeginKeeps ==
  ASSUME OutboxInvariant, NEW w \in Workers, Begin(w), UNCHANGED failures
  PROVE  OutboxInvariant'
<1>1. TypeOK /\ WorkerOk(w)
  BY DEF OutboxInvariant
<1>2. /\ UNCHANGED <<now, policy, outbox, attempts, lock, written>>
      /\ pc[w] = "idle" /\ pc' = [pc EXCEPT ![w] = "begun"]
      /\ work' = [work EXCEPT ![w].at = now, ![w].policy = policy, ![w].live = TRUE]
  BY DEF Begin, db
<1>3. work'[w] \in Work /\ work'[w].at = now /\ work'[w].visible = work[w].visible
  BY <1>1, <1>2 DEF TypeOK, Work
<1>4. TypeOK'
  BY <1>1, <1>2, <1>3 DEF TypeOK, WorkerStates
<1>5. pc'[w] = "begun"
  BY <1>1, <1>2 DEF TypeOK
<1>6. WorkerOk(w)'
  BY <1>1, <1>2, <1>3, <1>5
  DEF WorkerOk, HoldsLock, NotAhead, LineIsThere, AcceptedFollows, Holding, TypeOK
<1>7. \A q \in Workers \ {w} :
         /\ pc'[q] = pc[q] /\ work'[q] = work[q]
         /\ \A a \in Alerts : lock[a] = q => lock'[a] = q
  BY <1>1, <1>2 DEF TypeOK
<1> QED
  BY <1>2, <1>4, <1>6, <1>7, QuietStep

(* The statement snapshot of the SELECT. *)
LEMMA TakeSnapshotKeeps ==
  ASSUME OutboxInvariant, NEW w \in Workers, TakeSnapshot(w), UNCHANGED failures
  PROVE  OutboxInvariant'
<1>1. TypeOK /\ WorkerOk(w)
  BY DEF OutboxInvariant
<1>2. /\ UNCHANGED <<now, policy, outbox, attempts, lock, written>>
      /\ pc' = [pc EXCEPT ![w] = "selecting"]
      /\ work' = [work EXCEPT ![w].visible = Len(outbox), ![w].seen = attempts]
  BY DEF TakeSnapshot, db
<1>3. Len(outbox) \in 0..MaxAlerts /\ attempts \in [Alerts -> Seq(Attempt)]
  BY <1>1, BoundsAssumption DEF TypeOK
<1>4. /\ work'[w] \in Work /\ work'[w].at = work[w].at
      /\ work'[w].visible = Len(outbox)
  BY <1>1, <1>2, <1>3 DEF TypeOK, Work
<1>5. TypeOK'
  BY <1>1, <1>2, <1>4 DEF TypeOK, WorkerStates
<1>6. pc'[w] = "selecting"
  BY <1>1, <1>2 DEF TypeOK
<1>7. WorkerOk(w)'
  BY <1>1, <1>2, <1>3, <1>4, <1>6
  DEF WorkerOk, HoldsLock, NotAhead, LineIsThere, AcceptedFollows, Holding
<1>8. \A q \in Workers \ {w} :
         /\ pc'[q] = pc[q] /\ work'[q] = work[q]
         /\ \A a \in Alerts : lock[a] = q => lock'[a] = q
  BY <1>1, <1>2 DEF TypeOK
<1> QED
  BY <1>2, <1>5, <1>7, <1>8, QuietStep

(* A free row is locked, with the attempt that the snapshot shows. *)
LEMMA TakeKeeps ==
  ASSUME OutboxInvariant, NEW w \in Workers, NEW a \in Candidates(w),
         NEW state \in {"writing", "recording"}, Take(w, a, state),
         UNCHANGED failures
  PROVE  OutboxInvariant'
<1>1. TypeOK /\ WorkerOk(w)
  BY DEF OutboxInvariant
<1>2. /\ UNCHANGED <<now, policy, outbox, attempts, written>>
      /\ pc' = [pc EXCEPT ![w] = state]
      /\ lock' = [lock EXCEPT ![a] = w]
      /\ work' = [work EXCEPT ![w] = [NoWork EXCEPT !.at = work[w].at, !.live = TRUE,
                                           !.alert = a, !.previous = work[w].seen[a]]]
  BY DEF Take, db
<1>3. /\ lock[a] = NoWorker /\ a \in 1..work[w].visible
      /\ work[w].visible \in Nat /\ work[w].visible <= Len(outbox)
      /\ work[w].at \in Nat /\ work[w].at <= now
      /\ Len(outbox) \in Nat /\ Len(outbox) <= MaxAlerts /\ MaxAlerts \in Nat
  BY <1>1, BoundsAssumption DEF Candidates, WorkerOk, NotAhead, TypeOK, Work
<1>4. a \in Alerts /\ a \in 1..Len(outbox) /\ a \in Nat \ {0}
  BY <1>3 DEF Alerts
<1>5. work[w].seen[a] \in Seq(Attempt)
  BY <1>1, <1>4 DEF TypeOK, Work
<1> DEFINE taken == [NoWork EXCEPT !.at = work[w].at, !.live = TRUE,
                                   !.alert = a, !.previous = work[w].seen[a]]
<1>6. /\ taken \in Work /\ taken.at = work[w].at /\ taken.visible = 0
      /\ taken.alert = a /\ taken.live /\ ~taken.wrote
  <2>1. taken \in Work
    BY <1>3, <1>4, <1>5, NoWorkIsWork DEF Work
  <2> QED
    BY <2>1 DEF NoWork
<1>7. work'[w] = taken /\ pc'[w] = state /\ lock'[a] = w
  BY <1>1, <1>2, <1>4 DEF TypeOK
<1>8. TypeOK'
  BY <1>1, <1>2, <1>4, <1>6 DEF TypeOK, WorkerStates
<1>9. WorkerOk(w)'
  <2>1. HoldsLock(w)'
    BY <1>2, <1>4, <1>6, <1>7 DEF HoldsLock
  <2>2. NotAhead(w)'
    BY <1>2, <1>3, <1>6, <1>7 DEF NotAhead
  <2>3. LineIsThere(w)' /\ AcceptedFollows(w)'
    BY <1>6, <1>7 DEF LineIsThere, AcceptedFollows
  <2> QED
    BY <2>1, <2>2, <2>3 DEF WorkerOk
<1>10. \A q \in Workers \ {w} :
         /\ pc'[q] = pc[q] /\ work'[q] = work[q]
         /\ \A b \in Alerts : lock[b] = q => lock'[b] = q
  BY <1>1, <1>2, <1>3, WorkersAssumption DEF TypeOK
<1> QED
  BY <1>2, <1>8, <1>9, <1>10, QuietStep

(* _select_due_delivery and the checks of from_row. *)
LEMMA SelectKeeps ==
  ASSUME OutboxInvariant, NEW w \in Workers, Select(w), UNCHANGED failures
  PROVE  OutboxInvariant'
<1>1. failures' \in Nat
  BY DEF OutboxInvariant, TypeOK
<1>2. \/ Rollback(w)
      \/ \E a \in Candidates(w) : Take(w, a, "recording") \/ Take(w, a, "writing")
  BY DEF Select
<1> QED
  BY <1>1, <1>2, RollbackKeeps, TakeKeeps

(* _record_delivery_outcome with its trigger. *)
LEMMA RecordKeeps ==
  ASSUME OutboxInvariant, NEW w \in Workers, Record(w), UNCHANGED failures
  PROVE  OutboxInvariant'
<1>1. TypeOK /\ WorkerOk(w) /\ failures' \in Nat
  BY DEF OutboxInvariant, TypeOK
<1>2. PICK row \in Outcomes(w) :
         IF work[w].live /\ InsertAllowed(work[w].alert, work[w].previous, row)
         THEN /\ pc' = [pc EXCEPT ![w] = "committing"]
              /\ work' = [work EXCEPT ![w].row = row]
              /\ UNCHANGED <<now, policy, db, lock, written>>
         ELSE Rollback(w)
  BY DEF Record
<1>3. CASE ~(work[w].live /\ InsertAllowed(work[w].alert, work[w].previous, row))
  BY <1>1, <1>2, <1>3, RollbackKeeps
<1>4. CASE work[w].live /\ InsertAllowed(work[w].alert, work[w].previous, row)
  <2> DEFINE a == work[w].alert
  <2>1. /\ UNCHANGED <<now, policy, outbox, attempts, lock, written>>
        /\ pc[w] = "recording" /\ pc' = [pc EXCEPT ![w] = "committing"]
        /\ work' = [work EXCEPT ![w].row = row]
    BY <1>2, <1>4 DEF Record, db
  <2>2. /\ row \in Attempt /\ row.started = work[w].at
        /\ row.outcome = "delivered" =>
              work[w].wrote /\ row.finished = now /\ ~(now > outbox[a].expires)
    BY <1>1, OutcomesAreAttempts
  <2>3. /\ work'[w] \in Work /\ work'[w].row = row /\ work'[w].alert = a
        /\ work'[w].live /\ work'[w].at = work[w].at
        /\ work'[w].visible = work[w].visible
    BY <1>1, <1>4, <2>1, <2>2 DEF TypeOK, Work
  <2>4. TypeOK' /\ pc'[w] = "committing"
    BY <1>1, <2>1, <2>3 DEF TypeOK, WorkerStates
  <2>5. lock[a] = w /\ a \in 1..Len(outbox)
    BY <1>1, <1>4, <2>1 DEF WorkerOk, HoldsLock, Holding
  <2>6. /\ a \in Alerts /\ attempts[a] \in Seq(Attempt)
        /\ work[w].previous \in Seq(Attempt) /\ now \in Nat
        /\ outbox[a].expires \in Nat
    <3>1. Len(outbox) \in Nat /\ Len(outbox) <= MaxAlerts /\ outbox \in Seq(OutboxRow)
      BY <1>1 DEF TypeOK
    <3>2. a \in Alerts
      BY <2>5, <3>1, BoundsAssumption DEF Alerts
    <3>3. outbox[a] \in OutboxRow
      BY <2>5, <3>1
    <3>4. work[w] \in Work /\ now \in Nat /\ attempts[a] \in Seq(Attempt)
      BY <1>1, <3>2 DEF TypeOK
    <3> QED
      BY <3>2, <3>3, <3>4 DEF Work, OutboxRow
  <2>7. /\ Follows(attempts[a], row)
        /\ Len(work[w].previous) = Len(attempts[a])
    BY <1>4, <2>2, <2>6, AllowedFollows
  <2>8. DeliveredIn(a, Len(attempts[a]) + 1, row)
    <3> SUFFICES ASSUME row.outcome = "delivered"
                 PROVE  \E line \in written[a] :
                           /\ line.no = Len(attempts[a]) + 1
                           /\ line.at \in row.started..row.finished
                           /\ line.at <= outbox[a].expires
      BY DEF DeliveredIn
    <3>1. PICK line \in written[a] :
             /\ line.no = Len(work[w].previous) + 1
             /\ line.at \in work[w].at..now
      BY <1>1, <2>1, <2>2 DEF WorkerOk, LineIsThere
    <3> QED
      BY <2>2, <2>6, <2>7, <3>1
  <2>9. WorkerOk(w)'
    <3>1. HoldsLock(w)' /\ LineIsThere(w)'
      BY <2>1, <2>3, <2>4, <2>5 DEF HoldsLock, LineIsThere
    <3>2. NotAhead(w)'
      BY <1>1, <2>1, <2>3 DEF WorkerOk, NotAhead
    <3>3. AcceptedFollows(w)'
      BY <2>1, <2>3, <2>7, <2>8 DEF AcceptedFollows, DeliveredIn, Follows
    <3> QED
      BY <3>1, <3>2, <3>3 DEF WorkerOk
  <2>10. \A q \in Workers \ {w} :
         /\ pc'[q] = pc[q] /\ work'[q] = work[q]
         /\ \A b \in Alerts : lock[b] = q => lock'[b] = q
    BY <1>1, <2>1 DEF TypeOK
  <2> QED
    BY <2>1, <2>4, <2>9, <2>10, QuietStep
<1> QED
  BY <1>3, <1>4

(* The server releases the lock of a lost session. *)
LEMMA SessionLostKeeps ==
  ASSUME OutboxInvariant, NEW w \in Workers, SessionLost(w)
  PROVE  OutboxInvariant'
<1>1. TypeOK /\ WorkerOk(w)
  BY DEF OutboxInvariant
<1>2. /\ UNCHANGED <<now, policy, outbox, attempts, written, pc>>
      /\ pc[w] \in {"writing", "recording"}
      /\ work' = [work EXCEPT ![w].live = FALSE]
      /\ lock' = Unlocked(w)
      /\ failures' = failures + 1
  BY DEF SessionLost, Fails, db
<1>3. /\ work'[w] \in Work /\ ~work'[w].live
      /\ work'[w].at = work[w].at /\ work'[w].visible = work[w].visible
      /\ work'[w].alert = work[w].alert /\ work'[w].wrote = work[w].wrote
      /\ work'[w].previous = work[w].previous
  BY <1>1, <1>2 DEF TypeOK, Work
<1>4. TypeOK'
  BY <1>1, <1>2, <1>3, UnlockedByOwner DEF TypeOK
<1>5. WorkerOk(w)'
  <2>1. HoldsLock(w)'
    BY <1>1, <1>2, <1>3 DEF WorkerOk, HoldsLock, Holding
  <2>2. NotAhead(w)'
    BY <1>1, <1>2, <1>3 DEF WorkerOk, NotAhead
  <2>3. LineIsThere(w)'
    BY <1>1, <1>2, <1>3 DEF WorkerOk, LineIsThere
  <2>4. AcceptedFollows(w)'
    BY <1>2 DEF AcceptedFollows
  <2> QED
    BY <2>1, <2>2, <2>3, <2>4 DEF WorkerOk
<1>6. \A q \in Workers \ {w} :
         /\ pc'[q] = pc[q] /\ work'[q] = work[q]
         /\ \A a \in Alerts : lock[a] = q => lock'[a] = q
  BY <1>1, <1>2, UnlockedByOwner DEF TypeOK
<1> QED
  BY <1>2, <1>4, <1>5, <1>6, QuietStep

(* The line goes out, or a part of it, before anything is recorded. *)
LEMMA WriteKeeps ==
  ASSUME OutboxInvariant, NEW w \in Workers, Write(w), UNCHANGED failures
  PROVE  OutboxInvariant'
<1> DEFINE b == work[w].alert
           line == [no |-> Len(work[w].previous) + 1, at |-> now]
<1>1. TypeOK /\ WorkerOk(w) /\ OnlyQueued /\ AttemptsAreChained /\ DeliveredWasWritten
  BY DEF OutboxInvariant
<1>2. /\ UNCHANGED <<now, policy, outbox, attempts, lock>>
      /\ pc[w] = "writing" /\ pc' = [pc EXCEPT ![w] = "recording"]
  BY DEF Write, db
<1>3. /\ now \in Nat /\ Len(outbox) \in Nat /\ Len(outbox) <= MaxAlerts
      /\ work[w] \in Work
  BY <1>1 DEF TypeOK
<1>4. b \in 1..Len(outbox) /\ b \in Alerts
  BY <1>1, <1>2, <1>3, BoundsAssumption DEF WorkerOk, HoldsLock, Holding, Alerts
<1>5. line \in Written
  <2>1. Len(work[w].previous) + 1 \in Nat
    BY <1>3 DEF Work
  <2> QED
    BY <1>3, <2>1 DEF Written
<1>6. \/ /\ written' = [written EXCEPT ![b] = @ \union {line}]
         /\ work' = [work EXCEPT ![w].wrote = TRUE]
      \/ UNCHANGED <<written, work>>
  BY DEF Write
<1>7. /\ work'[w] \in Work /\ work'[w].alert = b /\ work'[w].live = work[w].live
      /\ work'[w].at = work[w].at /\ work'[w].visible = work[w].visible
      /\ work'[w].previous = work[w].previous
      /\ \A q \in Workers \ {w} : work'[q] = work[q]
      /\ work' \in [Workers -> Work]
  <2>1. CASE work' = [work EXCEPT ![w].wrote = TRUE]
    <3>1. [work[w] EXCEPT !.wrote = TRUE] \in Work
      BY <1>3 DEF Work
    <3>2. work'[w] = [work[w] EXCEPT !.wrote = TRUE] /\ work' \in [Workers -> Work]
      BY <1>1, <2>1, <3>1 DEF TypeOK
    <3>3. \A q \in Workers \ {w} : work'[q] = work[q]
      BY <1>1, <2>1 DEF TypeOK
    <3> QED
      BY <1>3, <3>1, <3>2, <3>3 DEF Work
  <2>2. CASE UNCHANGED work
    BY <1>1, <1>3, <2>2 DEF TypeOK
  <2> QED
    BY <1>6, <2>1, <2>2
<1>8. /\ written' \in [Alerts -> SUBSET Written]
      /\ \A a \in Alerts : written[a] \subseteq written'[a]
      /\ \A a \in Alerts \ {b} : written'[a] = written[a]
  <2>1. CASE written' = [written EXCEPT ![b] = @ \union {line}]
    <3> HIDE DEF line
    <3> QED
      BY <1>1, <1>4, <1>5, <2>1 DEF TypeOK
  <2>2. CASE UNCHANGED written
    BY <1>1, <2>2 DEF TypeOK
  <2> QED
    BY <1>6, <2>1, <2>2
<1>10. TypeOK' /\ pc'[w] = "recording" /\ \A q \in Workers \ {w} : pc'[q] = pc[q]
  BY <1>1, <1>2, <1>7, <1>8 DEF TypeOK, WorkerStates
<1>11. WorkerOk(w)'
  <2>1. HoldsLock(w)'
    BY <1>1, <1>2, <1>7, <1>10 DEF WorkerOk, HoldsLock, Holding
  <2>2. NotAhead(w)'
    BY <1>1, <1>2, <1>7 DEF WorkerOk, NotAhead
  <2>3. LineIsThere(w)'
    <3>1. ~work[w].wrote
      BY <1>1, <1>2 DEF WorkerOk, LineIsThere
    <3>2. CASE UNCHANGED <<written, work>>
      BY <1>10, <3>1, <3>2 DEF LineIsThere
    <3>3. CASE written' = [written EXCEPT ![b] = @ \union {line}]
      <4>1. line \in written'[b]
        BY <1>1, <1>4, <3>3 DEF TypeOK
      <4>2. /\ line.no = Len(work'[w].previous) + 1
            /\ line.at \in work'[w].at..now'
        BY <1>1, <1>2, <1>3, <1>7 DEF WorkerOk, NotAhead, Work
      <4> QED
        BY <1>7, <1>10, <4>1, <4>2 DEF LineIsThere
    <3> QED
      BY <1>6, <3>2, <3>3
  <2>4. AcceptedFollows(w)'
    BY <1>10 DEF AcceptedFollows
  <2> QED
    BY <2>1, <2>2, <2>3, <2>4 DEF WorkerOk
<1>12. \A q \in Workers \ {w} : WorkerOk(q)'
  BY <1>2, <1>3, <1>7, <1>8, <1>10, OtherWorkerStaysOk
<1>13. OnlyQueued'
  BY <1>1, <1>2, <1>4, <1>8 DEF OnlyQueued
<1>14. AttemptsAreChained'
  BY <1>1, <1>2 DEF AttemptsAreChained
<1>15. DeliveredWasWritten'
  BY <1>1, <1>2, <1>8 DEF DeliveredWasWritten, DeliveredIn
<1>16. \A q \in Workers : WorkerOk(q)'
  BY <1>11, <1>12
<1> QED
  BY <1>10, <1>13, <1>14, <1>15, <1>16 DEF OutboxInvariant

(* The attempt and the end of its lock become visible together. *)
LEMMA CommitKeeps ==
  ASSUME OutboxInvariant, NEW w \in Workers, Commit(w), UNCHANGED failures
  PROVE  OutboxInvariant'
<1> DEFINE b == work[w].alert
           row == work[w].row
           longer == Append(attempts[b], row)
<1>1. TypeOK /\ WorkerOk(w) /\ OnlyQueued /\ AttemptsAreChained /\ DeliveredWasWritten
  BY DEF OutboxInvariant
<1>2. /\ UNCHANGED <<now, policy, outbox, written>>
      /\ pc[w] = "committing" /\ pc' = [pc EXCEPT ![w] = "idle"]
      /\ work' = [work EXCEPT ![w] = NoWork]
      /\ lock' = Unlocked(w)
      /\ attempts' = [attempts EXCEPT ![b] = longer]
  BY DEF Commit
<1>3. /\ now \in Nat /\ Len(outbox) \in Nat /\ Len(outbox) <= MaxAlerts
      /\ work[w] \in Work
  BY <1>1 DEF TypeOK
<1>4. b \in 1..Len(outbox) /\ b \in Alerts /\ lock[b] = w
  BY <1>1, <1>2, <1>3, BoundsAssumption DEF WorkerOk, HoldsLock, Holding, Alerts
<1>5. attempts[b] \in Seq(Attempt) /\ row \in Attempt
  BY <1>1, <1>3, <1>4 DEF TypeOK, Work
<1>6. /\ Follows(attempts[b], row)
      /\ DeliveredIn(b, Len(attempts[b]) + 1, row)
  BY <1>1, <1>2 DEF WorkerOk, AcceptedFollows
<1>7. /\ longer \in Seq(Attempt) /\ Len(attempts[b]) \in Nat
      /\ Len(longer) = Len(attempts[b]) + 1
      /\ longer[Len(attempts[b]) + 1] = row
      /\ \A i \in 1..Len(attempts[b]) : longer[i] = attempts[b][i]
  BY <1>5
<1>8. /\ attempts' \in [Alerts -> Seq(Attempt)] /\ attempts'[b] = longer
      /\ \A a \in Alerts \ {b} : attempts'[a] = attempts[a]
  <2> HIDE DEF longer
  <2> QED
    BY <1>1, <1>2, <1>4, <1>7 DEF TypeOK
<1>9. TypeOK'
  BY <1>1, <1>2, <1>8, NoWorkIsWork, UnlockedByOwner DEF TypeOK, WorkerStates
<1>10. pc'[w] = "idle" /\ work'[w] = NoWork
  BY <1>1, <1>2 DEF TypeOK
<1>11. WorkerOk(w)'
  <2>1. work'[w].at = 0 /\ work'[w].visible = 0 /\ now' \in Nat /\ Len(outbox') \in Nat
    BY <1>9, <1>10 DEF NoWork, TypeOK
  <2> QED
    BY <1>10, <2>1
    DEF WorkerOk, HoldsLock, NotAhead, LineIsThere, AcceptedFollows, Holding
<1>12. ASSUME NEW q \in Workers \ {w} PROVE WorkerOk(q)'
  <2>1. pc'[q] = pc[q] /\ work'[q] = work[q]
    BY <1>1, <1>2 DEF TypeOK
  <2>2. \A a \in Alerts : lock[a] = q => lock'[a] = q /\ attempts'[a] = attempts[a]
    BY <1>1, <1>2, <1>4, <1>8, UnlockedByOwner
  <2> QED
    BY <1>2, <1>3, <2>1, <2>2, OtherWorkerStaysOk
<1>13. \A q \in Workers : WorkerOk(q)'
  BY <1>11, <1>12
<1>14. OnlyQueued'
  <2>1. ASSUME NEW a \in Alerts, attempts'[a] # <<>> \/ written'[a] # {}
        PROVE  a <= Len(outbox')
    <3>1. CASE a = b
      BY <1>2, <1>3, <1>4, <3>1
    <3>2. CASE a # b
      BY <1>1, <1>2, <1>8, <2>1, <3>2 DEF OnlyQueued
    <3> QED
      BY <3>1, <3>2
  <2> QED
    BY <2>1 DEF OnlyQueued
<1>15. AttemptsAreChained'
  <2>1. ChainOk(attempts[b])
    BY <1>1, <1>4 DEF AttemptsAreChained
  <2>2. ChainOk(longer)
    BY <1>5, <1>6, <2>1, AppendFollows
  <2>3. ASSUME NEW a \in Alerts PROVE ChainOk(attempts'[a])
    <3> HIDE DEF longer
    <3> QED
      BY <1>1, <1>8, <2>2 DEF AttemptsAreChained
  <2> QED
    BY <2>3 DEF AttemptsAreChained
<1>16. DeliveredWasWritten'
  <2>1. ASSUME NEW a \in Alerts, NEW i \in 1..Len(attempts'[a])
        PROVE  DeliveredIn(a, i, attempts'[a][i])
    <3>1. CASE a # b
      BY <1>1, <1>8, <2>1, <3>1 DEF DeliveredWasWritten
    <3>2. CASE a = b /\ i \in 1..Len(attempts[b])
      <4>1. attempts'[a][i] = attempts[b][i]
        BY <1>7, <1>8, <3>2
      <4> QED
        BY <1>1, <1>4, <3>2, <4>1 DEF DeliveredWasWritten
    <3>3. CASE a = b /\ i = Len(attempts[b]) + 1
      <4>1. attempts'[a][i] = row
        BY <1>7, <1>8, <3>3
      <4> QED
        BY <1>6, <3>3, <4>1
    <3>4. a = b => i \in 1..Len(attempts[b]) \/ i = Len(attempts[b]) + 1
      <4>1. a = b => i \in 1..(Len(attempts[b]) + 1)
        BY <1>7, <1>8
      <4> QED
        BY <1>7, <4>1
    <3> QED
      BY <3>1, <3>2, <3>3, <3>4
  <2> QED
    BY <1>2, <2>1 DEF DeliveredWasWritten, DeliveredIn
<1> QED
  BY <1>9, <1>13, <1>14, <1>15, <1>16 DEF OutboxInvariant

-----------------------------------------------------------------------------
(* The steps of the environment. *)

(* record_report queues an alert. *)
LEMMA EnqueueKeeps ==
  ASSUME OutboxInvariant, Enqueue
  PROVE  OutboxInvariant'
<1>1. TypeOK /\ OnlyQueued /\ AttemptsAreChained /\ DeliveredWasWritten
  BY DEF OutboxInvariant
<1>2. /\ UNCHANGED <<now, policy, attempts, lock, written, pc, work, failures>>
      /\ Len(outbox) < MaxAlerts
  BY DEF Enqueue, wvars
<1>3. PICK life \in 1..MaxLifetime :
         outbox' = Append(outbox, [available |-> now, expires |-> now + life,
                                   policy |-> policy])
  BY DEF Enqueue
<1> DEFINE new == [available |-> now, expires |-> now + life, policy |-> policy]
<1>4. new \in OutboxRow
  BY <1>1, BoundsAssumption DEF TypeOK, OutboxRow
<1>5. /\ outbox' \in Seq(OutboxRow) /\ Len(outbox) \in Nat
      /\ Len(outbox') = Len(outbox) + 1
      /\ \A a \in 1..Len(outbox) : outbox'[a] = outbox[a]
  <2>1. outbox' = Append(outbox, new) /\ outbox \in Seq(OutboxRow)
    BY <1>1, <1>3 DEF TypeOK
  <2> HIDE DEF new
  <2> QED
    BY <1>4, <2>1
<1>6. TypeOK'
  BY <1>1, <1>2, <1>5, BoundsAssumption DEF TypeOK
<1>7. now \in Nat
  BY <1>1 DEF TypeOK
<1>8. \A q \in Workers : WorkerOk(q)'
  BY <1>2, <1>5, <1>7, OtherWorkerStaysOk
<1>9. OnlyQueued'
  BY <1>1, <1>2, <1>5 DEF OnlyQueued, Alerts
<1>10. AttemptsAreChained'
  BY <1>1, <1>2 DEF AttemptsAreChained
<1>11. DeliveredWasWritten'
  <2>1. ASSUME NEW a \in Alerts, NEW i \in 1..Len(attempts[a])
        PROVE  DeliveredIn(a, i, attempts[a][i])'
    <3>1. DeliveredIn(a, i, attempts[a][i])
      BY <1>1 DEF DeliveredWasWritten
    <3>2. attempts[a] # <<>>
      BY <1>1, EmptySeq DEF TypeOK
    <3>3. a \in 1..Len(outbox)
      BY <1>1, <1>5, <3>2 DEF OnlyQueued, Alerts
    <3>4. outbox'[a] = outbox[a]
      BY <1>5, <3>3
    <3> QED
      BY <1>2, <3>1, <3>4 DEF DeliveredIn
  <2> QED
    BY <1>2, <2>1 DEF DeliveredWasWritten
<1> QED
  BY <1>6, <1>8, <1>9, <1>10, <1>11 DEF OutboxInvariant

(* The clock, the policy file and stuttering touch nobody. *)
LEMMA OutsideKeeps ==
  ASSUME OutboxInvariant,
         UNCHANGED <<outbox, attempts, lock, written, pc, work, failures>>,
         policy' \in Nat, now' \in Nat, now <= now'
  PROVE  OutboxInvariant'
<1>1. TypeOK /\ OnlyQueued /\ AttemptsAreChained /\ DeliveredWasWritten
  BY DEF OutboxInvariant
<1>2. TypeOK'
  BY <1>1 DEF TypeOK
<1>3. Len(outbox) \in Nat
  BY <1>1 DEF TypeOK
<1>4. \A q \in Workers : WorkerOk(q)'
  BY <1>3, OtherWorkerStaysOk
<1>5. OnlyQueued' /\ AttemptsAreChained'
  BY <1>1 DEF OnlyQueued, AttemptsAreChained
<1>6. DeliveredWasWritten'
  BY <1>1 DEF DeliveredWasWritten, DeliveredIn
<1> QED
  BY <1>2, <1>4, <1>5, <1>6 DEF OutboxInvariant

-----------------------------------------------------------------------------
(* The invariant. *)

(* A killed process. *)
LEMMA CrashKeeps ==
  ASSUME OutboxInvariant, NEW w \in Workers, Crash(w)
  PROVE  OutboxInvariant'
<1>1. failures' \in Nat
  BY DEF OutboxInvariant, TypeOK, Crash, Fails
<1> QED
  BY <1>1, RollbackKeeps DEF Crash

(* Every step of every process keeps the invariant. *)
THEOREM OutboxInvariantIsInductive ==
  OutboxInvariant /\ [Next]_vars => OutboxInvariant'
<1> SUFFICES ASSUME OutboxInvariant, [Next]_vars
             PROVE  OutboxInvariant'
  OBVIOUS
<1>1. CASE Enqueue
  BY <1>1, EnqueueKeeps
<1>2. now \in Nat /\ policy \in Nat
  BY DEF OutboxInvariant, TypeOK
<1>3. CASE ChangePolicy
  <2>1. /\ UNCHANGED <<outbox, attempts, lock, written, pc, work, failures>>
        /\ policy' = policy + 1 /\ now' = now
    BY <1>3 DEF ChangePolicy, db, wvars
  <2> QED
    BY <1>2, <2>1, OutsideKeeps
<1>4. CASE Tick
  <2>1. /\ UNCHANGED <<outbox, attempts, lock, written, pc, work, failures>>
        /\ policy' = policy /\ now' = now + 1
    BY <1>4 DEF Tick, db, wvars
  <2> QED
    BY <1>2, <2>1, OutsideKeeps
<1>5. CASE UNCHANGED vars
  <2>1. UNCHANGED <<now, policy, outbox, attempts, lock, written, pc, work, failures>>
    BY <1>5 DEF vars, db, wvars
  <2> QED
    BY <1>2, <2>1, OutsideKeeps
<1>6. ASSUME NEW w \in Workers, WorkerStep(w) PROVE OutboxInvariant'
  <2>1. UNCHANGED failures
    BY <1>6 DEF WorkerStep
  <2>2. CASE Begin(w)
    BY <2>1, <2>2, BeginKeeps
  <2>3. CASE TakeSnapshot(w)
    BY <2>1, <2>3, TakeSnapshotKeeps
  <2>4. CASE Select(w)
    BY <2>1, <2>4, SelectKeeps
  <2>5. CASE Write(w)
    BY <2>1, <2>5, WriteKeeps
  <2>6. CASE Record(w)
    BY <2>1, <2>6, RecordKeeps
  <2>7. CASE Commit(w)
    BY <2>1, <2>7, CommitKeeps
  <2> QED
    BY <1>6, <2>2, <2>3, <2>4, <2>5, <2>6, <2>7 DEF WorkerStep
<1>7. ASSUME NEW w \in Workers, Crash(w) PROVE OutboxInvariant'
  BY <1>7, CrashKeeps
<1>8. ASSUME NEW w \in Workers, SessionLost(w) PROVE OutboxInvariant'
  BY <1>8, SessionLostKeeps
<1> QED
  BY <1>1, <1>3, <1>4, <1>5, <1>6, <1>7, <1>8 DEF Next

(* The invariant holds in every reachable state. *)
THEOREM OutboxInvariantHolds == Spec => []OutboxInvariant
<1>1. Init => OutboxInvariant
  BY InvariantHoldsInitially
<1>2. OutboxInvariant /\ [Next]_vars => OutboxInvariant'
  BY OutboxInvariantIsInductive
<1> QED
  BY <1>1, <1>2, PTL DEF Spec

(* Whatever workers race, crash or lose their sessions, the attempts of an *)
(* alert form one chain: enforce_alert_delivery_attempt and the row lock   *)
(* of deliver_one.                                                         *)
THEOREM AttemptsStayChained == Spec => []AttemptsAreChained
<1>1. OutboxInvariant => AttemptsAreChained
  BY DEF OutboxInvariant
<1> QED
  BY <1>1, OutboxInvariantHolds, PTL

(* No alert is recorded as delivered whose line was not written in its     *)
(* window by that very attempt.                                            *)
THEOREM DeliveredStaysWritten == Spec => []DeliveredWasWritten
<1>1. OutboxInvariant => DeliveredWasWritten
  BY DEF OutboxInvariant
<1> QED
  BY <1>1, OutboxInvariantHolds, PTL

-----------------------------------------------------------------------------
(* The refinement of AlertPromise. *)

(* What the promise sees: which alerts have a line, and how each ended. *)
Emitted == {a \in Alerts : written[a] # {}}
SettledAs(a) == IF Settled(attempts[a]) THEN LastOf(attempts[a]).outcome ELSE "pending"

(* A worker that only reads or locks, and a clock that ticks, are          *)
(* invisible to the consumer.                                              *)
LEMMA UnseenStep ==
  ASSUME UNCHANGED <<outbox, attempts, written>>
  PROVE  UNCHANGED Promise!pvars
<1>1. UNCHANGED Emitted
  BY DEF Emitted
<1>2. UNCHANGED [a \in Alerts |-> SettledAs(a)]
  BY DEF SettledAs, Settled, LastOf
<1> QED
  BY <1>1, <1>2 DEF Promise!pvars, Emitted, SettledAs

(* The queue of the promise grows with the outbox. *)
LEMMA EnqueueIsPromised ==
  ASSUME TypeOK, Enqueue
  PROVE  Promise!Enqueue
<1>1. UNCHANGED <<attempts, written>> /\ Len(outbox) < MaxAlerts
  BY DEF Enqueue
<1>2. Len(outbox') = Len(outbox) + 1
  BY DEF Enqueue, TypeOK
<1>3. UNCHANGED Emitted
  BY <1>1 DEF Emitted
<1>4. UNCHANGED [a \in Alerts |-> SettledAs(a)]
  BY <1>1 DEF SettledAs, Settled, LastOf
<1> QED
  BY <1>1, <1>2, <1>3, <1>4 DEF Promise!Enqueue, Emitted, SettledAs

(* A written line emits its alert, perhaps once more. *)
LEMMA WriteIsPromised ==
  ASSUME OutboxInvariant, NEW w \in Workers, Write(w)
  PROVE  Promise!Next \/ UNCHANGED Promise!pvars
<1> PICK b : b = work[w].alert
  OBVIOUS
<1> DEFINE line == [no |-> Len(work[w].previous) + 1, at |-> now]
<1>1. TypeOK /\ WorkerOk(w)
  BY DEF OutboxInvariant
<1>2. /\ UNCHANGED <<outbox, attempts>> /\ pc[w] = "writing"
      /\ \/ written' = [written EXCEPT ![b] = @ \union {line}]
         \/ UNCHANGED written
  BY DEF Write, db
<1>3. CASE UNCHANGED written
  BY <1>2, <1>3, UnseenStep
<1>4. CASE written' = [written EXCEPT ![b] = @ \union {line}]
  <2>1. Len(outbox) \in Nat /\ Len(outbox) <= MaxAlerts /\ MaxAlerts \in Nat
    BY <1>1, BoundsAssumption DEF TypeOK
  <2>2. b \in 1..Len(outbox) /\ b \in Alerts
    BY <1>1, <1>2, <2>1 DEF WorkerOk, HoldsLock, Holding, Alerts
  <2>3. Emitted' = Emitted \union {b}
    <3> HIDE DEF line
    <3>1. /\ written'[b] # {}
          /\ \A a \in Alerts \ {b} : written'[a] = written[a]
      BY <1>1, <1>4, <2>2 DEF TypeOK
    <3> QED
      BY <2>2, <3>1 DEF Emitted
  <2>4. UNCHANGED [a \in Alerts |-> SettledAs(a)]
    BY <1>2 DEF SettledAs, Settled, LastOf
  <2>5. Promise!Emit(b)
    BY <1>2, <2>1, <2>2, <2>3, <2>4 DEF Promise!Emit, Emitted, SettledAs
  <2>6. b \in Promise!Alerts
    BY <2>2 DEF Alerts, Promise!Alerts
  <2> QED
    BY <2>5, <2>6 DEF Promise!Next
<1> QED
  BY <1>2, <1>3, <1>4

(* A committed attempt settles an alert that was pending, or nothing. *)
LEMMA CommitIsPromised ==
  ASSUME OutboxInvariant, NEW w \in Workers, Commit(w)
  PROVE  Promise!Next \/ UNCHANGED Promise!pvars
<1> PICK b, row : b = work[w].alert /\ row = work[w].row
  OBVIOUS
<1> DEFINE longer == Append(attempts[b], row)
<1>1. TypeOK /\ WorkerOk(w)
  BY DEF OutboxInvariant
<1>2. /\ UNCHANGED <<outbox, written>> /\ pc[w] = "committing"
      /\ attempts' = [attempts EXCEPT ![b] = longer]
  BY DEF Commit
<1>3. /\ Len(outbox) \in Nat /\ Len(outbox) <= MaxAlerts /\ MaxAlerts \in Nat
      /\ work[w] \in Work
  BY <1>1, BoundsAssumption DEF TypeOK
<1>4. b \in 1..Len(outbox) /\ b \in Alerts
  BY <1>1, <1>2, <1>3 DEF WorkerOk, HoldsLock, Holding, Alerts
<1>5. attempts[b] \in Seq(Attempt) /\ row \in Attempt
  BY <1>1, <1>3, <1>4 DEF TypeOK, Work
<1>6. /\ Follows(attempts[b], row)
      /\ DeliveredIn(b, Len(attempts[b]) + 1, row)
  BY <1>1, <1>2 DEF WorkerOk, AcceptedFollows
<1>7. longer # <<>> /\ LastOf(longer) = row
  <2>1. /\ Len(attempts[b]) \in Nat /\ Len(longer) = Len(attempts[b]) + 1
        /\ longer[Len(attempts[b]) + 1] = row /\ longer # <<>>
    BY <1>5
  <2> QED
    BY <2>1 DEF LastOf
<1>8. /\ attempts'[b] = longer
      /\ \A a \in Alerts \ {b} : attempts'[a] = attempts[a]
  <2> HIDE DEF longer
  <2> QED
    BY <1>1, <1>2, <1>4 DEF TypeOK
<1>9. UNCHANGED Emitted
  BY <1>2 DEF Emitted
<1>10. SettledAs(b) = "pending"
  BY <1>6 DEF SettledAs, Settled, Follows, Terminal
<1>11. SettledAs(b)' = IF row.outcome \in Terminal THEN row.outcome ELSE "pending"
  <2> HIDE DEF longer
  <2> QED
    BY <1>7, <1>8 DEF SettledAs, Settled
<1>12. \A a \in Alerts \ {b} : SettledAs(a)' = SettledAs(a)
  BY <1>8 DEF SettledAs, Settled, LastOf
<1> DEFINE st == [a \in Alerts |-> SettledAs(a)]
<1>13. CASE row.outcome \notin Terminal
  <2>1. \A a \in Alerts : SettledAs(a)' = SettledAs(a)
    BY <1>10, <1>11, <1>12, <1>13
  <2>2. UNCHANGED st
    BY <2>1
  <2> QED
    BY <1>2, <1>9, <2>2 DEF Promise!pvars, Emitted, SettledAs
<1>14. CASE row.outcome \in Terminal
  <2>1. st' = [st EXCEPT ![b] = row.outcome]
    BY <1>4, <1>11, <1>12, <1>14
  <2>2. st[b] = "pending"
    BY <1>4, <1>10
  <2>3. row.outcome = "delivered" => b \in Emitted
    BY <1>4, <1>6 DEF DeliveredIn, Emitted
  <2>4. Promise!Settle(b, row.outcome)
    BY <1>2, <1>4, <1>9, <2>1, <2>2, <2>3 DEF Promise!Settle, Emitted, SettledAs
  <2>5. b \in Promise!Alerts /\ row.outcome \in Promise!Verdicts
    BY <1>4, <1>14 DEF Alerts, Promise!Alerts, Promise!Verdicts, Terminal
  <2> QED
    BY <2>4, <2>5 DEF Promise!Next
<1> QED
  BY <1>13, <1>14

(* Every step of the outbox is a step of the promise or is unseen. *)
LEMMA StepIsPromised ==
  OutboxInvariant /\ [Next]_vars => [Promise!Next]_(Promise!pvars)
<1> SUFFICES ASSUME OutboxInvariant, [Next]_vars
             PROVE  Promise!Next \/ UNCHANGED Promise!pvars
  OBVIOUS
<1>1. CASE Enqueue
  <2>1. TypeOK
    BY DEF OutboxInvariant
  <2> QED
    BY <1>1, <2>1, EnqueueIsPromised DEF Promise!Next
<1>2. CASE ChangePolicy \/ Tick \/ UNCHANGED vars
  <2>1. UNCHANGED <<outbox, attempts, written>>
    BY <1>2 DEF ChangePolicy, Tick, vars, db
  <2> QED
    BY <2>1, UnseenStep
<1>3. ASSUME NEW w \in Workers,
             Begin(w) \/ TakeSnapshot(w) \/ Select(w) \/ Record(w) \/ Crash(w) \/ SessionLost(w)
      PROVE  UNCHANGED Promise!pvars
  <2>1. UNCHANGED <<outbox, attempts, written>>
    <3>1. CASE Begin(w) \/ TakeSnapshot(w) \/ SessionLost(w)
      BY <3>1 DEF Begin, TakeSnapshot, SessionLost, db
    <3>2. Rollback(w) => UNCHANGED <<outbox, attempts, written>>
      BY DEF Rollback, db
    <3>3. CASE Select(w)
      BY <3>2, <3>3 DEF Select, Take, db
    <3>4. CASE Record(w)
      BY <3>2, <3>4 DEF Record, db
    <3>5. CASE Crash(w)
      BY <3>2, <3>5 DEF Crash
    <3> QED
      BY <1>3, <3>1, <3>3, <3>4, <3>5
  <2> QED
    BY <2>1, UnseenStep
<1>4. ASSUME NEW w \in Workers, Write(w) \/ Commit(w)
      PROVE  Promise!Next \/ UNCHANGED Promise!pvars
  BY <1>4, WriteIsPromised, CommitIsPromised
<1> QED
  BY <1>1, <1>2, <1>3, <1>4 DEF Next, WorkerStep

(* The outbox implements at-least-once delivery with one verdict per       *)
(* alert, for any number of workers, crashes and lost sessions.            *)
THEOREM OutboxKeepsPromise == Spec => KeepsPromise
<1>1. Init => Promise!Init
  <2> SUFFICES ASSUME Init PROVE Promise!Init
    OBVIOUS
  <2>1. Emitted = {} /\ Len(outbox) = 0
    BY DEF Init, Emitted
  <2>2. \A a \in Alerts : SettledAs(a) = "pending"
    BY DEF Init, SettledAs, Settled
  <2>3. [a \in Alerts |-> SettledAs(a)] = [a \in Alerts |-> "pending"]
    BY <2>2
  <2> QED
    BY <2>1, <2>3 DEF Promise!Init, Promise!Alerts, Alerts, Emitted, SettledAs
<1>2. OutboxInvariant /\ [Next]_vars => [Promise!Next]_(Promise!pvars)
  BY StepIsPromised
<1> QED
  BY <1>1, <1>2, OutboxInvariantHolds, PTL DEF Spec, KeepsPromise, Promise!Spec
=============================================================================
