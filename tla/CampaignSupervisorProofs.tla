---------------------- MODULE CampaignSupervisorProofs ----------------------
(***************************************************************************)
(* For any scopes, services, schedule and configuration: the supervisor    *)
(* ends only with a stored report and with every missed slot announced;    *)
(* and a scope whose commands work loses no slot to the others, if the     *)
(* interval has room for the worst tick and nothing crashes.               *)
(***************************************************************************)
EXTENDS CampaignSupervisor, FiniteSetTheorems, WellFoundedInduction, TLAPS

(* A tick starts without any knowledge of the progress.                    *)
LEMMA NoJobIsTyped == NoJob \in Job /\ NoPlan \in Plan /\ ~NoJob.ran /\ ~NoJob.stored
BY ConfigAssumption, ScheduleAssumption DEF NoJob, NoPlan, Job, Plan

(* The initial state satisfies the invariant. *)
LEMMA InitInvariant == Init => SupervisorInvariant
<1> SUFFICES ASSUME Init PROVE SupervisorInvariant
    OBVIOUS
<1>1. job \in Job
    BY NoJobIsTyped DEF Init
<1>2. CountsOK
    BY <1>1 DEF Init, CountsOK
<1> QED
    BY <1>2 DEF Init, SupervisorInvariant, CountedIsAnnounced, ProgressIsCurrent, NoJob

(* What a reading of the progress announces covers every missed slot.      *)
LEMMA RecordingCounts ==
    ASSUME CountsOK, CountedIsAnnounced, RecordNewMissed, UNCHANGED missed
    PROVE  /\ announced' \in [Scopes -> Nat]
           /\ counted' \in [Scopes -> Nat]
           /\ CountedIsAnnounced'
           /\ counted' = missed'
<1>1. counted' = missed' /\ counted' \in [Scopes -> Nat]
    BY DEF RecordNewMissed, CountsOK
<1>2. announced' = [s \in Scopes |-> announced[s] +
                      IF missed[s] > counted[s] THEN missed[s] - counted[s] ELSE 0]
    BY DEF RecordNewMissed
<1>3. ASSUME NEW s \in Scopes
      PROVE  announced'[s] \in Nat /\ announced'[s] >= missed[s]
    <2>1. /\ announced[s] \in Nat /\ missed[s] \in Nat /\ counted[s] \in Nat
          /\ announced[s] >= counted[s]
        BY DEF CountsOK, CountedIsAnnounced
    <2>2. announced'[s] = announced[s] +
             IF missed[s] > counted[s] THEN missed[s] - counted[s] ELSE 0
        BY <1>2
    <2> QED
        BY <2>1, <2>2
<1>4. announced' \in [Scopes -> Nat]
    BY <1>2, <1>3
<1>5. CountedIsAnnounced'
    BY <1>1, <1>3 DEF CountedIsAnnounced
<1> QED
    BY <1>1, <1>4, <1>5

(* Reading the progress keeps the shape of what a tick knows.              *)
LEMMA ProgressIsJob ==
    ASSUME NEW j \in Job, CountsOK
    PROVE  /\ Progress(j) \in Job
           /\ Progress(j).ran = j.ran
           /\ Progress(j).stored = report
BY DEF Progress, Job, FinalizationDue, CountsOK

(* What is neither a commit nor a reading of the progress.                 *)
LEMMA QuietStep ==
    ASSUME SupervisorInvariant, UNCHANGED <<ledger, announced, counted>>,
           up' \in SUBSET Services, job' \in Job,
           ProgressIsCurrent', pc' = "load" => ~job'.ran,
           pc' = "done" => report /\ counted = missed
    PROVE  SupervisorInvariant'
BY DEF SupervisorInvariant, CountsOK, CountedIsAnnounced, ledger

(* A wait goes on, or a service stops or starts. *)
LEMMA EnvironmentStep ==
    ASSUME SupervisorInvariant,
           Tick \/ \E v \in Services : Outage(v) \/ Recover(v)
    PROVE  SupervisorInvariant'
<1>1. /\ UNCHANGED <<ledger, announced, counted, pc, job>>
      /\ up' \in SUBSET Services
    BY DEF Tick, Outage, Recover, memory, SupervisorInvariant, CountsOK
<1> QED
    BY <1>1, QuietStep DEF SupervisorInvariant, CountsOK, ProgressIsCurrent, ledger

(* A restart forgets the tick and what was announced. *)
LEMMA CrashStep ==
    ASSUME SupervisorInvariant, Crash
    PROVE  SupervisorInvariant'
<1>1. /\ UNCHANGED <<ledger, up, announced>>
      /\ pc' = "down" /\ job' = NoJob /\ counted' = [s \in Scopes |-> 0]
    BY DEF Crash
<1>2. NoJob \in Job
    BY ConfigAssumption, ScheduleAssumption DEF NoJob, NoPlan, Job, Plan
<1>3. CountsOK'
    BY <1>1, <1>2 DEF SupervisorInvariant, CountsOK, ledger
<1>4. CountedIsAnnounced'
    BY <1>1 DEF SupervisorInvariant, CountsOK, CountedIsAnnounced
<1> QED
    BY <1>1, <1>3, <1>4 DEF SupervisorInvariant, ProgressIsCurrent, NoJob

(* The start of a tick. *)
LEMMA CheckStep ==
    ASSUME SupervisorInvariant, Boot \/ Check \/ Again
    PROVE  SupervisorInvariant'
<1>1. CASE Boot
    BY <1>1, QuietStep
       DEF Boot, memory, SupervisorInvariant, CountsOK, ProgressIsCurrent, ledger
<1>2. CASE Again
    BY <1>2, QuietStep
       DEF Again, Go, memory, SupervisorInvariant, CountsOK, ProgressIsCurrent, ledger
<1>3. CASE Check
    <2>1. /\ UNCHANGED <<ledger, announced, counted>>
          /\ up' \in SUBSET Services
          /\ job' = [NoJob EXCEPT !.active = up']
          /\ pc' = "load"
        BY <1>3 DEF Check, Go, SupervisorInvariant, CountsOK
    <2>2. ASSUME NEW j \in Job, NEW a \in SUBSET Services, ~j.ran, ~j.stored
          PROVE  LET k == [j EXCEPT !.active = a] IN k \in Job /\ ~k.ran /\ ~k.stored
        BY <2>2 DEF Job
    <2>3. job' \in Job /\ ~job'.ran /\ ~job'.stored
        BY <2>1, <2>2, NoJobIsTyped
    <2> QED
        BY <2>1, <2>3, QuietStep DEF ProgressIsCurrent
<1> QED
    BY <1>1, <1>2, <1>3

(* The progress is read. *)
LEMMA LoadStep ==
    ASSUME SupervisorInvariant, Load \/ Reload
    PROVE  SupervisorInvariant'
<1>1. RecordNewMissed /\ UNCHANGED <<ledger, up>> /\ pc' = "next"
    BY DEF Load, Reload, Go
<1>2. PICK j \in Job : job' = Progress(j) /\ ~j.ran
    <2>1. CASE Load
        BY <2>1 DEF Load, SupervisorInvariant, CountsOK
    <2>2. CASE Reload
        <3>1. [job EXCEPT !.ran = FALSE] \in Job /\ ~[job EXCEPT !.ran = FALSE].ran
            BY DEF SupervisorInvariant, CountsOK, Job
        <3> QED
            BY <2>2, <3>1 DEF Reload
    <2> QED
        BY <2>1, <2>2
<1>3. job' \in Job /\ ~job'.ran /\ job'.stored = report
    BY <1>2, ProgressIsJob DEF SupervisorInvariant
<1>4. /\ announced' \in [Scopes -> Nat]
      /\ counted' \in [Scopes -> Nat]
      /\ CountedIsAnnounced'
      /\ counted' = missed'
    BY <1>1, RecordingCounts DEF SupervisorInvariant, ledger
<1>5. CountsOK'
    BY <1>1, <1>3, <1>4 DEF SupervisorInvariant, CountsOK, ledger
<1>6. ProgressIsCurrent'
    BY <1>1, <1>3, <1>4 DEF ProgressIsCurrent, ledger
<1> QED
    BY <1>1, <1>4, <1>5, <1>6 DEF SupervisorInvariant

(* A plan ends within the schedule. *)
LEMMA PlanIsTyped ==
    ASSUME NEW k \in 1..(Slots + 1)
    PROVE  PlanTo(k) \in Plan
BY ScheduleAssumption DEF PlanTo, Plan

(* A command starts, plans, fails or is done. *)
LEMMA CommandStep ==
    ASSUME SupervisorInvariant,
           StartCycle \/ PlanCycle \/ CycleFinished \/ CycleFails \/ Retry
    PROVE  SupervisorInvariant'
<1> USE DEF SupervisorInvariant, CountsOK
<1>1. ASSUME NEW n \in 0..Retries, StartCommand(n)
      PROVE  job' \in Job /\ pc' = "cycle" /\ job'.stored = job.stored
    <2>1. /\ pc' = "cycle"
          /\ job' = [job EXCEPT !.attempt = n, !.planned = FALSE, !.plan = NoPlan,
                                !.committed = FALSE]
        BY <1>1 DEF StartCommand, Go
    <2> QED
        BY <2>1, NoJobIsTyped DEF Job
<1>2. CASE StartCycle
    <2>1. 0 \in 0..Retries /\ StartCommand(0) /\ UNCHANGED <<ledger, up, announced, counted>>
        BY <1>2, ConfigAssumption DEF StartCycle, memory
    <2> QED
        BY <2>1, <1>1, QuietStep DEF ProgressIsCurrent, ledger
<1>3. CASE PlanCycle
    <2>1. UNCHANGED <<ledger, up, announced, counted, pc>> /\ pc = "cycle"
        BY <1>3 DEF PlanCycle, memory
    <2>2. PICK k \in 1..(Slots + 1) :
              job' = [job EXCEPT !.planned = TRUE, !.plan = PlanTo(k)]
        BY <1>3 DEF PlanCycle
    <2>3. job' \in Job /\ job'.stored = job.stored
        BY <2>2, PlanIsTyped DEF Job
    <2> QED
        BY <2>1, <2>3, QuietStep DEF ProgressIsCurrent, ledger
<1>4. ASSUME job' = [job EXCEPT !.ran = TRUE], pc' = "next",
             UNCHANGED <<ledger, up, announced, counted>>
      PROVE  SupervisorInvariant'
    <2>1. job' \in Job /\ job'.ran /\ job'.stored = job.stored
        BY <1>4 DEF Job
    <2> QED
        BY <1>4, <2>1, QuietStep DEF ProgressIsCurrent, ledger
<1>5. CASE CycleFinished
    BY <1>4, <1>5 DEF CycleFinished, Go, memory
<1>6. CASE CycleFails
    <2>1. UNCHANGED <<ledger, up, announced, counted, job>> /\ pc' = "backoff"
        BY <1>6 DEF CycleFails, Go, memory
    <2> QED
        BY <2>1, QuietStep DEF ProgressIsCurrent, ledger
<1>7. CASE Retry
    <2>1. UNCHANGED <<ledger, up, announced, counted>>
        BY <1>7 DEF Retry, memory
    <2>2. CASE job.attempt < Retries
        <3>1. StartCommand(job.attempt + 1) /\ job.attempt + 1 \in 0..Retries
            BY <1>7, <2>2, ConfigAssumption DEF Retry, Job
        <3> QED
            BY <2>1, <3>1, <1>1, QuietStep DEF ProgressIsCurrent, ledger
    <2>3. CASE ~(job.attempt < Retries)
        BY <1>7, <2>1, <2>3, <1>4 DEF Retry, Go
    <2> QED
        BY <2>2, <2>3
<1> QED
    BY <1>2, <1>3, <1>5, <1>6, <1>7

(* A commit decides slots, and only while the tick is inside a command.    *)
LEMMA CommitStep ==
    ASSUME SupervisorInvariant, CommitCycle
    PROVE  SupervisorInvariant'
<1> DEFINE s == Running
           given == job.plan.to - seq[s] - IF job.plan.due THEN 1 ELSE 0
<1>1. /\ pc = "cycle" /\ job.plan.to > seq[s]
      /\ seq' = [seq EXCEPT ![s] = job.plan.to]
      /\ missed' = [missed EXCEPT ![s] = @ + given]
      /\ job' = [job EXCEPT !.committed = TRUE]
      /\ UNCHANGED <<report, up, announced, pc, counted>>
    BY DEF CommitCycle, memory
<1>2. job.plan.to \in Nat /\ job.plan.due \in BOOLEAN
    BY ScheduleAssumption DEF SupervisorInvariant, CountsOK, Job, Plan
<1>3. seq' \in [Scopes -> Nat]
    BY <1>1, <1>2 DEF SupervisorInvariant, CountsOK
<1>4. missed' \in [Scopes -> Nat]
    <2>1. CASE s \in Scopes
        <3>1. given \in Nat
            BY <1>1, <1>2, <2>1 DEF SupervisorInvariant, CountsOK
        <3> HIDE DEF given, s
        <3> QED
            BY <1>1, <2>1, <3>1 DEF SupervisorInvariant, CountsOK
    <2>2. CASE s \notin Scopes
        BY <1>1, <2>2 DEF SupervisorInvariant, CountsOK
    <2> QED
        BY <2>1, <2>2
<1>5. job' \in Job /\ job'.stored = job.stored
    BY <1>1 DEF SupervisorInvariant, CountsOK, Job
<1>6. CountsOK' /\ CountedIsAnnounced'
    BY <1>1, <1>3, <1>4, <1>5 DEF SupervisorInvariant, CountsOK, CountedIsAnnounced
<1> QED
    BY <1>1, <1>5, <1>6 DEF SupervisorInvariant, ProgressIsCurrent

(* The report, and the end of the tick. *)
LEMMA ReportStep ==
    ASSUME SupervisorInvariant,
           StartReport \/ StoreReport \/ ReportFinished \/ EndTick
    PROVE  SupervisorInvariant'
<1> USE DEF SupervisorInvariant, CountsOK
<1>1. CASE StartReport
    <2>1. /\ UNCHANGED <<ledger, up, announced, counted>>
          /\ pc = "next" /\ ~job.ran /\ pc' = "report"
          /\ job' = [job EXCEPT !.finalize = FALSE]
        BY <1>1 DEF StartReport, Go, memory
    <2>2. job' \in Job /\ job'.ran = job.ran /\ job'.stored = job.stored
        BY <2>1 DEF Job
    <2> QED
        BY <2>1, <2>2, QuietStep DEF ProgressIsCurrent, ledger
<1>2. CASE StoreReport
    BY <1>2 DEF StoreReport, memory, ProgressIsCurrent, CountedIsAnnounced
<1>3. CASE ReportFinished
    <2>1. /\ UNCHANGED <<ledger, up, announced, counted>>
          /\ pc = "report" /\ pc' = "next"
          /\ \/ report /\ job' = [job EXCEPT !.stored = TRUE]
             \/ UNCHANGED job
        BY <1>3 DEF ReportFinished, Go, memory
    <2>2. job' \in Job /\ job'.ran = job.ran /\ (job'.stored => report)
        BY <2>1 DEF Job, ProgressIsCurrent
    <2> QED
        BY <2>1, <2>2, QuietStep DEF ProgressIsCurrent, ledger
<1>4. CASE EndTick
    <2>1. /\ UNCHANGED <<ledger, up, announced, counted>>
          /\ pc = "next" /\ ~job.ran /\ job' = NoJob
          /\ pc' = "poll" \/ (pc' = "done" /\ job.stored)
        BY <1>4 DEF EndTick, Go, memory
    <2>2. NoJob \in Job /\ ~NoJob.stored
        BY ConfigAssumption, ScheduleAssumption DEF NoJob, NoPlan, Job, Plan
    <2> QED
        BY <2>1, <2>2, QuietStep DEF ProgressIsCurrent, ledger
<1> QED
    BY <1>1, <1>2, <1>3, <1>4

(* The invariant is inductive. *)
THEOREM SupervisorInvariantHolds == Spec => []SupervisorInvariant
<1>1. ASSUME SupervisorInvariant, [Next]_vars
      PROVE  SupervisorInvariant'
    <2>1. CASE UNCHANGED vars
        BY <1>1, <2>1 DEF vars, ledger, memory, SupervisorInvariant, CountsOK,
                          CountedIsAnnounced, ProgressIsCurrent
    <2>2. CASE Next
        BY <1>1, <2>2, EnvironmentStep, CrashStep, CheckStep, LoadStep, CommandStep,
           CommitStep, ReportStep DEF Next, SupervisorStep
    <2> QED
        BY <1>1, <2>1, <2>2
<1> QED
    BY <1>1, InitInvariant, PTL DEF Spec

(* When the supervisor ends (run returns with progress.final_report_stored *)
(* true), the report is stored and every missed slot of every scope has    *)
(* been announced in events.jsonl.                                         *)
THEOREM NothingMissedIsOverlooked == Spec => []NoMissedIsOverlooked
<1>1. SupervisorInvariant => NoMissedIsOverlooked
    BY DEF SupervisorInvariant, CountsOK, CountedIsAnnounced, NoMissedIsOverlooked
<1> QED
    BY <1>1, SupervisorInvariantHolds, PTL
-----------------------------------------------------------------------------
(* How long commands may take.                                             *)

LEMMA ConfigTypes ==
    /\ Timeout \in Nat /\ Timeout > 0 /\ Retries \in Nat /\ Backoff \in Nat
    /\ Poll \in Nat /\ Poll > 0 /\ Interval \in Nat /\ Interval > 0
    /\ Slots \in Nat /\ Slots > 0
BY ConfigAssumption, ScheduleAssumption

(* One more attempt, with the delay after it.                              *)
LEMMA SpentGrows ==
    ASSUME Powers, NEW a \in 0..Retries
    PROVE  /\ Delay(a) \in Nat /\ Spent(a) \in Int
           /\ Spent(a + 1) = Spent(a) + Timeout + Delay(a)
<1> DEFINE p == 2^a
           q == 2^(a + 1)
<1>1. p \in Nat /\ q = 2 * p
    BY ConfigTypes DEF Powers
<1> HIDE DEF p, q
<1>2. /\ Backoff * p \in Nat /\ Backoff * (p - 1) = Backoff * p - Backoff
      /\ Backoff * (q - 1) = Backoff * p + Backoff * p - Backoff
    BY <1>1, ConfigTypes
<1>3. (a + 1) * Timeout = a * Timeout + Timeout /\ a * Timeout \in Nat
    BY ConfigTypes
<1>4. /\ Delay(a) = Backoff * p /\ Spent(a) = a * Timeout + Backoff * (p - 1)
      /\ Spent(a + 1) = (a + 1) * Timeout + Backoff * (q - 1)
    BY DEF Delay, Spent, p, q
<1> QED
    BY <1>2, <1>3, <1>4, ConfigTypes

(* No attempts take no time.                                               *)
LEMMA NothingSpent == Spent(0) = 0
BY ConfigTypes DEF Spent

(* A nonempty set of naturals has a least element.                         *)
LEMMA LeastExists ==
    ASSUME NEW S \in SUBSET Nat, S # {}
    PROVE  \E m \in S : \A k \in S : m <= k
<1> DEFINE R == OpToRel(<, Nat)
<1>1. IsWellFoundedOn(R, Nat)
    BY NatLessThanWellFounded
<1>2. \A i, j \in Nat : <<i, j>> \in R <=> i < j
    BY DEF OpToRel
<1> HIDE DEF R
<1>3. PICK m \in S : \A k \in S : ~(<<k, m>> \in R)
    BY <1>1, WFMin
<1>4. \A k \in S : ~(k < m)
    BY <1>2, <1>3
<1> QED
    BY <1>4

(* The time of the attempts so far is part of the longest time.            *)
LEMMA SpentBelow ==
    ASSUME Powers, NEW a \in 0..Retries + 1
    PROVE  Spent(a) \in Int /\ Spent(a) <= Longest
<1> DEFINE Short(d) == Spent(Retries + 1 - d) \in Int /\ Spent(Retries + 1 - d) <= Longest
           T == {d \in Nat : d <= Retries + 1 /\ ~Short(d)}
<1>1. Longest \in Int
  <2>1. Retries \in 0..Retries /\ Longest = Spent(Retries + 1)
      BY ConfigTypes DEF Longest
  <2> QED
      BY <2>1, SpentGrows, ConfigTypes
<1>2. SUFFICES T = {}
  <2>1. Retries + 1 - a \in Nat /\ Retries + 1 - a <= Retries + 1
        /\ Retries + 1 - (Retries + 1 - a) = a
      BY ConfigTypes
  <2> QED
      BY <1>2, <2>1
<1>3. SUFFICES ASSUME T # {} PROVE FALSE
    OBVIOUS
<1>4. PICK d \in T : \A e \in T : d <= e
  <2>1. T \subseteq Nat
      OBVIOUS
  <2> HIDE DEF T
  <2> QED
      BY <1>3, <2>1, LeastExists
<1>5. d \in Nat /\ d <= Retries + 1 /\ ~Short(d)
    BY <1>4
<1>6. CASE d = 0
  <2>1. Short(0)
      BY <1>1, ConfigTypes DEF Longest
  <2> QED
      BY <1>5, <1>6, <2>1
<1>7. CASE d > 0
  <2>1. d - 1 \in Nat /\ ~(d <= d - 1) /\ d - 1 <= Retries + 1
      BY <1>5, <1>7, ConfigTypes
  <2>2. Short(d - 1)
    <3>1. d - 1 \notin T
        BY <1>4, <2>1
    <3> QED
        BY <2>1, <3>1
  <2>3. Retries + 1 - d \in 0..Retries /\ Retries + 1 - (d - 1) = (Retries + 1 - d) + 1
      BY <1>5, <1>7, ConfigTypes
  <2>4. PICK b \in 0..Retries : b = Retries + 1 - d
      BY <2>3
  <2>5. /\ Delay(b) \in Nat /\ Spent(b) \in Int
        /\ Spent(b + 1) = Spent(b) + Timeout + Delay(b)
      BY SpentGrows
  <2>6. Spent(b + 1) <= Longest
      BY <2>2, <2>3, <2>4
  <2>7. Short(d)
      BY <1>1, <2>4, <2>5, <2>6, ConfigTypes
  <2> QED
      BY <1>5, <2>7
<1> QED
    BY <1>5, <1>6, <1>7

LEMMA LongestIsTime == ASSUME Powers PROVE Longest \in Nat
<1>1. Spent(0) = 0 /\ 0 \in 0..Retries + 1
    BY NothingSpent, ConfigTypes
<1>2. Spent(0) <= Longest /\ Spent(Retries + 1) \in Int
    BY <1>1, SpentBelow, ConfigTypes
<1> QED
    BY <1>1, <1>2 DEF Longest

(* The cost of a queue, with one scope less and of a part of it.           *)
Cost(i) == IF Manifest[i] \in Prompt THEN Timeout ELSE Longest
PromptOf(waiting) == {i \in waiting : Manifest[i] \in Prompt}
OthersOf(waiting) == {i \in waiting : Manifest[i] \notin Prompt}

LEMMA CostIsSum ==
    ASSUME NEW waiting
    PROVE  QueueCost(waiting) = Timeout * Cardinality(PromptOf(waiting))
                                    + Longest * Cardinality(OthersOf(waiting))
BY DEF QueueCost, PromptOf, OthersOf

LEMMA PartsAreFinite ==
    ASSUME NEW waiting \in SUBSET Positions
    PROVE  /\ IsFiniteSet(PromptOf(waiting)) /\ IsFiniteSet(OthersOf(waiting))
           /\ Cardinality(PromptOf(waiting)) \in Nat /\ Cardinality(OthersOf(waiting)) \in Nat
<1>1. IsFiniteSet(Positions)
    BY ManifestAssumption, FS_Interval DEF Positions
<1>2. PromptOf(waiting) \in SUBSET Positions /\ OthersOf(waiting) \in SUBSET Positions
    BY DEF PromptOf, OthersOf
<1> QED
    BY <1>1, <1>2, FS_Subset, FS_CardinalityType

LEMMA CostIsTime ==
    ASSUME Powers, NEW waiting \in SUBSET Positions
    PROVE  QueueCost(waiting) \in Nat
<1> DEFINE p == Cardinality(PromptOf(waiting))
           o == Cardinality(OthersOf(waiting))
<1>1. p \in Nat /\ o \in Nat /\ Timeout \in Nat /\ Longest \in Nat
    BY PartsAreFinite, ConfigTypes, LongestIsTime
<1>2. QueueCost(waiting) = Timeout * p + Longest * o
    BY CostIsSum
<1> HIDE DEF p, o
<1> QED
    BY <1>1, <1>2

LEMMA CostWithout ==
    ASSUME Powers, NEW waiting \in SUBSET Positions, NEW i \in waiting
    PROVE  QueueCost(waiting) = QueueCost(waiting \ {i}) + Cost(i)
<1> DEFINE rest == waiting \ {i}
           p == Cardinality(PromptOf(waiting))
           o == Cardinality(OthersOf(waiting))
           q == Cardinality(PromptOf(rest))
           r == Cardinality(OthersOf(rest))
<1>1. rest \in SUBSET Positions
    OBVIOUS
<1>2. /\ p \in Nat /\ o \in Nat /\ q \in Nat /\ r \in Nat
      /\ Timeout \in Nat /\ Longest \in Nat
    BY <1>1, PartsAreFinite, ConfigTypes, LongestIsTime
<1>3. QueueCost(waiting) = Timeout * p + Longest * o
      /\ QueueCost(rest) = Timeout * q + Longest * r
    BY CostIsSum
<1>4. CASE Manifest[i] \in Prompt
  <2>1. PromptOf(rest) = PromptOf(waiting) \ {i} /\ i \in PromptOf(waiting)
        /\ OthersOf(rest) = OthersOf(waiting)
      BY <1>4 DEF PromptOf, OthersOf
  <2>2. p = q + 1 /\ o = r
    <3>1. IsFiniteSet(PromptOf(waiting))
        BY PartsAreFinite
    <3>2. Cardinality(PromptOf(waiting) \ {i}) = Cardinality(PromptOf(waiting)) - 1
        BY <2>1, <3>1, FS_RemoveElement
    <3>3. q = p - 1 /\ o = r
        BY <2>1, <3>2
    <3> QED
        BY <1>2, <3>3
  <2> HIDE DEF p, o, q, r, rest
  <2>3. Timeout * p = Timeout * q + Timeout
      BY <1>2, <2>2
  <2> QED
      BY <1>2, <1>3, <1>4, <2>2, <2>3 DEF Cost, rest
<1>5. CASE Manifest[i] \notin Prompt
  <2>1. OthersOf(rest) = OthersOf(waiting) \ {i} /\ i \in OthersOf(waiting)
        /\ PromptOf(rest) = PromptOf(waiting)
      BY <1>5 DEF PromptOf, OthersOf
  <2>2. o = r + 1 /\ p = q
    <3>1. IsFiniteSet(OthersOf(waiting))
        BY PartsAreFinite
    <3>2. Cardinality(OthersOf(waiting) \ {i}) = Cardinality(OthersOf(waiting)) - 1
        BY <2>1, <3>1, FS_RemoveElement
    <3>3. r = o - 1 /\ p = q
        BY <2>1, <3>2
    <3> QED
        BY <1>2, <3>3
  <2> HIDE DEF p, o, q, r, rest
  <2>3. Longest * o = Longest * r + Longest
      BY <1>2, <2>2
  <2> QED
      BY <1>2, <1>3, <1>5, <2>2, <2>3 DEF Cost, rest
<1> QED
    BY <1>4, <1>5

LEMMA CostOfPart ==
    ASSUME Powers, NEW all \in SUBSET Positions, NEW part \in SUBSET all
    PROVE  QueueCost(part) <= QueueCost(all)
<1> DEFINE p == Cardinality(PromptOf(all))
           o == Cardinality(OthersOf(all))
           q == Cardinality(PromptOf(part))
           r == Cardinality(OthersOf(part))
<1>1. part \in SUBSET Positions
    OBVIOUS
<1>2. /\ p \in Nat /\ o \in Nat /\ q \in Nat /\ r \in Nat
      /\ Timeout \in Nat /\ Longest \in Nat
    BY <1>1, PartsAreFinite, ConfigTypes, LongestIsTime
<1>3. q <= p /\ r <= o
  <2>1. PromptOf(part) \in SUBSET PromptOf(all) /\ OthersOf(part) \in SUBSET OthersOf(all)
      BY DEF PromptOf, OthersOf
  <2> QED
      BY <2>1, PartsAreFinite, FS_Subset
<1>4. QueueCost(all) = Timeout * p + Longest * o
      /\ QueueCost(part) = Timeout * q + Longest * r
    BY CostIsSum
<1> HIDE DEF p, o, q, r
<1>5. ASSUME NEW t \in Nat, NEW m \in Nat, NEW n \in Nat, n <= m PROVE t * n <= t * m
    BY <1>5
<1> QED
  <2>1. Timeout * q <= Timeout * p /\ Longest * r <= Longest * o
      BY <1>2, <1>3, <1>5
  <2>2. /\ Timeout * q \in Nat /\ Timeout * p \in Nat
        /\ Longest * r \in Nat /\ Longest * o \in Nat
      BY <1>2
  <2> QED
      BY <1>4, <2>1, <2>2

LEMMA EmptyCost == ASSUME Powers PROVE QueueCost({}) = 0
<1>1. PromptOf({}) = {} /\ OthersOf({}) = {} /\ Cardinality({}) = 0
    BY FS_EmptySet DEF PromptOf, OthersOf
<1>2. QueueCost({}) = Timeout * 0 + Longest * 0
    BY <1>1, CostIsSum
<1> QED
    BY <1>2, ConfigTypes, LongestIsTime

(* The running scope is one of the queue.                                  *)
LEMMA FirstIsQueued ==
    ASSUME queue \subseteq Positions, queue # {}
    PROVE  First \in queue /\ Running \in Scopes /\ Running = Manifest[First]
<1>1. queue \in SUBSET Nat
    BY ManifestAssumption DEF Positions
<1>2. \E i \in queue : \A j \in queue : i <= j
    BY <1>1, LeastExists
<1>3. First \in queue
    BY <1>2 DEF First
<1> QED
    BY <1>3 DEF Running, Scopes

(* Slots end one after the other, an interval after they are expected.     *)
LEMMA SlotTimes ==
    ASSUME NEW k \in Nat
    PROVE  /\ Expected(k) \in Nat /\ SlotEnd(k) \in Nat
           /\ SlotEnd(k) = Expected(k) + Interval
           /\ Expected(k + 1) = SlotEnd(k) /\ SlotEnd(k + 1) = SlotEnd(k) + Interval
           /\ k < Slots => SlotEnd(k + 1) <= GraceEnd
<1>1. /\ Interval * k \in Nat /\ Interval * (k + 1) = Interval * k + Interval
    BY ConfigTypes
<1>2. ASSUME k < Slots PROVE Interval * (k + 1) <= Interval * Slots
  <2>1. ASSUME NEW t \in Nat, NEW m \in Nat, NEW n \in Nat, n <= m PROVE t * n <= t * m
      BY <2>1
  <2> QED
      BY <1>2, <2>1, ConfigTypes
<1>3. Interval * Slots \in Nat /\ Interval * (k + 1) \in Nat
    BY ConfigTypes
<1> QED
    BY <1>1, <1>2, <1>3, ConfigTypes DEF Expected, SlotEnd, GraceEnd

-----------------------------------------------------------------------------
(* Where the time of a tick goes: without failures a scope of Prompt is    *)
(* planned in its slot.                                                    *)

Complete == \A s \in Prompt : seq[s] = Slots

(* The scope is still to be run in this tick.                              *)
Waits(s) ==
    \E i \in queue : Manifest[i] = s /\ ~(pc = "cycle" /\ i = First /\ job.committed)

(* The most that the rest of the command, of the tick, and of the way to   *)
(* the next reading of the progress may take.                              *)
CommandLeft ==
    IF pc = "backoff" THEN left + Longest - Spent(job.attempt + 1)
    ELSE IF Running \in Prompt THEN left
    ELSE left + Longest - Spent(job.attempt) - Timeout
TickLeft ==
    IF pc \in {"cycle", "backoff"} THEN CommandLeft + QueueCost(queue \ {First})
    ELSE QueueCost(queue)
UntilLoad ==
    IF pc \in {"check", "load"} THEN 0 ELSE IF pc = "poll" THEN left ELSE TickLeft + Poll

(* A scope that waits is due, and is planned before its slot has elapsed;  *)
(* of another one the next slot does not elapse before the next tick has   *)
(* run all scopes.                                                         *)
Deadline(s) == SlotEnd(seq[s] + 1)
OnTime(s) ==
    IF Waits(s) THEN Due(s) /\ now + TickLeft <= Deadline(s)
    ELSE seq[s] < Slots => now + UntilLoad + QueueCost(Positions) <= Deadline(s)

PlanIsNext ==
    pc = "cycle" /\ Running \in Prompt /\ job.planned /\ ~job.committed =>
        job.plan.to = seq[Running] + 1 /\ job.plan.due

ReportIsLast ==
    report \/ pc \in {"report", "done"} \/ (pc = "next" /\ queue = {} /\ ~job.ran /\ job.finalize)
        => Complete

InTick == {"next", "cycle", "backoff"}

TimesTyped ==
    /\ now \in Nat /\ left \in Nat /\ failures \in Nat
    /\ seq \in [Scopes -> 0..Slots]
    /\ pc \in Waiting \union {"check", "load", "next", "done"}
    /\ queue \subseteq Positions
    /\ pc \in {"cycle", "backoff"} => queue # {}
    /\ pc \notin InTick => queue = {}
    /\ pc = "backoff" => Running \notin Prompt

EverythingIsUp == pc # "down" /\ up = Services /\ (pc = "load" => job.active = Services)
NothingIsMissed == \A s \in Prompt : missed[s] = 0
AllOnTime == \A s \in Prompt : OnTime(s)

TimeIsKept ==
    EverythingIsUp /\ NothingIsMissed /\ AllOnTime /\ PlanIsNext /\ ReportIsLast

TimeInvariant == failures = 0 => TimeIsKept

LEMMA SameQueue ==
    ASSUME queue' = queue
    PROVE  First' = First /\ Running' = Running
BY DEF First, Running

(* The waits have the lengths of the configuration.                        *)
LEMMA StepIsTyped ==
    ASSUME Powers, SupervisorInvariant, TimesTyped, [Next]_vars
    PROVE  TimesTyped'
<1>1. /\ now \in Nat /\ left \in Nat /\ failures \in Nat /\ queue \subseteq Positions
      /\ seq \in [Scopes -> 0..Slots] /\ job \in Job
      /\ pc \in Waiting \union {"check", "load", "next", "done"}
      /\ pc \in {"cycle", "backoff"} => queue # {}
      /\ pc \notin InTick => queue = {}
      /\ pc = "backoff" => Running \notin Prompt
    BY DEF TimesTyped, SupervisorInvariant, CountsOK
<1>2. EndOfTime \in Nat /\ RestartSec \in Nat
    BY ConfigTypes, SlotTimes, ConfigAssumption DEF EndOfTime, GraceEnd
<1>3. job.attempt \in 0..Retries /\ Delay(job.attempt) \in Nat
    BY <1>1, SpentGrows DEF Job
<1>4. CASE UNCHANGED vars
    BY <1>1, <1>4, SameQueue DEF vars, ledger, TimesTyped
<1>5. CASE Tick
    BY <1>1, <1>2, <1>5, SameQueue DEF Tick, ledger, TimesTyped
<1>6. CASE Crash
    BY <1>1, <1>2, <1>6 DEF Crash, Fails, ledger, TimesTyped, Waiting, InTick
<1>7. CASE \E v \in Services : Outage(v) \/ Recover(v)
    BY <1>1, <1>7, SameQueue DEF Outage, Recover, Fails, ledger, TimesTyped
<1>8. CASE Boot \/ Check \/ Again \/ Load
  <2>1. /\ now' = now /\ failures' = failures /\ seq' = seq
        /\ left' \in Nat /\ queue' \subseteq Positions
        /\ \/ pc' \in {"check", "load"} /\ queue' = queue /\ pc \notin InTick
           \/ pc' = "next"
      BY <1>1, <1>8 DEF Boot, Check, Again, Load, Go, ledger, InTick
  <2> QED
      BY <1>1, <2>1 DEF TimesTyped, Waiting, InTick
<1>9. CASE StartCycle \/ PlanCycle \/ CycleFinished \/ CycleFails \/ Retry \/ Reload
  <2>1. /\ now' = now /\ failures' = failures /\ seq' = seq
        /\ left' \in Nat /\ queue' \subseteq Positions
    <3>1. /\ now' = now /\ failures' = failures /\ seq' = seq
          /\ left' \in {left, 0, Timeout, Delay(job.attempt)}
          /\ queue' \in {queue, queue \ {First}}
        BY <1>9 DEF StartCycle, PlanCycle, CycleFinished, CycleFails, Retry, Reload,
                    StartCommand, Go, ledger
    <3>2. left' \in Nat
        BY <1>1, <1>3, <3>1, ConfigTypes
    <3> QED
        BY <1>1, <3>1, <3>2
  <2>2. \/ pc' = "cycle" /\ queue' = queue /\ queue # {}
        \/ pc' = "backoff" /\ queue' = queue /\ pc = "cycle" /\ Running \notin Prompt
        \/ pc' = "next"
      BY <1>1, <1>9
         DEF StartCycle, PlanCycle, CycleFinished, CycleFails, Retry, Reload, StartCommand, Go
  <2> QED
      BY <1>1, <2>1, <2>2, SameQueue DEF TimesTyped, Waiting, InTick
<1>10. CASE CommitCycle
  <2>1. /\ UNCHANGED <<now, pc, left, queue, failures>> /\ pc = "cycle"
        /\ seq' = [seq EXCEPT ![Running] = job.plan.to]
      BY <1>10 DEF CommitCycle
  <2>2. job.plan.to \in 0..Slots
      BY <1>1 DEF Job, Plan
  <2>3. seq' \in [Scopes -> 0..Slots]
      BY <1>1, <2>1, <2>2
  <2> QED
      BY <1>1, <2>1, <2>3 DEF TimesTyped
<1>11. CASE StartReport \/ StoreReport \/ ReportFinished \/ EndTick
  <2>1. /\ now' = now /\ failures' = failures /\ seq' = seq
        /\ left' \in Nat /\ queue' = queue
      BY <1>1, <1>11, ConfigTypes DEF StartReport, StoreReport, ReportFinished, EndTick, Go, ledger
  <2>2. \/ pc' = pc
        \/ pc' \in {"report", "poll", "done"} /\ queue = {}
        \/ pc' = "next"
      BY <1>1, <1>11 DEF StartReport, StoreReport, ReportFinished, EndTick, Go
  <2> QED
      BY <1>1, <2>1, <2>2, SameQueue DEF TimesTyped, Waiting, InTick
<1> QED
    BY <1>4, <1>5, <1>6, <1>7, <1>8, <1>9, <1>10, <1>11 DEF Next, SupervisorStep

(* What is left of a tick is a number, and no time when nothing is queued. *)
LEMMA TickLeftIsTime ==
    ASSUME Powers, SupervisorInvariant, TimesTyped
    PROVE  /\ TickLeft \in Int
           /\ pc = "next" => TickLeft = QueueCost(queue) /\ TickLeft >= 0
           /\ pc \in {"cycle", "backoff"} =>
                 /\ CommandLeft \in Int /\ CommandLeft >= 0
                 /\ QueueCost(queue \ {First}) \in Nat
                 /\ TickLeft = CommandLeft + QueueCost(queue \ {First})
<1>1. /\ left \in Nat /\ queue \in SUBSET Positions /\ queue \ {First} \in SUBSET Positions
      /\ job.attempt \in 0..Retries /\ Longest \in Nat
    BY LongestIsTime DEF TimesTyped, SupervisorInvariant, CountsOK, Job
<1>2. /\ QueueCost(queue) \in Nat /\ QueueCost(queue \ {First}) \in Nat
    BY <1>1, CostIsTime
<1>3. /\ Spent(job.attempt) \in Int /\ Delay(job.attempt) \in Nat
      /\ Spent(job.attempt + 1) = Spent(job.attempt) + Timeout + Delay(job.attempt)
    BY <1>1, SpentGrows
<1>4. Spent(job.attempt + 1) <= Longest
  <2>1. job.attempt + 1 \in 0..Retries + 1
      BY <1>1, ConfigTypes
  <2> QED
      BY <2>1, SpentBelow
<1>5. CommandLeft \in Int /\ CommandLeft >= 0
    BY <1>1, <1>3, <1>4, ConfigTypes DEF CommandLeft
<1> QED
    BY <1>2, <1>5 DEF TickLeft

LEMMA StillInTime ==
    ASSUME NEW n \in Int, NEW t \in Int, NEW m \in Int, NEW u \in Int, NEW d \in Int,
           n + t <= d, m + u <= n + t
    PROVE  m + u <= d
OBVIOUS

(* A scope stays on time while the rest of the tick gets shorter by at     *)
(* least the time that passes.                                             *)
LEMMA StaysOnTime ==
    ASSUME NEW s, OnTime(s), pc \in InTick, pc' \in InTick, Waits(s)' <=> Waits(s),
           seq'[s] = seq[s], seq[s] \in Nat, now \in Nat, now' \in Nat, now <= now',
           TickLeft \in Int, TickLeft' \in Int, now' + TickLeft' <= now + TickLeft,
           QueueCost(Positions) \in Nat
    PROVE  OnTime(s)'
<1>1. UntilLoad = TickLeft + Poll /\ UntilLoad' = TickLeft' + Poll
    BY DEF UntilLoad, InTick
<1>2. SlotEnd(seq[s] + 1) \in Nat /\ Expected(seq[s] + 1) \in Nat /\ Poll \in Nat
    BY SlotTimes, ConfigTypes
<1>3. Due(s) => Due(s)'
    BY <1>2 DEF Due
<1>4. SlotEnd(seq'[s] + 1) = SlotEnd(seq[s] + 1)
    OBVIOUS
<1> DEFINE d == SlotEnd(seq[s] + 1)
           a == QueueCost(Positions)
<1>5. /\ OnTime(s) <=> IF Waits(s) THEN Due(s) /\ now + TickLeft <= d
                       ELSE seq[s] < Slots => now + UntilLoad + a <= d
      /\ OnTime(s)' <=> IF Waits(s)' THEN Due(s)' /\ now' + TickLeft' <= d
                        ELSE seq[s] < Slots => now' + UntilLoad' + a <= d
    BY <1>4 DEF OnTime, Deadline
<1>6. d \in Nat /\ a \in Nat
    BY <1>2
<1> HIDE DEF d, a
<1>7. CASE Waits(s)
  <2>1. Due(s)' /\ Waits(s)' /\ now + TickLeft <= d
      BY <1>3, <1>5, <1>7
  <2>2. now + TickLeft <= d
      BY <2>1
  <2>3. now' + TickLeft' <= d
    <3>1. now \in Int /\ now' \in Int /\ d \in Int
        BY <1>6
    <3> QED
        BY <2>2, <3>1, StillInTime
  <2> QED
      BY <1>5, <2>1, <2>3
<1>8. CASE ~Waits(s)
  <2>1. ASSUME seq[s] < Slots PROVE now' + UntilLoad' + a <= d
    <3>1. now + UntilLoad + a <= d
        BY <1>5, <1>8, <2>1
    <3> QED
        BY <1>1, <1>2, <1>6, <3>1
  <2> QED
      BY <1>5, <1>8, <2>1
<1> QED
    BY <1>7, <1>8

(* A step inside a tick that decides nothing.                              *)
LEMMA InTickStep ==
    ASSUME Powers, SupervisorInvariant, SupervisorInvariant', TimesTyped, TimesTyped',
           TimeIsKept, UNCHANGED <<seq, missed, up>>, pc \in InTick, pc' \in InTick,
           now <= now', \A s \in Prompt : Waits(s)' <=> Waits(s),
           TickLeft' \in Int, now' + TickLeft' <= now + TickLeft, PlanIsNext', ReportIsLast'
    PROVE  TimeIsKept'
<1>1. EverythingIsUp' /\ NothingIsMissed'
    BY DEF TimeIsKept, EverythingIsUp, NothingIsMissed, InTick
<1>2. TickLeft \in Int /\ QueueCost(Positions) \in Nat
    BY TickLeftIsTime, CostIsTime
<1>3. ASSUME NEW s \in Prompt PROVE OnTime(s)'
  <2>1. seq[s] \in Nat /\ seq'[s] = seq[s] /\ now \in Nat /\ now' \in Nat
      BY ManifestAssumption DEF TimesTyped
  <2>2. OnTime(s) /\ (Waits(s)' <=> Waits(s))
      BY <1>3 DEF TimeIsKept, AllOnTime
  <2> QED
      BY <1>2, <2>1, <2>2, StaysOnTime
<1> QED
    BY <1>1, <1>3 DEF TimeIsKept, AllOnTime

(* Time passes.                                                            *)
LEMMA TickKeepsTime ==
    ASSUME Powers, SupervisorInvariant, SupervisorInvariant', TimesTyped, TimesTyped',
           TimeIsKept, Tick
    PROVE  TimeIsKept'
<1>1. /\ UNCHANGED <<seq, missed, report, up, pc, queue, job>> /\ left' = left - 1 /\ left > 0
      /\ now' \in {now, now + 1} /\ pc \in Waiting
    BY DEF Tick, ledger
<1>2. /\ now \in Nat /\ left \in Nat /\ now' \in Nat /\ left' \in Nat
    BY DEF TimesTyped
<1>3. First' = First /\ Running' = Running
    BY <1>1, SameQueue
<1>4. PlanIsNext' /\ ReportIsLast' /\ EverythingIsUp' /\ NothingIsMissed'
    BY <1>1, <1>3 DEF TimeIsKept, PlanIsNext, ReportIsLast, EverythingIsUp, NothingIsMissed,
                      Complete
<1>5. ASSUME NEW s \in Prompt PROVE Waits(s)' <=> Waits(s)
    BY <1>1, <1>3 DEF Waits
<1>6. CASE pc \in InTick
  <2>1. pc \in {"cycle", "backoff"}
      BY <1>1, <1>6 DEF InTick, Waiting
  <2>2. /\ TickLeft = CommandLeft + QueueCost(queue \ {First})
        /\ CommandLeft \in Int /\ QueueCost(queue \ {First}) \in Nat
      BY <2>1, TickLeftIsTime
  <2>3. /\ job.attempt \in 0..Retries /\ Longest \in Nat
        /\ Spent(job.attempt) \in Int /\ Spent(job.attempt + 1) \in Int
    <3>1. job.attempt \in 0..Retries
        BY DEF SupervisorInvariant, CountsOK, Job
    <3> QED
        BY <3>1, LongestIsTime, SpentGrows, ConfigTypes
  <2>4. CommandLeft' = CommandLeft - 1
      BY <1>1, <1>2, <1>3, <2>3, ConfigTypes DEF CommandLeft
  <2>5. TickLeft' = TickLeft - 1
      BY <1>1, <1>3, <2>1, <2>2, <2>4 DEF TickLeft
  <2>6. TickLeft' \in Int /\ now <= now' /\ now' + TickLeft' <= now + TickLeft
      BY <1>1, <1>2, <2>2, <2>5
  <2> QED
      BY <1>1, <1>4, <1>5, <1>6, <2>6, InTickStep
<1>7. CASE pc = "report"
  <2>1. Complete /\ queue = {}
      BY <1>7 DEF TimeIsKept, ReportIsLast, TimesTyped, InTick
  <2>2. ASSUME NEW s \in Prompt PROVE OnTime(s)'
    <3>1. ~Waits(s)' /\ ~(seq'[s] < Slots)
        BY <1>1, <2>1, ConfigTypes DEF Complete, Waits
    <3> QED
        BY <3>1 DEF OnTime
  <2> QED
      BY <1>4, <2>2 DEF TimeIsKept, AllOnTime
<1>8. CASE pc = "poll"
  <2>1. ASSUME NEW s \in Prompt, OnTime(s) PROVE OnTime(s)'
    <3>1. UntilLoad = left /\ UntilLoad' = left - 1
        BY <1>1, <1>8 DEF UntilLoad
    <3>2. seq[s] \in Nat /\ ~Waits(s)
        BY <1>8, ManifestAssumption DEF TimesTyped, Waits, InTick
    <3>3. SlotEnd(seq[s] + 1) \in Nat /\ QueueCost(Positions) \in Nat
        BY <3>2, SlotTimes, CostIsTime
    <3>4. ~Waits(s)' /\ seq'[s] = seq[s]
        BY <1>1, <1>5, <3>2
    <3> QED
        BY <1>1, <1>2, <2>1, <3>1, <3>2, <3>3, <3>4 DEF OnTime, Deadline
  <2> QED
      BY <1>1, <1>4, <2>1 DEF TimeIsKept, AllOnTime
<1>9. pc # "down"
    BY DEF TimeIsKept, EverythingIsUp
<1> QED
    BY <1>1, <1>6, <1>7, <1>8, <1>9 DEF Waiting, InTick

(* A command starts: it has the time of its scope.                         *)
LEMMA StartKeepsTime ==
    ASSUME Powers, SupervisorInvariant, SupervisorInvariant', TimesTyped, TimesTyped',
           TimeIsKept, StartCycle
    PROVE  TimeIsKept'
<1>1. /\ UNCHANGED <<now, seq, missed, report, up, queue>> /\ pc = "next" /\ queue # {}
      /\ pc' = "cycle" /\ left' = Timeout
      /\ job' = [job EXCEPT !.attempt = 0, !.planned = FALSE, !.plan = NoPlan,
                            !.committed = FALSE]
    BY DEF StartCycle, StartCommand, Go, ledger
<1>2. ~job'.planned /\ ~job'.committed /\ job'.attempt = 0
    BY <1>1 DEF SupervisorInvariant, CountsOK, Job
<1>3. First' = First /\ Running' = Running
    BY <1>1, SameQueue
<1>4. PlanIsNext' /\ ReportIsLast'
    BY <1>1, <1>2 DEF TimeIsKept, PlanIsNext, ReportIsLast, Complete
<1>5. ASSUME NEW s \in Prompt PROVE Waits(s)' <=> Waits(s)
    BY <1>1, <1>2 DEF Waits
<1>6. First \in queue /\ queue \in SUBSET Positions /\ Running = Manifest[First]
    BY <1>1, FirstIsQueued DEF TimesTyped
<1>7. /\ QueueCost(queue) = QueueCost(queue \ {First}) + Cost(First)
      /\ QueueCost(queue \ {First}) \in Nat /\ Longest \in Nat
    BY <1>6, CostWithout, CostIsTime, LongestIsTime
<1>8. TickLeft' = QueueCost(queue) /\ TickLeft = QueueCost(queue) /\ TickLeft' \in Int
  <2>1. TickLeft = QueueCost(queue)
      BY <1>1 DEF TickLeft
  <2>2. CommandLeft' = Cost(First)
      BY <1>1, <1>2, <1>3, <1>6, <1>7, NothingSpent, ConfigTypes DEF CommandLeft, Cost
  <2>3. TickLeft' = CommandLeft' + QueueCost(queue \ {First})
      BY <1>1, <1>3 DEF TickLeft
  <2>4. Cost(First) \in Int
      BY <1>7, ConfigTypes DEF Cost
  <2> QED
      BY <1>7, <2>1, <2>2, <2>3, <2>4
<1>9. now <= now' /\ now' + TickLeft' <= now + TickLeft
    BY <1>1, <1>8 DEF TimesTyped
<1> QED
    BY <1>1, <1>4, <1>5, <1>8, <1>9, InTickStep DEF InTick

(* A command that is in time plans the next slot of its scope.             *)
LEMMA PlanKeepsTime ==
    ASSUME Powers, SupervisorInvariant, SupervisorInvariant', TimesTyped, TimesTyped',
           TimeIsKept, PlanCycle
    PROVE  TimeIsKept'
<1>1. /\ UNCHANGED <<now, seq, missed, report, up, queue, pc, left>> /\ pc = "cycle"
      /\ ~job.planned
    BY DEF PlanCycle, ledger
<1>2. PICK k \in 1..(Slots + 1) :
          CatchesUpTo(Running, k) /\ job' = [job EXCEPT !.planned = TRUE, !.plan = PlanTo(k)]
    BY DEF PlanCycle
<1>3. job'.committed = job.committed /\ job'.attempt = job.attempt /\ job'.plan = PlanTo(k)
    BY <1>2 DEF SupervisorInvariant, CountsOK, Job
<1>4. First' = First /\ Running' = Running
    BY <1>1, SameQueue
<1>5. ReportIsLast'
    BY <1>1 DEF TimeIsKept, ReportIsLast, Complete
<1>6. ASSUME NEW s \in Prompt PROVE Waits(s)' <=> Waits(s)
    BY <1>1, <1>3, <1>4 DEF Waits
<1>7. TickLeft' = TickLeft
    BY <1>1, <1>3, <1>4 DEF TickLeft, CommandLeft
<1>8. TickLeft \in Int /\ now \in Nat /\ CommandLeft \in Int /\ QueueCost(queue \ {First}) \in Nat
      /\ TickLeft = CommandLeft + QueueCost(queue \ {First}) /\ left \in Nat
    BY <1>1, TickLeftIsTime DEF TimesTyped
<1>9. ASSUME Running \in Prompt, ~job.committed
      PROVE  job'.plan.to = seq[Running] + 1 /\ job'.plan.due
  <2>1. First \in queue /\ Running \in Scopes /\ Running = Manifest[First]
      BY <1>1, FirstIsQueued DEF TimesTyped
  <2>2. seq[Running] \in 0..Slots
      BY <2>1 DEF TimesTyped
  <2>3. Waits(Running)
      BY <1>9, <2>1 DEF Waits
  <2>4. seq[Running] < Slots /\ Expected(seq[Running] + 1) <= now
        /\ now + TickLeft <= SlotEnd(seq[Running] + 1)
      BY <1>9, <2>3 DEF TimeIsKept, AllOnTime, OnTime, Deadline, Due
  <2>5. CommandLeft = left
      BY <1>1, <1>9 DEF CommandLeft
  <2>6. SlotEnd(seq[Running] + 1) \in Nat
      BY <2>2, SlotTimes
  <2>7. now <= SlotEnd(seq[Running] + 1)
      BY <1>8, <2>4, <2>5, <2>6
  <2>8. k = seq[Running] + 1
    <3>1. k > seq[Running]
        BY <1>2 DEF CatchesUpTo
    <3>2. ~(seq[Running] + 1 \in (seq[Running] + 1)..(k - 1))
        BY <1>2, <1>8, <2>6, <2>7 DEF CatchesUpTo
    <3> QED
        BY <1>2, <2>2, <3>1, <3>2, ConfigTypes
  <2>9. (k <= Slots /\ Expected(k) <= now) = TRUE
      BY <2>2, <2>4, <2>8, ConfigTypes
  <2>10. PlanTo(k) = [to |-> k, due |-> TRUE]
      BY <2>9 DEF PlanTo
  <2> QED
      BY <1>3, <2>8, <2>10
<1>10. PlanIsNext'
    BY <1>1, <1>3, <1>4, <1>9 DEF PlanIsNext
<1> QED
    BY <1>1, <1>5, <1>6, <1>7, <1>8, <1>10, InTickStep DEF InTick

(* A commit decides one slot, the next one of the running scope, and so it *)
(* has the whole of the slot after it.                                     *)
LEMMA CommitKeepsTime ==
    ASSUME Powers, IntervalSuffices, SupervisorInvariant, SupervisorInvariant', TimesTyped,
           TimesTyped', TimeIsKept, CommitCycle
    PROVE  TimeIsKept'
<1>1. /\ UNCHANGED <<now, report, up, queue, pc, left>> /\ pc = "cycle"
      /\ job.planned /\ ~job.committed /\ job.plan.to > seq[Running]
      /\ seq' = [seq EXCEPT ![Running] = job.plan.to]
      /\ missed' = [missed EXCEPT ![Running] = @ + (job.plan.to - seq[Running] - IF job.plan.due THEN 1 ELSE 0)]
      /\ job' = [job EXCEPT !.committed = TRUE]
    BY DEF CommitCycle
<1>2. job'.committed /\ job'.attempt = job.attempt /\ job'.planned
    BY <1>1 DEF SupervisorInvariant, CountsOK, Job
<1>3. First' = First /\ Running' = Running
    BY <1>1, SameQueue
<1>4. First \in queue /\ First \in Positions /\ Running \in Scopes /\ Running = Manifest[First]
    BY <1>1, FirstIsQueued DEF TimesTyped
<1>5. /\ TickLeft' = TickLeft /\ TickLeft \in Int /\ now \in Nat
      /\ UntilLoad = TickLeft + Poll /\ UntilLoad' = TickLeft + Poll
  <2>1. TickLeft' = TickLeft
      BY <1>1, <1>2, <1>3 DEF TickLeft, CommandLeft
  <2> QED
      BY <1>1, <2>1, TickLeftIsTime DEF UntilLoad, TimesTyped
<1>6. EverythingIsUp' /\ PlanIsNext'
    BY <1>1, <1>2 DEF TimeIsKept, EverythingIsUp, PlanIsNext
<1>7. ASSUME NEW s \in Prompt, s # Running
      PROVE  OnTime(s)' /\ missed'[s] = 0 /\ seq'[s] = seq[s]
  <2>1. seq'[s] = seq[s] /\ missed'[s] = missed[s] /\ seq[s] \in Nat
      BY <1>1, <1>4, <1>7, ManifestAssumption DEF TimesTyped, SupervisorInvariant, CountsOK
  <2>2. Waits(s)' <=> Waits(s)
      BY <1>1, <1>3, <1>4, <1>7 DEF Waits
  <2>3. OnTime(s) /\ missed[s] = 0
      BY <1>7 DEF TimeIsKept, AllOnTime, NothingIsMissed
  <2>4. QueueCost(Positions) \in Nat
      BY CostIsTime
  <2>5. OnTime(s)'
      BY <1>1, <1>5, <2>1, <2>2, <2>3, <2>4, StaysOnTime DEF InTick
  <2> QED
      BY <2>1, <2>3, <2>5
<1>8. ASSUME Running \in Prompt
      PROVE  OnTime(Running)' /\ missed'[Running] = 0
  <2>1. job.plan.to = seq[Running] + 1 /\ job.plan.due
      BY <1>1, <1>8 DEF TimeIsKept, PlanIsNext
  <2>2. seq[Running] \in Nat /\ missed[Running] \in Nat /\ missed[Running] = 0
      BY <1>4, <1>8 DEF TimesTyped, SupervisorInvariant, CountsOK, TimeIsKept, NothingIsMissed
  <2>3. seq'[Running] = seq[Running] + 1 /\ missed'[Running] = 0
      BY <1>1, <1>4, <2>1, <2>2 DEF TimesTyped, SupervisorInvariant, CountsOK
  <2>4. Waits(Running)
      BY <1>1, <1>4 DEF Waits
  <2>5. now + TickLeft <= SlotEnd(seq[Running] + 1)
      BY <1>8, <2>4 DEF TimeIsKept, AllOnTime, OnTime, Deadline
  <2>6. ~Waits(Running)'
    <3>1. ASSUME NEW i \in queue, Manifest[i] = Running PROVE i = First
        BY <1>4, <3>1, ManifestAssumption DEF TimesTyped
    <3> QED
        BY <1>1, <1>2, <1>3, <3>1 DEF Waits
  <2>7. /\ SlotEnd(seq[Running] + 1) \in Nat
        /\ SlotEnd(seq[Running] + 1 + 1) = SlotEnd(seq[Running] + 1) + Interval
      BY <2>2, SlotTimes
  <2>8. QueueCost(Positions) \in Nat /\ Poll + QueueCost(Positions) <= Interval
      BY CostIsTime DEF IntervalSuffices
  <2>9. now + (TickLeft + Poll) + QueueCost(Positions) <= SlotEnd(seq[Running] + 1 + 1)
      BY <1>5, <2>5, <2>7, <2>8, ConfigTypes
  <2>10. OnTime(Running)'
      BY <1>1, <1>3, <1>5, <2>3, <2>6, <2>9 DEF OnTime, Deadline
  <2> QED
      BY <2>3, <2>10
<1>9. NothingIsMissed' /\ AllOnTime'
    BY <1>3, <1>7, <1>8 DEF NothingIsMissed, AllOnTime
<1>10. ReportIsLast'
  <2>1. ~report
      BY DEF CommitCycle
  <2> QED
      BY <1>1, <2>1 DEF ReportIsLast
<1> QED
    BY <1>6, <1>9, <1>10 DEF TimeIsKept

(* The next scope of the queue has its turn.                               *)
LEMMA QueueAdvances ==
    ASSUME Powers, SupervisorInvariant, SupervisorInvariant', TimesTyped, TimesTyped',
           TimeIsKept, UNCHANGED <<now, seq, missed, report, up>>, pc \in {"cycle", "backoff"},
           Running \in Prompt => pc = "cycle" /\ job.committed,
           queue' = queue \ {First}, pc' = "next", job'.ran
    PROVE  TimeIsKept'
<1>1. First \in queue /\ queue \in SUBSET Positions /\ Running = Manifest[First]
    BY FirstIsQueued DEF TimesTyped
<1>2. PlanIsNext' /\ ReportIsLast'
    BY DEF TimeIsKept, PlanIsNext, ReportIsLast, Complete
<1>3. ASSUME NEW s \in Prompt PROVE Waits(s)' <=> Waits(s)
  <2>1. Waits(s)' <=> \E i \in queue \ {First} : Manifest[i] = s
      BY DEF Waits
  <2>2. ASSUME Waits(s) PROVE \E i \in queue \ {First} : Manifest[i] = s
      BY <1>1, <2>2 DEF Waits
  <2>3. ASSUME \E i \in queue \ {First} : Manifest[i] = s PROVE Waits(s)
      BY <2>3 DEF Waits
  <2> QED
      BY <2>1, <2>2, <2>3
<1>4. /\ TickLeft = CommandLeft + QueueCost(queue \ {First})
      /\ CommandLeft \in Int /\ CommandLeft >= 0 /\ QueueCost(queue \ {First}) \in Nat
    BY TickLeftIsTime
<1>5. TickLeft' = QueueCost(queue \ {First})
    BY DEF TickLeft
<1>6. TickLeft' \in Int /\ now <= now' /\ now' + TickLeft' <= now + TickLeft
    BY <1>4, <1>5 DEF TimesTyped
<1> QED
    BY <1>2, <1>3, <1>6, InTickStep DEF InTick

(* The command of a scope of Prompt is done only when it has committed.    *)
LEMMA FinishKeepsTime ==
    ASSUME Powers, SupervisorInvariant, SupervisorInvariant', TimesTyped, TimesTyped',
           TimeIsKept, CycleFinished
    PROVE  TimeIsKept'
<1>1. /\ UNCHANGED <<now, seq, missed, report, up>> /\ pc = "cycle" /\ pc' = "next"
      /\ queue' = queue \ {First} /\ job' = [job EXCEPT !.ran = TRUE]
      /\ job.committed \/ ~Steady
    BY DEF CycleFinished, Go, ledger
<1>2. job'.ran
    BY <1>1 DEF SupervisorInvariant, CountsOK, Job
<1>3. ASSUME Running \in Prompt PROVE job.committed
  <2>1. seq[Running] \in Nat
      BY <1>3, ManifestAssumption DEF TimesTyped
  <2>2. ~(seq[Running] = seq[Running] + 1)
      BY <2>1
  <2> QED
      BY <1>1, <1>3, <2>2 DEF TimeIsKept, PlanIsNext, Steady
<1> QED
    BY <1>1, <1>2, <1>3, QueueAdvances

(* A command of another scope fails: the delay was reckoned with.          *)
LEMMA FailKeepsTime ==
    ASSUME Powers, SupervisorInvariant, SupervisorInvariant', TimesTyped, TimesTyped',
           TimeIsKept, CycleFails
    PROVE  TimeIsKept'
<1>1. /\ UNCHANGED <<now, seq, missed, report, up, queue, job>> /\ pc = "cycle"
      /\ Running \notin Prompt /\ pc' = "backoff" /\ left' = Delay(job.attempt)
    BY DEF CycleFails, Go, ledger
<1>2. First' = First /\ Running' = Running
    BY <1>1, SameQueue
<1>3. Running = Manifest[First]
    BY DEF Running
<1>4. PlanIsNext' /\ ReportIsLast'
    BY <1>1 DEF TimeIsKept, PlanIsNext, ReportIsLast, Complete
<1>5. ASSUME NEW s \in Prompt PROVE Waits(s)' <=> Waits(s)
    BY <1>1, <1>2, <1>3 DEF Waits
<1>6. /\ TickLeft = CommandLeft + QueueCost(queue \ {First})
      /\ CommandLeft \in Int /\ QueueCost(queue \ {First}) \in Nat
    BY <1>1, TickLeftIsTime
<1>7. /\ Delay(job.attempt) \in Nat /\ Spent(job.attempt) \in Int
      /\ Spent(job.attempt + 1) = Spent(job.attempt) + Timeout + Delay(job.attempt)
    BY SpentGrows DEF SupervisorInvariant, CountsOK, Job
<1>8. /\ CommandLeft = left + Longest - Spent(job.attempt) - Timeout
      /\ CommandLeft' = left' + Longest - Spent(job.attempt + 1)
    BY <1>1, <1>2 DEF CommandLeft
<1>9. /\ TickLeft' = CommandLeft' + QueueCost(queue \ {First})
    BY <1>1, <1>2 DEF TickLeft
<1>10. CommandLeft' \in Int /\ CommandLeft' <= CommandLeft
    BY <1>1, <1>7, <1>8, LongestIsTime, ConfigTypes DEF TimesTyped
<1>11. TickLeft' \in Int /\ now <= now' /\ now' + TickLeft' <= now + TickLeft
    BY <1>1, <1>6, <1>9, <1>10 DEF TimesTyped
<1> QED
    BY <1>1, <1>4, <1>5, <1>11, InTickStep DEF InTick

(* After the delay comes another attempt, or the next scope.               *)
LEMMA RetryKeepsTime ==
    ASSUME Powers, SupervisorInvariant, SupervisorInvariant', TimesTyped, TimesTyped',
           TimeIsKept, Retry
    PROVE  TimeIsKept'
<1>1. /\ UNCHANGED <<now, seq, missed, report, up>> /\ pc = "backoff" /\ left = 0
      /\ Running \notin Prompt
    BY DEF Retry, ledger, TimesTyped
<1>2. CASE job.attempt < Retries
  <2>1. /\ queue' = queue /\ pc' = "cycle" /\ left' = Timeout
        /\ job' = [job EXCEPT !.attempt = job.attempt + 1, !.planned = FALSE,
                              !.plan = NoPlan, !.committed = FALSE]
      BY <1>2 DEF Retry, StartCommand, Go
  <2>2. job'.attempt = job.attempt + 1 /\ ~job'.planned /\ ~job'.committed
      BY <2>1 DEF SupervisorInvariant, CountsOK, Job
  <2>3. First' = First /\ Running' = Running
      BY <2>1, SameQueue
  <2>4. Running = Manifest[First]
      BY DEF Running
  <2>5. PlanIsNext' /\ ReportIsLast'
      BY <1>1, <2>1, <2>2 DEF TimeIsKept, PlanIsNext, ReportIsLast, Complete
  <2>6. ASSUME NEW s \in Prompt PROVE Waits(s)' <=> Waits(s)
      BY <1>1, <2>1, <2>2, <2>3, <2>4 DEF Waits
  <2>7. /\ TickLeft = CommandLeft + QueueCost(queue \ {First})
        /\ CommandLeft \in Int /\ QueueCost(queue \ {First}) \in Nat
      BY <1>1, TickLeftIsTime
  <2>8. Spent(job.attempt + 1) \in Int
    <3>1. job.attempt \in 0..Retries
        BY DEF SupervisorInvariant, CountsOK, Job
    <3> QED
        BY <3>1, SpentGrows, ConfigTypes
  <2>9. /\ CommandLeft = left + Longest - Spent(job.attempt + 1)
        /\ CommandLeft' = left' + Longest - Spent(job.attempt + 1) - Timeout
      BY <1>1, <2>1, <2>2, <2>3 DEF CommandLeft
  <2>10. TickLeft' = CommandLeft' + QueueCost(queue \ {First})
      BY <2>1, <2>3 DEF TickLeft
  <2>11. CommandLeft' = CommandLeft
      BY <1>1, <2>1, <2>8, <2>9, LongestIsTime, ConfigTypes
  <2>12. TickLeft' \in Int /\ now <= now' /\ now' + TickLeft' <= now + TickLeft
      BY <1>1, <2>7, <2>10, <2>11 DEF TimesTyped
  <2> QED
      BY <1>1, <2>1, <2>5, <2>6, <2>12, InTickStep DEF InTick
<1>3. CASE ~(job.attempt < Retries)
  <2>1. queue' = queue \ {First} /\ pc' = "next" /\ job' = [job EXCEPT !.ran = TRUE]
      BY <1>3 DEF Retry, Go
  <2>2. job'.ran
      BY <2>1 DEF SupervisorInvariant, CountsOK, Job
  <2> QED
      BY <1>1, <2>1, <2>2, QueueAdvances
<1> QED
    BY <1>2, <1>3

(* The queue is empty outside of a tick.                                   *)
LEMMA NothingWaits == ASSUME NEW s, queue = {} PROVE ~Waits(s)
BY DEF Waits

(* After the last slots of the scopes of Prompt nothing is late.           *)
LEMMA CompleteIsOnTime ==
    ASSUME Complete', queue' = {}
    PROVE  AllOnTime' /\ ReportIsLast'
<1>1. ASSUME NEW s \in Prompt PROVE OnTime(s)'
  <2>1. ~Waits(s)' /\ ~(seq'[s] < Slots)
      BY ConfigTypes DEF Complete, Waits
  <2> QED
      BY <2>1 DEF OnTime
<1> QED
    BY <1>1 DEF AllOnTime, ReportIsLast

(* The grace is over only after the last slots of the scopes of Prompt.    *)
LEMMA GraceIsLast ==
    ASSUME NEW s \in Prompt, seq[s] \in 0..Slots, now \in Nat,
           seq[s] < Slots => now < SlotEnd(seq[s] + 1), FinalizationDue
    PROVE  seq[s] = Slots
<1>1. CASE seq[s] < Slots
  <2>1. SlotEnd(seq[s] + 1) <= GraceEnd /\ SlotEnd(seq[s] + 1) \in Nat
      BY <1>1, SlotTimes
  <2>2. now >= GraceEnd
      BY DEF FinalizationDue
  <2>3. GraceEnd \in Nat
      BY SlotTimes, ConfigTypes DEF GraceEnd
  <2> QED
      BY <1>1, <2>1, <2>2, <2>3
<1> QED
    BY <1>1, ConfigTypes

(* The progress is read again: nothing is due for the report too early.    *)
LEMMA ReloadKeepsTime ==
    ASSUME Powers, SupervisorInvariant, SupervisorInvariant', TimesTyped, TimesTyped',
           TimeIsKept, Reload
    PROVE  TimeIsKept'
<1>1. /\ UNCHANGED <<now, seq, missed, report, up, pc, queue>> /\ pc = "next" /\ queue = {}
      /\ job' = Progress([job EXCEPT !.ran = FALSE])
    BY DEF Reload, ledger
<1>2. job'.finalize = FinalizationDue
    BY <1>1 DEF Progress, SupervisorInvariant, CountsOK, Job
<1>3. TickLeft = QueueCost(queue) /\ TickLeft' = QueueCost(queue) /\ TickLeft \in Int
      /\ TickLeft >= 0
    BY <1>1, TickLeftIsTime DEF TickLeft
<1>4. ASSUME NEW s \in Prompt PROVE Waits(s)' <=> Waits(s)
    BY <1>1 DEF Waits
<1>5. ASSUME FinalizationDue PROVE Complete'
  <2>1. ASSUME NEW s \in Prompt PROVE seq'[s] = Slots
    <3>1. seq[s] \in 0..Slots /\ now \in Nat
        BY ManifestAssumption DEF TimesTyped
    <3>2. ASSUME seq[s] < Slots PROVE now < SlotEnd(seq[s] + 1)
      <4>1. now + UntilLoad + QueueCost(Positions) <= SlotEnd(seq[s] + 1)
          BY <1>1, <3>2, NothingWaits DEF TimeIsKept, AllOnTime, OnTime, Deadline
      <4>2. UntilLoad = TickLeft + Poll
          BY <1>1 DEF UntilLoad
      <4>3. QueueCost(Positions) \in Nat /\ SlotEnd(seq[s] + 1) \in Nat
          BY <3>1, CostIsTime, SlotTimes
      <4> QED
          BY <1>3, <3>1, <4>1, <4>2, <4>3, ConfigTypes
    <3>3. seq[s] = Slots
        BY <1>5, <3>1, <3>2, GraceIsLast
    <3> QED
        BY <1>1, <3>3
  <2> QED
      BY <2>1 DEF Complete
<1>6. PlanIsNext' /\ ReportIsLast'
    BY <1>1, <1>2, <1>5 DEF TimeIsKept, PlanIsNext, ReportIsLast, Complete
<1>7. TickLeft' \in Int /\ now <= now' /\ now' + TickLeft' <= now + TickLeft
    BY <1>1, <1>3 DEF TimesTyped
<1> QED
    BY <1>1, <1>4, <1>6, <1>7, InTickStep DEF InTick

(* The report is the last thing of the campaign.                           *)
LEMMA ReportKeepsTime ==
    ASSUME Powers, SupervisorInvariant, SupervisorInvariant', TimesTyped, TimesTyped',
           TimeIsKept, StartReport \/ StoreReport \/ ReportFinished
    PROVE  TimeIsKept'
<1>1. /\ UNCHANGED <<seq, missed, up, queue>> /\ pc' \in {"report", "next"}
      /\ pc = "report" \/ (pc = "next" /\ queue = {} /\ ~job.ran /\ job.finalize)
    BY DEF StartReport, StoreReport, ReportFinished, Go, ledger
<1>2. Complete' /\ queue' = {}
    BY <1>1 DEF TimeIsKept, ReportIsLast, Complete, TimesTyped, InTick
<1>3. EverythingIsUp' /\ NothingIsMissed' /\ PlanIsNext'
    BY <1>1 DEF TimeIsKept, EverythingIsUp, NothingIsMissed, PlanIsNext
<1> QED
    BY <1>2, <1>3, CompleteIsOnTime DEF TimeIsKept

(* The tick ends: the way to the next one is the poll interval.            *)
LEMMA EndKeepsTime ==
    ASSUME Powers, SupervisorInvariant, SupervisorInvariant', TimesTyped, TimesTyped',
           TimeIsKept, EndTick
    PROVE  TimeIsKept'
<1>1. /\ UNCHANGED <<now, seq, missed, report, up, queue>> /\ pc = "next" /\ queue = {}
      /\ \/ pc' = "poll" /\ left' = Poll
         \/ pc' = "done" /\ job.stored
    BY DEF EndTick, Go, ledger
<1>2. EverythingIsUp' /\ NothingIsMissed' /\ PlanIsNext'
    BY <1>1 DEF TimeIsKept, EverythingIsUp, NothingIsMissed, PlanIsNext
<1>3. CASE pc' = "poll"
  <2>1. ReportIsLast'
      BY <1>1, <1>3 DEF TimeIsKept, ReportIsLast, Complete
  <2>2. UntilLoad = Poll /\ UntilLoad' = Poll
      BY <1>1, <1>3, EmptyCost, ConfigTypes DEF UntilLoad, TickLeft
  <2>3. ASSUME NEW s \in Prompt PROVE OnTime(s)'
    <3>1. ~Waits(s) /\ ~Waits(s)'
        BY <1>1 DEF Waits
    <3> QED
        BY <1>1, <2>2, <3>1 DEF TimeIsKept, AllOnTime, OnTime, Deadline
  <2> QED
      BY <1>2, <2>1, <2>3 DEF TimeIsKept, AllOnTime
<1>4. CASE pc' = "done"
  <2>1. report
      BY <1>1, <1>4 DEF SupervisorInvariant, ProgressIsCurrent
  <2>2. Complete'
      BY <1>1, <2>1 DEF TimeIsKept, ReportIsLast, Complete
  <2> QED
      BY <1>1, <1>2, <2>2, CompleteIsOnTime DEF TimeIsKept
<1> QED
    BY <1>1, <1>3, <1>4

(* The next tick begins, with both services up.                            *)
LEMMA CheckKeepsTime ==
    ASSUME Powers, SupervisorInvariant, SupervisorInvariant', TimesTyped, TimesTyped',
           TimeIsKept, Again \/ Check
    PROVE  TimeIsKept'
<1>1. /\ UNCHANGED <<now, seq, missed, report, queue>>
      /\ \/ pc = "poll" /\ left = 0 /\ pc' = "check"
         \/ pc = "check" /\ pc' = "load"
    BY DEF Again, Check, Go, ledger
<1>2. up = Services
    BY DEF TimeIsKept, EverythingIsUp
<1>3. up' = Services /\ (pc' = "load" => job'.active = Services)
  <2>1. CASE Again
      BY <1>1, <1>2, <2>1 DEF Again, Go
  <2>2. CASE Check
    <3>1. up' = Services /\ job' = [NoJob EXCEPT !.active = up']
        BY <1>2, <2>2 DEF Check
    <3> QED
        BY <3>1 DEF NoJob
  <2> QED
      BY <2>1, <2>2
<1>4. queue = {}
    BY <1>1 DEF TimesTyped, InTick
<1>5. EverythingIsUp' /\ NothingIsMissed' /\ PlanIsNext' /\ ReportIsLast'
    BY <1>1, <1>3 DEF TimeIsKept, EverythingIsUp, NothingIsMissed, PlanIsNext, ReportIsLast,
                      Complete
<1>6. UntilLoad = 0 /\ UntilLoad' = 0
    BY <1>1 DEF UntilLoad
<1>7. ASSUME NEW s \in Prompt PROVE OnTime(s)'
  <2>1. ~Waits(s) /\ ~Waits(s)'
      BY <1>1, <1>4 DEF Waits
  <2> QED
      BY <1>1, <1>6, <2>1 DEF TimeIsKept, AllOnTime, OnTime, Deadline
<1> QED
    BY <1>5, <1>7 DEF TimeIsKept, AllOnTime

(* The queue of a tick: the scopes that are due are in time even if all    *)
(* scopes are run, and the others even if all of them are run twice, for   *)
(* their slots have not begun.                                             *)
LEMMA LoadKeepsTime ==
    ASSUME Powers, IntervalSuffices, SupervisorInvariant, SupervisorInvariant', TimesTyped,
           TimesTyped', TimeIsKept, Load
    PROVE  TimeIsKept'
<1>1. /\ UNCHANGED <<now, seq, missed, report, up>> /\ pc = "load" /\ pc' = "next"
      /\ queue' = IF ~report THEN {i \in Positions : Due(Manifest[i])} ELSE {}
      /\ job' = Progress(job)
  <2>1. job.active = Services
      BY DEF Load, TimeIsKept, EverythingIsUp
  <2> QED
      BY <2>1 DEF Load, Go, ledger
<1>2. job'.finalize = FinalizationDue
    BY <1>1 DEF Progress, SupervisorInvariant, CountsOK, Job
<1>3. EverythingIsUp' /\ NothingIsMissed' /\ PlanIsNext' /\ queue = {}
    BY <1>1 DEF TimeIsKept, EverythingIsUp, NothingIsMissed, PlanIsNext, TimesTyped, InTick
<1>4. CASE report
  <2>1. Complete' /\ queue' = {}
      BY <1>1, <1>4 DEF TimeIsKept, ReportIsLast, Complete
  <2> QED
      BY <1>3, <2>1, CompleteIsOnTime DEF TimeIsKept
<1>5. CASE ~report
  <2>1. queue' = {i \in Positions : Due(Manifest[i])}
      BY <1>1, <1>5
  <2>2. /\ TickLeft' = QueueCost(queue') /\ UntilLoad' = QueueCost(queue') + Poll
        /\ UntilLoad = 0
      BY <1>1 DEF TickLeft, UntilLoad
  <2>3. /\ QueueCost(Positions) \in Nat /\ QueueCost(queue') \in Nat
        /\ queue' \in SUBSET Positions /\ now \in Nat
      BY <2>1, CostIsTime DEF TimesTyped
  <2>4. ASSUME NEW s \in Prompt
        PROVE  /\ seq[s] \in 0..Slots /\ seq'[s] = seq[s] /\ ~Waits(s)
               /\ (Waits(s)' <=> Due(s)) /\ (Due(s)' <=> Due(s))
               /\ seq[s] < Slots => now + QueueCost(Positions) <= SlotEnd(seq[s] + 1)
               /\ QueueCost(Positions) > 0 /\ Expected(seq[s] + 1) \in Nat
               /\ SlotEnd(seq[s] + 1) = Expected(seq[s] + 1) + Interval
    <3>1. seq[s] \in 0..Slots /\ s \in Scopes
        BY ManifestAssumption DEF TimesTyped
    <3>2. Waits(s)' <=> Due(s)
      <4>1. Waits(s)' <=> \E i \in queue' : Manifest[i] = s
          BY <1>1 DEF Waits
      <4>2. PICK i \in Positions : Manifest[i] = s
          BY <3>1 DEF Scopes
      <4> QED
          BY <2>1, <4>1, <4>2
    <3>3. seq[s] < Slots => now + 0 + QueueCost(Positions) <= SlotEnd(seq[s] + 1)
        BY <1>3, <2>2, NothingWaits DEF TimeIsKept, AllOnTime, OnTime, Deadline
    <3>4. Due(s)' <=> Due(s)
        BY <1>1 DEF Due
    <3>5. Expected(seq[s] + 1) \in Nat /\ SlotEnd(seq[s] + 1) = Expected(seq[s] + 1) + Interval
      <4>1. seq[s] + 1 \in Nat
          BY <3>1
      <4> QED
          BY <4>1, SlotTimes
    <3>6. ~Waits(s)
        BY <1>3, NothingWaits
    <3>7. QueueCost(Positions) > 0
      <4>1. PICK i \in Positions : Manifest[i] = s
          BY <3>1 DEF Scopes
      <4>2. QueueCost(Positions) = QueueCost(Positions \ {i}) + Timeout
            /\ QueueCost(Positions \ {i}) \in Nat
          BY <4>1, CostWithout, CostIsTime DEF Cost
      <4> QED
          BY <4>2, ConfigTypes
    <3> QED
        BY <1>1, <2>3, <3>1, <3>2, <3>3, <3>4, <3>5, <3>6, <3>7
  <2>5. ASSUME NEW s \in Prompt PROVE OnTime(s)'
    <3>1. CASE Due(s)
      <4>1. seq[s] < Slots
          BY <3>1 DEF Due
      <4>2. QueueCost(queue') <= QueueCost(Positions)
          BY <2>3, CostOfPart
      <4>3. now + QueueCost(queue') <= SlotEnd(seq[s] + 1)
          BY <2>3, <2>4, <4>1, <4>2, ConfigTypes
      <4> QED
          BY <1>1, <2>2, <2>4, <3>1, <4>3 DEF OnTime, Deadline
    <3>2. CASE ~Due(s)
      <4>1. PICK i \in Positions : Manifest[i] = s
          BY ManifestAssumption DEF Scopes
      <4>2. queue' \in SUBSET (Positions \ {i}) /\ Cost(i) = Timeout
          BY <2>1, <3>2, <4>1 DEF Cost
      <4>3. QueueCost(Positions) = QueueCost(Positions \ {i}) + Timeout
            /\ QueueCost(Positions \ {i}) \in Nat
          BY <4>2, CostWithout, CostIsTime
      <4>4. QueueCost(queue') <= QueueCost(Positions \ {i})
          BY <4>2, CostOfPart
      <4>5. Poll + 2 * QueueCost(Positions) - Timeout <= Interval + 1
          BY DEF IntervalSuffices
      <4>6. ASSUME seq[s] < Slots
            PROVE  now + (QueueCost(queue') + Poll) + QueueCost(Positions) <= SlotEnd(seq[s] + 1)
        <5>1. ~(Expected(seq[s] + 1) <= now)
            BY <3>2, <4>6 DEF Due
        <5>2. now + 1 <= Expected(seq[s] + 1)
            BY <2>3, <2>4, <5>1
        <5> QED
            BY <2>3, <2>4, <4>3, <4>4, <4>5, <5>2, ConfigTypes
      <4> QED
          BY <1>1, <2>2, <2>4, <3>2, <4>6 DEF OnTime, Deadline
    <3> QED
        BY <3>1, <3>2
  <2>6. ReportIsLast'
    <3>1. ASSUME FinalizationDue PROVE Complete'
      <4>1. ASSUME NEW s \in Prompt PROVE seq'[s] = Slots
        <5>1. ASSUME seq[s] < Slots PROVE now < SlotEnd(seq[s] + 1)
            BY <2>3, <2>4, <5>1, ConfigTypes
        <5>2. seq[s] = Slots
            BY <2>3, <2>4, <3>1, <5>1, GraceIsLast
        <5> QED
            BY <2>4, <5>2
      <4> QED
          BY <4>1 DEF Complete
    <3> QED
        BY <1>1, <1>2, <1>5, <3>1 DEF ReportIsLast
  <2> QED
      BY <1>3, <2>5, <2>6 DEF TimeIsKept, AllOnTime
<1> QED
    BY <1>4, <1>5

(* Every step without a failure keeps the time.                            *)
LEMMA StepKeepsTime ==
    ASSUME Powers, IntervalSuffices, SupervisorInvariant, SupervisorInvariant', TimesTyped,
           TimesTyped', TimeInvariant, [Next]_vars
    PROVE  TimeInvariant'
<1> SUFFICES ASSUME failures' = 0 PROVE TimeIsKept'
    BY DEF TimeInvariant
<1>1. failures \in Nat
    BY DEF TimesTyped
<1>2. CASE Crash \/ \E v \in Services : Outage(v)
  <2>1. failures' = failures + 1
      BY <1>2 DEF Crash, Outage, Fails
  <2> QED
      BY <1>1, <2>1
<1>3. CASE UNCHANGED vars
  <2>1. UNCHANGED <<now, ledger, up, pc, left, queue, job, failures>>
      BY <1>3 DEF vars
  <2>2. First' = First /\ Running' = Running
      BY <2>1, SameQueue
  <2> QED
      BY <2>1, <2>2
         DEF ledger, TimeInvariant, TimeIsKept, EverythingIsUp, NothingIsMissed, AllOnTime,
             OnTime, Waits, Due, Deadline, UntilLoad, TickLeft, CommandLeft, PlanIsNext,
             ReportIsLast, Complete
<1>4. CASE Tick \/ SupervisorStep \/ StoreReport \/ \E v \in Services : Recover(v)
  <2>1. failures' = failures
      BY <1>4 DEF Tick, SupervisorStep, StoreReport, Recover, Boot, Check, Load, StartCycle,
                  PlanCycle, CommitCycle, CycleFinished, CycleFails, Retry, Reload,
                  StartReport, ReportFinished, EndTick, Again
  <2>2. TimeIsKept /\ up = Services /\ pc # "down"
      BY <2>1 DEF TimeInvariant, TimeIsKept, EverythingIsUp
  <2>3. ~Boot /\ ~(\E v \in Services : Recover(v))
      BY <2>2 DEF Boot, Recover
  <2> QED
      BY <1>4, <2>2, <2>3, TickKeepsTime, StartKeepsTime, PlanKeepsTime, CommitKeepsTime,
         FinishKeepsTime, FailKeepsTime, RetryKeepsTime, ReloadKeepsTime, ReportKeepsTime,
         EndKeepsTime, CheckKeepsTime, LoadKeepsTime
         DEF SupervisorStep
<1> QED
    BY <1>2, <1>3, <1>4 DEF Next

(* At the start the first slots have not begun.                            *)
LEMMA InitKeepsTime ==
    ASSUME Powers, IntervalSuffices, Init
    PROVE  TimesTyped /\ TimeInvariant
<1>1. TimesTyped
    BY ConfigTypes DEF Init, TimesTyped, Waiting, InTick
<1>2. EverythingIsUp /\ NothingIsMissed /\ PlanIsNext /\ ReportIsLast
    BY ManifestAssumption
       DEF Init, EverythingIsUp, NothingIsMissed, PlanIsNext, ReportIsLast
<1>3. ASSUME NEW s \in Prompt PROVE OnTime(s)
  <2>1. ~Waits(s) /\ now = 0 /\ UntilLoad = 0 /\ seq[s] = 0
      BY ManifestAssumption, NothingWaits DEF Init, UntilLoad
  <2>2. /\ SlotEnd(0 + 1) = SlotEnd(0) + Interval /\ SlotEnd(0) \in Nat
        /\ QueueCost(Positions) \in Nat
      BY SlotTimes, CostIsTime
  <2>3. Poll + QueueCost(Positions) <= Interval
      BY DEF IntervalSuffices
  <2>4. now + UntilLoad + QueueCost(Positions) <= SlotEnd(seq[s] + 1)
      BY <2>1, <2>2, <2>3, ConfigTypes
  <2> QED
      BY <2>1, <2>4 DEF OnTime, Deadline
<1> QED
    BY <1>1, <1>2, <1>3 DEF TimeInvariant, TimeIsKept, AllOnTime

(* Without failures every scope of Prompt stays on time.                   *)
LEMMA TimeInvariantHolds ==
    ASSUME Powers, IntervalSuffices
    PROVE  Spec => [](SupervisorInvariant /\ TimesTyped /\ TimeInvariant)
<1>1. ASSUME Init PROVE TimesTyped /\ TimeInvariant
    BY <1>1, InitKeepsTime
<1>2. ASSUME SupervisorInvariant, SupervisorInvariant', TimesTyped /\ TimeInvariant, [Next]_vars
      PROVE  (TimesTyped /\ TimeInvariant)'
  <2>1. TimesTyped'
      BY <1>2, StepIsTyped
  <2>2. TimeInvariant'
      BY <1>2, <2>1, StepKeepsTime
  <2> QED
      BY <2>1, <2>2
<1> QED
    BY <1>1, <1>2, SupervisorInvariantHolds, PTL DEF Spec

(* When the interval has room for the worst tick of every other scope (the *)
(* timeouts and the doubled delays of _run_scope), a scope whose commands  *)
(* always record within their timeout loses no slot in a run without       *)
(* crashes and outages, whatever the commands of the other scopes do.      *)
THEOREM HealthyScopesAreNotStarved ==
    ASSUME Powers, IntervalSuffices
    PROVE  Spec => []HealthyScopeIsNotStarved
<1>1. TimeInvariant => HealthyScopeIsNotStarved
    BY DEF TimeInvariant, TimeIsKept, NothingIsMissed, HealthyScopeIsNotStarved
<1> QED
    BY <1>1, TimeInvariantHolds, PTL

(* Then the report is stored only after its last slot has been decided: a  *)
(* tick runs the scopes that are due before observe-report (_tick).        *)
THEOREM HealthyScopesAreComplete ==
    ASSUME Powers, IntervalSuffices
    PROVE  Spec => []HealthyScopeIsComplete
<1>1. TimeInvariant => HealthyScopeIsComplete
    BY DEF TimeInvariant, TimeIsKept, ReportIsLast, Complete, HealthyScopeIsComplete
<1> QED
    BY <1>1, TimeInvariantHolds, PTL
=============================================================================
