--------------------------- MODULE ScenarioTrial ----------------------------
(***************************************************************************)
(* A controlled trial of one scenario in one scope: the operator's command *)
(* (cli.py), which is run again when it fails and always carries the same  *)
(* request; the evidence verifier (evidence_verifier.py, with the runner   *)
(* of observation_scenarios.py), whose operations hold one lock and go on  *)
(* when their caller has given up; the bridge (BridgeReader); the database *)
(* (0018), which alone decides that a trial has passed; and the campaign's *)
(* observation cycles of the scope.                                        *)
(***************************************************************************)
EXTENDS BridgeReader

CONSTANTS
    PageSize,      \* events of a page of the journal
    MaxFragment    \* events that one trial may refer to

ASSUME PageAssumption == PageSize \in Nat \ {0}
ASSUME FragmentAssumption == MaxFragment \in Nat

VARIABLES
    posted,      \* control requests that the bridge has not answered
    late,        \* how many of them nobody waits for any more
    imported,    \* events in the database: this long a prefix of the journal
    opened,      \* the trial has been requested of the database
    trial,       \* the first and the last event of the recorded trial, or NoFragment
    queue,       \* operations that wait for the verifier's lock
    op,          \* the operation that holds it
    step,        \* where that operation is
    cursor,      \* events it has read
    command,     \* where the operator's command is
    cycle,       \* the observation cycle that is being run
    started,     \* when it started: "early", before the trial was requested; "before" or
                 \* "after" the event that ends the trial's evidence
    due,         \* the scope has a due slot
    lastOk,      \* the scope's newest cycle succeeded
    failed,      \* the newest failure since the request spans the event that ends the evidence
    recovered    \* a live batch was stored after that event

requestVars == <<posted, late>>
databaseVars == <<imported, opened, trial>>
verifierVars == <<queue, op, step, cursor>>
cycleVars == <<cycle, started, due, lastOk, failed>>
trialVars == <<requestVars, databaseVars, verifierVars, command, cycleVars, recovered>>
vars == <<bridgeVars, trialVars>>

-----------------------------------------------------------------------------
(* An operation of the verifier, and whether the command waits for it. *)

Operations == {"checkpoint", "begin", "force", "complete"}
Idle == [name |-> "idle", live |-> FALSE]
Calls == [name : Operations, live : BOOLEAN]
Called(name) == [name |-> name, live |-> TRUE]
Abandoned(call) == [call EXCEPT !.live = FALSE]

Waiting == {"begin", "force", "complete"}

ScenarioTypeOK ==
    /\ posted \in Nat /\ late \in Nat /\ posted = late + (IF step = "wait" THEN 1 ELSE 0)
    /\ imported \in Nat /\ opened \in BOOLEAN /\ trial \in Nat \X Nat
    /\ queue \subseteq Calls /\ op \in Calls \union {Idle} /\ cursor \in Nat
    /\ step \in {"idle", "sign", "fetch", "begin", "trigger", "wait", "peek", "resume", "collect"}
    /\ command \in Waiting \union {"idle", "preflight", "exercise", "cycle", "recover", "done"}
    /\ cycle \in {"idle", "read", "batch", "failed", "other"}
    /\ started \in {"early", "before", "after"} /\ due \in BOOLEAN /\ lastOk \in BOOLEAN
    /\ failed \in BOOLEAN /\ recovered \in BOOLEAN

TypeOK == BridgeTypeOK /\ ScenarioTypeOK

ScenarioInit ==
    /\ posted = 0 /\ late = 0 /\ imported = 0 /\ opened = FALSE /\ trial = NoFragment
    /\ queue = {} /\ op = Idle /\ step = "idle" /\ cursor = 0 /\ command = "idle"
    /\ cycle = "idle" /\ started = "early" /\ due = TRUE /\ lastOk = FALSE
    /\ failed = FALSE /\ recovered = FALSE

Init == BridgeInit /\ ScenarioInit

-----------------------------------------------------------------------------
(* The verifier: one operation at a time. *)

(* The next operation gets the lock. *)
VerifierTakes ==
    /\ op = Idle
    /\ \E call \in queue :
          /\ op' = call /\ queue' = queue \ {call}
          /\ step' = IF call.name = "complete" THEN "peek" ELSE "fetch"
    /\ cursor' = 0
    /\ UNCHANGED <<bridgeVars, requestVars, databaseVars, command, cycleVars, recovered>>

(* It ends; the command, if it still waits, goes on to `next`. *)
Release(next) ==
    /\ op' = Idle /\ step' = "idle" /\ cursor' = 0
    /\ command' = IF op.live THEN next ELSE command

Ends(next) == Release(next) /\ queue' = queue
Fails == Ends("idle")

AfterStart == IF scenario \in Faults THEN "exercise" ELSE "recover"

(* The scheduler of the campaign has the journal imported, and sealed: its *)
(* call is followed from the moment it has the lock.                       *)
CheckpointIsCalled ==
    /\ op = Idle /\ Fault("checkpoint")
    /\ op' = Abandoned(Called("checkpoint")) /\ step' = "sign"
    /\ UNCHANGED <<scenario, journal, boot, gen, session, aborted, connected, health, refreshing,
                   pending, control, stopping, requestVars, databaseVars, queue, cursor, command,
                   cycleVars, recovered>>

CheckpointIsSigned ==
    /\ step = "sign" /\ Running
    /\ step' = "fetch" /\ gen' = gen /\ Record(Checkpoint)
    /\ UNCHANGED <<scenario, boot, session, aborted, connected, health, refreshing, pending,
                   control, stopping, faults, requestVars, databaseVars, queue, op, cursor,
                   command, cycleVars, recovered>>

(* One page: verified, then stored by one transaction, which accepts the   *)
(* events it has and continues the chain with the others.                  *)
PageEnd == IF cursor + PageSize < Len(journal) THEN cursor + PageSize ELSE Len(journal)

Continues(i) ==
    i > 1 => /\ ~journal[i].back
             /\ IF journal[i].boot = journal[i - 1].boot
                THEN journal[i].gen >= journal[i - 1].gen
                ELSE journal[i].what.type = "bridge_started" /\ journal[i].gen = 0

Verifies(from, to) == \A i \in from..to : VerifierAccepts(journal[i].what)
Stores(from, to) ==
    \A i \in from..to : i > imported => DatabaseAccepts(journal[i].what) /\ Continues(i)

PageIsStored ==
    /\ Running /\ Verifies(cursor + 1, PageEnd) /\ Stores(cursor + 1, PageEnd)
    /\ imported' = IF PageEnd > imported THEN PageEnd ELSE imported
    /\ cursor' = PageEnd

AfterFetch ==
    CASE op.name \in {"begin", "force"} -> "begin"
      [] op.name = "complete" -> "resume"
      [] OTHER -> "idle"

VerifierFetches ==
    /\ step = "fetch"
    /\ PageIsStored
    /\ IF PageEnd - cursor = PageSize THEN UNCHANGED <<op, step>>
       ELSE step' = AfterFetch /\ op' = IF AfterFetch = "idle" THEN Idle ELSE op
    /\ UNCHANGED <<bridgeVars, requestVars, opened, trial, queue, command, cycleVars, recovered>>

(* The bridge does not answer, or a page is refused. *)
FetchFails ==
    /\ step \in {"fetch", "sign", "peek"}
    /\ \/ ~Running
       \/ step = "fetch" /\ ~(Verifies(cursor + 1, PageEnd) /\ Stores(cursor + 1, PageEnd))
    /\ Fails
    /\ UNCHANGED <<bridgeVars, requestVars, databaseVars, cycleVars, recovered>>

(* start_controlled on the journal it has read: more than one receipt is a *)
(* collision; with none a check of the command comes first; the trial is   *)
(* requested before the control is.                                        *)
Read == SubSeq(journal, 1, cursor)
Evidence(events) ==
    LET receipt == FirstOf(Receipts(events, scenario))
    IN  IF receipt = 0 THEN NoFragment ELSE Fragment(events, scenario, receipt)
HasFragment == Evidence(Read) # NoFragment

(* A trial that is new needs a scope whose newest cycle succeeded. *)
MayOpen == opened \/ lastOk
Opens ==
    /\ opened' = TRUE /\ imported' = imported /\ trial' = trial
    /\ UNCHANGED <<bridgeVars, cycleVars, recovered>>

BeginRefuses ==
    /\ step = "begin"
    /\ \/ Cardinality(Receipts(Read, scenario)) > 1 /\ Fails
       \/ Receipts(Read, scenario) = {} /\ op.name = "begin" /\ Ends("preflight")
       \/ /\ Cardinality(Receipts(Read, scenario)) = 1 \/ (Receipts(Read, scenario) = {} /\ op.name = "force")
          /\ ~MayOpen /\ Fails
    /\ UNCHANGED <<bridgeVars, requestVars, databaseVars, cycleVars, recovered>>

(* Mutant: a control whose receipt is known is asked for again. *)
BeginRepeats ==
    /\ step = "begin" /\ Cardinality(Receipts(Read, scenario)) = 1 /\ MayOpen
    /\ Opens
    /\ step' = "trigger"
    /\ UNCHANGED <<requestVars, queue, op, cursor, command>>

(* Mutant: a control whose receipt is known is a collision. *)
BeginNeverResumes ==
    /\ step = "begin" /\ Cardinality(Receipts(Read, scenario)) = 1 /\ MayOpen
    /\ Opens
    /\ Fails
    /\ UNCHANGED requestVars

BeginResumes ==
    /\ step = "begin" /\ Cardinality(Receipts(Read, scenario)) = 1 /\ MayOpen
    /\ Opens
    /\ Ends(IF HasFragment THEN "recover" ELSE AfterStart)
    /\ UNCHANGED requestVars

(* Mutant: the trial is requested when the control has been applied. *)
BeginOpensLater ==
    /\ step = "begin" /\ Receipts(Read, scenario) = {} /\ op.name = "force" /\ MayOpen
    /\ step' = "trigger"
    /\ UNCHANGED <<bridgeVars, databaseVars, cycleVars, recovered, requestVars, queue, op, cursor,
                   command>>

BeginOpens ==
    /\ step = "begin" /\ Receipts(Read, scenario) = {} /\ op.name = "force" /\ MayOpen
    /\ Opens
    /\ step' = "trigger"
    /\ UNCHANGED <<requestVars, queue, op, cursor, command>>

VerifierTriggers ==
    /\ step = "trigger"
    /\ IF Running
       THEN posted' = posted + 1 /\ step' = "wait" /\ UNCHANGED <<op, cursor, command, queue>>
       ELSE Fails /\ posted' = posted
    /\ UNCHANGED <<bridgeVars, late, databaseVars, cycleVars, recovered>>

(* The verifier gives up; the request is still on its way. *)
TriggerTimesOut ==
    /\ step = "wait" /\ Fault("timeout")
    /\ late' = late + 1 /\ posted' = posted
    /\ Fails
    /\ UNCHANGED <<scenario, journal, boot, gen, session, aborted, connected, health, refreshing,
                   pending, control, stopping, databaseVars, cycleVars, recovered>>

(* complete_controlled: nothing is stored before the receipt is seen. *)
CompletePeeks ==
    /\ step = "peek" /\ Running
    /\ IF Verifies(1, Len(journal)) /\ Cardinality(Receipts(journal, scenario)) = 1
       THEN step' = "fetch" /\ UNCHANGED <<op, cursor, command, queue>>
       ELSE Fails
    /\ UNCHANGED <<bridgeVars, requestVars, databaseVars, cycleVars, recovered>>

CompleteResumes ==
    /\ step = "resume"
    /\ IF Cardinality(Receipts(Read, scenario)) = 1 /\ MayOpen
       THEN Opens /\ step' = "collect" /\ UNCHANGED <<op, cursor, command, queue>>
       ELSE Fails /\ UNCHANGED <<bridgeVars, databaseVars, cycleVars, recovered>>
    /\ UNCHANGED requestVars

(* collect_controlled polls for the rest of the evidence, and submits it. *)
CollectPolls ==
    /\ step = "collect" /\ PageEnd > cursor
    /\ PageIsStored
    /\ UNCHANGED <<bridgeVars, requestVars, opened, trial, queue, op, step, command, cycleVars,
                   recovered>>

CollectFails ==
    /\ step = "collect"
    /\ \/ ~HasFragment /\ (cursor = Len(journal) \/ ~Running)
       \/ Running /\ ~(Verifies(cursor + 1, PageEnd) /\ Stores(cursor + 1, PageEnd))
    /\ Fails
    /\ UNCHANGED <<bridgeVars, requestVars, databaseVars, cycleVars, recovered>>

(* complete_t4_observation_scenario_trial and the trigger on its table: a  *)
(* recorded trial is returned; otherwise the evidence is judged anew.      *)
Passes(f, l) ==
    /\ l <= imported /\ l - f < MaxFragment
    /\ recovered
    /\ scenario \in Faults => failed
    /\ Proven(journal, scenario, f, l)

CollectSubmits ==
    /\ step = "collect" /\ HasFragment
    /\ LET fragment == Evidence(Read)
       IN  IF trial # NoFragment \/ Passes(fragment[1], fragment[2])
           THEN /\ trial' = IF trial = NoFragment THEN fragment ELSE trial
                /\ Ends("done")
           ELSE Fails /\ trial' = trial
    /\ UNCHANGED <<bridgeVars, requestVars, imported, opened, cycleVars, recovered>>

(* Its requests to the bridge outlive it; those of its callers do not. *)
VerifierCrashes ==
    /\ Fault("verifier")
    /\ queue' = {} /\ op' = Idle /\ step' = "idle" /\ cursor' = 0
    /\ late' = IF step = "wait" THEN late + 1 ELSE late
    /\ command' = IF command \in Waiting THEN "idle" ELSE command
    /\ UNCHANGED <<scenario, journal, boot, gen, session, aborted, connected, health, refreshing,
                   pending, control, stopping, posted, databaseVars, cycleVars, recovered>>

-----------------------------------------------------------------------------
(* The bridge answers a control request: one that nobody waits for is      *)
(* answered before the one the verifier waits for.                         *)

(* Mutant: every answer is taken for the one that is waited for. *)
AnsweredInAnyOrder(next) == posted' = posted - 1 /\ late' = late /\ Ends(next)

Answered(next) ==
    /\ posted' = posted - 1
    /\ IF late > 0
       THEN late' = late - 1 /\ UNCHANGED <<verifierVars, command>>
       ELSE late' = late /\ Ends(next)

BridgeTakesRequest ==
    /\ posted > 0
    /\ ControlIsRequested
    /\ UNCHANGED trialVars

BridgeApplies ==
    /\ ControlIsApplied
    /\ Answered(AfterStart)
    /\ UNCHANGED <<databaseVars, cycleVars, recovered>>

BridgeRefuses ==
    /\ posted > 0 /\ Running /\ control = None /\ pending # None
    /\ Answered("idle")
    /\ UNCHANGED <<bridgeVars, databaseVars, cycleVars, recovered>>

(* Requests die with the process. *)
BridgeGoes ==
    /\ Exit \/ Crash
    /\ posted' = 0 /\ late' = 0
    /\ IF step = "wait" THEN Fails ELSE UNCHANGED <<verifierVars, command>>
    /\ UNCHANGED <<databaseVars, cycleVars, recovered>>

BridgeMoves ==
    /\ SessionStep \/ ControlArms \/ StopIsRecorded \/ Boot
    /\ UNCHANGED trialVars

-----------------------------------------------------------------------------
(* The event that ends the evidence is the same from the moment it is in   *)
(* the journal: what happens is before it or after it.                     *)
HasEnd == Evidence(journal) # NoFragment
StartedNow == IF ~opened THEN "early" ELSE IF HasEnd THEN "after" ELSE "before"

(* The operator's command: begin, a check, begin again, a cycle that meets *)
(* the fault, a live batch, complete.                                      *)

Call(name) == queue' = queue \union {Called(name)} /\ UNCHANGED <<op, step, cursor>>

CommandStarts ==
    /\ command = "idle" /\ trial = NoFragment
    /\ command' = "begin" /\ Call("begin")
    /\ UNCHANGED <<bridgeVars, requestVars, databaseVars, cycleVars, recovered>>

(* before_trigger: a fault needs a due slot. *)
CommandChecks ==
    /\ command = "preflight"
    /\ IF scenario \in Faults /\ ~due
       THEN command' = "idle" /\ UNCHANGED verifierVars
       ELSE command' = "force" /\ Call("force")
    /\ UNCHANGED <<bridgeVars, requestVars, databaseVars, cycleVars, recovered>>

(* exercise: the command runs a cycle of its own, if one is due. *)
CommandExercises ==
    /\ command = "exercise"
    /\ IF cycle = "idle" /\ due
       THEN /\ command' = "cycle" /\ cycle' = "read"
            /\ started' = StartedNow
       ELSE command' = "idle" /\ UNCHANGED <<cycle, started>>
    /\ UNCHANGED <<bridgeVars, requestVars, databaseVars, verifierVars, due, lastOk, failed,
                   recovered>>

(* recovery: a live batch of the scope is stored. *)
CommandRecovers ==
    /\ command = "recover" /\ NothingPending /\ connected /\ health = "ready"
    /\ recovered' = (recovered \/ HasEnd)
    /\ command' = "complete" /\ Call("complete")
    /\ UNCHANGED <<bridgeVars, requestVars, databaseVars, cycleVars>>

RecoveryTimesOut ==
    /\ command = "recover" /\ ~(connected /\ health = "ready")
    /\ command' = "idle"
    /\ UNCHANGED <<bridgeVars, requestVars, databaseVars, verifierVars, cycleVars, recovered>>

(* The command's request times out; the verifier will not know. *)
CommandGivesUp ==
    /\ command \in Waiting /\ Fault("command")
    /\ command' = "idle"
    /\ queue' = {Abandoned(call) : call \in queue}
    /\ op' = Abandoned(op)
    /\ UNCHANGED <<scenario, journal, boot, gen, session, aborted, connected, health, refreshing,
                   pending, control, stopping, requestVars, databaseVars, step, cursor, cycleVars,
                   recovered>>

-----------------------------------------------------------------------------
(* The campaign's cycles of the scope (run_cycle). *)

(* Cycles that no trial can use any more are not followed. *)
SlotBecomesDue ==
    /\ ~due /\ trial = NoFragment /\ (opened => scenario \in Faults)
    /\ due' = TRUE
    /\ UNCHANGED <<bridgeVars, requestVars, databaseVars, verifierVars, command, cycle, started,
                   lastOk, failed, recovered>>

CycleStarts ==
    /\ cycle = "idle" /\ due
    /\ cycle' = "read" /\ started' = StartedNow
    /\ UNCHANGED <<bridgeVars, requestVars, databaseVars, verifierVars, command, due, lastOk,
                   failed, recovered>>

CycleReads ==
    /\ cycle = "read"
    /\ \/ (ReadConsumes \/ ReadFindsNoData) /\ cycle' = "failed"
       \/ /\ ~Running \/ NothingPending
          /\ cycle' = IF connected /\ health = "ready" THEN "batch"
                      ELSE IF Running /\ health = "coded" THEN "failed" ELSE "other"
          /\ UNCHANGED bridgeVars
    /\ UNCHANGED <<requestVars, databaseVars, verifierVars, command, started, due, lastOk,
                   failed, recovered>>

(* One transaction records the cycle, and its batch. *)
CycleRecords ==
    /\ cycle \in {"batch", "failed", "other"}
    /\ cycle' = "idle" /\ started' = "early" /\ due' = FALSE
    /\ lastOk' = (cycle = "batch")
    /\ recovered' = (recovered \/ (cycle = "batch" /\ HasEnd))
    /\ failed' = IF cycle = "failed" /\ started # "early" THEN started = "before" /\ HasEnd
                 ELSE failed
    /\ command' = IF command # "cycle" THEN command
                  ELSE IF cycle = "failed" THEN "recover" ELSE "idle"
    /\ UNCHANGED <<bridgeVars, requestVars, databaseVars, verifierVars>>

(* The process that runs the cycle dies: the slot stays due. *)
CycleIsLost ==
    /\ cycle # "idle" /\ Fault("cycle")
    /\ cycle' = "idle" /\ started' = "early"
    /\ command' = IF command = "cycle" THEN "idle" ELSE command
    /\ UNCHANGED <<scenario, journal, boot, gen, session, aborted, connected, health, refreshing,
                   pending, control, stopping, requestVars, databaseVars, verifierVars, due,
                   lastOk, failed, recovered>>

(* Another reader of the scope, the monitoring or the recovery of a command, *)
(* meets the fault.                                                          *)
OtherReads ==
    /\ Fault("reader")
    /\ Running /\ pending \in Faults /\ control = None
    /\ pending' = None
    /\ gen' = gen /\ Record(Control(DetectedBy[scenario], scenario, "consumed"))
    /\ UNCHANGED <<scenario, boot, session, aborted, connected, health, refreshing, control,
                   stopping, trialVars>>

-----------------------------------------------------------------------------
Bridge == BridgeTakesRequest \/ BridgeApplies \/ BridgeRefuses \/ BridgeGoes \/ BridgeMoves

Verifier ==
    \/ VerifierTakes \/ CheckpointIsSigned \/ VerifierFetches \/ FetchFails \/ BeginRefuses
    \/ BeginResumes \/ BeginOpens \/ VerifierTriggers \/ TriggerTimesOut \/ CompletePeeks
    \/ CompleteResumes \/ CollectPolls \/ CollectFails \/ CollectSubmits \/ VerifierCrashes

Command ==
    \/ CommandStarts \/ CommandChecks \/ CommandExercises \/ CommandRecovers
    \/ RecoveryTimesOut \/ CommandGivesUp

Campaign ==
    \/ SlotBecomesDue \/ CycleStarts \/ CycleReads \/ CycleRecords \/ CycleIsLost \/ OtherReads
    \/ CheckpointIsCalled

Next == Bridge \/ Verifier \/ Command \/ Campaign

Spec == Init /\ [][Next]_vars

(* The bridge's service is started again, the scheduler gives every slot,  *)
(* T4 lets a session up, and the operator runs the command until it says   *)
(* that the trial is recorded.                                             *)
Progress ==
    /\ WF_vars(BridgeTakesRequest) /\ WF_vars(BridgeApplies) /\ WF_vars(BridgeRefuses)
    /\ WF_vars(ControlArms /\ UNCHANGED trialVars)
    /\ WF_vars(StopIsRecorded /\ UNCHANGED trialVars) /\ WF_vars(Exit /\ BridgeGoes)
    /\ WF_vars(Boot /\ UNCHANGED trialVars)
    /\ WF_vars(Connect /\ UNCHANGED trialVars)
    /\ WF_vars(Subscribe /\ UNCHANGED trialVars)
    /\ WF_vars(aborted /\ SessionFails /\ UNCHANGED trialVars)
    /\ WF_vars(SessionClears /\ UNCHANGED trialVars)
    /\ WF_vars(RefreshChecks /\ UNCHANGED trialVars)
    /\ WF_vars(RefreshRecordsReady /\ UNCHANGED trialVars)
    /\ WF_vars(VerifierTakes) /\ WF_vars(CheckpointIsSigned) /\ WF_vars(VerifierFetches)
    /\ WF_vars(FetchFails) /\ WF_vars(BeginRefuses \/ BeginResumes \/ BeginOpens)
    /\ WF_vars(VerifierTriggers) /\ WF_vars(CompletePeeks) /\ WF_vars(CompleteResumes)
    /\ WF_vars(CollectPolls) /\ WF_vars(CollectFails) /\ WF_vars(CollectSubmits)
    /\ WF_vars(CommandStarts) /\ WF_vars(CommandChecks) /\ WF_vars(CommandExercises)
    /\ WF_vars(CommandRecovers) /\ WF_vars(RecoveryTimesOut)
    /\ WF_vars(SlotBecomesDue) /\ WF_vars(CycleStarts) /\ WF_vars(CycleReads)
    /\ WF_vars(CycleRecords)

FairSpec == Spec /\ Progress

-----------------------------------------------------------------------------
(* No control reaches the bridge of a live campaign before the database    *)
(* has the request of its trial: the verifier opens the trial and only     *)
(* then posts, and complete never posts.                                   *)
ControlHasOpenTrial ==
    posted > 0 \/ control # None \/ pending # None
        \/ At(journal, 1, Len(journal), "control_requested") # {} => opened

(* A command that is run again does not injure the bridge again: each      *)
(* control beyond the first has a failure of its own behind it.            *)
Checkpoints == At(journal, 1, Len(journal), "campaign_checkpoint")
ControlIsNotRepeated ==
    Cardinality(Receipts(journal, scenario)) <= 1 + faults - Cardinality(Checkpoints)

(* What a recorded trial says happened to the bridge, did happen between   *)
(* its first and its last event, and nothing of it is only in the bridge's *)
(* journal: the control was applied, once in the life of that process, the *)
(* process of the last event or the one before it, and the session or the  *)
(* process was really replaced.                                            *)
TrialReceipts == ControlAt(journal, trial[1], trial[2], "control_applied", scenario, "applied")

TrialIsProven ==
    trial # NoFragment =>
        LET f == trial[1]
            l == trial[2]
        IN  /\ opened /\ f < l /\ l <= imported
            /\ \E a \in TrialReceipts :
                  /\ \A i \in TrialReceipts : journal[i].boot = journal[a].boot => i = a
                  /\ CASE scenario = "reconnect" ->
                             /\ \A i \in f..l : journal[i].boot = journal[a].boot
                             /\ \E d, c \in a..l :
                                   /\ d < c /\ journal[c].gen > journal[a].gen
                                   /\ journal[d].what.type = "session_disconnected"
                                   /\ journal[c].what.type = "session_connecting"
                       [] scenario = "bridge_restart" -> journal[l].boot = journal[a].boot + 1
                       [] OTHER -> journal[l].boot = journal[a].boot

(* A trial is about one application of its control: begin and complete     *)
(* both refuse a request whose receipt is in the journal twice.            *)
TrialHasOneReceipt == trial # NoFragment => Cardinality(TrialReceipts) = 1

(* What can keep the evidence of an applied control from being recorded:   *)
(* the import of the journal stops at an event whose time went back; the   *)
(* control was applied twice; what it armed is gone without the events     *)
(* that show it; the database refuses the stretch for good; the newest     *)
(* failure of the scope is not the injected one.                           *)
ImportIsStuck == \E i \in imported + 1..Len(journal) : ~Continues(i)
ControlIsLost == ~HasEnd /\ pending = None /\ control = None /\ health = "ready"
StretchIsRefused ==
    HasEnd /\ LET e == Evidence(journal)
              IN  ~Proven(journal, scenario, e[1], e[2]) \/ e[2] - e[1] >= MaxFragment
(* What the verifier takes for evidence the database takes for evidence:   *)
(* the two rules are written twice, in Python and in SQL.  They differ for *)
(* a reconnection whose request another process has consumed, and for that *)
(* one must have crashed.                                                  *)
EvidenceIsAgreed ==
    HasEnd =>
        LET e == Evidence(journal)
        IN  \/ Proven(journal, scenario, e[1], e[2])
            \/ /\ scenario = "reconnect" /\ "crash" \in Kinds
               /\ journal[e[1]].boot # journal[e[2]].boot

FailureIsShadowed == scenario \in Faults /\ HasEnd /\ ~failed /\ cycle = "idle"

(* An applied control becomes a recorded trial in the end, whatever is run *)
(* again, unless one of these happened to it.                              *)
ControlIsSettled ==
    Receipts(journal, scenario) # {} ~>
        \/ trial # NoFragment \/ ImportIsStuck \/ ControlIsLost \/ StretchIsRefused
        \/ FailureIsShadowed \/ Cardinality(Receipts(journal, scenario)) > 1
=============================================================================
