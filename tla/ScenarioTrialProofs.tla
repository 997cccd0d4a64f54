------------------------- MODULE ScenarioTrialProofs -------------------------
(***************************************************************************)
(* For any scenarios, failures, page size and limits: no control reaches   *)
(* the bridge before the database has the request of its trial; every      *)
(* event of the bridge's journal is one that the verifier and the database *)
(* accept; the variables have their types; each control that is applied    *)
(* beyond the first has a failure of its own behind it; what a recorded    *)
(* trial says happened to the bridge did happen; and the verifier and the  *)
(* database agree on what the evidence of a control is.                    *)
(***************************************************************************)
EXTENDS ScenarioTrial, SequenceTheorems, FiniteSetTheorems, WellFoundedInduction, TLAPS

-----------------------------------------------------------------------------
(* The inductive invariant. *)

Entry == [what : Emitted, boot : Nat, gen : Nat, back : BOOLEAN]

AskedIn(events) == At(events, 1, Len(events), "control_requested") # {}

(* Where a control can be, from the verifier that is about to post it to   *)
(* what is left of it in the bridge.                                       *)
ControlExists ==
    step = "trigger" \/ posted > 0 \/ control # None \/ pending # None \/ AskedIn(journal)

TrialInvariant ==
    /\ scenario \in Controlled /\ journal \in Seq(Entry) /\ boot \in Nat /\ gen \in Nat
    /\ pending \in {None, scenario} /\ posted \in Int
    /\ ControlExists => opened

-----------------------------------------------------------------------------
(* The events of the bridge. *)

(* What is appended is an event of the bridge, and asks for a control only *)
(* if its type says so.                                                    *)
LEMMA Appending ==
    ASSUME NEW events \in Seq(Entry), NEW what \in Emitted, NEW b \in Nat, NEW g \in Nat,
           NEW back \in BOOLEAN
    PROVE  /\ Append(events, Event(what, b, g, back)) \in Seq(Entry)
           /\ AskedIn(Append(events, Event(what, b, g, back)))
                 => AskedIn(events) \/ what.type = "control_requested"
<1> DEFINE e == Event(what, b, g, back)
           longer == Append(events, e)
<1>1. e \in Entry /\ e.what = what
    BY DEF Event, Entry
<1>2. longer \in Seq(Entry) /\ Len(longer) = Len(events) + 1 /\ longer[Len(events) + 1] = e
      /\ \A i \in 1..Len(events) : longer[i] = events[i]
    BY <1>1
<1>3. ASSUME NEW i \in 1..Len(longer), longer[i].what.type = "control_requested"
      PROVE  AskedIn(events) \/ what.type = "control_requested"
  <2>1. CASE i \in 1..Len(events)
      BY <1>2, <1>3, <2>1 DEF AskedIn, At
  <2>2. CASE i = Len(events) + 1
      BY <1>1, <1>2, <1>3, <2>2
  <2> QED
      BY <1>2, <2>1, <2>2
<1> QED
    BY <1>2, <1>3 DEF AskedIn, At

(* The shapes of the events that the bridge's actions append.  Two types   *)
(* are counted: the receipt of a control and the checkpoint.               *)
Counted == {"control_applied", "campaign_checkpoint"}
Ordinary(e) == e \in Emitted /\ e.type \notin Counted \union {"control_requested"}

LEMMA EmittedShapes ==
    /\ \A t \in {"bridge_started", "session_connecting", "session_authenticated",
                 "session_ready", "session_disconnected", "cache_cleared",
                 "bridge_stopping"} : Ordinary(Plain(t))
    /\ \A s \in Faults :
          Ordinary(Scoped(DetectedBy[s])) /\ Ordinary(Control(DetectedBy[s], s, "consumed"))
    /\ \A s \in Controlled :
          /\ Control("control_requested", s, "requested") \in Emitted
          /\ Control("control_requested", s, "requested").type \notin Counted
          /\ Control("control_applied", s, "applied") \in Emitted
          /\ Control("control_applied", s, "applied").type # "control_requested"
    /\ \A s \in {"reconnect", "missing_data"} : Ordinary(Linked("cache_cleared", s))
    /\ Ordinary(Control("session_ready", "reconnect", "consumed"))
    /\ Ordinary(Control("bridge_stopping", "bridge_restart", "consumed"))
    /\ Checkpoint \in Emitted /\ Checkpoint.type # "control_requested"
<1>1. \A t : Plain(t).type = t /\ Scoped(t).type = t /\ \A s : Linked(t, s).type = t
    BY DEF Plain, Scoped, Linked
<1>2. \A t, s, st : Control(t, s, st).type = t
    BY DEF Plain, Scoped, Linked, Control
<1>3. Checkpoint.type = "campaign_checkpoint"
    BY DEF Checkpoint, Plain
<1>4. \A s \in Faults : /\ DetectedBy[s] \in Detections
                        /\ DetectedBy[s] \notin Counted \union {"control_requested"}
    BY DEF Faults, DetectedBy, Detections, Counted
<1> QED
    BY <1>1, <1>2, <1>3, <1>4 DEF Emitted, Ordinary, Counted

(* What the bridge appends, the verifier and the database accept.          *)
LEMMA EmittedIsAccepted ==
    ASSUME NEW e \in Emitted
    PROVE  VerifierAccepts(e) /\ DatabaseAccepts(e)
<1>1. ASSUME NEW t \in {"bridge_started", "session_connecting", "session_authenticated",
                      "session_ready", "session_disconnected", "cache_cleared",
                      "bridge_stopping", "outbound_rejected"}, e = Plain(t)
      PROVE  VerifierAccepts(e) /\ DatabaseAccepts(e)
  <2>1. t # "campaign_checkpoint" /\ t # "control_requested" /\ t # "control_applied"
        /\ t # "contract_roll_observed" /\ t \notin Detections
        /\ \A s \in Faults : t # DetectedBy[s]
      BY DEF Detections, Faults, DetectedBy
  <2>2. /\ e.type = t /\ e.scenario = None /\ e.action = None /\ e.step = None
        /\ ~e.scoped /\ ~e.request /\ e.roll = None
      BY <1>1 DEF Plain
  <2>3. None \notin Controlled /\ None # "checkpoint" /\ None # "roll_transition"
      BY DEF None, Controlled, ActionOf
  <2>4. VerifierAccepts(e)
      BY <2>1, <2>2, <2>3 DEF VerifierAccepts, VerifierAcceptsLink
  <2>5. DatabaseAccepts(e)
      BY <2>1, <2>2, <2>3 DEF DatabaseAccepts, Detections, Faults, DetectedBy
  <2> QED
      BY <2>4, <2>5
<1>2. ASSUME NEW t \in Detections, e = Scoped(t)
      PROVE  VerifierAccepts(e) /\ DatabaseAccepts(e)
  <2>1. t # "campaign_checkpoint" /\ t # "control_requested" /\ t # "control_applied"
        /\ t # "contract_roll_observed"
      BY DEF Detections, Faults, DetectedBy
  <2>2. /\ e.type = t /\ e.scenario = None /\ e.action = None /\ e.step = None
        /\ e.scoped /\ ~e.request /\ e.roll = None
      BY <1>2 DEF Plain, Scoped
  <2>3. None \notin Controlled /\ None # "checkpoint" /\ None # "roll_transition"
      BY DEF None, Controlled, ActionOf
  <2>4. VerifierAccepts(e)
      BY <2>1, <2>2, <2>3 DEF VerifierAccepts, VerifierAcceptsLink
  <2>5. DatabaseAccepts(e)
      BY <2>1, <2>2, <2>3 DEF DatabaseAccepts
  <2> QED
      BY <2>4, <2>5
<1>3. ASSUME NEW s \in Controlled, e = Control("control_requested", s, "requested")
      PROVE  VerifierAccepts(e) /\ DatabaseAccepts(e)
    BY <1>3 DEF Plain, Scoped, Linked, Control, VerifierAccepts, VerifierAcceptsLink,
                DatabaseAccepts, Controlled, ActionOf, Faults, DetectedBy, Detections, None,
                CorrelatedTypes
<1>4. ASSUME NEW s \in Controlled, e = Control("control_applied", s, "applied")
      PROVE  VerifierAccepts(e) /\ DatabaseAccepts(e)
    BY <1>4 DEF Plain, Scoped, Linked, Control, VerifierAccepts, VerifierAcceptsLink,
                DatabaseAccepts, Controlled, ActionOf, Faults, DetectedBy, Detections, None,
                CorrelatedTypes
<1>5. ASSUME NEW s \in {"reconnect", "missing_data"}, e = Linked("cache_cleared", s)
      PROVE  VerifierAccepts(e) /\ DatabaseAccepts(e)
    BY <1>5 DEF Plain, Scoped, Linked, VerifierAccepts, VerifierAcceptsLink,
                DatabaseAccepts, Controlled, ActionOf, Faults, DetectedBy, Detections, None,
                CorrelatedTypes
<1>6. ASSUME NEW s \in Faults, e = Control(DetectedBy[s], s, "consumed")
      PROVE  VerifierAccepts(e) /\ DatabaseAccepts(e)
    BY <1>6 DEF Plain, Scoped, Linked, Control, VerifierAccepts, VerifierAcceptsLink,
                DatabaseAccepts, Controlled, ActionOf, Faults, DetectedBy, Detections, None,
                CorrelatedTypes
<1>7. CASE e = Control("session_ready", "reconnect", "consumed")
    BY <1>7 DEF Plain, Scoped, Linked, Control, VerifierAccepts, VerifierAcceptsLink,
                DatabaseAccepts, Controlled, ActionOf, Faults, DetectedBy, Detections, None,
                CorrelatedTypes
<1>8. CASE e = Control("bridge_stopping", "bridge_restart", "consumed")
    BY <1>8 DEF Plain, Scoped, Linked, Control, VerifierAccepts, VerifierAcceptsLink,
                DatabaseAccepts, Controlled, ActionOf, Faults, DetectedBy, Detections, None,
                CorrelatedTypes
<1>9. CASE e = Roll
    BY <1>9 DEF Plain, Scoped, Roll, VerifierAccepts, VerifierAcceptsLink,
                DatabaseAccepts, Controlled, ActionOf, Faults, DetectedBy, Detections, None
<1>10. CASE e = Checkpoint
    BY <1>10 DEF Plain, Checkpoint, VerifierAccepts, VerifierAcceptsLink,
                DatabaseAccepts, Controlled, ActionOf, Faults, DetectedBy, Detections, None
<1> QED
    BY <1>1, <1>2, <1>3, <1>4, <1>5, <1>6, <1>7, <1>8, <1>9, <1>10 DEF Emitted

-----------------------------------------------------------------------------
(* The steps. *)

(* The bridge appends nothing, or one of its events: a request only of     *)
(* what exists, a receipt by the thread that has applied the control, a    *)
(* checkpoint when it is asked to sign one.                                *)
Marks ==
    \/ control = "armed" /\ control' = None /\ session' = session
    \/ step = "sign" /\ step' = "fetch"
Adds(asks, marks) ==
    \/ journal' = journal
    \/ \E e \in Emitted, b, g \in Nat, back \in BOOLEAN :
          /\ journal' = Append(journal, Event(e, b, g, back))
          /\ e.type = "control_requested" => asks
          /\ e.type \in Counted => marks

LEMMA AddedIsAsked ==
    ASSUME TrialInvariant, NEW asks, NEW marks, Adds(asks, marks)
    PROVE  journal' \in Seq(Entry) /\ (AskedIn(journal') => AskedIn(journal) \/ asks)
<1>1. CASE journal' = journal
    BY <1>1 DEF TrialInvariant
<1>2. ASSUME NEW e \in Emitted, NEW b \in Nat, NEW g \in Nat, NEW back \in BOOLEAN,
             journal' = Append(journal, Event(e, b, g, back)),
             e.type = "control_requested" => asks
      PROVE  journal' \in Seq(Entry) /\ (AskedIn(journal') => AskedIn(journal) \/ asks)
  <2>1. journal \in Seq(Entry)
      BY DEF TrialInvariant
  <2> QED
      BY <1>2, <2>1, Appending
<1> QED
    BY <1>1, <1>2 DEF Adds

(* A step of the bridge alone: it makes a control of nothing but a posted  *)
(* request, and leaves what the database has.                              *)
BridgeKeeps ==
    /\ scenario' = scenario /\ boot' \in Nat /\ gen' \in Nat /\ Adds(ControlExists, Marks)
    /\ pending' \in {None, scenario} /\ (pending' # None => ControlExists)
    /\ control' # None => ControlExists

RequestsKeep ==
    /\ posted' \in Int /\ (posted' > 0 => ControlExists)
    /\ step' = "trigger" => ControlExists
    /\ opened' = opened

LEMMA KeepsInvariant ==
    ASSUME TrialInvariant, BridgeKeeps, RequestsKeep
    PROVE  TrialInvariant'
<1>1. journal' \in Seq(Entry) /\ (AskedIn(journal') => AskedIn(journal) \/ ControlExists)
    BY AddedIsAsked DEF BridgeKeeps
<1>2. ControlExists' => ControlExists
    BY <1>1 DEF ControlExists, BridgeKeeps, RequestsKeep
<1> QED
    BY <1>1, <1>2 DEF TrialInvariant, BridgeKeeps, RequestsKeep

LEMMA QuietBridge ==
    ASSUME TrialInvariant, scenario' = scenario, journal' = journal, boot' = boot, gen' = gen,
           pending' = pending, control' = control
    PROVE  BridgeKeeps
BY DEF TrialInvariant, BridgeKeeps, Adds, ControlExists

LEMMA BridgeRecords ==
    ASSUME TrialInvariant, NEW e \in Emitted, Record(e), scenario' = scenario, boot' = boot,
           gen' \in Nat, e.type = "control_requested" => ControlExists,
           e.type \in Counted => Marks,
           pending' = pending \/ pending' = None, control' = control \/ control' = None
    PROVE  BridgeKeeps
<1>1. Adds(ControlExists, Marks)
    BY DEF Record, Adds, TrialInvariant
<1> QED
    BY <1>1 DEF TrialInvariant, BridgeKeeps, ControlExists

(* The session thread and the process.                                     *)
LEMMA SessionKeeps ==
    ASSUME TrialInvariant, SessionStep
    PROVE  BridgeKeeps
<1>1. CASE Connect
  <2>1. gen' \in Nat
      BY <1>1 DEF Connect, TrialInvariant
  <2> QED
      BY <1>1, <2>1, BridgeRecords, EmittedShapes DEF Ordinary, Connect
<1>2. CASE Subscribe
    BY <1>2, BridgeRecords, EmittedShapes DEF Ordinary, Subscribe, TrialInvariant
<1>3. CASE SessionFails
    BY <1>3, BridgeRecords, EmittedShapes DEF Ordinary, SessionFails, TrialInvariant
<1>4. CASE SessionClears
    BY <1>4, BridgeRecords, EmittedShapes DEF Ordinary, SessionClears, TrialInvariant
<1>5. CASE RefreshChecks
    BY <1>5, QuietBridge DEF RefreshChecks
<1>6. CASE RefreshRecordsReady
    BY <1>6, BridgeRecords, EmittedShapes DEF Ordinary, RefreshRecordsReady, TrialInvariant
<1> QED
    BY <1>1, <1>2, <1>3, <1>4, <1>5, <1>6 DEF SessionStep

LEMMA StopKeeps ==
    ASSUME TrialInvariant, StopIsRecorded
    PROVE  BridgeKeeps
BY BridgeRecords, EmittedShapes DEF Ordinary, StopIsRecorded, TrialInvariant

LEMMA ExitKeeps ==
    ASSUME TrialInvariant, Exit \/ Crash
    PROVE  BridgeKeeps
<1>1. scenario' = scenario /\ boot' = boot /\ gen' = 0 /\ pending' = None /\ control' = None
    BY DEF Exit, Crash, Volatile
<1>2. \/ journal' = journal
      \/ journal' = Append(journal, Event(Plain("cache_cleared"), boot, gen, FALSE))
    BY DEF Exit, Crash
<1>3. Adds(ControlExists, Marks)
    BY <1>2, EmittedShapes DEF Ordinary, Adds, TrialInvariant
<1> QED
    BY <1>1, <1>3 DEF BridgeKeeps, TrialInvariant

LEMMA BootKeeps ==
    ASSUME TrialInvariant, Boot
    PROVE  BridgeKeeps
<1>1. PICK back \in BOOLEAN :
         journal' = Append(journal, Event(Plain("bridge_started"), boot + 1, 0, back))
    BY DEF Boot
<1>2. boot + 1 \in Nat /\ Ordinary(Plain("bridge_started"))
    BY EmittedShapes DEF TrialInvariant
<1>3. Adds(ControlExists, Marks)
    BY <1>1, <1>2 DEF Adds, Ordinary
<1> QED
    BY <1>2, <1>3 DEF Boot, BridgeKeeps, TrialInvariant, ControlExists

LEMMA ArmKeeps ==
    ASSUME TrialInvariant, ControlArms
    PROVE  BridgeKeeps
<1>1. scenario' = scenario /\ boot' = boot /\ gen' = gen /\ pending' = scenario
      /\ control = "requested" /\ ControlExists
    BY DEF ControlArms, ControlExists, None
<1>2. Adds(ControlExists, Marks)
  <2>1. CASE scenario \in {"reconnect", "missing_data"}
    <3>1. Record(Linked("cache_cleared", scenario))
        BY <2>1 DEF ControlArms
    <3> QED
        BY <1>1, <2>1, <3>1, EmittedShapes DEF Ordinary, Record, Adds, TrialInvariant
  <2>2. CASE scenario = "rate_limit"
    <3>1. Record(Plain("cache_cleared"))
        BY <2>2 DEF ControlArms
    <3> QED
        BY <1>1, <3>1, EmittedShapes DEF Ordinary, Record, Adds, TrialInvariant
  <2>3. CASE scenario \notin {"reconnect", "missing_data", "rate_limit"}
      BY <2>3 DEF ControlArms, Adds
  <2> QED
      BY <2>1, <2>2, <2>3
<1> QED
    BY <1>1, <1>2 DEF BridgeKeeps, TrialInvariant

LEMMA ReadKeeps ==
    ASSUME TrialInvariant, ReadConsumes \/ ReadFindsNoData
    PROVE  BridgeKeeps
<1>1. CASE ReadConsumes
  <2>1. scenario \in Faults
      BY <1>1 DEF ReadConsumes, TrialInvariant, Faults, DetectedBy, None
  <2> QED
      BY <1>1, <2>1, BridgeRecords, EmittedShapes DEF Ordinary, ReadConsumes, TrialInvariant
<1>2. CASE ReadFindsNoData
  <2>1. scenario \in Faults
      BY <1>2 DEF ReadFindsNoData, Faults, DetectedBy
  <2>2. CASE journal' = journal
      BY <1>2, <2>2, QuietBridge DEF ReadFindsNoData
  <2>3. CASE Record(Scoped(DetectedBy[scenario]))
      BY <1>2, <2>1, <2>3, BridgeRecords, EmittedShapes DEF Ordinary, ReadFindsNoData, TrialInvariant
  <2> QED
      BY <1>2, <2>2, <2>3 DEF ReadFindsNoData
<1> QED
    BY <1>1, <1>2

(* What a step of the bridge leaves to the verifier and to the database.   *)
LEMMA QuietRequests ==
    ASSUME TrialInvariant, posted' = posted, step' = step \/ step' # "trigger", opened' = opened
    PROVE  RequestsKeep
BY DEF TrialInvariant, RequestsKeep, ControlExists

LEMMA AnswerKeeps ==
    ASSUME TrialInvariant, NEW next, Answered(next), opened' = opened
    PROVE  RequestsKeep
<1>1. posted' = posted - 1 /\ (step' = step \/ step' = "idle")
    BY DEF Answered, Ends, Release, verifierVars
<1> QED
    BY <1>1 DEF TrialInvariant, RequestsKeep, ControlExists

LEMMA BridgeStep ==
    ASSUME TrialInvariant, Bridge
    PROVE  TrialInvariant' /\ BridgeKeeps
<1>1. CASE BridgeTakesRequest
  <2>1. /\ Control("control_requested", scenario, "requested") \in Emitted /\ ControlExists
        /\ Control("control_requested", scenario, "requested").type \notin Counted
      BY <1>1, EmittedShapes DEF Ordinary, BridgeTakesRequest, TrialInvariant, ControlExists
  <2>2. Adds(ControlExists, Marks)
      BY <1>1, <2>1 DEF BridgeTakesRequest, ControlIsRequested, Record, Adds, TrialInvariant
  <2>3. BridgeKeeps
      BY <1>1, <2>1, <2>2 DEF BridgeTakesRequest, ControlIsRequested, BridgeKeeps, TrialInvariant
  <2>4. RequestsKeep
      BY <1>1, QuietRequests DEF BridgeTakesRequest, trialVars, requestVars, verifierVars,
                                 databaseVars
  <2> QED
      BY <2>3, <2>4, KeepsInvariant
<1>2. CASE BridgeApplies
  <2>1. Record(Control("control_applied", scenario, "applied")) /\ control' = None
        /\ scenario' = scenario /\ boot' = boot /\ gen' = gen /\ pending' = pending
      BY <1>2 DEF BridgeApplies, ControlIsApplied
  <2>2. BridgeKeeps
      BY <1>2, <2>1, BridgeRecords, EmittedShapes DEF TrialInvariant, BridgeApplies,
                                                      ControlIsApplied, Marks
  <2>3. RequestsKeep
      BY <1>2, AnswerKeeps DEF BridgeApplies, databaseVars
  <2> QED
      BY <2>2, <2>3, KeepsInvariant
<1>3. CASE BridgeRefuses
  <2>1. BridgeKeeps
      BY <1>3, QuietBridge DEF BridgeRefuses, bridgeVars
  <2>2. RequestsKeep
      BY <1>3, AnswerKeeps DEF BridgeRefuses, databaseVars
  <2> QED
      BY <2>1, <2>2, KeepsInvariant
<1>4. CASE BridgeGoes
  <2>1. posted' = 0 /\ opened' = opened /\ (step' = step \/ step' = "idle")
      BY <1>4 DEF BridgeGoes, Fails, Ends, Release, databaseVars, verifierVars
  <2>2. RequestsKeep
      BY <2>1 DEF TrialInvariant, RequestsKeep, ControlExists
  <2>3. BridgeKeeps
      BY <1>4, ExitKeeps DEF BridgeGoes
  <2> QED
      BY <2>2, <2>3, KeepsInvariant
<1>5. CASE BridgeMoves
  <2>1. BridgeKeeps
      BY <1>5, SessionKeeps, ArmKeeps, StopKeeps, BootKeeps DEF BridgeMoves
  <2>2. RequestsKeep
      BY <1>5, QuietRequests DEF BridgeMoves, trialVars, requestVars, verifierVars, databaseVars
  <2> QED
      BY <2>1, <2>2, KeepsInvariant
<1> QED
    BY <1>1, <1>2, <1>3, <1>4, <1>5 DEF Bridge

(* The verifier posts what it has opened, and opens nothing else than the  *)
(* trial.                                                                  *)
LEMMA OpeningKeeps ==
    ASSUME TrialInvariant, Opens, posted' = posted
    PROVE  TrialInvariant' /\ BridgeKeeps
<1>1. journal' \in Seq(Entry) /\ opened' = TRUE
    BY DEF Opens, bridgeVars, TrialInvariant
<1>2. BridgeKeeps
    BY QuietBridge DEF Opens, bridgeVars
<1> QED
    BY <1>1, <1>2 DEF Opens, bridgeVars, TrialInvariant

LEMMA VerifierStep ==
    ASSUME TrialInvariant, Verifier
    PROVE  TrialInvariant' /\ BridgeKeeps
<1>1. ASSUME BridgeKeeps, posted' = posted, step' = step \/ step' # "trigger", opened' = opened
      PROVE  TrialInvariant' /\ BridgeKeeps
    BY <1>1, QuietRequests, KeepsInvariant
<1>2. CASE VerifierTakes
  <2>1. step' # "trigger"
      BY <1>2 DEF VerifierTakes
  <2> QED
      BY <1>1, <1>2, <2>1, QuietBridge DEF VerifierTakes, bridgeVars, requestVars, databaseVars
<1>3. CASE CheckpointIsSigned
  <2>1. BridgeKeeps
      BY <1>3, BridgeRecords, EmittedShapes DEF CheckpointIsSigned, TrialInvariant, Marks
  <2> QED
      BY <1>1, <1>3, <2>1 DEF CheckpointIsSigned, requestVars, databaseVars
<1>4. CASE VerifierFetches
  <2>1. step' = step \/ step' # "trigger"
      BY <1>4 DEF VerifierFetches, AfterFetch
  <2> QED
      BY <1>1, <1>4, <2>1, QuietBridge DEF VerifierFetches, bridgeVars, requestVars
<1>5. CASE FetchFails
    BY <1>1, <1>5, QuietBridge DEF FetchFails, Fails, Ends, Release, bridgeVars, requestVars,
                                   databaseVars
<1>6. CASE BeginRefuses
    BY <1>1, <1>6, QuietBridge DEF BeginRefuses, Fails, Ends, Release, bridgeVars, requestVars,
                                   databaseVars
<1>7. CASE BeginResumes
    BY <1>7, OpeningKeeps DEF BeginResumes, requestVars
<1>8. CASE BeginOpens
    BY <1>8, OpeningKeeps DEF BeginOpens, requestVars
<1>9. CASE VerifierTriggers
  <2>1. ControlExists
      BY <1>9 DEF VerifierTriggers, ControlExists
  <2>2. RequestsKeep
      BY <1>9, <2>1 DEF VerifierTriggers, Fails, Ends, Release, RequestsKeep, TrialInvariant,
                        databaseVars
  <2> QED
      BY <1>9, <2>2, QuietBridge, KeepsInvariant DEF VerifierTriggers, bridgeVars
<1>10. CASE TriggerTimesOut
    BY <1>1, <1>10, QuietBridge DEF TriggerTimesOut, Fails, Ends, Release, databaseVars
<1>11. CASE CompletePeeks
    BY <1>1, <1>11, QuietBridge DEF CompletePeeks, Fails, Ends, Release, bridgeVars, requestVars,
                                    databaseVars
<1>12. CASE CompleteResumes
  <2>1. CASE Opens
      BY <1>12, <2>1, OpeningKeeps DEF CompleteResumes, requestVars
  <2>2. CASE ~Opens
      BY <1>1, <1>12, <2>2, QuietBridge DEF CompleteResumes, Fails, Ends, Release, bridgeVars,
                                            requestVars, databaseVars
  <2> QED
      BY <2>1, <2>2
<1>13. CASE CollectPolls
    BY <1>1, <1>13, QuietBridge DEF CollectPolls, bridgeVars, requestVars
<1>14. CASE CollectFails
    BY <1>1, <1>14, QuietBridge DEF CollectFails, Fails, Ends, Release, bridgeVars, requestVars,
                                    databaseVars
<1>15. CASE CollectSubmits
    BY <1>1, <1>15, QuietBridge DEF CollectSubmits, Fails, Ends, Release, bridgeVars, requestVars
<1>16. CASE VerifierCrashes
    BY <1>1, <1>16, QuietBridge DEF VerifierCrashes, databaseVars
<1> QED
    BY <1>2, <1>3, <1>4, <1>5, <1>6, <1>7, <1>8, <1>9, <1>10, <1>11, <1>12, <1>13, <1>14, <1>15,
       <1>16 DEF Verifier

LEMMA CommandStep ==
    ASSUME TrialInvariant, Command
    PROVE  TrialInvariant' /\ BridgeKeeps
<1>1. scenario' = scenario /\ journal' = journal /\ boot' = boot /\ gen' = gen
      /\ pending' = pending /\ control' = control
    BY DEF Command, CommandStarts, CommandChecks, CommandExercises, CommandRecovers,
           RecoveryTimesOut, CommandGivesUp, bridgeVars
<1>2. posted' = posted /\ opened' = opened /\ step' = step
    BY DEF Command, CommandStarts, CommandChecks, CommandExercises, CommandRecovers,
           RecoveryTimesOut, CommandGivesUp, Call, requestVars, databaseVars, verifierVars
<1> QED
    BY <1>1, <1>2, QuietBridge, QuietRequests, KeepsInvariant

LEMMA CampaignStep ==
    ASSUME TrialInvariant, Campaign
    PROVE  TrialInvariant' /\ BridgeKeeps
<1>1. posted' = posted /\ opened' = opened /\ (step' = step \/ step' # "trigger")
    BY DEF Campaign, SlotBecomesDue, CycleStarts, CycleReads, CycleRecords, CycleIsLost,
           OtherReads, CheckpointIsCalled, requestVars, databaseVars, verifierVars, trialVars
<1>2. BridgeKeeps
  <2>1. CASE CycleReads
      BY <2>1, ReadKeeps, QuietBridge DEF CycleReads, bridgeVars
  <2>2. CASE OtherReads
    <3>1. scenario \in Faults
        BY <2>2 DEF OtherReads, TrialInvariant, Faults, DetectedBy, None
    <3> QED
        BY <2>2, <3>1, BridgeRecords, EmittedShapes DEF Ordinary, OtherReads, TrialInvariant
  <2>3. CASE SlotBecomesDue \/ CycleStarts \/ CycleRecords \/ CycleIsLost \/ CheckpointIsCalled
      BY <2>3, QuietBridge DEF SlotBecomesDue, CycleStarts, CycleRecords, CycleIsLost,
                               CheckpointIsCalled, bridgeVars
  <2> QED
      BY <2>1, <2>2, <2>3 DEF Campaign
<1> QED
    BY <1>1, <1>2, QuietRequests, KeepsInvariant

-----------------------------------------------------------------------------
LEMMA InitInvariant == Init => TrialInvariant
<1> SUFFICES ASSUME Init PROVE TrialInvariant
    OBVIOUS
<1>1. scenario \in Controlled
    BY ScenariosAssumption DEF Init, BridgeInit
<1>2. << >> \in Seq(Entry) /\ ~AskedIn(<< >>)
    BY DEF AskedIn, At
<1>3. journal = Append(<< >>, Event(Plain("bridge_started"), 1, 0, FALSE))
    BY DEF Init, BridgeInit
<1>4. journal \in Seq(Entry) /\ ~AskedIn(journal)
  <2>1. Ordinary(Plain("bridge_started"))
      BY EmittedShapes
  <2> QED
      BY <1>2, <1>3, <2>1, Appending DEF Ordinary
<1>5. boot = 1 /\ gen = 0 /\ pending = None /\ control = None
    BY DEF Init, BridgeInit
<1>6. posted = 0 /\ step = "idle"
    BY DEF Init, ScenarioInit
<1> QED
    BY <1>1, <1>4, <1>5, <1>6 DEF TrialInvariant, ControlExists

(* The invariant holds throughout.                                         *)
THEOREM TrialInvariantHolds == Spec => []TrialInvariant
<1>1. TrialInvariant /\ [Next]_vars => TrialInvariant'
  <2> SUFFICES ASSUME TrialInvariant, [Next]_vars PROVE TrialInvariant'
      OBVIOUS
  <2>1. CASE Next
      BY <2>1, BridgeStep, VerifierStep, CommandStep, CampaignStep DEF Next
  <2>2. CASE UNCHANGED vars
    <3>1. BridgeKeeps /\ RequestsKeep
        BY <2>2, QuietBridge, QuietRequests DEF vars, bridgeVars, trialVars, requestVars,
                                                databaseVars, verifierVars
    <3> QED
        BY <3>1, KeepsInvariant
  <2> QED
      BY <2>1, <2>2
<1> QED
    BY <1>1, InitInvariant, PTL DEF Spec

(* No control reaches the bridge before the database has the request of    *)
(* its trial (start_controlled requests the trial, then posts).            *)
THEOREM ControlsHaveOpenTrials == Spec => []ControlHasOpenTrial
<1>1. TrialInvariant => ControlHasOpenTrial
    BY DEF TrialInvariant, ControlExists, AskedIn, ControlHasOpenTrial
<1> QED
    BY <1>1, TrialInvariantHolds, PTL

(* Every event of the journal is one that the verifier and the database    *)
(* accept, so that only a time that went back can stop the import.         *)
JournalIsAccepted ==
    \A i \in 1..Len(journal) : VerifierAccepts(journal[i].what) /\ DatabaseAccepts(journal[i].what)

THEOREM JournalsAreAccepted == Spec => []JournalIsAccepted
<1>1. TrialInvariant => JournalIsAccepted
  <2> SUFFICES ASSUME TrialInvariant, NEW i \in 1..Len(journal)
               PROVE  VerifierAccepts(journal[i].what) /\ DatabaseAccepts(journal[i].what)
      BY DEF JournalIsAccepted
  <2>1. journal[i] \in Entry
      BY DEF TrialInvariant
  <2> QED
      BY <2>1, EmittedIsAccepted DEF Entry
<1> QED
    BY <1>1, TrialInvariantHolds, PTL

-----------------------------------------------------------------------------
(* Positions in the journal. *)

(* A nonempty set of naturals has a least element.                         *)
LEMMA LeastExists ==
    ASSUME NEW S \in SUBSET Nat, S # {}
    PROVE  \E m \in S : \A k \in S : m <= k
<1> DEFINE R == OpToRel(<, Nat)
<1>1. IsWellFoundedOn(R, Nat)
    BY NatLessThanWellFounded
<1>2. \A i, j \in Nat : <<i, j>> \in R <=> i < j
    BY DEF OpToRel
<1> HIDE DEF R
<1>3. PICK m \in S : \A k \in S : ~(<<k, m>> \in R)
    BY <1>1, WFMin
<1>4. \A k \in S : ~(k < m)
    BY <1>2, <1>3
<1> QED
    BY <1>4

LEMMA FirstIsLeast ==
    ASSUME NEW S \in SUBSET (Nat \ {0})
    PROVE  /\ FirstOf(S) \in Nat /\ (FirstOf(S) = 0 <=> S = {})
           /\ S # {} => FirstOf(S) \in S /\ \A k \in S : FirstOf(S) <= k
<1>1. CASE S = {}
    BY <1>1 DEF FirstOf
<1>2. CASE S # {}
  <2>1. \E m \in S : \A k \in S : m <= k
      BY <1>2, LeastExists
  <2>2. Min(S) \in S /\ \A k \in S : Min(S) <= k
      BY <2>1 DEF Min
  <2> QED
      BY <1>2, <2>2 DEF FirstOf
<1> QED
    BY <1>1, <1>2

LEMMA PositionsAreNatural ==
    ASSUME NEW events, NEW f \in Nat \ {0}, NEW l, NEW t, NEW s, NEW st
    PROVE  /\ At(events, f, l, t) \in SUBSET (Nat \ {0})
           /\ LinkedAt(events, f, l, t, s) \in SUBSET (Nat \ {0})
           /\ ControlAt(events, f, l, t, s, st) \in SUBSET (Nat \ {0})
<1>1. f .. l \subseteq Nat \ {0}
    OBVIOUS
<1> QED
    BY <1>1 DEF At, LinkedAt, ControlAt

(* The verifier's evidence is a pair of positions, or none.                *)
LEMMA EvidenceIsPair ==
    ASSUME NEW events
    PROVE  Evidence(events) \in Nat \X Nat
<1>1. ASSUME NEW f \in Nat \ {0}, NEW l, NEW t, NEW s, NEW st
      PROVE  FirstOf(ControlAt(events, f, l, t, s, st)) \in Nat
    BY <1>1, PositionsAreNatural, FirstIsLeast
<1>2. ASSUME NEW r \in Nat, NEW s PROVE RestartEnd(events, r, s) \in Nat
  <2> DEFINE stop == FirstOf(ControlAt(events, r + 1, Len(events), "bridge_stopping", s, "consumed"))
             starts == {i \in At(events, stop + 1, Len(events), "bridge_started") :
                           events[i].boot # events[stop].boot}
             start == FirstOf(starts)
             readies == {i \in At(events, start + 1, Len(events), "session_ready") :
                           events[i].boot = events[start].boot}
             ready == FirstOf(readies)
  <2>1. stop \in Nat
      BY <1>1
  <2>2. starts \in SUBSET (Nat \ {0})
    <3>1. At(events, stop + 1, Len(events), "bridge_started") \subseteq Nat \ {0}
        BY <2>1 DEF At
    <3> QED
        BY <3>1
  <2>3. start \in Nat
      BY <2>2, FirstIsLeast
  <2>4. readies \in SUBSET (Nat \ {0})
    <3>1. At(events, start + 1, Len(events), "session_ready") \subseteq Nat \ {0}
      <4> HIDE DEF start
      <4> QED
          BY <2>3 DEF At
    <3> QED
        BY <3>1
  <2>5. ready \in Nat
      BY <2>4, FirstIsLeast
  <2>6. RestartEnd(events, r, s) \in {ready, 0}
      BY DEF RestartEnd
  <2> QED
      BY <2>5, <2>6
<1>3. ASSUME NEW q, NEW r \in Nat, NEW s PROVE ReconnectEnd(events, q, r, s) \in Nat
  <2>1. ReconnectEnd(events, q, r, s) \in
            {FirstOf(ControlAt(events, r + 1, Len(events), "session_ready", s, "consumed")), 0}
      BY DEF ReconnectEnd
  <2> QED
      BY <1>1, <2>1
<1>4. ASSUME NEW r \in Nat, NEW s PROVE Fragment(events, s, r) \in Nat \X Nat
  <2> DEFINE q == FirstOf(ControlAt(events, 1, Len(events), "control_requested", s, "requested"))
             end == CASE s = "reconnect" -> ReconnectEnd(events, q, r, s)
                      [] s = "bridge_restart" -> RestartEnd(events, r, s)
                      [] OTHER -> FirstOf(ControlAt(events, r + 1, Len(events), DetectedBy[s],
                                                    s, "consumed"))
  <2>1. q \in Nat
      BY <1>1
  <2>2. end \in Nat
    <3>1. r + 1 \in Nat \ {0}
        OBVIOUS
    <3>2. FirstOf(ControlAt(events, r + 1, Len(events), DetectedBy[s], s, "consumed")) \in Nat
        BY <1>1, <3>1
    <3> QED
        BY <1>2, <1>3, <2>1, <3>2
  <2>3. Fragment(events, s, r) \in {NoFragment, <<q, end>>}
      BY DEF Fragment
  <2> QED
      BY <2>1, <2>2, <2>3 DEF NoFragment
<1>5. FirstOf(Receipts(events, scenario)) \in Nat
    BY <1>1 DEF Receipts
<1> QED
    BY <1>4, <1>5 DEF Evidence, NoFragment

-----------------------------------------------------------------------------
(* Types. *)

BridgeTyped ==
    /\ scenario \in Scenarios /\ session \in Sessions
    /\ aborted \in BOOLEAN /\ connected \in BOOLEAN /\ refreshing \in BOOLEAN
    /\ health \in {"ready", "coded", "other"}
    /\ control \in {None, "requested", "armed"}
    /\ stopping \in {"no", "asked", "recorded"}
    /\ faults \in 0..MaxFaults

(* A control that the bridge is applying is one of the requests that it    *)
(* has not answered, and the verifier waits for at most one of those.      *)
RequestsTyped ==
    /\ posted \in Nat /\ late \in Nat /\ posted = late + (IF step = "wait" THEN 1 ELSE 0)
    /\ control # None => posted > 0

VerifierTyped ==
    /\ imported \in Nat /\ opened \in BOOLEAN /\ trial \in Nat \X Nat
    /\ queue \subseteq Calls /\ op \in Calls \union {Idle} /\ cursor \in Nat
    /\ step \in {"idle", "sign", "fetch", "begin", "trigger", "wait", "peek", "resume", "collect"}
    /\ op = Idle <=> step = "idle"

CycleTyped ==
    /\ command \in Waiting \union {"idle", "preflight", "exercise", "cycle", "recover", "done"}
    /\ cycle \in {"idle", "read", "batch", "failed", "other"}
    /\ started \in {"early", "before", "after"} /\ due \in BOOLEAN /\ lastOk \in BOOLEAN
    /\ failed \in BOOLEAN /\ recovered \in BOOLEAN

TypeInvariant ==
    TrialInvariant /\ BridgeTyped /\ RequestsTyped /\ VerifierTyped /\ CycleTyped

(* A failure is counted, and there are not too many.                       *)
LEMMA FaultIsCounted ==
    ASSUME BridgeTyped, NEW kind, Fault(kind)
    PROVE  faults' \in 0..MaxFaults
BY MaxFaultsAssumption DEF BridgeTyped, Fault

LEMMA SessionTypes ==
    ASSUME BridgeTyped, SessionStep
    PROVE  BridgeTyped'
<1>1. faults' \in 0..MaxFaults
    BY FaultIsCounted DEF SessionStep, Connect, Subscribe, SessionFails, SessionClears,
                          RefreshChecks, RefreshRecordsReady, BridgeTyped
<1>2. session' \in Sessions /\ health' \in {"ready", "coded", "other"}
    BY DEF SessionStep, Connect, Subscribe, SessionFails, SessionClears,
           RefreshChecks, RefreshRecordsReady, BridgeTyped, Sessions
<1>3. aborted' \in BOOLEAN /\ connected' \in BOOLEAN /\ refreshing' \in BOOLEAN
    BY DEF SessionStep, Connect, Subscribe, SessionFails, SessionClears,
           RefreshChecks, RefreshRecordsReady, BridgeTyped
<1>4. scenario' = scenario /\ control' = control /\ stopping' = stopping
    BY DEF SessionStep, Connect, Subscribe, SessionFails, SessionClears,
           RefreshChecks, RefreshRecordsReady
<1> QED
    BY <1>1, <1>2, <1>3, <1>4 DEF BridgeTyped

LEMMA ControlTypes ==
    ASSUME BridgeTyped,
           ControlIsRequested \/ ControlArms \/ ControlIsApplied \/ StopIsRecorded
    PROVE  BridgeTyped'
<1>1. CASE ControlIsRequested
    BY <1>1 DEF ControlIsRequested, BridgeTyped
<1>2. CASE ControlArms
  <2>1. health' \in {"ready", "coded", "other"}
    <3>1. CASE scenario = "reconnect"
        BY <1>2, <3>1 DEF ControlArms
    <3>2. CASE scenario = "bridge_restart"
        BY <1>2, <3>2 DEF ControlArms, BridgeTyped
    <3>3. CASE scenario \notin {"reconnect", "bridge_restart"}
        BY <1>2, <3>3 DEF ControlArms
    <3> QED
        BY <3>1, <3>2, <3>3
  <2>2. connected' \in BOOLEAN /\ aborted' \in BOOLEAN
    <3>1. CASE scenario = "reconnect"
      <4>1. connected' = FALSE /\ aborted' = (session \in {"connecting", "up"})
          BY <1>2, <3>1 DEF ControlArms
      <4>2. (session \in {"connecting", "up"}) \in BOOLEAN
          OBVIOUS
      <4>3. aborted' \in BOOLEAN
          BY <4>1, <4>2, Zenon
      <4> QED
          BY <4>1, <4>3
    <3>2. CASE scenario # "reconnect"
        BY <1>2, <3>2 DEF ControlArms, BridgeTyped
    <3> QED
        BY <3>1, <3>2
  <2> QED
      BY <1>2, <2>1, <2>2 DEF ControlArms, BridgeTyped
<1>3. CASE ControlIsApplied
    BY <1>3 DEF ControlIsApplied, BridgeTyped
<1>4. CASE StopIsRecorded
    BY <1>4 DEF StopIsRecorded, BridgeTyped
<1> QED
    BY <1>1, <1>2, <1>3, <1>4

LEMMA ProcessTypes ==
    ASSUME BridgeTyped, Exit \/ Crash \/ Boot \/ ReadConsumes \/ ReadFindsNoData \/ OtherReads
    PROVE  BridgeTyped'
<1>1. faults' \in 0..MaxFaults
    BY FaultIsCounted DEF Exit, Crash, Boot, ReadConsumes, ReadFindsNoData, OtherReads, BridgeTyped
<1>2. CASE Exit \/ Crash
    BY <1>1, <1>2 DEF Exit, Crash, Volatile, BridgeTyped, Sessions
<1>3. CASE Boot
    BY <1>1, <1>3 DEF Boot, BridgeTyped, Sessions
<1>4. CASE ReadConsumes \/ ReadFindsNoData \/ OtherReads
    BY <1>1, <1>4 DEF ReadConsumes, ReadFindsNoData, OtherReads, BridgeTyped
<1> QED
    BY <1>2, <1>3, <1>4

(* A step of the others leaves the bridge alone, and may be a failure that *)
(* is counted.                                                             *)
LEMMA OthersTypes ==
    ASSUME BridgeTyped, scenario' = scenario, session' = session, aborted' = aborted,
           connected' = connected, refreshing' = refreshing, health' = health,
           control' = control, stopping' = stopping,
           faults' = faults \/ \E kind \in Kinds : Fault(kind)
    PROVE  BridgeTyped'
BY FaultIsCounted DEF BridgeTyped

LEMMA BridgeTypesLast ==
    ASSUME BridgeTyped, [Next]_vars
    PROVE  BridgeTyped'
<1>1. CASE BridgeTakesRequest \/ BridgeApplies
    BY <1>1, ControlTypes DEF BridgeTakesRequest, BridgeApplies
<1>2. CASE BridgeGoes
    BY <1>2, ProcessTypes DEF BridgeGoes
<1>3. CASE BridgeMoves
    BY <1>3, SessionTypes, ControlTypes, ProcessTypes DEF BridgeMoves
<1>4. CASE BridgeRefuses
    BY <1>4, OthersTypes DEF BridgeRefuses, bridgeVars
<1>5. CASE VerifierTakes \/ VerifierFetches \/ FetchFails \/ BeginRefuses \/ VerifierTriggers
           \/ CompletePeeks \/ CollectPolls \/ CollectFails \/ CollectSubmits
    BY <1>5, OthersTypes DEF VerifierTakes, VerifierFetches, FetchFails, BeginRefuses,
           VerifierTriggers, CompletePeeks, CollectPolls, CollectFails, CollectSubmits, bridgeVars
<1>6. CASE BeginResumes \/ BeginOpens \/ CompleteResumes
    BY <1>6, OthersTypes DEF BeginResumes, BeginOpens, CompleteResumes, Opens, bridgeVars
<1>7. CASE CheckpointIsSigned
    BY <1>7, OthersTypes DEF CheckpointIsSigned
<1>8. CASE TriggerTimesOut \/ VerifierCrashes \/ CheckpointIsCalled \/ CommandGivesUp
           \/ CycleIsLost
    BY <1>8, OthersTypes DEF TriggerTimesOut, VerifierCrashes, CheckpointIsCalled,
           CommandGivesUp, CycleIsLost, Fault
<1>9. CASE CommandStarts \/ CommandChecks \/ CommandExercises \/ CommandRecovers
           \/ RecoveryTimesOut \/ SlotBecomesDue \/ CycleStarts \/ CycleRecords
    BY <1>9, OthersTypes DEF CommandStarts, CommandChecks, CommandExercises, CommandRecovers,
           RecoveryTimesOut, SlotBecomesDue, CycleStarts, CycleRecords, bridgeVars
<1>10. CASE CycleReads
    BY <1>10, OthersTypes, ProcessTypes DEF CycleReads, bridgeVars
<1>11. CASE OtherReads
    BY <1>11, ProcessTypes
<1>12. CASE UNCHANGED vars
    BY <1>12, OthersTypes DEF vars, bridgeVars
<1> QED
    BY <1>1, <1>2, <1>3, <1>4, <1>5, <1>6, <1>7, <1>8, <1>9, <1>10, <1>11, <1>12
    DEF Next, Bridge, Verifier, Command, Campaign

(* Requests and answers.                                                   *)
LEMMA QuietTraffic ==
    ASSUME RequestsTyped, posted' = posted, late' = late, control' = control \/ control' = None,
           step' = step \/ (step # "wait" /\ step' # "wait")
    PROVE  RequestsTyped'
<1>1. (step' = "wait") = (step = "wait")
    OBVIOUS
<1> QED
    BY <1>1 DEF RequestsTyped

LEMMA AnswerTypes ==
    ASSUME RequestsTyped, posted > 0, NEW next, Answered(next), control' = None
    PROVE  RequestsTyped'
<1>1. CASE late > 0
    BY <1>1 DEF Answered, RequestsTyped, verifierVars
<1>2. CASE ~(late > 0)
  <2>1. late = 0 /\ posted = 1 /\ step' = "idle" /\ posted' = posted - 1 /\ late' = late
      BY <1>2 DEF Answered, RequestsTyped, Ends, Release
  <2> QED
      BY <2>1 DEF RequestsTyped
<1> QED
    BY <1>1, <1>2

LEMMA RequestsTypesLast ==
    ASSUME RequestsTyped, VerifierTyped, [Next]_vars
    PROVE  RequestsTyped'
<1>1. CASE BridgeTakesRequest
    BY <1>1 DEF BridgeTakesRequest, ControlIsRequested, trialVars, requestVars, verifierVars,
                RequestsTyped
<1>2. CASE BridgeApplies
  <2>1. posted > 0 /\ control' = None /\ Answered(AfterStart)
      BY <1>2 DEF BridgeApplies, ControlIsApplied, RequestsTyped, None
  <2> QED
      BY <2>1, AnswerTypes
<1>3. CASE BridgeRefuses
  <2>1. posted > 0 /\ control' = None /\ Answered("idle")
      BY <1>3 DEF BridgeRefuses, bridgeVars
  <2> QED
      BY <2>1, AnswerTypes
<1>4. CASE BridgeGoes
  <2>1. posted' = 0 /\ late' = 0 /\ control' = None
      BY <1>4 DEF BridgeGoes, Exit, Crash, Volatile
  <2>2. step' # "wait"
      BY <1>4 DEF BridgeGoes, Fails, Ends, Release, verifierVars
  <2> QED
      BY <2>1, <2>2 DEF RequestsTyped
<1>5. CASE BridgeMoves
  <2>1. posted' = posted /\ late' = late /\ step' = step
      BY <1>5 DEF BridgeMoves, trialVars, requestVars, verifierVars
  <2>2. control' # None => control # None
      BY <1>5 DEF BridgeMoves, SessionStep, Connect, Subscribe, SessionFails, SessionClears,
                  RefreshChecks, RefreshRecordsReady, ControlArms, StopIsRecorded, Boot, None
  <2> QED
      BY <2>1, <2>2 DEF RequestsTyped
<1>6. CASE VerifierTriggers
    BY <1>6 DEF VerifierTriggers, Fails, Ends, Release, RequestsTyped, bridgeVars
<1>7. CASE TriggerTimesOut
    BY <1>7 DEF TriggerTimesOut, Fails, Ends, Release, RequestsTyped
<1>8. CASE VerifierCrashes
    BY <1>8 DEF VerifierCrashes, RequestsTyped
<1>9. CASE VerifierTakes \/ VerifierFetches \/ FetchFails \/ BeginRefuses
           \/ CompletePeeks \/ CollectPolls \/ CollectFails \/ CollectSubmits
  <2>1. posted' = posted /\ late' = late /\ control' = control
      BY <1>9 DEF VerifierTakes, VerifierFetches, FetchFails, BeginRefuses, CompletePeeks,
                  CollectPolls, CollectFails, CollectSubmits, bridgeVars, requestVars
  <2>2. step' = step \/ (step # "wait" /\ step' # "wait")
    <3>1. CASE VerifierTakes
      <4>1. step' # "wait"
          BY <3>1 DEF VerifierTakes
      <4>2. step # "wait"
          BY <3>1 DEF VerifierTakes, VerifierTyped
      <4> QED
          BY <4>1, <4>2
    <3>2. CASE VerifierFetches
        BY <3>2 DEF VerifierFetches, AfterFetch
    <3>3. CASE FetchFails \/ BeginRefuses \/ CompletePeeks \/ CollectPolls \/ CollectFails
               \/ CollectSubmits
        BY <3>3 DEF FetchFails, BeginRefuses, CompletePeeks, CollectPolls, CollectFails,
                    CollectSubmits, Fails, Ends, Release
    <3> QED
        BY <1>9, <3>1, <3>2, <3>3
  <2> QED
      BY <2>1, <2>2, QuietTraffic
<1>10. CASE BeginResumes \/ BeginOpens \/ CompleteResumes
  <2>1. posted' = posted /\ late' = late /\ control' = control
      BY <1>10 DEF BeginResumes, BeginOpens, CompleteResumes, Opens, bridgeVars, requestVars
  <2>2. step # "wait" /\ step' # "wait"
      BY <1>10 DEF BeginResumes, BeginOpens, CompleteResumes, Fails, Ends, Release
  <2> QED
      BY <2>1, <2>2, QuietTraffic
<1>11. CASE CheckpointIsSigned
    BY <1>11, QuietTraffic DEF CheckpointIsSigned, requestVars
<1>12. CASE CheckpointIsCalled
  <2>1. step # "wait" /\ step' # "wait"
      BY <1>12 DEF CheckpointIsCalled, VerifierTyped
  <2> QED
      BY <1>12, <2>1, QuietTraffic DEF CheckpointIsCalled, requestVars
<1>13. CASE Command
  <2>1. posted' = posted /\ late' = late /\ step' = step /\ control' = control
      BY <1>13 DEF Command, CommandStarts, CommandChecks, CommandExercises, CommandRecovers,
             RecoveryTimesOut, CommandGivesUp, Call, requestVars, verifierVars, bridgeVars
  <2> QED
      BY <2>1, QuietTraffic
<1>14. CASE SlotBecomesDue \/ CycleStarts \/ CycleReads \/ CycleRecords \/ CycleIsLost
            \/ OtherReads
  <2>1. posted' = posted /\ late' = late /\ step' = step /\ control' = control
      BY <1>14 DEF SlotBecomesDue, CycleStarts, CycleReads, CycleRecords, CycleIsLost,
             OtherReads, ReadConsumes, ReadFindsNoData, trialVars, requestVars, verifierVars,
             bridgeVars
  <2> QED
      BY <2>1, QuietTraffic
<1>15. CASE UNCHANGED vars
    BY <1>15, QuietTraffic DEF vars, trialVars, requestVars, verifierVars, bridgeVars
<1> QED
    BY <1>1, <1>2, <1>3, <1>4, <1>5, <1>6, <1>7, <1>8, <1>9, <1>10, <1>11, <1>12, <1>13, <1>14,
       <1>15 DEF Next, Bridge, Verifier, Campaign

(* The verifier.                                                           *)
LEMMA QuietVerifier ==
    ASSUME VerifierTyped, queue' = queue \/ queue' = {}, op' = op, step' = step,
           cursor' = cursor, imported' = imported, opened' = opened, trial' = trial
    PROVE  VerifierTyped'
BY DEF VerifierTyped

LEMMA ReleasedIsTyped ==
    ASSUME VerifierTyped, NEW next, Release(next), queue' \in {queue, {}},
           imported' = imported, opened' \in {opened, TRUE}, trial' \in Nat \X Nat
    PROVE  VerifierTyped'
BY DEF VerifierTyped, Release

LEMMA AnsweredIsTyped ==
    ASSUME VerifierTyped, NEW next, Answered(next), UNCHANGED databaseVars
    PROVE  VerifierTyped'
<1>1. trial \in Nat \X Nat
    BY DEF VerifierTyped
<1>2. UNCHANGED verifierVars \/ Ends(next)
    BY DEF Answered
<1> QED
    BY <1>1, <1>2, QuietVerifier, ReleasedIsTyped DEF databaseVars, verifierVars, Ends

LEMMA PageIsTyped ==
    ASSUME TrialInvariant, VerifierTyped
    PROVE  PageEnd \in Nat
BY PageAssumption DEF TrialInvariant, VerifierTyped, PageEnd

LEMMA VerifierTypesLast ==
    ASSUME TrialInvariant, VerifierTyped, [Next]_vars
    PROVE  VerifierTyped'
<1>1. CASE BridgeApplies \/ BridgeRefuses
    BY <1>1, AnsweredIsTyped DEF BridgeApplies, BridgeRefuses
<1>2. CASE BridgeGoes
  <2>1. trial \in Nat \X Nat
      BY DEF VerifierTyped
  <2>2. UNCHANGED verifierVars \/ Ends("idle")
      BY <1>2 DEF BridgeGoes, Fails
  <2> QED
      BY <1>2, <2>1, <2>2, QuietVerifier, ReleasedIsTyped DEF BridgeGoes, databaseVars,
                                                        verifierVars, Ends
<1>3. CASE BridgeTakesRequest \/ BridgeMoves \/ SlotBecomesDue \/ CycleStarts \/ CycleReads
           \/ CycleRecords \/ CycleIsLost \/ OtherReads
    BY <1>3, QuietVerifier DEF BridgeTakesRequest, BridgeMoves, SlotBecomesDue, CycleStarts,
           CycleReads, CycleRecords, CycleIsLost, OtherReads, trialVars, verifierVars, databaseVars
<1>4. CASE VerifierTakes
  <2>1. PICK call \in queue : op' = call /\ queue' = queue \ {call}
                              /\ step' = IF call.name = "complete" THEN "peek" ELSE "fetch"
      BY <1>4 DEF VerifierTakes
  <2>2. call \in Calls /\ call # Idle
      BY DEF VerifierTyped, Calls, Operations, Idle
  <2> QED
      BY <1>4, <2>1, <2>2 DEF VerifierTakes, VerifierTyped, databaseVars
<1>5. CASE VerifierFetches
  <2>1. imported' \in Nat /\ cursor' \in Nat
      BY <1>5, PageIsTyped DEF VerifierFetches, PageIsStored, VerifierTyped
  <2>2. /\ op' \in {op, Idle} /\ step' \in {"fetch", "begin", "resume", "idle"}
        /\ op' = Idle <=> step' = "idle"
      BY <1>5 DEF VerifierFetches, AfterFetch, VerifierTyped
  <2> QED
      BY <1>5, <2>1, <2>2 DEF VerifierFetches, VerifierTyped
<1>6. CASE FetchFails \/ CollectFails \/ BeginRefuses \/ TriggerTimesOut
  <2>1. \E next : Ends(next)
      BY <1>6 DEF FetchFails, CollectFails, BeginRefuses, TriggerTimesOut, Fails
  <2>2. UNCHANGED databaseVars
      BY <1>6 DEF FetchFails, CollectFails, BeginRefuses, TriggerTimesOut
  <2>3. trial \in Nat \X Nat
      BY DEF VerifierTyped
  <2> QED
      BY <2>1, <2>2, <2>3, ReleasedIsTyped DEF Ends, databaseVars
<1>7. CASE BeginResumes
  <2>1. Opens /\ \E next : Ends(next)
      BY <1>7 DEF BeginResumes
  <2>2. trial \in Nat \X Nat
      BY DEF VerifierTyped
  <2> QED
      BY <2>1, <2>2, ReleasedIsTyped DEF Ends, Opens
<1>8. CASE BeginOpens
    BY <1>8 DEF BeginOpens, Opens, VerifierTyped
<1>9. CASE VerifierTriggers
  <2>1. CASE Running
      BY <1>9, <2>1 DEF VerifierTriggers, VerifierTyped, databaseVars
  <2>2. CASE ~Running
    <3>1. trial \in Nat \X Nat
        BY DEF VerifierTyped
    <3> QED
        BY <1>9, <2>2, <3>1, ReleasedIsTyped DEF VerifierTriggers, Fails, Ends, databaseVars
  <2> QED
      BY <2>1, <2>2
<1>10. CASE CompletePeeks
  <2>1. CASE Fails
    <3>1. trial \in Nat \X Nat
        BY DEF VerifierTyped
    <3> QED
        BY <1>10, <2>1, <3>1, ReleasedIsTyped DEF CompletePeeks, Fails, Ends, databaseVars
  <2>2. CASE ~Fails
      BY <1>10, <2>2 DEF CompletePeeks, VerifierTyped, databaseVars
  <2> QED
      BY <2>1, <2>2
<1>11. CASE CompleteResumes
  <2>1. CASE Opens
      BY <1>11, <2>1, ReleasedIsTyped DEF CompleteResumes, Opens, Fails, Ends, VerifierTyped
  <2>2. CASE ~Opens
    <3>1. trial \in Nat \X Nat
        BY DEF VerifierTyped
    <3> QED
        BY <1>11, <2>2, <3>1, ReleasedIsTyped DEF CompleteResumes, Fails, Ends, databaseVars
  <2> QED
      BY <2>1, <2>2
<1>12. CASE CollectPolls
  <2>1. imported' \in Nat /\ cursor' \in Nat
      BY <1>12, PageIsTyped DEF CollectPolls, PageIsStored, VerifierTyped
  <2> QED
      BY <1>12, <2>1 DEF CollectPolls, VerifierTyped
<1>13. CASE CollectSubmits
  <2>1. \E next : Ends(next)
      BY <1>13 DEF CollectSubmits, Fails
  <2>2. trial' \in Nat \X Nat
      BY <1>13, EvidenceIsPair DEF CollectSubmits, VerifierTyped
  <2> QED
      BY <1>13, <2>1, <2>2, ReleasedIsTyped DEF CollectSubmits, Ends
<1>14. CASE VerifierCrashes
    BY <1>14 DEF VerifierCrashes, VerifierTyped, databaseVars
<1>15. CASE CheckpointIsCalled
  <2>1. op' \in Calls /\ op' # Idle
      BY <1>15 DEF CheckpointIsCalled, Abandoned, Called, Calls, Operations, Idle
  <2> QED
      BY <1>15, <2>1 DEF CheckpointIsCalled, VerifierTyped, databaseVars
<1>16. CASE CheckpointIsSigned
    BY <1>16 DEF CheckpointIsSigned, VerifierTyped, databaseVars
<1>17. CASE CommandStarts \/ CommandChecks \/ CommandRecovers
  <2>1. queue' \subseteq queue \union {Called("begin"), Called("force"), Called("complete")}
      BY <1>17 DEF CommandStarts, CommandChecks, CommandRecovers, Call, verifierVars
  <2>2. Called("begin") \in Calls /\ Called("force") \in Calls /\ Called("complete") \in Calls
      BY DEF Called, Calls, Operations
  <2>4. queue' \subseteq Calls
      BY <2>1, <2>2 DEF VerifierTyped
  <2>3. op' = op /\ step' = step /\ cursor' = cursor /\ imported' = imported
        /\ opened' = opened /\ trial' = trial
      BY <1>17 DEF CommandStarts, CommandChecks, CommandRecovers, Call, verifierVars, databaseVars
  <2> QED
      BY <2>3, <2>4 DEF VerifierTyped
<1>18. CASE CommandExercises \/ RecoveryTimesOut
    BY <1>18, QuietVerifier DEF CommandExercises, RecoveryTimesOut, verifierVars, databaseVars
<1>19. CASE CommandGivesUp
  <2>1. \A call \in Calls : Abandoned(call) \in Calls
      BY DEF Abandoned, Calls
  <2>2. Abandoned(Idle) = Idle /\ Idle \notin Calls
    <3>1. Abandoned(Idle) = Idle
      <4> DEFINE idle == [name : {"idle"}, live : {FALSE}]
      <4>1. Idle \in idle
          BY DEF Idle
      <4>2. Abandoned(Idle) \in idle
          BY <4>1 DEF Abandoned
      <4>3. \A c \in idle : c = Idle
        <5> SUFFICES ASSUME NEW c \in idle PROVE c = Idle
            OBVIOUS
        <5>1. c = [name |-> c.name, live |-> c.live]
            OBVIOUS
        <5>2. c.name = "idle" /\ c.live = FALSE
            OBVIOUS
        <5> QED
            BY <5>1, <5>2, Zenon DEF Idle
      <4> QED
          BY <4>1, <4>2, <4>3
    <3>2. \A call \in Calls : call.name # "idle"
        BY DEF Calls, Operations
    <3>3. Idle.name = "idle"
        BY DEF Idle
    <3> QED
        BY <3>1, <3>2, <3>3
  <2>3. queue' \subseteq Calls
      BY <1>19, <2>1 DEF CommandGivesUp, VerifierTyped
  <2>4. op' \in Calls \union {Idle} /\ (op' = Idle <=> op = Idle)
      BY <1>19, <2>1, <2>2 DEF CommandGivesUp, VerifierTyped
  <2> QED
      BY <1>19, <2>3, <2>4 DEF CommandGivesUp, VerifierTyped, databaseVars
<1>20. CASE UNCHANGED vars
    BY <1>20, QuietVerifier DEF vars, trialVars, verifierVars, databaseVars
<1> QED
    BY <1>1, <1>2, <1>3, <1>4, <1>5, <1>6, <1>7, <1>8, <1>9, <1>10, <1>11, <1>12, <1>13, <1>14,
       <1>15, <1>16, <1>17, <1>18, <1>19, <1>20 DEF Next, Bridge, Verifier, Command, Campaign

(* The command and the cycles.                                             *)
Commands == Waiting \union {"idle", "preflight", "exercise", "cycle", "recover", "done"}

LEMMA QuietCycle ==
    ASSUME CycleTyped, command' \in Commands, cycle' = cycle, started' = started, due' = due,
           lastOk' = lastOk, failed' = failed, recovered' = recovered
    PROVE  CycleTyped'
BY DEF CycleTyped, Commands

LEMMA EndsAtCommand ==
    ASSUME CycleTyped, NEW next \in Commands, Ends(next) \/ UNCHANGED command
    PROVE  command' \in Commands
BY DEF CycleTyped, Commands, Ends, Release

LEMMA CycleTypesLast ==
    ASSUME CycleTyped, [Next]_vars
    PROVE  CycleTyped'
<1>1. /\ "idle" \in Commands /\ "preflight" \in Commands /\ "recover" \in Commands
      /\ "done" \in Commands /\ AfterStart \in Commands /\ Waiting \subseteq Commands
      /\ command \in Commands /\ "cycle" \in Commands
    BY DEF Commands, AfterStart, CycleTyped
<1>2. CASE BridgeTakesRequest \/ BridgeMoves \/ VerifierTakes \/ CheckpointIsSigned
           \/ VerifierFetches \/ BeginOpens \/ CollectPolls \/ CheckpointIsCalled \/ OtherReads
    BY <1>1, <1>2, QuietCycle DEF BridgeTakesRequest, BridgeMoves, VerifierTakes,
           CheckpointIsSigned, VerifierFetches, BeginOpens, Opens, CollectPolls,
           CheckpointIsCalled, OtherReads, trialVars, cycleVars
<1>3. CASE BridgeApplies \/ BridgeRefuses \/ BridgeGoes
  <2>1. command' \in Commands
      BY <1>1, <1>3, EndsAtCommand DEF BridgeApplies, BridgeRefuses, BridgeGoes, Answered, Fails
  <2> QED
      BY <1>3, <2>1, QuietCycle DEF BridgeApplies, BridgeRefuses, BridgeGoes, cycleVars
<1>4. CASE FetchFails \/ BeginRefuses \/ TriggerTimesOut \/ CollectFails
  <2>1. command' \in Commands
      BY <1>1, <1>4, EndsAtCommand DEF FetchFails, BeginRefuses, TriggerTimesOut, CollectFails,
                                       Fails
  <2> QED
      BY <1>4, <2>1, QuietCycle DEF FetchFails, BeginRefuses, TriggerTimesOut, CollectFails,
                                    cycleVars
<1>5. CASE BeginResumes \/ VerifierTriggers \/ CompletePeeks \/ CompleteResumes
           \/ CollectSubmits
  <2>1. command' \in Commands
    <3>1. CASE BeginResumes
        BY <1>1, <3>1, EndsAtCommand DEF BeginResumes
    <3>2. CASE VerifierTriggers \/ CompletePeeks \/ CompleteResumes
        BY <1>1, <3>2, EndsAtCommand DEF VerifierTriggers, CompletePeeks, CompleteResumes, Fails
    <3>3. CASE CollectSubmits
        BY <1>1, <3>3, EndsAtCommand DEF CollectSubmits, Fails
    <3> QED
        BY <1>5, <3>1, <3>2, <3>3
  <2> QED
      BY <1>5, <2>1, QuietCycle DEF BeginResumes, VerifierTriggers, CompletePeeks,
                                    CompleteResumes, CollectSubmits, Opens, cycleVars
<1>6. CASE VerifierCrashes \/ CommandStarts \/ CommandChecks \/ RecoveryTimesOut
           \/ CommandGivesUp
  <2>1. command' \in Commands
      BY <1>1, <1>6 DEF VerifierCrashes, CommandStarts, CommandChecks, RecoveryTimesOut,
                        CommandGivesUp, Waiting
  <2> QED
      BY <1>6, <2>1, QuietCycle DEF VerifierCrashes, CommandStarts, CommandChecks,
                                    RecoveryTimesOut, CommandGivesUp, cycleVars
<1>7. CASE CommandExercises
  <2>1. command' \in Commands
      BY <1>1, <1>7 DEF CommandExercises
  <2> QED
      BY <1>7, <2>1 DEF CommandExercises, CycleTyped, Commands, StartedNow
<1>8. CASE CommandRecovers
  <2>1. command' \in Commands
      BY <1>1, <1>8 DEF CommandRecovers, Waiting
  <2>2. recovered' \in BOOLEAN
      BY <1>8 DEF CommandRecovers, CycleTyped
  <2> QED
      BY <1>8, <2>1, <2>2 DEF CommandRecovers, CycleTyped, Commands, cycleVars
<1>9. CASE SlotBecomesDue \/ CycleStarts \/ CycleReads \/ CycleIsLost
  <2>1. command' \in Commands
      BY <1>1, <1>9 DEF SlotBecomesDue, CycleStarts, CycleReads, CycleIsLost
  <2> QED
      BY <1>9, <2>1 DEF SlotBecomesDue, CycleStarts, CycleReads, CycleIsLost, CycleTyped,
                        Commands, StartedNow
<1>10. CASE CycleRecords
  <2>1. command' \in Commands
      BY <1>1, <1>10 DEF CycleRecords
  <2>2. recovered' \in BOOLEAN /\ lastOk' \in BOOLEAN /\ failed' \in BOOLEAN
    <3>1. recovered' \in BOOLEAN
        BY <1>10 DEF CycleRecords, CycleTyped
    <3>2. lastOk' \in BOOLEAN
        BY <1>10 DEF CycleRecords
    <3>3. failed' \in BOOLEAN
      <4>1. failed' = failed \/ failed' = (started = "before" /\ HasEnd)
          BY <1>10 DEF CycleRecords
      <4> QED
          BY <4>1 DEF CycleTyped
    <3> QED
        BY <3>1, <3>2, <3>3
  <2> QED
      BY <1>10, <2>1, <2>2 DEF CycleRecords, CycleTyped, Commands
<1>11. CASE UNCHANGED vars
    BY <1>1, <1>11, QuietCycle DEF vars, trialVars, cycleVars
<1> QED
    BY <1>2, <1>3, <1>4, <1>5, <1>6, <1>7, <1>8, <1>9, <1>10, <1>11
    DEF Next, Bridge, Verifier, Command, Campaign

LEMMA InitTyped == Init => BridgeTyped /\ RequestsTyped /\ VerifierTyped /\ CycleTyped
<1> SUFFICES ASSUME Init PROVE BridgeTyped /\ RequestsTyped /\ VerifierTyped /\ CycleTyped
    OBVIOUS
<1>1. BridgeTyped
  <2>1. scenario \in Scenarios /\ control = None /\ faults \in 0..MaxFaults
      BY MaxFaultsAssumption DEF Init, BridgeInit
  <2>2. session \in Sessions /\ health = "other" /\ stopping = "no"
      BY DEF Init, BridgeInit, Sessions
  <2>3. aborted = FALSE /\ connected = FALSE /\ refreshing = FALSE
      BY DEF Init, BridgeInit
  <2> QED
      BY <2>1, <2>2, <2>3 DEF BridgeTyped
<1>2. RequestsTyped
    BY DEF Init, BridgeInit, ScenarioInit, RequestsTyped
<1>3. VerifierTyped
    BY DEF Init, ScenarioInit, VerifierTyped, NoFragment
<1>4. CycleTyped
    BY DEF Init, ScenarioInit, CycleTyped
<1> QED
    BY <1>1, <1>2, <1>3, <1>4

THEOREM TypeInvariantHolds == Spec => []TypeInvariant
<1>1. TrialInvariant /\ BridgeTyped /\ RequestsTyped /\ VerifierTyped /\ CycleTyped
      /\ [Next]_vars => (BridgeTyped /\ RequestsTyped /\ VerifierTyped /\ CycleTyped)'
    BY BridgeTypesLast, RequestsTypesLast, VerifierTypesLast, CycleTypesLast
<1>2. TrialInvariant /\ BridgeTyped /\ RequestsTyped /\ VerifierTyped /\ CycleTyped
      => TypeInvariant
    BY DEF TypeInvariant
<1> QED
    BY <1>1, <1>2, InitTyped, TrialInvariantHolds, PTL DEF Spec

(* The shapes of the emitted events are shapes of the journal's events.    *)
LEMMA EmittedHasShape == Emitted \subseteq Shapes
<1>1. /\ None \in ScenarioCodes \union {None} /\ None \in Actions \union {None}
      /\ None \in Steps \union {None} /\ {None, "two"} \subseteq {None, "half", "same", "two"}
    OBVIOUS
<1>2. /\ Detections \subseteq Types /\ Controlled \subseteq ScenarioCodes
      /\ \A s \in Controlled : ActionOf[s] \in Actions
      /\ \A s \in Faults : s \in Controlled /\ DetectedBy[s] \in Types
      /\ {"requested", "applied", "consumed"} \subseteq Steps
      /\ {"reconnect", "missing_data", "bridge_restart"} \subseteq Controlled
    BY DEF Types, ScenarioCodes, Actions, Detections, Faults, DetectedBy, Controlled, ActionOf,
           Steps
<1>3. \A t \in Types : Plain(t) \in Shapes
    BY <1>1 DEF Plain, Shapes
<1>4. \A t \in Types : Scoped(t) \in Shapes
    BY <1>1 DEF Plain, Scoped, Shapes
<1>5. \A t \in Types, s \in Controlled : Linked(t, s) \in Shapes
  <2> SUFFICES ASSUME NEW t \in Types, NEW s \in Controlled PROVE Linked(t, s) \in Shapes
      OBVIOUS
  <2> QED
      BY <1>1, <1>2 DEF Plain, Scoped, Linked, Shapes
<1>6. \A t \in Types, s \in Controlled, st \in Steps : Control(t, s, st) \in Shapes
  <2> SUFFICES ASSUME NEW t \in Types, NEW s \in Controlled, NEW st \in Steps
               PROVE  Control(t, s, st) \in Shapes
      OBVIOUS
  <2> QED
      BY <1>1, <1>2 DEF Plain, Scoped, Linked, Control, Shapes
<1>7. Roll \in Shapes
  <2>1. "contract_roll_observed" \in Types /\ "roll_transition" \in ScenarioCodes
      BY DEF Types, ScenarioCodes
  <2> QED
      BY <1>1, <2>1 DEF Plain, Scoped, Roll, Shapes
<1>8. Checkpoint \in Shapes
  <2>1. "campaign_checkpoint" \in Types /\ "checkpoint" \in Actions
      BY DEF Types, Actions
  <2> QED
      BY <1>1, <1>2, <2>1 DEF Plain, Checkpoint, Shapes
<1>9. {"bridge_started", "session_connecting", "session_authenticated", "session_ready",
       "session_disconnected", "cache_cleared", "bridge_stopping", "outbound_rejected",
       "control_requested", "control_applied"} \subseteq Types
    BY DEF Types
<1> QED
    BY <1>2, <1>3, <1>4, <1>5, <1>6, <1>7, <1>8, <1>9 DEF Emitted

(* Every variable has its type.                                            *)
THEOREM TrialTypesAreCorrect == Spec => []TypeOK
<1>1. TypeInvariant => TypeOK
  <2> SUFFICES ASSUME TypeInvariant PROVE TypeOK
      OBVIOUS
  <2>1. journal \in Seq([what : Shapes, boot : Nat, gen : Nat, back : BOOLEAN])
    <3>1. Entry \subseteq [what : Shapes, boot : Nat, gen : Nat, back : BOOLEAN]
        BY EmittedHasShape DEF Entry
    <3>2. journal \in Seq(Entry)
        BY DEF TypeInvariant, TrialInvariant
    <3> QED
        BY <3>1, <3>2, SeqMonotonic
  <2>2. BridgeTypeOK
      BY <2>1 DEF TypeInvariant, TrialInvariant, BridgeTyped, BridgeTypeOK
  <2>3. ScenarioTypeOK
      BY DEF TypeInvariant, RequestsTyped, VerifierTyped, CycleTyped, ScenarioTypeOK
  <2> QED
      BY <2>2, <2>3 DEF TypeOK
<1> QED
    BY <1>1, TypeInvariantHolds, PTL

-----------------------------------------------------------------------------
(* How often a control is applied. *)

(* What one more event does to the positions of receipts and checkpoints.  *)
LEMMA AppendingEvent ==
    ASSUME NEW events \in Seq(Entry), NEW e \in Emitted, NEW b \in Nat, NEW g \in Nat,
           NEW back \in BOOLEAN, NEW longer, longer = Append(events, Event(e, b, g, back))
    PROVE  /\ longer \in Seq(Entry) /\ Len(longer) = Len(events) + 1
           /\ longer[Len(events) + 1] = Event(e, b, g, back)
           /\ longer[Len(events) + 1].what = e
           /\ \A i \in 1..Len(events) : longer[i] = events[i]
<1>1. Event(e, b, g, back) \in Entry /\ Event(e, b, g, back).what = e
    BY DEF Event, Entry
<1> QED
    BY <1>1

AtGrows(events, longer, e, t) ==
    At(longer, 1, Len(longer), t) =
        IF e.type = t THEN At(events, 1, Len(events), t) \union {Len(events) + 1}
        ELSE At(events, 1, Len(events), t)

ReceiptsGrow(events, longer, e, s) ==
    \/ Receipts(longer, s) = Receipts(events, s)
    \/ /\ Receipts(longer, s) = Receipts(events, s) \union {Len(events) + 1}
       /\ e.type = "control_applied"

LEMMA AppendingAt ==
    ASSUME NEW events \in Seq(Entry), NEW e \in Emitted, NEW b \in Nat, NEW g \in Nat,
           NEW back \in BOOLEAN, NEW longer, longer = Append(events, Event(e, b, g, back)),
           NEW t
    PROVE  AtGrows(events, longer, e, t)
<1>1. /\ Len(longer) = Len(events) + 1 /\ longer[Len(events) + 1].what = e
      /\ \A i \in 1..Len(events) : longer[i] = events[i]
    BY AppendingEvent
<1>2. 1..Len(longer) = (1..Len(events)) \union {Len(events) + 1}
      /\ Len(events) + 1 \notin 1..Len(events)
    BY <1>1
<1> QED
    BY <1>1, <1>2 DEF At, AtGrows

LEMMA AppendingReceipt ==
    ASSUME NEW events \in Seq(Entry), NEW e \in Emitted, NEW b \in Nat, NEW g \in Nat,
           NEW back \in BOOLEAN, NEW longer, longer = Append(events, Event(e, b, g, back)),
           NEW s
    PROVE  ReceiptsGrow(events, longer, e, s)
<1>1. /\ Len(longer) = Len(events) + 1 /\ longer[Len(events) + 1].what = e
      /\ \A i \in 1..Len(events) : longer[i] = events[i]
    BY AppendingEvent
<1>2. 1..Len(longer) = (1..Len(events)) \union {Len(events) + 1}
      /\ Len(events) + 1 \notin 1..Len(events)
    BY <1>1
<1>3. ASSUME NEW i \in 1..Len(events)
      PROVE  i \in Receipts(longer, s) <=> i \in Receipts(events, s)
    BY <1>1, <1>2, <1>3 DEF Receipts, ControlAt, LinkedAt, At
<1>4. Receipts(longer, s) \subseteq 1..Len(longer) /\ Receipts(events, s) \subseteq 1..Len(events)
    BY DEF Receipts, ControlAt, LinkedAt, At
<1>5. Len(longer) \in Receipts(longer, s) => e.type = "control_applied"
    BY <1>1 DEF Receipts, ControlAt, LinkedAt, At
<1>6. CASE Len(longer) \in Receipts(longer, s)
  <2>1. \A i : i \in Receipts(longer, s) <=> i \in Receipts(events, s) \union {Len(events) + 1}
      BY <1>1, <1>2, <1>3, <1>4, <1>6
  <2> QED
      BY <1>5, <1>6, <2>1 DEF ReceiptsGrow
<1>7. CASE Len(longer) \notin Receipts(longer, s)
  <2>1. \A i : i \in Receipts(longer, s) <=> i \in Receipts(events, s)
      BY <1>1, <1>2, <1>3, <1>4, <1>7
  <2> QED
      BY <2>1 DEF ReceiptsGrow
<1> QED
    BY <1>6, <1>7

LEMMA CountsAreFinite ==
    ASSUME NEW events \in Seq(Entry), NEW s, NEW t
    PROVE  /\ IsFiniteSet(Receipts(events, s)) /\ Cardinality(Receipts(events, s)) \in Nat
           /\ IsFiniteSet(At(events, 1, Len(events), t))
           /\ Cardinality(At(events, 1, Len(events), t)) \in Nat
<1>1. Len(events) \in Nat
    OBVIOUS
<1>2. IsFiniteSet(1..Len(events))
    BY <1>1, FS_Interval
<1>3. Receipts(events, s) \subseteq 1..Len(events)
      /\ At(events, 1, Len(events), t) \subseteq 1..Len(events)
    BY DEF Receipts, ControlAt, LinkedAt, At
<1>4. IsFiniteSet(Receipts(events, s)) /\ IsFiniteSet(At(events, 1, Len(events), t))
    BY <1>2, <1>3, FS_Subset
<1> QED
    BY <1>4, FS_CardinalityType

LEMMA OneMore ==
    ASSUME NEW S, IsFiniteSet(S), NEW x, NEW T, T = S \/ T = S \union {x}
    PROVE  Cardinality(T) <= Cardinality(S) + 1
<1>1. Cardinality(S) \in Nat
    BY FS_CardinalityType
<1>2. CASE T = S
    BY <1>1, <1>2
<1>3. CASE T = S \union {x}
  <2>1. Cardinality(S \union {x}) = IF x \in S THEN Cardinality(S) ELSE Cardinality(S) + 1
      BY FS_AddElement
  <2> QED
      BY <1>1, <1>3, <2>1
<1> QED
    BY <1>2, <1>3

LEMMA StepKeeps ==
    ASSUME TrialInvariant, [Next]_vars
    PROVE  TrialInvariant' /\ BridgeKeeps
<1>1. CASE Next
    BY <1>1, BridgeStep, VerifierStep, CommandStep, CampaignStep DEF Next
<1>2. CASE UNCHANGED vars
  <2>1. BridgeKeeps /\ RequestsKeep
      BY <1>2, QuietBridge, QuietRequests DEF vars, bridgeVars, trialVars, requestVars,
                                              databaseVars, verifierVars
  <2> QED
      BY <2>1, KeepsInvariant
<1> QED
    BY <1>1, <1>2

(* The journal only grows, and so do the receipts in it.                   *)
LEMMA JournalGrows ==
    ASSUME TrialInvariant, BridgeKeeps
    PROVE  /\ Len(journal) \in Nat /\ Len(journal') \in Nat /\ Len(journal) <= Len(journal')
           /\ \A i \in 1..Len(journal) : journal'[i] = journal[i]
           /\ Receipts(journal, scenario) \subseteq Receipts(journal', scenario')
<1>1. journal \in Seq(Entry) /\ scenario' = scenario
    BY DEF TrialInvariant, BridgeKeeps
<1>2. CASE journal' = journal
    BY <1>1, <1>2
<1>3. ASSUME NEW e \in Emitted, NEW b \in Nat, NEW g \in Nat, NEW back \in BOOLEAN,
             journal' = Append(journal, Event(e, b, g, back))
      PROVE  /\ Len(journal) \in Nat /\ Len(journal') \in Nat /\ Len(journal) <= Len(journal')
             /\ \A i \in 1..Len(journal) : journal'[i] = journal[i]
             /\ Receipts(journal, scenario) \subseteq Receipts(journal', scenario')
  <2>2. /\ Len(journal) \in Nat /\ Len(journal') = Len(journal) + 1
        /\ \A i \in 1..Len(journal) : journal'[i] = journal[i]
      BY <1>1, <1>3, AppendingEvent
  <2>3. Receipts(journal, scenario) \subseteq Receipts(journal', scenario)
    <3>1. ReceiptsGrow(journal, journal', e, scenario)
        BY <1>1, <1>3, AppendingReceipt
    <3> QED
        BY <3>1 DEF ReceiptsGrow
  <2> QED
      BY <1>1, <2>2, <2>3
<1> QED
    BY <1>2, <1>3 DEF BridgeKeeps, Adds

(* A step that is neither the receipt of a control nor a signed checkpoint *)
(* leaves the counts alone.                                                *)
LEMMA QuietCounts ==
    ASSUME TrialInvariant, BridgeKeeps, ~Marks
    PROVE  Receipts(journal', scenario') = Receipts(journal, scenario)
           /\ Checkpoints' = Checkpoints
<1>1. journal \in Seq(Entry) /\ scenario' = scenario
    BY DEF TrialInvariant, BridgeKeeps
<1>2. CASE journal' = journal
    BY <1>1, <1>2 DEF Checkpoints
<1>3. ASSUME NEW e \in Emitted, NEW b \in Nat, NEW g \in Nat, NEW back \in BOOLEAN,
             journal' = Append(journal, Event(e, b, g, back)), e.type \notin Counted
      PROVE  Receipts(journal', scenario') = Receipts(journal, scenario)
             /\ Checkpoints' = Checkpoints
  <2>1. e.type # "control_applied" /\ e.type # "campaign_checkpoint"
      BY <1>3 DEF Counted
  <2> QED
    <3>1. ReceiptsGrow(journal, journal', e, scenario)
        BY <1>1, <1>3, AppendingReceipt
    <3>2. AtGrows(journal, journal', e, "campaign_checkpoint")
        BY <1>1, <1>3, AppendingAt
    <3> QED
        BY <1>1, <2>1, <3>1, <3>2 DEF Checkpoints, ReceiptsGrow, AtGrows
<1> QED
    BY <1>2, <1>3 DEF BridgeKeeps, Adds

(* What has been read of the journal is in it.                             *)
CursorInside == cursor <= Len(journal)

LEMMA PageEndInside ==
    ASSUME TypeInvariant, CursorInside
    PROVE  /\ PageEnd \in Nat /\ PageEnd <= Len(journal) /\ cursor <= PageEnd
           /\ PageEnd - cursor # PageSize => PageEnd = Len(journal)
<1>1. cursor \in Nat /\ Len(journal) \in Nat /\ PageSize \in Nat
    BY PageAssumption DEF TypeInvariant, VerifierTyped, TrialInvariant
<1> QED
    BY <1>1 DEF PageEnd, CursorInside

LEMMA CursorStaysInside ==
    ASSUME TypeInvariant, CursorInside, [Next]_vars
    PROVE  CursorInside'
<1>1. Len(journal) \in Nat /\ Len(journal') \in Nat /\ Len(journal) <= Len(journal')
    BY StepKeeps, JournalGrows DEF TypeInvariant
<1>2. cursor \in Nat
    BY DEF TypeInvariant, VerifierTyped
<1>3. CASE cursor' \in {0, cursor}
    BY <1>1, <1>2, <1>3 DEF CursorInside
<1>4. CASE cursor' = PageEnd
    BY <1>1, <1>2, <1>4, PageEndInside DEF CursorInside
<1>5. CASE Bridge
    BY <1>3, <1>5 DEF Bridge, BridgeTakesRequest, BridgeApplies, BridgeRefuses, BridgeGoes,
                      BridgeMoves, Answered, Fails, Ends, Release, trialVars, verifierVars
<1>6. CASE VerifierFetches \/ CollectPolls
    BY <1>4, <1>6 DEF VerifierFetches, CollectPolls, PageIsStored
<1>7. CASE VerifierTakes \/ CheckpointIsSigned \/ FetchFails \/ BeginRefuses \/ BeginResumes
           \/ BeginOpens \/ VerifierTriggers \/ TriggerTimesOut
    BY <1>3, <1>7 DEF VerifierTakes, CheckpointIsSigned, FetchFails, BeginRefuses, BeginResumes,
                      BeginOpens, VerifierTriggers, TriggerTimesOut, Fails, Ends, Release
<1>8. CASE CompletePeeks \/ CompleteResumes \/ CollectFails \/ CollectSubmits \/ VerifierCrashes
    BY <1>3, <1>8 DEF CompletePeeks, CompleteResumes, CollectFails, CollectSubmits,
                      VerifierCrashes, Fails, Ends, Release
<1>9. CASE Command
    BY <1>3, <1>9 DEF Command, CommandStarts, CommandChecks, CommandExercises, CommandRecovers,
                      RecoveryTimesOut, CommandGivesUp, Call, verifierVars
<1>10. CASE Campaign
    BY <1>3, <1>10 DEF Campaign, SlotBecomesDue, CycleStarts, CycleReads, CycleRecords,
                       CycleIsLost, OtherReads, CheckpointIsCalled, verifierVars, trialVars
<1>11. CASE UNCHANGED vars
    BY <1>3, <1>11 DEF vars, trialVars, verifierVars
<1> QED
    BY <1>5, <1>6, <1>7, <1>8, <1>9, <1>10, <1>11 DEF Next, Verifier

(* Each receipt, and each request that is on its way with nobody waiting   *)
(* for it, has a failure behind it; so has each checkpoint.  One receipt   *)
(* may have none: from then on the verifier knows it when it begins.       *)
Applied == Cardinality(Receipts(journal, scenario))
Spent == Applied + late + Cardinality(Checkpoints) + (IF step = "sign" THEN 1 ELSE 0)

ReceiptIsKnown ==
    /\ Receipts(journal, scenario) # {}
    /\ step \notin {"trigger", "wait"}
    /\ step = "begin" => \E i \in Receipts(journal, scenario) : i <= cursor

SpentIsBacked == Spent <= faults \/ (Spent <= faults + 1 /\ ReceiptIsKnown)

LEMMA SpentIsNumber ==
    ASSUME TypeInvariant
    PROVE  /\ Applied \in Nat /\ late \in Nat /\ Cardinality(Checkpoints) \in Nat
           /\ faults \in Nat /\ Spent \in Nat
<1>1. journal \in Seq(Entry) /\ late \in Nat /\ faults \in Nat
    BY MaxFaultsAssumption DEF TypeInvariant, TrialInvariant, RequestsTyped, BridgeTyped
<1>2. Applied \in Nat /\ Cardinality(Checkpoints) \in Nat
    BY <1>1, CountsAreFinite DEF Applied, Checkpoints
<1> QED
    BY <1>1, <1>2 DEF Spent

(* A receipt that is known stays known, unless the verifier begins anew.   *)
LEMMA KnownStays ==
    ASSUME TypeInvariant, BridgeKeeps, ReceiptIsKnown,
           \/ step' = step /\ cursor' = cursor
           \/ step' \notin {"trigger", "wait", "begin"}
    PROVE  ReceiptIsKnown'
<1>1. Receipts(journal, scenario) \subseteq Receipts(journal', scenario')
    BY JournalGrows DEF TypeInvariant
<1> QED
    BY <1>1 DEF ReceiptIsKnown

(* A step that applies and signs nothing.                                  *)
LEMMA QuietSpent ==
    ASSUME TypeInvariant, TypeInvariant', BridgeKeeps, ~Marks, late' <= late,
           step' = "sign" => step = "sign", faults' \in {faults, faults + 1}
    PROVE  Spent' \in Nat /\ Spent' <= Spent
<1>1. Receipts(journal', scenario') = Receipts(journal, scenario) /\ Checkpoints' = Checkpoints
    BY QuietCounts DEF TypeInvariant
<1>2. Applied' = Applied
    BY <1>1 DEF Applied
<1>3. /\ Applied \in Nat /\ late \in Nat /\ Cardinality(Checkpoints) \in Nat
      /\ late' \in Nat
    BY SpentIsNumber DEF TypeInvariant, RequestsTyped
<1> QED
    BY <1>1, <1>2, <1>3 DEF Spent

LEMMA QuietBacked ==
    ASSUME TypeInvariant, TypeInvariant', BridgeKeeps, SpentIsBacked, ~Marks, late' <= late,
           step' = "sign" => step = "sign", faults' \in {faults, faults + 1},
           \/ step' = step /\ cursor' = cursor
           \/ step' \notin {"trigger", "wait", "begin"}
           \/ Spent <= faults
    PROVE  SpentIsBacked'
<1>1. Spent' <= Spent /\ Spent \in Nat /\ Spent' \in Nat /\ faults \in Nat
    BY QuietSpent, SpentIsNumber
<1>4. faults' \in {faults, faults + 1}
    OBVIOUS
<1>2. CASE Spent <= faults
  <2>1. Spent' <= faults'
      BY <1>1, <1>2, <1>4
  <2> QED
      BY <2>1 DEF SpentIsBacked
<1>3. CASE ~(Spent <= faults)
  <2>1. ReceiptIsKnown'
      BY <1>3, KnownStays DEF SpentIsBacked
  <2>3. Spent <= faults + 1
      BY <1>3 DEF SpentIsBacked
  <2>2. Spent' <= faults' + 1
    <3>1. Spent' <= faults + 1
        BY <1>1, <2>3
    <3>2. CASE faults' = faults
        BY <3>1, <3>2
    <3>3. CASE faults' = faults + 1
        BY <1>1, <3>1, <3>3
    <3> QED
        BY <1>4, <3>2, <3>3
  <2> QED
      BY <2>1, <2>2 DEF SpentIsBacked
<1> QED
    BY <1>2, <1>3

(* Failures are only counted up.                                           *)
LEMMA FaultsAdd ==
    ASSUME [Next]_vars
    PROVE  faults' \in {faults, faults + 1}
<1>1. CASE Bridge
    BY <1>1 DEF Bridge, BridgeTakesRequest, BridgeApplies, BridgeRefuses, BridgeGoes, BridgeMoves,
           ControlIsRequested, ControlIsApplied, ControlArms, StopIsRecorded, Boot, Exit, Crash,
           SessionStep, Connect, Subscribe, SessionFails, SessionClears, RefreshChecks,
           RefreshRecordsReady, Fault, bridgeVars
<1>2. CASE Verifier
    BY <1>2 DEF Verifier, VerifierTakes, CheckpointIsSigned, VerifierFetches, FetchFails,
           BeginRefuses, BeginResumes, BeginOpens, VerifierTriggers, TriggerTimesOut,
           CompletePeeks, CompleteResumes, CollectPolls, CollectFails, CollectSubmits,
           VerifierCrashes, Opens, Fault, bridgeVars
<1>3. CASE Command
    BY <1>3 DEF Command, CommandStarts, CommandChecks, CommandExercises, CommandRecovers,
           RecoveryTimesOut, CommandGivesUp, Fault, bridgeVars
<1>4. CASE Campaign
    BY <1>4 DEF Campaign, SlotBecomesDue, CycleStarts, CycleReads, CycleRecords, CycleIsLost,
           OtherReads, CheckpointIsCalled, ReadConsumes, ReadFindsNoData, Fault, bridgeVars
<1>5. CASE UNCHANGED vars
    BY <1>5 DEF vars, bridgeVars
<1> QED
    BY <1>1, <1>2, <1>3, <1>4, <1>5 DEF Next

(* The verifier finds every receipt that is in what it has read.           *)
LEMMA ReadShowsReceipts ==
    ASSUME TypeInvariant, CursorInside, NEW i \in Receipts(journal, scenario), i <= cursor
    PROVE  Receipts(Read, scenario) # {}
<1>1. journal \in Seq(Entry) /\ cursor \in Nat /\ cursor <= Len(journal)
    BY DEF TypeInvariant, TrialInvariant, VerifierTyped, CursorInside
<1>2. i \in 1..cursor
    BY <1>1 DEF Receipts, ControlAt, LinkedAt, At
<1>3. Len(Read) = cursor /\ Read[i] = journal[i]
    BY <1>1, <1>2 DEF Read
<1>4. i \in Receipts(Read, scenario)
    BY <1>2, <1>3 DEF Receipts, ControlAt, LinkedAt, At
<1> QED
    BY <1>4

(* The receipt of a control is one.                                        *)
LEMMA ReceiptIsAdded ==
    ASSUME NEW events \in Seq(Entry), NEW s \in Controlled, NEW e \in Emitted, NEW b \in Nat,
           NEW g \in Nat, NEW back \in BOOLEAN,
           NEW longer, longer = Append(events, Event(e, b, g, back)),
           e.type = "control_applied", e.scenario = s, e.action = ActionOf[s], e.step = "applied"
    PROVE  Receipts(longer, s) # {}
<1>1. /\ Len(longer) = Len(events) + 1 /\ longer[Len(events) + 1].what = e
      /\ Len(longer) \in 1..Len(longer)
    BY AppendingEvent
<1>2. Len(longer) \in Receipts(longer, s)
    BY <1>1 DEF Receipts, ControlAt, LinkedAt, At
<1> QED
    BY <1>2

LEMMA AppliesBacked ==
    ASSUME TypeInvariant, TypeInvariant', SpentIsBacked, BridgeKeeps, BridgeApplies
    PROVE  SpentIsBacked'
<1>1. /\ journal \in Seq(Entry) /\ scenario \in Controlled /\ boot \in Nat /\ gen' \in Nat
      /\ scenario' = scenario
    BY DEF TypeInvariant, TrialInvariant, BridgeKeeps
<1>2. journal' = Append(journal, Event(Control("control_applied", scenario, "applied"),
                                       boot, gen', FALSE))
    BY DEF BridgeApplies, ControlIsApplied, Record
<1> DEFINE e == Control("control_applied", scenario, "applied")
<1>3. /\ e \in Emitted /\ e.type = "control_applied" /\ e.scenario = scenario
      /\ e.action = ActionOf[scenario] /\ e.step = "applied"
    BY <1>1, EmittedShapes DEF Plain, Scoped, Linked, Control
<1> HIDE DEF e
<1>4. ReceiptsGrow(journal, journal', e, scenario)
    BY <1>1, <1>2, <1>3, AppendingReceipt DEF e
<1>5. AtGrows(journal, journal', e, "campaign_checkpoint")
    BY <1>1, <1>2, <1>3, AppendingAt DEF e
<1>6. Checkpoints' = Checkpoints
    BY <1>3, <1>5 DEF AtGrows, Checkpoints
<1>7. Applied' <= Applied + 1
  <2>1. IsFiniteSet(Receipts(journal, scenario))
      BY <1>1, CountsAreFinite
  <2>2. Cardinality(Receipts(journal', scenario)) <= Cardinality(Receipts(journal, scenario)) + 1
      BY <1>4, <2>1, OneMore DEF ReceiptsGrow
  <2> QED
      BY <1>1, <2>2 DEF Applied
<1>8. Receipts(journal', scenario') # {}
  <2>1. PICK back \in BOOLEAN : journal' = Append(journal, Event(e, boot, gen', back))
      BY <1>2 DEF e
  <2> QED
      BY <1>1, <1>3, <2>1, ReceiptIsAdded
<1>9. /\ Applied \in Nat /\ late \in Nat /\ Cardinality(Checkpoints) \in Nat /\ faults \in Nat
      /\ Spent \in Nat
    BY SpentIsNumber
<1>10. Applied' \in Nat
  <2>1. journal' \in Seq(Entry)
      BY DEF TypeInvariant, TrialInvariant
  <2> QED
      BY <2>1, CountsAreFinite DEF Applied
<1>11. faults' = faults /\ Answered(AfterStart) /\ posted > 0
    BY DEF BridgeApplies, ControlIsApplied, TypeInvariant, RequestsTyped, None
<1>12. CASE late > 0
  <2>1. late' = late - 1 /\ step' = step /\ cursor' = cursor
      BY <1>11, <1>12 DEF Answered, verifierVars
  <2>2. Spent' <= Spent
      BY <1>6, <1>7, <1>9, <1>10, <2>1 DEF Spent
  <2>3. Spent' \in Nat
      BY <1>6, <1>9, <1>10, <1>12, <2>1 DEF Spent
  <2>4. ReceiptIsKnown => ReceiptIsKnown'
      BY <2>1, KnownStays
  <2>5. Spent <= faults => Spent' <= faults'
      BY <1>9, <1>11, <2>2, <2>3
  <2>6. Spent <= faults + 1 => Spent' <= faults' + 1
      BY <1>9, <1>11, <2>2, <2>3
  <2> QED
      BY <2>4, <2>5, <2>6 DEF SpentIsBacked
<1>13. CASE ~(late > 0)
  <2>1. late = 0 /\ step = "wait"
      BY <1>11, <1>13 DEF TypeInvariant, RequestsTyped
  <2>2. late' = late /\ step' = "idle"
      BY <1>11, <1>13 DEF Answered, Ends, Release
  <2>3. Spent <= faults
      BY <2>1 DEF SpentIsBacked, ReceiptIsKnown
  <2>4. Spent' <= Spent + 1
      BY <1>6, <1>7, <1>9, <1>10, <2>1, <2>2 DEF Spent
  <2>5. Spent' \in Nat
      BY <1>6, <1>9, <1>10, <2>1, <2>2 DEF Spent
  <2>6. Spent' <= faults' + 1
      BY <1>9, <1>11, <2>3, <2>4, <2>5
  <2>7. ReceiptIsKnown'
      BY <1>8, <2>2 DEF ReceiptIsKnown
  <2> QED
      BY <2>6, <2>7 DEF SpentIsBacked
<1> QED
    BY <1>12, <1>13
(* The verifier at rest.                                                   *)
LEMMA IdleWaits ==
    ASSUME TypeInvariant, op = Idle
    PROVE  step = "idle"
BY DEF TypeInvariant, VerifierTyped

(* A control is applied by one action only.                                *)
LEMMA OthersMarkNothing ==
    ASSUME TypeInvariant, [Next]_vars, ~BridgeApplies, ~CheckpointIsSigned
    PROVE  ~Marks
<1>1. CASE BridgeTakesRequest \/ BridgeRefuses
    BY <1>1 DEF BridgeTakesRequest, BridgeRefuses, ControlIsRequested, Answered, Ends, Release,
                Marks, None, trialVars, verifierVars, bridgeVars
<1>2. CASE BridgeGoes
    BY <1>2 DEF BridgeGoes, Exit, Crash, Volatile, Running, Fails, Ends, Release, Marks, None,
                verifierVars
<1>3. CASE BridgeMoves
  <2>1. step' = step
      BY <1>3 DEF BridgeMoves, trialVars, verifierVars
  <2>2. CASE SessionStep
    <3>1. control' = control
        BY <2>2 DEF SessionStep, Connect, Subscribe, SessionFails, SessionClears, RefreshChecks,
                    RefreshRecordsReady
    <3> QED
        BY <2>1, <3>1 DEF Marks, None
  <2>3. CASE ControlArms
      BY <2>1, <2>3 DEF ControlArms, Marks
  <2>4. CASE StopIsRecorded \/ Boot
      BY <2>1, <2>4 DEF StopIsRecorded, Boot, Marks, None
  <2> QED
      BY <1>3, <2>2, <2>3, <2>4 DEF BridgeMoves
<1>4. CASE VerifierTakes \/ VerifierFetches \/ FetchFails \/ CompletePeeks \/ VerifierCrashes
  <2>1. control' = control
      BY <1>4 DEF VerifierTakes, VerifierFetches, FetchFails, CompletePeeks, VerifierCrashes,
                  bridgeVars
  <2>2. ~(step = "sign" /\ step' = "fetch")
      BY <1>4, IdleWaits DEF VerifierTakes, VerifierFetches, FetchFails, CompletePeeks,
                             VerifierCrashes, Fails, Ends, Release
  <2> QED
      BY <2>1, <2>2 DEF Marks, None
<1>5. CASE BeginRefuses \/ BeginResumes \/ BeginOpens \/ VerifierTriggers \/ TriggerTimesOut
    BY <1>5 DEF BeginRefuses, BeginResumes, BeginOpens, VerifierTriggers, TriggerTimesOut, Opens,
                Fails, Ends, Release, Marks, None, bridgeVars
<1>6. CASE CompleteResumes \/ CollectPolls \/ CollectFails \/ CollectSubmits
    BY <1>6 DEF CompleteResumes, CollectPolls, CollectFails, CollectSubmits, Opens,
                Fails, Ends, Release, Marks, None, bridgeVars
<1>7. CASE Command
    BY <1>7 DEF Command, CommandStarts, CommandChecks, CommandExercises, CommandRecovers,
                RecoveryTimesOut, CommandGivesUp, Call, Marks, None, bridgeVars, verifierVars
<1>8. CASE Campaign
    BY <1>8 DEF Campaign, SlotBecomesDue, CycleStarts, CycleReads, CycleRecords, CycleIsLost,
                OtherReads, CheckpointIsCalled, ReadConsumes, ReadFindsNoData, Marks, None,
                bridgeVars, verifierVars, trialVars
<1>9. CASE UNCHANGED vars
    BY <1>9 DEF vars, bridgeVars, trialVars, verifierVars, Marks, None
<1> QED
    BY <1>1, <1>2, <1>3, <1>4, <1>5, <1>6, <1>7, <1>8, <1>9 DEF Next, Bridge, Verifier

LEMMA SignsBacked ==
    ASSUME TypeInvariant, TypeInvariant', SpentIsBacked, BridgeKeeps, CheckpointIsSigned
    PROVE  SpentIsBacked'
<1>1. /\ journal \in Seq(Entry) /\ boot \in Nat /\ gen' \in Nat /\ scenario' = scenario
    BY DEF TypeInvariant, TrialInvariant, BridgeKeeps
<1>2. journal' = Append(journal, Event(Checkpoint, boot, gen', FALSE))
    BY DEF CheckpointIsSigned, Record
<1> DEFINE e == Checkpoint
<1>3. e \in Emitted /\ e.type = "campaign_checkpoint"
    BY <1>1, EmittedShapes DEF Checkpoint, Plain
<1> HIDE DEF e
<1>4. ReceiptsGrow(journal, journal', e, scenario)
    BY <1>1, <1>2, <1>3, AppendingReceipt DEF e
<1>5. AtGrows(journal, journal', e, "campaign_checkpoint")
    BY <1>1, <1>2, <1>3, AppendingAt DEF e
<1>6. Applied' = Applied
    BY <1>1, <1>3, <1>4 DEF ReceiptsGrow, Applied
<1>7. Cardinality(Checkpoints') <= Cardinality(Checkpoints) + 1
  <2>1. IsFiniteSet(Checkpoints)
      BY <1>1, CountsAreFinite DEF Checkpoints
  <2>2. Checkpoints' = Checkpoints \union {Len(journal) + 1}
      BY <1>3, <1>5 DEF AtGrows, Checkpoints
  <2> QED
      BY <2>1, <2>2, OneMore
<1>8. /\ Applied \in Nat /\ late \in Nat /\ Cardinality(Checkpoints) \in Nat /\ faults \in Nat
      /\ Spent \in Nat
    BY SpentIsNumber
<1>9. Cardinality(Checkpoints') \in Nat
  <2>1. journal' \in Seq(Entry)
      BY DEF TypeInvariant, TrialInvariant
  <2> QED
      BY <2>1, CountsAreFinite DEF Checkpoints
<1>10. faults' = faults /\ step = "sign" /\ step' = "fetch" /\ late' = late
    BY DEF CheckpointIsSigned, requestVars
<1>11. Spent' <= Spent /\ Spent' \in Nat
    BY <1>6, <1>7, <1>8, <1>9, <1>10 DEF Spent
<1>12. ReceiptIsKnown => ReceiptIsKnown'
    BY <1>10, KnownStays
<1>13. Spent <= faults => Spent' <= faults'
    BY <1>8, <1>10, <1>11
<1>14. Spent <= faults + 1 => Spent' <= faults' + 1
    BY <1>8, <1>10, <1>11
<1> QED
    BY <1>12, <1>13, <1>14 DEF SpentIsBacked

(* What the verifier gives up, and the checkpoint it is asked for, is a    *)
(* failure of its own.                                                     *)
LEMMA GivingUpBacked ==
    ASSUME TypeInvariant, TypeInvariant', SpentIsBacked, BridgeKeeps, ~Marks,
           faults' = faults + 1,
           \/ step = "wait" /\ step' = "idle" /\ late' = late + 1
           \/ step = "idle" /\ step' = "sign" /\ late' = late
    PROVE  SpentIsBacked'
<1>1. Receipts(journal', scenario') = Receipts(journal, scenario) /\ Checkpoints' = Checkpoints
    BY QuietCounts DEF TypeInvariant
<1>2. Applied' = Applied
    BY <1>1 DEF Applied
<1>3. /\ Applied \in Nat /\ late \in Nat /\ Cardinality(Checkpoints) \in Nat /\ faults \in Nat
      /\ Spent \in Nat
    BY SpentIsNumber
<1>4. Spent' = Spent + 1
    BY <1>1, <1>2, <1>3 DEF Spent
<1>5. ReceiptIsKnown => ReceiptIsKnown'
    BY KnownStays
<1>6. Spent <= faults => Spent' <= faults'
    BY <1>3, <1>4
<1>7. Spent <= faults + 1 => Spent' <= faults' + 1
    BY <1>3, <1>4
<1> QED
    BY <1>5, <1>6, <1>7 DEF SpentIsBacked

(* When the verifier begins it has read the whole journal.                 *)
LEMMA FetchingBacked ==
    ASSUME TypeInvariant, TypeInvariant', CursorInside, SpentIsBacked, BridgeKeeps, ~Marks,
           VerifierFetches
    PROVE  SpentIsBacked'
<1>1. late' = late /\ faults' = faults /\ step = "fetch"
    BY DEF VerifierFetches, requestVars, bridgeVars
<1>2. late \in Nat /\ faults \in Nat /\ Len(journal) \in Nat
    BY SpentIsNumber DEF TypeInvariant, TrialInvariant
<1>3. CASE PageEnd - cursor = PageSize
  <2>1. step' = "fetch"
      BY <1>1, <1>3 DEF VerifierFetches
  <2> QED
      BY <1>1, <1>2, <2>1, QuietBacked
<1>4. CASE PageEnd - cursor # PageSize
  <2>1. cursor' = Len(journal) /\ step' = AfterFetch /\ journal' = journal
        /\ scenario' = scenario
      BY <1>4, PageEndInside DEF VerifierFetches, PageIsStored, bridgeVars
  <2>2. step' \in {"begin", "resume", "idle"}
      BY <2>1 DEF AfterFetch
  <2>3. ASSUME ReceiptIsKnown
        PROVE  ReceiptIsKnown'
    <3>1. PICK i \in Receipts(journal, scenario) : TRUE
        BY <2>3 DEF ReceiptIsKnown
    <3>2. i \in 1..Len(journal)
        BY <3>1 DEF Receipts, ControlAt, LinkedAt, At
    <3>3. i <= cursor' /\ i \in Receipts(journal', scenario')
        BY <1>2, <2>1, <3>1, <3>2
    <3> QED
        BY <2>2, <3>3 DEF ReceiptIsKnown
  <2>4. Spent' <= Spent /\ Spent' \in Nat /\ Spent \in Nat
      BY <1>1, <1>2, <2>2, QuietSpent, SpentIsNumber
  <2>5. Spent <= faults => Spent' <= faults'
      BY <1>1, <1>2, <2>4
  <2>6. Spent <= faults + 1 => Spent' <= faults' + 1
      BY <1>1, <1>2, <2>4
  <2> QED
      BY <2>3, <2>5, <2>6 DEF SpentIsBacked
<1> QED
    BY <1>3, <1>4
LEMMA BridgeBacked ==
    ASSUME TypeInvariant, TypeInvariant', SpentIsBacked, BridgeKeeps, Bridge, ~BridgeApplies,
           ~Marks, faults' \in {faults, faults + 1}
    PROVE  SpentIsBacked'
<1>1. late \in Nat /\ posted \in Nat /\ (posted > 0 /\ late = 0 => step = "wait")
    BY DEF TypeInvariant, RequestsTyped
<1>2. CASE BridgeTakesRequest \/ BridgeMoves
  <2>1. late' = late /\ step' = step /\ cursor' = cursor
      BY <1>2 DEF BridgeTakesRequest, BridgeMoves, trialVars, requestVars, verifierVars
  <2> QED
      BY <1>1, <2>1, QuietBacked
<1>3. CASE BridgeRefuses
  <2>1. posted > 0 /\ Answered("idle")
      BY <1>3 DEF BridgeRefuses
  <2>2. CASE late > 0
    <3>1. late' = late - 1 /\ step' = step /\ cursor' = cursor
        BY <2>1, <2>2 DEF Answered, verifierVars
    <3>2. late' <= late
        BY <1>1, <3>1
    <3> QED
        BY <3>1, <3>2, QuietBacked
  <2>3. CASE ~(late > 0)
    <3>1. late' = late /\ step' = "idle"
        BY <2>1, <2>3 DEF Answered, Ends, Release
    <3> QED
        BY <1>1, <3>1, QuietBacked
  <2> QED
      BY <2>2, <2>3
<1>4. CASE BridgeGoes
  <2>1. late' = 0 /\ (step' = "idle" \/ (step' = step /\ cursor' = cursor))
      BY <1>4 DEF BridgeGoes, Fails, Ends, Release, verifierVars
  <2>2. late' <= late
      BY <1>1, <2>1
  <2> QED
      BY <2>1, <2>2, QuietBacked
<1> QED
    BY <1>2, <1>3, <1>4 DEF Bridge

LEMMA VerifierBacked ==
    ASSUME TypeInvariant, TypeInvariant', CursorInside, SpentIsBacked, BridgeKeeps, Verifier,
           ~CheckpointIsSigned, ~Marks, faults' \in {faults, faults + 1}
    PROVE  SpentIsBacked'
<1>1. late \in Nat /\ posted \in Nat
    BY DEF TypeInvariant, RequestsTyped
<1>2. CASE VerifierTakes \/ FetchFails \/ BeginRefuses \/ BeginResumes
  <2>1. late' = late /\ step' \in {"idle", "peek", "fetch"}
      BY <1>2 DEF VerifierTakes, FetchFails, BeginRefuses, BeginResumes, Fails, Ends, Release,
                  requestVars
  <2> QED
      BY <1>1, <2>1, QuietBacked
<1>3. CASE VerifierFetches
    BY <1>3, FetchingBacked
<1>4. CASE BeginOpens
  <2>1. late' = late /\ step' = "trigger" /\ step = "begin" /\ Receipts(Read, scenario) = {}
      BY <1>4 DEF BeginOpens, requestVars
  <2>2. ~ReceiptIsKnown
      BY <2>1, ReadShowsReceipts DEF ReceiptIsKnown
  <2>3. Spent <= faults
      BY <2>2 DEF SpentIsBacked
  <2> QED
      BY <1>1, <2>1, <2>3, QuietBacked
<1>5. CASE VerifierTriggers
  <2>1. late' = late /\ step' \in {"idle", "wait"} /\ step = "trigger"
      BY <1>5 DEF VerifierTriggers, Fails, Ends, Release
  <2>2. Spent <= faults
      BY <2>1 DEF SpentIsBacked, ReceiptIsKnown
  <2> QED
      BY <1>1, <2>1, <2>2, QuietBacked
<1>6. CASE TriggerTimesOut
  <2>1. late' = late + 1 /\ step = "wait" /\ step' = "idle" /\ faults' = faults + 1
      BY <1>6 DEF TriggerTimesOut, Fails, Ends, Release, Fault
  <2> QED
      BY <2>1, GivingUpBacked
<1>7. CASE CompletePeeks \/ CompleteResumes \/ CollectFails \/ CollectSubmits
  <2>1. late' = late /\ step' \in {"idle", "fetch", "collect"}
      BY <1>7 DEF CompletePeeks, CompleteResumes, CollectFails, CollectSubmits, Fails, Ends,
                  Release, requestVars
  <2> QED
      BY <1>1, <2>1, QuietBacked
<1>8. CASE CollectPolls
  <2>1. late' = late /\ step' = step /\ step = "collect"
      BY <1>8 DEF CollectPolls, requestVars
  <2> QED
      BY <1>1, <2>1, QuietBacked
<1>9. CASE VerifierCrashes
  <2>1. step' = "idle" /\ faults' = faults + 1
        /\ late' = IF step = "wait" THEN late + 1 ELSE late
      BY <1>9 DEF VerifierCrashes, Fault
  <2>2. CASE step = "wait"
      BY <2>1, <2>2, GivingUpBacked
  <2>3. CASE step # "wait"
      BY <1>1, <2>1, <2>3, QuietBacked
  <2> QED
      BY <2>2, <2>3
<1> QED
    BY <1>2, <1>3, <1>4, <1>5, <1>6, <1>7, <1>8, <1>9 DEF Verifier

LEMMA OthersBacked ==
    ASSUME TypeInvariant, TypeInvariant', SpentIsBacked, BridgeKeeps,
           Command \/ Campaign \/ UNCHANGED vars, ~Marks, faults' \in {faults, faults + 1}
    PROVE  SpentIsBacked'
<1>1. late \in Nat
    BY DEF TypeInvariant, RequestsTyped
<1>2. ASSUME late' = late /\ step' = step /\ cursor' = cursor
      PROVE  SpentIsBacked'
    BY <1>1, <1>2, QuietBacked
<1>3. CASE Command
  <2>1. late' = late /\ step' = step /\ cursor' = cursor
      BY <1>3 DEF Command, CommandStarts, CommandChecks, CommandExercises, CommandRecovers,
                  RecoveryTimesOut, CommandGivesUp, Call, requestVars, verifierVars
  <2> QED
      BY <1>2, <2>1
<1>4. CASE CheckpointIsCalled
  <2>1. op = Idle /\ step' = "sign" /\ late' = late /\ faults' = faults + 1
      BY <1>4 DEF CheckpointIsCalled, Fault, requestVars
  <2>2. step = "idle"
      BY <2>1, IdleWaits
  <2> QED
      BY <2>1, <2>2, GivingUpBacked
<1>5. CASE Campaign /\ ~CheckpointIsCalled
  <2>1. late' = late /\ step' = step /\ cursor' = cursor
      BY <1>5 DEF Campaign, SlotBecomesDue, CycleStarts, CycleReads, CycleRecords, CycleIsLost,
                  OtherReads, requestVars, verifierVars, trialVars
  <2> QED
      BY <1>2, <2>1
<1>6. CASE UNCHANGED vars
  <2>1. late' = late /\ step' = step /\ cursor' = cursor
      BY <1>6 DEF vars, requestVars, verifierVars, trialVars
  <2> QED
      BY <1>2, <2>1
<1> QED
    BY <1>3, <1>4, <1>5, <1>6

LEMMA StepBacked ==
    ASSUME TypeInvariant, TypeInvariant', CursorInside, SpentIsBacked, [Next]_vars
    PROVE  SpentIsBacked'
<1>1. BridgeKeeps /\ faults' \in {faults, faults + 1}
    BY StepKeeps, FaultsAdd DEF TypeInvariant
<1>2. CASE BridgeApplies
    BY <1>1, <1>2, AppliesBacked
<1>3. CASE CheckpointIsSigned
    BY <1>1, <1>3, SignsBacked
<1>4. CASE ~BridgeApplies /\ ~CheckpointIsSigned
  <2>1. ~Marks
      BY <1>4, OthersMarkNothing
  <2> QED
      BY <1>1, <1>4, <2>1, BridgeBacked, VerifierBacked, OthersBacked DEF Next
<1> QED
    BY <1>2, <1>3, <1>4

CountInvariant == CursorInside /\ SpentIsBacked

(* When the bridge has been started once, there is no receipt.             *)
LEMMA InitCounted == Init => CountInvariant
<1>1. SUFFICES ASSUME Init PROVE CountInvariant
    OBVIOUS
<1>2. Len(journal) = 1 /\ journal[1].what.type = "bridge_started"
    BY <1>1 DEF Init, BridgeInit, Event, Plain
<1>3. At(journal, 1, 1, "control_applied") = {} /\ At(journal, 1, 1, "campaign_checkpoint") = {}
    BY <1>2 DEF At
<1>6. Receipts(journal, scenario) = {} /\ Checkpoints = {}
    BY <1>2, <1>3 DEF Receipts, ControlAt, LinkedAt, Checkpoints
<1>4. Applied = 0 /\ Cardinality(Checkpoints) = 0
    BY <1>6, FS_EmptySet DEF Applied
<1>5. late = 0 /\ faults = 0 /\ step = "idle" /\ cursor = 0
    BY <1>1 DEF Init, BridgeInit, ScenarioInit
<1> QED
    BY <1>2, <1>4, <1>5 DEF CountInvariant, CursorInside, SpentIsBacked, Spent

LEMMA CountInvariantHolds == Spec => []CountInvariant
<1>1. TypeInvariant /\ TypeInvariant' /\ CountInvariant /\ [Next]_vars => CountInvariant'
    BY CursorStaysInside, StepBacked DEF CountInvariant
<1> QED
    BY InitCounted, TypeInvariantHolds, <1>1, PTL DEF Spec

(* However often the command, the verifier and the bridge fail, each       *)
(* control that the bridge applies beyond the first has a failure of its   *)
(* own behind it.                                                          *)
THEOREM ControlsAreNotRepeated == Spec => []ControlIsNotRepeated
<1>1. ASSUME TypeInvariant, CountInvariant
      PROVE  ControlIsNotRepeated
  <2>1. /\ Applied \in Nat /\ late \in Nat /\ Cardinality(Checkpoints) \in Nat
        /\ faults \in Nat /\ Spent \in Nat
      BY <1>1, SpentIsNumber
  <2>2. Spent <= faults + 1
      BY <1>1, <2>1 DEF CountInvariant, SpentIsBacked
  <2>3. Applied + Cardinality(Checkpoints) <= Spent
      BY <2>1 DEF Spent
  <2>4. Applied <= 1 + faults - Cardinality(Checkpoints)
      BY <2>1, <2>2, <2>3
  <2> QED
      BY <2>4 DEF ControlIsNotRepeated, Applied
<1> QED
    BY TypeInvariantHolds, CountInvariantHolds, <1>1, PTL
-----------------------------------------------------------------------------
(* What a recorded trial proves: the shape of the bridge's journal. *)

(* What ends a control that has been applied.                              *)
ConsumedBy(s) ==
    CASE s = "reconnect" -> "session_ready"
      [] s = "bridge_restart" -> "bridge_stopping"
      [] OTHER -> DetectedBy[s]

IsRequest(e, s) ==
    /\ e.type = "control_requested" /\ e.scenario = s
    /\ e.action = ActionOf[s] /\ e.step = "requested"
IsCleared(e, s) == e.type = "cache_cleared" /\ e.scenario = s
IsReceipt(e, s) ==
    /\ e.type = "control_applied" /\ e.scenario = s
    /\ e.action = ActionOf[s] /\ e.step = "applied"
IsConsumed(e, s) ==
    /\ e.type = ConsumedBy(s) /\ e.scenario = s
    /\ e.action = ActionOf[s] /\ e.step = "consumed"

(* The boots are in order and each of them is in the journal.              *)
BootsAreKnown(events, b) ==
    /\ \A i, j \in 1..Len(events) : i <= j => events[i].boot <= events[j].boot
    /\ \A i \in 1..Len(events) :
          /\ events[i].boot <= b
          /\ events[i].boot < b =>
                \E k \in 1..Len(events) : /\ i < k /\ events[k].what.type = "bridge_started"
                                          /\ events[k].boot = events[i].boot + 1

(* A session that connects has a generation of its own.                    *)
GensBelow(events, b, g) ==
    \A i \in 1..Len(events) : events[i].boot = b => events[i].gen <= g
GensGrow(events) ==
    \A i, c \in 1..Len(events) :
        /\ i < c /\ events[i].boot = events[c].boot
        /\ events[c].what.type = "session_connecting"
        => events[i].gen < events[c].gen

(* No session is ready after a disconnection before it has connected.      *)
ConnectedSince(events, b) ==
    \A d \in 1..Len(events) :
        events[d].boot = b /\ events[d].what.type = "session_disconnected" =>
            \E c \in 1..Len(events) : d < c /\ events[c].what.type = "session_connecting"
ConnectedAgain(events) ==
    \A d, l \in 1..Len(events) :
        /\ d < l /\ events[d].boot = events[l].boot
        /\ events[d].what.type = "session_disconnected"
        /\ events[l].what.type = "session_ready"
        => \E c \in 1..Len(events) :
              d < c /\ c < l /\ events[c].what.type = "session_connecting"

(* In one life of the bridge a control is applied again only when it has   *)
(* been consumed, and a restart never; nothing is consumed that was not    *)
(* applied.                                                                *)
ReceiptIn(events, s, b) ==
    \E a \in 1..Len(events) : IsReceipt(events[a].what, s) /\ events[a].boot = b
ConsumedSince(events, s, b) ==
    \A a \in 1..Len(events) :
        IsReceipt(events[a].what, s) /\ events[a].boot = b =>
            /\ s # "bridge_restart"
            /\ \E c \in 1..Len(events) : a < c /\ IsConsumed(events[c].what, s)
ConsumedIsApplied(events, s) ==
    \A l \in 1..Len(events) :
        IsConsumed(events[l].what, s) =>
            \E a \in 1..Len(events) :
                a < l /\ IsReceipt(events[a].what, s) /\ events[a].boot = events[l].boot
AppliedIsConsumed(events, s) ==
    \A a, z \in 1..Len(events) :
        /\ a < z /\ events[a].boot = events[z].boot
        /\ IsReceipt(events[a].what, s) /\ IsReceipt(events[z].what, s)
        => /\ s # "bridge_restart"
           /\ \E c \in 1..Len(events) : a < c /\ c < z /\ IsConsumed(events[c].what, s)

(* One more event.                                                         *)
Longer(events, e, b, g, longer) ==
    \E back \in BOOLEAN : longer = Append(events, Event(e, b, g, back))

LEMMA LongerPositions ==
    ASSUME NEW events \in Seq(Entry), NEW e \in Emitted, NEW b \in Nat, NEW g \in Nat,
           NEW longer, Longer(events, e, b, g, longer)
    PROVE  \E last \in Nat :
              /\ last = Len(longer) /\ last = Len(events) + 1
              /\ longer[last].what = e /\ longer[last].boot = b /\ longer[last].gen = g
              /\ \A i \in 1..Len(events) :
                    /\ i \in 1..last /\ i < last /\ longer[i] = events[i]
                    /\ events[i].boot \in Nat /\ events[i].gen \in Nat
              /\ \A i \in 1..last : i \in 1..Len(events) \/ i = last
<1> PICK back \in BOOLEAN : longer = Append(events, Event(e, b, g, back))
    BY DEF Longer
<1>1. /\ Len(longer) = Len(events) + 1 /\ longer[Len(events) + 1] = Event(e, b, g, back)
      /\ \A i \in 1..Len(events) : longer[i] = events[i]
    BY AppendingEvent
<1>2. Event(e, b, g, back).what = e /\ Event(e, b, g, back).boot = b
      /\ Event(e, b, g, back).gen = g
    BY DEF Event
<1>3. \A i \in 1..Len(events) : events[i].boot \in Nat /\ events[i].gen \in Nat
  <2> TAKE i \in 1..Len(events)
  <2>1. events[i] \in Entry
      OBVIOUS
  <2> QED
      BY <2>1 DEF Entry
<1>4. Len(events) \in Nat
    OBVIOUS
<1> QED
    BY <1>1, <1>2, <1>3, <1>4

LEMMA BootsLonger ==
    ASSUME NEW events \in Seq(Entry), NEW e \in Emitted, NEW b \in Nat, NEW g \in Nat,
           NEW longer, Longer(events, e, b, g, longer),
           NEW before \in Nat, BootsAreKnown(events, before),
           b = before \/ (b = before + 1 /\ e.type = "bridge_started")
    PROVE  BootsAreKnown(longer, b)
<1>1. PICK last \in Nat :
              /\ last = Len(longer) /\ last = Len(events) + 1
              /\ longer[last].what = e /\ longer[last].boot = b
              /\ \A i \in 1..Len(events) :
                    /\ i \in 1..last /\ i < last /\ longer[i] = events[i]
                    /\ events[i].boot \in Nat
              /\ \A i \in 1..last : i \in 1..Len(events) \/ i = last
    BY LongerPositions
<1>2. ASSUME NEW i \in 1..Len(longer), NEW j \in 1..Len(longer), i <= j
      PROVE  longer[i].boot <= longer[j].boot
  <2>1. CASE j = last
    <3>1. CASE i = last
        BY <1>1, <2>1, <3>1
    <3>2. CASE i \in 1..Len(events)
        BY <1>1, <2>1, <3>2 DEF BootsAreKnown
    <3> QED
        BY <1>1, <3>1, <3>2
  <2>2. CASE j \in 1..Len(events)
    <3>1. i \in 1..Len(events)
        BY <1>1, <1>2, <2>2
    <3> QED
        BY <1>1, <1>2, <2>2, <3>1 DEF BootsAreKnown
  <2> QED
      BY <1>1, <2>1, <2>2
<1>3. ASSUME NEW i \in 1..Len(longer)
      PROVE  /\ longer[i].boot <= b
             /\ longer[i].boot < b =>
                   \E k \in 1..Len(longer) : /\ i < k /\ longer[k].what.type = "bridge_started"
                                             /\ longer[k].boot = longer[i].boot + 1
  <2>1. CASE i = last
      BY <1>1, <2>1
  <2>2. CASE i \in 1..Len(events)
    <3>1. longer[i] = events[i] /\ events[i].boot \in Nat /\ events[i].boot <= before
        BY <1>1, <2>2 DEF BootsAreKnown
    <3>2. CASE events[i].boot < before
      <4>1. PICK k \in 1..Len(events) : /\ i < k /\ events[k].what.type = "bridge_started"
                                        /\ events[k].boot = events[i].boot + 1
          BY <2>2, <3>2 DEF BootsAreKnown
      <4>2. k \in 1..Len(longer) /\ longer[k] = events[k]
          BY <1>1
      <4> QED
          BY <3>1, <4>1, <4>2
    <3>3. CASE events[i].boot = before
      <4>1. longer[i].boot < b => b = before + 1 /\ e.type = "bridge_started"
          BY <3>1, <3>3
      <4>2. last \in 1..Len(longer) /\ i < last
          BY <1>1, <2>2
      <4> QED
          BY <1>1, <3>1, <3>3, <4>1, <4>2
    <3> QED
        BY <3>1, <3>2, <3>3
  <2> QED
      BY <1>1, <2>1, <2>2
<1> QED
    BY <1>2, <1>3 DEF BootsAreKnown

LEMMA GensLonger ==
    ASSUME NEW events \in Seq(Entry), NEW e \in Emitted, NEW b \in Nat, NEW g \in Nat,
           NEW longer, Longer(events, e, b, g, longer),
           GensGrow(events), NEW before \in Nat,
           e.type = "session_connecting" => before < g /\ GensBelow(events, b, before)
    PROVE  GensGrow(longer)
<1>1. PICK last \in Nat :
              /\ last = Len(longer) /\ last = Len(events) + 1
              /\ longer[last].what = e /\ longer[last].boot = b /\ longer[last].gen = g
              /\ \A i \in 1..Len(events) :
                    /\ i \in 1..last /\ i < last /\ longer[i] = events[i]
                    /\ events[i].gen \in Nat
              /\ \A i \in 1..last : i \in 1..Len(events) \/ i = last
    BY LongerPositions
<1>2. ASSUME NEW i \in 1..Len(longer), NEW c \in 1..Len(longer),
             i < c, longer[i].boot = longer[c].boot,
             longer[c].what.type = "session_connecting"
      PROVE  longer[i].gen < longer[c].gen
  <2>1. i \in 1..Len(events)
      BY <1>1, <1>2
  <2>2. CASE c = last
      BY <1>1, <1>2, <2>1, <2>2 DEF GensBelow
  <2>3. CASE c \in 1..Len(events)
      BY <1>1, <1>2, <2>1, <2>3 DEF GensGrow
  <2> QED
      BY <1>1, <2>2, <2>3
<1> QED
    BY <1>2 DEF GensGrow

LEMMA GensBelowLonger ==
    ASSUME NEW events \in Seq(Entry), NEW e \in Emitted, NEW b \in Nat, NEW g \in Nat,
           NEW longer, Longer(events, e, b, g, longer),
           NEW before \in Nat, before <= g, GensBelow(events, b, before)
    PROVE  GensBelow(longer, b, g)
<1>1. PICK last \in Nat :
              /\ last = Len(longer)
              /\ longer[last].gen = g
              /\ \A i \in 1..Len(events) : longer[i] = events[i] /\ events[i].gen \in Nat
              /\ \A i \in 1..last : i \in 1..Len(events) \/ i = last
    BY LongerPositions
<1> QED
    BY <1>1 DEF GensBelow

LEMMA ConnectedLonger ==
    ASSUME NEW events \in Seq(Entry), NEW e \in Emitted, NEW b \in Nat, NEW g \in Nat,
           NEW longer, Longer(events, e, b, g, longer),
           ConnectedAgain(events), e.type = "session_ready" => ConnectedSince(events, b)
    PROVE  ConnectedAgain(longer)
<1>1. PICK last \in Nat :
              /\ last = Len(longer) /\ last = Len(events) + 1
              /\ longer[last].what = e /\ longer[last].boot = b
              /\ \A i \in 1..Len(events) :
                    i \in 1..last /\ i < last /\ longer[i] = events[i]
              /\ \A i \in 1..last : i \in 1..Len(events) \/ i = last
    BY LongerPositions
<1>2. ASSUME NEW d \in 1..Len(longer), NEW l \in 1..Len(longer), d < l,
             longer[d].boot = longer[l].boot,
             longer[d].what.type = "session_disconnected",
             longer[l].what.type = "session_ready"
      PROVE  \E c \in 1..Len(longer) :
                d < c /\ c < l /\ longer[c].what.type = "session_connecting"
  <2>1. d \in 1..Len(events)
      BY <1>1, <1>2
  <2>2. CASE l = last
    <3>1. PICK c \in 1..Len(events) : d < c /\ events[c].what.type = "session_connecting"
        BY <1>1, <1>2, <2>1, <2>2 DEF ConnectedSince
    <3> QED
        BY <1>1, <2>2, <3>1
  <2>3. CASE l \in 1..Len(events)
    <3>1. PICK c \in 1..Len(events) :
             d < c /\ c < l /\ events[c].what.type = "session_connecting"
        BY <1>1, <1>2, <2>1, <2>3 DEF ConnectedAgain
    <3> QED
        BY <1>1, <3>1
  <2> QED
      BY <1>1, <2>2, <2>3
<1> QED
    BY <1>2 DEF ConnectedAgain

LEMMA ConnectedSinceLonger ==
    ASSUME NEW events \in Seq(Entry), NEW e \in Emitted, NEW b \in Nat, NEW g \in Nat,
           NEW longer, Longer(events, e, b, g, longer),
           \/ e.type = "session_connecting"
           \/ e.type # "session_disconnected" /\ ConnectedSince(events, b)
    PROVE  ConnectedSince(longer, b)
<1>1. PICK last \in Nat :
              /\ last = Len(longer) /\ last = Len(events) + 1
              /\ longer[last].what = e /\ longer[last].boot = b
              /\ \A i \in 1..Len(events) :
                    i \in 1..last /\ i < last /\ longer[i] = events[i]
              /\ \A i \in 1..last : i \in 1..Len(events) \/ i = last
    BY LongerPositions
<1>2. ASSUME NEW d \in 1..Len(longer), longer[d].boot = b,
             longer[d].what.type = "session_disconnected"
      PROVE  \E c \in 1..Len(longer) : d < c /\ longer[c].what.type = "session_connecting"
  <2>1. d \in 1..Len(events) /\ last \in 1..Len(longer) /\ d < last
      BY <1>1, <1>2
  <2>2. CASE e.type = "session_connecting"
      BY <1>1, <2>1, <2>2
  <2>3. CASE ConnectedSince(events, b)
    <3>1. PICK c \in 1..Len(events) : d < c /\ events[c].what.type = "session_connecting"
        BY <1>1, <1>2, <2>1, <2>3 DEF ConnectedSince
    <3> QED
        BY <1>1, <3>1
  <2> QED
      BY <2>2, <2>3
<1> QED
    BY <1>2 DEF ConnectedSince

LEMMA ReceiptInLonger ==
    ASSUME NEW events \in Seq(Entry), NEW e \in Emitted, NEW b \in Nat, NEW g \in Nat,
           NEW longer, Longer(events, e, b, g, longer),
           NEW s, ReceiptIn(events, s, b) \/ IsReceipt(e, s)
    PROVE  ReceiptIn(longer, s, b)
<1>1. PICK last \in Nat :
              /\ last = Len(longer) /\ last \in 1..Len(longer)
              /\ longer[last].what = e /\ longer[last].boot = b
              /\ \A i \in 1..Len(events) : i \in 1..last /\ longer[i] = events[i]
    BY LongerPositions
<1> QED
    BY <1>1 DEF ReceiptIn

LEMMA ConsumedSinceLonger ==
    ASSUME NEW events \in Seq(Entry), NEW e \in Emitted, NEW b \in Nat, NEW g \in Nat,
           NEW longer, Longer(events, e, b, g, longer),
           NEW s, ~IsReceipt(e, s),
           ConsumedSince(events, s, b) \/ (s # "bridge_restart" /\ IsConsumed(e, s))
    PROVE  ConsumedSince(longer, s, b)
<1>1. PICK last \in Nat :
              /\ last = Len(longer) /\ last = Len(events) + 1
              /\ longer[last].what = e /\ longer[last].boot = b
              /\ \A i \in 1..Len(events) :
                    i \in 1..last /\ i < last /\ longer[i] = events[i]
              /\ \A i \in 1..last : i \in 1..Len(events) \/ i = last
    BY LongerPositions
<1>2. ASSUME NEW a \in 1..Len(longer), longer[a].boot = b, IsReceipt(longer[a].what, s)
      PROVE  /\ s # "bridge_restart"
             /\ \E c \in 1..Len(longer) : a < c /\ IsConsumed(longer[c].what, s)
  <2>1. a \in 1..Len(events) /\ last \in 1..Len(longer) /\ a < last
      BY <1>1, <1>2
  <2>2. CASE s # "bridge_restart" /\ IsConsumed(e, s)
      BY <1>1, <2>1, <2>2
  <2>3. CASE ConsumedSince(events, s, b)
    <3>1. /\ s # "bridge_restart"
          /\ \E c \in 1..Len(events) : a < c /\ IsConsumed(events[c].what, s)
        BY <1>1, <1>2, <2>1, <2>3 DEF ConsumedSince
    <3> QED
        BY <1>1, <3>1
  <2> QED
      BY <2>2, <2>3
<1> QED
    BY <1>2 DEF ConsumedSince

LEMMA ConsumedIsAppliedLonger ==
    ASSUME NEW events \in Seq(Entry), NEW e \in Emitted, NEW b \in Nat, NEW g \in Nat,
           NEW longer, Longer(events, e, b, g, longer),
           NEW s, ConsumedIsApplied(events, s), IsConsumed(e, s) => ReceiptIn(events, s, b)
    PROVE  ConsumedIsApplied(longer, s)
<1>1. PICK last \in Nat :
              /\ last = Len(longer) /\ last = Len(events) + 1
              /\ longer[last].what = e /\ longer[last].boot = b
              /\ \A i \in 1..Len(events) :
                    i \in 1..last /\ i < last /\ longer[i] = events[i]
              /\ \A i \in 1..last : i \in 1..Len(events) \/ i = last
    BY LongerPositions
<1>2. ASSUME NEW l \in 1..Len(longer), IsConsumed(longer[l].what, s)
      PROVE  \E a \in 1..Len(longer) :
                a < l /\ IsReceipt(longer[a].what, s) /\ longer[a].boot = longer[l].boot
  <2>1. CASE l = last
      BY <1>1, <1>2, <2>1 DEF ReceiptIn
  <2>2. CASE l \in 1..Len(events)
    <3>1. PICK a \in 1..Len(events) :
             a < l /\ IsReceipt(events[a].what, s) /\ events[a].boot = events[l].boot
        BY <1>1, <1>2, <2>2 DEF ConsumedIsApplied
    <3> QED
        BY <1>1, <2>2, <3>1
  <2> QED
      BY <1>1, <2>1, <2>2
<1> QED
    BY <1>2 DEF ConsumedIsApplied

LEMMA AppliedIsConsumedLonger ==
    ASSUME NEW events \in Seq(Entry), NEW e \in Emitted, NEW b \in Nat, NEW g \in Nat,
           NEW longer, Longer(events, e, b, g, longer),
           NEW s, AppliedIsConsumed(events, s), IsReceipt(e, s) => ConsumedSince(events, s, b)
    PROVE  AppliedIsConsumed(longer, s)
<1>1. PICK last \in Nat :
              /\ last = Len(longer) /\ last = Len(events) + 1
              /\ longer[last].what = e /\ longer[last].boot = b
              /\ \A i \in 1..Len(events) :
                    i \in 1..last /\ i < last /\ longer[i] = events[i]
              /\ \A i \in 1..last : i \in 1..Len(events) \/ i = last
    BY LongerPositions
<1>2. ASSUME NEW a \in 1..Len(longer), NEW z \in 1..Len(longer), a < z,
             longer[a].boot = longer[z].boot,
             IsReceipt(longer[a].what, s), IsReceipt(longer[z].what, s)
      PROVE  /\ s # "bridge_restart"
             /\ \E c \in 1..Len(longer) : a < c /\ c < z /\ IsConsumed(longer[c].what, s)
  <2>1. a \in 1..Len(events)
      BY <1>1, <1>2
  <2>2. CASE z = last
    <3>1. /\ s # "bridge_restart"
          /\ \E c \in 1..Len(events) : a < c /\ IsConsumed(events[c].what, s)
        BY <1>1, <1>2, <2>1, <2>2 DEF ConsumedSince
    <3> QED
        BY <1>1, <2>2, <3>1
  <2>3. CASE z \in 1..Len(events)
    <3>1. /\ s # "bridge_restart"
          /\ \E c \in 1..Len(events) : a < c /\ c < z /\ IsConsumed(events[c].what, s)
        BY <1>1, <1>2, <2>1, <2>3 DEF AppliedIsConsumed
    <3> QED
        BY <1>1, <3>1
  <2> QED
      BY <1>1, <2>2, <2>3
<1> QED
    BY <1>2 DEF AppliedIsConsumed

(* Nothing is known yet of a boot that has not begun.                      *)
LEMMA NewBoot ==
    ASSUME NEW events \in Seq(Entry), NEW b \in Nat, BootsAreKnown(events, b), NEW s
    PROVE  GensBelow(events, b + 1, 0) /\ ConsumedSince(events, s, b + 1)
<1>1. \A i \in 1..Len(events) : events[i].boot # b + 1
  <2> TAKE i \in 1..Len(events)
  <2>1. events[i] \in Entry /\ events[i].boot <= b
      BY DEF BootsAreKnown
  <2> QED
      BY <2>1 DEF Entry
<1> QED
    BY <1>1 DEF GensBelow, ConsumedSince

(* Which of the bridge's events receipts are, and which show that a        *)
(* control was consumed.                                                   *)
LEMMA ConsumedByIsOwn ==
    \A s \in Controlled : ConsumedBy(s) \notin {"control_applied", "campaign_checkpoint"}
BY DEF Controlled, ActionOf, ConsumedBy, Faults, DetectedBy

Neutral(e) == ~IsReceipt(e, scenario) /\ ~IsConsumed(e, scenario)

LEMMA NeutralEvents ==
    ASSUME scenario \in Controlled
    PROVE  /\ \A t : Neutral(Plain(t)) /\ Neutral(Scoped(t)) /\ \A s : Neutral(Linked(t, s))
           /\ \A t, s : Neutral(Control(t, s, "requested"))
           /\ Neutral(Checkpoint)
<1>1. \A t : Plain(t).step = None /\ Scoped(t).step = None /\ \A s : Linked(t, s).step = None
    BY DEF Plain, Scoped, Linked
<1>2. \A t, s : Control(t, s, "requested").step = "requested"
    BY DEF Plain, Scoped, Linked, Control
<1>3. Checkpoint.type = "campaign_checkpoint"
    BY DEF Checkpoint, Plain
<1>4. None # "applied" /\ None # "consumed"
    BY DEF None
<1> QED
    BY <1>1, <1>2, <1>3, <1>4, ConsumedByIsOwn DEF Neutral, IsReceipt, IsConsumed

LEMMA ControlEvents ==
    ASSUME NEW s \in Controlled
    PROVE  /\ IsReceipt(Control("control_applied", s, "applied"), s)
           /\ ~IsConsumed(Control("control_applied", s, "applied"), s)
           /\ IsConsumed(Control(ConsumedBy(s), s, "consumed"), s)
           /\ ~IsReceipt(Control(ConsumedBy(s), s, "consumed"), s)
           /\ IsRequest(Control("control_requested", s, "requested"), s)
           /\ IsCleared(Linked("cache_cleared", s), s)
<1>1. \A t, st : LET e == Control(t, s, st)
                 IN  e.type = t /\ e.scenario = s /\ e.action = ActionOf[s] /\ e.step = st
    BY DEF Plain, Scoped, Linked, Control
<1>2. LET e == Linked("cache_cleared", s)
      IN  e.type = "cache_cleared" /\ e.scenario = s
    BY DEF Plain, Scoped, Linked
<1> QED
    BY <1>1, <1>2 DEF IsReceipt, IsConsumed, IsRequest, IsCleared

(* How a control gets on: it is requested, armed, applied, consumed.  What *)
(* a restart has left is not taken from the process that stops.            *)
ControlMoves(request, cleared, receipt, consumed) ==
    \/ control' = control /\ pending' = pending /\ ~receipt /\ ~consumed
    \/ control = None /\ pending = None /\ control' = "requested" /\ pending' = None
          /\ request /\ ~receipt /\ ~consumed
    \/ control = "requested" /\ control' = "armed" /\ pending' # None
          /\ (scenario = "missing_data" => cleared) /\ ~receipt /\ ~consumed
    \/ control = "armed" /\ control' = None /\ pending' = pending /\ receipt /\ ~consumed
    \/ control = None /\ pending # None /\ control' = None /\ ~receipt /\ consumed
          /\ \/ pending' = None /\ scenario # "bridge_restart"
             \/ pending' = pending

(* The steps of the bridge: it appends an event of its own, or none; the   *)
(* process goes; it is started again.  Only a restart asks for a stop.     *)
StopIsAsked == stopping = "no" /\ stopping' # "no" => scenario = "bridge_restart"

Says(e) ==
    /\ session # "off" /\ session' # "off"
    /\ journal' = Append(journal, Event(e, boot, gen', FALSE)) /\ boot' = boot
    /\ gen' = IF e.type = "session_connecting" THEN gen + 1 ELSE gen
    /\ e.type = "session_disconnected" => session' = "ended"
    /\ e.type = "session_ready" => session = "up"
    /\ session' \in {"connecting", "up"} =>
          e.type = "session_connecting" \/ session \in {"connecting", "up"}
    /\ refreshing' => refreshing /\ session' = session
    /\ StopIsAsked
    /\ ControlMoves(IsRequest(e, scenario), IsCleared(e, scenario),
                    IsReceipt(e, scenario), IsConsumed(e, scenario))

OffIsEmpty ==
    session = "off" => ~refreshing /\ pending = None /\ control = None /\ stopping = "no"

SaysNothing ==
    /\ journal' = journal /\ boot' = boot /\ gen' = gen /\ session' = session
    /\ refreshing' => refreshing \/ session = "up"
    /\ StopIsAsked
    /\ ControlMoves(FALSE, FALSE, FALSE, FALSE)
    /\ OffIsEmpty'

Goes ==
    /\ session # "off" /\ session' = "off" /\ boot' = boot
    /\ pending' = None /\ control' = None /\ ~refreshing' /\ stopping' = "no"
    /\ stopping # "no" \/ "crash" \in Kinds
    /\ \/ journal' = journal
       \/ journal' = Append(journal, Event(Plain("cache_cleared"), boot, gen, FALSE))

Starts ==
    /\ session = "off" /\ session' = "idle" /\ boot' = boot + 1 /\ gen' = gen
    /\ pending' = pending /\ control' = control /\ refreshing' = refreshing
    /\ \E back \in BOOLEAN :
          journal' = Append(journal, Event(Plain("bridge_started"), boot + 1, 0, back))

BridgeDoes == (\E e \in Emitted : Says(e)) \/ SaysNothing \/ Goes \/ Starts

(* The types of the events that are followed.                              *)
LEMMA OtherTypes ==
    /\ \A t : Plain(t).type = t /\ Scoped(t).type = t /\ \A s : Linked(t, s).type = t
    /\ \A t, s, st : Control(t, s, st).type = t
    /\ Checkpoint.type = "campaign_checkpoint"
    /\ \A s \in Faults : DetectedBy[s] \notin {"session_connecting", "session_disconnected",
                                               "session_ready"}
BY DEF Plain, Scoped, Linked, Control, Checkpoint, Faults, DetectedBy

LEMMA SessionSays ==
    ASSUME TypeInvariant, OffIsEmpty, refreshing => session = "up", SessionStep
    PROVE  BridgeDoes
<1>1. scenario \in Controlled /\ gen \in Nat
    BY DEF TypeInvariant, TrialInvariant
<1>2. \A t : Neutral(Plain(t))
    BY <1>1, NeutralEvents
<1>3. CASE Connect
  <2>1. Says(Plain("session_connecting"))
      BY <1>2, <1>3, OtherTypes DEF Connect, Says, Record, ControlMoves, StopIsAsked, Neutral, OffIsEmpty
  <2> QED
      BY <2>1, EmittedShapes DEF Ordinary, BridgeDoes
<1>4. CASE Subscribe
  <2>1. Says(Plain("session_authenticated"))
      BY <1>2, <1>4, OtherTypes DEF Subscribe, Says, Record, ControlMoves, StopIsAsked, Neutral
  <2> QED
      BY <2>1, EmittedShapes DEF Ordinary, BridgeDoes
<1>5. CASE SessionFails
  <2>1. Says(Plain("session_disconnected"))
      BY <1>2, <1>5, OtherTypes DEF SessionFails, Says, Record, ControlMoves, StopIsAsked, Neutral
  <2> QED
      BY <2>1, EmittedShapes DEF Ordinary, BridgeDoes
<1>6. CASE SessionClears
  <2>1. Says(Plain("cache_cleared"))
      BY <1>2, <1>6, OtherTypes DEF SessionClears, Says, Record, ControlMoves, StopIsAsked, Neutral
  <2> QED
      BY <2>1, EmittedShapes DEF Ordinary, BridgeDoes
<1>7. CASE RefreshChecks
  <2>1. SaysNothing
      BY <1>7 DEF RefreshChecks, SaysNothing, ControlMoves, StopIsAsked, OffIsEmpty
  <2> QED
      BY <2>1 DEF BridgeDoes
<1>8. CASE RefreshRecordsReady
  <2>1. session = "up" /\ session' = session /\ gen' = gen /\ boot' = boot /\ ~refreshing'
        /\ control = None /\ control' = control /\ stopping' = stopping
      BY <1>8 DEF RefreshRecordsReady
  <2>2. CASE pending = "reconnect"
    <3>1. scenario = "reconnect"
        BY <2>2 DEF TypeInvariant, TrialInvariant, None
    <3>2. Record(Control("session_ready", "reconnect", "consumed")) /\ pending' = None
        BY <1>8, <2>2 DEF RefreshRecordsReady
    <3>3. /\ IsConsumed(Control("session_ready", "reconnect", "consumed"), scenario)
          /\ ~IsReceipt(Control("session_ready", "reconnect", "consumed"), scenario)
        BY <1>1, <3>1, ControlEvents DEF ConsumedBy
    <3>4. Says(Control("session_ready", "reconnect", "consumed"))
        BY <2>1, <2>2, <3>1, <3>2, <3>3, OtherTypes DEF Says, Record, ControlMoves, StopIsAsked, None
    <3> QED
        BY <3>4, EmittedShapes DEF Ordinary, BridgeDoes
  <2>3. CASE pending # "reconnect"
    <3>1. Record(Plain("session_ready")) /\ pending' = pending
        BY <1>8, <2>3 DEF RefreshRecordsReady
    <3>2. Says(Plain("session_ready"))
        BY <1>2, <2>1, <3>1, OtherTypes DEF Says, Record, ControlMoves, StopIsAsked, Neutral
    <3> QED
        BY <3>2, EmittedShapes DEF Ordinary, BridgeDoes
  <2> QED
      BY <2>2, <2>3
<1> QED
    BY <1>3, <1>4, <1>5, <1>6, <1>7, <1>8 DEF SessionStep

LEMMA ControlSays ==
    ASSUME TypeInvariant, OffIsEmpty, refreshing => session = "up",
           ControlIsRequested \/ ControlArms \/ ControlIsApplied
    PROVE  BridgeDoes
<1>1. scenario \in Controlled /\ gen \in Nat
    BY DEF TypeInvariant, TrialInvariant
<1>2. CASE ControlIsRequested
  <2>1. Neutral(Control("control_requested", scenario, "requested"))
      BY <1>1, NeutralEvents
  <2>2. Says(Control("control_requested", scenario, "requested"))
      BY <1>1, <1>2, <2>1, ControlEvents, OtherTypes
         DEF ControlIsRequested, Says, Record, ControlMoves, StopIsAsked, Neutral, Running
  <2> QED
      BY <1>1, <2>2, EmittedShapes DEF BridgeDoes
<1>3. CASE ControlArms
  <2>1. /\ control = "requested" /\ control' = "armed" /\ pending' # None
        /\ boot' = boot /\ gen' = gen /\ session' = session /\ refreshing' = refreshing
        /\ stopping' = stopping
      BY <1>1, <1>3 DEF ControlArms, None, Controlled, ActionOf
  <2>2. session # "off"
      BY <2>1 DEF OffIsEmpty, None
  <2>3. ASSUME NEW e \in Emitted, Neutral(e), e.type = "cache_cleared", Record(e),
               scenario = "missing_data" => IsCleared(e, scenario)
        PROVE  BridgeDoes
    <3>1. Says(e)
        BY <2>1, <2>2, <2>3 DEF Says, Record, ControlMoves, StopIsAsked, Neutral
    <3> QED
        BY <3>1 DEF BridgeDoes
  <2>4. CASE scenario \in {"reconnect", "missing_data"}
    <3>1. Record(Linked("cache_cleared", scenario))
        BY <1>3, <2>4 DEF ControlArms
    <3> QED
        BY <1>1, <2>3, <2>4, <3>1, NeutralEvents, ControlEvents, EmittedShapes, OtherTypes
           DEF Ordinary
  <2>5. CASE scenario = "rate_limit"
    <3>1. Record(Plain("cache_cleared"))
        BY <1>3, <2>5 DEF ControlArms
    <3> QED
        BY <1>1, <2>3, <2>5, <3>1, NeutralEvents, EmittedShapes, OtherTypes DEF Ordinary
  <2>6. CASE scenario \notin {"reconnect", "missing_data", "rate_limit"}
    <3>1. journal' = journal
        BY <1>3, <2>6 DEF ControlArms
    <3>2. SaysNothing
        BY <2>1, <2>2, <2>6, <3>1 DEF SaysNothing, ControlMoves, StopIsAsked, OffIsEmpty
    <3> QED
        BY <3>2 DEF BridgeDoes
  <2> QED
      BY <2>4, <2>5, <2>6
<1>4. CASE ControlIsApplied
  <2>1. session # "off"
      BY <1>4 DEF ControlIsApplied, OffIsEmpty, None
  <2>2. Says(Control("control_applied", scenario, "applied"))
      BY <1>1, <1>4, <2>1, ControlEvents, OtherTypes DEF ControlIsApplied, Says, Record, ControlMoves, StopIsAsked
  <2> QED
      BY <1>1, <2>2, EmittedShapes DEF BridgeDoes
<1> QED
    BY <1>2, <1>3, <1>4

LEMMA ReadSays ==
    ASSUME TypeInvariant, refreshing => session = "up",
           ReadConsumes \/ ReadFindsNoData \/ OtherReads
    PROVE  BridgeDoes
<1>1. scenario \in Controlled /\ gen \in Nat /\ pending \in {None, scenario}
    BY DEF TypeInvariant, TrialInvariant
<1>2. CASE ReadConsumes \/ OtherReads
  <2>1. /\ session # "off" /\ session' = session /\ pending \in Faults /\ control = None
        /\ pending' = None /\ control' = control /\ gen' = gen /\ boot' = boot
        /\ refreshing' = refreshing /\ stopping' = stopping
        /\ Record(Control(DetectedBy[scenario], scenario, "consumed"))
      BY <1>2 DEF ReadConsumes, OtherReads, Running
  <2>2. /\ scenario \in Faults /\ pending # None /\ scenario # "bridge_restart"
        /\ ConsumedBy(scenario) = DetectedBy[scenario]
      BY <1>1, <2>1 DEF Faults, DetectedBy, None, ConsumedBy
  <2>3. Says(Control(DetectedBy[scenario], scenario, "consumed"))
    <3>1. /\ IsConsumed(Control(DetectedBy[scenario], scenario, "consumed"), scenario)
          /\ ~IsReceipt(Control(DetectedBy[scenario], scenario, "consumed"), scenario)
        BY <1>1, <2>2, ControlEvents
    <3>2. Control(DetectedBy[scenario], scenario, "consumed").type
             \notin {"session_connecting", "session_disconnected", "session_ready"}
        BY <2>2, OtherTypes
    <3> QED
        BY <2>1, <2>2, <3>1, <3>2 DEF Says, Record, ControlMoves, StopIsAsked
  <2> QED
      BY <2>2, <2>3, EmittedShapes DEF Ordinary, BridgeDoes
<1>3. CASE ReadFindsNoData
  <2>1. /\ session # "off" /\ session' = session /\ scenario \in Faults /\ boot' = boot
        /\ pending' = pending /\ control' = control /\ gen' = gen /\ refreshing' = refreshing
        /\ stopping' = stopping
      BY <1>3 DEF ReadFindsNoData, Running, Faults, DetectedBy
  <2>2. CASE journal' = journal
    <3>1. SaysNothing
        BY <2>1, <2>2 DEF SaysNothing, ControlMoves, StopIsAsked, OffIsEmpty
    <3> QED
        BY <3>1 DEF BridgeDoes
  <2>3. CASE Record(Scoped(DetectedBy[scenario]))
    <3>1. Scoped(DetectedBy[scenario]).type
             \notin {"session_connecting", "session_disconnected", "session_ready"}
        BY <2>1, OtherTypes
    <3>2. Neutral(Scoped(DetectedBy[scenario]))
        BY <1>1, NeutralEvents
    <3>3. Says(Scoped(DetectedBy[scenario]))
        BY <2>1, <2>3, <3>1, <3>2 DEF Says, Record, ControlMoves, StopIsAsked, Neutral
    <3> QED
        BY <2>1, <3>3, EmittedShapes DEF Ordinary, BridgeDoes
  <2> QED
      BY <1>3, <2>2, <2>3 DEF ReadFindsNoData
<1> QED
    BY <1>2, <1>3

LEMMA ProcessSays ==
    ASSUME TypeInvariant, OffIsEmpty, refreshing => session = "up",
           StopIsRecorded \/ Exit \/ Crash \/ Boot
    PROVE  BridgeDoes
<1>1. scenario \in Controlled /\ gen \in Nat /\ pending \in {None, scenario}
    BY DEF TypeInvariant, TrialInvariant
<1>2. CASE StopIsRecorded
  <2>1. /\ session # "off" /\ session' = session /\ control = None /\ control' = control
        /\ pending' = pending /\ gen' = gen /\ boot' = boot /\ refreshing' = refreshing
        /\ stopping = "asked"
      BY <1>2 DEF StopIsRecorded, OffIsEmpty
  <2>2. CASE pending = "bridge_restart"
    <3>1. /\ scenario = "bridge_restart" /\ pending # None
          /\ Record(Control("bridge_stopping", "bridge_restart", "consumed"))
        BY <1>1, <1>2, <2>2 DEF StopIsRecorded, None
    <3>2. /\ IsConsumed(Control("bridge_stopping", "bridge_restart", "consumed"), scenario)
          /\ ~IsReceipt(Control("bridge_stopping", "bridge_restart", "consumed"), scenario)
        BY <1>1, <3>1, ControlEvents DEF ConsumedBy
    <3>3. Says(Control("bridge_stopping", "bridge_restart", "consumed"))
        BY <2>1, <3>1, <3>2, OtherTypes DEF Says, Record, ControlMoves, StopIsAsked
    <3> QED
        BY <3>3, EmittedShapes DEF Ordinary, BridgeDoes
  <2>3. CASE pending # "bridge_restart"
    <3>1. Record(Plain("bridge_stopping")) /\ Neutral(Plain("bridge_stopping"))
        BY <1>1, <1>2, <2>3, NeutralEvents DEF StopIsRecorded
    <3>2. Says(Plain("bridge_stopping"))
        BY <2>1, <3>1, OtherTypes DEF Says, Record, ControlMoves, StopIsAsked, Neutral
    <3> QED
        BY <3>2, EmittedShapes DEF Ordinary, BridgeDoes
  <2> QED
      BY <2>2, <2>3
<1>3. CASE Exit \/ Crash
  <2>1. Goes
      BY <1>3 DEF Exit, Crash, Fault, Running, Volatile, Goes
  <2> QED
      BY <2>1 DEF BridgeDoes
<1>4. CASE Boot
  <2>1. Starts
      BY <1>4 DEF Boot, Running, Starts
  <2> QED
      BY <2>1 DEF BridgeDoes
<1> QED
    BY <1>2, <1>3, <1>4

(* Whoever takes it, each step is one of these.                            *)
LEMMA EachStepDoes ==
    ASSUME TypeInvariant, OffIsEmpty, refreshing => session = "up", [Next]_vars
    PROVE  BridgeDoes
<1>1. ASSUME UNCHANGED bridgeVars PROVE BridgeDoes
  <2>1. SaysNothing
      BY <1>1 DEF bridgeVars, SaysNothing, ControlMoves, StopIsAsked, OffIsEmpty
  <2> QED
      BY <2>1 DEF BridgeDoes
<1>2. ASSUME journal' = journal, boot' = boot, gen' = gen, session' = session,
             refreshing' = refreshing, pending' = pending, control' = control,
             stopping' = stopping
      PROVE  BridgeDoes
  <2>1. SaysNothing
      BY <1>2 DEF SaysNothing, ControlMoves, StopIsAsked, OffIsEmpty
  <2> QED
      BY <2>1 DEF BridgeDoes
<1>3. CASE Bridge
    BY <1>1, <1>3, SessionSays, ControlSays, ProcessSays
       DEF Bridge, BridgeTakesRequest, BridgeApplies, BridgeRefuses, BridgeGoes, BridgeMoves
<1>4. CASE CheckpointIsSigned
  <2>1. scenario \in Controlled /\ gen \in Nat
      BY DEF TypeInvariant, TrialInvariant
  <2>2. Neutral(Checkpoint)
      BY <2>1, NeutralEvents
  <2>3. Says(Checkpoint)
      BY <1>4, <2>2, OtherTypes DEF CheckpointIsSigned, Running, Says, Record, ControlMoves, StopIsAsked, Neutral
  <2> QED
      BY <2>3, EmittedShapes DEF BridgeDoes
<1>5. CASE Verifier /\ ~CheckpointIsSigned
  <2>1. CASE TriggerTimesOut \/ VerifierCrashes
      BY <1>2, <2>1 DEF TriggerTimesOut, VerifierCrashes
  <2>2. CASE ~TriggerTimesOut /\ ~VerifierCrashes
      BY <1>1, <1>5, <2>2 DEF Verifier, VerifierTakes, VerifierFetches, FetchFails, BeginRefuses,
           BeginResumes, BeginOpens, VerifierTriggers, CompletePeeks, CompleteResumes,
           CollectPolls, CollectFails, CollectSubmits, Opens
  <2> QED
      BY <2>1, <2>2
<1>6. CASE Command
  <2>1. CASE CommandGivesUp
      BY <1>2, <2>1 DEF CommandGivesUp
  <2>2. CASE ~CommandGivesUp
      BY <1>1, <1>6, <2>2 DEF Command, CommandStarts, CommandChecks, CommandExercises,
           CommandRecovers, RecoveryTimesOut
  <2> QED
      BY <2>1, <2>2
<1>7. CASE Campaign
  <2>1. CASE OtherReads
      BY <2>1, ReadSays
  <2>2. CASE CycleReads
      BY <1>1, <2>2, ReadSays DEF CycleReads
  <2>3. CASE CycleIsLost \/ CheckpointIsCalled
      BY <1>2, <2>3 DEF CycleIsLost, CheckpointIsCalled
  <2>4. CASE SlotBecomesDue \/ CycleStarts \/ CycleRecords
      BY <1>1, <2>4 DEF SlotBecomesDue, CycleStarts, CycleRecords
  <2> QED
      BY <1>7, <2>1, <2>2, <2>3, <2>4 DEF Campaign
<1>8. CASE UNCHANGED vars
    BY <1>1, <1>8 DEF vars
<1> QED
    BY <1>3, <1>4, <1>5, <1>6, <1>7, <1>8 DEF Next

(* What holds of the journal and of what is left of a control.             *)
BootsPart == BootsAreKnown(journal, boot)
GensPart == GensGrow(journal) /\ (session # "off" => GensBelow(journal, boot, gen))
SessionPart ==
    /\ ConnectedAgain(journal) /\ OffIsEmpty /\ (refreshing => session = "up")
    /\ session \in {"connecting", "up"} => ConnectedSince(journal, boot)
ControlPart ==
    /\ ConsumedIsApplied(journal, scenario) /\ AppliedIsConsumed(journal, scenario)
    /\ control = "armed" => pending # None
    /\ control = "requested" => pending = None
    /\ session # "off" /\ (pending = None \/ control # None) =>
          ConsumedSince(journal, scenario, boot)
    /\ pending # None /\ control = None => ReceiptIn(journal, scenario, boot)

JournalInvariant == BootsPart /\ GensPart /\ SessionPart /\ ControlPart

LEMMA SaysKeepsShape ==
    ASSUME TypeInvariant, TypeInvariant', JournalInvariant, NEW e \in Emitted, Says(e)
    PROVE  BootsPart' /\ GensPart' /\ SessionPart'
<1>1. /\ journal \in Seq(Entry) /\ boot \in Nat /\ gen \in Nat /\ gen' \in Nat
    BY DEF TypeInvariant, TrialInvariant
<1>2. Longer(journal, e, boot, gen', journal') /\ boot' = boot
      /\ session # "off" /\ session' # "off"
    BY DEF Says, Longer
<1>3. BootsPart'
  <2>1. BootsAreKnown(journal, boot)
      BY DEF JournalInvariant, BootsPart
  <2>2. BootsAreKnown(journal', boot)
      BY <1>1, <1>2, <2>1, BootsLonger
  <2> QED
      BY <1>2, <2>2 DEF BootsPart
<1>4. GensPart'
  <2>1. GensGrow(journal) /\ GensBelow(journal, boot, gen)
      BY <1>2 DEF JournalInvariant, GensPart
  <2>2. gen <= gen' /\ (e.type = "session_connecting" => gen < gen')
      BY <1>1 DEF Says
  <2>3. GensGrow(journal')
      BY <1>1, <1>2, <2>1, <2>2, GensLonger
  <2>4. GensBelow(journal', boot, gen')
      BY <1>1, <1>2, <2>1, <2>2, GensBelowLonger
  <2> QED
      BY <1>2, <2>3, <2>4 DEF GensPart
<1>5. SessionPart'
  <2>1. /\ ConnectedAgain(journal) /\ (refreshing => session = "up")
        /\ session \in {"connecting", "up"} => ConnectedSince(journal, boot)
      BY DEF JournalInvariant, SessionPart
  <2>2. e.type = "session_ready" => ConnectedSince(journal, boot)
      BY <2>1 DEF Says
  <2>3. ConnectedAgain(journal')
      BY <1>1, <1>2, <2>1, <2>2, ConnectedLonger
  <2>4. ASSUME session' \in {"connecting", "up"}
        PROVE  ConnectedSince(journal', boot)
    <3>1. \/ e.type = "session_connecting"
          \/ e.type # "session_disconnected" /\ ConnectedSince(journal, boot)
        BY <2>1, <2>4 DEF Says
    <3> QED
        BY <1>1, <1>2, <3>1, ConnectedSinceLonger
  <2>5. refreshing' => session' = "up"
      BY <2>1 DEF Says
  <2> QED
      BY <1>2, <2>3, <2>4, <2>5 DEF SessionPart, OffIsEmpty
<1> QED
    BY <1>3, <1>4, <1>5

(* What a control has left when an event is appended in the same boot.     *)
LEMMA SaysKeepsControl ==
    ASSUME TypeInvariant, TypeInvariant', JournalInvariant, NEW e \in Emitted, Says(e),
           scenario' = scenario
    PROVE  ControlPart'
<1>1. /\ journal \in Seq(Entry) /\ boot \in Nat /\ gen' \in Nat
    BY DEF TypeInvariant, TrialInvariant
<1>2. Longer(journal, e, boot, gen', journal') /\ boot' = boot /\ session # "off"
    BY DEF Says, Longer
<1>3. ControlMoves(IsRequest(e, scenario), IsCleared(e, scenario), IsReceipt(e, scenario),
                   IsConsumed(e, scenario))
    BY DEF Says
<1>4. /\ ConsumedIsApplied(journal, scenario) /\ AppliedIsConsumed(journal, scenario)
      /\ control = "armed" => pending # None
      /\ control = "requested" => pending = None
      /\ (pending = None \/ control # None) => ConsumedSince(journal, scenario, boot)
      /\ pending # None /\ control = None => ReceiptIn(journal, scenario, boot)
    BY <1>2 DEF JournalInvariant, ControlPart
<1>5. "requested" # None /\ "armed" # None
    BY DEF None
<1>6. /\ control' = "armed" => pending' # None
      /\ control' = "requested" => pending' = None
    BY <1>3, <1>4, <1>5 DEF ControlMoves
<1>7. /\ IsReceipt(e, scenario) => ConsumedSince(journal, scenario, boot)
      /\ IsConsumed(e, scenario) => ReceiptIn(journal, scenario, boot)
    BY <1>3, <1>4, <1>5 DEF ControlMoves
<1>8. ConsumedIsApplied(journal', scenario)
    BY <1>1, <1>2, <1>4, <1>7, ConsumedIsAppliedLonger
<1>9. AppliedIsConsumed(journal', scenario)
    BY <1>1, <1>2, <1>4, <1>7, AppliedIsConsumedLonger
<1>10. ASSUME pending' = None \/ control' # None
       PROVE  ConsumedSince(journal', scenario, boot)
  <2>1. /\ ~IsReceipt(e, scenario)
        /\ \/ ConsumedSince(journal, scenario, boot)
           \/ scenario # "bridge_restart" /\ IsConsumed(e, scenario)
      BY <1>3, <1>4, <1>5, <1>10 DEF ControlMoves
  <2> QED
      BY <1>1, <1>2, <2>1, ConsumedSinceLonger
<1>11. ASSUME pending' # None /\ control' = None
       PROVE  ReceiptIn(journal', scenario, boot)
  <2>1. ReceiptIn(journal, scenario, boot) \/ IsReceipt(e, scenario)
      BY <1>3, <1>4, <1>5, <1>11 DEF ControlMoves
  <2> QED
      BY <1>1, <1>2, <2>1, ReceiptInLonger
<1> QED
    BY <1>2, <1>6, <1>8, <1>9, <1>10, <1>11 DEF ControlPart

LEMMA SaysNothingKeeps ==
    ASSUME JournalInvariant, SaysNothing, scenario' = scenario
    PROVE  JournalInvariant'
<1>1. BootsPart' /\ GensPart'
    BY DEF JournalInvariant, SaysNothing, BootsPart, GensPart
<1>2. SessionPart'
    BY DEF JournalInvariant, SaysNothing, SessionPart
<1>3. ControlPart'
  <2>1. "requested" # None /\ "armed" # None
      BY DEF None
  <2> QED
      BY <2>1 DEF JournalInvariant, SaysNothing, ControlPart, ControlMoves
<1> QED
    BY <1>1, <1>2, <1>3 DEF JournalInvariant

LEMMA GoesKeeps ==
    ASSUME TypeInvariant, JournalInvariant, Goes, scenario' = scenario
    PROVE  JournalInvariant'
<1>1. /\ journal \in Seq(Entry) /\ boot \in Nat /\ gen \in Nat
      /\ scenario \in Controlled
    BY DEF TypeInvariant, TrialInvariant
<1>2. /\ BootsAreKnown(journal, boot) /\ GensGrow(journal) /\ ConnectedAgain(journal)
      /\ ConsumedIsApplied(journal, scenario) /\ AppliedIsConsumed(journal, scenario)
    BY DEF JournalInvariant, BootsPart, GensPart, SessionPart, ControlPart
<1> DEFINE e == Plain("cache_cleared")
<1>3. e \in Emitted /\ e.type = "cache_cleared"
    BY EmittedShapes, OtherTypes DEF Ordinary
<1>4. ~IsReceipt(e, scenario) /\ ~IsConsumed(e, scenario)
    BY <1>1, NeutralEvents DEF Neutral
<1>5. /\ BootsAreKnown(journal', boot) /\ GensGrow(journal') /\ ConnectedAgain(journal')
      /\ ConsumedIsApplied(journal', scenario) /\ AppliedIsConsumed(journal', scenario)
  <2>1. CASE journal' = journal
      BY <1>2, <2>1
  <2>2. CASE Longer(journal, e, boot, gen, journal')
    <3> HIDE DEF e
    <3>1. BootsAreKnown(journal', boot)
        BY <1>1, <1>2, <1>3, <2>2, BootsLonger
    <3>2. GensGrow(journal')
        BY <1>1, <1>2, <1>3, <2>2, GensLonger
    <3>3. ConnectedAgain(journal')
        BY <1>1, <1>2, <1>3, <2>2, ConnectedLonger
    <3>4. ConsumedIsApplied(journal', scenario)
        BY <1>1, <1>2, <1>3, <1>4, <2>2, ConsumedIsAppliedLonger
    <3>5. AppliedIsConsumed(journal', scenario)
        BY <1>1, <1>2, <1>3, <1>4, <2>2, AppliedIsConsumedLonger
    <3> QED
        BY <3>1, <3>2, <3>3, <3>4, <3>5
  <2> QED
      BY <2>1, <2>2 DEF Goes, Longer
<1>6. boot' = boot /\ session' = "off" /\ pending' = None /\ control' = None /\ ~refreshing'
      /\ stopping' = "no"
    BY DEF Goes
<1>7. None # "armed" /\ None # "requested"
    BY DEF None
<1> QED
    BY <1>5, <1>6, <1>7 DEF JournalInvariant, BootsPart, GensPart, SessionPart, ControlPart,
                            OffIsEmpty

LEMMA StartsKeeps ==
    ASSUME TypeInvariant, TypeInvariant', JournalInvariant, Starts, scenario' = scenario
    PROVE  JournalInvariant'
<1>1. /\ journal \in Seq(Entry) /\ boot \in Nat /\ gen \in Nat /\ 0 \in Nat /\ boot + 1 \in Nat
      /\ scenario \in Controlled
    BY DEF TypeInvariant, TrialInvariant
<1>2. /\ BootsAreKnown(journal, boot) /\ GensGrow(journal) /\ ConnectedAgain(journal)
      /\ ConsumedIsApplied(journal, scenario) /\ AppliedIsConsumed(journal, scenario)
      /\ OffIsEmpty
    BY DEF JournalInvariant, BootsPart, GensPart, SessionPart, ControlPart
<1>3. /\ session' = "idle" /\ boot' = boot + 1 /\ gen' = gen /\ ~refreshing'
      /\ pending' = None /\ control' = None
    BY <1>2 DEF Starts, OffIsEmpty
<1> DEFINE e == Plain("bridge_started")
<1>4. e \in Emitted /\ e.type = "bridge_started"
    BY EmittedShapes, OtherTypes DEF Ordinary
<1>5. ~IsReceipt(e, scenario) /\ ~IsConsumed(e, scenario)
    BY <1>1, NeutralEvents DEF Neutral
<1>6. GensBelow(journal, boot + 1, 0) /\ ConsumedSince(journal, scenario, boot + 1)
    BY <1>1, <1>2, NewBoot
<1>7. Longer(journal, e, boot + 1, 0, journal')
    BY DEF Starts, Longer
<1> HIDE DEF e
<1>8. BootsAreKnown(journal', boot + 1)
    BY <1>1, <1>2, <1>4, <1>7, BootsLonger
<1>9. GensGrow(journal')
    BY <1>1, <1>2, <1>4, <1>7, GensLonger
<1>10. GensBelow(journal', boot + 1, gen)
  <2>1. GensBelow(journal', boot + 1, 0)
      BY <1>1, <1>4, <1>6, <1>7, GensBelowLonger
  <2>2. journal' \in Seq(Entry)
      BY DEF TypeInvariant, TrialInvariant
  <2>3. \A i \in 1..Len(journal') : journal'[i].gen \in Nat
    <3> TAKE i \in 1..Len(journal')
    <3>1. journal'[i] \in Entry
        BY <2>2
    <3> QED
        BY <3>1 DEF Entry
  <2> QED
      BY <1>1, <2>1, <2>3 DEF GensBelow
<1>11. ConnectedAgain(journal')
    BY <1>1, <1>2, <1>4, <1>7, ConnectedLonger
<1>12. ConsumedIsApplied(journal', scenario)
    BY <1>1, <1>2, <1>4, <1>5, <1>7, ConsumedIsAppliedLonger
<1>13. AppliedIsConsumed(journal', scenario)
    BY <1>1, <1>2, <1>4, <1>5, <1>7, AppliedIsConsumedLonger
<1>14. ConsumedSince(journal', scenario, boot + 1)
    BY <1>1, <1>4, <1>5, <1>6, <1>7, ConsumedSinceLonger
<1>15. None # "armed" /\ None # "requested"
    BY DEF None
<1> QED
    BY <1>3, <1>8, <1>9, <1>10, <1>11, <1>12, <1>13, <1>14, <1>15
       DEF JournalInvariant, BootsPart, GensPart, SessionPart, ControlPart, OffIsEmpty

LEMMA StepKeepsJournal ==
    ASSUME TypeInvariant, TypeInvariant', JournalInvariant, [Next]_vars
    PROVE  JournalInvariant'
<1>1. OffIsEmpty /\ (refreshing => session = "up")
    BY DEF JournalInvariant, SessionPart
<1>2. BridgeDoes
    BY <1>1, EachStepDoes
<1>3. scenario' = scenario
    BY StepKeeps DEF TypeInvariant, BridgeKeeps
<1>4. ASSUME NEW e \in Emitted, Says(e)
      PROVE  JournalInvariant'
    BY <1>3, <1>4, SaysKeepsShape, SaysKeepsControl DEF JournalInvariant
<1> QED
    BY <1>2, <1>3, <1>4, SaysNothingKeeps, GoesKeeps, StartsKeeps DEF BridgeDoes

LEMMA InitJournal == Init => JournalInvariant
<1> SUFFICES ASSUME Init PROVE JournalInvariant
    OBVIOUS
<1>1. Len(journal) = 1 /\ journal[1].what.type = "bridge_started" /\ journal[1].boot = 1
      /\ journal[1].gen = 0
    BY DEF Init, BridgeInit, Event, Plain
<1>2. boot = 1 /\ gen = 0 /\ session = "idle" /\ pending = None /\ control = None
      /\ refreshing = FALSE /\ scenario \in Controlled
    BY ScenariosAssumption DEF Init, BridgeInit
<1>3. \A i \in 1..Len(journal) : i = 1
    BY <1>1
<1>4. ~IsReceipt(journal[1].what, scenario) /\ ~IsConsumed(journal[1].what, scenario)
  <2>1. ConsumedBy(scenario) # "bridge_started"
      BY <1>2 DEF Controlled, ActionOf, ConsumedBy, Faults, DetectedBy
  <2> QED
      BY <1>1, <2>1 DEF IsReceipt, IsConsumed
<1>5. BootsPart /\ GensPart
    BY <1>1, <1>2, <1>3 DEF BootsPart, GensPart, BootsAreKnown, GensGrow, GensBelow
<1>6. SessionPart
    BY <1>1, <1>2, <1>3 DEF SessionPart, ConnectedAgain, ConnectedSince, OffIsEmpty
<1>7. ControlPart
    BY <1>1, <1>2, <1>3, <1>4 DEF ControlPart, ConsumedIsApplied, AppliedIsConsumed,
       ConsumedSince, ReceiptIn, None
<1> QED
    BY <1>5, <1>6, <1>7 DEF JournalInvariant

LEMMA JournalInvariantHolds == Spec => []JournalInvariant
<1> QED
    BY InitJournal, TypeInvariantHolds, StepKeepsJournal, PTL DEF Spec

-----------------------------------------------------------------------------
(* What makes the evidence that the verifier takes evidence for the        *)
(* database too.                                                           *)

(* In one life of the bridge the generations are in order.                 *)
GensOrdered(events) ==
    \A i, j \in 1..Len(events) :
        i <= j /\ events[i].boot = events[j].boot => events[i].gen <= events[j].gen

(* Before position n a control was asked for, and then, when its data is   *)
(* to be missing, the cache was cleared.                                   *)
AskedBefore(events, s, n) == \E q \in 1..Len(events) : q < n /\ IsRequest(events[q].what, s)
ClearedBefore(events, s, n) ==
    \E q, c \in 1..Len(events) :
        q < c /\ c < n /\ IsRequest(events[q].what, s) /\ IsCleared(events[c].what, s)
ReceiptsAreCleared(events, s) ==
    \A r \in 1..Len(events) : IsReceipt(events[r].what, s) => ClearedBefore(events, s, r)

CachePart ==
    /\ control # None => AskedBefore(journal, scenario, Len(journal) + 1)
    /\ scenario = "missing_data" =>
          /\ control = "armed" => ClearedBefore(journal, scenario, Len(journal) + 1)
          /\ ReceiptsAreCleared(journal, scenario)

(* Nothing but a crash or a restart ends the bridge's process.             *)
InBoot(events, b) == \A i \in 1..Len(events) : events[i].boot = b
ProcessPart ==
    "crash" \notin Kinds /\ scenario # "bridge_restart" =>
        session # "off" /\ stopping = "no" /\ InBoot(journal, boot)

EvidenceInvariant == GensOrdered(journal) /\ CachePart /\ ProcessPart

LEMMA OrderedLonger ==
    ASSUME NEW events \in Seq(Entry), NEW e \in Emitted, NEW b \in Nat, NEW g \in Nat,
           NEW longer, Longer(events, e, b, g, longer),
           GensOrdered(events), GensBelow(events, b, g)
    PROVE  GensOrdered(longer)
<1>1. PICK last \in Nat :
              /\ last = Len(longer) /\ last = Len(events) + 1
              /\ longer[last].boot = b /\ longer[last].gen = g
              /\ \A i \in 1..Len(events) : longer[i] = events[i]
              /\ \A i \in 1..last : i \in 1..Len(events) \/ i = last
    BY LongerPositions
<1>2. ASSUME NEW i \in 1..Len(longer), NEW j \in 1..Len(longer),
             i <= j, longer[i].boot = longer[j].boot
      PROVE  longer[i].gen <= longer[j].gen
  <2>1. CASE j = last
    <3>1. CASE i = last
        BY <1>1, <2>1, <3>1
    <3>2. CASE i \in 1..Len(events)
        BY <1>1, <1>2, <2>1, <3>2 DEF GensBelow
    <3> QED
        BY <1>1, <3>1, <3>2
  <2>2. CASE j \in 1..Len(events)
    <3>1. i \in 1..Len(events)
        BY <1>1, <1>2, <2>2
    <3> QED
        BY <1>1, <1>2, <2>2, <3>1 DEF GensOrdered
  <2> QED
      BY <1>1, <2>1, <2>2
<1> QED
    BY <1>2 DEF GensOrdered

LEMMA AskedLonger ==
    ASSUME NEW events \in Seq(Entry), NEW e \in Emitted, NEW b \in Nat, NEW g \in Nat,
           NEW longer, Longer(events, e, b, g, longer), NEW s,
           AskedBefore(events, s, Len(events) + 1) \/ IsRequest(e, s)
    PROVE  AskedBefore(longer, s, Len(longer) + 1)
<1>1. PICK last \in Nat :
              /\ last = Len(longer) /\ last = Len(events) + 1 /\ longer[last].what = e
              /\ \A i \in 1..Len(events) : longer[i] = events[i]
    BY LongerPositions
<1>2. CASE IsRequest(e, s)
  <2>1. last \in 1..Len(longer) /\ last < Len(longer) + 1
      BY <1>1
  <2> QED
      BY <1>1, <1>2, <2>1 DEF AskedBefore
<1>3. CASE AskedBefore(events, s, Len(events) + 1)
  <2>1. PICK q \in 1..Len(events) : IsRequest(events[q].what, s)
      BY <1>3 DEF AskedBefore
  <2>2. q \in 1..Len(longer) /\ q < Len(longer) + 1
      BY <1>1
  <2> QED
      BY <1>1, <2>1, <2>2 DEF AskedBefore
<1> QED
    BY <1>2, <1>3

LEMMA ClearedLonger ==
    ASSUME NEW events \in Seq(Entry), NEW e \in Emitted, NEW b \in Nat, NEW g \in Nat,
           NEW longer, Longer(events, e, b, g, longer), NEW s,
           \/ ClearedBefore(events, s, Len(events) + 1)
           \/ AskedBefore(events, s, Len(events) + 1) /\ IsCleared(e, s)
    PROVE  ClearedBefore(longer, s, Len(longer) + 1)
<1>1. PICK last \in Nat :
              /\ last = Len(longer) /\ last = Len(events) + 1 /\ longer[last].what = e
              /\ \A i \in 1..Len(events) : longer[i] = events[i]
    BY LongerPositions
<1>2. \A i \in 1..Len(events) : i \in 1..Len(longer) /\ i < last /\ i < Len(longer) + 1
    BY <1>1
<1>3. last \in 1..Len(longer) /\ last < Len(longer) + 1
    BY <1>1
<1>4. CASE ClearedBefore(events, s, Len(events) + 1)
  <2>1. PICK q, c \in 1..Len(events) :
           q < c /\ IsRequest(events[q].what, s) /\ IsCleared(events[c].what, s)
      BY <1>4 DEF ClearedBefore
  <2> QED
      BY <1>1, <1>2, <2>1 DEF ClearedBefore
<1>5. CASE AskedBefore(events, s, Len(events) + 1) /\ IsCleared(e, s)
  <2>1. PICK q \in 1..Len(events) : IsRequest(events[q].what, s)
      BY <1>5 DEF AskedBefore
  <2> QED
      BY <1>1, <1>2, <1>3, <1>5, <2>1 DEF ClearedBefore
<1> QED
    BY <1>4, <1>5

LEMMA ReceiptsClearedLonger ==
    ASSUME NEW events \in Seq(Entry), NEW e \in Emitted, NEW b \in Nat, NEW g \in Nat,
           NEW longer, Longer(events, e, b, g, longer), NEW s, ReceiptsAreCleared(events, s),
           IsReceipt(e, s) => ClearedBefore(events, s, Len(events) + 1)
    PROVE  ReceiptsAreCleared(longer, s)
<1>1. PICK last \in Nat :
              /\ last = Len(longer) /\ last = Len(events) + 1 /\ longer[last].what = e
              /\ \A i \in 1..Len(events) : i \in 1..last /\ longer[i] = events[i]
              /\ \A i \in 1..last : i \in 1..Len(events) \/ i = last
    BY LongerPositions
<1>2. ASSUME NEW r \in 1..Len(longer), IsReceipt(longer[r].what, s)
      PROVE  ClearedBefore(longer, s, r)
  <2>1. ClearedBefore(events, s, r)
    <3>1. CASE r = last
        BY <1>1, <1>2, <3>1
    <3>2. CASE r \in 1..Len(events)
        BY <1>1, <1>2, <3>2 DEF ReceiptsAreCleared
    <3> QED
        BY <1>1, <3>1, <3>2
  <2>2. PICK q, c \in 1..Len(events) :
           q < c /\ c < r /\ IsRequest(events[q].what, s) /\ IsCleared(events[c].what, s)
      BY <2>1 DEF ClearedBefore
  <2>3. q \in 1..Len(longer) /\ c \in 1..Len(longer)
      BY <1>1
  <2> QED
      BY <1>1, <2>2, <2>3 DEF ClearedBefore
<1> QED
    BY <1>2 DEF ReceiptsAreCleared

LEMMA InBootLonger ==
    ASSUME NEW events \in Seq(Entry), NEW e \in Emitted, NEW b \in Nat, NEW g \in Nat,
           NEW longer, Longer(events, e, b, g, longer), InBoot(events, b)
    PROVE  InBoot(longer, b)
<1>1. PICK last \in Nat :
              /\ last = Len(longer) /\ longer[last].boot = b
              /\ \A i \in 1..Len(events) : longer[i] = events[i]
              /\ \A i \in 1..last : i \in 1..Len(events) \/ i = last
    BY LongerPositions
<1> QED
    BY <1>1 DEF InBoot

(* The steps of the bridge. *)
LEMMA SaysKeepsEvidence ==
    ASSUME TypeInvariant, TypeInvariant', JournalInvariant, EvidenceInvariant,
           NEW e \in Emitted, Says(e), scenario' = scenario
    PROVE  EvidenceInvariant'
<1>1. /\ journal \in Seq(Entry) /\ boot \in Nat /\ gen \in Nat /\ gen' \in Nat
      /\ control \in {None, "requested", "armed"}
    BY DEF TypeInvariant, TrialInvariant, BridgeTyped
<1>2. Longer(journal, e, boot, gen', journal') /\ boot' = boot
      /\ session # "off" /\ session' # "off"
    BY DEF Says, Longer
<1>3. ControlMoves(IsRequest(e, scenario), IsCleared(e, scenario), IsReceipt(e, scenario),
                   IsConsumed(e, scenario))
    BY DEF Says
<1>4. "requested" # None /\ "armed" # None
    BY DEF None
<1>5. GensOrdered(journal')
  <2>1. GensBelow(journal, boot, gen')
    <3>1. GensBelow(journal, boot, gen) /\ gen <= gen'
        BY <1>1, <1>2 DEF JournalInvariant, GensPart, Says
    <3>2. \A i \in 1..Len(journal) : journal[i].gen \in Nat
      <4> TAKE i \in 1..Len(journal)
      <4>1. journal[i] \in Entry
          BY <1>1
      <4> QED
          BY <4>1 DEF Entry
    <3> QED
        BY <1>1, <3>1, <3>2 DEF GensBelow
  <2> QED
      BY <1>1, <1>2, <2>1, OrderedLonger DEF EvidenceInvariant
<1>6. ASSUME control' # None PROVE AskedBefore(journal', scenario, Len(journal') + 1)
  <2>1. AskedBefore(journal, scenario, Len(journal) + 1) \/ IsRequest(e, scenario)
      BY <1>3, <1>4, <1>6 DEF ControlMoves, EvidenceInvariant, CachePart
  <2> QED
      BY <1>1, <1>2, <2>1, AskedLonger
<1>7. ASSUME scenario = "missing_data", control' = "armed"
      PROVE  ClearedBefore(journal', scenario, Len(journal') + 1)
  <2>1. \/ ClearedBefore(journal, scenario, Len(journal) + 1)
        \/ AskedBefore(journal, scenario, Len(journal) + 1) /\ IsCleared(e, scenario)
      BY <1>3, <1>4, <1>7 DEF ControlMoves, EvidenceInvariant, CachePart
  <2> QED
      BY <1>1, <1>2, <2>1, ClearedLonger
<1>8. ASSUME scenario = "missing_data" PROVE ReceiptsAreCleared(journal', scenario)
  <2>1. ReceiptsAreCleared(journal, scenario)
        /\ (IsReceipt(e, scenario) => ClearedBefore(journal, scenario, Len(journal) + 1))
      BY <1>3, <1>8 DEF ControlMoves, EvidenceInvariant, CachePart
  <2> QED
      BY <1>1, <1>2, <2>1, ReceiptsClearedLonger
<1>9. ASSUME "crash" \notin Kinds, scenario # "bridge_restart"
      PROVE  stopping' = "no" /\ InBoot(journal', boot)
  <2>1. stopping = "no" /\ InBoot(journal, boot)
      BY <1>9 DEF EvidenceInvariant, ProcessPart
  <2>2. stopping' = "no"
      BY <1>9, <2>1 DEF Says, StopIsAsked
  <2> QED
      BY <1>1, <1>2, <2>1, <2>2, InBootLonger
<1> QED
    BY <1>2, <1>5, <1>6, <1>7, <1>8, <1>9 DEF EvidenceInvariant, CachePart, ProcessPart

LEMMA SaysNothingKeepsEvidence ==
    ASSUME EvidenceInvariant, SaysNothing, scenario' = scenario
    PROVE  EvidenceInvariant'
<1>1. journal' = journal /\ boot' = boot /\ session' = session
    BY DEF SaysNothing
<1>2. "requested" # None /\ "armed" # None
    BY DEF None
<1>3. CachePart'
  <2>1. control' # None => control # None
      BY <1>2 DEF SaysNothing, ControlMoves
  <2>2. scenario = "missing_data" /\ control' = "armed" => control = "armed"
      BY <1>2 DEF SaysNothing, ControlMoves
  <2> QED
      BY <1>1, <2>1, <2>2 DEF EvidenceInvariant, CachePart
<1>4. ProcessPart'
  <2>1. "crash" \notin Kinds /\ scenario # "bridge_restart" => stopping' = "no"
      BY DEF SaysNothing, StopIsAsked, EvidenceInvariant, ProcessPart
  <2> QED
      BY <1>1, <2>1 DEF EvidenceInvariant, ProcessPart
<1> QED
    BY <1>1, <1>3, <1>4 DEF EvidenceInvariant

LEMMA GoesKeepsEvidence ==
    ASSUME TypeInvariant, JournalInvariant, EvidenceInvariant, Goes, scenario' = scenario
    PROVE  EvidenceInvariant'
<1>1. /\ journal \in Seq(Entry) /\ boot \in Nat /\ gen \in Nat
      /\ scenario \in Controlled
    BY DEF TypeInvariant, TrialInvariant
<1> DEFINE e == Plain("cache_cleared")
<1>2. e \in Emitted /\ ~IsReceipt(e, scenario)
    BY <1>1, EmittedShapes, NeutralEvents DEF Ordinary, Neutral
<1>3. GensBelow(journal, boot, gen)
    BY DEF Goes, JournalInvariant, GensPart
<1>4. journal' = journal \/ Longer(journal, e, boot, gen, journal')
    BY DEF Goes, Longer
<1> HIDE DEF e
<1>5. GensOrdered(journal')
    BY <1>1, <1>2, <1>3, <1>4, OrderedLonger DEF EvidenceInvariant
<1>6. scenario = "missing_data" => ReceiptsAreCleared(journal', scenario)
    BY <1>1, <1>2, <1>4, ReceiptsClearedLonger DEF EvidenceInvariant, CachePart
<1>7. control' = None /\ None # "armed"
    BY DEF Goes, None
<1>8. "crash" \in Kinds \/ scenario = "bridge_restart"
    BY DEF Goes, EvidenceInvariant, ProcessPart
<1> QED
    BY <1>5, <1>6, <1>7, <1>8 DEF EvidenceInvariant, CachePart, ProcessPart

LEMMA StartsKeepsEvidence ==
    ASSUME TypeInvariant, JournalInvariant, EvidenceInvariant, Starts, scenario' = scenario
    PROVE  EvidenceInvariant'
<1>1. /\ journal \in Seq(Entry) /\ boot \in Nat /\ boot + 1 \in Nat /\ 0 \in Nat
      /\ scenario \in Controlled
    BY DEF TypeInvariant, TrialInvariant
<1> DEFINE e == Plain("bridge_started")
<1>2. e \in Emitted /\ ~IsReceipt(e, scenario)
    BY <1>1, EmittedShapes, NeutralEvents DEF Ordinary, Neutral
<1>3. GensBelow(journal, boot + 1, 0)
    BY <1>1, NewBoot DEF JournalInvariant, BootsPart
<1>4. Longer(journal, e, boot + 1, 0, journal')
    BY DEF Starts, Longer
<1> HIDE DEF e
<1>5. GensOrdered(journal')
    BY <1>1, <1>2, <1>3, <1>4, OrderedLonger DEF EvidenceInvariant
<1>6. scenario = "missing_data" => ReceiptsAreCleared(journal', scenario)
    BY <1>1, <1>2, <1>4, ReceiptsClearedLonger DEF EvidenceInvariant, CachePart
<1>7. control' = None /\ None # "armed"
    BY DEF Starts, JournalInvariant, SessionPart, OffIsEmpty, None
<1>8. "crash" \in Kinds \/ scenario = "bridge_restart"
    BY DEF Starts, EvidenceInvariant, ProcessPart
<1> QED
    BY <1>5, <1>6, <1>7, <1>8 DEF EvidenceInvariant, CachePart, ProcessPart

LEMMA StepKeepsEvidence ==
    ASSUME TypeInvariant, TypeInvariant', JournalInvariant, EvidenceInvariant, [Next]_vars
    PROVE  EvidenceInvariant'
<1>1. BridgeDoes
    BY EachStepDoes DEF JournalInvariant, SessionPart
<1>2. scenario' = scenario
    BY StepKeeps DEF TypeInvariant, BridgeKeeps
<1>3. ASSUME NEW e \in Emitted, Says(e)
      PROVE  EvidenceInvariant'
    BY <1>2, <1>3, SaysKeepsEvidence
<1> QED
    BY <1>1, <1>2, <1>3, SaysNothingKeepsEvidence, GoesKeepsEvidence, StartsKeepsEvidence
       DEF BridgeDoes

LEMMA InitEvidence == Init => EvidenceInvariant
<1> SUFFICES ASSUME Init PROVE EvidenceInvariant
    OBVIOUS
<1>1. Len(journal) = 1 /\ journal[1].what.type = "bridge_started" /\ journal[1].boot = 1
      /\ journal[1].gen = 0
    BY DEF Init, BridgeInit, Event, Plain
<1>2. boot = 1 /\ session = "idle" /\ control = None /\ stopping = "no"
    BY DEF Init, BridgeInit
<1>3. \A i \in 1..Len(journal) : i = 1
    BY <1>1
<1>4. ~IsReceipt(journal[1].what, scenario)
    BY <1>1 DEF IsReceipt
<1>5. GensOrdered(journal)
    BY <1>1, <1>3 DEF GensOrdered
<1>6. CachePart
    BY <1>2, <1>3, <1>4 DEF CachePart, ReceiptsAreCleared, None
<1>7. ProcessPart
    BY <1>1, <1>2, <1>3 DEF ProcessPart, InBoot
<1> QED
    BY <1>5, <1>6, <1>7 DEF EvidenceInvariant

LEMMA EvidenceInvariantHolds == Spec => []EvidenceInvariant
<1> QED
    BY InitEvidence, TypeInvariantHolds, JournalInvariantHolds, StepKeepsEvidence, PTL DEF Spec

-----------------------------------------------------------------------------
(* What the verifier finds in the stretch of the journal that it has read. *)

LEMMA WhereControlsAre ==
    ASSUME NEW events, NEW f, NEW l, NEW s
    PROVE  /\ \A i : i \in ControlAt(events, f, l, "control_applied", s, "applied")
                        <=> i \in f..l /\ IsReceipt(events[i].what, s)
           /\ \A i : i \in ControlAt(events, f, l, ConsumedBy(s), s, "consumed")
                        <=> i \in f..l /\ IsConsumed(events[i].what, s)
           /\ \A i : i \in ControlAt(events, f, l, "control_requested", s, "requested")
                        <=> i \in f..l /\ IsRequest(events[i].what, s)
           /\ \A i : i \in LinkedAt(events, f, l, "cache_cleared", s)
                        <=> i \in f..l /\ IsCleared(events[i].what, s)
BY DEF ControlAt, LinkedAt, At, IsReceipt, IsConsumed, IsRequest, IsCleared

LEMMA FirstIsFound ==
    ASSUME NEW S \in SUBSET (Nat \ {0}), NEW n, n = FirstOf(S), n # 0
    PROVE  n \in S /\ n \in Nat /\ \A k \in S : n <= k
BY FirstIsLeast

(* Of the first n events, f is the first request and r the first receipt;  *)
(* c is the first event after r that consumes; a process that stops is     *)
(* followed by the next one that is started, and l is in its boot.         *)
FoundRequest(events, n, s, f) ==
    /\ f \in 1..n /\ IsRequest(events[f].what, s)
    /\ \A i \in 1..n : IsRequest(events[i].what, s) => f <= i
FoundReceipt(events, n, s, r) ==
    /\ r \in 1..n /\ IsReceipt(events[r].what, s)
    /\ \A i \in 1..n : IsReceipt(events[i].what, s) => r <= i
FoundConsumed(events, n, s, r, c) ==
    /\ c \in 1..n /\ r < c /\ IsConsumed(events[c].what, s)
    /\ \A i \in 1..n : r < i /\ IsConsumed(events[i].what, s) => c <= i
FoundSession(events, r, l) ==
    \E d, c \in r + 1..l : /\ events[d].what.type = "session_disconnected"
                           /\ events[c].what.type = "session_connecting"
FoundCleared(events, f, r) == \E c \in f + 1..r - 1 : IsCleared(events[c].what, "reconnect")
FoundStart(events, n, stop, l) ==
    /\ l \in 1..n /\ events[l].what.type = "session_ready"
    /\ \E start \in 1..n :
          /\ stop < start /\ start < l
          /\ events[start].boot # events[stop].boot /\ events[l].boot = events[start].boot
          /\ \A i \in 1..n : /\ stop < i /\ events[i].what.type = "bridge_started"
                             /\ events[i].boot # events[stop].boot
                             => start <= i

LEMMA FirstReceipt ==
    ASSUME NEW events, Len(events) \in Nat, NEW s, NEW r, r = FirstOf(Receipts(events, s)), r # 0
    PROVE  FoundReceipt(events, Len(events), s, r)
<1>1. Receipts(events, s) \in SUBSET (Nat \ {0})
  <2>1. 1 \in Nat \ {0}
      OBVIOUS
  <2> QED
      BY <2>1, PositionsAreNatural DEF Receipts
<1>2. r \in Receipts(events, s) /\ \A k \in Receipts(events, s) : r <= k
    BY <1>1, FirstIsFound
<1>3. \A i : i \in Receipts(events, s) <=> i \in 1..Len(events) /\ IsReceipt(events[i].what, s)
    BY WhereControlsAre DEF Receipts
<1> QED
    BY <1>2, <1>3 DEF FoundReceipt

LEMMA FirstConsumed ==
    ASSUME NEW events, Len(events) \in Nat, NEW s, NEW r \in Nat, NEW c,
           c = FirstOf(ControlAt(events, r + 1, Len(events), ConsumedBy(s), s, "consumed")),
           c # 0
    PROVE  FoundConsumed(events, Len(events), s, r, c)
<1> DEFINE S == ControlAt(events, r + 1, Len(events), ConsumedBy(s), s, "consumed")
<1>1. S \in SUBSET (Nat \ {0})
    BY PositionsAreNatural
<1>2. \A i : i \in S <=> i \in r + 1..Len(events) /\ IsConsumed(events[i].what, s)
    BY WhereControlsAre
<1>3. c = FirstOf(S)
    OBVIOUS
<1> HIDE DEF S
<1>4. c \in S /\ \A k \in S : c <= k
    BY <1>1, <1>3, FirstIsFound
<1> QED
    BY <1>2, <1>4 DEF FoundConsumed

(* A fragment begins with a request.                                       *)
LEMMA FragmentBegins ==
    ASSUME NEW events, Len(events) \in Nat, NEW s, NEW r \in Nat, NEW f, NEW l,
           Fragment(events, s, r) = <<f, l>>, <<f, l>> # NoFragment
    PROVE  /\ f \in 1..Len(events) /\ f < r /\ events[f].what.type = "control_requested"
           /\ FoundRequest(events, Len(events), s, f) /\ l # 0
           /\ l = CASE s = "reconnect" -> ReconnectEnd(events, f, r, s)
                    [] s = "bridge_restart" -> RestartEnd(events, r, s)
                    [] OTHER -> FirstOf(ControlAt(events, r + 1, Len(events), DetectedBy[s],
                                                  s, "consumed"))
<1> DEFINE Q == ControlAt(events, 1, Len(events), "control_requested", s, "requested")
           q == FirstOf(Q)
           end == CASE s = "reconnect" -> ReconnectEnd(events, q, r, s)
                    [] s = "bridge_restart" -> RestartEnd(events, r, s)
                    [] OTHER -> FirstOf(ControlAt(events, r + 1, Len(events), DetectedBy[s],
                                                  s, "consumed"))
<1>1. Fragment(events, s, r) = IF q = 0 \/ r <= q \/ end = 0 THEN NoFragment ELSE <<q, end>>
    BY DEF Fragment
<1>2. Q \in SUBSET (Nat \ {0})
    BY PositionsAreNatural
<1>3. \A i : i \in Q <=> i \in 1..Len(events) /\ IsRequest(events[i].what, s)
    BY WhereControlsAre
<1>4. q \in Nat
    BY <1>2, FirstIsLeast
<1> HIDE DEF Q
<1>5. q # 0 => q \in Q /\ \A i \in Q : q <= i
    BY <1>2, FirstIsLeast
<1>6. end = CASE s = "reconnect" -> ReconnectEnd(events, q, r, s)
              [] s = "bridge_restart" -> RestartEnd(events, r, s)
              [] OTHER -> FirstOf(ControlAt(events, r + 1, Len(events), DetectedBy[s],
                                            s, "consumed"))
    OBVIOUS
<1> HIDE DEF q, end
<1>7. ~(q = 0 \/ r <= q \/ end = 0) /\ f = q /\ l = end
    BY <1>1
<1> QED
    BY <1>3, <1>4, <1>5, <1>6, <1>7 DEF FoundRequest, IsRequest

LEMMA FaultEnds ==
    ASSUME NEW events, Len(events) \in Nat, NEW s \in Faults, NEW r \in Nat, NEW f, NEW l,
           Fragment(events, s, r) = <<f, l>>, <<f, l>> # NoFragment
    PROVE  FoundConsumed(events, Len(events), s, r, l)
<1>1. s # "reconnect" /\ s # "bridge_restart"
    BY DEF Faults, DetectedBy
<1>2. l # 0 /\ l = FirstOf(ControlAt(events, r + 1, Len(events), ConsumedBy(s), s, "consumed"))
    BY <1>1, FragmentBegins DEF ConsumedBy
<1> QED
    BY <1>2, FirstConsumed

LEMMA ReconnectEnds ==
    ASSUME NEW events, Len(events) \in Nat, NEW r \in Nat, NEW f, NEW l,
           Fragment(events, "reconnect", r) = <<f, l>>, <<f, l>> # NoFragment
    PROVE  /\ FoundConsumed(events, Len(events), "reconnect", r, l)
           /\ FoundSession(events, r, l) /\ FoundCleared(events, f, r)
<1> DEFINE ready == FirstOf(ControlAt(events, r + 1, Len(events), "session_ready",
                                      "reconnect", "consumed"))
<1>1. l # 0 /\ l = ReconnectEnd(events, f, r, "reconnect")
    BY FragmentBegins
<1>2. l = ready /\ Seen(events, r + 1, ready, {"session_disconnected", "cache_cleared",
                                               "session_connecting", "session_authenticated"})
    BY <1>1 DEF ReconnectEnd
<1>3. /\ At(events, r + 1, ready, "session_disconnected") # {}
      /\ At(events, r + 1, ready, "session_connecting") # {}
    BY <1>2 DEF Seen
<1>4. FoundSession(events, r, l)
    BY <1>2, <1>3 DEF At, FoundSession
<1>5. l = FirstOf(ControlAt(events, r + 1, Len(events), ConsumedBy("reconnect"), "reconnect",
                            "consumed"))
    BY <1>2 DEF ConsumedBy
<1>6. FoundCleared(events, f, r)
  <2>1. LinkedAt(events, f + 1, r - 1, "cache_cleared", "reconnect") # {}
      BY <1>1 DEF ReconnectEnd
  <2> QED
      BY <2>1, WhereControlsAre DEF FoundCleared
<1> HIDE DEF ready
<1> QED
    BY <1>1, <1>4, <1>5, <1>6, FirstConsumed

LEMMA RestartEnds ==
    ASSUME NEW events, Len(events) \in Nat, NEW r \in Nat, NEW f, NEW l,
           Fragment(events, "bridge_restart", r) = <<f, l>>, <<f, l>> # NoFragment
    PROVE  \E stop \in 1..Len(events) :
              /\ FoundConsumed(events, Len(events), "bridge_restart", r, stop)
              /\ FoundStart(events, Len(events), stop, l)
<1> DEFINE end == Len(events)
           stop == FirstOf(ControlAt(events, r + 1, end, "bridge_stopping", "bridge_restart",
                                     "consumed"))
           S == {i \in At(events, stop + 1, end, "bridge_started") :
                    events[i].boot # events[stop].boot}
           start == FirstOf(S)
           R == {i \in At(events, start + 1, end, "session_ready") :
                    events[i].boot = events[start].boot}
           ready == FirstOf(R)
<1>1. l # 0 /\ l = RestartEnd(events, r, "bridge_restart")
    BY FragmentBegins
<1>2. stop # 0 /\ start # 0 /\ ready # 0 /\ l = ready
    BY <1>1 DEF RestartEnd
<1>3. FoundConsumed(events, Len(events), "bridge_restart", r, stop) /\ stop \in 1..Len(events)
  <2>1. stop = FirstOf(ControlAt(events, r + 1, end, ConsumedBy("bridge_restart"),
                                 "bridge_restart", "consumed"))
      BY DEF ConsumedBy
  <2> HIDE DEF stop
  <2> QED
      BY <1>2, <2>1, FirstConsumed DEF FoundConsumed
<1> HIDE DEF stop
<1>4. /\ start \in 1..Len(events) /\ stop < start /\ events[start].boot # events[stop].boot
      /\ \A i \in 1..Len(events) :
            /\ stop < i /\ events[i].what.type = "bridge_started"
            /\ events[i].boot # events[stop].boot
            => start <= i
  <2>1. \A i : i \in S <=> /\ i \in stop + 1..Len(events)
                           /\ events[i].what.type = "bridge_started"
                           /\ events[i].boot # events[stop].boot
      BY DEF At
  <2>2. S \in SUBSET (Nat \ {0})
      BY <1>3, <2>1
  <2> HIDE DEF S
  <2>3. start \in S /\ \A k \in S : start <= k
      BY <1>2, <2>2, FirstIsFound
  <2> QED
      BY <1>3, <2>1, <2>3
<1> HIDE DEF start, S
<1>5. ready \in 1..Len(events) /\ start < ready /\ events[ready].boot = events[start].boot
      /\ events[ready].what.type = "session_ready"
  <2>1. \A i : i \in R => /\ i \in start + 1..Len(events) /\ events[i].boot = events[start].boot
                          /\ events[i].what.type = "session_ready"
      BY DEF At
  <2>2. R \in SUBSET (Nat \ {0})
      BY <1>4, <2>1
  <2> HIDE DEF R
  <2>3. ready \in R
      BY <1>2, <2>2, FirstIsFound
  <2> QED
      BY <1>4, <2>1, <2>3
<1> HIDE DEF ready
<1> QED
    BY <1>2, <1>3, <1>4, <1>5 DEF FoundStart

-----------------------------------------------------------------------------
(* What the verifier has found did happen once in the life of a process.   *)

(* The control that l consumed, applied once in its boot after f.          *)
OnceBefore(events, s, f, l, a) ==
    /\ a \in f..l /\ IsReceipt(events[a].what, s) /\ events[a].boot = events[l].boot
    /\ \A i \in f..l : IsReceipt(events[i].what, s) /\ events[i].boot = events[a].boot => i = a

LEMMA ConsumedAtEnd ==
    ASSUME NEW events \in Seq(Entry), NEW s, AppliedIsConsumed(events, s),
           ConsumedIsApplied(events, s), NEW n \in Nat, n <= Len(events),
           NEW f \in 1..n, NEW r \in 1..n, NEW l \in 1..n, f < r,
           FoundReceipt(events, n, s, r), FoundConsumed(events, n, s, r, l)
    PROVE  \E a \in r..l : OnceBefore(events, s, f, l, a)
<1>1. l \in 1..Len(events) /\ r \in 1..Len(events) /\ IsConsumed(events[l].what, s) /\ r < l
    BY DEF FoundConsumed
<1>2. PICK a \in 1..Len(events) :
         a < l /\ IsReceipt(events[a].what, s) /\ events[a].boot = events[l].boot
    BY <1>1 DEF ConsumedIsApplied
<1>3. r <= a /\ a \in r..l /\ a \in f..l
    BY <1>2 DEF FoundReceipt
<1>4. ASSUME NEW x \in f..l, NEW y \in f..l, x < y, events[x].boot = events[y].boot,
             IsReceipt(events[x].what, s), IsReceipt(events[y].what, s)
      PROVE  FALSE
  <2>1. x \in 1..Len(events) /\ y \in 1..Len(events) /\ r <= x
      BY <1>4 DEF FoundReceipt
  <2>2. PICK c \in 1..Len(events) : x < c /\ c < y /\ IsConsumed(events[c].what, s)
      BY <1>4, <2>1 DEF AppliedIsConsumed
  <2>3. c \in 1..n /\ r < c /\ c < l
      BY <1>4, <2>1, <2>2
  <2> QED
      BY <2>2, <2>3 DEF FoundConsumed
<1>5. \A i \in f..l : IsReceipt(events[i].what, s) /\ events[i].boot = events[a].boot => i = a
  <2> TAKE i \in f..l
  <2> HAVE IsReceipt(events[i].what, s) /\ events[i].boot = events[a].boot
  <2>1. ~(i < a)
      BY <1>2, <1>3, <1>4
  <2>2. ~(a < i)
      BY <1>2, <1>3, <1>4
  <2> QED
      BY <1>3, <2>1, <2>2
<1> QED
    BY <1>2, <1>3, <1>5 DEF OnceBefore

(* What TrialIsProven says of the stretch from f to l.                     *)
AppliedIn(events, s, f, l) == ControlAt(events, f, l, "control_applied", s, "applied")
Happened(events, s, f, l, a) ==
    CASE s = "reconnect" ->
            /\ \A i \in f..l : events[i].boot = events[a].boot
            /\ \E d, c \in a..l :
                  /\ d < c /\ events[c].gen > events[a].gen
                  /\ events[d].what.type = "session_disconnected"
                  /\ events[c].what.type = "session_connecting"
      [] s = "bridge_restart" -> events[l].boot = events[a].boot + 1
      [] OTHER -> events[l].boot = events[a].boot
Shown(events, s, f, l) ==
    \E a \in AppliedIn(events, s, f, l) :
        /\ \A i \in AppliedIn(events, s, f, l) : events[i].boot = events[a].boot => i = a
        /\ Happened(events, s, f, l, a)

LEMMA ReconnectHappened ==
    ASSUME NEW events \in Seq(Entry), NEW b, BootsAreKnown(events, b), GensGrow(events),
           ConnectedAgain(events),
           NEW f \in 1..Len(events), NEW a \in 1..Len(events), NEW l \in 1..Len(events),
           f < a, a < l, events[f].boot = events[l].boot,
           events[l].what.type = "session_ready",
           FoundSession(events, a, l)
    PROVE  Happened(events, "reconnect", f, l, a)
<1> PICK d, c \in a + 1..l : /\ events[d].what.type = "session_disconnected"
                            /\ events[c].what.type = "session_connecting"
    BY DEF FoundSession
<1>1. \A i \in 1..Len(events) : events[i].boot \in Nat
  <2> TAKE i \in 1..Len(events)
  <2>1. events[i] \in Entry
      OBVIOUS
  <2> QED
      BY <2>1 DEF Entry
<1>2. \A i \in f..l : events[i].boot = events[l].boot
  <2> TAKE i \in f..l
  <2>1. i \in 1..Len(events) /\ events[f].boot <= events[i].boot /\ events[i].boot <= events[l].boot
      BY DEF BootsAreKnown
  <2> QED
      BY <1>1, <2>1
<1>3. a \in f..l /\ d \in f..l /\ c \in f..l /\ d \in 1..Len(events) /\ d # l /\ d # c
    OBVIOUS
<1>4. \E n \in a..l : /\ d < n /\ events[n].what.type = "session_connecting"
  <2>1. CASE d < c
      BY <2>1
  <2>2. CASE c < d
    <3>1. d < l /\ events[d].boot = events[l].boot
        BY <1>2, <1>3
    <3>2. PICK n \in 1..Len(events) :
             d < n /\ n < l /\ events[n].what.type = "session_connecting"
        BY <1>3, <3>1 DEF ConnectedAgain
    <3> QED
        BY <3>2
  <2> QED
      BY <1>3, <2>1, <2>2
<1>5. PICK n \in a..l : d < n /\ events[n].what.type = "session_connecting"
    BY <1>4
<1>6. n \in 1..Len(events) /\ a < n /\ n \in f..l
    BY <1>3, <1>5
<1>7. events[a].boot = events[n].boot
    BY <1>2, <1>3, <1>6
<1>8. events[a].gen < events[n].gen
    BY <1>5, <1>6, <1>7 DEF GensGrow
<1>9. events[n].gen > events[a].gen
  <2>1. events[n] \in Entry /\ events[a] \in Entry
      BY <1>6
  <2> QED
      BY <1>8, <2>1 DEF Entry
<1>10. \A i \in f..l : events[i].boot = events[a].boot
    BY <1>2, <1>3
<1>11. d \in a..l
    OBVIOUS
<1> QED
    BY <1>5, <1>9, <1>10, <1>11 DEF Happened

LEMMA RestartHappened ==
    ASSUME NEW events \in Seq(Entry), NEW b \in Nat, BootsAreKnown(events, b),
           NEW n \in Nat, n <= Len(events),
           NEW stop \in 1..n, NEW l, NEW f, FoundStart(events, n, stop, l),
           NEW a, events[a].boot = events[stop].boot
    PROVE  Happened(events, "bridge_restart", f, l, a)
<1> PICK start \in 1..n :
        /\ stop < start /\ start < l /\ l \in 1..n
        /\ events[start].boot # events[stop].boot /\ events[l].boot = events[start].boot
        /\ \A i \in 1..n : /\ stop < i /\ events[i].what.type = "bridge_started"
                           /\ events[i].boot # events[stop].boot
                           => start <= i
    BY DEF FoundStart
<1>0. stop \in 1..Len(events) /\ start \in 1..Len(events)
    OBVIOUS
<1>1. events[stop].boot \in Nat /\ events[start].boot \in Nat
  <2>1. events[stop] \in Entry /\ events[start] \in Entry
      BY <1>0
  <2> QED
      BY <2>1 DEF Entry
<1>2. events[stop].boot <= events[start].boot /\ events[start].boot <= b
    BY <1>0 DEF BootsAreKnown
<1>3. events[stop].boot < b
    BY <1>1, <1>2
<1>4. PICK k \in 1..Len(events) : /\ stop < k /\ events[k].what.type = "bridge_started"
                                  /\ events[k].boot = events[stop].boot + 1
    BY <1>0, <1>3 DEF BootsAreKnown
<1>5. start <= k
  <2>1. CASE k <= n
      BY <1>1, <1>4, <2>1
  <2>2. CASE ~(k <= n)
      BY <2>2
  <2> QED
      BY <2>1, <2>2
<1>6. events[start].boot <= events[k].boot
    BY <1>0, <1>5 DEF BootsAreKnown
<1>7. events[start].boot <= events[stop].boot + 1
    BY <1>4, <1>6
<1>8. events[stop].boot < events[start].boot
    BY <1>1, <1>2
<1>9. events[start].boot = events[stop].boot + 1
    BY <1>1, <1>7, <1>8
<1> QED
    BY <1>9 DEF Happened

LEMMA ReadIsPrefix ==
    ASSUME NEW events \in Seq(Entry), NEW n \in Nat, n <= Len(events),
           NEW read, read = SubSeq(events, 1, n)
    PROVE  Len(read) = n /\ \A i \in 1..n : read[i] = events[i]
OBVIOUS

LEMMA FaultIsShown ==
    ASSUME NEW events \in Seq(Entry), NEW s \in Faults, AppliedIsConsumed(events, s),
           ConsumedIsApplied(events, s), NEW n \in Nat, n <= Len(events),
           NEW f \in 1..n, NEW r \in 1..n, NEW l \in 1..n, f < r,
           FoundReceipt(events, n, s, r), FoundConsumed(events, n, s, r, l)
    PROVE  Shown(events, s, f, l)
<1>1. PICK a \in r..l : OnceBefore(events, s, f, l, a)
    BY ConsumedAtEnd
<1>2. Happened(events, s, f, l, a)
    BY <1>1 DEF OnceBefore, Happened, Faults, DetectedBy
<1> QED
    BY <1>1, <1>2, WhereControlsAre DEF Shown, AppliedIn, OnceBefore

LEMMA ReconnectIsShown ==
    ASSUME NEW events \in Seq(Entry), NEW b \in Nat, BootsAreKnown(events, b),
           GensGrow(events), ConnectedAgain(events),
           AppliedIsConsumed(events, "reconnect"), ConsumedIsApplied(events, "reconnect"),
           NEW n \in Nat, n <= Len(events),
           NEW f \in 1..n, NEW r \in 1..n, NEW l \in 1..n, f < r,
           FoundReceipt(events, n, "reconnect", r), FoundConsumed(events, n, "reconnect", r, l),
           FoundSession(events, r, l), events[f].boot = events[l].boot
    PROVE  Shown(events, "reconnect", f, l)
<1>1. PICK a \in r..l : OnceBefore(events, "reconnect", f, l, a)
    BY ConsumedAtEnd
<1>2. /\ f \in 1..Len(events) /\ r \in 1..Len(events) /\ l \in 1..Len(events) /\ r < l
      /\ r \in f..l
    BY DEF FoundConsumed
<1>3. events[r].boot = events[l].boot
  <2>1. events[f].boot <= events[r].boot /\ events[r].boot <= events[l].boot
      BY <1>2 DEF BootsAreKnown
  <2>2. events[f] \in Entry /\ events[r] \in Entry /\ events[l] \in Entry
      BY <1>2
  <2>3. events[f].boot \in Nat /\ events[r].boot \in Nat /\ events[l].boot \in Nat
      BY <2>2 DEF Entry
  <2> QED
      BY <2>1, <2>3
<1>4. r = a
    BY <1>1, <1>2, <1>3 DEF OnceBefore, FoundReceipt
<1>5. events[l].what.type = "session_ready"
    BY DEF FoundConsumed, IsConsumed, ConsumedBy
<1>6. Happened(events, "reconnect", f, l, r)
    BY <1>2, <1>5, ReconnectHappened
<1> QED
    BY <1>1, <1>4, <1>6, WhereControlsAre DEF Shown, AppliedIn, OnceBefore

LEMMA RestartIsShown ==
    ASSUME NEW events \in Seq(Entry), NEW b \in Nat, BootsAreKnown(events, b),
           AppliedIsConsumed(events, "bridge_restart"),
           ConsumedIsApplied(events, "bridge_restart"), NEW n \in Nat, n <= Len(events),
           NEW f \in 1..n, NEW r \in 1..n, NEW l \in 1..n, f < r,
           FoundReceipt(events, n, "bridge_restart", r), NEW stop \in 1..n,
           FoundConsumed(events, n, "bridge_restart", r, stop), FoundStart(events, n, stop, l)
    PROVE  Shown(events, "bridge_restart", f, l) /\ f < l
<1>1. stop < l
    BY DEF FoundStart
<1>2. stop \in 1..Len(events) /\ IsConsumed(events[stop].what, "bridge_restart")
    BY DEF FoundConsumed
<1>3. PICK a \in 1..Len(events) :
         /\ a < stop /\ IsReceipt(events[a].what, "bridge_restart")
         /\ events[a].boot = events[stop].boot
    BY <1>2 DEF ConsumedIsApplied
<1>4. r <= a /\ a \in f..l /\ f < l
    BY <1>1, <1>3 DEF FoundReceipt
<1>5. \A i \in f..l :
         IsReceipt(events[i].what, "bridge_restart") /\ events[i].boot = events[a].boot => i = a
  <2> TAKE i \in f..l
  <2>1. i \in 1..Len(events)
      OBVIOUS
  <2>2. IsReceipt(events[i].what, "bridge_restart") /\ events[i].boot = events[a].boot =>
           ~(i < a) /\ ~(a < i)
      BY <1>3, <2>1 DEF AppliedIsConsumed
  <2> QED
      BY <1>3, <2>1, <2>2
<1>6. Happened(events, "bridge_restart", f, l, a)
    BY <1>3, RestartHappened
<1> QED
    BY <1>3, <1>4, <1>5, <1>6, WhereControlsAre DEF Shown, AppliedIn

(* The evidence that the verifier submits, and that the database accepts,  *)
(* is that of a control that was applied once in the life of a process.    *)
LEMMA EvidenceIsShown ==
    ASSUME NEW events \in Seq(Entry), NEW s \in Controlled, NEW b \in Nat,
           BootsAreKnown(events, b), GensGrow(events), ConnectedAgain(events),
           ConsumedIsApplied(events, s), AppliedIsConsumed(events, s),
           NEW n \in Nat, n <= Len(events),
           NEW read, Len(read) = n, \A i \in 1..n : read[i] = events[i],
           NEW r, r = FirstOf(Receipts(read, s)), r # 0, NEW f, NEW l,
           Fragment(read, s, r) = <<f, l>>, <<f, l>> # NoFragment, Proven(events, s, f, l)
    PROVE  /\ f \in 1..n /\ l \in 1..n /\ f < l
           /\ events[f].what.type = "control_requested"
           /\ Shown(events, s, f, l)
<1>1. Len(read) \in Nat
    OBVIOUS
<1>2. FoundReceipt(read, Len(read), s, r)
    BY <1>1, FirstReceipt
<1>3. FoundReceipt(events, n, s, r)
    BY <1>2 DEF FoundReceipt
<1>4. r \in 1..n /\ r \in Nat
    BY <1>3 DEF FoundReceipt
<1>5. f \in 1..Len(read) /\ f < r /\ read[f].what.type = "control_requested"
    BY <1>1, <1>4, FragmentBegins
<1>6. f \in 1..n /\ f < r /\ events[f].what.type = "control_requested"
    BY <1>5
<1>7. CASE s \in Faults
  <2>1. FoundConsumed(read, Len(read), s, r, l)
      BY <1>1, <1>4, <1>7, FaultEnds
  <2>2. FoundConsumed(events, n, s, r, l) /\ l \in 1..n /\ r < l
      BY <2>1 DEF FoundConsumed
  <2>3. Shown(events, s, f, l)
      BY <1>3, <1>4, <1>6, <1>7, <2>2, FaultIsShown
  <2> QED
      BY <1>4, <1>6, <2>2, <2>3
<1>8. CASE s = "reconnect"
  <2>1. Fragment(read, "reconnect", r) = <<f, l>> /\ <<f, l>> # NoFragment
      BY <1>8
  <2>2. FoundConsumed(read, Len(read), "reconnect", r, l) /\ FoundSession(read, r, l)
      BY <1>1, <1>4, <2>1, ReconnectEnds
  <2>3. FoundConsumed(events, n, "reconnect", r, l) /\ l \in 1..n /\ r < l
      BY <2>2 DEF FoundConsumed
  <2>4. FoundSession(events, r, l)
    <3>1. \A i \in r + 1..l : read[i] = events[i]
        BY <1>4, <2>3
    <3> QED
        BY <2>2, <3>1 DEF FoundSession
  <2>5. events[f].boot = events[l].boot
      BY <1>8 DEF Proven
  <2>6. AppliedIsConsumed(events, "reconnect") /\ ConsumedIsApplied(events, "reconnect")
        /\ FoundReceipt(events, n, "reconnect", r)
      BY <1>3, <1>8
  <2>7. Shown(events, "reconnect", f, l)
      BY <1>4, <1>6, <2>3, <2>4, <2>5, <2>6, ReconnectIsShown
  <2> QED
      BY <1>4, <1>6, <1>8, <2>3, <2>7
<1>9. CASE s = "bridge_restart"
  <2>1. Fragment(read, "bridge_restart", r) = <<f, l>> /\ <<f, l>> # NoFragment
      BY <1>9
  <2>2. PICK stop \in 1..Len(read) :
           /\ FoundConsumed(read, Len(read), "bridge_restart", r, stop)
           /\ FoundStart(read, Len(read), stop, l)
      BY <1>1, <1>4, <2>1, RestartEnds
  <2>3. FoundConsumed(events, n, "bridge_restart", r, stop)
      BY <2>2 DEF FoundConsumed
  <2>4. FoundStart(events, n, stop, l) /\ l \in 1..n
      BY <2>2 DEF FoundStart
  <2>5. /\ AppliedIsConsumed(events, "bridge_restart")
        /\ ConsumedIsApplied(events, "bridge_restart")
        /\ FoundReceipt(events, n, "bridge_restart", r)
      BY <1>3, <1>9
  <2>6. Shown(events, "bridge_restart", f, l) /\ f < l
      BY <1>4, <1>6, <2>2, <2>3, <2>4, <2>5, RestartIsShown
  <2> QED
      BY <1>6, <1>9, <2>4, <2>6
<1>10. s \in Faults \/ s = "reconnect" \/ s = "bridge_restart"
    BY DEF Controlled, ActionOf, Faults, DetectedBy
<1> QED
    BY <1>7, <1>8, <1>9, <1>10

(* What is shown of the journal stays shown when it grows.                 *)
LEMMA ShownStays ==
    ASSUME NEW events, Len(events) \in Nat, NEW longer, NEW s,
           NEW f \in 1..Len(events), NEW l \in 1..Len(events),
           \A i \in 1..Len(events) : longer[i] = events[i], Shown(events, s, f, l)
    PROVE  Shown(longer, s, f, l)
<1>1. \A i \in f..l : i \in 1..Len(events) /\ longer[i] = events[i]
    OBVIOUS
<1>2. AppliedIn(longer, s, f, l) = AppliedIn(events, s, f, l)
  <2>1. \A a : /\ a \in AppliedIn(events, s, f, l) <=> a \in f..l /\ IsReceipt(events[a].what, s)
               /\ a \in AppliedIn(longer, s, f, l) <=> a \in f..l /\ IsReceipt(longer[a].what, s)
      BY WhereControlsAre DEF AppliedIn
  <2> QED
      BY <1>1, <2>1
<1>3. \A a \in AppliedIn(events, s, f, l) : a \in f..l
    BY WhereControlsAre DEF AppliedIn
<1>4. PICK a \in AppliedIn(events, s, f, l) :
         /\ \A i \in AppliedIn(events, s, f, l) : events[i].boot = events[a].boot => i = a
         /\ Happened(events, s, f, l, a)
    BY DEF Shown
<1>5. longer[a] = events[a] /\ longer[l] = events[l]
    BY <1>1, <1>3
<1>6. \A i \in AppliedIn(longer, s, f, l) : longer[i].boot = longer[a].boot => i = a
    BY <1>1, <1>2, <1>3, <1>4, <1>5
<1>7. Happened(longer, s, f, l, a)
  <2>1. \A i \in a..l : i \in f..l
      BY <1>3
  <2>2. CASE s = "reconnect"
    <3>1. /\ \A i \in f..l : events[i].boot = events[a].boot
          /\ \E d, c \in a..l :
                /\ d < c /\ events[c].gen > events[a].gen
                /\ events[d].what.type = "session_disconnected"
                /\ events[c].what.type = "session_connecting"
        BY <1>4, <2>2 DEF Happened
    <3>2. \A i \in f..l : longer[i].boot = longer[a].boot
        BY <1>1, <1>5, <3>1
    <3>3. \E d, c \in a..l :
             /\ d < c /\ longer[c].gen > longer[a].gen
             /\ longer[d].what.type = "session_disconnected"
             /\ longer[c].what.type = "session_connecting"
        BY <1>1, <1>5, <2>1, <3>1
    <3> QED
        BY <2>2, <3>2, <3>3 DEF Happened
  <2>3. CASE s # "reconnect"
      BY <1>4, <1>5, <2>3 DEF Happened
  <2> QED
      BY <2>2, <2>3
<1> QED
    BY <1>2, <1>4, <1>6, <1>7 DEF Shown

-----------------------------------------------------------------------------
(* What the database has recorded. *)

ImportedInside == imported <= Len(journal)
TrialIsShown ==
    trial # NoFragment =>
        /\ opened /\ trial[1] \in 1..Len(journal) /\ trial[2] \in 1..Len(journal)
        /\ trial[1] < trial[2] /\ trial[2] <= imported
        /\ Shown(journal, scenario, trial[1], trial[2])

(* The import goes on, a request stays, and only the command's last        *)
(* operation records a trial.                                              *)
LEMMA DatabaseMoves ==
    ASSUME [Next]_vars
    PROVE  /\ imported' \in {imported, PageEnd}
           /\ imported' # imported => PageEnd > imported
           /\ opened' = opened \/ opened' = TRUE
           /\ trial' = trial \/ CollectSubmits
<1>1. CASE Bridge
    BY <1>1 DEF Bridge, BridgeTakesRequest, BridgeApplies, BridgeRefuses, BridgeGoes, BridgeMoves,
           trialVars, databaseVars
<1>2. CASE Verifier
    BY <1>2 DEF Verifier, VerifierTakes, CheckpointIsSigned, VerifierFetches, PageIsStored,
           FetchFails, BeginRefuses, BeginResumes, BeginOpens, Opens, VerifierTriggers,
           TriggerTimesOut, CompletePeeks, CompleteResumes, CollectPolls, CollectFails,
           CollectSubmits, VerifierCrashes, databaseVars
<1>3. CASE Command
    BY <1>3 DEF Command, CommandStarts, CommandChecks, CommandExercises, CommandRecovers,
           RecoveryTimesOut, CommandGivesUp, databaseVars
<1>4. CASE Campaign
    BY <1>4 DEF Campaign, SlotBecomesDue, CycleStarts, CycleReads, CycleRecords, CycleIsLost,
           OtherReads, CheckpointIsCalled, databaseVars, trialVars
<1>5. CASE UNCHANGED vars
    BY <1>5 DEF vars, trialVars, databaseVars
<1> QED
    BY <1>1, <1>2, <1>3, <1>4, <1>5 DEF Next

LEMMA ImportGoesOn ==
    ASSUME TypeInvariant, CursorInside, ImportedInside, [Next]_vars
    PROVE  ImportedInside' /\ imported <= imported'
<1>1. imported \in Nat /\ PageEnd \in Nat /\ PageEnd <= Len(journal)
    BY PageEndInside DEF TypeInvariant, VerifierTyped
<1>2. Len(journal) \in Nat /\ Len(journal') \in Nat /\ Len(journal) <= Len(journal')
    BY StepKeeps, JournalGrows DEF TypeInvariant
<1>3. imported' \in {imported, PageEnd} /\ (imported' # imported => PageEnd > imported)
    BY DatabaseMoves
<1>4. imported <= Len(journal)
    BY DEF ImportedInside
<1>5. CASE imported' = imported
    BY <1>1, <1>2, <1>4, <1>5 DEF ImportedInside
<1>6. CASE imported' = PageEnd /\ imported' # imported
    BY <1>1, <1>2, <1>3, <1>6 DEF ImportedInside
<1> QED
    BY <1>3, <1>5, <1>6

(* What is recorded has been found in the journal by the operation that    *)
(* submits it, and accepted by the database.                               *)
LEMMA SubmittedIsShown ==
    ASSUME TypeInvariant, CursorInside, ImportedInside, JournalInvariant, CollectSubmits,
           trial = NoFragment, trial' # NoFragment
    PROVE  TrialIsShown'
<1>1. /\ journal \in Seq(Entry) /\ scenario \in Controlled /\ boot \in Nat /\ cursor \in Nat
      /\ cursor <= Len(journal)
    BY DEF TypeInvariant, TrialInvariant, VerifierTyped, CursorInside
<1>2. /\ BootsAreKnown(journal, boot) /\ GensGrow(journal) /\ ConnectedAgain(journal)
      /\ ConsumedIsApplied(journal, scenario) /\ AppliedIsConsumed(journal, scenario)
    BY DEF JournalInvariant, BootsPart, GensPart, SessionPart, ControlPart
<1>3. Len(Read) = cursor /\ \A i \in 1..cursor : Read[i] = journal[i]
    BY <1>1, ReadIsPrefix DEF Read
<1>4. Evidence(Read) \in Nat \X Nat
    BY EvidenceIsPair
<1>5. PICK f \in Nat, l \in Nat : Evidence(Read) = <<f, l>>
    BY <1>4
<1>6. Evidence(Read) # NoFragment /\ trial' = Evidence(Read)
      /\ Passes(Evidence(Read)[1], Evidence(Read)[2])
    BY DEF CollectSubmits, HasFragment
<1>7. Passes(f, l) /\ <<f, l>> # NoFragment /\ trial' = <<f, l>>
    BY <1>5, <1>6
<1>8. Proven(journal, scenario, f, l) /\ l <= imported
    BY <1>7 DEF Passes
<1> DEFINE r == FirstOf(Receipts(Read, scenario))
<1>9. r # 0 /\ Fragment(Read, scenario, r) = <<f, l>>
    BY <1>5, <1>7 DEF Evidence
<1>10. r = FirstOf(Receipts(Read, scenario))
    OBVIOUS
<1> HIDE DEF r
<1>11. /\ f \in 1..cursor /\ l \in 1..cursor /\ f < l
       /\ journal[f].what.type = "control_requested"
       /\ Shown(journal, scenario, f, l)
    BY <1>1, <1>2, <1>3, <1>7, <1>8, <1>9, <1>10, EvidenceIsShown
<1>12. f \in 1..Len(journal) /\ l \in 1..Len(journal)
    BY <1>1, <1>11
<1>13. opened
  <2>1. f \in At(journal, 1, Len(journal), "control_requested")
      BY <1>11, <1>12 DEF At
  <2>2. AskedIn(journal)
      BY <2>1 DEF AskedIn
  <2> QED
      BY <2>2 DEF TypeInvariant, TrialInvariant, ControlExists
<1>14. /\ journal' = journal /\ scenario' = scenario /\ imported' = imported /\ opened' = opened
    BY DEF CollectSubmits, bridgeVars
<1>15. trial'[1] = f /\ trial'[2] = l
    BY <1>7
<1> QED
    BY <1>8, <1>11, <1>12, <1>13, <1>14, <1>15 DEF TrialIsShown

LEMMA StepIsShown ==
    ASSUME TypeInvariant, TypeInvariant', CursorInside, ImportedInside, JournalInvariant,
           TrialIsShown, [Next]_vars
    PROVE  TrialIsShown'
<1>1. CASE trial = NoFragment /\ trial' # NoFragment
  <2>1. CollectSubmits
      BY <1>1, DatabaseMoves
  <2> QED
      BY <1>1, <2>1, SubmittedIsShown
<1>2. CASE trial # NoFragment
  <2>1. trial' = trial
    <3>1. CASE CollectSubmits
        BY <1>2, <3>1 DEF CollectSubmits
    <3> QED
        BY <3>1, DatabaseMoves
  <2>2. /\ opened /\ trial[1] \in 1..Len(journal) /\ trial[2] \in 1..Len(journal)
        /\ trial[1] < trial[2] /\ trial[2] <= imported
        /\ Shown(journal, scenario, trial[1], trial[2])
      BY <1>2 DEF TrialIsShown
  <2>3. /\ Len(journal) \in Nat /\ Len(journal') \in Nat /\ Len(journal) <= Len(journal')
        /\ \A i \in 1..Len(journal) : journal'[i] = journal[i]
        /\ scenario' = scenario
      BY StepKeeps, JournalGrows DEF TypeInvariant, BridgeKeeps
  <2>4. Shown(journal', scenario, trial[1], trial[2])
      BY <2>2, <2>3, ShownStays
  <2>5. opened'
      BY <2>2, DatabaseMoves
  <2>6. imported \in Nat /\ imported' \in Nat /\ imported <= imported'
      BY ImportGoesOn DEF TypeInvariant, VerifierTyped
  <2>7. trial[1] \in 1..Len(journal') /\ trial[2] \in 1..Len(journal') /\ trial[2] <= imported'
      BY <2>2, <2>3, <2>6
  <2> QED
      BY <2>1, <2>2, <2>3, <2>4, <2>5, <2>7 DEF TrialIsShown
<1>3. CASE trial' = NoFragment
    BY <1>3 DEF TrialIsShown
<1> QED
    BY <1>1, <1>2, <1>3

LEMMA InitDatabase == Init => ImportedInside /\ TrialIsShown
<1> SUFFICES ASSUME Init PROVE ImportedInside /\ TrialIsShown
    OBVIOUS
<1>1. imported = 0 /\ trial = NoFragment
    BY DEF Init, ScenarioInit
<1>2. Len(journal) = 1
    BY DEF Init, BridgeInit
<1> QED
    BY <1>1, <1>2 DEF ImportedInside, TrialIsShown

(* Whatever fails and however often: a recorded trial is about a control   *)
(* whose receipt is in it, once in the life of its process, and about what *)
(* that control was to do to the bridge.                                   *)
THEOREM TrialsAreProven == Spec => []TrialIsProven
<1>1. /\ TypeInvariant /\ TypeInvariant' /\ CountInvariant /\ JournalInvariant
      /\ ImportedInside /\ TrialIsShown /\ [Next]_vars
      => ImportedInside' /\ TrialIsShown'
    BY ImportGoesOn, StepIsShown DEF CountInvariant
<1>2. TrialIsShown => TrialIsProven
  <2> SUFFICES ASSUME TrialIsShown, trial # NoFragment PROVE TrialIsProven
      BY DEF TrialIsProven
  <2>1. /\ opened /\ trial[1] < trial[2] /\ trial[2] <= imported
        /\ Shown(journal, scenario, trial[1], trial[2])
      BY DEF TrialIsShown
  <2>2. PICK a \in AppliedIn(journal, scenario, trial[1], trial[2]) :
           /\ \A i \in AppliedIn(journal, scenario, trial[1], trial[2]) :
                 journal[i].boot = journal[a].boot => i = a
           /\ Happened(journal, scenario, trial[1], trial[2], a)
      BY <2>1 DEF Shown
  <2>3. TrialReceipts = AppliedIn(journal, scenario, trial[1], trial[2])
      BY DEF TrialReceipts, AppliedIn
  <2> QED
      BY <2>1, <2>2, <2>3 DEF TrialIsProven, Happened
<1> QED
    BY InitDatabase, TypeInvariantHolds, CountInvariantHolds, JournalInvariantHolds, <1>1, <1>2,
       PTL DEF Spec

-----------------------------------------------------------------------------
(* What the verifier has found is what the database asks for. *)

(* What the database asks of every trial, and of those of each kind.       *)
LEMMA FoundIsProven ==
    ASSUME NEW events, NEW n \in Nat, NEW s, NEW f, NEW r, NEW l \in 1..n,
           FoundRequest(events, n, s, f), FoundReceipt(events, n, s, r), f < r, r < l,
           CASE s = "bridge_restart" ->
                   /\ \E c \in f + 1..l - 1 : IsConsumed(events[c].what, s)
                   /\ events[f].boot # events[l].boot
                   /\ events[l].what.type = "session_ready"
             [] s = "reconnect" ->
                   /\ \E d \in f + 1..l - 1 : events[d].what.type = "session_disconnected"
                   /\ \E c \in f + 1..l - 1 : IsCleared(events[c].what, s)
                   /\ IsConsumed(events[l].what, s)
                   /\ events[f].boot = events[l].boot
                   /\ events[l].gen > events[f].gen
             [] OTHER ->
                   /\ IsConsumed(events[l].what, s)
                   /\ s = "missing_data" =>
                         \E c \in f + 1..l - 1 : IsCleared(events[c].what, s)
    PROVE  Proven(events, s, f, l)
<1>1. /\ f \in Nat /\ r \in Nat /\ l \in Nat
      /\ IsRequest(events[f].what, s) /\ IsReceipt(events[r].what, s)
    BY DEF FoundRequest, FoundReceipt
<1>2. f < l /\ f \in f..l /\ r \in f + 1..l - 1 /\ l \in l..l
    BY <1>1
<1>3. /\ f \in ControlAt(events, f, l, "control_requested", s, "requested")
      /\ ControlAt(events, f + 1, l - 1, "control_applied", s, "applied") # {}
    BY <1>1, <1>2, WhereControlsAre
<1>4. CASE s = "bridge_restart"
  <2>1. ControlAt(events, f + 1, l - 1, "bridge_stopping", s, "consumed") # {}
    <3>1. ConsumedBy(s) = "bridge_stopping"
        BY <1>4 DEF ConsumedBy
    <3>2. \E c \in f + 1..l - 1 : IsConsumed(events[c].what, s)
        BY <1>4
    <3> QED
        BY <3>1, <3>2, WhereControlsAre
  <2> QED
      BY <1>2, <1>3, <1>4, <2>1 DEF Proven
<1>5. CASE s = "reconnect"
  <2>1. l \in ControlAt(events, l, l, "session_ready", s, "consumed")
    <3>1. ConsumedBy(s) = "session_ready"
        BY <1>5 DEF ConsumedBy
    <3>2. IsConsumed(events[l].what, s)
        BY <1>5
    <3> QED
        BY <1>2, <3>1, <3>2, WhereControlsAre
  <2>2. /\ At(events, f + 1, l - 1, "session_disconnected") # {}
        /\ LinkedAt(events, f + 1, l - 1, "cache_cleared", s) # {}
      BY <1>5, WhereControlsAre DEF At
  <2> QED
      BY <1>2, <1>3, <1>5, <2>1, <2>2 DEF Proven
<1>6. CASE s # "bridge_restart" /\ s # "reconnect"
  <2>1. l \in ControlAt(events, l, l, DetectedBy[s], s, "consumed")
    <3>1. ConsumedBy(s) = DetectedBy[s]
        BY <1>6 DEF ConsumedBy
    <3>2. IsConsumed(events[l].what, s)
        BY <1>6
    <3> QED
        BY <1>2, <3>1, <3>2, WhereControlsAre
  <2>2. s = "missing_data" => LinkedAt(events, f + 1, l - 1, "cache_cleared", s) # {}
      BY <1>6, WhereControlsAre
  <2> QED
      BY <1>2, <1>3, <1>6, <2>1, <2>2 DEF Proven
<1> QED
    BY <1>4, <1>5, <1>6

LEMMA FaultIsProven ==
    ASSUME NEW events, NEW n \in Nat, n = Len(events), NEW s \in Faults,
           s = "missing_data" => ReceiptsAreCleared(events, s),
           NEW f, NEW r, NEW l, FoundRequest(events, n, s, f), FoundReceipt(events, n, s, r),
           f < r, FoundConsumed(events, n, s, r, l)
    PROVE  Proven(events, s, f, l)
<1>1. /\ s # "bridge_restart" /\ s # "reconnect"
    BY DEF Faults, DetectedBy
<1>2. l \in 1..n /\ r < l /\ IsConsumed(events[l].what, s)
      /\ f \in 1..n /\ r \in 1..n
    BY DEF FoundConsumed, FoundRequest, FoundReceipt
<1>3. ASSUME s = "missing_data" PROVE \E c \in f + 1..l - 1 : IsCleared(events[c].what, s)
  <2>1. ClearedBefore(events, s, r)
      BY <1>3 DEF ReceiptsAreCleared, FoundReceipt
  <2>2. PICK q, c \in 1..n :
           q < c /\ c < r /\ IsRequest(events[q].what, s) /\ IsCleared(events[c].what, s)
      BY <2>1 DEF ClearedBefore
  <2>3. f <= q
      BY <2>2 DEF FoundRequest
  <2>4. c \in f + 1..l - 1
      BY <1>2, <2>2, <2>3
  <2> QED
      BY <2>2, <2>4
<1> QED
    BY <1>1, <1>2, <1>3, FoundIsProven

LEMMA ReconnectIsProven ==
    ASSUME NEW events \in Seq(Entry), NEW n \in Nat, n = Len(events),
           NEW b \in Nat, BootsAreKnown(events, b), GensGrow(events), GensOrdered(events),
           NEW f, NEW r, NEW l, FoundRequest(events, n, "reconnect", f),
           FoundReceipt(events, n, "reconnect", r), f < r,
           FoundConsumed(events, n, "reconnect", r, l), FoundSession(events, r, l),
           FoundCleared(events, f, r), events[f].boot = events[l].boot
    PROVE  Proven(events, "reconnect", f, l)
<1>1. l \in 1..n /\ r < l /\ IsConsumed(events[l].what, "reconnect")
      /\ f \in 1..n /\ r \in 1..n
    BY DEF FoundConsumed, FoundRequest, FoundReceipt
<1>2. events[l].what.type = "session_ready"
    BY <1>1 DEF IsConsumed, ConsumedBy
<1>3. PICK d, c \in r + 1..l : /\ events[d].what.type = "session_disconnected"
                              /\ events[c].what.type = "session_connecting"
    BY DEF FoundSession
<1>4. d \in f + 1..l - 1 /\ c \in 1..n /\ f < c /\ c <= l
    BY <1>1, <1>2, <1>3
<1>5. events[f] \in Entry /\ events[c] \in Entry /\ events[l] \in Entry
    BY <1>1, <1>4
<1>6. /\ events[f].boot \in Nat /\ events[c].boot \in Nat /\ events[l].boot \in Nat
      /\ events[f].gen \in Nat /\ events[c].gen \in Nat /\ events[l].gen \in Nat
    BY <1>5 DEF Entry
<1>7. events[c].boot = events[l].boot
  <2>1. events[f].boot <= events[c].boot /\ events[c].boot <= events[l].boot
      BY <1>1, <1>4 DEF BootsAreKnown
  <2> QED
      BY <1>6, <2>1
<1>8. events[f].gen < events[c].gen
    BY <1>1, <1>3, <1>4, <1>7 DEF GensGrow
<1>9. events[c].gen <= events[l].gen
    BY <1>1, <1>4, <1>7 DEF GensOrdered
<1>10. events[l].gen > events[f].gen
    BY <1>6, <1>8, <1>9
<1>11. \E k \in f + 1..l - 1 : IsCleared(events[k].what, "reconnect")
  <2>1. PICK k \in f + 1..r - 1 : IsCleared(events[k].what, "reconnect")
      BY DEF FoundCleared
  <2>2. k \in f + 1..l - 1
      BY <1>1
  <2> QED
      BY <2>1, <2>2
<1>12. \E k \in f + 1..l - 1 : events[k].what.type = "session_disconnected"
    BY <1>3, <1>4
<1> QED
    BY <1>1, <1>10, <1>11, <1>12, FoundIsProven

LEMMA RestartIsProven ==
    ASSUME NEW events \in Seq(Entry), NEW n \in Nat, n = Len(events),
           NEW b \in Nat, BootsAreKnown(events, b),
           NEW f, NEW r, NEW stop, NEW l, FoundRequest(events, n, "bridge_restart", f),
           FoundReceipt(events, n, "bridge_restart", r), f < r,
           FoundConsumed(events, n, "bridge_restart", r, stop), FoundStart(events, n, stop, l)
    PROVE  Proven(events, "bridge_restart", f, l)
<1>1. /\ stop \in 1..n /\ r < stop /\ IsConsumed(events[stop].what, "bridge_restart")
      /\ f \in 1..n /\ r \in 1..n /\ l \in 1..n /\ events[l].what.type = "session_ready"
    BY DEF FoundConsumed, FoundRequest, FoundReceipt, FoundStart
<1>2. PICK start \in 1..n :
         /\ stop < start /\ start < l
         /\ events[start].boot # events[stop].boot /\ events[l].boot = events[start].boot
    BY DEF FoundStart
<1>3. events[f] \in Entry /\ events[stop] \in Entry /\ events[start] \in Entry
    BY <1>1
<1>4. events[f].boot \in Nat /\ events[stop].boot \in Nat /\ events[start].boot \in Nat
    BY <1>3 DEF Entry
<1>5. events[f].boot <= events[stop].boot /\ events[stop].boot <= events[start].boot
    BY <1>1, <1>2 DEF BootsAreKnown
<1>6. events[f].boot # events[l].boot
    BY <1>2, <1>4, <1>5
<1>7. stop \in f + 1..l - 1 /\ r < l
    BY <1>1, <1>2
<1>8. \E c \in f + 1..l - 1 : IsConsumed(events[c].what, "bridge_restart")
    BY <1>1, <1>7
<1> QED
    BY <1>1, <1>6, <1>7, <1>8, FoundIsProven

LEMMA FragmentIsProven ==
    ASSUME NEW events \in Seq(Entry), NEW s \in Controlled,
           NEW b \in Nat, BootsAreKnown(events, b), GensGrow(events), GensOrdered(events),
           s = "missing_data" => ReceiptsAreCleared(events, s),
           NEW r, r = FirstOf(Receipts(events, s)), r # 0, NEW f, NEW l,
           Fragment(events, s, r) = <<f, l>>, <<f, l>> # NoFragment
    PROVE  /\ f \in 1..Len(events) /\ l \in 1..Len(events)
           /\ Proven(events, s, f, l) \/ (s = "reconnect" /\ events[f].boot # events[l].boot)
<1>1. Len(events) \in Nat
    OBVIOUS
<1>2. FoundReceipt(events, Len(events), s, r)
    BY <1>1, FirstReceipt
<1>3. r \in Nat
    BY <1>2 DEF FoundReceipt
<1>4. FoundRequest(events, Len(events), s, f) /\ f < r /\ f \in 1..Len(events)
    BY <1>1, <1>3, FragmentBegins
<1>5. CASE s \in Faults
  <2>1. FoundConsumed(events, Len(events), s, r, l)
      BY <1>1, <1>3, <1>5, FaultEnds
  <2>2. Proven(events, s, f, l)
      BY <1>1, <1>2, <1>4, <1>5, <2>1, FaultIsProven
  <2> QED
      BY <1>4, <2>1, <2>2 DEF FoundConsumed
<1>6. CASE s = "reconnect"
  <2>1. /\ FoundConsumed(events, Len(events), "reconnect", r, l)
        /\ FoundSession(events, r, l) /\ FoundCleared(events, f, r)
      BY <1>1, <1>3, <1>6, ReconnectEnds
  <2>2. /\ FoundRequest(events, Len(events), "reconnect", f)
        /\ FoundReceipt(events, Len(events), "reconnect", r)
      BY <1>2, <1>4, <1>6
  <2>3. events[f].boot = events[l].boot => Proven(events, "reconnect", f, l)
      BY <1>1, <1>4, <2>1, <2>2, ReconnectIsProven
  <2> QED
      BY <1>4, <1>6, <2>1, <2>3 DEF FoundConsumed
<1>7. CASE s = "bridge_restart"
  <2>1. PICK stop \in 1..Len(events) :
           /\ FoundConsumed(events, Len(events), "bridge_restart", r, stop)
           /\ FoundStart(events, Len(events), stop, l)
      BY <1>1, <1>3, <1>7, RestartEnds
  <2>2. /\ FoundRequest(events, Len(events), "bridge_restart", f)
        /\ FoundReceipt(events, Len(events), "bridge_restart", r)
      BY <1>2, <1>4, <1>7
  <2>3. Proven(events, "bridge_restart", f, l)
      BY <1>1, <1>4, <2>1, <2>2, RestartIsProven
  <2> QED
      BY <1>4, <1>7, <2>1, <2>3 DEF FoundStart
<1>8. s \in Faults \/ s = "reconnect" \/ s = "bridge_restart"
    BY DEF Controlled, ActionOf, Faults, DetectedBy
<1> QED
    BY <1>5, <1>6, <1>7, <1>8

(* Whatever fails and however often: what the verifier takes for the       *)
(* evidence of a control, the rules of the database take for it too; the   *)
(* two can differ on a reconnection only, and after a crash of the bridge. *)
THEOREM VerifierAndDatabaseAgree == Spec => []EvidenceIsAgreed
<1>1. TypeInvariant /\ JournalInvariant /\ EvidenceInvariant => EvidenceIsAgreed
  <2> SUFFICES ASSUME TypeInvariant, JournalInvariant, EvidenceInvariant, HasEnd
               PROVE  EvidenceIsAgreed
      BY DEF EvidenceIsAgreed
  <2>1. /\ journal \in Seq(Entry) /\ scenario \in Controlled /\ boot \in Nat
        /\ BootsAreKnown(journal, boot) /\ GensGrow(journal) /\ GensOrdered(journal)
        /\ scenario = "missing_data" => ReceiptsAreCleared(journal, scenario)
      BY DEF TypeInvariant, TrialInvariant, JournalInvariant, BootsPart, GensPart,
             EvidenceInvariant, CachePart
  <2>2. Evidence(journal) \in Nat \X Nat
      BY EvidenceIsPair
  <2>3. PICK f \in Nat, l \in Nat : Evidence(journal) = <<f, l>>
      BY <2>2
  <2>4. <<f, l>> # NoFragment
      BY <2>3 DEF HasEnd
  <2> DEFINE r == FirstOf(Receipts(journal, scenario))
  <2>5. r # 0 /\ Fragment(journal, scenario, r) = <<f, l>>
      BY <2>3, <2>4 DEF Evidence
  <2>6. r = FirstOf(Receipts(journal, scenario))
      OBVIOUS
  <2> HIDE DEF r
  <2>7. /\ f \in 1..Len(journal) /\ l \in 1..Len(journal)
        /\ \/ Proven(journal, scenario, f, l)
           \/ scenario = "reconnect" /\ journal[f].boot # journal[l].boot
      BY <2>1, <2>4, <2>5, <2>6, FragmentIsProven
  <2>8. scenario = "reconnect" /\ journal[f].boot # journal[l].boot => "crash" \in Kinds
      BY <2>7 DEF EvidenceInvariant, ProcessPart, InBoot
  <2>9. \/ Proven(journal, scenario, f, l)
        \/ scenario = "reconnect" /\ "crash" \in Kinds /\ journal[f].boot # journal[l].boot
      BY <2>7, <2>8
  <2> QED
      BY <2>3, <2>9 DEF EvidenceIsAgreed
<1> QED
    BY TypeInvariantHolds, JournalInvariantHolds, EvidenceInvariantHolds, <1>1, PTL
=============================================================================
