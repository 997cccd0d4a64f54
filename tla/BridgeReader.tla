---------------------------- MODULE BridgeReader ----------------------------
(***************************************************************************)
(* The bridge process (OfficialT4MarketDataReader.cs, Program.cs): the     *)
(* session thread that connects, authenticates, subscribes and starts      *)
(* again when the session fails, the read path that turns a pending fault  *)
(* into a refused read, the control endpoint, and the stop and the boot of *)
(* the process.  Each of them appends to the one signed journal; only the  *)
(* journal survives a crash.  One scope and one action request are         *)
(* followed.                                                               *)
(***************************************************************************)
EXTENDS SignedEvents

CONSTANTS
    Scenarios,   \* the scenarios whose trial may be the one followed
    Kinds,       \* the kinds of failure, or of checkpoint, that may happen
    MaxFaults    \* bound: how many of them in a behaviour

ASSUME ScenariosAssumption == Scenarios \subseteq Controlled
ASSUME KindsAssumption ==
    Kinds \subseteq {"session", "data", "crash", "clock", "timeout", "verifier", "command",
                      "cycle", "reader", "checkpoint"}
ASSUME MaxFaultsAssumption == MaxFaults \in Nat

VARIABLES
    scenario,    \* the scenario of the followed request
    journal,     \* the signed events, in order
    boot,        \* how many times the bridge has started
    gen,         \* _sessionGeneration of this boot
    session,     \* where ExecuteAsync is
    aborted,     \* the session's socket has been aborted
    connected,   \* _connected
    health,      \* "ready", the scenario's own reason "coded", or another reason
    refreshing,  \* RefreshHealth has found the session connected
    pending,     \* what a control has left to be consumed
    control,     \* where ApplyControl, which holds _controlGate, is
    stopping,    \* the stop of the process
    faults       \* failures and checkpoints so far

bridgeVars == <<scenario, journal, boot, gen, session, aborted, connected, health, refreshing,
                pending, control, stopping, faults>>

Sessions == {"off", "idle", "connecting", "up", "ended"}

BridgeTypeOK ==
    /\ scenario \in Scenarios
    /\ journal \in Seq([what : Shapes, boot : Nat, gen : Nat, back : BOOLEAN])
    /\ boot \in Nat /\ gen \in Nat /\ session \in Sessions
    /\ aborted \in BOOLEAN /\ connected \in BOOLEAN /\ refreshing \in BOOLEAN
    /\ health \in {"ready", "coded", "other"}
    /\ pending \in {None} \union Controlled
    /\ control \in {None, "requested", "armed"}
    /\ stopping \in {"no", "asked", "recorded"}
    /\ faults \in 0..MaxFaults

(* The bridge has been started for the first time. *)
BridgeInit ==
    /\ scenario \in Scenarios
    /\ journal = <<Event(Plain("bridge_started"), 1, 0, FALSE)>>
    /\ boot = 1 /\ gen = 0 /\ session = "idle"
    /\ aborted = FALSE /\ connected = FALSE /\ refreshing = FALSE
    /\ health = "other" /\ pending = None /\ control = None /\ stopping = "no" /\ faults = 0

Running == session # "off"
(* Append one event, or one after another.  The time is the host's. *)
Record(e) == journal' = Append(journal, Event(e, boot, gen', FALSE))

Fault(kind) == kind \in Kinds /\ faults < MaxFaults /\ faults' = faults + 1

-----------------------------------------------------------------------------
(* The session thread. *)

Connect ==
    /\ session = "idle" /\ stopping # "recorded"
    /\ session' = "connecting" /\ gen' = gen + 1
    /\ Record(Plain("session_connecting"))
    /\ UNCHANGED <<scenario, boot, aborted, connected, health, refreshing, pending, control,
                   stopping, faults>>

(* AuthenticateAsync, then SubscribeAsync. *)
Subscribe ==
    /\ session = "connecting" /\ ~aborted
    /\ session' = "up" /\ connected' = TRUE /\ health' = "other"
    /\ gen' = gen /\ Record(Plain("session_authenticated"))
    /\ UNCHANGED <<scenario, boot, aborted, refreshing, pending, control, stopping, faults>>

(* The session fails: its tasks are over, the failure is recorded, and     *)
(* then everything is cleared.                                             *)
SessionFails ==
    /\ session \in {"connecting", "up"} /\ ~refreshing
    /\ IF aborted THEN faults' = faults ELSE Fault("session")
    /\ session' = "ended" /\ health' = "other"
    /\ gen' = gen /\ Record(Plain("session_disconnected"))
    /\ UNCHANGED <<scenario, boot, aborted, connected, refreshing, pending, control, stopping>>

SessionClears ==
    /\ session = "ended"
    /\ session' = "idle" /\ connected' = FALSE /\ aborted' = FALSE
    /\ gen' = gen /\ Record(Plain("cache_cleared"))
    /\ UNCHANGED <<scenario, boot, health, refreshing, pending, control, stopping, faults>>

(* RefreshHealth looks whether the session is connected, and later records *)
(* that it is ready: in between a control may have been applied.  A        *)
(* pending reconnect is taken under the gate.                              *)
RefreshChecks ==
    /\ session = "up" /\ connected /\ ~refreshing /\ health # "ready"
    /\ refreshing' = TRUE
    /\ UNCHANGED <<scenario, journal, boot, gen, session, aborted, connected, health, pending,
                   control, stopping, faults>>

RefreshRecordsReady ==
    /\ refreshing /\ control = None
    /\ refreshing' = FALSE /\ health' = "ready" /\ gen' = gen
    /\ IF pending = "reconnect"
       THEN /\ pending' = None
            /\ Record(Control("session_ready", "reconnect", "consumed"))
       ELSE pending' = pending /\ Record(Plain("session_ready"))
    /\ UNCHANGED <<scenario, boot, session, aborted, connected, control, stopping, faults>>

-----------------------------------------------------------------------------
(* The control endpoint: ApplyControl. *)

ControlIsRequested ==
    /\ Running /\ control = None /\ pending = None
    /\ control' = "requested"
    /\ gen' = gen /\ Record(Control("control_requested", scenario, "requested"))
    /\ UNCHANGED <<scenario, boot, session, aborted, connected, health, refreshing, pending,
                   stopping, faults>>

(* Mutant: the caches that missing data clears are not linked to it. *)
ControlArmsUnlinked ==
    /\ control = "requested"
    /\ control' = "armed" /\ pending' = scenario /\ gen' = gen
    /\ Record(IF scenario = "reconnect" THEN Linked("cache_cleared", scenario)
              ELSE Plain("cache_cleared"))
    /\ connected' = (connected /\ scenario # "reconnect")
    /\ aborted' = (aborted \/ (scenario = "reconnect" /\ session \in {"connecting", "up"}))
    /\ health' = IF scenario = "reconnect" THEN "other" ELSE "coded"
    /\ UNCHANGED <<scenario, boot, session, refreshing, stopping, faults>>

ControlArms ==
    /\ control = "requested"
    /\ control' = "armed" /\ pending' = scenario /\ gen' = gen
    /\ CASE scenario \in {"reconnect", "missing_data"} ->
                Record(Linked("cache_cleared", scenario))
         [] scenario = "rate_limit" -> Record(Plain("cache_cleared"))
         [] OTHER -> journal' = journal
    /\ IF scenario = "reconnect"
       THEN /\ connected' = FALSE
            /\ aborted' = (session \in {"connecting", "up"})
       ELSE UNCHANGED <<connected, aborted>>
    /\ health' = CASE scenario = "reconnect" -> "other"
                   [] scenario = "bridge_restart" -> health
                   [] OTHER -> "coded"
    /\ UNCHANGED <<scenario, boot, session, refreshing, stopping, faults>>

(* A restart stops the process once the answer is sent. *)
ControlIsApplied ==
    /\ control = "armed"
    /\ control' = None /\ gen' = gen
    /\ Record(Control("control_applied", scenario, "applied"))
    /\ stopping' = IF scenario = "bridge_restart" /\ stopping = "no" THEN "asked" ELSE stopping
    /\ UNCHANGED <<scenario, boot, session, aborted, connected, health, refreshing, pending,
                   faults>>

-----------------------------------------------------------------------------
(* The read path: what a read of the followed scope is answered.  A        *)
(* pending fault of the scope is consumed before anything else is looked   *)
(* at; a session that is not ready answers its reason.                     *)

ReadConsumes ==
    /\ Running /\ pending \in Faults /\ control = None
    /\ pending' = None
    /\ gen' = gen /\ Record(Control(DetectedBy[scenario], scenario, "consumed"))
    /\ UNCHANGED <<scenario, boot, session, aborted, connected, health, refreshing, control,
                   stopping, faults>>

NothingPending == pending \notin Faults

(* A read of a ready session finds its data missing or stale.  It is      *)
(* recorded once in a session.                                             *)
ReadFindsNoData ==
    /\ Running /\ NothingPending /\ connected /\ health = "ready"
    /\ scenario \in {"missing_data", "stale_data"}
    /\ Fault("data")
    /\ health' = "coded" /\ gen' = gen
    /\ IF \E i \in At(journal, 1, Len(journal), DetectedBy[scenario]) :
             journal[i].what.scenario = None /\ journal[i].boot = boot /\ journal[i].gen = gen
       THEN journal' = journal
       ELSE Record(Scoped(DetectedBy[scenario]))
    /\ UNCHANGED <<scenario, boot, session, aborted, connected, refreshing, pending, control,
                   stopping>>

-----------------------------------------------------------------------------
(* The process: StopAsync records the stop and takes what a restart left;  *)
(* then the session is cleared, unless it waited to connect.  A crash      *)
(* leaves the journal, and nothing else.                                   *)

StopIsRecorded ==
    /\ stopping = "asked" /\ control = None
    /\ stopping' = "recorded" /\ gen' = gen
    /\ Record(IF pending = "bridge_restart"
              THEN Control("bridge_stopping", "bridge_restart", "consumed")
              ELSE Plain("bridge_stopping"))
    /\ UNCHANGED <<scenario, boot, session, aborted, connected, health, refreshing, pending,
                   control, faults>>

(* Mutant: what a control has armed is kept over a crash. *)
VolatileButPending ==
    /\ session' = "off" /\ gen' = 0 /\ aborted' = FALSE /\ connected' = FALSE
    /\ health' = "other" /\ refreshing' = FALSE /\ pending' = pending /\ control' = None
    /\ stopping' = "no"

Volatile ==
    /\ session' = "off" /\ gen' = 0 /\ aborted' = FALSE /\ connected' = FALSE
    /\ health' = "other" /\ refreshing' = FALSE /\ pending' = None /\ control' = None
    /\ stopping' = "no"

Exit ==
    /\ stopping = "recorded" /\ Running /\ ~refreshing /\ control = None
    /\ journal' = IF session = "idle" THEN journal
                  ELSE Append(journal, Event(Plain("cache_cleared"), boot, gen, FALSE))
    /\ Volatile
    /\ UNCHANGED <<scenario, boot, faults>>

Crash ==
    /\ Running /\ Fault("crash")
    /\ Volatile
    /\ UNCHANGED <<scenario, journal, boot>>

(* The host's clock may have been set back while the bridge was down. *)
Boot ==
    /\ ~Running
    /\ boot' = boot + 1 /\ session' = "idle"
    /\ \E back \in BOOLEAN :
          /\ IF back THEN Fault("clock") ELSE faults' = faults
          /\ journal' = Append(journal, Event(Plain("bridge_started"), boot + 1, 0, back))
    /\ UNCHANGED <<scenario, gen, aborted, connected, health, refreshing, pending, control,
                   stopping>>

SessionStep == Connect \/ Subscribe \/ SessionFails \/ SessionClears
               \/ RefreshChecks \/ RefreshRecordsReady
=============================================================================
