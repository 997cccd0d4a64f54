---------------------------- MODULE SignedEvents ----------------------------
(***************************************************************************)
(* The signed events of the bridge's evidence journal: which shapes the    *)
(* bridge appends (OfficialT4MarketDataReader.cs), which the verifier      *)
(* accepts (observation_scenarios.py), which the database accepts          *)
(* (migration 0018), and what a stretch of the journal must contain to be  *)
(* the evidence of a controlled trial, once for the verifier and once for  *)
(* the database.  Signatures, hashes and identifiers are those of honest   *)
(* parties: an event is what it says, and is named by its position.        *)
(***************************************************************************)
EXTENDS Integers, Sequences, FiniteSets, FiniteSetsExt

None == "none"

(* CONTROL_ACTION_SCENARIOS, read from the scenario. *)
ActionOf == [reconnect |-> "reconnect", missing_data |-> "missing_data",
             stale_data |-> "stale_data", rate_limit |-> "rate_limit",
             bridge_restart |-> "restart"]
Controlled == DOMAIN ActionOf

(* A fault is consumed by the next read of its scope, which ends in this.  *)
DetectedBy == [missing_data |-> "missing_data_detected",
               stale_data |-> "stale_data_detected", rate_limit |-> "rate_limited"]
Faults == DOMAIN DetectedBy

ScenarioCodes == Controlled \union {"roll_transition", "replay_blocked"}
Actions == {ActionOf[s] : s \in Controlled} \union {"checkpoint"}
Steps == {"requested", "applied", "consumed"}
Detections == {DetectedBy[s] : s \in Faults}
Types == Detections \union
    {"bridge_started", "campaign_checkpoint", "session_connecting", "session_authenticated",
     "session_ready", "session_disconnected", "cache_cleared", "contract_roll_observed",
     "control_requested", "control_applied", "bridge_stopping", "outbound_rejected"}

(* What the rules look at: the market ids of a roll may be absent, only    *)
(* one of them, the same twice, or two.                                    *)
Shapes == [type : Types, scenario : ScenarioCodes \union {None}, action : Actions \union {None},
           step : Steps \union {None}, scoped : BOOLEAN, request : BOOLEAN, campaign : BOOLEAN,
           roll : {None, "half", "same", "two"}]

-----------------------------------------------------------------------------
(* What the bridge appends.  Its campaign is configured.                   *)

Plain(t) == [type |-> t, scenario |-> None, action |-> None, step |-> None,
             scoped |-> FALSE, request |-> FALSE, campaign |-> TRUE, roll |-> None]
Scoped(t) == [Plain(t) EXCEPT !.scoped = TRUE]
Linked(t, s) == [Scoped(t) EXCEPT !.scenario = s, !.request = TRUE]
Control(t, s, step) == [Linked(t, s) EXCEPT !.action = ActionOf[s], !.step = step]
Roll == [Scoped("contract_roll_observed") EXCEPT !.scenario = "roll_transition", !.roll = "two"]
Checkpoint == [Plain("campaign_checkpoint") EXCEPT
                  !.action = "checkpoint", !.step = "consumed", !.request = TRUE]

Emitted ==
    {Plain(t) : t \in {"bridge_started", "session_connecting", "session_authenticated",
                       "session_ready", "session_disconnected", "cache_cleared",
                       "bridge_stopping", "outbound_rejected"}}
    \union {Scoped(t) : t \in Detections}
    \union {Control("control_requested", s, "requested") : s \in Controlled}
    \union {Control("control_applied", s, "applied") : s \in Controlled}
    \union {Linked("cache_cleared", s) : s \in {"reconnect", "missing_data"}}
    \union {Control(DetectedBy[s], s, "consumed") : s \in Faults}
    \union {Control("session_ready", "reconnect", "consumed"),
            Control("bridge_stopping", "bridge_restart", "consumed"), Roll, Checkpoint}

-----------------------------------------------------------------------------
(* What the verifier accepts. *)

(* Mutant: missing data clears no cache. *)
CorrelatedTypesOfTheFault(s) ==
    {"control_requested", "control_applied"} \union
    (CASE s = "reconnect" -> {"cache_cleared", "session_ready"}
       [] s = "bridge_restart" -> {"bridge_stopping"}
       [] OTHER -> {DetectedBy[s]})

CorrelatedTypes(s) ==
    {"control_requested", "control_applied"} \union
    (CASE s = "reconnect" -> {"cache_cleared", "session_ready"}
       [] s = "missing_data" -> {"cache_cleared", "missing_data_detected"}
       [] s = "bridge_restart" -> {"bridge_stopping"}
       [] OTHER -> {DetectedBy[s]})

(* Mutant: what is linked to a scenario is not looked at. *)
VerifierAcceptsLinkOf(e) == e.scenario # None => e.scoped

(* The code of the scenario and what may be linked to it. *)
VerifierAcceptsLink(e) ==
    CASE e.scenario = "roll_transition" ->
            e.type = "contract_roll_observed" /\ ~e.request /\ e.action = None
      [] e.scenario \in Controlled ->
            /\ e.campaign /\ e.request /\ e.scoped
            /\ e.type \in CorrelatedTypes(e.scenario)
            /\ e.action # None => e.action = ActionOf[e.scenario]
            /\ e.action = None => e.type = "cache_cleared"
      [] e.scenario = None ->
            e.type = "campaign_checkpoint" \/ (~e.request /\ e.action = None)
      [] OTHER -> FALSE

VerifierAccepts(e) ==
    /\ (e.action = None) = (e.step = None)
    /\ IF e.type = "campaign_checkpoint"
       THEN /\ e.campaign /\ e.scenario = None /\ e.request /\ ~e.scoped
            /\ e.action = "checkpoint" /\ e.step = "consumed"
       ELSE e.action # "checkpoint"
    /\ e.type = "control_requested" => e.step = "requested"
    /\ e.type = "control_applied" => e.step \in {"applied", "consumed"}
    /\ VerifierAcceptsLink(e)
    /\ e.type \in {"control_requested", "control_applied"} =>
          e.campaign /\ e.scenario # None /\ e.request
    /\ e.type \in Detections => e.scoped
    /\ IF e.type = "contract_roll_observed"
       THEN e.scoped /\ e.roll = "two" /\ e.scenario = "roll_transition"
       ELSE e.roll = None

-----------------------------------------------------------------------------
(* What the trigger on the events table accepts, of the same shape. *)

DatabaseAccepts(e) ==
    /\ e.type \in {"missing_data_detected", "stale_data_detected", "contract_roll_observed"} =>
          e.scoped
    /\ e.type = "rate_limited" /\ e.scenario # None => e.scoped
    /\ \A s \in Faults : e.type = DetectedBy[s] => e.scenario \in {None, s}
    /\ e.type = "contract_roll_observed" =>
          e.scenario = "roll_transition" /\ ~e.request /\ e.action = None
    /\ (e.action = None) = (e.step = None)
    /\ e.type = "control_requested" => e.step = "requested"
    /\ e.type = "control_applied" => e.step \in {"applied", "consumed", None}
    /\ e.type \in {"control_requested", "control_applied"} =>
          e.campaign /\ e.scenario # None /\ e.request
    /\ e.scenario = None /\ e.type # "campaign_checkpoint" => ~e.request /\ e.action = None
    /\ e.scenario \in Controlled =>
          /\ e.campaign /\ e.scoped /\ e.request
          /\ \/ /\ e.type = "cache_cleared" /\ e.action = None
                /\ e.scenario \in {"reconnect", "missing_data"}
             \/ e.action = ActionOf[e.scenario]
    /\ e.type = "campaign_checkpoint" =>
          /\ e.campaign /\ ~e.scoped /\ e.scenario = None /\ e.request
          /\ e.action = "checkpoint" /\ e.step = "consumed" /\ e.roll = None
    /\ e.action = "checkpoint" => e.type = "campaign_checkpoint"

-----------------------------------------------------------------------------
(* An event of the journal: its shape, the boot and the session generation *)
(* it was appended in, and whether its time is before that of the event    *)
(* before it (the host's clock is not monotone).                           *)
Event(what, boot, gen, back) == [what |-> what, boot |-> boot, gen |-> gen, back |-> back]

(* Where a linked event of a kind is in a stretch of the journal. *)

FirstOf(positions) == IF positions = {} THEN 0 ELSE Min(positions)
At(events, from, to, t) == {i \in from..to : events[i].what.type = t}
LinkedAt(events, from, to, t, s) == {i \in At(events, from, to, t) : events[i].what.scenario = s}
ControlAt(events, from, to, t, s, step) ==
    {i \in LinkedAt(events, from, to, t, s) :
        events[i].what.action = ActionOf[s] /\ events[i].what.step = step}

Receipts(events, s) == ControlAt(events, 1, Len(events), "control_applied", s, "applied")

Seen(events, from, to, types) == \A t \in types : At(events, from, to, t) # {}

(* The verifier looks for the evidence of scenario s, whose receipt is at  *)
(* position r: the first position and the last one, or NoFragment.         *)
NoFragment == <<0, 0>>

RestartEnd(events, r, s) ==
    LET end == Len(events)
        stop == FirstOf(ControlAt(events, r + 1, end, "bridge_stopping", s, "consumed"))
        start == FirstOf({i \in At(events, stop + 1, end, "bridge_started") :
                            events[i].boot # events[stop].boot})
        ready == FirstOf({i \in At(events, start + 1, end, "session_ready") :
                            events[i].boot = events[start].boot})
    IN  IF /\ stop # 0 /\ start # 0 /\ ready # 0
           /\ \A t \in {"session_connecting", "session_authenticated"} :
                 \E i \in At(events, start, ready, t) : events[i].boot = events[start].boot
        THEN ready ELSE 0

ReconnectEnd(events, q, r, s) ==
    LET ready == FirstOf(ControlAt(events, r + 1, Len(events), "session_ready", s, "consumed"))
    IN  IF /\ ready # 0
           /\ LinkedAt(events, q + 1, r - 1, "cache_cleared", s) # {}
           /\ Seen(events, r + 1, ready, {"session_disconnected", "cache_cleared",
                                          "session_connecting", "session_authenticated"})
        THEN ready ELSE 0

Fragment(events, s, r) ==
    LET q == FirstOf(ControlAt(events, 1, Len(events), "control_requested", s, "requested"))
        end == CASE s = "reconnect" -> ReconnectEnd(events, q, r, s)
                 [] s = "bridge_restart" -> RestartEnd(events, r, s)
                 [] OTHER -> FirstOf(ControlAt(events, r + 1, Len(events), DetectedBy[s],
                                               s, "consumed"))
    IN  IF q = 0 \/ r <= q \/ end = 0 THEN NoFragment ELSE <<q, end>>

(* The database's own rules for the events from position f to position l.  *)
Proven(events, s, f, l) ==
    /\ f < l
    /\ f \in ControlAt(events, f, l, "control_requested", s, "requested")
    /\ ControlAt(events, f + 1, l - 1, "control_applied", s, "applied") # {}
    /\ CASE s = "bridge_restart" ->
              /\ ControlAt(events, f + 1, l - 1, "bridge_stopping", s, "consumed") # {}
              /\ events[f].boot # events[l].boot
              /\ events[l].what.type = "session_ready"
         [] s = "reconnect" ->
              /\ At(events, f + 1, l - 1, "session_disconnected") # {}
              /\ LinkedAt(events, f + 1, l - 1, "cache_cleared", s) # {}
              /\ l \in ControlAt(events, l, l, "session_ready", s, "consumed")
              /\ events[f].boot = events[l].boot
              /\ events[l].gen > events[f].gen
         [] OTHER ->
              /\ l \in ControlAt(events, l, l, DetectedBy[s], s, "consumed")
              /\ s = "missing_data" => LinkedAt(events, f + 1, l - 1, "cache_cleared", s) # {}
=============================================================================
