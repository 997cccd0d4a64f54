----------------------------- MODULE DecisionGate -----------------------------
(***************************************************************************)
(* What becomes of the evidence: the quality report (quality.py), the      *)
(* futures gate (futures_analytics.py), the proposal (signals.py), the     *)
(* risk gate (policy.py), the decision of the orchestrator and whether the *)
(* alert may leave the system (orchestrator.py, monitoring.py).  Prices    *)
(* and volumes are classes: on which side of its limits a number lies.     *)
(***************************************************************************)
EXTENDS T4Payload

CONSTANTS StaleAfter,    \* oldest last candle (1.25 intervals)
          ReferenceAge,  \* oldest reference price (300 s)
          RollRisk,      \* no alert so close to a roll (3600 s)
          Expiry,        \* from a contract's roll to its expiry
          ExpiryRisk     \* no alert so close to an expiry (48 h)

ASSUME GateAssumption ==
    /\ {StaleAfter, ReferenceAge, RollRisk, ExpiryRisk} \subseteq Nat
    /\ Expiry \in Nat \ {0}

(* The evidence of one analysis.                                           *)
(*   history   "whole", "short" (under 120 candles, over 60), "tiny",      *)
(*             "doubled" (the same bar twice), "conflict", "gap"           *)
(*   moves     "calm", "sharp" (over a threshold of an alert), "extreme"   *)
(*             (over a limit of the policy)                                *)
(*   volume    "usual", "anomalous", "flat" (no variance)                  *)
(*   prices    "fair", "wide" (spread or depth), "far" (basis or roll)     *)
(* The provider is "t4", "replay" or something else.                       *)

Flag(name, cond) == IF cond THEN {name} ELSE {}

-----------------------------------------------------------------------------
(* The quality of the candles: a critical flag fails it, and a doubled bar *)
(* costs three hundredths of a score that must stay over 0.85.             *)

CriticalFlags(e, at) ==
    LET p == e.payload IN
    Flag("DUPLICATE_CONFLICT", e.history = "conflict")
    \union Flag("INSUFFICIENT_HISTORY", e.history = "tiny")
    \union Flag("MISSING_INTERVALS", e.history = "gap")
    \union Flag("FUTURE_DATA", \E c \in p.closes : c > at)
    \union Flag("LOOKAHEAD_DATA", p.candles > at)
    \union Flag("INVALID_TIME_ORDER", \E c \in p.closes : c > p.candles)
    \union Flag("STALE_DATA", at - ObservedAt(p) > StaleAfter)
    \union Flag("UNEXPECTED_SOURCE", e.provider = "other")
QualityPasses(e, at) == CriticalFlags(e, at) = {}

-----------------------------------------------------------------------------
(* The source is attested when one of the two T4 providers gave all the    *)
(* candles that the policy asks for, with the evidence beside them.        *)

(* Mutant: only the live provider is attested. *)
SourceAttestedLive(e) ==
    e.provider = "t4" /\ e.history \notin {"short", "tiny"} /\ e.payload.lead = e.payload.market

SourceAttested(e) ==
    /\ e.provider \in {"t4", "replay"}
    /\ e.history \notin {"short", "tiny"}
    /\ e.payload.lead = e.payload.market
    /\ e.payload.from # e.payload.market

(* Mutant: a replay of live data is marked as well. *)
EligibleByEnvironment(e) == e.environment = "live_t4"

(* Only the client of the bridge marks a batch for delivery. *)
BatchIsEligible(e) == e.provider = "t4" /\ e.environment = "live_t4"

-----------------------------------------------------------------------------
(* The futures gate. *)

LifecycleVetoes(p, at) ==
    IF at < p.market /\ p.from # p.market
    THEN Flag("ROLL_WINDOW_TOO_CLOSE", p.market - at <= RollRisk) \union
         Flag("EXPIRY_RISK_HIGH", p.market + Expiry - at <= ExpiryRisk)
    ELSE {"CONTRACT_LIFECYCLE_INVALID"}

(* Mutant: the age of the book is not looked at again. *)
SnapshotTaken(e, at) == Chain(e.payload.book, at)

SnapshotValid(e, at) ==
    Chain(e.payload.book, at) /\ at - e.payload.book.observed <= SnapshotAge

BasisVetoes(e, at) ==
    LET p == e.payload IN
    Flag("BASIS_REFERENCE_INVALID", \/ ~Chain(p.basis, at) \/ ~Near(p.basis, p.book)
                                    \/ at - p.basis.observed > SnapshotAge)
    \union Flag("BASIS_EXTREME", e.prices = "far")

SnapshotVetoes(e, at) ==
    IF ~SnapshotValid(e, at) THEN {"FUTURES_SNAPSHOT_INVALID"}
    ELSE Flag("SESSION_CLOSED", e.session = "CLOSED")
         \union Flag("SESSION_HALT_CONFIRMED", e.session = "HALTED")
         \union Flag("ORDER_BOOK_INVALID", e.payload.levels = "crossed")
         \union Flag("DEPTH_INSUFFICIENT", e.payload.levels = "thin")
         \union Flag("SPREAD_TOO_WIDE", e.prices = "wide")
         \union BasisVetoes(e, at)

TransitionVetoes(p, at) ==
    IF p.from = NoContract THEN Flag("ROLL_EVIDENCE_UNEXPECTED", p.moved # {})
    ELSE Flag("ROLL_EVIDENCE_UNAVAILABLE", p.moved = {}) \union
         Flag("ROLL_EVIDENCE_INVALID",
              \E m \in p.moved : ~Chain(m, at) \/ ~Near(m, p.book))

(* Candles that did not pass are not looked at: there is no volume then.   *)
VolumeVetoes(e, at) ==
    Flag("VOLUME_METRICS_UNAVAILABLE", ~QualityPasses(e, at) \/ e.volume = "flat")

FuturesVetoes(e, at) ==
    VolumeVetoes(e, at)
    \union LifecycleVetoes(e.payload, at)
    \union SnapshotVetoes(e, at)
    \union TransitionVetoes(e.payload, at)

-----------------------------------------------------------------------------
(* The proposal, and the veto that no proposal passes. *)

VolumeAnomaly(e) == SourceAttested(e) /\ e.volume = "anomalous"

Proposes(e, at) ==
    QualityPasses(e, at) /\ (e.moves \in {"sharp", "extreme"} \/ VolumeAnomaly(e))

GateLetsThrough(e, at) == FuturesVetoes(e, at) = {}

ReferenceVetoes(p, at) ==
    IF ~Chain(p.reference, at) THEN {"REFERENCE_PRICE_INVALID"}
    ELSE Flag("STALE_DATA", at - p.reference.observed > ReferenceAge)

RiskVetoes(e, at) ==
    CriticalFlags(e, at)
    \union ReferenceVetoes(e.payload, at)
    \union Flag("SOURCE_ATTESTATION_REQUIRED", ~SourceAttested(e))
    \union Flag("METRICS_UNAVAILABLE", ~QualityPasses(e, at))
    \union Flag("EXTREME_PERIOD_MOVE", e.moves = "extreme")
    \union FuturesVetoes(e, at)

Decision(e, at) ==
    IF Proposes(e, at) /\ GateLetsThrough(e, at) /\ RiskVetoes(e, at) = {}
    THEN "ALERT" ELSE "NO_SIGNAL"

(* An alert leaves the system only from a live analysis, and only while it *)
(* is fresh.                                                               *)
Delivers(e, at, operation, now, expires) ==
    /\ operation = "live_t4_analysis" /\ Decision(e, at) = "ALERT"
    /\ at <= now /\ now < expires
    /\ SourceAttested(e) /\ BatchIsEligible(e) /\ e.environment = "live_t4"
=============================================================================
