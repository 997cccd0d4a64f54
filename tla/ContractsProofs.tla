--------------------------- MODULE ContractsProofs ---------------------------
(***************************************************************************)
(* For any contracts, ages and limits: what one part of the system lets    *)
(* through, the next one accepts.  Each contract is a theorem about every  *)
(* event, answer or analysis of the right form; the properties of the      *)
(* bounded cases are instances of them.                                    *)
(***************************************************************************)
EXTENDS MCContracts, FiniteSetTheorems, WellFoundedInduction, TLAPS

-----------------------------------------------------------------------------
(* Least and greatest elements. *)

LEMMA LeastExists ==
    ASSUME NEW S \in SUBSET Nat, S # {}
    PROVE  \E m \in S : \A k \in S : m <= k
<1> DEFINE R == OpToRel(<, Nat)
<1>1. IsWellFoundedOn(R, Nat)
    BY NatLessThanWellFounded
<1>2. \A i, j \in Nat : <<i, j>> \in R <=> i < j
    BY DEF OpToRel
<1> HIDE DEF R
<1>3. PICK m \in S : \A k \in S : ~(<<k, m>> \in R)
    BY <1>1, WFMin
<1>4. \A k \in S : ~(k < m)
    BY <1>2, <1>3
<1> QED
    BY <1>4

LEMMA MinIsLeast ==
    ASSUME NEW S \in SUBSET Nat, S # {}
    PROVE  Min(S) \in S /\ \A k \in S : Min(S) <= k
<1>1. \E m \in S : \A k \in S : m <= k
    BY LeastExists
<1> QED
    BY <1>1 DEF Min

LEMMA MaxIsGreatest ==
    ASSUME NEW S \in SUBSET Nat, S # {}, NEW bound \in Nat, \A k \in S : k <= bound
    PROVE  Max(S) \in S /\ \A k \in S : k <= Max(S)
<1> DEFINE gaps == {bound - k : k \in S}
<1>1. gaps \in SUBSET Nat /\ gaps # {}
    OBVIOUS
<1>2. \E g \in gaps : \A h \in gaps : g <= h
    BY <1>1, LeastExists
<1>3. PICK m \in S : \A h \in gaps : bound - m <= h
    BY <1>2
<1>4. \A k \in S : k <= m
    BY <1>3
<1> QED
    BY <1>4 DEF Max

-----------------------------------------------------------------------------
(* The contract catalog. *)

LEMMA MarketIsNext ==
    ASSUME NEW asOf \in Nat, Selectable(asOf) # {}
    PROVE  /\ Market(asOf) \in Rolls /\ asOf < Market(asOf)
           /\ \A r \in Rolls : r > asOf => Market(asOf) <= r
<1>1. Selectable(asOf) \in SUBSET Nat
    BY PayloadAssumption DEF Selectable
<1> QED
    BY <1>1, MinIsLeast DEF Market, Selectable

(* While the contract has not rolled, it is the one to be traded.          *)
LEMMA MarketLasts ==
    ASSUME NEW asOf \in Nat, NEW at \in Nat, asOf <= at, Selectable(asOf) # {},
           at < Market(asOf)
    PROVE  Selectable(at) # {} /\ Market(at) = Market(asOf)
<1>1. Market(asOf) \in Rolls /\ \A r \in Rolls : r > asOf => Market(asOf) <= r
    BY MarketIsNext
<1>2. Selectable(at) # {}
    BY <1>1 DEF Selectable
<1>3. /\ Market(at) \in Rolls /\ at < Market(at)
      /\ \A r \in Rolls : r > at => Market(at) <= r
    BY <1>2, MarketIsNext
<1>4. Market(at) \in Nat /\ Market(asOf) \in Nat
    BY <1>1, <1>3, PayloadAssumption
<1>5. Market(at) <= Market(asOf) /\ Market(asOf) <= Market(at)
    BY <1>1, <1>3, <1>4
<1> QED
    BY <1>2, <1>4, <1>5

LEMMA RolledIsPast ==
    ASSUME NEW asOf \in Nat
    PROVE  RolledFrom(asOf) \in Nat /\ RolledFrom(asOf) <= asOf
<1> DEFINE rolled == {r \in Rolls : r <= asOf}
<1>1. rolled \in SUBSET Nat /\ \A k \in rolled : k <= asOf
    BY PayloadAssumption
<1>2. CASE rolled = {}
    BY <1>2 DEF RolledFrom, NoContract
<1>3. CASE rolled # {}
  <2>1. Max(rolled) \in rolled
      BY <1>1, <1>3, MaxIsGreatest
  <2>2. RolledFrom(asOf) \in {Max(rolled), NoContract}
      BY DEF RolledFrom
  <2> QED
      BY <1>1, <2>1, <2>2 DEF NoContract
<1> QED
    BY <1>2, <1>3

-----------------------------------------------------------------------------
(* The signed events. *)

(* What the verifier accepts of any event, the database accepts.           *)
LEMMA StoredEvent ==
    ASSUME NEW e \in Shapes, VerifierAccepts(e)
    PROVE  DatabaseAccepts(e)
<1>1. /\ None \notin Controlled /\ "roll_transition" \notin Controlled
      /\ "replay_blocked" \notin Controlled /\ "replay_blocked" # None
      /\ "roll_transition" # None
    BY DEF None, Controlled, ActionOf
<1>2. ScenarioCodes = Controlled \union {"roll_transition", "replay_blocked"}
    BY DEF ScenarioCodes
<1>3. e.scenario \in Controlled \union {"roll_transition", "replay_blocked", None}
    BY <1>2 DEF Shapes
<1>4. \A s \in Controlled : ActionOf[s] # "checkpoint" /\ ActionOf[s] # None
    BY DEF Controlled, ActionOf, None
<1>5. Detections = {"missing_data_detected", "stale_data_detected", "rate_limited"}
      /\ Faults = {"missing_data", "stale_data", "rate_limit"}
    BY DEF Detections, Faults, DetectedBy
<1>6. e.scoped \in BOOLEAN /\ e.request \in BOOLEAN /\ e.campaign \in BOOLEAN
    BY DEF Shapes
<1>7. CASE e.scenario \in Controlled
  <2>1. /\ e.campaign /\ e.request /\ e.scoped /\ e.type \in CorrelatedTypes(e.scenario)
        /\ e.action # None => e.action = ActionOf[e.scenario]
        /\ e.action = None => e.type = "cache_cleared"
      BY <1>1, <1>7 DEF VerifierAccepts, VerifierAcceptsLink
  <2>2. /\ e.type = "cache_cleared" => e.scenario \in {"reconnect", "missing_data"}
        /\ \A s \in Faults : e.type = DetectedBy[s] => e.scenario = s
        /\ e.type # "contract_roll_observed" /\ e.type # "campaign_checkpoint"
      BY <1>7, <2>1 DEF CorrelatedTypes, Controlled, ActionOf, Faults, DetectedBy
  <2> QED
      BY <1>1, <1>4, <1>7, <2>1, <2>2 DEF VerifierAccepts, DatabaseAccepts
<1>8. CASE e.scenario = None
  <2>1. e.type = "campaign_checkpoint" \/ (~e.request /\ e.action = None)
      BY <1>1, <1>8 DEF VerifierAccepts, VerifierAcceptsLink
  <2>2. e.type # "contract_roll_observed" /\ e.type # "control_requested"
        /\ e.type # "control_applied"
      BY <1>1, <1>8 DEF VerifierAccepts
  <2>3. e.action = "checkpoint" => e.type = "campaign_checkpoint"
      BY DEF VerifierAccepts
  <2>4. e.type = "campaign_checkpoint" => e.roll = None
      BY DEF VerifierAccepts
  <2>5. e.type \in Detections => e.scoped
      BY DEF VerifierAccepts
  <2> QED
      BY <1>1, <1>5, <1>6, <1>8, <2>1, <2>2, <2>3, <2>4, <2>5
      DEF VerifierAccepts, DatabaseAccepts
<1>9. CASE e.scenario = "roll_transition"
  <2>1. e.type = "contract_roll_observed" /\ ~e.request /\ e.action = None
      BY <1>1, <1>9 DEF VerifierAccepts, VerifierAcceptsLink
  <2> QED
      BY <1>1, <1>5, <1>9, <2>1 DEF VerifierAccepts, DatabaseAccepts, DetectedBy, None
<1>10. CASE e.scenario = "replay_blocked"
    BY <1>1, <1>10 DEF VerifierAccepts, VerifierAcceptsLink
<1> QED
    BY <1>3, <1>7, <1>8, <1>9, <1>10

(* Whatever the bridge appends, the verifier accepts.                      *)
LEMMA AcceptedEvent ==
    ASSUME NEW e \in Emitted
    PROVE  VerifierAccepts(e)
<1>1. /\ None \notin Controlled /\ None # "checkpoint" /\ None # "roll_transition"
      /\ "roll_transition" \notin Controlled
      /\ \A s \in Controlled : ActionOf[s] # None /\ ActionOf[s] # "checkpoint"
    BY DEF None, Controlled, ActionOf
<1>2. /\ Detections = {"missing_data_detected", "stale_data_detected", "rate_limited"}
      /\ \A s \in Faults : s \in Controlled /\ DetectedBy[s] \in Detections
    BY DEF Detections, Faults, DetectedBy, Controlled, ActionOf
<1>3. CASE e \in {Plain(t) : t \in {"bridge_started", "session_connecting",
                      "session_authenticated", "session_ready", "session_disconnected",
                      "cache_cleared", "bridge_stopping", "outbound_rejected"}}
    BY <1>1, <1>2, <1>3 DEF Plain, VerifierAccepts, VerifierAcceptsLink
<1>4. CASE e \in {Scoped(t) : t \in Detections}
    BY <1>1, <1>2, <1>4 DEF Plain, Scoped, VerifierAccepts, VerifierAcceptsLink
<1>5. ASSUME NEW t \in Types, NEW s \in Controlled, NEW st \in Steps, t \in CorrelatedTypes(s),
             e = Control(t, s, st), t = "control_requested" => st = "requested",
             t = "control_applied" => st = "applied"
      PROVE  VerifierAccepts(e)
  <2>1. t # "campaign_checkpoint" /\ t # "contract_roll_observed"
      BY <1>5 DEF CorrelatedTypes, Controlled, ActionOf, DetectedBy
  <2>2. /\ e.type = t /\ e.scenario = s /\ e.action = ActionOf[s] /\ e.step = st
        /\ e.scoped /\ e.request /\ e.campaign /\ e.roll = None
      BY <1>5 DEF Plain, Scoped, Linked, Control
  <2>3. st # None
      BY DEF Steps, None
  <2>4. VerifierAcceptsLink(e)
      BY <1>1, <1>5, <2>2 DEF VerifierAcceptsLink
  <2> QED
      BY <1>1, <1>5, <2>1, <2>2, <2>3, <2>4 DEF VerifierAccepts
<1>6. CASE e \in {Linked("cache_cleared", s) : s \in {"reconnect", "missing_data"}}
    BY <1>2, <1>6 DEF Plain, Scoped, Linked, VerifierAccepts, VerifierAcceptsLink, Controlled,
                      ActionOf, CorrelatedTypes, None
<1>7. CASE e = Roll
    BY <1>1, <1>2, <1>7 DEF Plain, Scoped, Roll, VerifierAccepts, VerifierAcceptsLink
<1>12. CASE e = Checkpoint
  <2>1. /\ e.type = "campaign_checkpoint" /\ e.scenario = None /\ e.action = "checkpoint"
        /\ e.step = "consumed" /\ ~e.scoped /\ e.request /\ e.campaign /\ e.roll = None
      BY <1>12 DEF Plain, Checkpoint
  <2>2. VerifierAcceptsLink(e) /\ "consumed" # None
      BY <1>1, <2>1 DEF VerifierAcceptsLink, None
  <2> QED
      BY <1>1, <1>2, <2>1, <2>2 DEF VerifierAccepts
<1>8. CASE e \in {Control("control_requested", s, "requested") : s \in Controlled}
    BY <1>5, <1>8 DEF Types, Steps, CorrelatedTypes
<1>9. CASE e \in {Control("control_applied", s, "applied") : s \in Controlled}
    BY <1>5, <1>9 DEF Types, Steps, CorrelatedTypes
<1>10. CASE e \in {Control(DetectedBy[s], s, "consumed") : s \in Faults}
  <2>1. \A s \in Faults : DetectedBy[s] \in Types /\ DetectedBy[s] \in CorrelatedTypes(s)
      BY <1>2 DEF Types, CorrelatedTypes, Faults, DetectedBy
  <2>2. \A s \in Faults : DetectedBy[s] \notin {"control_requested", "control_applied"}
      BY <1>2
  <2> QED
      BY <1>2, <1>5, <1>10, <2>1, <2>2 DEF Steps
<1>11. CASE e \in {Control("session_ready", "reconnect", "consumed"),
                   Control("bridge_stopping", "bridge_restart", "consumed")}
    BY <1>5, <1>11 DEF Types, Steps, CorrelatedTypes, Controlled, ActionOf
<1> QED
    BY <1>3, <1>4, <1>6, <1>7, <1>8, <1>9, <1>10, <1>11, <1>12 DEF Emitted

-----------------------------------------------------------------------------
(* The answers of the bridge. *)

Stamped == [observed : Nat, available : Nat, ingested : Nat]
FiniteTimes == {times \in SUBSET Nat : IsFiniteSet(times)}
AnyPayload ==
    [market : Nat, from : Nat, closes : FiniteTimes, lead : Nat, candles : Nat,
     levels : {"whole", "thin", "crossed"}, reference : Stamped, book : Stamped,
     basis : Stamped, moved : SUBSET Stamped]

(* What the bridge has accepted for a cutoff, said once for all judges.    *)
LEMMA AcceptedAnswer ==
    ASSUME NEW asOf \in Nat, Selectable(asOf) # {}, NEW p \in AnyPayload, BridgeAccepts(p, asOf)
    PROVE  /\ asOf < p.market /\ p.from <= asOf /\ p.from # p.market
           /\ p.closes # {} /\ Cardinality(p.closes) = Limit
           /\ \A c \in p.closes : c <= p.candles
           /\ p.candles <= asOf
           /\ \A s \in {p.reference, p.book, p.basis} \union p.moved : Chain(s, asOf)
<1>1. p.market = Market(asOf) /\ p.from = RolledFrom(asOf) /\ Cardinality(p.closes) = Limit
    BY DEF BridgeAccepts
<1>2. asOf < p.market /\ p.from <= asOf /\ p.market \in Nat /\ p.from \in Nat
    BY <1>1, MarketIsNext, RolledIsPast DEF AnyPayload
<1>3. p.closes # {}
    BY <1>1, FS_EmptySet, PayloadAssumption
<1>4. p.candles \in Nat /\ \A c \in p.closes : c \in Nat /\ Chain(Candle(p, c), asOf)
    BY DEF BridgeAccepts, AnyPayload, FiniteTimes
<1>5. (\A c \in p.closes : c <= p.candles) /\ p.candles <= asOf
    BY <1>3, <1>4 DEF Candle, Chain, Stamp
<1>6. \A s \in {p.reference, p.book, p.basis} \union p.moved : Chain(s, asOf)
    BY DEF BridgeAccepts, ReferenceChecked, BasisChecked
<1> QED
    BY <1>1, <1>2, <1>3, <1>5, <1>6

(* The client keeps every candle of such an answer.                        *)
LEMMA BatchIsWhole ==
    ASSUME NEW p \in AnyPayload, Cardinality(p.closes) = Limit
    PROVE  Batch(p) = p
<1>1. ASSUME NEW c \in p.closes PROVE Cardinality({d \in p.closes : d >= c}) <= Limit
  <2>1. {d \in p.closes : d >= c} \subseteq p.closes /\ IsFiniteSet(p.closes)
      BY DEF AnyPayload, FiniteTimes
  <2> QED
      BY <2>1, FS_Subset
<1>2. {c \in p.closes : Cardinality({d \in p.closes : d >= c}) <= Limit} = p.closes
    BY <1>1
<1> QED
    BY <1>2 DEF Batch, AnyPayload

LEMMA ChainLasts ==
    ASSUME NEW s \in Stamped, NEW asOf \in Nat, NEW at \in Nat, asOf <= at, Chain(s, asOf)
    PROVE  Chain(s, at) /\ s.ingested <= at /\ s.available <= at
BY DEF Stamped, Chain

(* The bridge's answer passes the client, the ingest and the tables.       *)
THEOREM AnswerPasses ==
    ASSUME NEW asOf \in Nat, Selectable(asOf) # {}, NEW p \in AnyPayload,
           BridgeAccepts(p, asOf), NEW started \in Nat, asOf <= started
    PROVE  /\ ProviderAccepts(p, asOf) /\ EnvelopeAccepts(p, asOf)
           /\ TablesAccept(Row(1, p, asOf, started))
<1>1. /\ asOf < p.market /\ p.from <= asOf /\ p.from # p.market
      /\ p.closes # {} /\ Cardinality(p.closes) = Limit
      /\ \A c \in p.closes : c <= p.candles
      /\ p.candles <= asOf
      /\ \A s \in {p.reference, p.book, p.basis} \union p.moved : Chain(s, asOf)
    BY AcceptedAnswer
<1>2. /\ p.lead = p.market /\ p.levels # "crossed" /\ Near(p.basis, p.book)
      /\ IF p.from = NoContract THEN p.moved = {}
         ELSE p.moved # {} /\ \A m \in p.moved : Near(m, p.book)
    BY DEF BridgeAccepts, BasisChecked
<1>3. /\ p.closes \in SUBSET Nat /\ p.candles \in Nat /\ p.reference \in Stamped
      /\ p.book \in Stamped /\ p.basis \in Stamped /\ p.moved \in SUBSET Stamped
      /\ Limit \in Nat
    BY PayloadAssumption DEF AnyPayload, FiniteTimes
<1>4. \A c \in p.closes : c <= asOf
    BY <1>1, <1>3
<1>5. ProviderAccepts(p, asOf)
    BY <1>1, <1>2, <1>3, <1>4 DEF ProviderAccepts, EvidenceParses
<1>6. Batch(p) = p
    BY <1>1, BatchIsWhole
<1>7. Structure(p, asOf)
    BY <1>1, <1>2 DEF Structure
<1>8. EnvelopeAccepts(p, asOf)
    BY <1>1, <1>2, <1>6, <1>7 DEF EnvelopeAccepts, RawCandlesMatch, RawEvidenceMatches
<1>9. Max(p.closes) \in p.closes
    BY <1>1, <1>3, MaxIsGreatest
<1>10. ObservedAt(p) <= AvailableAt(p) /\ AvailableAt(p) <= started
    BY <1>1, <1>3, <1>9 DEF ObservedAt, AvailableAt, Later, Chain, Stamped
<1>11. \A s \in {p.reference, p.book, p.basis} \union p.moved :
           s.observed <= s.available /\ s.available <= s.ingested
    BY <1>1 DEF Chain
<1>12. TablesAccept(Row(1, p, asOf, started))
    BY <1>1, <1>10, <1>11 DEF TablesAccept, Row
<1> QED
    BY <1>5, <1>8, <1>12

(* A batch that a replay chooses for a later cutoff is usable, and nothing *)
(* in it is newer than that cutoff.                                        *)
THEOREM ChosenPasses ==
    ASSUME NEW asOf \in Nat, Selectable(asOf) # {}, NEW p \in AnyPayload,
           BridgeAccepts(p, asOf), NEW at \in Nat, asOf <= at
    PROVE  ReplayUsable(p, at) /\ \A s \in Stamps(p) : s.ingested <= at
<1>1. /\ p.closes # {} /\ p.candles <= asOf
      /\ \A s \in {p.reference, p.book, p.basis} \union p.moved : Chain(s, asOf)
    BY AcceptedAnswer
<1>2. /\ p.candles \in Nat /\ p.reference \in Stamped
      /\ p.book \in Stamped /\ p.basis \in Stamped /\ p.moved \in SUBSET Stamped
    BY DEF AnyPayload
<1>3. \A s \in {p.reference, p.book, p.basis} \union p.moved :
         Chain(s, at) /\ s.ingested <= at /\ s.available <= at
    BY <1>1, <1>2, ChainLasts
<1>4. \A c \in p.closes : Candle(p, c).ingested <= at
    BY <1>1, <1>2 DEF Candle, Stamp
<1>5. {m \in p.moved : SeenBy(m, at)} = p.moved
    BY <1>3 DEF SeenBy
<1>6. [p EXCEPT !.moved = {m \in p.moved : SeenBy(m, at)}] = p
    BY <1>5 DEF AnyPayload
<1>7. Structure(p, at) /\ p.lead = p.market
    BY <1>3 DEF Structure, BridgeAccepts, BasisChecked
<1> QED
    BY <1>3, <1>4, <1>6, <1>7 DEF ReplayUsable, SeenBy, Stamps

-----------------------------------------------------------------------------
(* The analysis. *)

AnyAnalysis ==
    [kind : {"analysis"}, asOf : Nat, at : Nat, payload : AnyPayload,
     provider : {"t4", "replay", "other"}, environment : {"live_t4", "t4_simulator"},
     history : {"whole", "short", "tiny", "doubled", "conflict", "gap"},
     session : {"OPEN", "CLOSED", "HALTED"}, moves : {"calm", "sharp", "extreme"},
     volume : {"usual", "anomalous", "flat"}, prices : {"fair", "wide", "far"}]

LEMMA FlagIsDown ==
    ASSUME NEW name, NEW cond
    PROVE  Flag(name, cond) = {} <=> ~cond
BY DEF Flag

(* An alert passed every gate: what each of them looked at is in order.    *)
LEMMA AlertPassedGates ==
    ASSUME NEW e \in AnyAnalysis, NEW at \in Nat, Decision(e, at) = "ALERT"
    PROVE  /\ e.history \notin {"conflict", "tiny", "gap", "short"} /\ e.provider # "other"
           /\ at < e.payload.market /\ e.session = "OPEN"
           /\ at - e.payload.book.observed <= SnapshotAge
           /\ at - e.payload.basis.observed <= SnapshotAge
<1>1. /\ Proposes(e, at) /\ FuturesVetoes(e, at) = {} /\ RiskVetoes(e, at) = {}
    BY DEF Decision, GateLetsThrough
<1>2. CriticalFlags(e, at) = {}
    BY <1>1 DEF RiskVetoes
<1>3. e.history \notin {"conflict", "tiny", "gap"} /\ e.provider # "other"
  <2>1. /\ Flag("DUPLICATE_CONFLICT", e.history = "conflict") = {}
        /\ Flag("INSUFFICIENT_HISTORY", e.history = "tiny") = {}
        /\ Flag("MISSING_INTERVALS", e.history = "gap") = {}
        /\ Flag("UNEXPECTED_SOURCE", e.provider = "other") = {}
      BY <1>2 DEF CriticalFlags
  <2> QED
      BY <2>1 DEF Flag
<1>4. SourceAttested(e)
    BY <1>1, FlagIsDown DEF RiskVetoes
<1>5. e.history # "short"
    BY <1>4 DEF SourceAttested
<1>6. LifecycleVetoes(e.payload, at) = {} /\ SnapshotVetoes(e, at) = {}
    BY <1>1 DEF FuturesVetoes
<1>7. at < e.payload.market
    BY <1>6 DEF LifecycleVetoes
<1>8. SnapshotValid(e, at)
    BY <1>6 DEF SnapshotVetoes
<1>9. e.session # "CLOSED" /\ e.session # "HALTED" /\ BasisVetoes(e, at) = {}
    BY <1>6, <1>8, FlagIsDown DEF SnapshotVetoes
<1>10. ~(at - e.payload.basis.observed > SnapshotAge)
    BY <1>9, FlagIsDown DEF BasisVetoes
<1>11. /\ at - e.payload.book.observed \in Int /\ at - e.payload.basis.observed \in Int
       /\ SnapshotAge \in Nat
    BY PayloadAssumption DEF AnyAnalysis, AnyPayload, Stamped
<1>12. at - e.payload.book.observed <= SnapshotAge
    BY <1>8 DEF SnapshotValid
<1>13. e.session = "OPEN"
    BY <1>9 DEF AnyAnalysis
<1>14. at - e.payload.basis.observed <= SnapshotAge
    BY <1>10, <1>11
<1> QED
    BY <1>3, <1>5, <1>7, <1>12, <1>13, <1>14

(* An alert on an answer that the bridge has accepted is justified when it *)
(* is decided, at the cutoff or later.                                     *)
THEOREM AlertOnAnswer ==
    ASSUME NEW e \in AnyAnalysis, Selectable(e.asOf) # {}, BridgeAccepts(e.payload, e.asOf),
           NEW at \in Nat, e.asOf <= at, Decision(e, at) = "ALERT"
    PROVE  /\ Selectable(at) # {} /\ e.payload.market = Market(at)
           /\ \A s \in Stamps(e.payload) : s.ingested <= at
           /\ at - e.payload.book.observed <= SnapshotAge
           /\ at - e.payload.basis.observed <= SnapshotAge
           /\ e.session = "OPEN" /\ e.provider # "other"
           /\ e.history \in {"whole", "doubled"}
<1>1. e.asOf \in Nat /\ e.payload \in AnyPayload
      /\ e.history \in {"whole", "short", "tiny", "doubled", "conflict", "gap"}
    BY DEF AnyAnalysis
<1>2. /\ e.history \notin {"conflict", "tiny", "gap", "short"} /\ e.provider # "other"
      /\ at < e.payload.market /\ e.session = "OPEN"
      /\ at - e.payload.book.observed <= SnapshotAge
      /\ at - e.payload.basis.observed <= SnapshotAge
    BY AlertPassedGates
<1>3. e.payload.market = Market(e.asOf)
    BY DEF BridgeAccepts
<1>4. Selectable(at) # {} /\ e.payload.market = Market(at)
    BY <1>1, <1>2, <1>3, MarketLasts
<1>5. \A s \in Stamps(e.payload) : s.ingested <= at
    BY <1>1, ChosenPasses
<1> QED
    BY <1>1, <1>2, <1>4, <1>5

(* A replay decides what the live provider's analysis of the same evidence *)
(* decided.                                                                *)
THEOREM ReplayIsFaithful ==
    ASSUME NEW e \in AnyAnalysis, e.provider = "t4", NEW at
    PROVE  Decision([e EXCEPT !.provider = "replay"], at) = Decision(e, at)
<1>1. PICK r : r = [e EXCEPT !.provider = "replay"]
    OBVIOUS
<1>2. /\ r.payload = e.payload /\ r.history = e.history /\ r.session = e.session
      /\ r.moves = e.moves /\ r.volume = e.volume /\ r.prices = e.prices
      /\ r.provider = "replay"
    BY <1>1 DEF AnyAnalysis
<1>3. CriticalFlags(r, at) = CriticalFlags(e, at)
  <2>1. (r.provider = "other") = FALSE /\ (e.provider = "other") = FALSE
      BY <1>2
  <2> QED
      BY <1>2, <2>1 DEF CriticalFlags
<1>4. SourceAttested(r) = SourceAttested(e)
    BY <1>2 DEF SourceAttested
<1>5. QualityPasses(r, at) = QualityPasses(e, at)
    BY <1>3 DEF QualityPasses
<1>6. SnapshotVetoes(r, at) = SnapshotVetoes(e, at)
    BY <1>2 DEF SnapshotVetoes, SnapshotValid, BasisVetoes
<1>7. FuturesVetoes(r, at) = FuturesVetoes(e, at)
    BY <1>2, <1>5, <1>6 DEF FuturesVetoes, VolumeVetoes
<1>8. RiskVetoes(r, at) = RiskVetoes(e, at)
    BY <1>2, <1>3, <1>4, <1>5, <1>7 DEF RiskVetoes
<1>9. Proposes(r, at) = Proposes(e, at)
    BY <1>2, <1>4, <1>5 DEF Proposes, VolumeAnomaly
<1> QED
    BY <1>1, <1>7, <1>8, <1>9 DEF Decision, GateLetsThrough

-----------------------------------------------------------------------------
(* The bounded cases. *)

CaseInvariant ==
    \/ case.kind = "none"
    \/ case.kind = "event" /\ case.event \in Shapes
    \/ /\ case.kind = "answer" /\ case.asOf \in Nat /\ case.payload \in AnyPayload
       /\ Selectable(case.asOf) # {}
    \/ /\ case \in AnyAnalysis /\ case.kind = "analysis" /\ case.asOf <= case.at
       /\ Selectable(case.asOf) # {} /\ BridgeAccepts(case.payload, case.asOf)

LEMMA SmallCloses == Closes \subseteq FiniteTimes
<1>1. \A i, j \in Nat : {i, j} \in FiniteTimes
  <2> SUFFICES ASSUME NEW i \in Nat, NEW j \in Nat PROVE IsFiniteSet({i, j})
      BY DEF FiniteTimes
  <2>1. IsFiniteSet({i})
      BY FS_Singleton
  <2>2. IsFiniteSet({i} \union {j})
      BY <2>1, FS_AddElement
  <2>3. {i} \union {j} = {i, j}
      OBVIOUS
  <2> QED
      BY <2>2, <2>3
<1> QED
    BY <1>1 DEF Closes

LEMMA SmallAnswers == Payloads \subseteq AnyPayload
<1>1. Stamps3 \subseteq Stamped
    BY DEF Stamps3, Stamped, Stamp
<1>2. Closes \subseteq FiniteTimes
    BY SmallCloses
<1>3. SUFFICES ASSUME NEW p \in Payloads PROVE p \in AnyPayload
    OBVIOUS
<1>4. Rolls \in SUBSET Nat /\ Rolls # {}
    BY PayloadAssumption DEF Payloads
<1>5. Min(Rolls) \in Nat
    BY <1>4, MinIsLeast
<1>6. /\ p.market \in Nat /\ p.from \in Nat /\ p.lead \in Nat /\ p.candles \in Nat
      /\ p.levels \in {"whole", "thin", "crossed"}
  <2>1. p.market \in Rolls /\ p.from \in {NoContract, Min(Rolls)} /\ p.lead \in Rolls
      BY DEF Payloads
  <2>2. p.candles \in {2, 4} /\ p.levels \in {"whole", "thin", "crossed"}
      BY DEF Payloads
  <2>3. p.from \in Nat
      BY <1>5, <2>1 DEF NoContract
  <2>4. p.market \in Nat /\ p.lead \in Nat
      BY <1>4, <2>1
  <2>5. p.candles \in Nat
      BY <2>2
  <2> QED
      BY <2>2, <2>3, <2>4, <2>5
<1>7. /\ p.closes \in FiniteTimes /\ p.reference \in Stamped /\ p.book \in Stamped
      /\ p.basis \in Stamped /\ p.moved \in SUBSET Stamped
    BY <1>1, <1>2 DEF Payloads
<1>8. p = [market |-> p.market, from |-> p.from, closes |-> p.closes, lead |-> p.lead,
           candles |-> p.candles, levels |-> p.levels, reference |-> p.reference,
           book |-> p.book, basis |-> p.basis, moved |-> p.moved]
    BY DEF Payloads
<1> QED
    BY <1>6, <1>7, <1>8 DEF AnyPayload

LEMMA SmallAnalyses ==
    ASSUME NEW asOf \in Nat, Selectable(asOf) # {}, NEW p \in Honest(asOf)
    PROVE  p \in AnyPayload /\ BridgeAccepts(p, asOf)
<1>1. Stamps3 \subseteq Stamped
    BY DEF Stamps3, Stamped, Stamp
<1>2. Closes \subseteq FiniteTimes
    BY SmallCloses
<1>3. Market(asOf) \in Nat /\ RolledFrom(asOf) \in Nat
    BY MarketIsNext, RolledIsPast, PayloadAssumption
<1>4. /\ p.market \in Nat /\ p.from \in Nat /\ p.lead \in Nat /\ p.candles \in Nat
      /\ p.levels \in {"whole", "thin", "crossed"}
    BY <1>3 DEF Honest
<1>5. /\ p.closes \in FiniteTimes /\ p.reference \in Stamped /\ p.book \in Stamped
      /\ p.basis \in Stamped /\ p.moved \in SUBSET Stamped
    BY <1>1, <1>2 DEF Honest
<1>6. p = [market |-> p.market, from |-> p.from, closes |-> p.closes, lead |-> p.lead,
           candles |-> p.candles, levels |-> p.levels, reference |-> p.reference,
           book |-> p.book, basis |-> p.basis, moved |-> p.moved]
    BY DEF Honest
<1>7. p \in AnyPayload
    BY <1>4, <1>5, <1>6 DEF AnyPayload
<1> QED
    BY <1>7 DEF Honest

LEMMA CaseIsTyped == Spec => []CaseInvariant
<1>1. Init => CaseInvariant
    BY DEF Init, CaseInvariant
<1>2. CaseInvariant /\ [Next]_case => CaseInvariant'
  <2> SUFFICES ASSUME CaseInvariant, [Next]_case PROVE CaseInvariant'
      OBVIOUS
  <2>1. CASE AnEvent
      BY <2>1 DEF AnEvent, CaseInvariant
  <2>2. CASE AnAnswer
    <3>1. /\ case'.kind = "answer" /\ case'.payload \in Payloads
          /\ case'.asOf \in Answered({2, 5})
        BY <2>2 DEF AnAnswer
    <3> QED
        BY <3>1, SmallAnswers DEF Answered, CaseInvariant
  <2>3. CASE AnAnalysis
    <3>1. PICK asOf \in Answered({2, 4, 5}) :
             case' \in [kind : {"analysis"}, asOf : {asOf}, at : asOf .. Last,
                     payload : Honest(asOf), provider : {"t4", "replay", "other"},
                     environment : {"live_t4", "t4_simulator"},
                     history : {"whole", "short", "tiny", "doubled", "conflict", "gap"},
                     session : {"OPEN", "CLOSED", "HALTED"},
                     moves : {"calm", "sharp", "extreme"},
                     volume : {"usual", "anomalous", "flat"},
                     prices : {"fair", "wide", "far"}]
        BY <2>3 DEF AnAnalysis
    <3>2. asOf \in Nat /\ Selectable(asOf) # {}
        BY DEF Answered
    <3>3. Honest(asOf) \subseteq AnyPayload
          /\ \A p \in Honest(asOf) : BridgeAccepts(p, asOf)
        BY <3>2, SmallAnalyses
    <3>4. asOf .. Last \subseteq Nat /\ \A at \in asOf .. Last : asOf <= at
        BY <3>2, LastAssumption
    <3>5. case' \in AnyAnalysis
        BY <3>1, <3>2, <3>3, <3>4 DEF AnyAnalysis
    <3>6. /\ case'.kind = "analysis" /\ case'.asOf = asOf /\ asOf <= case'.at
          /\ BridgeAccepts(case'.payload, asOf)
        BY <3>1, <3>3, <3>4
    <3> QED
        BY <3>2, <3>5, <3>6 DEF CaseInvariant
  <2>4. CASE UNCHANGED case
      BY <2>4 DEF CaseInvariant
  <2> QED
      BY <2>1, <2>2, <2>3, <2>4 DEF Next
<1> QED
    BY <1>1, <1>2, PTL DEF Spec

(* The verifier accepts whatever the bridge appends                        *)
(* (observation_scenarios.py, OfficialT4MarketDataReader.cs).              *)
THEOREM EmittedEventsAreAccepted == Spec => []EmittedIsAccepted
<1>1. EmittedIsAccepted
    BY AcceptedEvent DEF EmittedIsAccepted
<1> QED
    BY <1>1, PTL

(* The database stores whatever the verifier accepts (migration 0018).     *)
THEOREM AcceptedEventsAreStored == Spec => []AcceptedIsStored
<1>1. CaseInvariant => AcceptedIsStored
    BY StoredEvent DEF CaseInvariant, AcceptedIsStored, AnyAnalysis
<1> QED
    BY <1>1, CaseIsTyped, PTL

(* Every judge after the bridge accepts what the bridge's own validator    *)
(* has let through, in a transaction that starts at the cutoff or later.   *)
THEOREM AnswersAreStored == Spec => []AnswerIsStored
<1>1. CaseInvariant => AnswerIsStored
  <2> SUFFICES ASSUME CaseInvariant, case.kind = "answer",
                      BridgeAccepts(case.payload, case.asOf)
               PROVE  /\ ProviderAccepts(case.payload, case.asOf)
                      /\ EnvelopeAccepts(case.payload, case.asOf)
                      /\ \A started \in case.asOf .. Last :
                            TablesAccept(Row(1, case.payload, case.asOf, started))
      BY DEF AnswerIsStored
  <2>1. case.asOf \in Nat /\ case.payload \in AnyPayload /\ Selectable(case.asOf) # {}
      BY DEF CaseInvariant, AnyAnalysis
  <2>2. ProviderAccepts(case.payload, case.asOf) /\ EnvelopeAccepts(case.payload, case.asOf)
      BY <2>1, AnswerPasses
  <2>3. ASSUME NEW started \in case.asOf .. Last
        PROVE  TablesAccept(Row(1, case.payload, case.asOf, started))
    <3>1. started \in Nat /\ case.asOf <= started
        BY <2>1
    <3> QED
        BY <2>1, <3>1, AnswerPasses
  <2> QED
      BY <2>2, <2>3
<1> QED
    BY <1>1, CaseIsTyped, PTL

(* Whatever batch a replay may choose is usable, and holds nothing newer   *)
(* than the replay's cutoff.                                               *)
THEOREM ChosenBatchesAreUsable == Spec => []ChosenIsUsable
<1>1. CaseInvariant => ChosenIsUsable
  <2> SUFFICES ASSUME CaseInvariant, case.kind = "answer",
                      BridgeAccepts(case.payload, case.asOf),
                      NEW started \in case.asOf .. Last, NEW at \in 0 .. Last,
                      Candidate(Row(1, case.payload, case.asOf, started), at)
               PROVE  /\ ReplayUsable(case.payload, at)
                      /\ \A s \in Stamps(case.payload) : s.ingested <= at
      BY DEF ChosenIsUsable
  <2>1. case.asOf \in Nat /\ case.payload \in AnyPayload /\ Selectable(case.asOf) # {}
      BY DEF CaseInvariant, AnyAnalysis
  <2>2. at \in Nat /\ case.asOf <= at
      BY DEF Candidate, Row
  <2> QED
      BY <2>1, <2>2, ChosenPasses
<1> QED
    BY <1>1, CaseIsTyped, PTL

(* What an alert rests on is in order at the time of the decision          *)
(* (futures_analytics.py, policy.py, orchestrator.py).                     *)
THEOREM AlertsAreJustified == Spec => []AlertIsJustified
<1>1. CaseInvariant => AlertIsJustified
  <2> SUFFICES ASSUME CaseInvariant, case.kind = "analysis",
                      Decision(case, case.at) = "ALERT"
               PROVE  /\ Selectable(case.at) # {} /\ case.payload.market = Market(case.at)
                      /\ \A s \in Stamps(case.payload) : s.ingested <= case.at
                      /\ case.at - case.payload.book.observed <= SnapshotAge
                      /\ case.at - case.payload.basis.observed <= SnapshotAge
                      /\ case.session = "OPEN" /\ case.provider # "other"
                      /\ case.history \in {"whole", "doubled"}
      BY DEF AlertIsJustified
  <2>1. /\ case \in AnyAnalysis /\ case.asOf <= case.at
        /\ Selectable(case.asOf) # {} /\ BridgeAccepts(case.payload, case.asOf)
      BY DEF CaseInvariant
  <2>2. case.at \in Nat
      BY <2>1 DEF AnyAnalysis
  <2> QED
      BY <2>1, <2>2, AlertOnAnswer
<1> QED
    BY <1>1, CaseIsTyped, PTL

(* A replay of a stored answer decides what the live analysis decided.     *)
THEOREM ReplaysDecideAlike == Spec => []ReplayDecidesAlike
<1>1. CaseInvariant => ReplayDecidesAlike
    BY ReplayIsFaithful DEF CaseInvariant, ReplayDecidesAlike
<1> QED
    BY <1>1, CaseIsTyped, PTL

(* Only an alert of the live provider in the live environment leaves the   *)
(* system (orchestrator.py, monitoring.py).                                *)
THEOREM DeliveredAlertsAreLive == Spec => []DeliveredIsLive
<1>1. DeliveredIsLive
    BY DEF DeliveredIsLive, Delivers, BatchIsEligible
<1> QED
    BY <1>1, PTL
=============================================================================
