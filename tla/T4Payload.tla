------------------------------- MODULE T4Payload -------------------------------
(***************************************************************************)
(* One answer of the bridge to GET /v1/market-data, and everybody who      *)
(* judges it: the bridge's own validator (FuturesEvidenceValidator.cs),    *)
(* the HTTP client (providers/t4.py), the ingest (t4_ingest.py), the       *)
(* tables (migrations 0014 and 0015), and the replay that finds it again.  *)
(* Prices, identities and hashes are those of honest parties; what is kept *)
(* of the data are its times, its contracts and the state of its book.     *)
(***************************************************************************)
EXTENDS Integers, Sequences, FiniteSets, FiniteSetsExt

CONSTANTS Rolls,        \* roll times; each one names the contract that rolls then
          RollWindow,   \* TransitionEvidenceWindow (24 h)
          SnapshotAge,  \* MaximumSnapshotAge (60 s)
          HistoryAge,   \* MaximumHistoryCacheAge (10 min)
          Skew,         \* MAX_EVIDENCE_TIMESTAMP_SKEW_SECONDS (5 s)
          ClockSkew,    \* how far a cutoff may be ahead of the bridge (30 s)
          Limit,        \* candles asked for (60 .. 720)
          Bar           \* time between two bars

ASSUME PayloadAssumption ==
    /\ Rolls \subseteq Nat \ {0}
    /\ {RollWindow, SnapshotAge, HistoryAge, Skew, ClockSkew} \subseteq Nat
    /\ {Limit, Bar} \subseteq Nat \ {0}

NoContract == 0

(* When something was observed, when it could be had, when it was read in. *)
Stamp(o, a, i) == [observed |-> o, available |-> a, ingested |-> i]
Chain(s, asOf) ==
    s.observed <= s.available /\ s.available <= s.ingested /\ s.ingested <= asOf
Near(s, t) == s.observed - t.observed \in -Skew .. Skew
Fresh(s, asOf, age) == s.ingested <= asOf /\ asOf - s.ingested <= age
Later(a, b) == IF a >= b THEN a ELSE b

(* The last item read in by the cutoff, if there is one: a set of at most  *)
(* one item, for no two items of a buffer are read in at the same time.    *)
Before(items, asOf) ==
    {i \in items : i.ingested <= asOf /\
        \A j \in items : j.ingested <= asOf => j.ingested <= i.ingested}

-----------------------------------------------------------------------------
(* The contract catalog: the first contract that has not rolled yet, and   *)
(* for a while after a roll the one before it.                             *)

Selectable(asOf) == {r \in Rolls : r > asOf}
Market(asOf) == Min(Selectable(asOf))
RolledFrom(asOf) ==
    LET rolled == {r \in Rolls : r <= asOf}
    IN  IF rolled # {} /\ asOf - Max(rolled) <= RollWindow THEN Max(rolled) ELSE NoContract

-----------------------------------------------------------------------------
(* A payload.  The cutoff it was asked for is not in it: two requests that *)
(* see the same data get the same bytes.                                   *)
(*   closes      when its candles close; lead is the contract of the last  *)
(*   candles     one stamp for all of them, their own closing times apart  *)
(*   levels      "whole", "thin" (fewer than five levels) or "crossed"     *)
(*   moved       the evidence of the roll, a set of at most one stamp      *)

ReadAnswer(books, index, charts, asOf) ==
    {[market |-> Market(asOf), from |-> RolledFrom(asOf),
      closes |-> {c \in chart.closes : c <= asOf}, lead |-> chart.lead,
      candles |-> chart.ingested,
      levels |-> "whole",
      reference |-> Stamp(book.observed, book.available, book.ingested),
      book |-> Stamp(book.observed, book.available, book.ingested),
      basis |-> basis,
      moved |-> {Stamp(Later(old.observed, book.observed),
                       Later(old.available, book.available),
                       Later(old.ingested, book.ingested)) :
                    old \in Before({b \in books : b.market = RolledFrom(asOf)}, asOf)}] :
     book \in {b \in Before({b \in books : b.market = Market(asOf)}, asOf) :
                  Fresh(b, asOf, SnapshotAge)},
     basis \in {b \in Before(index, asOf) : Fresh(b, asOf, SnapshotAge)},
     chart \in {c \in Before(charts, asOf) : Fresh(c, asOf, HistoryAge)}}

(* Nothing is answered unless all the evidence is there and in step.       *)
ReaderAnswers(books, index, charts, asOf) ==
    {p \in ReadAnswer(books, index, charts, asOf) :
        /\ Near(p.book, p.basis)
        /\ Cardinality(p.closes) = Limit
        /\ p.from # NoContract =>
              \E old \in Before({b \in books : b.market = p.from}, asOf) :
                  Fresh(old, asOf, SnapshotAge) /\ Near(old, p.book)}

Candle(p, c) == Stamp(c, p.candles, p.candles)

ReferenceChecked(p, asOf) ==
    Chain(p.reference, asOf) /\ asOf - p.reference.ingested <= SnapshotAge

(* Mutant: the basis need not be in step with the book. *)
BasisOutOfStep(p, asOf) == Chain(p.basis, asOf)

BasisChecked(p, asOf) == Chain(p.basis, asOf) /\ Near(p.basis, p.book)

(* The bridge validates its own answer before it sends it. *)
BridgeAccepts(p, asOf) ==
    /\ p.market = Market(asOf) /\ p.from = RolledFrom(asOf)
    /\ Chain(p.book, asOf) /\ asOf - p.book.ingested <= SnapshotAge
    /\ Cardinality(p.closes) = Limit /\ p.lead = p.market
    /\ \A c \in p.closes : Chain(Candle(p, c), asOf)
    /\ p.levels = "whole" /\ ReferenceChecked(p, asOf) /\ BasisChecked(p, asOf)
    /\ IF p.from = NoContract THEN p.moved = {}
       ELSE p.moved # {} /\ \A m \in p.moved : Near(m, p.book) /\ Chain(m, asOf)

(* The request is refused when the cutoff is ahead of the bridge's clock,  *)
(* or when no contract is left.                                            *)
RequestAccepted(asOf, now) == asOf <= now + ClockSkew /\ Selectable(asOf) # {}

-----------------------------------------------------------------------------
(* The client reads the answer, and keeps the last candles asked for. *)

EvidenceParses(p, asOf) ==
    /\ Chain(p.book, asOf) /\ p.levels # "crossed" /\ Chain(p.basis, asOf)
    /\ IF p.from = NoContract THEN p.moved = {}
       ELSE p.moved # {} /\ \A m \in p.moved : Chain(m, asOf)

ProviderAccepts(p, asOf) ==
    /\ asOf < p.market /\ p.from # p.market /\ p.lead = p.market
    /\ EvidenceParses(p, asOf)
    /\ Cardinality(p.closes) >= Limit
    /\ \A c \in p.closes : c <= asOf

Batch(p) ==
    [p EXCEPT !.closes = {c \in p.closes : Cardinality({d \in p.closes : d >= c}) <= Limit}]

(* The structure of the futures evidence, once before it is stored and     *)
(* once more when it is replayed.                                          *)
Structure(p, asOf) ==
    /\ Chain(p.book, asOf) /\ p.levels # "crossed"
    /\ Chain(p.basis, asOf) /\ Near(p.basis, p.book)
    /\ IF p.from = NoContract THEN p.moved = {}
       ELSE p.moved # {} /\ \A m \in p.moved : Chain(m, asOf) /\ Near(m, p.book)

(* The ingest compares the bytes with what the client made of them: every  *)
(* candle of the payload must have been kept.                              *)
RawCandlesMatch(p, batch) == batch.closes = p.closes /\ batch.candles = p.candles
RawEvidenceMatches(p, batch) ==
    /\ batch.book = p.book /\ batch.levels = p.levels
    /\ batch.basis = p.basis /\ batch.moved = p.moved

EnvelopeAccepts(p, asOf) ==
    /\ p.from # p.market /\ asOf < p.market /\ p.lead = p.market
    /\ RawCandlesMatch(p, Batch(p)) /\ RawEvidenceMatches(p, Batch(p))
    /\ Structure(Batch(p), asOf)

-----------------------------------------------------------------------------
(* A stored batch: the payload, the cutoff it was first asked for, and the *)
(* start of the transaction that stored it.                                *)

ObservedAt(p) == Max(p.closes)
AvailableAt(p) == Later(p.candles, p.reference.available)
Row(id, p, asOf, started) ==
    [id |-> id, payload |-> p, requested |-> asOf, ingested |-> started]

(* The constraints of the tables. *)
TablesAccept(row) ==
    LET p == row.payload
    IN  /\ row.requested < p.market /\ p.from # p.market
        /\ p.reference.observed <= p.reference.available
        /\ p.reference.available <= p.reference.ingested
        /\ ObservedAt(p) <= AvailableAt(p) /\ AvailableAt(p) <= row.ingested
        /\ \A c \in p.closes : c <= p.candles
        /\ \A s \in {p.book, p.basis} \union p.moved :
              s.observed <= s.available /\ s.available <= s.ingested

(* Mutant: a batch is found by what it holds, whenever it was asked for. *)
CandidateByContent(row, asOf) ==
    /\ AvailableAt(row.payload) <= asOf
    /\ Cardinality({c \in row.payload.closes : c <= asOf /\ row.payload.candles <= asOf}) >= Limit

(* A batch that a replay may choose. *)
Candidate(row, asOf) ==
    /\ row.requested <= asOf /\ AvailableAt(row.payload) <= asOf /\ row.ingested <= asOf
    /\ Cardinality({c \in row.payload.closes : c <= asOf /\ row.payload.candles <= asOf}) >= Limit

(* Mutant: the newest one is the one stored last. *)
PrecedesByIngestion(r, s) ==
    r.ingested < s.ingested \/ (r.ingested = s.ingested /\ r.id < s.id)

(* The newest one: by what was available, then by ingestion, then by id.   *)
Precedes(r, s) ==
    \/ AvailableAt(r.payload) < AvailableAt(s.payload)
    \/ /\ AvailableAt(r.payload) = AvailableAt(s.payload)
       /\ r.ingested < s.ingested \/ (r.ingested = s.ingested /\ r.id < s.id)
Chosen(rows, asOf) ==
    {r \in rows : Candidate(r, asOf) /\
        \A s \in rows : Candidate(s, asOf) => s = r \/ Precedes(s, r)}

(* What the replay makes of the batch it chose: the snapshot and the       *)
(* evidence of the roll are looked up with the cutoff, and judged again.   *)
SeenBy(s, asOf) == s.available <= asOf /\ s.ingested <= asOf
ReplayUsable(p, asOf) ==
    /\ p.lead = p.market
    /\ SeenBy(p.book, asOf)
    /\ LET seen == [p EXCEPT !.moved = {m \in p.moved : SeenBy(m, asOf)}]
       IN  Structure(seen, asOf)

(* Every time that a replay hands on. *)
Stamps(p) == {p.reference, p.book, p.basis} \union p.moved \union
             {Candle(p, c) : c \in p.closes}
=============================================================================
