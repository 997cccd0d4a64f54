--------------------------- MODULE T4IngestProofs ---------------------------
(***************************************************************************)
(* For any writers, contracts, ages and arrivals: the same bytes are       *)
(* stored once, a replay that no open transaction can reach is final, and  *)
(* what is attested is what the replay finds.                              *)
(***************************************************************************)
EXTENDS T4Ingest, TLAPS

-----------------------------------------------------------------------------
(* The inductive invariant. *)

(* When what a payload holds could be had.                                 *)
Dated(p) == p.candles \in Nat /\ p.reference.available \in Nat
GoodRow(r) == r.id \in Nat /\ r.id < nextId /\ r.ingested \in Nat /\ Dated(r.payload)
Apart(r, s) == r.payload # s.payload /\ r.id # s.id

Typed ==
    /\ now \in Nat /\ nextId \in Nat /\ began \in [Writers -> Nat]
    /\ DOMAIN step = Writers /\ DOMAIN payload = Writers /\ DOMAIN claim = Writers
    /\ \A b \in books : b.available \in Nat
    /\ \A c \in charts : c.ingested \in Nat
    /\ \A w \in Writers : \A p \in payload[w] : Dated(p)
    /\ \A r \in rows : GoodRow(r)

(* An insert that is not committed is dated by its transaction, and holds  *)
(* off every other one of the same bytes.                                  *)
ClaimIsOwn(w) ==
    \A r \in claim[w] :
        /\ GoodRow(r) /\ step[w] = "stored" /\ r.ingested = began[w]
        /\ \A s \in claim[w] : s = r
        /\ \A s \in rows : Apart(r, s)
        /\ \A v \in Writers \ {w} : \A s \in claim[v] : Apart(r, s)

RowsApart == \A r, s \in rows : r # s => Apart(r, s)

IngestInvariant == Typed /\ RowsApart /\ \A w \in Writers : ClaimIsOwn(w)

-----------------------------------------------------------------------------
(* The choice of a replay. *)

(* One replay chooses at most one batch: the order is strict.              *)
LEMMA ChoiceIsUnique ==
    ASSUME IngestInvariant, NEW a, NEW r \in Chosen(rows, a)
    PROVE  Chosen(rows, a) = {r}
<1> SUFFICES ASSUME NEW s \in Chosen(rows, a), s # r PROVE FALSE
    OBVIOUS
<1>1. r \in rows /\ s \in rows /\ Precedes(s, r) /\ Precedes(r, s)
    BY DEF Chosen
<1>2. /\ AvailableAt(r.payload) \in Nat /\ AvailableAt(s.payload) \in Nat
      /\ r.ingested \in Nat /\ s.ingested \in Nat /\ r.id \in Nat /\ s.id \in Nat
    BY <1>1 DEF IngestInvariant, Typed, GoodRow, Dated, AvailableAt, Later
<1> QED
    BY <1>1, <1>2 DEF Precedes

(* A batch that no replay for the cutoff may choose changes none.          *)
LEMMA LateRowsDoNotMatter ==
    ASSUME NEW late, NEW a, \A r \in late : ~Candidate(r, a)
    PROVE  Chosen(rows \union late, a) = Chosen(rows, a)
BY DEF Chosen

-----------------------------------------------------------------------------
(* Receipts.  The order in which a replay prefers batches is total, so     *)
(* that it keeps a newest one whenever a batch is added.                   *)

(* A payload with all of its candles.                                      *)
Whole(p) == Cardinality(p.closes) >= Limit /\ p.closes \subseteq Int

(* What the tables have accepted of it: every cutoff from now on may       *)
(* choose it.                                                              *)
Lasting(r) ==
    /\ r.requested \in Nat /\ r.requested <= now /\ r.ingested <= now
    /\ AvailableAt(r.payload) <= r.ingested
    /\ Whole(r.payload) /\ \A c \in r.payload.closes : c <= r.payload.candles

Timely(w) == cutoff[w] \in Nat /\ cutoff[w] <= now /\ began[w] <= now

(* What a writer may tell its caller: the batch is its own or in the table. *)
Tellable(w) ==
    /\ \A p, q \in payload[w] : p = q
    /\ \A p \in payload[w] :
          /\ Whole(p)
          /\ step[w] = "stored" => \E r \in claim[w] : r.payload = p
          /\ step[w] = "known" => \E r \in rows : r.payload = p

Backed(receipt) ==
    /\ receipt.at \in Nat
    /\ \E r \in rows : /\ r.payload = receipt.payload
                        /\ r.requested <= receipt.at /\ r.ingested <= receipt.at

Newest(table, a) ==
    \A r \in table : Candidate(r, a) =>
        \E c \in Chosen(table, a) : c = r \/ Precedes(r, c)

ReceiptInvariant ==
    /\ DOMAIN cutoff = Writers
    /\ \A c \in charts : c.closes \subseteq Int
    /\ \A w \in Writers : Timely(w) /\ Tellable(w) /\ \A r \in claim[w] : Lasting(r)
    /\ \A r \in rows : Lasting(r)
    /\ \A receipt \in receipts : Backed(receipt)
    /\ \A a \in Nat : Newest(rows, a)

(* When a stored batch may be chosen.                                      *)
LEMMA LastingIsCandidate ==
    ASSUME NEW r, GoodRow(r), Lasting(r), NEW a \in Nat, r.requested <= a, r.ingested <= a
    PROVE  Candidate(r, a)
<1>1. /\ r.payload.candles \in Nat /\ r.payload.reference.available \in Nat
      /\ r.ingested \in Nat /\ r.requested \in Nat
    BY DEF GoodRow, Dated, Lasting
<1>2. AvailableAt(r.payload) \in Nat /\ r.payload.candles <= AvailableAt(r.payload)
    BY <1>1 DEF AvailableAt, Later
<1>3. AvailableAt(r.payload) <= a /\ r.payload.candles <= a
    BY <1>1, <1>2 DEF Lasting
<1>4. \A c \in r.payload.closes : c <= a
    BY <1>1, <1>3 DEF Lasting, Whole
<1>5. {c \in r.payload.closes : c <= a /\ r.payload.candles <= a} = r.payload.closes
    BY <1>3, <1>4
<1> QED
    BY <1>3, <1>5 DEF Candidate, Lasting, Whole

(* The order of two batches with their own numbers.                        *)
LEMMA OrderIsTotal ==
    ASSUME NEW r, NEW s, GoodRow(r), GoodRow(s), r.id # s.id
    PROVE  Precedes(r, s) \/ Precedes(s, r)
<1>1. AvailableAt(r.payload) \in Nat /\ AvailableAt(s.payload) \in Nat
    BY DEF GoodRow, Dated, AvailableAt, Later
<1> QED
    BY <1>1 DEF GoodRow, Precedes

LEMMA OrderIsTransitive ==
    ASSUME NEW r, NEW s, NEW t, GoodRow(r), GoodRow(s), GoodRow(t), Precedes(r, s), Precedes(s, t)
    PROVE  Precedes(r, t)
<1>1. /\ AvailableAt(r.payload) \in Nat /\ AvailableAt(s.payload) \in Nat
      /\ AvailableAt(t.payload) \in Nat
    BY DEF GoodRow, Dated, AvailableAt, Later
<1> QED
    BY <1>1 DEF GoodRow, Precedes

(* One more batch: it is the newest, or the newest stays.                  *)
LEMMA NewestStays ==
    ASSUME IngestInvariant, NEW a \in Nat, Newest(rows, a), NEW new, GoodRow(new),
           \A s \in rows : new.id # s.id
    PROVE  Newest(rows \union {new}, a)
<1> DEFINE table == rows \union {new}
<1>1. \A r \in rows : GoodRow(r)
    BY DEF IngestInvariant, Typed
<1>2. CASE ~Candidate(new, a)
  <2>1. Chosen(table, a) = Chosen(rows, a)
      BY <1>2 DEF Chosen
  <2> QED
      BY <1>2, <2>1 DEF Newest
<1>3. CASE Candidate(new, a) /\ \A r \in rows : Candidate(r, a) => Precedes(r, new)
  <2>1. new \in Chosen(table, a)
      BY <1>3 DEF Chosen
  <2> QED
      BY <1>3, <2>1 DEF Newest
<1>4. ASSUME Candidate(new, a), NEW q \in rows, Candidate(q, a), ~Precedes(q, new)
      PROVE  Newest(table, a)
  <2>1. PICK c \in Chosen(rows, a) : c = q \/ Precedes(q, c)
      BY <1>4 DEF Newest
  <2>2. c \in rows /\ GoodRow(c) /\ GoodRow(q) /\ Candidate(c, a)
      BY <1>1, <1>4, <2>1 DEF Chosen
  <2>3. Precedes(new, q)
      BY <1>4, <2>2, OrderIsTotal
  <2>4. Precedes(new, c)
      BY <2>1, <2>2, <2>3, OrderIsTransitive
  <2>5. c \in Chosen(table, a)
      BY <2>1, <2>2, <2>4 DEF Chosen
  <2>6. \A r \in rows : Candidate(r, a) => r = c \/ Precedes(r, c)
      BY <2>1 DEF Chosen
  <2> QED
      BY <2>4, <2>5, <2>6 DEF Newest
<1> QED
    BY <1>2, <1>3, <1>4

-----------------------------------------------------------------------------
(* The steps. *)

(* Nothing is stored; only a writer without an insert moves.               *)
LEMMA NothingStored ==
    ASSUME IngestInvariant, Typed', UNCHANGED <<claim, rows, nextId>>,
           \A w \in Writers : claim[w] # {} => step'[w] = step[w] /\ began'[w] = began[w]
    PROVE  IngestInvariant'
<1>1. ASSUME NEW w \in Writers PROVE ClaimIsOwn(w)'
    BY DEF IngestInvariant, ClaimIsOwn, GoodRow, Apart, Dated
<1>2. RowsApart'
    BY DEF IngestInvariant, RowsApart, Apart
<1> QED
    BY <1>1, <1>2 DEF IngestInvariant

LEMMA TickStep ==
    ASSUME IngestInvariant, NEW kinds, Tick(kinds)
    PROVE  IngestInvariant'
<1>1. now' = now + 1 /\ now' \in Nat
    BY DEF Tick, IngestInvariant, Typed
<1>2. ASSUME NEW b \in books' PROVE b.available \in Nat
  <2>1. b \in books \union Arrived(kinds, now')
      BY DEF Tick, KeptOf, Kept
  <2>2. CASE b \in books
      BY <2>2 DEF IngestInvariant, Typed
  <2>3. CASE b \in Arrived(kinds, now')
    <3>1. PICK m : b = Book(m, now')
        BY <2>3 DEF Arrived
    <3> QED
        BY <3>1, <1>1 DEF Book
  <2> QED
      BY <2>1, <2>2, <2>3
<1>3. ASSUME NEW c \in charts' PROVE c.ingested \in Nat
  <2>1. c \in charts \union Charts(kinds, now')
      BY DEF Tick, Kept
  <2>2. CASE c \in charts
      BY <2>2 DEF IngestInvariant, Typed
  <2>3. CASE c \in Charts(kinds, now')
      BY <2>3, <1>1 DEF Charts, Chart
  <2> QED
      BY <2>1, <2>2, <2>3
<1>4. UNCHANGED <<step, payload, began, claim, rows, nextId>>
    BY DEF Tick, writerState
<1>5. Typed'
    BY <1>1, <1>2, <1>3, <1>4 DEF IngestInvariant, Typed, GoodRow, Dated
<1> QED
    BY <1>4, <1>5, NothingStored

(* An answer is dated by the books and the charts it was made from.        *)
LEMMA AnswerIsDated ==
    ASSUME Typed, NEW asOf, NEW p \in ReaderAnswers(books, index, charts, asOf)
    PROVE  Dated(Batch(p))
<1>1. p \in ReadAnswer(books, index, charts, asOf)
    BY DEF ReaderAnswers
<1>2. PICK book \in books, basis \in Before(index, asOf), chart \in charts :
         \E from, moved, closes :
            p = [market |-> Market(asOf), from |-> from, closes |-> closes, lead |-> chart.lead,
                 candles |-> chart.ingested, levels |-> "whole",
                 reference |-> Stamp(book.observed, book.available, book.ingested),
                 book |-> Stamp(book.observed, book.available, book.ingested),
                 basis |-> basis, moved |-> moved]
    BY <1>1 DEF ReadAnswer, Before
<1>3. Batch(p).candles = chart.ingested /\ Batch(p).reference.available = book.available
    BY <1>2 DEF Batch, Stamp
<1> QED
    BY <1>3 DEF Typed, Dated

(* A writer that has inserted nothing. *)
LEMMA WriterMoves ==
    ASSUME IngestInvariant, NEW w \in Writers,
           Ask(w) \/ Fetch(w) \/ Begin(w) \/ FindStored(w)
    PROVE  IngestInvariant'
<1>1. step[w] # "stored" /\ claim[w] = {}
    BY DEF Ask, Fetch, Begin, FindStored, IngestInvariant, ClaimIsOwn
<1>2. UNCHANGED <<now, bridgeState, claim, rows, nextId>>
    BY DEF Ask, Fetch, Begin, FindStored
<1>3. /\ DOMAIN step' = Writers /\ \A v \in Writers : v # w => step'[v] = step[v]
    BY DEF Ask, Fetch, Begin, FindStored, IngestInvariant, Typed
<1>4. began' \in [Writers -> Nat] /\ \A v \in Writers : v # w => began'[v] = began[v]
    BY DEF Ask, Fetch, Begin, FindStored, IngestInvariant, Typed
<1>5. DOMAIN payload' = Writers /\ \A v \in Writers : \A p \in payload'[v] : Dated(p)
  <2>1. CASE UNCHANGED payload
      BY <2>1 DEF IngestInvariant, Typed
  <2>2. CASE Fetch(w)
    <3>1. PICK p \in ReaderAnswers(books, index, charts, cutoff[w]) :
             payload' = [payload EXCEPT ![w] = {Batch(p)}]
        BY <2>2 DEF Fetch
    <3>2. Dated(Batch(p))
        BY <3>1, AnswerIsDated DEF IngestInvariant
    <3> QED
        BY <3>1, <3>2 DEF IngestInvariant, Typed
  <2> QED
      BY <2>1, <2>2 DEF Ask, Begin, FindStored
<1>6. Typed'
    BY <1>2, <1>3, <1>4, <1>5 DEF IngestInvariant, Typed, bridgeState, GoodRow, Dated
<1> QED
    BY <1>1, <1>2, <1>3, <1>4, <1>6, NothingStored

(* The insert waits for every other insert of the same bytes, and its      *)
(* number is new.                                                          *)
LEMMA InsertStep ==
    ASSUME IngestInvariant, NEW w \in Writers, Insert(w)
    PROVE  IngestInvariant'
<1>1. PICK p \in payload[w] :
         /\ Free(w, p) /\ \A r \in rows : r.payload # p
         /\ claim' = [claim EXCEPT ![w] = {Row(nextId, p, cutoff[w], began[w])}]
    BY DEF Insert, BatchOf, Stored
<1>2. PICK new : new = Row(nextId, p, cutoff[w], began[w])
    OBVIOUS
<1>3. /\ new.id = nextId /\ new.payload = p /\ new.ingested = began[w]
      /\ Dated(p) /\ nextId \in Nat /\ nextId' = nextId + 1 /\ began[w] \in Nat
    BY <1>2 DEF Row, Insert, IngestInvariant, Typed
<1>4. /\ UNCHANGED <<now, bridgeState, payload, began, rows>>
      /\ step' = [step EXCEPT ![w] = "stored"]
    BY DEF Insert
<1>5. claim[w] = {}
    BY DEF Insert, IngestInvariant, ClaimIsOwn
<1>6. /\ claim'[w] = {new} /\ DOMAIN claim' = Writers
      /\ \A v \in Writers \ {w} : claim'[v] = claim[v]
    BY <1>1, <1>2 DEF IngestInvariant, Typed
<1>7. ASSUME NEW r, GoodRow(r) PROVE GoodRow(r)' /\ r.id < nextId
    BY <1>3, <1>7 DEF GoodRow, Dated
<1>8. Typed'
    BY <1>3, <1>4, <1>6, <1>7 DEF IngestInvariant, Typed, bridgeState, Dated
<1>9. GoodRow(new)'
    BY <1>3 DEF GoodRow, Dated
<1>10. ASSUME NEW s, GoodRow(s), s.payload # p PROVE Apart(new, s) /\ Apart(s, new)
    BY <1>3, <1>7, <1>10 DEF Apart, GoodRow
<1>11. \A s \in rows : Apart(new, s)
    BY <1>1, <1>10 DEF IngestInvariant, Typed
<1>12. \A v \in Writers \ {w} : \A s \in claim[v] : Apart(new, s) /\ Apart(s, new)
    BY <1>1, <1>10 DEF IngestInvariant, ClaimIsOwn, Free
<1>13. ASSUME NEW v \in Writers PROVE ClaimIsOwn(v)'
  <2>1. CASE v = w
    <3>1. step'[w] = "stored" /\ began'[w] = began[w] /\ rows' = rows
        BY <1>4 DEF IngestInvariant, Typed
    <3> QED
        BY <2>1, <3>1, <1>3, <1>6, <1>9, <1>11, <1>12 DEF ClaimIsOwn, Apart
  <2>2. CASE v # w
    <3> SUFFICES ASSUME NEW r \in claim[v]
                 PROVE  /\ GoodRow(r)' /\ step'[v] = "stored" /\ r.ingested = began'[v]
                        /\ \A s \in claim[v] : s = r
                        /\ \A s \in rows : Apart(r, s)
                        /\ \A u \in Writers \ {v} : \A s \in claim'[u] : Apart(r, s)
        BY <2>2, <1>4, <1>6 DEF ClaimIsOwn, Apart
    <3>1. ClaimIsOwn(v)
        BY DEF IngestInvariant
    <3>2. step'[v] = step[v] /\ began'[v] = began[v]
        BY <2>2, <1>4 DEF IngestInvariant, Typed
    <3>3. GoodRow(r)'
        BY <3>1, <1>7 DEF ClaimIsOwn
    <3>4. \A u \in Writers \ {v} : \A s \in claim'[u] : Apart(r, s)
        BY <2>2, <3>1, <1>6, <1>12 DEF ClaimIsOwn
    <3> QED
        BY <3>1, <3>2, <3>3, <3>4 DEF ClaimIsOwn
  <2> QED
      BY <2>1, <2>2
<1>14. RowsApart'
    BY <1>4 DEF IngestInvariant, RowsApart, Apart
<1> QED
    BY <1>8, <1>13, <1>14 DEF IngestInvariant

(* A transaction ends: what it had inserted is in the table, or gone.      *)
LEMMA EndStep ==
    ASSUME IngestInvariant, NEW w \in Writers, Commit(w) \/ Fail(w)
    PROVE  IngestInvariant'
<1>1. /\ UNCHANGED <<now, bridgeState, nextId>>
      /\ step' = [step EXCEPT ![w] = "idle"] /\ payload' = [payload EXCEPT ![w] = {}]
      /\ began' = [began EXCEPT ![w] = 0] /\ claim' = [claim EXCEPT ![w] = {}]
    BY DEF Commit, Fail, Leaves, DropsClaim
<1>2. rows \subseteq rows' /\ rows' \subseteq rows \union claim[w]
    BY DEF Commit, Fail
<1>3. ASSUME NEW r PROVE GoodRow(r)' <=> GoodRow(r)
    BY <1>1 DEF GoodRow, Dated
<1>4. \A r \in claim[w] : GoodRow(r)
    BY DEF IngestInvariant, ClaimIsOwn
<1>5. Typed'
    BY <1>1, <1>2, <1>3, <1>4 DEF IngestInvariant, Typed, bridgeState, Dated
<1>6. ASSUME NEW v \in Writers PROVE ClaimIsOwn(v)'
  <2>1. CASE v = w
      BY <2>1, <1>1 DEF ClaimIsOwn, IngestInvariant, Typed
  <2>2. CASE v # w
    <3>1. /\ claim'[v] = claim[v] /\ step'[v] = step[v] /\ began'[v] = began[v]
          /\ \A u \in Writers : claim'[u] \subseteq claim[u]
        BY <2>2, <1>1 DEF IngestInvariant, Typed
    <3>2. ClaimIsOwn(v)
        BY DEF IngestInvariant
    <3>3. \A r \in claim[v] : \A s \in rows' : Apart(r, s)
        BY <2>2, <3>2, <1>2 DEF ClaimIsOwn
    <3>4. \A r \in claim[v] : \A u \in Writers \ {v} : \A s \in claim'[u] : Apart(r, s)
        BY <3>1, <3>2 DEF ClaimIsOwn
    <3> QED
        BY <3>1, <3>2, <3>3, <3>4, <1>3 DEF ClaimIsOwn, Apart
  <2> QED
      BY <2>1, <2>2
<1>7. ASSUME NEW r \in rows', NEW s \in rows', r # s PROVE Apart(r, s)
  <2>1. CASE r \in rows /\ s \in rows
      BY <1>7, <2>1 DEF IngestInvariant, RowsApart
  <2>2. CASE r \in claim[w]
      BY <1>7, <2>2, <1>2 DEF IngestInvariant, ClaimIsOwn
  <2>3. CASE s \in claim[w]
      BY <1>7, <2>3, <1>2 DEF IngestInvariant, ClaimIsOwn, Apart
  <2> QED
      BY <2>1, <2>2, <2>3, <1>2
<1>8. RowsApart'
    BY <1>7 DEF RowsApart, Apart
<1> QED
    BY <1>5, <1>6, <1>8 DEF IngestInvariant

LEMMA InitInvariant == Init => IngestInvariant
<1> SUFFICES ASSUME Init PROVE IngestInvariant
    OBVIOUS
<1>1. (Limit - 1) * Bar \in Nat
    BY PayloadAssumption
<1>2. Typed
    BY <1>1 DEF Init, Typed
<1> QED
    BY <1>2 DEF Init, IngestInvariant, RowsApart, ClaimIsOwn

LEMMA NextInvariant == IngestInvariant /\ [Next]_vars => IngestInvariant'
<1> SUFFICES ASSUME IngestInvariant, [Next]_vars PROVE IngestInvariant'
    OBVIOUS
<1>1. CASE \E kinds \in Arrivals : Tick(kinds)
    BY <1>1, TickStep
<1>2. ASSUME NEW w \in Writers, Ask(w) \/ Fetch(w) \/ Stores(w) \/ Fail(w)
      PROVE  IngestInvariant'
    BY <1>2, WriterMoves, InsertStep, EndStep DEF Stores
<1>3. CASE HistoryFails \/ AttestReplays \/ AttestRecords \/ UNCHANGED vars
  <2>1. /\ UNCHANGED <<now, books, writerState, rows, nextId>> /\ charts' \subseteq charts
      BY <1>3 DEF HistoryFails, AttestReplays, AttestRecords, vars, bridgeState
  <2>2. Typed'
      BY <2>1 DEF IngestInvariant, Typed, writerState, GoodRow, Dated
  <2> QED
      BY <2>1, <2>2, NothingStored DEF writerState
<1> QED
    BY <1>1, <1>2, <1>3 DEF Next

(* What is stored and what is about to be stored is apart, and dated by    *)
(* its transaction, in every state.                                        *)
THEOREM IngestInvariantHolds == Spec => []IngestInvariant
<1>1. Init => IngestInvariant
    BY InitInvariant
<1>2. IngestInvariant /\ [Next]_vars => IngestInvariant'
    BY NextInvariant
<1> QED
    BY <1>1, <1>2, PTL DEF Spec

-----------------------------------------------------------------------------
(* The steps again, for what is told of them. *)

(* Nothing is stored or told.                                              *)
LEMMA NothingTold ==
    ASSUME IngestInvariant, ReceiptInvariant, now' \in Nat, now' >= now,
           UNCHANGED <<claim, rows, receipts>>, DOMAIN cutoff' = Writers,
           \A c \in charts' : c.closes \subseteq Int,
           \A w \in Writers : Timely(w)' /\ Tellable(w)'
    PROVE  ReceiptInvariant'
<1>1. ASSUME NEW r, GoodRow(r), Lasting(r) PROVE Lasting(r)'
    BY <1>1 DEF GoodRow, Lasting, Whole, IngestInvariant, Typed
<1>2. \A w \in Writers : \A r \in claim[w] : GoodRow(r) /\ Lasting(r)
    BY DEF IngestInvariant, ClaimIsOwn, ReceiptInvariant
<1>3. \A r \in rows : GoodRow(r) /\ Lasting(r)
    BY DEF IngestInvariant, Typed, ReceiptInvariant
<1>4. \A receipt \in receipts' : Backed(receipt)'
    BY DEF ReceiptInvariant, Backed
<1>5. \A a \in Nat : Newest(rows', a)
    BY DEF ReceiptInvariant
<1> QED
    BY <1>1, <1>2, <1>3, <1>4, <1>5 DEF ReceiptInvariant

LEMMA TickTells ==
    ASSUME IngestInvariant, ReceiptInvariant, NEW kinds, Tick(kinds)
    PROVE  ReceiptInvariant'
<1>1. now \in Nat /\ now' = now + 1
    BY DEF Tick, IngestInvariant, Typed
<1>2. UNCHANGED <<step, cutoff, payload, began, claim, rows, receipts>>
    BY DEF Tick, writerState
<1>3. ASSUME NEW c \in charts' PROVE c.closes \subseteq Int
  <2>1. c \in charts \union Charts(kinds, now')
      BY DEF Tick, Kept
  <2>2. CASE c \in charts
      BY <2>2 DEF ReceiptInvariant
  <2>3. CASE c \in Charts(kinds, now')
      BY <2>3, <1>1 DEF Charts, Chart, Closings
  <2> QED
      BY <2>1, <2>2, <2>3
<1>4. ASSUME NEW w \in Writers PROVE Timely(w)' /\ Tellable(w)'
  <2>1. Timely(w) /\ Tellable(w) /\ began[w] \in Nat
      BY DEF ReceiptInvariant, IngestInvariant, Typed
  <2>2. Timely(w)'
      BY <1>1, <1>2, <2>1 DEF Timely
  <2>3. Tellable(w)'
      BY <1>2, <2>1 DEF Tellable
  <2> QED
      BY <2>2, <2>3
<1> QED
    BY <1>1, <1>2, <1>3, <1>4, NothingTold DEF ReceiptInvariant

(* The bridge and the client let only whole answers through.               *)
LEMMA AnswerIsWhole ==
    ASSUME ReceiptInvariant, NEW asOf, NEW p \in ReaderAnswers(books, index, charts, asOf),
           BridgeAccepts(p, asOf), EnvelopeAccepts(p, asOf)
    PROVE  Whole(Batch(p))
<1>1. p \in ReadAnswer(books, index, charts, asOf)
    BY DEF ReaderAnswers
<1>2. PICK chart \in charts : p.closes = {c \in chart.closes : c <= asOf}
  <2>1. PICK chart \in charts : \E market, from, moved, reference, book, basis :
           p = [market |-> market, from |-> from,
                closes |-> {c \in chart.closes : c <= asOf}, lead |-> chart.lead,
                candles |-> chart.ingested, levels |-> "whole",
                reference |-> reference, book |-> book, basis |-> basis, moved |-> moved]
      BY <1>1 DEF ReadAnswer, Before
  <2> QED
      BY <2>1
<1>3. p.closes \subseteq Int
    BY <1>2 DEF ReceiptInvariant
<1>4. Batch(p).closes = p.closes
    BY DEF EnvelopeAccepts, RawCandlesMatch
<1>5. Cardinality(p.closes) = Limit
    BY DEF BridgeAccepts
<1>6. Limit \in Nat
    BY PayloadAssumption
<1> QED
    BY <1>3, <1>4, <1>5, <1>6 DEF Whole

(* A writer that stores nothing. *)
LEMMA WriterTells ==
    ASSUME IngestInvariant, ReceiptInvariant, NEW w \in Writers,
           Ask(w) \/ Fetch(w) \/ Begin(w) \/ FindStored(w)
    PROVE  ReceiptInvariant'
<1>1. UNCHANGED <<now, bridgeState, claim, rows, receipts>> /\ now \in Nat
    BY DEF Ask, Fetch, Begin, FindStored, IngestInvariant, Typed
<1>2. DOMAIN cutoff' = Writers /\ \A v \in Writers : Timely(v)'
    BY <1>1 DEF Ask, Fetch, Begin, FindStored, ReceiptInvariant, Timely, IngestInvariant, Typed
<1>3. ASSUME NEW v \in Writers, v # w PROVE Tellable(v)'
  <2>1. step'[v] = step[v] /\ payload'[v] = payload[v]
      BY <1>3 DEF Ask, Fetch, Begin, FindStored, IngestInvariant, Typed
  <2> QED
      BY <1>1, <2>1 DEF ReceiptInvariant, Tellable
<1>4. Tellable(w)'
  <2>1. Tellable(w) /\ w \in DOMAIN step /\ w \in DOMAIN payload
      BY DEF ReceiptInvariant, IngestInvariant, Typed
  <2>2. CASE Ask(w) \/ Begin(w)
    <3>1. payload' = payload /\ step'[w] \in {"asking", "open"}
        BY <2>1, <2>2 DEF Ask, Begin
    <3> QED
        BY <2>1, <3>1 DEF Tellable
  <2>3. CASE Fetch(w)
    <3>1. PICK p \in ReaderAnswers(books, index, charts, cutoff[w]) :
             /\ BridgeAccepts(p, cutoff[w]) /\ EnvelopeAccepts(p, cutoff[w])
             /\ payload' = [payload EXCEPT ![w] = {Batch(p)}]
        BY <2>3 DEF Fetch
    <3>2. Whole(Batch(p))
        BY <3>1, AnswerIsWhole
    <3>3. payload'[w] = {Batch(p)} /\ step'[w] = "answered"
        BY <2>1, <2>3, <3>1 DEF Fetch
    <3> QED
        BY <3>2, <3>3 DEF Tellable
  <2>4. CASE FindStored(w)
    <3>1. PICK p \in payload[w] : \E r \in rows : r.payload = p
        BY <2>4 DEF FindStored
    <3>2. payload' = payload /\ step'[w] = "known" /\ rows' = rows
        BY <2>1, <2>4 DEF FindStored
    <3> QED
        BY <2>1, <3>1, <3>2 DEF Tellable
  <2> QED
      BY <2>2, <2>3, <2>4
<1> QED
    BY <1>1, <1>2, <1>3, <1>4, NothingTold DEF bridgeState, ReceiptInvariant

(* The tables accept an insert only if it will last.                       *)
LEMMA InsertTells ==
    ASSUME IngestInvariant, ReceiptInvariant, NEW w \in Writers, Insert(w)
    PROVE  ReceiptInvariant'
<1>1. PICK p \in payload[w] :
         /\ TablesAccept(Row(nextId, p, cutoff[w], began[w]))
         /\ claim' = [claim EXCEPT ![w] = {Row(nextId, p, cutoff[w], began[w])}]
    BY DEF Insert, BatchOf, Stored
<1>2. PICK new : new = Row(nextId, p, cutoff[w], began[w])
    OBVIOUS
<1>3. new.payload = p /\ new.requested = cutoff[w] /\ new.ingested = began[w]
    BY <1>2 DEF Row
<1>4. /\ UNCHANGED <<now, charts, cutoff, payload, began, rows, receipts>>
      /\ step' = [step EXCEPT ![w] = "stored"]
    BY DEF Insert, bridgeState
<1>5. Timely(w) /\ Tellable(w)
    BY DEF ReceiptInvariant
<1>6. Lasting(new)
    BY <1>1, <1>2, <1>3, <1>5 DEF TablesAccept, Lasting, Timely, Tellable
<1>7. claim'[w] = {new} /\ \A v \in Writers : v # w => claim'[v] = claim[v]
    BY <1>1, <1>2 DEF IngestInvariant, Typed
<1>8. step'[w] = "stored" /\ \A v \in Writers : v # w => step'[v] = step[v]
    BY <1>4 DEF IngestInvariant, Typed
<1>9. ASSUME NEW r, Lasting(r) PROVE Lasting(r)'
    BY <1>4, <1>9 DEF Lasting, Whole
<1>10. ASSUME NEW v \in Writers
       PROVE  Timely(v)' /\ Tellable(v)' /\ \A r \in claim'[v] : Lasting(r)'
  <2>1. Timely(v) /\ Tellable(v) /\ \A r \in claim[v] : Lasting(r)
      BY DEF ReceiptInvariant
  <2>2. Timely(v)'
      BY <1>4, <2>1 DEF Timely
  <2>3. CASE v = w
      BY <1>1, <1>3, <1>4, <1>6, <1>7, <1>8, <1>9, <2>1, <2>2, <2>3 DEF Tellable, Whole
  <2>4. CASE v # w
      BY <1>4, <1>7, <1>8, <1>9, <2>1, <2>2, <2>4 DEF Tellable, Whole
  <2> QED
      BY <2>3, <2>4
<1>11. /\ \A r \in rows' : Lasting(r)'
       /\ \A receipt \in receipts' : Backed(receipt)'
    BY <1>4, <1>9 DEF ReceiptInvariant, Backed
<1> QED
    BY <1>4, <1>10, <1>11 DEF ReceiptInvariant

(* A transaction ends: its rows are in the table before anybody is told.   *)
LEMMA EndTells ==
    ASSUME IngestInvariant, ReceiptInvariant, NEW w \in Writers, Commit(w) \/ Fail(w)
    PROVE  ReceiptInvariant'
<1>1. /\ UNCHANGED <<now, bridgeState>> /\ now \in Nat
      /\ step' = [step EXCEPT ![w] = "idle"] /\ payload' = [payload EXCEPT ![w] = {}]
      /\ cutoff' = [cutoff EXCEPT ![w] = 0]
      /\ began' = [began EXCEPT ![w] = 0] /\ claim' = [claim EXCEPT ![w] = {}]
    BY DEF Commit, Fail, Leaves, DropsClaim, IngestInvariant, Typed
<1>2. rows' = rows \/ (rows' = rows \union claim[w] /\ claim[w] # {})
    BY DEF Commit, Fail
<1>3. ASSUME NEW r, Lasting(r) PROVE Lasting(r)'
    BY <1>1, <1>3 DEF Lasting, Whole
<1>4. rows \subseteq rows' /\ \A r \in rows' : Lasting(r)'
    BY <1>2, <1>3 DEF ReceiptInvariant
<1>5. ASSUME NEW v \in Writers
      PROVE  Timely(v)' /\ Tellable(v)' /\ \A r \in claim'[v] : Lasting(r)'
  <2>1. Timely(v) /\ Tellable(v) /\ \A r \in claim[v] : Lasting(r)
      BY DEF ReceiptInvariant
  <2>2. DOMAIN step = Writers /\ DOMAIN payload = Writers /\ DOMAIN cutoff = Writers
        /\ began \in [Writers -> Nat] /\ DOMAIN claim = Writers
      BY DEF ReceiptInvariant, IngestInvariant, Typed
  <2>3. CASE v = w
    <3>1. payload'[v] = {} /\ claim'[v] = {} /\ cutoff'[v] = 0 /\ began'[v] = 0 /\ now' \in Nat
        BY <1>1, <2>2, <2>3
    <3> QED
        BY <3>1 DEF Timely, Tellable
  <2>4. CASE v # w
    <3>1. /\ payload'[v] = payload[v] /\ claim'[v] = claim[v] /\ cutoff'[v] = cutoff[v]
          /\ began'[v] = began[v] /\ step'[v] = step[v] /\ now' = now
        BY <1>1, <2>2, <2>4
    <3>2. Timely(v)'
        BY <2>1, <3>1 DEF Timely
    <3>3. Tellable(v)'
        BY <2>1, <3>1, <1>4 DEF Tellable, Whole
    <3> QED
        BY <2>1, <3>1, <3>2, <3>3, <1>3
  <2> QED
      BY <2>3, <2>4
<1>6. ASSUME NEW receipt \in receipts' PROVE Backed(receipt)'
  <2>1. CASE receipt \in receipts
      BY <2>1, <1>4 DEF ReceiptInvariant, Backed
  <2>2. CASE receipt \notin receipts
    <3>1. Commit(w)
        BY <1>6, <2>2 DEF Fail
    <3>2. PICK p \in payload[w] : receipt = [payload |-> p, at |-> now]
        BY <1>6, <2>2, <3>1 DEF Commit
    <3>3. rows' = rows \union claim[w] /\ step[w] \in {"stored", "known"}
        BY <3>1 DEF Commit
    <3>4. PICK r \in rows' : r.payload = p
        BY <3>2, <3>3 DEF ReceiptInvariant, Tellable
    <3>5. r.requested <= now /\ r.ingested <= now
        BY <1>1, <1>4, <3>4 DEF Lasting
    <3> QED
        BY <1>1, <3>2, <3>4, <3>5 DEF Backed
  <2> QED
      BY <2>1, <2>2
<1>7. ASSUME NEW a \in Nat PROVE Newest(rows', a)
  <2>1. Newest(rows, a)
      BY DEF ReceiptInvariant
  <2>2. CASE rows' = rows
      BY <2>1, <2>2
  <2>3. CASE rows' = rows \union claim[w] /\ claim[w] # {}
    <3>1. PICK new : new \in claim[w]
        BY <2>3
    <3>2. claim[w] = {new} /\ GoodRow(new) /\ \A s \in rows : new.id # s.id
        BY <3>1 DEF IngestInvariant, ClaimIsOwn, Apart
    <3> QED
        BY <2>1, <2>3, <3>2, NewestStays
  <2> QED
      BY <1>2, <2>2, <2>3
<1> QED
    BY <1>1, <1>4, <1>5, <1>6, <1>7 DEF ReceiptInvariant, bridgeState

LEMMA ReceiptStep == IngestInvariant /\ ReceiptInvariant /\ [Next]_vars => ReceiptInvariant'
<1> SUFFICES ASSUME IngestInvariant, ReceiptInvariant, [Next]_vars PROVE ReceiptInvariant'
    OBVIOUS
<1>1. CASE \E kinds \in Arrivals : Tick(kinds)
    BY <1>1, TickTells
<1>2. ASSUME NEW w \in Writers, Ask(w) \/ Fetch(w) \/ Stores(w) \/ Fail(w)
      PROVE  ReceiptInvariant'
    BY <1>2, WriterTells, InsertTells, EndTells DEF Stores
<1>3. CASE HistoryFails \/ AttestReplays \/ AttestRecords \/ UNCHANGED vars
  <2>1. /\ UNCHANGED <<now, step, cutoff, payload, began, claim, rows, receipts>>
        /\ charts' \subseteq charts
      BY <1>3 DEF HistoryFails, AttestReplays, AttestRecords, vars, writerState, bridgeState
  <2>2. \A w \in Writers : Timely(w)' /\ Tellable(w)'
      BY <2>1 DEF ReceiptInvariant, Timely, Tellable
  <2>3. now' \in Nat /\ now' >= now
      BY <2>1 DEF IngestInvariant, Typed
  <2> QED
      BY <2>1, <2>2, <2>3, NothingTold DEF ReceiptInvariant
<1> QED
    BY <1>1, <1>2, <1>3 DEF Next

(* Receipts are backed, and every cutoff has a newest batch.               *)
THEOREM ReceiptInvariantHolds == Spec => []ReceiptInvariant
<1>1. Init => ReceiptInvariant
  <2> SUFFICES ASSUME Init PROVE ReceiptInvariant
      OBVIOUS
  <2>1. now \in Nat
      BY PayloadAssumption DEF Init
  <2> QED
      BY <2>1 DEF Init, ReceiptInvariant, Timely, Tellable, Newest
<1>2. IngestInvariant /\ ReceiptInvariant /\ [Next]_vars => ReceiptInvariant'
    BY ReceiptStep
<1> QED
    BY <1>1, <1>2, IngestInvariantHolds, PTL DEF Spec

-----------------------------------------------------------------------------
(* The same bytes are stored once, for any number of writers (the UNIQUE   *)
(* hash and the conflict clause of ingest).                                *)
THEOREM PayloadsAreStoredOnce == Spec => []OnePerPayload
<1>1. IngestInvariant => OnePerPayload
    BY DEF IngestInvariant, RowsApart, Apart, OnePerPayload
<1> QED
    BY <1>1, IngestInvariantHolds, PTL

(* A replay changes only through a transaction that had started by its     *)
(* cutoff: what such a one has inserted is dated by its start.             *)
THEOREM QuietReplaysAreFinal == Spec => QuietReplayIsFinal
<1>1. ASSUME IngestInvariant, [Next]_vars, NEW a \in 0 .. now, Quiet(a)
      PROVE  Chosen(rows', a) = Chosen(rows, a)
  <2>1. CASE \E w \in Writers : Commit(w)
    <3>1. PICK w \in Writers : Commit(w)
        BY <2>1
    <3>2. rows' = rows \union claim[w]
        BY <3>1 DEF Commit
    <3>3. ASSUME NEW r \in claim[w] PROVE ~Candidate(r, a)
      <4>1. r.ingested = began[w] /\ step[w] = "stored" /\ began[w] \in Nat
          BY <1>1 DEF IngestInvariant, ClaimIsOwn, Typed
      <4>2. began[w] > a /\ a \in Nat
          BY <1>1, <4>1 DEF Quiet, IngestInvariant, Typed
      <4> QED
          BY <4>1, <4>2 DEF Candidate
    <3> QED
        BY <3>2, <3>3, LateRowsDoNotMatter
  <2>2. CASE ~\E w \in Writers : Commit(w)
    <3>1. rows' = rows
        BY <1>1, <2>2 DEF Next, Tick, HistoryFails, Ask, Fetch, Stores, Begin, Insert, FindStored,
                          Fail, AttestReplays, AttestRecords, vars
    <3> QED
        BY <3>1
  <2> QED
      BY <2>1, <2>2
<1>2. IngestInvariant /\ [Next]_vars =>
         [\A a \in 0 .. now : Quiet(a) => Chosen(rows', a) = Chosen(rows, a)]_vars
    BY <1>1
<1> QED
    BY <1>2, IngestInvariantHolds, PTL DEF Spec, QuietReplayIsFinal

(* What is attested is what the replay finds at that moment, and the only  *)
(* thing it finds (attest_campaign).                                       *)
THEOREM AttestationsAreChosen == Spec => AttestedIsChosen
<1>1. ASSUME IngestInvariant, [Next]_vars, attested' # attested
      PROVE  attested = {} /\ attested' = Chosen(rows', End)
  <2>1. AttestRecords
      BY <1>1 DEF Next, Tick, HistoryFails, Ask, Fetch, Stores, Begin, Insert, FindStored, Commit,
                  Leaves, Fail, AttestReplays, vars, verifierState
  <2>2. PICK r \in replayed : /\ attested' = IF ChosenNow(r) /\ attested = {} THEN {r} ELSE attested
                              /\ rows' = rows
      BY <2>1 DEF AttestRecords
  <2>3. attested = {} /\ r \in Chosen(rows, End) /\ attested' = {r}
      BY <1>1, <2>2 DEF ChosenNow
  <2> QED
      BY <1>1, <2>2, <2>3, ChoiceIsUnique
<1>2. IngestInvariant /\ [Next]_vars =>
         [attested' # attested => attested = {} /\ attested' = Chosen(rows', End)]_vars
    BY <1>1
<1> QED
    BY <1>2, IngestInvariantHolds, PTL DEF Spec, AttestedIsChosen

(* What a caller was told of is replayed from then on, or something newer  *)
(* is (run_once and its receipt).                                          *)
THEOREM ReceiptsStayReplayable == Spec => []ReceiptIsReplayable
<1>1. IngestInvariant /\ ReceiptInvariant => ReceiptIsReplayable
  <2> SUFFICES ASSUME IngestInvariant, ReceiptInvariant, NEW receipt \in receipts,
                      NEW a \in receipt.at .. now
               PROVE  \E r \in Chosen(rows, a) :
                         AvailableAt(r.payload) >= AvailableAt(receipt.payload)
      BY DEF ReceiptIsReplayable
  <2>1. Backed(receipt) /\ receipt.at \in Nat /\ now \in Nat /\ a \in Nat /\ receipt.at <= a
      BY DEF ReceiptInvariant, Backed, IngestInvariant, Typed
  <2>2. PICK r \in rows : /\ r.payload = receipt.payload
                          /\ r.requested <= receipt.at /\ r.ingested <= receipt.at
      BY <2>1 DEF Backed
  <2>3. GoodRow(r) /\ Lasting(r)
      BY DEF IngestInvariant, Typed, ReceiptInvariant
  <2>4. r.requested <= a /\ r.ingested <= a
      BY <2>1, <2>2, <2>3 DEF GoodRow, Lasting
  <2>5. Candidate(r, a)
      BY <2>1, <2>3, <2>4, LastingIsCandidate
  <2>6. PICK c \in Chosen(rows, a) : c = r \/ Precedes(r, c)
      BY <2>1, <2>5 DEF ReceiptInvariant, Newest
  <2>7. GoodRow(c)
      BY <2>6 DEF Chosen, IngestInvariant, Typed
  <2>8. AvailableAt(c.payload) \in Nat /\ AvailableAt(r.payload) \in Nat
      BY <2>3, <2>7 DEF GoodRow, Dated, AvailableAt, Later
  <2>9. AvailableAt(c.payload) >= AvailableAt(r.payload)
      BY <2>6, <2>8 DEF Precedes
  <2> QED
      BY <2>2, <2>9
<1> QED
    BY <1>1, IngestInvariantHolds, ReceiptInvariantHolds, PTL
=============================================================================
