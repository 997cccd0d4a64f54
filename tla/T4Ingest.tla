------------------------------- MODULE T4Ingest -------------------------------
(***************************************************************************)
(* The ingest of market data and its replay (t4_ingest.py, cli.py): the    *)
(* bridge's buffers fill, writers ask for an answer, and each one stores   *)
(* it in a transaction of its own (postgres.py, migration 0014).  A replay *)
(* reads what is committed; the verifier attests the one that a campaign   *)
(* ends with (evidence_verifier.py, migration 0018).  One clock for all.   *)
(***************************************************************************)
EXTENDS T4Payload

CONSTANTS
    Writers,    \* commands that ingest: a watch loop and calls by hand
    Keep,       \* items that a buffer of the bridge keeps
    End,        \* planned_ends_at of the campaign: the cutoff of its replay
    Arrivals,   \* what may arrive together: subsets of the feeds
    MaxTime,    \* bound: the clock stops here
    MaxAsks     \* bound: requests of all the writers

Feeds == {"book", "old", "index", "chart"}

ASSUME IngestAssumption ==
    /\ Keep \in Nat \ {0} /\ {End, MaxTime, MaxAsks} \subseteq Nat
    /\ Arrivals \subseteq SUBSET Feeds

VARIABLES
    now,        \* the clock
    books,      \* the bridge's snapshots, of the market of the day and the one before
    index,      \* the bridge's basis references
    charts,     \* the bridge's candles
    step,       \* where each writer is
    cutoff,     \* the cutoff it asks for
    payload,    \* the set of what it was answered: one payload, or none yet
    began,      \* when its transaction started
    claim,      \* what its transaction has inserted: a set of at most one row
    rows,       \* the committed batches
    nextId,     \* the identity column; a rollback does not give a number back
    receipts,   \* what was promised to callers, and when
    asks,       \* requests so far
    replayed,   \* the batch the verifier has replayed and not yet recorded
    attested    \* the batch it has recorded: a set of at most one

bridgeState == <<books, index, charts>>
writerState == <<step, cutoff, payload, began, claim, asks>>
verifierState == <<replayed, attested>>
vars == <<now, bridgeState, writerState, rows, nextId, receipts, verifierState>>

Steps == {"idle", "asking", "answered", "open", "stored", "known"}

TypeOK ==
    /\ now \in Nat /\ nextId \in Nat /\ asks \in Nat
    /\ step \in [Writers -> Steps] /\ cutoff \in [Writers -> Nat] /\ began \in [Writers -> Nat]
    /\ \A w \in Writers : Cardinality(payload[w]) <= 1 /\ Cardinality(claim[w]) <= 1
    /\ \A w \in Writers : step[w] \in {"answered", "open", "stored", "known"} <=> payload[w] # {}
    /\ \A r \in rows \union UNION {claim[w] : w \in Writers} : r.id < nextId /\ r.ingested <= now
    /\ Cardinality(replayed) <= 1 /\ Cardinality(attested) <= 1

-----------------------------------------------------------------------------
(* The bridge.  What arrives carries the time of its arrival; a buffer     *)
(* drops its oldest item.                                                  *)

Kept(items) == {i \in items : Cardinality({j \in items : j.ingested > i.ingested}) < Keep}
Closings(t) == {c \in 0 .. t : c % Bar = 0 /\ t - c < Limit * Bar}
Book(market, t) == [market |-> market, observed |-> t, available |-> t, ingested |-> t]
Chart(lead, t) == [closes |-> Closings(t), lead |-> lead, ingested |-> t]
Arrived(kinds, t) ==
    {Book(m, t) : m \in {r \in {Market(t)} : "book" \in kinds} \union
                        {r \in {RolledFrom(t)} \ {NoContract} : "old" \in kinds}}
KeptOf(all) == UNION {Kept({b \in all : b.market = m}) : m \in Rolls}

Charts(kinds, t) ==
    {Chart(Market(t), t) : k \in kinds \intersect {"chart"}}

Tick(kinds) ==
    /\ now < MaxTime
    /\ now' = now + 1
    /\ books' = KeptOf(books \union Arrived(kinds, now'))
    /\ index' = Kept(index \union {Stamp(now', now', now') : k \in kinds \intersect {"index"}})
    /\ charts' = Kept(charts \union Charts(kinds, now'))
    /\ UNCHANGED <<writerState, rows, nextId, receipts, verifierState>>

(* One refresh that fails takes all the histories with it. *)
HistoryFails ==
    /\ charts # {}
    /\ charts' = {}
    /\ UNCHANGED <<now, books, index, writerState, rows, nextId, receipts, verifierState>>

-----------------------------------------------------------------------------
(* A writer: run_once takes the cutoff, fetches, and stores. *)

Ask(w) ==
    /\ step[w] = "idle" /\ asks < MaxAsks
    /\ asks' = asks + 1
    /\ cutoff' = [cutoff EXCEPT ![w] = now]
    /\ step' = [step EXCEPT ![w] = "asking"]
    /\ UNCHANGED <<now, bridgeState, payload, began, claim, rows, nextId, receipts, verifierState>>

Fetch(w) ==
    /\ step[w] = "asking" /\ RequestAccepted(cutoff[w], now)
    /\ \E p \in ReaderAnswers(books, index, charts, cutoff[w]) :
          /\ BridgeAccepts(p, cutoff[w]) /\ ProviderAccepts(p, cutoff[w])
          /\ EnvelopeAccepts(p, cutoff[w])
          /\ payload' = [payload EXCEPT ![w] = {Batch(p)}]
    /\ step' = [step EXCEPT ![w] = "answered"]
    /\ UNCHANGED <<now, bridgeState, cutoff, began, claim, asks, rows, nextId, receipts, verifierState>>

(* The transaction starts with its first statement: CURRENT_TIMESTAMP.     *)
Begin(w) ==
    /\ step[w] = "answered"
    /\ began' = [began EXCEPT ![w] = now]
    /\ step' = [step EXCEPT ![w] = "open"]
    /\ UNCHANGED <<now, bridgeState, cutoff, payload, claim, asks, rows, nextId, receipts, verifierState>>

(* The batch as it will be stored. *)
Stored(w, p) == Row(nextId, p, cutoff[w], began[w])

(* Mutant: the batch is dated by its cutoff. *)
StoredAtCutoff(w, p) == Row(nextId, p, cutoff[w], cutoff[w])

BatchOf(w, p) == Stored(w, p)

(* INSERT ... ON CONFLICT DO NOTHING waits for the transaction that has    *)
(* inserted the same bytes and is still open.                              *)
(* Mutant: only what is committed stands in the way. *)
FreeAmongCommitted(w, p) == TRUE

Free(w, p) == \A v \in Writers \ {w} : \A r \in claim[v] : r.payload # p

(* The batch with its candles and evidence: all of it in this transaction. *)
Insert(w) ==
    /\ step[w] = "open"
    /\ \E p \in payload[w] :
          /\ Free(w, p) /\ \A r \in rows : r.payload # p
          /\ TablesAccept(BatchOf(w, p))
          /\ claim' = [claim EXCEPT ![w] = {BatchOf(w, p)}]
    /\ nextId' = nextId + 1
    /\ step' = [step EXCEPT ![w] = "stored"]
    /\ UNCHANGED <<now, bridgeState, cutoff, payload, began, asks, rows, receipts, verifierState>>

(* The bytes are there already: the counts of the batch are compared, and  *)
(* it is the batch the caller is told of.                                  *)
FindStored(w) ==
    /\ step[w] = "open"
    /\ \E p \in payload[w] : Free(w, p) /\ \E r \in rows : r.payload = p
    /\ step' = [step EXCEPT ![w] = "known"]
    /\ UNCHANGED <<now, bridgeState, cutoff, payload, began, claim, asks, rows, nextId, receipts, verifierState>>

Leaves(w) ==
    /\ step' = [step EXCEPT ![w] = "idle"]
    /\ payload' = [payload EXCEPT ![w] = {}]
    /\ cutoff' = [cutoff EXCEPT ![w] = 0] /\ began' = [began EXCEPT ![w] = 0]
    /\ UNCHANGED <<now, bridgeState, asks, nextId, verifierState>>

(* Mutant: the rollback leaves the insert behind. *)
KeepsClaim(w) == UNCHANGED claim

DropsClaim(w) == claim' = [claim EXCEPT ![w] = {}]

(* The commit publishes the batch; the caller may not live to hear of it.  *)
Commit(w) ==
    /\ step[w] \in {"stored", "known"}
    /\ rows' = rows \union claim[w]
    /\ \E told \in BOOLEAN :
          receipts' = IF told THEN receipts \union {[payload |-> p, at |-> now] : p \in payload[w]}
                      ELSE receipts
    /\ claim' = [claim EXCEPT ![w] = {}]
    /\ Leaves(w)

(* An error, a lost connection or the end of the process: rolled back.     *)
Fail(w) ==
    /\ step[w] # "idle"
    /\ DropsClaim(w)
    /\ Leaves(w) /\ UNCHANGED <<rows, receipts>>

-----------------------------------------------------------------------------
(* The verifier, once the campaign has ended.  The replay and the record   *)
(* are two transactions.                                                   *)

AttestReplays ==
    /\ replayed = {} /\ now >= End
    /\ replayed' = {r \in Chosen(rows, End) : ReplayUsable(r.payload, End)} /\ replayed' # {}
    /\ UNCHANGED <<now, bridgeState, writerState, rows, nextId, receipts, attested>>

(* Mutant: what was replayed is recorded without another look. *)
StillChosen(r) == TRUE

ChosenNow(r) == r \in Chosen(rows, End)

(* An attestation is written once; another one must be the same.           *)
AttestRecords ==
    /\ \E r \in replayed :
          attested' = IF ChosenNow(r) /\ attested = {} THEN {r} ELSE attested
    /\ replayed' = {}
    /\ UNCHANGED <<now, bridgeState, writerState, rows, nextId, receipts>>

-----------------------------------------------------------------------------
Init ==
    /\ now = (Limit - 1) * Bar /\ books = {} /\ index = {} /\ charts = {}
    /\ step = [w \in Writers |-> "idle"] /\ asks = 0
    /\ cutoff = [w \in Writers |-> 0] /\ began = [w \in Writers |-> 0]
    /\ payload = [w \in Writers |-> {}] /\ claim = [w \in Writers |-> {}]
    /\ rows = {} /\ nextId = 1 /\ receipts = {} /\ replayed = {} /\ attested = {}

Stores(w) == Begin(w) \/ Insert(w) \/ FindStored(w) \/ Commit(w)

Next ==
    \/ \E kinds \in Arrivals : Tick(kinds)
    \/ HistoryFails
    \/ \E w \in Writers : Ask(w) \/ Fetch(w) \/ Stores(w) \/ Fail(w)
    \/ AttestReplays \/ AttestRecords

Spec == Init /\ [][Next]_vars
FairSpec == Spec /\ \A w \in Writers : WF_vars(Stores(w))

-----------------------------------------------------------------------------
(* The same bytes are stored once, however many writers were answered with *)
(* them at once (the UNIQUE hash and the conflict clause of ingest).       *)
OnePerPayload ==
    \A r, s \in rows : r # s => r.payload # s.payload /\ r.id # s.id

(* What a caller was told of can be replayed from then on, unless there is *)
(* something newer: also when another writer had stored it, or was about   *)
(* to.                                                                     *)
ReceiptIsReplayable ==
    \A receipt \in receipts : \A a \in receipt.at .. now :
        \E r \in Chosen(rows, a) : AvailableAt(r.payload) >= AvailableAt(receipt.payload)

(* A replay is final once every transaction that had started by its cutoff *)
(* has ended: nothing stored later can change it.                          *)
Quiet(a) == a < now /\ \A w \in Writers : step[w] \in {"open", "stored", "known"} => began[w] > a
QuietReplayIsFinal ==
    [][\A a \in 0 .. now : Quiet(a) => Chosen(rows', a) = Chosen(rows, a)]_vars

(* The comment on the tables (0014:102) calls the replay deterministic: a  *)
(* cutoff in the past that has a replay keeps it.                          *)
ReplayIsDeterministic ==
    [][\A a \in 0 .. now - 1 : Chosen(rows, a) # {} => Chosen(rows', a) = Chosen(rows, a)]_vars

(* What is attested is what a replay finds when it is recorded, though a   *)
(* commit may have come between the two transactions.                      *)
AttestedIsChosen ==
    [][attested' # attested => attested = {} /\ attested' = Chosen(rows', End)]_vars

(* A writer that has opened its transaction ends it: no insert is waited   *)
(* for that nobody will finish.                                            *)
IngestEnds == \A w \in Writers : step[w] = "open" ~> step[w] = "idle"
=============================================================================
