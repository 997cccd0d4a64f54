------------------------------ MODULE MCContracts ------------------------------
(***************************************************************************)
(* What one part of the system produces and the next one judges, over      *)
(* every case of a bounded set: the signed events of the bridge, its       *)
(* market data answers, and the analysis of an answer or of its replay.    *)
(***************************************************************************)
EXTENDS SignedEvents, DecisionGate

CONSTANT Last   \* the last time of a case

ASSUME LastAssumption == Last \in Nat

VARIABLE case

Stamps3 == {Stamp(1, 1, 1), Stamp(1, 1, 2), Stamp(2, 2, 2), Stamp(2, 1, 2),
            Stamp(4, 4, 4), Stamp(3, 4, 5)}
Closes == {{0, 1}, {1, 2}, {3, 4}}

Payloads ==
    [market : Rolls, from : {NoContract, Min(Rolls)}, closes : Closes, lead : Rolls,
     candles : {2, 4}, levels : {"whole", "thin", "crossed"},
     reference : Stamps3, book : Stamps3, basis : Stamps3,
     moved : {{}} \union {{s} : s \in Stamps3}]

(* For an analysis the bridge is honest, and the book is the reference.    *)
Honest(asOf) ==
    {p \in [market : {Market(asOf)}, from : {RolledFrom(asOf)}, closes : Closes,
            lead : {Market(asOf)}, candles : {2, 4}, levels : {"whole"},
            reference : Stamps3, book : Stamps3, basis : Stamps3,
            moved : IF RolledFrom(asOf) = NoContract THEN {{}} ELSE {{s} : s \in Stamps3}] :
        p.reference = p.book /\ BridgeAccepts(p, asOf)}

(* A request that no contract is left for is refused (RequestAccepted).    *)
Answered(cutoffs) == {a \in cutoffs : Selectable(a) # {}}

Init == case = [kind |-> "none"]

AnEvent ==
    case.kind = "none" /\ case' \in [kind : {"event"}, event : Shapes]
AnAnswer ==
    case.kind = "none" /\ case' \in [kind : {"answer"}, payload : Payloads, asOf : Answered({2, 5})]
AnAnalysis ==
    /\ case.kind = "none"
    /\ \E asOf \in Answered({2, 4, 5}) :
          case' \in [kind : {"analysis"}, asOf : {asOf}, at : asOf .. Last,
                     payload : Honest(asOf), provider : {"t4", "replay", "other"},
                     environment : {"live_t4", "t4_simulator"},
                     history : {"whole", "short", "tiny", "doubled", "conflict", "gap"},
                     session : {"OPEN", "CLOSED", "HALTED"},
                     moves : {"calm", "sharp", "extreme"},
                     volume : {"usual", "anomalous", "flat"},
                     prices : {"fair", "wide", "far"}]

Next == AnEvent \/ AnAnswer \/ AnAnalysis
Spec == Init /\ [][Next]_case

-----------------------------------------------------------------------------
(* The verifier accepts whatever the bridge appends: one event that it     *)
(* refuses would stop the import of the journal for good.                  *)
EmittedIsAccepted ==
    case.kind = "event" /\ case.event \in Emitted => VerifierAccepts(case.event)

(* The verifier lets nothing through that the database refuses: a page is  *)
(* stored as a whole, and one refused event would block every later one.   *)
AcceptedIsStored ==
    case.kind = "event" /\ VerifierAccepts(case.event) => DatabaseAccepts(case.event)

(* The bridge sends nothing that a later judge refuses: what passes its    *)
(* validator passes the client, the ingest and the tables, when the        *)
(* transaction starts no earlier than the cutoff.  The watch loop ends     *)
(* with the first refusal.                                                 *)
AnswerIsStored ==
    case.kind = "answer" /\ BridgeAccepts(case.payload, case.asOf) =>
        /\ ProviderAccepts(case.payload, case.asOf)
        /\ EnvelopeAccepts(case.payload, case.asOf)
        /\ \A started \in case.asOf .. Last :
              TablesAccept(Row(1, case.payload, case.asOf, started))

(* A batch that a replay chooses is usable, and nothing in it is newer     *)
(* than the cutoff: not the reference price and not the evidence of the    *)
(* roll either, which the choice does not look at.                         *)
ChosenIsUsable ==
    case.kind = "answer" /\ BridgeAccepts(case.payload, case.asOf) =>
        \A started \in case.asOf .. Last, at \in 0 .. Last :
            Candidate(Row(1, case.payload, case.asOf, started), at) =>
                /\ ReplayUsable(case.payload, at)
                /\ \A s \in Stamps(case.payload) : s.ingested <= at

(* An alert is raised only on evidence that is in order when the analysis  *)
(* is sealed, which is later than the cutoff the data were asked for: the  *)
(* contract has not rolled meanwhile, the book has not aged meanwhile.     *)
AlertIsJustified ==
    case.kind = "analysis" /\ Decision(case, case.at) = "ALERT" =>
        LET p == case.payload IN
        /\ Selectable(case.at) # {} /\ p.market = Market(case.at)
        /\ \A s \in Stamps(p) : s.ingested <= case.at
        /\ case.at - p.book.observed <= SnapshotAge
        /\ case.at - p.basis.observed <= SnapshotAge
        /\ case.session = "OPEN" /\ case.provider # "other"
        /\ case.history \in {"whole", "doubled"}

(* The replay of a stored answer decides what the live analysis decided at *)
(* the same time.                                                          *)
ReplayDecidesAlike ==
    case.kind = "analysis" /\ case.provider = "t4"
      /\ Candidate(Row(1, case.payload, case.asOf, case.asOf), case.at) =>
        Decision([case EXCEPT !.provider = "replay"], case.at) = Decision(case, case.at)

(* An alert that leaves the system comes from the live provider in the     *)
(* live environment, whatever the operation is called.                     *)
DeliveredIsLive ==
    case.kind = "analysis" =>
        \A operation \in {"live_t4_analysis", "analyze_replay"} :
            Delivers(case, case.at, operation, case.at, case.at + 1) =>
                case.provider = "t4" /\ case.environment = "live_t4"
=============================================================================
