------------------------ MODULE AnalysisRequestProofs ------------------------
(***************************************************************************)
(* For any requests, cycles of `monitor`, limits and evidence: the two     *)
(* databases agree on every run, a success is backed by what it speaks of, *)
(* and an incident is opened by one run.                                   *)
(***************************************************************************)
EXTENDS AnalysisRequest, FiniteSetTheorems, TLAPS

-----------------------------------------------------------------------------
(* The inductive invariant. *)

Open == {"check", "send", "commit"}
Unsaved == {"none", "queued", "build", "fetch", "lock", "insert", "save"}

(* What a run knows of itself: it is stored in SQLite before it is         *)
(* recorded, unless it is recorded as failed; it is recorded at its end.   *)
Own(r) ==
    /\ handler[r] = "new" => At(r, "none")
    /\ thread[r].pc \in Unsaved => r \notin reports /\ thread[r].code = "none"
    /\ At(r, "saved") => r \in reports /\ thread[r].code = "none"
    /\ thread[r].pc \in Recording => (thread[r].code = "none" <=> r \in reports)
    /\ thread[r].code # "none" => thread[r].touches = thread[r].code
    /\ ~At(r, "done") => runs[r] = "none" /\ thread[r].result = "none"
    /\ runs[r] = "completed" => r \in reports /\ thread[r].code = "none"
    /\ runs[r] = "failed" => r \notin reports /\ thread[r].code # "none"
    /\ thread[r].result = "report" => runs[r] = "completed"
    /\ handler[r] \in {"200", "narrating"} => thread[r].result = "report"

(* What an open transaction knows of the row it shares stays true, because *)
(* the first writer holds its key.                                         *)
Entitled(r) ==
    thread[r].pc \in Open /\ thread[r].touches # "none" =>
        /\ thread[r].entry = "first" => key[thread[r].touches] = r /\ ~Stored(thread[r].touches)
        /\ thread[r].entry # "first" => Stored(thread[r].touches)
Held(r) ==
    \A k \in Keys : key[k] = r =>
        thread[r].pc \in Open /\ thread[r].touches = k /\ thread[r].entry = "first"

(* What is stored of incidents and alerts belongs to stored runs.          *)
AlertsAreBacked == \A e \in Evidence : alerts[e] # Nobody => runs[alerts[e]] = "completed"
AlertsAreThere ==
    \A r \in Runs, e \in Evidence :
        runs[r] # "none" /\ thread[r].touches = e => alerts[e] # Nobody
Names(k, r) == \E event \in incidents[k] : event[2] = r
IncidentsAreWhole ==
    \A k \in Incidents, r \in Runs : runs[r] # "none" /\ thread[r].touches = k <=> Names(k, r)
OpenedOnce ==
    \A k \in Incidents : incidents[k] # {} =>
        \E r \in Runs : /\ <<"opened", r>> \in incidents[k]
                        /\ \A q \in Runs : <<"opened", q>> \in incidents[k] => q = r
Tables == AlertsAreBacked /\ AlertsAreThere /\ IncidentsAreWhole /\ OpenedOnce

AnalysisInvariant ==
    /\ TypeOK
    /\ \A r \in Runs : Own(r) /\ Entitled(r) /\ Held(r)
    /\ Tables

-----------------------------------------------------------------------------
(* Threads. *)

(* Only the thread of r moves, and this is what the invariant sees of it.  *)
Becomes(r, pc, code, touches, entry, result) ==
    /\ thread' \in [Runs -> Thread]
    /\ \A q \in Runs : q # r => thread'[q] = thread[q]
    /\ thread'[r].pc = pc /\ thread'[r].code = code /\ thread'[r].touches = touches
    /\ thread'[r].entry = entry /\ thread'[r].result = result

Pcs == {"none", "queued", "done"} \union Working \union Recording

LEMMA ConstantsAreApart ==
    /\ Nobody \notin Runs /\ Requests \subseteq Runs
    /\ Evidence \subseteq Keys /\ Incidents \subseteq Keys /\ FailureCodes \subseteq Incidents
    /\ \A e \in Evidence : e \notin Incidents
    /\ "none" \notin Keys /\ "none" \notin FailureCodes
    /\ Work \in Nat /\ Reserve \in Nat /\ Grace \in Nat /\ BusyTimeout \in Nat
    /\ MaxTime \in Nat
BY RunsAssumption, TimesAssumption, EvidenceAssumption DEF Runs, Keys, Incidents, FailureCodes

LEMMA ThreadFields ==
    ASSUME NEW t \in Thread
    PROVE  /\ t.pc \in Pcs /\ t.limit \in Nat /\ t.until \in Nat
           /\ t.code \in FailureCodes \union {"none"} /\ t.touches \in Keys \union {"none"}
           /\ t.entry \in {"none", "first", "again"} /\ t.result \in Outcomes
           /\ t = [pc |-> t.pc, limit |-> t.limit, until |-> t.until, code |-> t.code,
                   touches |-> t.touches, entry |-> t.entry, result |-> t.result]
BY DEF Thread, Pcs

LEMMA GotoBecomes ==
    ASSUME thread \in [Runs -> Thread], NEW r \in Runs, NEW pc \in Pcs, Goto(r, pc)
    PROVE  Becomes(r, pc, thread[r].code, thread[r].touches, thread[r].entry, thread[r].result)
<1>1. thread[r] \in Thread
    OBVIOUS
<1> QED
    BY <1>1 DEF Goto, Becomes, Thread, Pcs

LEMMA EndsBecomes ==
    ASSUME thread \in [Runs -> Thread], NEW r \in Runs, NEW result \in Outcomes,
           Ends(r, result)
    PROVE  Becomes(r, "done", thread[r].code, thread[r].touches, thread[r].entry, result)
<1>1. thread[r] \in Thread
    OBVIOUS
<1> QED
    BY <1>1 DEF Ends, Becomes, Thread, Pcs

LEMMA FailedBecomes ==
    ASSUME TypeOK, NEW r \in Runs, NEW code \in FailureCodes, Failed(r, code),
           code = "TIMEOUT" => r \in Requests
    PROVE  Becomes(r, "connect", code, code, thread[r].entry, thread[r].result)
<1>1. thread[r] \in Thread /\ thread[r].limit \in Nat
    BY DEF TypeOK, Thread
<1> DEFINE limit == IF code = "TIMEOUT" THEN RecordingLimit(r) ELSE thread[r].limit
<1>2. limit \in Nat
  <2>1. now + Reserve \in Nat
      BY ConstantsAreApart DEF TypeOK
  <2>2. r \in Requests => Deadline(r) \in Nat
      BY ConstantsAreApart DEF TypeOK, Deadline
  <2> QED
      BY <1>1, <2>1, <2>2 DEF RecordingLimit
<1> QED
    BY <1>1, <1>2, ConstantsAreApart DEF Failed, Becomes, Thread, Recording, TypeOK

-----------------------------------------------------------------------------
(* Kinds of steps. *)

(* Nothing stored changes.                                                 *)
LEMMA TablesStay ==
    ASSUME Tables, runs' = runs, incidents' = incidents, alerts' = alerts,
           \A q \in Runs : runs[q] # "none" => thread'[q].touches = thread[q].touches
    PROVE  Tables'
<1>1. AlertsAreBacked' /\ OpenedOnce'
    BY DEF Tables, AlertsAreBacked, OpenedOnce
<1>2. AlertsAreThere'
    BY DEF Tables, AlertsAreThere
<1>3. ASSUME NEW k \in Incidents, NEW q \in Runs
      PROVE  runs'[q] # "none" /\ thread'[q].touches = k <=> Names(k, q)'
  <2>1. Names(k, q)' <=> Names(k, q)
      BY DEF Names
  <2>2. runs[q] # "none" /\ thread[q].touches = k <=> Names(k, q)
      BY DEF Tables, IncidentsAreWhole
  <2> QED
      BY <2>1, <2>2
<1> QED
    BY <1>1, <1>2, <1>3 DEF Tables, IncidentsAreWhole

(* r moves for itself: no row and no key of PostgreSQL changes.            *)
LEMMA PrivateStep ==
    ASSUME AnalysisInvariant, NEW r \in Runs, TypeOK', UNCHANGED postgres,
           \A q \in Runs : q # r => /\ thread'[q] = thread[q] /\ handler'[q] = handler[q]
                                    /\ (q \in reports' <=> q \in reports),
           runs[r] # "none" => thread'[r].touches = thread[r].touches,
           Own(r)', Entitled(r)', Held(r)'
    PROVE  AnalysisInvariant'
<1>1. key' = key /\ runs' = runs /\ incidents' = incidents /\ alerts' = alerts
    BY DEF postgres
<1>2. ASSUME NEW q \in Runs PROVE Own(q)' /\ Entitled(q)' /\ Held(q)'
  <2>1. CASE q = r
      BY <2>1
  <2>2. CASE q # r
      BY <1>1, <2>2 DEF AnalysisInvariant, Own, At, Entitled, Held, Stored
  <2> QED
      BY <2>1, <2>2
<1>3. \A q \in Runs : runs[q] # "none" => thread'[q].touches = thread[q].touches
    OBVIOUS
<1>4. Tables'
    BY <1>1, <1>3, TablesStay DEF AnalysisInvariant
<1> QED
    BY <1>2, <1>4 DEF AnalysisInvariant

(* A thread moves outside of its transaction. *)
LEMMA WorkStep ==
    ASSUME AnalysisInvariant, NEW r \in Runs, TypeOK', UNCHANGED <<handler, postgres>>,
           NEW pc \in Pcs \ Open, NEW code, NEW touches, NEW entry, NEW result,
           Becomes(r, pc, code, touches, entry, result),
           thread[r].pc \notin Open \union {"done"},
           \A q \in Runs : q # r => (q \in reports' <=> q \in reports),
           Own(r)'
    PROVE  AnalysisInvariant'
<1>1. runs[r] = "none"
    BY DEF AnalysisInvariant, Own, At
<1>2. Entitled(r)' /\ Held(r)'
    BY DEF AnalysisInvariant, Becomes, Entitled, Held, postgres
<1> QED
    BY <1>1, <1>2, PrivateStep DEF Becomes

(* The transaction of r is rolled back. *)
LEMMA RollbackStep ==
    ASSUME AnalysisInvariant, NEW r \in Runs, TypeOK',
           UNCHANGED <<handler, reports, runs, incidents, alerts>>, key' = Released(r),
           NEW result \in Outcomes \ {"report"},
           Becomes(r, "done", thread[r].code, thread[r].touches, thread[r].entry, result),
           thread[r].pc \in Recording
    PROVE  AnalysisInvariant'
<1>1. ASSUME NEW q \in Runs PROVE Own(q)'
  <2>1. CASE q = r
      BY <2>1 DEF AnalysisInvariant, Own, At, Becomes, Recording, Unsaved
  <2>2. CASE q # r
      BY <2>2 DEF AnalysisInvariant, Own, At, Becomes
  <2> QED
      BY <2>1, <2>2
<1>2. ASSUME NEW q \in Runs, NEW k \in Keys
      PROVE  key'[k] = q <=> key[k] = q /\ q # r
    BY ConstantsAreApart DEF Released
<1>3. ASSUME NEW q \in Runs PROVE Entitled(q)' /\ Held(q)'
  <2>1. CASE q = r
      BY <2>1, <1>2 DEF Becomes, Entitled, Held, Open
  <2>2. CASE q # r
    <3>1. thread'[q] = thread[q] /\ thread[q] \in Thread
        BY <2>2 DEF Becomes, AnalysisInvariant, TypeOK
    <3>2. Held(q)'
        BY <2>2, <3>1, <1>2 DEF AnalysisInvariant, Held
    <3>3. thread[q].touches \in Keys \union {"none"}
        BY <3>1, ThreadFields
    <3>4. Entitled(q)'
        BY <2>2, <3>1, <3>3, <1>2 DEF AnalysisInvariant, Entitled, Stored
    <3> QED
        BY <3>2, <3>4
  <2> QED
      BY <2>1, <2>2
<1>4. \A q \in Runs : thread'[q].touches = thread[q].touches
    BY DEF Becomes
<1>5. Tables'
    BY <1>4, TablesStay DEF AnalysisInvariant
<1> QED
    BY <1>1, <1>3, <1>5 DEF AnalysisInvariant

(* The first writer of a row takes its key, the next ones find it stored.  *)
LEMMA WriteStep ==
    ASSUME AnalysisInvariant, NEW r \in Runs, Write(r), NEW k, k = thread[r].touches
    PROVE  AnalysisInvariant'
<1>1. thread[r] \in Thread /\ thread \in [Runs -> Thread] /\ key \in [Keys -> Runs \union {Nobody}]
    BY DEF AnalysisInvariant, TypeOK
<1>2. k \in Keys \union {"none"} /\ (k # "none" => k \in Keys)
    BY <1>1, ThreadFields
<1>3. Entry(k) \in {"none", "first", "again"}
    BY DEF Entry
<1>4. Becomes(r, "check", thread[r].code, k, Entry(k), thread[r].result)
    BY <1>1, <1>3 DEF Write, Becomes, Thread, Recording
<1>5. key' \in [Keys -> Runs \union {Nobody}]
    BY <1>1 DEF Write
<1>6. TypeOK'
    BY <1>4, <1>5 DEF Write, AnalysisInvariant, TypeOK, Becomes, local
<1>7. ASSUME NEW q \in Runs PROVE Own(q)'
  <2>1. CASE q = r
      BY <2>1, <1>4 DEF Write, AnalysisInvariant, Own, At, Becomes, Recording, Unsaved, local
  <2>2. CASE q # r
      BY <2>2, <1>4 DEF Write, AnalysisInvariant, Own, At, Becomes, local
  <2> QED
      BY <2>1, <2>2
<1>8. ASSUME NEW j \in Keys
      PROVE  key'[j] = IF Entry(k) = "first" /\ j = k THEN r ELSE key[j]
    BY <1>1, <1>2, ConstantsAreApart DEF Write, Entry
<1>9. ASSUME NEW q \in Runs PROVE Held(q)'
  <2>1. CASE q = r
    <3>1. \A j \in Keys : key[j] # r
        BY DEF AnalysisInvariant, Held, Write, At, Open
    <3> QED
        BY <2>1, <3>1, <1>4, <1>8 DEF Held, Becomes, Open
  <2>2. CASE q # r
      BY <2>2, <1>4, <1>8 DEF AnalysisInvariant, Held, Becomes
  <2> QED
      BY <2>1, <2>2
<1>10. ASSUME NEW q \in Runs PROVE Entitled(q)'
  <2>1. CASE q = r
    <3>1. thread'[r].touches = k /\ thread'[r].entry = Entry(k)
        BY <1>4 DEF Becomes
    <3>2. CASE k = "none"
        BY <2>1, <3>1, <3>2 DEF Entitled
    <3>3. CASE k # "none"
      <4>1. Stored(k)' <=> Stored(k)
          BY DEF Stored, Write
      <4>2. key'[k] = IF Entry(k) = "first" THEN r ELSE key[k]
          BY <3>3, <1>2, <1>8
      <4> QED
          BY <2>1, <3>1, <3>3, <4>1, <4>2 DEF Entitled, Entry
    <3> QED
        BY <3>2, <3>3
  <2>2. CASE q # r
    <3>1. thread'[q] = thread[q] /\ thread[q].touches \in Keys \union {"none"}
        BY <2>2, <1>1, <1>4, ThreadFields DEF Becomes
    <3>2. ASSUME NEW j \in Keys PROVE Stored(j)' <=> Stored(j)
        BY DEF Stored, Write
    <3>3. ASSUME NEW j \in Keys, key[j] = q PROVE key'[j] = q
        BY <3>3, <2>2, <1>8, <1>2, ConstantsAreApart DEF Write, Entry
    <3> QED
        BY <3>1, <3>2, <3>3 DEF AnalysisInvariant, Entitled
  <2> QED
      BY <2>1, <2>2
<1>11. Tables'
    BY <1>4, TablesStay DEF AnalysisInvariant, Write, Becomes
<1> QED
    BY <1>6, <1>7, <1>9, <1>10, <1>11 DEF AnalysisInvariant

(* The rows of r are committed: it was the first, and held the key, or the *)
(* row was stored already.                                                 *)
LEMMA ApplyStep ==
    ASSUME AnalysisInvariant, NEW r \in Runs, Apply(r), At(r, "commit"),
           NEW k, k = thread[r].touches,
           NEW kind, kind = IF thread[r].entry = "first" THEN "opened" ELSE "commented",
           UNCHANGED <<now, handler, start, local>>,
           NEW result \in Outcomes, result = "report" => thread[r].code = "none",
           Becomes(r, "done", thread[r].code, thread[r].touches, thread[r].entry, result)
    PROVE  AnalysisInvariant'
<1> DEFINE outcome == IF thread[r].code = "none" THEN "completed" ELSE "failed"
<1>1. /\ thread[r] \in Thread /\ k \in Keys \union {"none"}
      /\ thread \in [Runs -> Thread] /\ key \in [Keys -> Runs \union {Nobody}]
      /\ runs \in [Runs -> {"none", "completed", "failed"}]
      /\ incidents \in [Incidents -> SUBSET ({"opened", "commented"} \X Runs)]
      /\ alerts \in [Evidence -> Runs \union {Nobody}]
    BY ThreadFields DEF AnalysisInvariant, TypeOK
<1>2. runs[r] = "none" /\ (thread[r].code = "none" <=> r \in reports)
    BY DEF AnalysisInvariant, Own, At, Recording
<1>3. k # "none" => /\ thread[r].entry = "first" => key[k] = r /\ ~Stored(k)
                    /\ thread[r].entry # "first" => Stored(k)
    BY DEF AnalysisInvariant, Entitled, At, Open
<1>4. runs' = [runs EXCEPT ![r] = outcome]
    BY DEF Apply
<1>5. \A i \in Incidents : incidents'[i] =
            IF i = k THEN incidents[i] \union {<<kind, r>>} ELSE incidents[i]
    BY <1>1 DEF Apply
<1>6. \A e \in Evidence : alerts'[e] =
            IF e = k /\ thread[r].entry = "first" THEN r ELSE alerts[e]
    BY <1>1 DEF Apply
<1>7. \A q \in Runs, j \in Keys : key'[j] = q <=> key[j] = q /\ q # r
    BY ConstantsAreApart DEF Apply, Released
<1>8. TypeOK'
  <2>1. runs' \in [Runs -> {"none", "completed", "failed"}]
      BY <1>1, <1>4
  <2>2. incidents' \in [Incidents -> SUBSET ({"opened", "commented"} \X Runs)]
    <3>1. <<kind, r>> \in {"opened", "commented"} \X Runs
        OBVIOUS
    <3> QED
        BY <1>1, <3>1 DEF Apply
  <2>3. alerts' \in [Evidence -> Runs \union {Nobody}]
      BY <1>1 DEF Apply
  <2>4. key' \in [Keys -> Runs \union {Nobody}]
      BY <1>1 DEF Apply, Released
  <2> QED
      BY <2>1, <2>2, <2>3, <2>4 DEF AnalysisInvariant, TypeOK, Becomes, local
<1>9. ASSUME NEW q \in Runs PROVE Own(q)'
  <2>1. CASE q = r
      BY <2>1, <1>1, <1>2, <1>4
         DEF AnalysisInvariant, Own, At, Becomes, Recording, Unsaved, local
  <2>2. CASE q # r
      BY <2>2, <1>1, <1>4 DEF AnalysisInvariant, Own, At, Becomes, local
  <2> QED
      BY <2>1, <2>2
<1>10. ASSUME NEW q \in Runs PROVE Held(q)'
    BY <1>7 DEF AnalysisInvariant, Held, Becomes
<1>11. ASSUME NEW q \in Runs PROVE Entitled(q)'
  <2>1. CASE q = r
      BY <2>1 DEF Entitled, Becomes, Open
  <2>2. CASE q # r
    <3>1. thread'[q] = thread[q] /\ thread[q].touches \in Keys \union {"none"}
        BY <2>2, <1>1, ThreadFields DEF Becomes
    <3>2. ASSUME NEW j \in Keys, Stored(j) PROVE Stored(j)'
      <4>1. CASE j \in Incidents
          BY <3>2, <4>1, <1>5 DEF Stored
      <4>2. CASE j \notin Incidents
          BY <3>2, <4>2, <1>6, ConstantsAreApart DEF Stored, Keys
      <4> QED
          BY <4>1, <4>2
    <3>3. ASSUME NEW j \in Keys, ~Stored(j), key[j] = q PROVE ~Stored(j)'
      <4>1. j # k
          BY <3>3, <2>2, <1>3, ConstantsAreApart
      <4>2. CASE j \in Incidents
          BY <3>3, <4>1, <4>2, <1>5 DEF Stored
      <4>3. CASE j \notin Incidents
          BY <3>3, <4>1, <4>3, <1>6, ConstantsAreApart DEF Stored, Keys
      <4> QED
          BY <4>2, <4>3
    <3> QED
        BY <2>2, <3>1, <3>2, <3>3, <1>7 DEF AnalysisInvariant, Entitled
  <2> QED
      BY <2>1, <2>2
<1>12. AlertsAreBacked'
  <2> SUFFICES ASSUME NEW e \in Evidence, alerts'[e] # Nobody
               PROVE  runs'[alerts'[e]] = "completed"
      BY DEF AlertsAreBacked
  <2>1. CASE e = k /\ thread[r].entry = "first"
    <3>1. thread[r].code = "none"
        BY <2>1, ConstantsAreApart, <1>1, ThreadFields DEF AnalysisInvariant, Own
    <3> QED
        BY <2>1, <3>1, <1>1, <1>4, <1>6
  <2>2. CASE ~(e = k /\ thread[r].entry = "first")
    <3>1. alerts'[e] = alerts[e] /\ alerts[e] \in Runs
        BY <2>2, <1>1, <1>6
    <3>2. runs[alerts[e]] = "completed"
        BY <3>1 DEF AnalysisInvariant, Tables, AlertsAreBacked
    <3> QED
        BY <3>1, <3>2, <1>1, <1>2, <1>4
  <2> QED
      BY <2>1, <2>2
<1>13. AlertsAreThere'
  <2> SUFFICES ASSUME NEW q \in Runs, NEW e \in Evidence,
                      runs'[q] # "none", thread'[q].touches = e
               PROVE  alerts'[e] # Nobody
      BY DEF AlertsAreThere
  <2>1. CASE q = r
    <3>1. k = e /\ k # "none" /\ k \notin Incidents
        BY <2>1, ConstantsAreApart DEF Becomes
    <3> QED
        BY <3>1, <1>3, <1>6, ConstantsAreApart DEF Stored
  <2>2. CASE q # r
    <3>1. runs[q] # "none" /\ thread[q].touches = e
        BY <2>2, <1>1, <1>4 DEF Becomes
    <3> QED
        BY <3>1, <1>6, ConstantsAreApart DEF AnalysisInvariant, Tables, AlertsAreThere
  <2> QED
      BY <2>1, <2>2
<1>14. IncidentsAreWhole'
  <2> SUFFICES ASSUME NEW i \in Incidents, NEW q \in Runs
               PROVE  runs'[q] # "none" /\ thread'[q].touches = i <=> Names(i, q)'
      BY DEF IncidentsAreWhole
  <2>1. runs[q] # "none" /\ thread[q].touches = i <=> Names(i, q)
      BY DEF AnalysisInvariant, Tables, IncidentsAreWhole
  <2>2. thread'[q].touches = thread[q].touches
      BY DEF Becomes
  <2>3. CASE q = r
    <3>1. runs'[q] # "none" /\ <<kind, r>>[2] = r
        BY <2>3, <1>1, <1>4
    <3>2. CASE i = k
        BY <2>2, <2>3, <3>1, <3>2, <1>5 DEF Names
    <3>3. CASE i # k
        BY <2>1, <2>2, <2>3, <3>1, <3>3, <1>2, <1>5 DEF Names
    <3> QED
        BY <3>2, <3>3
  <2>4. CASE q # r
    <3>1. runs'[q] = runs[q]
        BY <2>4, <1>1, <1>4
    <3>2. Names(i, q)' <=> Names(i, q)
      <4>1. CASE i = k
        <5>1. incidents'[i] = incidents[i] \union {<<kind, r>>} /\ <<kind, r>>[2] # q
            BY <2>4, <4>1, <1>5
        <5> QED
            BY <5>1 DEF Names
      <4>2. CASE i # k
          BY <4>2, <1>5 DEF Names
      <4> QED
          BY <4>1, <4>2
    <3> QED
        BY <2>1, <2>2, <3>1, <3>2
  <2> QED
      BY <2>3, <2>4
<1>15. OpenedOnce'
  <2> SUFFICES ASSUME NEW i \in Incidents, incidents'[i] # {}
               PROVE  \E q \in Runs : /\ <<"opened", q>> \in incidents'[i]
                                      /\ \A p \in Runs : <<"opened", p>> \in incidents'[i] => p = q
      BY DEF OpenedOnce
  <2>1. CASE i = k /\ thread[r].entry = "first"
    <3>1. incidents[i] = {}
        BY <2>1, <1>3, ConstantsAreApart DEF Stored
    <3>2. incidents'[i] = {<<"opened", r>>}
        BY <2>1, <3>1, <1>5
    <3> QED
        BY <3>2
  <2>2. CASE ~(i = k /\ thread[r].entry = "first")
    <3>1. incidents[i] # {}
        BY <2>2, <1>3, <1>5, ConstantsAreApart DEF Stored
    <3>2. PICK q \in Runs : /\ <<"opened", q>> \in incidents[i]
                            /\ \A p \in Runs : <<"opened", p>> \in incidents[i] => p = q
        BY <3>1 DEF AnalysisInvariant, Tables, OpenedOnce
    <3>3. \A p \in Runs : <<"opened", p>> \in incidents'[i] <=> <<"opened", p>> \in incidents[i]
      <4>1. CASE i = k
        <5>1. kind = "commented"
            BY <2>2, <4>1
        <5>2. \A p : <<"opened", p>> # <<kind, r>>
            BY <5>1
        <5> QED
            BY <4>1, <5>2, <1>5
      <4>2. CASE i # k
          BY <4>2, <1>5
      <4> QED
          BY <4>1, <4>2
    <3> QED
        BY <3>2, <3>3
  <2> QED
      BY <2>1, <2>2
<1> QED
    BY <1>8, <1>9, <1>10, <1>11, <1>12, <1>13, <1>14, <1>15 DEF AnalysisInvariant, Tables

(* A process dies with its runs: what was not committed is gone.           *)
LEMMA DiesStep ==
    ASSUME AnalysisInvariant, NEW dead \in SUBSET Running, Dies(dead)
    PROVE  AnalysisInvariant'
<1>1. /\ thread \in [Runs -> Thread] /\ key \in [Keys -> Runs \union {Nobody}]
      /\ dead \subseteq Runs
    BY DEF AnalysisInvariant, TypeOK, Running
<1>2. ASSUME NEW q \in Runs
      PROVE  /\ q \notin dead => thread'[q] = thread[q] /\ handler'[q] = handler[q]
             /\ q \in dead => thread'[q].pc = "done"
             /\ thread'[q].code = thread[q].code /\ thread'[q].touches = thread[q].touches
             /\ thread'[q].result = thread[q].result
             /\ thread'[q] \in Thread
             /\ handler'[q] \in {handler[q], "lost"}
             /\ handler'[q] # "narrating" \/ q \notin dead
  <2>1. thread[q] \in Thread
      BY <1>1
  <2>2. thread'[q] = IF q \in dead THEN [thread[q] EXCEPT !.pc = "done"] ELSE thread[q]
      BY DEF Dies
  <2>3. handler'[q] = IF q \in dead /\ handler[q] \in Unheard THEN "lost" ELSE handler[q]
      BY DEF Dies
  <2> QED
      BY <2>1, <2>2, <2>3 DEF Thread, Unheard
<1>3. \A q \in Runs, k \in Keys : key'[k] = q <=> key[k] = q /\ q \notin dead
    BY <1>1, ConstantsAreApart DEF Dies
<1>4. TypeOK'
  <2>1. thread' \in [Runs -> Thread]
      BY <1>2 DEF Dies
  <2>2. key' \in [Keys -> Runs \union {Nobody}]
      BY <1>1 DEF Dies
  <2>3. handler' \in [Runs -> {"new", "waiting", "narrating", "lost"} \union Answers]
      BY DEF Dies, AnalysisInvariant, TypeOK
  <2> QED
      BY <2>1, <2>2, <2>3 DEF Dies, AnalysisInvariant, TypeOK
<1>5. ASSUME NEW q \in Runs PROVE Own(q)'
  <2>1. CASE q \in dead
    <3>1. handler[q] # "new"
        BY <2>1 DEF AnalysisInvariant, Own, At, Running, Unheard
    <3>2. runs' = runs /\ reports' = reports
        BY DEF Dies
    <3>3. handler'[q] # "new" /\ (handler'[q] \in {"200", "narrating"} => handler[q] = "200")
        BY <2>1, <3>1, <1>2
    <3>4. Own(q)
        BY DEF AnalysisInvariant
    <3> QED
        BY <2>1, <3>2, <3>3, <3>4, <1>2 DEF Own, At, Unsaved, Recording
  <2>2. CASE q \notin dead
      BY <2>2, <1>2 DEF Dies, AnalysisInvariant, Own, At
  <2> QED
      BY <2>1, <2>2
<1>6. ASSUME NEW q \in Runs PROVE Entitled(q)' /\ Held(q)'
  <2>1. CASE q \in dead
      BY <2>1, <1>2, <1>3 DEF Entitled, Held, Open
  <2>2. CASE q \notin dead
    <3>1. thread[q].touches \in Keys \union {"none"}
        BY <1>1, ThreadFields
    <3>2. Held(q)'
        BY <2>2, <1>2, <1>3 DEF AnalysisInvariant, Held
    <3>3. \A k \in Keys : Stored(k)' <=> Stored(k)
        BY DEF Dies, Stored
    <3>4. Entitled(q)'
        BY <2>2, <3>1, <3>3, <1>2, <1>3 DEF AnalysisInvariant, Entitled
    <3> QED
        BY <3>2, <3>4
  <2> QED
      BY <2>1, <2>2
<1>7. Tables'
    BY <1>2, TablesStay DEF AnalysisInvariant, Dies
<1> QED
    BY <1>4, <1>5, <1>6, <1>7 DEF AnalysisInvariant

(* The thread of r goes on with its work, before anything is stored.       *)
LEMMA GoOnStep ==
    ASSUME AnalysisInvariant, NEW r \in Runs, NEW pc \in Unsaved \ {"none"}, Goto(r, pc),
           thread[r].pc \in Unsaved \ {"none"}, sqlite' \in Runs \union {Nobody},
           UNCHANGED <<now, handler, start, reports, postgres>>
    PROVE  AnalysisInvariant'
<1>1. pc \in Pcs \ Open /\ thread[r].pc \notin Open \union {"done"}
    BY DEF Pcs, Open, Unsaved, Working
<1>2. Becomes(r, pc, thread[r].code, thread[r].touches, thread[r].entry, thread[r].result)
    BY <1>1, GotoBecomes DEF AnalysisInvariant, TypeOK
<1>3. TypeOK'
    BY <1>2 DEF AnalysisInvariant, TypeOK, Becomes, postgres
<1>4. Own(r)'
    BY <1>1, <1>2 DEF AnalysisInvariant, Own, At, Becomes, postgres, Unsaved, Recording
<1> QED
    BY <1>1, <1>2, <1>3, <1>4, WorkStep

(* A failure is going to be recorded: nothing has been stored.             *)
LEMMA FailStep ==
    ASSUME AnalysisInvariant, NEW r \in Runs, NEW code \in FailureCodes, Failed(r, code),
           code = "TIMEOUT" => r \in Requests,
           thread[r].pc \in Unsaved \ {"none"}, sqlite' \in Runs \union {Nobody},
           UNCHANGED <<now, handler, start, reports, postgres>>
    PROVE  AnalysisInvariant'
<1>1. "connect" \in Pcs \ Open /\ thread[r].pc \notin Open \union {"done"}
    BY DEF Pcs, Open, Unsaved, Recording
<1>2. Becomes(r, "connect", code, code, thread[r].entry, thread[r].result)
    BY FailedBecomes DEF AnalysisInvariant
<1>3. TypeOK'
    BY <1>2 DEF AnalysisInvariant, TypeOK, Becomes, postgres
<1>4. Own(r)'
    BY <1>1, <1>2, ConstantsAreApart
       DEF AnalysisInvariant, Own, At, Becomes, postgres, Unsaved, Recording
<1> QED
    BY <1>1, <1>2, <1>3, <1>4, WorkStep

(* The thread ends without a report for its caller. *)
LEMMA EndStep ==
    ASSUME AnalysisInvariant, NEW r \in Runs, NEW result \in Outcomes \ {"report"},
           Ends(r, result), thread[r].pc \notin Open \union {"done", "none"},
           UNCHANGED <<now, handler, start, local, postgres>>
    PROVE  AnalysisInvariant'
<1>1. "done" \in Pcs \ Open
    BY DEF Pcs, Open
<1>2. Becomes(r, "done", thread[r].code, thread[r].touches, thread[r].entry, result)
    BY EndsBecomes DEF AnalysisInvariant, TypeOK
<1>3. TypeOK'
    BY <1>2 DEF AnalysisInvariant, TypeOK, Becomes, local, postgres
<1>4. Own(r)'
    BY <1>2 DEF AnalysisInvariant, Own, At, Becomes, local, postgres, Unsaved, Recording
<1> QED
    BY <1>1, <1>2, <1>3, <1>4, WorkStep DEF local

-----------------------------------------------------------------------------
(* The actions. *)

(* The thread starts, and works until it saves. *)
LEMMA WorkingSteps ==
    ASSUME AnalysisInvariant, NEW r \in Runs,
           Take(r) \/ Build(r) \/ GetLock(r) \/ NoLock(r) \/ InsertReport(r)
    PROVE  AnalysisInvariant'
<1>1. CASE Take(r)
  <2>1. CASE Expired(r)
      BY <1>1, <2>1, EndStep DEF Take, At, Open, Outcomes
  <2>2. CASE ~Expired(r)
      BY <1>1, <2>2, GoOnStep DEF Take, At, Unsaved, AnalysisInvariant, TypeOK, local
  <2> QED
      BY <2>1, <2>2
<1>2. CASE Build(r)
  <2>1. CASE Goto(r, "fetch")
      BY <1>2, <2>1, GoOnStep DEF Build, At, Unsaved, AnalysisInvariant, TypeOK, local
  <2>2. CASE \E result \in {"timeout", "rejected", "unavailable"} : Ends(r, result)
      BY <1>2, <2>2, EndStep DEF Build, At, Open, Outcomes
  <2> QED
      BY <1>2, <2>1, <2>2 DEF Build
<1>3. CASE GetLock(r)
    BY <1>3, GoOnStep DEF GetLock, At, Unsaved
<1>4. CASE NoLock(r)
  <2>1. PICK code \in FailureCodes : Failed(r, code) /\ (code = "TIMEOUT" => r \in Requests)
      BY <1>4 DEF NoLock, FailureCodes, Expired
  <2> QED
      BY <1>4, <2>1, FailStep DEF NoLock, At, Unsaved, AnalysisInvariant, TypeOK, local
<1>5. CASE InsertReport(r)
  <2>1. CASE \E code \in FailureCodes : (code = "TIMEOUT" => Expired(r)) /\ Failed(r, code)
    <3>1. PICK code \in FailureCodes : Failed(r, code) /\ (code = "TIMEOUT" => r \in Requests)
        BY <2>1 DEF Expired
    <3>2. sqlite' \in Runs \union {Nobody}
        BY <1>5 DEF InsertReport, AnalysisInvariant, TypeOK
    <3> QED
        BY <1>5, <3>1, <3>2, FailStep DEF InsertReport, At, Unsaved
  <2>2. CASE Goto(r, "save") /\ UNCHANGED sqlite
      BY <1>5, <2>2, GoOnStep DEF InsertReport, At, Unsaved, AnalysisInvariant, TypeOK
  <2> QED
      BY <1>5, <2>1, <2>2 DEF InsertReport
<1> QED
    BY <1>1, <1>2, <1>3, <1>4, <1>5

(* What the analysis finds is worth a row that it may share. *)
LEMMA AnalyzeStep ==
    ASSUME AnalysisInvariant, NEW r \in Runs, Analyze(r)
    PROVE  AnalysisInvariant'
<1>1. At(r, "fetch") /\ UNCHANGED <<now, handler, start, local, postgres>>
    BY DEF Analyze
<1>2. CASE \E code \in FailureCodes : Failed(r, code) /\ (code = "TIMEOUT" => r \in Requests)
    BY <1>1, <1>2, FailStep DEF At, Unsaved, AnalysisInvariant, TypeOK, local
<1>3. ASSUME NEW touched \in {"none", "T4"} \union Evidence,
             thread' = [thread EXCEPT ![r].pc = "lock", ![r].touches = touched,
                           ![r].until = now + BusyTimeout]
      PROVE  AnalysisInvariant'
  <2>1. thread[r] \in Thread /\ now + BusyTimeout \in Nat /\ touched \in Keys \union {"none"}
      BY ConstantsAreApart DEF AnalysisInvariant, TypeOK, Keys, Incidents
  <2>2. Becomes(r, "lock", thread[r].code, touched, thread[r].entry, thread[r].result)
      BY <1>3, <2>1 DEF Becomes, Thread, Working, AnalysisInvariant, TypeOK
  <2>3. "lock" \in Pcs \ Open /\ thread[r].pc \notin Open \union {"done"}
      BY <1>1 DEF Pcs, Open, Working, At
  <2>4. TypeOK'
      BY <1>1, <2>2 DEF AnalysisInvariant, TypeOK, Becomes, local, postgres
  <2>5. Own(r)'
      BY <1>1, <2>2 DEF AnalysisInvariant, Own, At, Becomes, local, postgres, Unsaved, Recording
  <2> QED
      BY <1>1, <2>2, <2>3, <2>4, <2>5, WorkStep DEF local
<1>4. \/ \E code \in FailureCodes : Failed(r, code) /\ (code = "TIMEOUT" => r \in Requests)
      \/ \E touched \in {"none", "T4"} \union Evidence :
            thread' = [thread EXCEPT ![r].pc = "lock", ![r].touches = touched,
                          ![r].until = now + BusyTimeout]
  <2>1. CASE Failed(r, "FAILED")
      BY <2>1 DEF FailureCodes
  <2>2. CASE Failed(r, "UNEXPECTED")
      BY <2>2 DEF FailureCodes
  <2>3. CASE Failed(r, "TIMEOUT") /\ Expired(r)
      BY <2>3 DEF FailureCodes, Expired
  <2> QED
      BY <2>1, <2>2, <2>3 DEF Analyze
<1> QED
    BY <1>2, <1>3, <1>4

(* The report is in SQLite from here on. *)
LEMMA SaveStep ==
    ASSUME AnalysisInvariant, NEW r \in Runs, SaveReport(r)
    PROVE  AnalysisInvariant'
<1>1. /\ At(r, "save") /\ sqlite' = Nobody /\ UNCHANGED <<now, handler, start, postgres>>
    BY DEF SaveReport
<1>2. CASE Failed(r, "FAILED") /\ UNCHANGED reports
    BY <1>1, <1>2, FailStep DEF At, Unsaved, FailureCodes
<1>3. CASE reports' = reports \union {r} /\ Goto(r, "saved")
  <2>1. "saved" \in Pcs \ Open /\ thread[r].pc \notin Open \union {"done"}
      BY <1>1 DEF Pcs, Open, Working, At
  <2>2. Becomes(r, "saved", thread[r].code, thread[r].touches, thread[r].entry, thread[r].result)
      BY <1>3, <2>1, GotoBecomes DEF AnalysisInvariant, TypeOK
  <2>3. TypeOK'
      BY <1>1, <1>3, <2>2 DEF AnalysisInvariant, TypeOK, Becomes, postgres
  <2>4. Own(r)'
      BY <1>1, <1>3, <2>2 DEF AnalysisInvariant, Own, At, Becomes, postgres, Unsaved, Recording
  <2> QED
      BY <1>1, <1>3, <2>1, <2>2, <2>3, <2>4, WorkStep
<1> QED
    BY <1>2, <1>3 DEF SaveReport

(* From the report to the transaction. *)
LEMMA AnalyzedStep ==
    ASSUME AnalysisInvariant, NEW r \in Runs, Analyzed(r) \/ Connect(r)
    PROVE  AnalysisInvariant'
<1>1. UNCHANGED <<now, handler, start, local, postgres>>
    BY DEF Analyzed, Connect
<1>2. CASE \E result \in {"timeout", "unavailable"} : Ends(r, result)
  <2>1. thread[r].pc \notin Open \union {"done", "none"}
      BY DEF Analyzed, Connect, At, Open
  <2> QED
      BY <1>1, <1>2, <2>1, EndStep DEF Outcomes
<1>3. ASSUME NEW pc \in {"connect", "write"}, Goto(r, pc) PROVE AnalysisInvariant'
  <2>1. pc \in Pcs \ Open /\ thread[r].pc \notin Open \union {"done"}
      BY DEF Pcs, Open, Recording, At, Analyzed, Connect
  <2>2. Becomes(r, pc, thread[r].code, thread[r].touches, thread[r].entry, thread[r].result)
      BY <1>3, <2>1, GotoBecomes DEF AnalysisInvariant, TypeOK
  <2>3. TypeOK'
      BY <1>1, <2>2 DEF AnalysisInvariant, TypeOK, Becomes, local, postgres
  <2>4. thread[r].code = "none" <=> r \in reports
      BY DEF AnalysisInvariant, Own, At, Analyzed, Connect, Recording
  <2>5. Own(r)'
      BY <1>1, <2>1, <2>2, <2>4
         DEF AnalysisInvariant, Own, At, Becomes, local, postgres, Unsaved, Recording
  <2> QED
      BY <1>1, <2>1, <2>2, <2>3, <2>5, WorkStep DEF local
<1> QED
    BY <1>2, <1>3 DEF Analyzed, Connect, Unrecorded

(* An error in the transaction. *)
LEMMA RolledBack ==
    ASSUME AnalysisInvariant, NEW r \in Runs, Rollback(r), thread[r].pc \in Recording,
           UNCHANGED <<now, handler, start, local>>
    PROVE  AnalysisInvariant'
<1>1. PICK result \in Outcomes \ {"report"} : Ends(r, result)
    BY DEF Rollback, Unrecorded, Outcomes
<1>2. Becomes(r, "done", thread[r].code, thread[r].touches, thread[r].entry, result)
    BY <1>1, EndsBecomes DEF AnalysisInvariant, TypeOK
<1>3. key' \in [Keys -> Runs \union {Nobody}]
    BY DEF Rollback, Released, AnalysisInvariant, TypeOK
<1>4. TypeOK'
    BY <1>2, <1>3 DEF Rollback, AnalysisInvariant, TypeOK, Becomes, local
<1> QED
    BY <1>2, <1>4, RollbackStep DEF Rollback, local

(* An outcome that is stored. *)
LEMMA Applied ==
    ASSUME AnalysisInvariant, NEW r \in Runs, Apply(r), At(r, "commit"),
           Unrecorded(r) \/ Recorded(r), UNCHANGED <<now, handler, start, local>>
    PROVE  AnalysisInvariant'
<1>1. PICK result \in Outcomes : Ends(r, result) /\ (result = "report" => thread[r].code = "none")
  <2>1. CASE Unrecorded(r)
      BY <2>1 DEF Unrecorded, Outcomes
  <2>2. CASE Recorded(r) /\ thread[r].code = "none"
      BY <2>2 DEF Recorded, Outcomes
  <2>3. CASE Recorded(r) /\ thread[r].code # "none"
    <3>1. Raised(thread[r].code) \in {"timeout", "rejected", "error"}
        BY DEF Raised
    <3> QED
        BY <2>3, <3>1 DEF Recorded, Outcomes
  <2> QED
      BY <2>1, <2>2, <2>3
<1>2. Becomes(r, "done", thread[r].code, thread[r].touches, thread[r].entry, result)
    BY <1>1, EndsBecomes DEF AnalysisInvariant, TypeOK
<1> QED
    BY <1>1, <1>2, ApplyStep

(* The transaction after its writes. *)
LEMMA TransactionSteps ==
    ASSUME AnalysisInvariant, NEW r \in Runs,
           StatementFails(r) \/ Check(r) \/ SendCommit(r) \/ Commit(r) \/ Cancel(r)
    PROVE  AnalysisInvariant'
<1>1. CASE StatementFails(r)
    BY <1>1, RolledBack DEF StatementFails, Recording
<1>2. CASE Commit(r)
    BY <1>2, Applied DEF Commit
<1>3. CASE Cancel(r)
  <2>1. CASE Rollback(r)
      BY <1>3, <2>1, RolledBack DEF Cancel, At, Recording
  <2>2. CASE Apply(r) /\ Unrecorded(r)
      BY <1>3, <2>2, Applied DEF Cancel
  <2> QED
      BY <1>3, <2>1, <2>2 DEF Cancel
<1>4. CASE Check(r) /\ Rollback(r)
    BY <1>4, RolledBack DEF Check, At, Recording
<1>5. ASSUME NEW pc \in {"send", "commit"}, Goto(r, pc), thread[r].pc \in {"check", "send"},
             UNCHANGED <<now, handler, start, local, postgres>>
      PROVE  AnalysisInvariant'
  <2>1. Becomes(r, pc, thread[r].code, thread[r].touches, thread[r].entry, thread[r].result)
      BY <1>5, GotoBecomes DEF AnalysisInvariant, TypeOK, Pcs, Recording
  <2>2. TypeOK'
      BY <1>5, <2>1 DEF AnalysisInvariant, TypeOK, Becomes, local, postgres
  <2>3. Own(r)'
      BY <1>5, <2>1 DEF AnalysisInvariant, Own, At, Becomes, local, postgres, Unsaved, Recording
  <2>4. Entitled(r)'
      BY <1>5, <2>1 DEF AnalysisInvariant, Entitled, Stored, Open, Becomes, postgres
  <2>5. Held(r)'
      BY <1>5, <2>1 DEF AnalysisInvariant, Held, Open, Becomes, postgres
  <2> QED
      BY <1>5, <2>1, <2>2, <2>3, <2>4, <2>5, PrivateStep DEF Becomes, local
<1>6. CASE Check(r) /\ ~Expired(r)
    BY <1>6, <1>5 DEF Check, At
<1>7. CASE SendCommit(r)
    BY <1>7, <1>5 DEF SendCommit, At
<1> QED
    BY <1>1, <1>2, <1>3, <1>4, <1>6, <1>7 DEF Check

(* A run begins: it has left no trace so far. *)
LEMMA BeginStep ==
    ASSUME AnalysisInvariant, NEW r \in Runs, Begin(r)
    PROVE  AnalysisInvariant'
<1>1. /\ At(r, "none") /\ thread[r] \in Thread
      /\ handler' = [handler EXCEPT ![r] = "waiting"]
      /\ UNCHANGED <<now, local, postgres>>
    BY DEF Begin, AnalysisInvariant, Own, TypeOK
<1>2. "queued" \in Pcs
    BY DEF Pcs
<1>3. start' \in [Requests -> Nat] /\
      Becomes(r, "queued", thread[r].code, thread[r].touches, thread[r].entry, thread[r].result)
  <2>1. CASE r \in Requests
    <3>1. now + Work \in Nat /\ now \in Nat
        BY ConstantsAreApart DEF AnalysisInvariant, TypeOK
    <3> QED
        BY <1>1, <2>1, <3>1 DEF Begin, Becomes, Thread, AnalysisInvariant, TypeOK
  <2>2. CASE r \notin Requests
      BY <1>2, <2>2, GotoBecomes DEF Begin, AnalysisInvariant, TypeOK
  <2> QED
      BY <2>1, <2>2
<1>4. TypeOK'
    BY <1>1, <1>3 DEF AnalysisInvariant, TypeOK, Becomes, local, postgres
<1>5. Own(r)'
    BY <1>1, <1>3 DEF AnalysisInvariant, Own, At, Becomes, local, postgres, Unsaved, Recording,
                      TypeOK
<1>6. Entitled(r)' /\ Held(r)'
    BY <1>1, <1>3 DEF AnalysisInvariant, Entitled, Held, At, Open, Becomes, postgres
<1>7. \A q \in Runs : q # r => handler'[q] = handler[q] /\ thread'[q] = thread[q]
    BY <1>1, <1>3 DEF Becomes, AnalysisInvariant, TypeOK
<1> QED
    BY <1>1, <1>3, <1>4, <1>5, <1>6, <1>7, PrivateStep DEF Becomes, local

(* Somebody is answered, and only a report is called a success. *)
LEMMA AnswerStep ==
    ASSUME AnalysisInvariant, NEW r \in Runs,
           NEW status \in {"narrating"} \union Answers,
           handler' = [handler EXCEPT ![r] = status], handler[r] # "new",
           status \in {"200", "narrating"} => thread[r].result = "report",
           UNCHANGED <<now, start, thread, local, postgres>>
    PROVE  AnalysisInvariant'
<1>1. handler'[r] = status /\ \A q \in Runs : q # r => handler'[q] = handler[q]
    BY DEF AnalysisInvariant, TypeOK
<1>2. handler' \in [Runs -> {"new", "waiting", "narrating", "lost"} \union Answers]
    BY DEF AnalysisInvariant, TypeOK
<1>3. TypeOK'
    BY <1>2 DEF AnalysisInvariant, TypeOK, local, postgres
<1>4. status # "new"
    BY DEF Answers
<1>5. Own(r)'
    BY <1>1, <1>4 DEF AnalysisInvariant, Own, At, local, postgres
<1>6. Entitled(r)' /\ Held(r)'
    BY DEF AnalysisInvariant, Entitled, Held, Stored, postgres
<1> QED
    BY <1>1, <1>3, <1>5, <1>6, PrivateStep DEF local

LEMMA HandlerSteps ==
    ASSUME AnalysisInvariant, NEW r \in Runs, Handler(r)
    PROVE  AnalysisInvariant'
<1>1. CASE Answer(r)
  <2>1. PICK narrate \in BOOLEAN :
            /\ narrate => r \in Requests /\ thread[r].result = "report"
            /\ handler' = [handler EXCEPT ![r] = IF narrate THEN "narrating" ELSE Status(r)]
      BY <1>1 DEF Answer
  <2>2. Status(r) \in Answers /\ (Status(r) = "200" => thread[r].result = "report")
    <3>1. CASE thread[r].result = "report"
        BY <3>1 DEF Status, Answers
    <3>2. CASE thread[r].result # "report"
      <4>1. Status(r) \in {"500", "504", "422", "503"}
          BY <3>2 DEF Status
      <4> QED
          BY <4>1 DEF Answers
    <3> QED
        BY <3>1, <3>2
  <2>3. PICK status \in {"narrating"} \union Answers :
            /\ handler' = [handler EXCEPT ![r] = status]
            /\ status \in {"200", "narrating"} => thread[r].result = "report"
    <3>1. CASE narrate
        BY <2>1, <3>1
    <3>2. CASE ~narrate
        BY <2>1, <2>2, <3>2 DEF Answers
    <3> QED
        BY <3>1, <3>2
  <2> QED
      BY <1>1, <2>3, AnswerStep DEF Answer
<1>2. CASE Narrate(r)
  <2>1. PICK status \in {"200", "503", "504"} : handler' = [handler EXCEPT ![r] = status]
      BY <1>2 DEF Narrate
  <2>2. thread[r].result = "report"
      BY <1>2 DEF Narrate, AnalysisInvariant, Own
  <2> QED
      BY <1>2, <2>1, <2>2, AnswerStep DEF Narrate, Answers
<1>3. CASE GiveUp(r) /\ UNCHANGED thread
    BY <1>3, AnswerStep DEF GiveUp, Answers
<1>4. CASE GiveUp(r) /\ At(r, "queued")
  <2>1. Becomes(r, "done", thread[r].code, thread[r].touches, thread[r].entry, "timeout")
      BY <1>4, EndsBecomes DEF GiveUp, AnalysisInvariant, TypeOK, Outcomes
  <2>2. handler'[r] = "504" /\ \A q \in Runs : q # r => handler'[q] = handler[q]
      BY <1>4 DEF GiveUp, AnalysisInvariant, TypeOK
  <2>3. TypeOK'
      BY <1>4, <2>1 DEF GiveUp, AnalysisInvariant, TypeOK, Becomes, local, postgres, Answers
  <2>4. Own(r)'
      BY <1>4, <2>1, <2>2
         DEF GiveUp, AnalysisInvariant, Own, At, Becomes, local, postgres, Unsaved, Recording
  <2>5. Entitled(r)' /\ Held(r)'
      BY <1>4, <2>1 DEF GiveUp, AnalysisInvariant, Entitled, Held, At, Open, Becomes, postgres
  <2> QED
      BY <1>4, <2>1, <2>2, <2>3, <2>4, <2>5, PrivateStep DEF GiveUp, Becomes, local
<1> QED
    BY <1>1, <1>2, <1>3, <1>4 DEF Handler, GiveUp

(* Time passes, or nothing happens. *)
LEMMA QuietStep ==
    ASSUME AnalysisInvariant, now' \in 0..MaxTime,
           UNCHANGED <<handler, start, thread, local, postgres>>
    PROVE  AnalysisInvariant'
<1>1. TypeOK'
    BY DEF AnalysisInvariant, TypeOK, local, postgres
<1>2. ASSUME NEW q \in Runs PROVE Own(q)' /\ Entitled(q)' /\ Held(q)'
    BY DEF AnalysisInvariant, Own, At, Entitled, Held, Stored, local, postgres
<1>3. Tables'
    BY TablesStay DEF AnalysisInvariant, postgres
<1> QED
    BY <1>1, <1>2, <1>3 DEF AnalysisInvariant

LEMMA InitInvariant == Init => AnalysisInvariant
<1> SUFFICES ASSUME Init PROVE AnalysisInvariant
    OBVIOUS
<1>1. NoThread \in Thread
    BY DEF NoThread, Thread, Outcomes
<1>2. TypeOK
    BY <1>1, ConstantsAreApart DEF Init, TypeOK
<1>3. \A r \in Runs : thread[r] = NoThread /\ runs[r] = "none" /\ handler[r] = "new"
    BY DEF Init
<1>4. ASSUME NEW r \in Runs PROVE Own(r) /\ Entitled(r) /\ Held(r)
  <2>1. Own(r)
      BY <1>3 DEF Init, Own, At, NoThread, Recording, Unsaved
  <2>2. Entitled(r)
      BY <1>3 DEF Entitled, NoThread, Open
  <2>3. Held(r)
      BY ConstantsAreApart DEF Held, Init
  <2> QED
      BY <2>1, <2>2, <2>3
<1>5. Tables
  <2>1. AlertsAreBacked /\ AlertsAreThere
      BY <1>3, ConstantsAreApart DEF Init, AlertsAreBacked, AlertsAreThere
  <2>2. IncidentsAreWhole /\ OpenedOnce
      BY <1>3 DEF Init, IncidentsAreWhole, OpenedOnce, Names
  <2> QED
      BY <2>1, <2>2 DEF Tables
<1> QED
    BY <1>2, <1>4, <1>5 DEF AnalysisInvariant

LEMMA NextInvariant == AnalysisInvariant /\ [Next]_vars => AnalysisInvariant'
<1> SUFFICES ASSUME AnalysisInvariant, [Next]_vars PROVE AnalysisInvariant'
    OBVIOUS
<1>1. CASE Tick
  <2>1. now' \in 0..MaxTime
      BY <1>1, ConstantsAreApart DEF Tick, AnalysisInvariant, TypeOK
  <2> QED
      BY <1>1, <2>1, QuietStep DEF Tick
<1>2. CASE Crash
  <2>1. PICK dead \in SUBSET Running : Dies(dead)
      BY <1>2 DEF Crash
  <2> QED
      BY <2>1, DiesStep
<1>3. ASSUME NEW r \in Runs,
             Begin(r) \/ Take(r) \/ Handler(r) \/ Analysis(r) \/ Storing(r) \/ Recorder(r)
                 \/ StatementFails(r) \/ Commit(r) \/ Cancel(r)
      PROVE  AnalysisInvariant'
    BY <1>3, BeginStep, WorkingSteps, HandlerSteps, AnalyzeStep, AnalyzedStep, SaveStep, WriteStep,
       TransactionSteps DEF Analysis, Storing, Recorder
<1>4. CASE UNCHANGED vars
    BY <1>4, QuietStep DEF vars, AnalysisInvariant, TypeOK
<1> QED
    BY <1>1, <1>2, <1>3, <1>4 DEF Next

(* Types, what every run knows of itself and of the row it shares, and     *)
(* what the tables hold, in every state of every analysis.                 *)
THEOREM AnalysisInvariantHolds == Spec => []AnalysisInvariant
<1>1. Init => AnalysisInvariant
    BY InitInvariant
<1>2. AnalysisInvariant /\ [Next]_vars => AnalysisInvariant'
    BY NextInvariant
<1> QED
    BY <1>1, <1>2, PTL DEF Spec

-----------------------------------------------------------------------------
(* SQLite and PostgreSQL agree on every run (storage.save,                 *)
(* run_monitored_analysis), whatever dies or times out between the two     *)
(* commits.                                                                *)
THEOREM RunsMatchReports == Spec => []RunMatchesReport
<1>1. AnalysisInvariant => RunMatchesReport
    BY DEF AnalysisInvariant, Own, RunMatchesReport
<1> QED
    BY <1>1, AnalysisInvariantHolds, PTL

(* A 200 of the API is backed by the report, the run, the incident and the *)
(* alert (api.analyze).                                                    *)
THEOREM AnswersAreBacked == Spec => []AnswerIsBacked
<1>1. ASSUME AnalysisInvariant, NEW r \in Runs, handler[r] \in {"200", "narrating"}
      PROVE  LET k == thread[r].touches
             IN  /\ r \in reports /\ runs[r] = "completed"
                 /\ k \in Incidents => \E event \in incidents[k] : event[2] = r
                 /\ k \in Evidence => runs[alerts[k]] = "completed"
  <2>1. runs[r] = "completed" /\ r \in reports
      BY <1>1 DEF AnalysisInvariant, Own
  <2>2. ASSUME NEW k \in Incidents, thread[r].touches = k
        PROVE  \E event \in incidents[k] : event[2] = r
      BY <1>1, <2>1, <2>2 DEF AnalysisInvariant, Tables, IncidentsAreWhole, Names
  <2>3. ASSUME NEW k \in Evidence, thread[r].touches = k
        PROVE  runs[alerts[k]] = "completed"
      BY <1>1, <2>1, <2>3 DEF AnalysisInvariant, Tables, AlertsAreBacked, AlertsAreThere
  <2> QED
      BY <2>1, <2>2, <2>3
<1>2. AnalysisInvariant => AnswerIsBacked
    BY <1>1 DEF AnswerIsBacked
<1> QED
    BY <1>2, AnalysisInvariantHolds, PTL

(* An incident is opened by exactly one of the runs that fail with its     *)
(* code, and names all of them that are stored (_open_incident).           *)
THEOREM IncidentsAreOpenedOnce == Spec => []IncidentIsOpenedOnce
<1>1. ASSUME AnalysisInvariant, NEW k \in Incidents, incidents[k] # {}
      PROVE  /\ Cardinality({r \in Runs : <<"opened", r>> \in incidents[k]}) = 1
             /\ \A r \in Runs : (runs[r] # "none" /\ thread[r].touches = k)
                                    <=> \E event \in incidents[k] : event[2] = r
  <2>1. PICK r \in Runs : /\ <<"opened", r>> \in incidents[k]
                          /\ \A q \in Runs : <<"opened", q>> \in incidents[k] => q = r
      BY <1>1 DEF AnalysisInvariant, Tables, OpenedOnce
  <2>2. {q \in Runs : <<"opened", q>> \in incidents[k]} = {r}
      BY <2>1
  <2>3. Cardinality({r}) = 1
      BY FS_Singleton
  <2>4. \A q \in Runs : runs[q] # "none" /\ thread[q].touches = k <=> Names(k, q)
      BY <1>1 DEF AnalysisInvariant, Tables, IncidentsAreWhole
  <2> QED
      BY <2>2, <2>3, <2>4 DEF Names
<1>2. AnalysisInvariant => IncidentIsOpenedOnce
    BY <1>1 DEF IncidentIsOpenedOnce
<1> QED
    BY <1>2, AnalysisInvariantHolds, PTL
=============================================================================
