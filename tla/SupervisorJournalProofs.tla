---------------------- MODULE SupervisorJournalProofs ----------------------
(***************************************************************************)
(* The journals of a supervisor stay chained, for any number of processes, *)
(* of records and of crashes.                                              *)
(***************************************************************************)
EXTENDS SupervisorJournal, SequenceTheorems, TLAPS

-----------------------------------------------------------------------------
(* Sequences of lines. *)

(* Nothing follows nothing. *)
LEMMA EmptyIsChained == Chained(<<>>) /\ Intact(<<>>)
  BY DEF Chained, Intact, Range

(* A first record with no predecessor is a chain. *)
LEMMA FirstRecordIsChained ==
  ASSUME NEW record \in Record, record.prev = 0
  PROVE  Chained(<<record>>)
<1>1. record # Garbage
  BY DEF Record, Garbage
<1> QED
  BY <1>1 DEF Chained, Range

(* append_event keeps the chain when the record names its last line. *)
LEMMA AppendKeepsChain ==
  ASSUME NEW lines \in Seq(Line), NEW record \in Record,
         Chained(lines), record.prev = LastId(lines)
  PROVE  /\ Chained(Append(lines, record))
         /\ LastId(Append(lines, record)) = record.id
<1> DEFINE longer == Append(lines, record)
<1>1. record # Garbage /\ record \in Line
  BY DEF Record, Garbage, Line
<1>2. /\ Len(longer) = Len(lines) + 1
      /\ longer[Len(lines) + 1] = record
      /\ \A i \in 1..Len(lines) : longer[i] = lines[i]
      /\ DOMAIN longer = 1..(Len(lines) + 1)
      /\ Len(lines) \in Nat
      /\ DOMAIN lines = 1..Len(lines)
      /\ longer # <<>>
  BY <1>1
<1>3. Garbage \notin Range(longer)
  <2> SUFFICES ASSUME NEW i \in 1..(Len(lines) + 1) PROVE longer[i] # Garbage
    BY <1>2 DEF Range
  <2> QED
    BY <1>1, <1>2 DEF Chained, Range
<1>4. ASSUME NEW i \in DOMAIN longer
      PROVE  longer[i].prev = IF i = 1 THEN 0 ELSE longer[i - 1].id
  <2>1. CASE i = Len(lines) + 1 /\ i = 1
    <3>1. lines = <<>>
      BY <2>1, <1>2
    <3> QED
      BY <2>1, <3>1, <1>2 DEF LastId
  <2>2. CASE i = Len(lines) + 1 /\ i # 1
    <3>1. lines # <<>> /\ i - 1 = Len(lines) /\ i - 1 \in 1..Len(lines)
      BY <2>2, <1>2
    <3> QED
      BY <2>2, <3>1, <1>2 DEF LastId
  <2>3. CASE i # Len(lines) + 1
    <3>1. i \in 1..Len(lines)
      BY <2>3, <1>2
    <3>2. i # 1 => i - 1 \in 1..Len(lines)
      BY <3>1
    <3> QED
      BY <3>1, <3>2, <1>2 DEF Chained
  <2> QED
    BY <2>1, <2>2, <2>3
<1>5. LastId(longer) = record.id
  BY <1>2 DEF LastId
<1> QED
  BY <1>3, <1>4, <1>5 DEF Chained

(* What is left of an intact journal when its writing stops after n lines. *)
LEMMA PrefixIsIntact ==
  ASSUME NEW lines \in Seq(Line), Intact(lines), NEW n \in 0..Len(lines)
  PROVE  SubSeq(lines, 1, n) \in Seq(Line) /\ Intact(SubSeq(lines, 1, n))
<1> DEFINE part == SubSeq(lines, 1, n)
<1>1. /\ part \in Seq(Line)
      /\ DOMAIN part = 1..n
      /\ \A i \in 1..n : part[i] = lines[i]
      /\ DOMAIN lines = 1..Len(lines)
      /\ 1..n \subseteq 1..Len(lines)
  BY SubSeqProperties
<1>2. CASE Chained(lines)
  <2>1. Garbage \notin Range(part)
    BY <1>1, <1>2 DEF Chained, Range
  <2>2. ASSUME NEW i \in 1..n
        PROVE  part[i].prev = IF i = 1 THEN 0 ELSE part[i - 1].id
    <3>1. i # 1 => i - 1 \in 1..n
      OBVIOUS
    <3> QED
      BY <3>1, <1>1, <1>2 DEF Chained
  <2> QED
    BY <2>1, <2>2, <1>1 DEF Chained, Intact
<1>3. CASE lines = <<Garbage>>
  <2>1. Len(lines) = 1
    BY <1>3
  <2>2. CASE n = 0
    <3>1. part = <<>>
      BY <2>2, <1>1
    <3> QED
      BY <3>1, <1>1, EmptyIsChained
  <2>3. CASE n = 1
    <3>2. part = lines
      BY <2>1, <2>3, SubSeqFull
    <3> QED
      BY <3>2, <1>3, <1>1 DEF Intact
  <2> QED
    BY <2>1, <2>2, <2>3
<1> QED
  BY <1>2, <1>3 DEF Intact

(* A journal whose only content is the unterminated first line of one. *)
LEMMA FirstLineIsIntact ==
  ASSUME NEW lines \in Seq(Line), Intact(lines), Len(lines) > 0
  PROVE  lines[1] \in Line /\ Intact(<<lines[1]>>)
<1>1. lines[1] \in Line /\ 1 \in DOMAIN lines
  OBVIOUS
<1>2. CASE Chained(lines)
  <2>1. lines[1] \in Record /\ lines[1].prev = 0
    BY <1>1, <1>2 DEF Chained, Range, Line
  <2> QED
    BY <2>1, <1>1, FirstRecordIsChained DEF Intact
<1>3. CASE lines = <<Garbage>>
  BY <1>1, <1>3 DEF Intact
<1> QED
  BY <1>2, <1>3 DEF Intact

(* The unterminated tails a file may have. *)
LEMMA TailTypes ==
  /\ <<>> \in {t \in Seq(Line) : Len(t) <= 1}
  /\ \A l \in Line : <<l>> \in {t \in Seq(Line) : Len(t) <= 1}
  OBVIOUS

(* A journal that is rewritten and interrupted is intact, and so is what   *)
(* the next recovery keeps of it.                                          *)
LEMMA RewritePartsAreIntact ==
  ASSUME NEW lines \in Seq(Line), Intact(lines), NEW file \in Parts(Empty, lines)
  PROVE  file \in File /\ Intact(file.lines) /\ Intact(Kept(file))
<1>1. PICK n \in 0..Len(lines) :
         \E t \in IF n = Len(lines) THEN {<<>>}
                  ELSE {<<>>, <<Garbage>>, <<lines[n + 1]>>} :
            file = [lines |-> <<>> \o SubSeq(lines, 1, n), tail |-> t]
  BY DEF Parts, Empty
<1>2. PICK t \in {<<>>, <<Garbage>>, <<lines[n + 1]>>} :
         /\ n = Len(lines) => t = <<>>
         /\ file = [lines |-> <<>> \o SubSeq(lines, 1, n), tail |-> t]
  BY <1>1
<1> DEFINE part == SubSeq(lines, 1, n)
<1>3. part \in Seq(Line) /\ Intact(part) /\ (n = 0 => part = <<>>)
  BY PrefixIsIntact
<1>4. file = [lines |-> part, tail |-> t]
  BY <1>2, <1>3
<1>5. Garbage \in Line /\ Intact(<<Garbage>>)
  BY DEF Line, Intact
<1>6. n # Len(lines) => lines[n + 1] \in Line
  OBVIOUS
<1>7. t \in {s \in Seq(Line) : Len(s) <= 1}
  <2>1. CASE n = Len(lines)
    BY <2>1, <1>2, TailTypes
  <2>2. CASE n # Len(lines)
    BY <2>2, <1>2, <1>5, <1>6, TailTypes
  <2> QED
    BY <2>1, <2>2
<1>8. file \in File
  BY <1>3, <1>4, <1>7 DEF File
<1>9. CASE t = <<>> \/ part # <<>>
  BY <1>9, <1>3, <1>4, <1>8 DEF Kept
<1>10. CASE t # <<>> /\ part = <<>>
  <2>1. n = 0 /\ Len(lines) > 0
    BY <1>10, <1>2
  <2>2. Intact(t)
    BY <2>1, <1>10, <1>2, <1>5, FirstLineIsIntact
  <2> QED
    BY <2>2, <1>10, <1>3, <1>4, <1>8 DEF Kept
<1> QED
  BY <1>9, <1>10

(* The same for a record that is appended to a recovered journal.          *)
LEMMA AppendPartsAreIntact ==
  ASSUME NEW before \in File, NEW record \in Record, before.tail = <<>>,
         Chained(before.lines), record.prev = LastId(before.lines),
         NEW file \in Parts(before, <<record>>)
  PROVE  file \in File /\ Intact(file.lines) /\ Intact(Kept(file))
<1> DEFINE longer == Append(before.lines, record)
<1>1. /\ before.lines \in Seq(Line) /\ record \in Line
      /\ Len(<<record>>) = 1 /\ <<record>> \in Seq(Line)
  BY DEF File, Line
<1>2. Chained(longer) /\ longer \in Seq(Line)
  BY <1>1, AppendKeepsChain
<1>3. /\ SubSeq(<<record>>, 1, 0) = <<>> /\ SubSeq(<<record>>, 1, 1) = <<record>>
      /\ before.lines \o <<>> = before.lines
      /\ before.lines \o <<record>> = longer
  <2>1. SubSeq(<<record>>, 1, 0) = <<>>
    BY SubSeqEmpty
  <2>2. SubSeq(<<record>>, 1, 1) = <<record>>
    BY <1>1, SubSeqFull
  <2>3. before.lines \o <<>> = before.lines
    BY <1>1, ConcatEmptySeq
  <2>4. before.lines \o <<record>> = longer
    BY <1>1
  <2> QED
    BY <2>1, <2>2, <2>3, <2>4
<1>4. \/ file = [lines |-> longer, tail |-> <<>>]
      \/ \E t \in {<<>>, <<Garbage>>, <<record>>} :
            file = [lines |-> before.lines, tail |-> t]
  <2>1. PICK n \in 0..1 :
           \E t \in IF n = 1 THEN {<<>>} ELSE {<<>>, <<Garbage>>, <<record>>} :
              file = [lines |-> before.lines \o SubSeq(<<record>>, 1, n), tail |-> t]
    BY <1>1 DEF Parts
  <2>2. CASE n = 0
    BY <2>1, <2>2, <1>3
  <2>3. CASE n = 1
    BY <2>1, <2>3, <1>3
  <2> QED
    BY <2>2, <2>3
<1>5. CASE file = [lines |-> longer, tail |-> <<>>]
  <2>1. <<>> \in {s \in Seq(Line) : Len(s) <= 1}
    OBVIOUS
  <2> QED
    BY <1>2, <1>5, <2>1 DEF File, Kept, Intact
<1>6. CASE \E t \in {<<>>, <<Garbage>>, <<record>>} :
              file = [lines |-> before.lines, tail |-> t]
  <2>1. PICK t \in {<<>>, <<Garbage>>, <<record>>} :
               file = [lines |-> before.lines, tail |-> t]
    BY <1>6
  <2>2. Garbage \in Line /\ Intact(<<Garbage>>)
    BY DEF Line, Intact
  <2>3. t \in {s \in Seq(Line) : Len(s) <= 1}
    BY <1>1, <2>2, TailTypes
  <2>4. file \in File
    BY <1>1, <2>1, <2>3 DEF File
  <2>5. before.lines = <<>> /\ t = <<record>> => Intact(t)
    BY FirstRecordIsChained DEF LastId, Intact
  <2> QED
    BY <2>1, <2>2, <2>4, <2>5, EmptyIsChained DEF Kept, Intact
<1> QED
  BY <1>4, <1>5, <1>6

-----------------------------------------------------------------------------
(* The invariant. *)

(* The lock excludes: when one process is past __enter__, no other is.     *)
LEMMA OthersAreDown ==
  ASSUME OwnerRuns, NEW p \in Procs, pc[p] # "down"
  PROVE  owner = p /\ \A q \in Procs \ {p} : pc[q] = "down"
  BY DEF OwnerRuns

(* A journal that has been written and closed is a file that recovery      *)
(* keeps as it is.                                                         *)
LEMMA ClosedFile ==
  ASSUME NEW lines \in Seq(Line)
  PROVE  LET file == [lines |-> lines, tail |-> <<>>]
         IN  file \in File /\ file.lines = lines /\ Kept(file) = lines
  BY TailTypes DEF File, Kept

(* A line is added to a closed journal. *)
LEMMA ClosedFileGrows ==
  ASSUME NEW lines, NEW longer
  PROVE  [[lines |-> lines, tail |-> <<>>] EXCEPT !.lines = longer] =
            [lines |-> longer, tail |-> <<>>]
  OBVIOUS

(* What recovery keeps of a file is a sequence of lines. *)
LEMMA KeptIsLines ==
  ASSUME NEW file \in File
  PROVE  /\ file.lines \in Seq(Line)
         /\ file.tail \in Seq(Line)
         /\ Kept(file) \in Seq(Line)
         /\ file.tail = <<>> => Kept(file) = file.lines
         /\ file.tail = <<>> => file = [lines |-> file.lines, tail |-> <<>>]
  BY DEF File, Kept

(* A chain has no garbage at its end. *)
LEMMA LastIdType ==
  ASSUME NEW lines \in Seq(Line)
  PROVE  LastId(lines) \in Nat
<1>1. CASE lines = <<>>
  BY <1>1 DEF LastId
<1>2. CASE lines # <<>>
  <2>1. lines[Len(lines)] \in Line
    BY <1>2
  <2>2. lines[Len(lines)].id \in Nat
    BY <2>1 DEF Line, Record, Garbage
  <2> QED
    BY <1>2, <2>2 DEF LastId
<1> QED
  BY <1>1, <1>2

(* No process runs and both files are empty. *)
LEMMA ChainInvariantHoldsInitially == Init => ChainInvariant
<1> SUFFICES ASSUME Init PROVE ChainInvariant
  OBVIOUS
<1>1. Empty \in File /\ Empty.lines = <<>> /\ Kept(Empty) = <<>>
  BY TailTypes DEF File, Empty, Kept
<1>2. TypeOK
  BY <1>1 DEF Init, TypeOK, Journals
<1>3. OwnerRuns
  BY ProcsAssumption DEF Init, OwnerRuns
<1>4. ChainIsIntact /\ KeptIsIntact
  BY <1>1, EmptyIsChained DEF Init, ChainIsIntact, KeptIsIntact
<1>5. RecoveryProgress /\ AppendContinues
  BY DEF Init, RecoveryProgress, AppendContinues
<1> QED
  BY <1>2, <1>3, <1>4, <1>5 DEF ChainInvariant

(* Start: nothing has been recovered yet. *)
LEMMA StartKeepsChain ==
  ASSUME ChainInvariant, NEW p \in Procs, Start(p)
  PROVE  ChainInvariant'
<1> USE DEF ChainInvariant, Start
<1>1. \A q \in Procs : pc[q] = "down"
  BY ProcsAssumption DEF OwnerRuns
<1>2. TypeOK'
  BY DEF TypeOK, Journals
<1>3. OwnerRuns'
  BY <1>1 DEF OwnerRuns, TypeOK
<1>4. ChainIsIntact' /\ KeptIsIntact'
  BY DEF ChainIsIntact, KeptIsIntact
<1>5. RecoveryProgress' /\ AppendContinues'
  BY <1>1 DEF RecoveryProgress, AppendContinues, TypeOK
<1> QED
  BY <1>2, <1>3, <1>4, <1>5

(* Recover: the tail is dropped, or the file is emptied to be rewritten.   *)
LEMMA RecoverKeepsChain ==
  ASSUME ChainInvariant, NEW p \in Procs, Recover(p)
  PROVE  ChainInvariant'
<1> USE DEF ChainInvariant
<1> DEFINE f == files[cur[p]]
<1>1. /\ pc[p] = "recover" /\ cur[p] \in Journals /\ f \in File
      /\ Kept(f) \in Seq(Line) /\ Intact(Kept(f))
      /\ Empty \in File /\ Empty.lines = <<>> /\ Kept(Empty) = <<>>
      /\ f.tail = <<>> => f = [lines |-> Kept(f), tail |-> <<>>]
  BY KeptIsLines, TailTypes DEF Recover, TypeOK, KeptIsIntact, File, Empty, Kept
<1>2. owner = p /\ \A q \in Procs \ {p} : pc[q] = "down"
  BY <1>1, OthersAreDown
<1>3. TypeOK'
  BY <1>1 DEF Recover, TypeOK
<1>4. OwnerRuns'
  BY <1>1 DEF Recover, OwnerRuns, TypeOK
<1>5. ChainIsIntact' /\ KeptIsIntact'
  BY <1>1, EmptyIsChained DEF Recover, ChainIsIntact, KeptIsIntact, TypeOK
<1>6. RecoveryProgress'
  <2> SUFFICES ASSUME NEW q \in Procs, pc'[q] # "down"
               PROVE  /\ pc'[q] = "rewrite" => files'[cur'[q]] = Empty /\ Intact(data'[q])
                      /\ pc'[q] = "verify" =>
                           files'[cur'[q]] = [lines |-> data'[q], tail |-> <<>>]
                      /\ cur'[q] = "snapshot" => Recovered(q, "event")'
                      /\ pc'[q] \notin {"up", "append"}
    BY DEF RecoveryProgress
  <2>1. q = p
    BY <1>2 DEF Recover, TypeOK
  <2>2. cur[p] = "snapshot" => Recovered(p, "event")
    BY <1>1 DEF RecoveryProgress
  <2>3. cur'[p] = "snapshot" => Recovered(p, "event")'
    BY <2>2, <1>1 DEF Recover, Recovered, TypeOK, Journals
  <2> QED
    BY <2>1, <2>3, <1>1 DEF Recover, TypeOK
<1>7. AppendContinues'
  BY <1>1, <1>2 DEF Recover, AppendContinues, TypeOK
<1> QED
  BY <1>3, <1>4, <1>5, <1>6, <1>7

(* Rewrite: the file holds again what recovery has kept. *)
LEMMA RewriteKeepsChain ==
  ASSUME ChainInvariant, NEW p \in Procs, Rewrite(p)
  PROVE  ChainInvariant'
<1> USE DEF ChainInvariant
<1> DEFINE g == [lines |-> data[p], tail |-> <<>>]
<1>1. /\ pc[p] = "rewrite" /\ cur[p] \in Journals /\ data[p] \in Seq(Line)
      /\ Intact(data[p]) /\ g \in File /\ g.lines = data[p] /\ Kept(g) = data[p]
  BY ClosedFile DEF Rewrite, TypeOK, RecoveryProgress
<1>2. owner = p /\ \A q \in Procs \ {p} : pc[q] = "down"
  BY <1>1, OthersAreDown
<1>3. TypeOK'
  BY <1>1 DEF Rewrite, memory, TypeOK
<1>4. OwnerRuns'
  BY <1>1 DEF Rewrite, OwnerRuns, TypeOK
<1>5. ChainIsIntact' /\ KeptIsIntact'
  BY <1>1 DEF Rewrite, ChainIsIntact, KeptIsIntact, TypeOK
<1>6. RecoveryProgress'
  <2> SUFFICES ASSUME NEW q \in Procs, pc'[q] # "down"
               PROVE  /\ pc'[q] = "verify"
                      /\ files'[cur'[q]] = [lines |-> data'[q], tail |-> <<>>]
                      /\ cur'[q] = "snapshot" => Recovered(q, "event")'
    BY DEF RecoveryProgress
  <2>1. q = p
    BY <1>2 DEF Rewrite, TypeOK
  <2>2. cur[p] = "snapshot" => Recovered(p, "event")'
    BY <1>1 DEF Rewrite, memory, RecoveryProgress, Recovered, TypeOK, Journals
  <2> QED
    BY <2>1, <2>2, <1>1 DEF Rewrite, memory, TypeOK
<1>7. AppendContinues'
  BY <1>1, <1>2 DEF Rewrite, AppendContinues, TypeOK
<1> QED
  BY <1>3, <1>4, <1>5, <1>6, <1>7

(* Verify: a file that passes the checks is recovered; after the second    *)
(* one both are.                                                           *)
LEMMA VerifyKeepsChain ==
  ASSUME ChainInvariant, NEW p \in Procs, Verify(p)
  PROVE  ChainInvariant'
<1> USE DEF ChainInvariant
<1>1. /\ pc[p] = "verify" /\ cur[p] \in Journals /\ data[p] \in Seq(Line)
      /\ files[cur[p]] = [lines |-> data[p], tail |-> <<>>]
      /\ LastId(data[p]) \in Nat
  BY LastIdType DEF Verify, TypeOK, RecoveryProgress
<1>2. owner = p /\ \A q \in Procs \ {p} : pc[q] = "down"
  BY <1>1, OthersAreDown
<1>3. TypeOK'
  <2>1. data[p] # <<>> => data[p][Len(data[p])].day \in Nat
    <3>1. data[p] # <<>> => data[p][Len(data[p])] \in Line
      BY <1>1
    <3> QED
      BY <3>1 DEF Line, Record, Garbage
  <2>2. lastDay' \in [Procs -> Nat]
    BY <2>1, <1>1 DEF Verify, TypeOK
  <2>3. head' \in [Procs -> [Journals -> Nat]]
    BY <1>1 DEF Verify, TypeOK
  <2>4. owner' \in Procs \union {NoProc}
    BY DEF Verify, TypeOK
  <2>5. /\ pc' \in [Procs -> {"down", "recover", "rewrite", "verify", "up", "append"}]
        /\ cur' \in [Procs -> Journals]
    BY DEF Verify, TypeOK, Journals
  <2> QED
    BY <2>2, <2>3, <2>4, <2>5 DEF Verify, TypeOK
<1>4. OwnerRuns'
  BY <1>1, <1>2, ProcsAssumption DEF Verify, OwnerRuns, TypeOK
<1>5. ChainIsIntact' /\ KeptIsIntact'
  BY DEF Verify, ChainIsIntact, KeptIsIntact
<1>6. RecoveryProgress'
  <2> SUFFICES ASSUME NEW q \in Procs, pc'[q] # "down"
               PROVE  /\ pc'[q] \in {"recover", "up"}
                      /\ pc'[q] = "recover" => Recovered(q, "event")'
                      /\ pc'[q] = "up" => \A j \in Journals : Recovered(q, j)'
    BY DEF RecoveryProgress
  <2>1. q = p
    BY <1>2 DEF Verify, TypeOK
  <2>2. Chained(data[p])
    <3>1. ~Chained(data[p]) => pc'[p] = "down"
      BY DEF Verify, TypeOK
    <3> QED
      BY <3>1, <2>1
  <2>3. \A k \in Journals : k = cur[p] => Recovered(p, k)'
    BY <2>2, <1>1 DEF Verify, Recovered, TypeOK
  <2>4. CASE cur[p] = "event"
    BY <2>1, <2>2, <2>3, <2>4, <1>1 DEF Verify, TypeOK
  <2>5. CASE cur[p] = "snapshot"
    <3>1. Recovered(p, "event")
      BY <2>5, <1>1 DEF RecoveryProgress
    <3>2. Recovered(p, "event")'
      BY <3>1, <2>5, <1>1 DEF Verify, Recovered, TypeOK, Journals
    <3> QED
      BY <3>2, <2>1, <2>2, <2>3, <2>5, <1>1 DEF Verify, TypeOK, Journals
  <2> QED
    BY <2>4, <2>5, <1>1 DEF Journals
<1>7. AppendContinues'
  BY <1>1, <1>2 DEF Verify, AppendContinues, TypeOK
<1> QED
  BY <1>3, <1>4, <1>5, <1>6, <1>7

(* BeginAppend: the new record names the head. *)
LEMMA BeginAppendKeepsChain ==
  ASSUME ChainInvariant, NEW p \in Procs, NEW j \in Journals, BeginAppend(p, j)
  PROVE  ChainInvariant'
<1> USE DEF ChainInvariant
<1> DEFINE record == [id |-> serial + 1, prev |-> head[p][j], day |-> day]
<1>1. /\ pc[p] = "up" /\ record \in Record /\ <<record>> \in Seq(Line)
      /\ Len(<<record>>) = 1 /\ <<record>>[1] = record
  BY DEF BeginAppend, TypeOK, Record, Line
<1>2. owner = p /\ \A q \in Procs \ {p} : pc[q] = "down"
  BY <1>1, OthersAreDown
<1>3. /\ pc' = [pc EXCEPT ![p] = "append"] /\ cur' = [cur EXCEPT ![p] = j]
      /\ data' = [data EXCEPT ![p] = <<record>>] /\ serial' = serial + 1
      /\ UNCHANGED <<files, owner, head, lastDay, day, committed>>
  BY DEF BeginAppend
<1>4. TypeOK'
  BY <1>1, <1>3 DEF TypeOK
<1>5. OwnerRuns'
  BY <1>1, <1>3 DEF OwnerRuns, TypeOK
<1>6. ChainIsIntact' /\ KeptIsIntact'
  BY <1>3 DEF ChainIsIntact, KeptIsIntact
<1>7. RecoveryProgress'
  <2> SUFFICES ASSUME NEW q \in Procs, pc'[q] # "down", NEW k \in Journals
               PROVE  pc'[q] = "append" /\ Recovered(q, k)'
    BY DEF RecoveryProgress
  <2>1. q = p
    BY <1>2, <1>3 DEF TypeOK
  <2>2. Recovered(p, k)
    BY <1>1 DEF RecoveryProgress
  <2> QED
    BY <2>1, <2>2, <1>3 DEF Recovered, TypeOK
<1>8. AppendContinues'
  BY <1>1, <1>2, <1>3 DEF AppendContinues, TypeOK
<1> QED
  BY <1>4, <1>5, <1>6, <1>7, <1>8

(* EndAppend: the record is the last line and the head. *)
LEMMA EndAppendKeepsChain ==
  ASSUME ChainInvariant, NEW p \in Procs, EndAppend(p)
  PROVE  ChainInvariant'
<1> USE DEF ChainInvariant
<1> DEFINE record == data[p][1]
           j == cur[p]
           lines == files[j].lines
           longer == Append(lines, record)
           g == [lines |-> longer, tail |-> <<>>]
<1>1. /\ pc[p] = "append" /\ j \in Journals /\ record \in Record /\ files[j] \in File
      /\ record.prev = head[p][j] /\ \A k \in Journals : Recovered(p, k)
  BY DEF EndAppend, TypeOK, RecoveryProgress, AppendContinues
<1>2. owner = p /\ \A q \in Procs \ {p} : pc[q] = "down"
  BY <1>1, OthersAreDown
<1>3. /\ lines \in Seq(Line) /\ Chained(lines) /\ record.prev = LastId(lines)
      /\ files[j] = [lines |-> lines, tail |-> <<>>] /\ record \in Line
  BY <1>1, KeptIsLines DEF Recovered, Line
<1>4. /\ longer \in Seq(Line) /\ Chained(longer) /\ LastId(longer) = record.id
  BY <1>1, <1>3, AppendKeepsChain
<1>5. /\ g \in File /\ g.lines = longer /\ Kept(g) = longer /\ Intact(longer)
  BY <1>4, ClosedFile DEF Intact
<1>6. /\ files' = [files EXCEPT ![j] = g] /\ pc' = [pc EXCEPT ![p] = "up"]
      /\ head' = [head EXCEPT ![p][j] = record.id]
      /\ UNCHANGED <<owner, cur, data, day, serial>>
  <2>1. [files EXCEPT ![j].lines = Append(@, record)] = [files EXCEPT ![j] = g]
    <3>1. [files[j] EXCEPT !.lines = longer] = g
      BY <1>3, ClosedFileGrows
    <3> QED
      BY <3>1, <1>1 DEF TypeOK
  <2> QED
    BY <2>1 DEF EndAppend
<1>7. TypeOK'
  <2>1. record.id \in Nat /\ record.day \in Nat
    BY <1>1 DEF Record
  <2>2. head' \in [Procs -> [Journals -> Nat]]
    BY <2>1, <1>1, <1>6 DEF TypeOK
  <2>3. lastDay' \in [Procs -> Nat] /\ committed' \in [Journals -> Seq(Record)]
    BY <2>1, <1>1 DEF EndAppend, TypeOK
  <2> QED
    BY <2>2, <2>3, <1>5, <1>6 DEF TypeOK
<1>8. OwnerRuns'
  BY <1>1, <1>6 DEF OwnerRuns, TypeOK
<1>9. ChainIsIntact' /\ KeptIsIntact'
  BY <1>5, <1>6 DEF ChainIsIntact, KeptIsIntact, TypeOK
<1>10. RecoveryProgress'
  <2> SUFFICES ASSUME NEW q \in Procs, pc'[q] # "down", NEW k \in Journals
               PROVE  pc'[q] = "up" /\ Recovered(q, k)'
    BY DEF RecoveryProgress, Journals
  <2>1. q = p
    BY <1>2, <1>6 DEF TypeOK
  <2>2. CASE k = j
    BY <2>1, <2>2, <1>1, <1>4, <1>6 DEF Recovered, TypeOK
  <2>3. CASE k # j
    BY <2>1, <2>3, <1>1, <1>6 DEF Recovered, TypeOK
  <2> QED
    BY <2>1, <2>2, <2>3, <1>6 DEF TypeOK
<1>11. AppendContinues'
  BY <1>2, <1>6 DEF AppendContinues, TypeOK
<1> QED
  BY <1>7, <1>8, <1>9, <1>10, <1>11

(* Stop: nothing is left half written. *)
LEMMA StopKeepsChain ==
  ASSUME ChainInvariant, NEW p \in Procs, Stop(p)
  PROVE  ChainInvariant'
<1> USE DEF ChainInvariant
<1>1. pc[p] = "up"
  BY DEF Stop
<1>2. \A q \in Procs : pc'[q] = "down"
  BY <1>1, OthersAreDown DEF Stop, TypeOK
<1>3. TypeOK'
  BY DEF Stop, memory, TypeOK
<1>4. OwnerRuns'
  BY <1>2, ProcsAssumption DEF Stop, OwnerRuns
<1>5. ChainIsIntact' /\ KeptIsIntact'
  BY DEF Stop, ChainIsIntact, KeptIsIntact
<1>6. RecoveryProgress' /\ AppendContinues'
  BY <1>2 DEF RecoveryProgress, AppendContinues
<1> QED
  BY <1>3, <1>4, <1>5, <1>6

(* Crash: the file that was being written keeps an intact part. *)
LEMMA CrashKeepsChain ==
  ASSUME ChainInvariant, NEW p \in Procs, Crash(p)
  PROVE  ChainInvariant'
<1> USE DEF ChainInvariant
<1>1. pc[p] # "down" /\ cur[p] \in Journals /\ data[p] \in Seq(Line)
  BY DEF Crash, TypeOK
<1>2. \A q \in Procs : pc'[q] = "down"
  BY <1>1, OthersAreDown DEF Crash, TypeOK
<1>3. \/ files' = files
      \/ \E file \in File : /\ files' = [files EXCEPT ![cur[p]] = file]
                            /\ Intact(file.lines) /\ Intact(Kept(file))
  <2>1. CASE pc[p] = "rewrite"
    <3>1. files[cur[p]] = Empty /\ Intact(data[p])
      BY <2>1 DEF RecoveryProgress
    <3>2. PICK file \in Parts(Empty, data[p]) : files' = [files EXCEPT ![cur[p]] = file]
      BY <3>1, <2>1 DEF Crash
    <3> QED
      BY <3>1, <3>2, <1>1, RewritePartsAreIntact
  <2>2. CASE pc[p] = "append"
    <3> DEFINE before == files[cur[p]]
               record == data[p][1]
    <3>1. /\ before \in File /\ record \in Record /\ before.tail = <<>>
          /\ Chained(before.lines) /\ record.prev = LastId(before.lines)
      BY <2>2, <1>1 DEF TypeOK, RecoveryProgress, AppendContinues, Recovered
    <3>2. data[p] = <<record>>
      BY <2>2, <1>1 DEF AppendContinues
    <3>3. PICK file \in Parts(before, <<record>>) :
             files' = [files EXCEPT ![cur[p]] = file]
      BY <3>2, <2>2 DEF Crash
    <3>4. file \in File /\ Intact(file.lines) /\ Intact(Kept(file))
      BY <3>1, AppendPartsAreIntact
    <3> QED
      BY <3>3, <3>4
  <2>3. CASE pc[p] \notin {"rewrite", "append"}
    BY <2>3 DEF Crash
  <2> QED
    BY <2>1, <2>2, <2>3
<1>4. TypeOK'
  <2>1. files' \in [Journals -> File]
    BY <1>1, <1>3 DEF TypeOK
  <2>2. /\ pc' \in [Procs -> {"down", "recover", "rewrite", "verify", "up", "append"}]
        /\ owner' \in Procs \union {NoProc}
        /\ UNCHANGED <<memory, day, serial, committed>>
    BY DEF Crash, TypeOK
  <2> QED
    BY <2>1, <2>2 DEF memory, TypeOK
<1>5. OwnerRuns'
  BY <1>2, ProcsAssumption DEF Crash, OwnerRuns
<1>6. ChainIsIntact' /\ KeptIsIntact'
  BY <1>3 DEF ChainIsIntact, KeptIsIntact, TypeOK
<1>7. RecoveryProgress' /\ AppendContinues'
  BY <1>2 DEF RecoveryProgress, AppendContinues
<1> QED
  BY <1>4, <1>5, <1>6, <1>7

(* Steps that leave the files and the processes as they are. *)
LEMMA OtherStepsKeepChain ==
  ASSUME ChainInvariant,
         NextDay \/ UNCHANGED vars
  PROVE  ChainInvariant'
<1> USE DEF ChainInvariant
<1>1. /\ UNCHANGED <<files, owner, pc, cur, data, head, lastDay, serial, committed>>
      /\ day' \in Nat
  BY DEF NextDay, vars, control, memory, TypeOK
<1>2. TypeOK'
  BY <1>1 DEF TypeOK
<1>3. OwnerRuns' /\ ChainIsIntact' /\ KeptIsIntact'
  BY <1>1 DEF OwnerRuns, ChainIsIntact, KeptIsIntact
<1>4. RecoveryProgress' /\ AppendContinues'
  BY <1>1 DEF RecoveryProgress, AppendContinues, Recovered
<1> QED
  BY <1>2, <1>3, <1>4

(* Every step of every process preserves the invariant of the journals     *)
(* (SupervisorStateStore: start, recovery, appends, crashes).              *)
THEOREM ChainInvariantIsInductive == ChainInvariant /\ [Next]_vars => ChainInvariant'
<1> SUFFICES ASSUME ChainInvariant, [Next]_vars PROVE ChainInvariant'
  OBVIOUS
<1>1. CASE NextDay \/ UNCHANGED vars
  BY <1>1, OtherStepsKeepChain
<1>2. ASSUME NEW p \in Procs,
             \/ Start(p) \/ Recover(p) \/ Rewrite(p) \/ Verify(p)
             \/ \E j \in Journals : BeginAppend(p, j)
             \/ EndAppend(p) \/ Stop(p) \/ Crash(p)
      PROVE  ChainInvariant'
  BY <1>2, StartKeepsChain, RecoverKeepsChain, RewriteKeepsChain, VerifyKeepsChain,
     BeginAppendKeepsChain, EndAppendKeepsChain, StopKeepsChain, CrashKeepsChain
<1> QED
  BY <1>1, <1>2 DEF Next

(* The invariant holds in every state of every execution. *)
THEOREM ChainInvariantHolds == Spec => []ChainInvariant
<1>1. Init => ChainInvariant
  BY ChainInvariantHoldsInitially
<1>2. ChainInvariant /\ [Next]_vars => ChainInvariant'
  BY ChainInvariantIsInductive
<1> QED
  BY <1>1, <1>2, PTL DEF Spec

(* A journal is a chain, or a single torn record in front, whatever        *)
(* crashes and second supervisors do (_recover_journal, _append_fsynced).  *)
THEOREM JournalsStayChained == Spec => []ChainIsIntact
<1>1. ChainInvariant => ChainIsIntact
  BY DEF ChainInvariant
<1> QED
  BY <1>1, ChainInvariantHolds, PTL

(* The head kept in memory is the last record of the file: the next record *)
(* a running supervisor writes continues the chain (append_event,          *)
(* append_daily_snapshot).                                                 *)
THEOREM HeadsAreLastRecords == Spec => []HeadIsLastRecord
<1>1. ChainInvariant => HeadIsLastRecord
  BY DEF ChainInvariant, RecoveryProgress, HeadIsLastRecord, Recovered
<1> QED
  BY <1>1, ChainInvariantHolds, PTL

-----------------------------------------------------------------------------
(* One daily snapshot for a date. *)

(* A journal that has just been created. *)
LEMMA DaysOfEmpty == ASSUME NEW d PROVE DaysUpTo(<<>>, d)
  BY DEF DaysUpTo, Days

(* A journal of one line. *)
LEMMA DaysOfOne ==
  ASSUME NEW line \in Line, NEW d \in Nat, line.day <= d
  PROVE  DaysUpTo(<<line>>, d)
  BY DEF DaysUpTo, Days

(* The days of the lines that are left when the writing stops. *)
LEMMA DaysOfPrefix ==
  ASSUME NEW lines \in Seq(Line), NEW d, DaysUpTo(lines, d), NEW n \in 0..Len(lines)
  PROVE  DaysUpTo(SubSeq(lines, 1, n), d)
<1> DEFINE part == SubSeq(lines, 1, n)
<1>1. /\ DOMAIN part = 1..n
      /\ \A i \in 1..n : part[i] = lines[i]
      /\ 1..n \subseteq DOMAIN lines
  BY SubSeqProperties
<1> QED
  BY <1>1 DEF DaysUpTo, Days

(* The days of a journal and of a record of a later day. *)
LEMMA DaysOfAppend ==
  ASSUME NEW lines \in Seq(Line), NEW d \in Nat, DaysUpTo(lines, d),
         NEW record \in Record, record.day \in (LastDayOf(lines) + 1)..d
  PROVE  /\ DaysUpTo(Append(lines, record), d)
         /\ LastDayOf(Append(lines, record)) = record.day
<1> DEFINE longer == Append(lines, record)
           n == Len(lines)
<1>1. /\ DOMAIN longer = 1..(n + 1) /\ longer[n + 1] = record /\ n \in Nat
      /\ \A i \in 1..n : longer[i] = lines[i]
      /\ DOMAIN lines = 1..n /\ longer # <<>> /\ Len(longer) = n + 1
  BY DEF Line
<1>2. \A i \in 1..n : lines[i].day \in Nat
  <2>1. \A i \in 1..n : lines[i] \in Line
    OBVIOUS
  <2> QED
    BY <2>1 DEF Line, Record, Garbage
<1>3. \A i \in 1..n : lines[i].day < record.day
  <2> SUFFICES ASSUME NEW i \in 1..n PROVE lines[i].day < record.day
    OBVIOUS
  <2>1. lines # <<>> /\ n \in 1..n
    OBVIOUS
  <2>2. LastDayOf(lines) = lines[n].day
    BY <2>1 DEF LastDayOf
  <2>3. lines[i].day <= lines[n].day
    BY <1>1, <1>2, <2>1 DEF DaysUpTo, Days
  <2>4. record.day \in Nat
    BY DEF Record
  <2> QED
    BY <1>2, <2>1, <2>2, <2>3, <2>4
<1>4. Days(longer)
  <2> SUFFICES ASSUME NEW i \in 1..(n + 1), NEW k \in 1..(n + 1), i < k
               PROVE  longer[i].day < longer[k].day
    BY <1>1 DEF Days
  <2>1. i \in 1..n
    BY <1>1
  <2>2. CASE k = n + 1
    BY <2>1, <2>2, <1>1, <1>3
  <2>3. CASE k # n + 1
    <3>1. k \in 1..n
      BY <2>3, <1>1
    <3> QED
      BY <2>1, <3>1, <1>1 DEF DaysUpTo, Days
  <2> QED
    BY <2>2, <2>3
<1>5. \A i \in DOMAIN longer : longer[i].day <= d
  <2>1. record.day <= d
    <3>1. LastDayOf(lines) \in Nat
      BY <1>1, <1>2 DEF LastDayOf
    <3> QED
      BY <3>1
  <2> QED
    BY <2>1, <1>1 DEF DaysUpTo
<1>6. LastDayOf(longer) = record.day
  BY <1>1 DEF LastDayOf
<1> QED
  BY <1>4, <1>5, <1>6 DEF DaysUpTo

(* The day of a line. *)
LEMMA DayTypes ==
  ASSUME NEW lines \in Seq(Line)
  PROVE  /\ \A i \in DOMAIN lines : lines[i].day \in Nat
         /\ LastDayOf(lines) \in Nat
<1>1. \A i \in DOMAIN lines : lines[i] \in Line
  OBVIOUS
<1>2. \A i \in DOMAIN lines : lines[i].day \in Nat
  BY <1>1 DEF Line, Record, Garbage
<1>3. lines # <<>> => Len(lines) \in DOMAIN lines
  OBVIOUS
<1> QED
  BY <1>2, <1>3 DEF LastDayOf

(* The last day of a journal bounds the clock. *)
LEMMA LastDayIsPast ==
  ASSUME NEW lines \in Seq(Line), NEW d \in Nat, DaysUpTo(lines, d)
  PROVE  LastDayOf(lines) <= d
<1>1. lines # <<>> => Len(lines) \in DOMAIN lines
  OBVIOUS
<1> QED
  BY <1>1 DEF LastDayOf, DaysUpTo

(* What an interrupted rewrite leaves has increasing days. *)
LEMMA DaysOfRewriteParts ==
  ASSUME NEW lines \in Seq(Line), NEW d \in Nat, DaysUpTo(lines, d),
         NEW file \in Parts(Empty, lines)
  PROVE  DaysUpTo(file.lines, d) /\ DaysUpTo(Kept(file), d)
<1>1. PICK n \in 0..Len(lines) :
         \E t \in IF n = Len(lines) THEN {<<>>}
                  ELSE {<<>>, <<Garbage>>, <<lines[n + 1]>>} :
            file = [lines |-> <<>> \o SubSeq(lines, 1, n), tail |-> t]
  BY DEF Parts, Empty
<1>2. PICK t \in {<<>>, <<Garbage>>, <<lines[n + 1]>>} :
         /\ n = Len(lines) => t = <<>>
         /\ file = [lines |-> <<>> \o SubSeq(lines, 1, n), tail |-> t]
  BY <1>1
<1> DEFINE part == SubSeq(lines, 1, n)
<1>3. part \in Seq(Line) /\ DaysUpTo(part, d) /\ (n = 0 => part = <<>>)
  BY DaysOfPrefix, SubSeqProperties
<1>4. file.lines = part /\ file.tail = t
  <2>1. <<>> \o part = part
    BY <1>3, ConcatEmptySeq
  <2> QED
    BY <1>2, <2>1
<1>5. n # Len(lines) => /\ lines[n + 1] \in Line
                        /\ n + 1 \in DOMAIN lines
  OBVIOUS
<1>6. DaysUpTo(t, d)
  <2>1. CASE t = <<>>
    BY <2>1, DaysOfEmpty
  <2>2. CASE t = <<Garbage>>
    BY <2>2, DaysOfOne DEF Line, Garbage
  <2>3. CASE n # Len(lines) /\ t = <<lines[n + 1]>>
    BY <2>3, <1>5, DaysOfOne DEF DaysUpTo
  <2> QED
    BY <2>1, <2>2, <2>3, <1>2
<1> QED
  BY <1>3, <1>4, <1>6 DEF Kept

(* What an interrupted append leaves has increasing days. *)
LEMMA DaysOfAppendParts ==
  ASSUME NEW before \in File, before.tail = <<>>, NEW d \in Nat,
         DaysUpTo(before.lines, d), NEW record \in Record,
         record.day \in (LastDayOf(before.lines) + 1)..d,
         NEW file \in Parts(before, <<record>>)
  PROVE  DaysUpTo(file.lines, d) /\ DaysUpTo(Kept(file), d)
<1> DEFINE longer == Append(before.lines, record)
<1>1. /\ before.lines \in Seq(Line) /\ record \in Line
      /\ Len(<<record>>) = 1 /\ <<record>> \in Seq(Line)
  BY DEF File, Line
<1>2. DaysUpTo(longer, d)
  BY <1>1, DaysOfAppend
<1>3. /\ before.lines \o SubSeq(<<record>>, 1, 0) = before.lines
      /\ before.lines \o SubSeq(<<record>>, 1, 1) = longer
  <2>1. SubSeq(<<record>>, 1, 0) = <<>>
    BY SubSeqEmpty
  <2>2. SubSeq(<<record>>, 1, 1) = <<record>>
    BY <1>1, SubSeqFull
  <2>3. before.lines \o <<>> = before.lines
    BY <1>1, ConcatEmptySeq
  <2>4. before.lines \o <<record>> = longer
    BY <1>1
  <2> QED
    BY <2>1, <2>2, <2>3, <2>4
<1>4. \/ file.lines = longer /\ file.tail = <<>>
      \/ file.lines = before.lines /\ file.tail \in {<<>>, <<Garbage>>, <<record>>}
  <2>1. PICK n \in 0..1 :
           \E t \in IF n = 1 THEN {<<>>} ELSE {<<>>, <<Garbage>>, <<record>>} :
              file = [lines |-> before.lines \o SubSeq(<<record>>, 1, n), tail |-> t]
    BY <1>1 DEF Parts
  <2>2. CASE n = 0
    BY <2>1, <2>2, <1>3
  <2>3. CASE n = 1
    BY <2>1, <2>3, <1>3
  <2> QED
    BY <2>2, <2>3
<1>5. \A t \in {<<>>, <<Garbage>>, <<record>>} : DaysUpTo(t, d)
  <2>1. DaysUpTo(<<Garbage>>, d)
    BY DaysOfOne DEF Line, Garbage
  <2>2. record.day <= d
    BY <1>1, DayTypes
  <2>3. DaysUpTo(<<record>>, d)
    BY <2>2, <1>1, DaysOfOne
  <2> QED
    BY <2>1, <2>3, DaysOfEmpty
<1> QED
  BY <1>2, <1>4, <1>5 DEF Kept

-----------------------------------------------------------------------------
(* The invariant of the days, on top of the invariant of the chain. *)

(* No snapshot has been written. *)
LEMMA DayInvariantHoldsInitially == Init => DayInvariant
<1> SUFFICES ASSUME Init PROVE DayInvariant
  OBVIOUS
<1>1. Empty.lines = <<>> /\ Kept(Empty) = <<>>
  BY DEF Empty, Kept
<1> QED
  BY <1>1, DaysOfEmpty DEF Init, DayInvariant, DayProgress, Journals

(* What the invariants say of the file of the daily snapshots. *)
LEMMA SnapshotFile ==
  ASSUME ChainInvariant, DayInvariant
  PROVE  /\ files["snapshot"] \in File
         /\ files["snapshot"].lines \in Seq(Line)
         /\ Kept(files["snapshot"]) \in Seq(Line)
         /\ day \in Nat
  BY KeptIsLines DEF ChainInvariant, TypeOK, Journals

(* It is enough to look at the file and at the process that runs. *)
LEMMA DayInvariantOfOwner ==
  ASSUME NEW p \in Procs, \A q \in Procs \ {p} : pc'[q] = "down",
         DaysUpTo(files'["snapshot"].lines, day'),
         DaysUpTo(Kept(files'["snapshot"]), day'),
         DayProgress(p)'
  PROVE  DayInvariant'
<1>1. \A q \in Procs \ {p} : DayProgress(q)'
  BY DEF DayProgress
<1>2. \A q \in Procs : DayProgress(q)'
  BY <1>1
<1> QED
  BY <1>2 DEF DayInvariant

(* __enter__: nothing is known of the days. *)
LEMMA StartKeepsDays ==
  ASSUME ChainInvariant, DayInvariant, NEW p \in Procs, Start(p)
  PROVE  DayInvariant'
<1>1. TypeOK
  BY DEF ChainInvariant
<1>2. \A q \in Procs : pc[q] = "down"
  BY ProcsAssumption DEF Start, ChainInvariant, OwnerRuns
<1>3. \A q \in Procs \ {p} : pc'[q] = "down"
  BY <1>1, <1>2 DEF Start, TypeOK
<1>4. /\ pc'[p] = "recover" /\ lastDay'[p] = 0
      /\ UNCHANGED <<files, day>>
  BY <1>1 DEF Start, TypeOK
<1>5. DayProgress(p)'
  BY <1>4 DEF DayProgress
<1> QED
  BY <1>3, <1>4, <1>5, DayInvariantOfOwner DEF DayInvariant

(* Only the owner of the lock runs, before and after a step of its own. *)
LEMMA OnlyOwnerRuns ==
  ASSUME ChainInvariant, NEW p \in Procs, pc[p] # "down",
         NEW c, pc' = [pc EXCEPT ![p] = c]
  PROVE  pc'[p] = c /\ \A q \in Procs \ {p} : pc'[q] = "down"
<1>1. \A q \in Procs \ {p} : pc[q] = "down"
  BY OthersAreDown DEF ChainInvariant
<1>2. pc \in [Procs -> {"down", "recover", "rewrite", "verify", "up", "append"}]
  BY DEF ChainInvariant, TypeOK
<1> QED
  BY <1>1, <1>2

(* _recover_journal reads the file and may truncate it. *)
LEMMA RecoverKeepsDays ==
  ASSUME ChainInvariant, DayInvariant, NEW p \in Procs, Recover(p)
  PROVE  DayInvariant'
<1> DEFINE S == files["snapshot"]
<1>1. TypeOK
  BY DEF ChainInvariant
<1>2. PICK c \in {"rewrite", "verify"} : pc' = [pc EXCEPT ![p] = c]
  BY DEF Recover
<1>3. pc'[p] = c /\ \A q \in Procs \ {p} : pc'[q] = "down"
  BY <1>2, OnlyOwnerRuns DEF Recover
<1>4. Empty.lines = <<>> /\ Kept(Empty) = <<>>
  BY DEF Empty, Kept
<1>5. files'["snapshot"] \in {S, Empty} /\ day' = day
  BY <1>1 DEF Recover, TypeOK, Journals
<1>6. /\ DaysUpTo(files'["snapshot"].lines, day')
      /\ DaysUpTo(Kept(files'["snapshot"]), day')
  BY <1>4, <1>5, DaysOfEmpty DEF DayInvariant
<1>7. cur'[p] = "snapshot" => data'[p] = Kept(S)
  BY <1>1 DEF Recover, TypeOK
<1>8. lastDay'[p] = 0
  BY DEF Recover, DayInvariant, DayProgress
<1>9. DayProgress(p)'
  BY <1>3, <1>5, <1>7, <1>8 DEF DayProgress, DayInvariant
<1> QED
  BY <1>3, <1>6, <1>9, DayInvariantOfOwner

(* The rewriting of a journal that had a torn tail. *)
LEMMA RewriteKeepsDays ==
  ASSUME ChainInvariant, DayInvariant, NEW p \in Procs, Rewrite(p)
  PROVE  DayInvariant'
<1> DEFINE S == files["snapshot"]
           g == [lines |-> data[p], tail |-> <<>>]
<1>1. TypeOK
  BY DEF ChainInvariant
<1>2. pc'[p] = "verify" /\ \A q \in Procs \ {p} : pc'[q] = "down"
  BY OnlyOwnerRuns DEF Rewrite
<1>3. g.lines = data[p] /\ Kept(g) = data[p]
  BY <1>1, ClosedFile DEF TypeOK
<1>4. files'["snapshot"] = IF cur[p] = "snapshot" THEN g ELSE S
  BY <1>1 DEF Rewrite, TypeOK, Journals
<1>5. cur[p] = "snapshot" => DaysUpTo(data[p], day)
  BY DEF Rewrite, DayInvariant, DayProgress
<1>6. day' = day /\ lastDay' = lastDay /\ lastDay[p] = 0
  BY DEF Rewrite, DayInvariant, DayProgress, memory
<1>7. /\ DaysUpTo(files'["snapshot"].lines, day')
      /\ DaysUpTo(Kept(files'["snapshot"]), day')
  BY <1>3, <1>4, <1>5, <1>6 DEF DayInvariant
<1>8. DayProgress(p)'
  BY <1>2, <1>6 DEF DayProgress
<1> QED
  BY <1>2, <1>7, <1>8, DayInvariantOfOwner

(* The date of the last snapshot is recovered. *)
LEMMA VerifyKeepsDays ==
  ASSUME ChainInvariant, DayInvariant, NEW p \in Procs, Verify(p)
  PROVE  DayInvariant'
<1> DEFINE S == files["snapshot"]
<1>1. TypeOK
  BY DEF ChainInvariant
<1> DEFINE c == IF ~Chained(data[p]) THEN "down"
                ELSE IF cur[p] = "event" THEN "recover" ELSE "up"
<1>2. /\ pc' = [pc EXCEPT ![p] = c]
      /\ c \in {"down", "recover", "up"}
      /\ c = "up" => Chained(data[p]) /\ cur[p] # "event"
      /\ c = "recover" => cur[p] = "event"
  BY DEF Verify
<1> HIDE DEF c
<1>3. pc'[p] = c /\ \A q \in Procs \ {p} : pc'[q] = "down"
  BY <1>2, OnlyOwnerRuns DEF Verify
<1>4. UNCHANGED <<files, day>> /\ lastDay[p] = 0 /\ lastDay \in [Procs -> Nat]
  BY <1>1 DEF Verify, DayInvariant, DayProgress, TypeOK
<1>5. lastDay'[p] = IF Chained(data[p]) /\ cur[p] = "snapshot" /\ data[p] # <<>>
                    THEN data[p][Len(data[p])].day ELSE 0
  BY <1>4 DEF Verify
<1>6. cur[p] = "snapshot" => S.lines = data[p]
  <2>1. files[cur[p]] = [lines |-> data[p], tail |-> <<>>]
    BY DEF Verify, ChainInvariant, RecoveryProgress
  <2> QED
    BY <2>1
<1>7. cur[p] \in {"event", "snapshot"}
  BY <1>1 DEF TypeOK, Journals
<1>8. c = "up" => lastDay'[p] = LastDayOf(S.lines)
  BY <1>2, <1>5, <1>6, <1>7 DEF LastDayOf
<1>9. c = "recover" => lastDay'[p] = 0
  BY <1>2, <1>5
<1>10. DayProgress(p)'
  BY <1>2, <1>3, <1>4, <1>8, <1>9 DEF DayProgress
<1> QED
  BY <1>3, <1>4, <1>10, DayInvariantOfOwner DEF DayInvariant

(* append_daily_snapshot is entered only in a day that has no snapshot. *)
LEMMA BeginAppendKeepsDays ==
  ASSUME ChainInvariant, DayInvariant, NEW p \in Procs, NEW j \in Journals,
         BeginAppend(p, j)
  PROVE  DayInvariant'
<1> DEFINE S == files["snapshot"]
<1>1. TypeOK
  BY DEF ChainInvariant
<1>2. pc'[p] = "append" /\ \A q \in Procs \ {p} : pc'[q] = "down"
  BY OnlyOwnerRuns DEF BeginAppend
<1>3. UNCHANGED <<files, day, lastDay>>
  BY DEF BeginAppend
<1>4. lastDay[p] = LastDayOf(S.lines)
  BY DEF BeginAppend, DayInvariant, DayProgress
<1>5. lastDay[p] <= day /\ lastDay[p] \in Nat /\ day \in Nat
  BY <1>1, <1>4, SnapshotFile, LastDayIsPast DEF DayInvariant, TypeOK
<1>6. cur'[p] = j /\ data'[p][1].day = day
  BY <1>1 DEF BeginAppend, TypeOK
<1>7. j = "snapshot" => data'[p][1].day \in (lastDay[p] + 1)..day
  BY <1>5, <1>6 DEF BeginAppend
<1>8. DayProgress(p)'
  BY <1>2, <1>3, <1>4, <1>6, <1>7 DEF DayProgress
<1> QED
  BY <1>2, <1>3, <1>8, DayInvariantOfOwner DEF DayInvariant

(* The date moves with the snapshot. *)
LEMMA EndAppendKeepsDays ==
  ASSUME ChainInvariant, DayInvariant, NEW p \in Procs, EndAppend(p)
  PROVE  DayInvariant'
<1> DEFINE S == files["snapshot"]
           record == data[p][1]
<1>1. TypeOK
  BY DEF ChainInvariant
<1>2. pc'[p] = "up" /\ \A q \in Procs \ {p} : pc'[q] = "down"
  BY OnlyOwnerRuns DEF EndAppend
<1>3. /\ S \in File /\ S.lines \in Seq(Line) /\ S.tail = <<>>
      /\ record \in Record /\ day \in Nat
  BY SnapshotFile DEF EndAppend, ChainInvariant, RecoveryProgress, Recovered,
     AppendContinues, Journals
<1>4. lastDay[p] = LastDayOf(S.lines)
  BY DEF EndAppend, DayInvariant, DayProgress
<1>5. /\ files'["snapshot"] = IF cur[p] = "snapshot"
                              THEN [S EXCEPT !.lines = Append(S.lines, record)] ELSE S
      /\ lastDay'[p] = IF cur[p] = "snapshot" THEN record.day ELSE lastDay[p]
      /\ day' = day
  BY <1>1 DEF EndAppend, TypeOK, Journals
<1>6. CASE cur[p] = "snapshot"
  <2>1. record.day \in (LastDayOf(S.lines) + 1)..day
    BY <1>4, <1>6 DEF EndAppend, DayInvariant, DayProgress
  <2>2. /\ DaysUpTo(Append(S.lines, record), day)
        /\ LastDayOf(Append(S.lines, record)) = record.day
    BY <1>3, <2>1, DaysOfAppend DEF DayInvariant
  <2>3. /\ files'["snapshot"].lines = Append(S.lines, record)
        /\ files'["snapshot"].tail = <<>>
    BY <1>3, <1>5, <1>6 DEF File
  <2>4. Kept(files'["snapshot"]) = Append(S.lines, record)
    BY <2>3 DEF Kept
  <2>5. DayProgress(p)'
    BY <1>2, <1>5, <1>6, <2>2, <2>3 DEF DayProgress
  <2> QED
    BY <1>2, <1>5, <2>2, <2>3, <2>4, <2>5, DayInvariantOfOwner
<1>7. CASE cur[p] # "snapshot"
  <2>1. DayProgress(p)'
    BY <1>2, <1>4, <1>5, <1>7 DEF DayProgress
  <2> QED
    BY <1>2, <1>5, <1>7, <2>1, DayInvariantOfOwner DEF DayInvariant
<1> QED
  BY <1>6, <1>7

(* __exit__. *)
LEMMA StopKeepsDays ==
  ASSUME ChainInvariant, DayInvariant, NEW p \in Procs, Stop(p)
  PROVE  DayInvariant'
<1>1. pc'[p] = "down" /\ \A q \in Procs \ {p} : pc'[q] = "down"
  BY OnlyOwnerRuns DEF Stop
<1>2. DayProgress(p)' /\ UNCHANGED <<files, day>>
  BY <1>1 DEF Stop, DayProgress
<1> QED
  BY <1>1, <1>2, DayInvariantOfOwner DEF DayInvariant

(* A crash in the middle of a rewrite or of an append. *)
LEMMA CrashKeepsDays ==
  ASSUME ChainInvariant, DayInvariant, NEW p \in Procs, Crash(p)
  PROVE  DayInvariant'
<1> DEFINE S == files["snapshot"]
           T == files'["snapshot"]
<1>1. TypeOK
  BY DEF ChainInvariant
<1>2. pc'[p] = "down" /\ \A q \in Procs \ {p} : pc'[q] = "down"
  BY OnlyOwnerRuns DEF Crash
<1>3. day' = day /\ day \in Nat /\ DayProgress(p)'
  BY <1>1, <1>2 DEF Crash, DayProgress, TypeOK
<1>4. T = S \/ /\ cur[p] = "snapshot"
               /\ pc[p] \in {"rewrite", "append"}
               /\ T \in Parts(S, data[p])
  BY <1>1 DEF Crash, TypeOK, Journals
<1>5. CASE T = S
  BY <1>2, <1>3, <1>5, DayInvariantOfOwner DEF DayInvariant
<1>6. CASE cur[p] = "snapshot" /\ pc[p] = "rewrite" /\ T \in Parts(S, data[p])
  <2>1. S = Empty /\ data[p] \in Seq(Line)
    BY <1>1, <1>6 DEF ChainInvariant, RecoveryProgress, TypeOK
  <2>2. DaysUpTo(data[p], day)
    BY <1>6 DEF DayInvariant, DayProgress
  <2>3. DaysUpTo(T.lines, day) /\ DaysUpTo(Kept(T), day)
    BY <1>3, <1>6, <2>1, <2>2, DaysOfRewriteParts
  <2> QED
    BY <1>2, <1>3, <2>3, DayInvariantOfOwner
<1>7. CASE cur[p] = "snapshot" /\ pc[p] = "append" /\ T \in Parts(S, data[p])
  <2> DEFINE record == data[p][1]
  <2>1. S \in File /\ S.tail = <<>>
    BY <1>7, SnapshotFile DEF ChainInvariant, RecoveryProgress, Recovered, Journals
  <2>2. record \in Record /\ Len(data[p]) = 1 /\ data[p] \in Seq(Line)
    BY <1>1, <1>7 DEF ChainInvariant, AppendContinues, TypeOK
  <2>3. data[p] = <<record>>
    BY <2>2
  <2>4. record.day \in (LastDayOf(S.lines) + 1)..day
    BY <1>7 DEF DayInvariant, DayProgress
  <2>5. T \in Parts(S, <<record>>)
    BY <1>7, <2>3
  <2>6. DaysUpTo(T.lines, day) /\ DaysUpTo(Kept(T), day)
    BY <1>3, <2>1, <2>2, <2>4, <2>5, DaysOfAppendParts DEF DayInvariant
  <2> QED
    BY <1>2, <1>3, <2>6, DayInvariantOfOwner
<1> QED
  BY <1>4, <1>5, <1>6, <1>7

(* The passing of a day only moves the bound. *)
LEMMA OtherStepsKeepDays ==
  ASSUME ChainInvariant, DayInvariant, NextDay \/ UNCHANGED vars
  PROVE  DayInvariant'
<1>1. /\ UNCHANGED <<files, pc, cur, data, lastDay>>
      /\ day \in Nat /\ day' \in Nat /\ day <= day'
  BY DEF NextDay, vars, control, memory, ChainInvariant, TypeOK
<1>2. /\ files["snapshot"].lines \in Seq(Line)
      /\ Kept(files["snapshot"]) \in Seq(Line)
  BY SnapshotFile
<1>3. ASSUME NEW lines \in Seq(Line), DaysUpTo(lines, day)
      PROVE  DaysUpTo(lines, day')
  BY <1>1, <1>3, DayTypes DEF DaysUpTo
<1>4. /\ DaysUpTo(files'["snapshot"].lines, day')
      /\ DaysUpTo(Kept(files'["snapshot"]), day')
  BY <1>1, <1>2, <1>3 DEF DayInvariant
<1>5. ASSUME NEW p \in Procs PROVE DayProgress(p)'
  <2>1. DayProgress(p) /\ data[p] \in Seq(Line) /\ lastDay[p] \in Nat
    BY DEF DayInvariant, ChainInvariant, TypeOK
  <2>2. DaysUpTo(data[p], day) => DaysUpTo(data[p], day')
    BY <1>3, <2>1
  <2>3. data[p][1].day \in (lastDay[p] + 1)..day =>
           data[p][1].day \in (lastDay[p] + 1)..day'
    BY <1>1, <2>1
  <2> QED
    BY <1>1, <2>1, <2>2, <2>3 DEF DayProgress
<1> QED
  BY <1>4, <1>5 DEF DayInvariant

(* Every step preserves the invariant of the days (_tick,                  *)
(* append_daily_snapshot, _recover_journal).                               *)
THEOREM DayInvariantIsInductive ==
  ChainInvariant /\ DayInvariant /\ [Next]_vars => DayInvariant'
<1> SUFFICES ASSUME ChainInvariant, DayInvariant, [Next]_vars PROVE DayInvariant'
  OBVIOUS
<1>1. CASE NextDay \/ UNCHANGED vars
  BY <1>1, OtherStepsKeepDays
<1>2. ASSUME NEW p \in Procs,
             \/ Start(p) \/ Recover(p) \/ Rewrite(p) \/ Verify(p)
             \/ \E j \in Journals : BeginAppend(p, j)
             \/ EndAppend(p) \/ Stop(p) \/ Crash(p)
      PROVE  DayInvariant'
  BY <1>2, StartKeepsDays, RecoverKeepsDays, RewriteKeepsDays, VerifyKeepsDays,
     BeginAppendKeepsDays, EndAppendKeepsDays, StopKeepsDays, CrashKeepsDays
<1> QED
  BY <1>1, <1>2 DEF Next

(* At most one daily snapshot is stored for a date, whatever crashes and   *)
(* second supervisors do (append_daily_snapshot, last_daily_date).         *)
THEOREM OneSnapshotForADate == Spec => []OneSnapshotPerDay
<1>1. Init => DayInvariant
  BY DayInvariantHoldsInitially
<1>2. ChainInvariant /\ DayInvariant /\ [Next]_vars => DayInvariant'
  BY DayInvariantIsInductive
<1>3. DayInvariant => OneSnapshotPerDay
  BY DEF DayInvariant, DaysUpTo, OneSnapshotPerDay
<1> QED
  BY <1>1, <1>2, <1>3, ChainInvariantHolds, PTL DEF Spec
-----------------------------------------------------------------------------
(* What a journal holds is not dropped. *)

(* The lines a prefix and a continuation have in common.                   *)
LEMMA PrefixStays ==
  ASSUME NEW lines \in Seq(Line), NEW more \in Seq(Line)
  PROVE  Range(lines) \subseteq Range(lines \o more)
<1> SUFFICES ASSUME NEW i \in DOMAIN lines PROVE lines[i] \in Range(lines \o more)
  BY DEF Range
<1>1. i \in DOMAIN (lines \o more) /\ (lines \o more)[i] = lines[i]
  OBVIOUS
<1> QED
  BY <1>1 DEF Range

(* _append_fsynced, done or interrupted, only adds to a file.              *)
LEMMA PartsOfAppendStay ==
  ASSUME NEW f \in File, NEW record \in Line, NEW file \in Parts(f, <<record>>)
  PROVE  Range(f.lines) \subseteq Range(file.lines)
<1>1. PICK n \in 0..1 : file.lines = f.lines \o SubSeq(<<record>>, 1, n)
  BY DEF Parts
<1>2. <<record>> \in Seq(Line) /\ f.lines \in Seq(Line)
  BY DEF File
<1>3. SubSeq(<<record>>, 1, n) \in Seq(Line)
  BY <1>2
<1> QED
  BY <1>1, <1>2, <1>3, PrefixStays

(* The file of j does not lose lines, and nobody stops rewriting it.       *)
LEMMA HeldOfQuietStep ==
  ASSUME NEW j \in Journals,
         Range(files[j].lines) \subseteq Range(files'[j].lines),
         \A p \in Rewriting(j) : p \in Rewriting(j)' /\ data'[p] = data[p]
  PROVE  Held(j) \subseteq Held(j)'
  BY DEF Held

(* A step of a process that is not rewriting, and that changes no file.    *)
LEMMA QuietStepHolds ==
  ASSUME TypeOK, NEW j \in Journals, NEW p \in Procs, pc[p] # "rewrite",
         files' = files,
         \A q \in Procs \ {p} : pc'[q] = pc[q] /\ cur'[q] = cur[q] /\ data'[q] = data[q]
  PROVE  Held(j) \subseteq Held(j)'
  BY HeldOfQuietStep DEF Rewriting

(* Recover: what is truncated is in memory. *)
LEMMA RecoverHolds ==
  ASSUME TypeOK, NEW j \in Journals, NEW p \in Procs, Recover(p)
  PROVE  Held(j) \subseteq Held(j)'
<1>1. /\ pc[p] = "recover" /\ cur' = cur
      /\ \A q \in Procs \ {p} : pc'[q] = pc[q] /\ cur'[q] = cur[q] /\ data'[q] = data[q]
  BY DEF Recover, TypeOK
<1>2. CASE files[cur[p]].tail = <<>>
  BY <1>1, <1>2, QuietStepHolds DEF Recover
<1>3. CASE files[cur[p]].tail # <<>> /\ cur[p] # j
  <2>1. files'[j] = files[j]
    BY <1>3 DEF Recover, TypeOK
  <2>2. \A q \in Rewriting(j) : q \in Rewriting(j)' /\ data'[q] = data[q]
    BY <1>1 DEF Rewriting
  <2> QED
    BY <2>1, <2>2, HeldOfQuietStep
<1>4. CASE files[cur[p]].tail # <<>> /\ cur[p] = j
  <2>1. /\ p \in Rewriting(j)' /\ data'[p] = Kept(files[j])
        /\ \A q \in Rewriting(j) : q \in Rewriting(j)' /\ data'[q] = data[q]
    BY <1>1, <1>4 DEF Recover, Rewriting, TypeOK
  <2>2. Range(files[j].lines) \subseteq Range(Kept(files[j]))
    BY DEF Kept, Range, TypeOK, File
  <2>3. Range(data'[p]) \subseteq Held(j)'
    BY <2>1 DEF Held
  <2>4. \A q \in Rewriting(j) : Range(data[q]) \subseteq Held(j)'
    BY <2>1 DEF Held
  <2> QED
    BY <2>1, <2>2, <2>3, <2>4 DEF Held
<1> QED
  BY <1>2, <1>3, <1>4

(* Rewrite: what was in memory is in the file. *)
LEMMA RewriteHolds ==
  ASSUME ChainInvariant, NEW j \in Journals, NEW p \in Procs, Rewrite(p)
  PROVE  Held(j) \subseteq Held(j)'
<1> USE DEF ChainInvariant
<1>1. /\ pc[p] = "rewrite" /\ cur' = cur /\ data' = data
      /\ \A q \in Procs \ {p} : pc'[q] = pc[q]
      /\ files' = [files EXCEPT ![cur[p]] = [lines |-> data[p], tail |-> <<>>]]
  BY DEF Rewrite, memory, TypeOK
<1>2. CASE cur[p] # j
  <2>1. files'[j] = files[j]
    BY <1>1, <1>2 DEF TypeOK
  <2>2. \A q \in Rewriting(j) : q \in Rewriting(j)' /\ data'[q] = data[q]
    BY <1>1, <1>2 DEF Rewriting
  <2> QED
    BY <2>1, <2>2, HeldOfQuietStep
<1>3. CASE cur[p] = j
  <2>1. files[j] = Empty /\ files'[j].lines = data[p]
    BY <1>1, <1>3 DEF RecoveryProgress, TypeOK
  <2>2. Range(files[j].lines) = {}
    BY <2>1 DEF Empty, Range
  <2>3. Range(data[p]) \subseteq Held(j)'
    BY <2>1 DEF Held
  <2>4. ASSUME NEW q \in Rewriting(j) PROVE Range(data[q]) \subseteq Held(j)'
    <3>1. CASE q = p
      BY <3>1, <2>3
    <3>2. CASE q # p
      BY <3>2, <1>1 DEF Rewriting, Held
    <3> QED
      BY <3>1, <3>2
  <2> QED
    BY <2>2, <2>4 DEF Held
<1> QED
  BY <1>2, <1>3

(* EndAppend: the file has one line more. *)
LEMMA EndAppendHolds ==
  ASSUME ChainInvariant, NEW j \in Journals, NEW p \in Procs, EndAppend(p)
  PROVE  Held(j) \subseteq Held(j)'
<1> USE DEF ChainInvariant
<1>1. /\ pc[p] = "append" /\ cur' = cur /\ data' = data
      /\ \A q \in Procs \ {p} : pc'[q] = pc[q]
      /\ files' = [files EXCEPT ![cur[p]].lines = Append(@, data[p][1])]
  BY DEF EndAppend, TypeOK
<1>2. \A q \in Rewriting(j) : q \in Rewriting(j)' /\ data'[q] = data[q]
  BY <1>1 DEF Rewriting
<1>3. data[p][1] \in Line /\ files[j] \in File /\ files[j].lines \in Seq(Line)
  BY <1>1 DEF AppendContinues, Line, TypeOK, File
<1>4. CASE cur[p] # j
  <2>1. files'[j] = files[j]
    BY <1>1, <1>4 DEF TypeOK
  <2> QED
    BY <2>1, <1>2, HeldOfQuietStep
<1>5. CASE cur[p] = j
  <2>1. files'[j].lines = files[j].lines \o <<data[p][1]>>
    <3>1. files'[j].lines = Append(files[j].lines, data[p][1])
      BY <1>1, <1>5 DEF TypeOK, File
    <3> QED
      BY <3>1, <1>3
  <2>2. <<data[p][1]>> \in Seq(Line)
    BY <1>3
  <2> QED
    BY <2>1, <2>2, <1>2, <1>3, PrefixStays, HeldOfQuietStep
<1> QED
  BY <1>4, <1>5

(* Crash: lines are missing only if j was being rewritten. *)
LEMMA CrashHolds ==
  ASSUME ChainInvariant, NEW j \in Journals, NEW p \in Procs, Crash(p), p \notin Rewriting(j)
  PROVE  Held(j) \subseteq Held(j)'
<1> USE DEF ChainInvariant
<1>1. /\ pc[p] # "down" /\ cur' = cur /\ data' = data
      /\ \A q \in Procs \ {p} : pc'[q] = pc[q]
  BY DEF Crash, memory, TypeOK
<1>2. \A q \in Rewriting(j) : q \in Rewriting(j)' /\ data'[q] = data[q]
  BY <1>1 DEF Rewriting
<1>3. CASE pc[p] \notin {"rewrite", "append"} \/ cur[p] # j
  <2>1. files'[j] = files[j]
    BY <1>3 DEF Crash, TypeOK
  <2> QED
    BY <2>1, <1>2, HeldOfQuietStep
<1>4. CASE pc[p] = "append" /\ cur[p] = j
  <2>1. data[p] = <<data[p][1]>> /\ data[p][1] \in Line /\ files[j] \in File
    BY <1>4 DEF AppendContinues, Line, TypeOK
  <2>2. PICK file \in Parts(files[j], <<data[p][1]>>) :
           files' = [files EXCEPT ![cur[p]] = file]
    BY <1>4, <2>1 DEF Crash
  <2>3. files'[j] = file
    BY <2>2, <1>4 DEF TypeOK
  <2> QED
    BY <2>1, <2>2, <2>3, <1>2, PartsOfAppendStay, HeldOfQuietStep
<1> QED
  BY <1>3, <1>4 DEF Rewriting

(* A record whose append has returned is lost only if a process dies while *)
(* it writes a truncated journal again (_recover_journal).                 *)
THEOREM LossTakesTwoCrashes == Spec => LossNeedsTwoCrashes
<1> DEFINE Holds == \A j \in Journals :
             (Range(committed[j]) \intersect Held(j)) \subseteq Held(j)'
             \/ \E p \in Rewriting(j) : pc'[p] = "down"
<1>1. ChainInvariant /\ [Next]_vars => [Holds]_vars
  <2> SUFFICES ASSUME ChainInvariant, Next, NEW j \in Journals,
                      ~\E p \in Rewriting(j) : pc'[p] = "down"
               PROVE  Held(j) \subseteq Held(j)'
    OBVIOUS
  <2>1. TypeOK
    BY DEF ChainInvariant
  <2>2. CASE NextDay
    BY <2>2, HeldOfQuietStep DEF NextDay, control, memory, Rewriting
  <2>3. ASSUME NEW p \in Procs, Start(p) \/ Verify(p) \/ Stop(p)
                                \/ \E k \in Journals : BeginAppend(p, k)
        PROVE  Held(j) \subseteq Held(j)'
    <3>1. /\ pc[p] # "rewrite" /\ files' = files
          /\ \A q \in Procs \ {p} :
                pc'[q] = pc[q] /\ cur'[q] = cur[q] /\ data'[q] = data[q]
      BY <2>1, <2>3 DEF Start, Verify, Stop, BeginAppend, memory, TypeOK
    <3> QED
      BY <2>1, <3>1, QuietStepHolds
  <2>4. ASSUME NEW p \in Procs, Recover(p) \/ Rewrite(p) \/ EndAppend(p)
        PROVE  Held(j) \subseteq Held(j)'
    BY <2>1, <2>4, RecoverHolds, RewriteHolds, EndAppendHolds
  <2>5. ASSUME NEW p \in Procs, Crash(p)
        PROVE  Held(j) \subseteq Held(j)'
    <3>1. pc'[p] = "down"
      BY <2>1, <2>5 DEF Crash, TypeOK
    <3> QED
      BY <2>5, <3>1, CrashHolds
  <2> QED
    BY <2>2, <2>3, <2>4, <2>5 DEF Next
<1> QED
  BY <1>1, ChainInvariantHolds, PTL DEF Spec, LossNeedsTwoCrashes
=============================================================================
