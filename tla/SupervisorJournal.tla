------------------------- MODULE SupervisorJournal -------------------------
(***************************************************************************)
(* SupervisorStateStore (campaign_supervisor.py): the two hash-chained     *)
(* journals of a campaign supervisor, events.jsonl and                     *)
(* daily-snapshots.jsonl, written by one process at a time, and the        *)
(* recovery of both when a supervisor starts.                              *)
(*                                                                         *)
(* A file is a sequence of lines and an unterminated tail.  A line is a    *)
(* record or garbage, which is what a torn record becomes when a newline   *)
(* is put after it.  The hash of a record is represented by a serial       *)
(* number that no other record has.                                        *)
(***************************************************************************)
EXTENDS Naturals, Sequences, Functions

CONSTANTS
    Procs,        \* processes of observe-supervise on one state directory
    MaxRecords,   \* bound: records ever written
    MaxDay,       \* bound: days of the database clock
    NoProc        \* nobody holds supervisor.lock

ASSUME ProcsAssumption == NoProc \notin Procs
ASSUME BoundsAssumption == MaxRecords \in Nat /\ MaxDay \in Nat

VARIABLES
    files,      \* content of each journal
    owner,      \* holder of the flock on supervisor.lock
    pc,         \* control of each process
    cur,        \* the journal a process is recovering or writing
    data,       \* what it has in memory for that journal
    head,       \* _event_head and _daily_head (0 is None)
    lastDay,    \* _last_daily_date (0 is None)
    day,        \* date of the database clock
    serial,     \* records written so far
    committed   \* records whose append has returned, oldest first

control == <<owner, pc>>
memory == <<cur, data, head, lastDay>>
vars == <<files, control, memory, day, serial, committed>>

-----------------------------------------------------------------------------
Journals == {"event", "snapshot"}
Record == [id : Nat \ {0}, prev : Nat, day : Nat]
Garbage == [id |-> 0, prev |-> 0, day |-> 0]
Line == Record \union {Garbage}
File == [lines : Seq(Line), tail : {t \in Seq(Line) : Len(t) <= 1}]
Empty == [lines |-> <<>>, tail |-> <<>>]

LastId(lines) == IF lines = <<>> THEN 0 ELSE lines[Len(lines)].id

(* The checks of _recover_journal: every line is a record whose            *)
(* previous_hash_sha256 is the hash of the line before it.                 *)
Chained(lines) ==
    /\ Garbage \notin Range(lines)
    /\ \A i \in DOMAIN lines :
          lines[i].prev = IF i = 1 THEN 0 ELSE lines[i - 1].id

(* Mutant: the unterminated tail is given a newline and kept.              *)
KeptWithTail(f) == f.lines \o f.tail

(* Mutant: rsplit takes one line more.                                     *)
KeptButLast(f) == IF f.tail = <<>> \/ f.lines = <<>> THEN f.lines
                  ELSE SubSeq(f.lines, 1, Len(f.lines) - 1)

(* data.rsplit(b"\n", 1)[0]: without any newline in the file this is the   *)
(* tail itself, which is then given a newline.                             *)
Kept(f) == IF f.tail = <<>> \/ f.lines # <<>> THEN f.lines ELSE f.tail

-----------------------------------------------------------------------------
Init ==
    /\ files = [j \in Journals |-> Empty]
    /\ owner = NoProc
    /\ pc = [p \in Procs |-> "down"]
    /\ cur = [p \in Procs |-> "event"]
    /\ data = [p \in Procs |-> <<>>]
    /\ head = [p \in Procs |-> [j \in Journals |-> 0]]
    /\ lastDay = [p \in Procs |-> 0]
    /\ day = 1
    /\ serial = 0
    /\ committed = [j \in Journals |-> <<>>]

(* Mutant: the lock file is opened and not locked.                         *)
StartUnlocked(p) ==
    /\ pc[p] = "down"
    /\ owner' = p
    /\ pc' = [pc EXCEPT ![p] = "recover"]
    /\ cur' = [cur EXCEPT ![p] = "event"]
    /\ head' = [head EXCEPT ![p] = [j \in Journals |-> 0]]
    /\ lastDay' = [lastDay EXCEPT ![p] = 0]
    /\ UNCHANGED <<files, data, day, serial, committed>>

(* __enter__ takes the lock without waiting; with the lock taken the       *)
(* command ends in SUPERVISOR_ALREADY_RUNNING.                             *)
Start(p) ==
    /\ pc[p] = "down"
    /\ owner = NoProc
    /\ owner' = p
    /\ pc' = [pc EXCEPT ![p] = "recover"]
    /\ cur' = [cur EXCEPT ![p] = "event"]
    /\ head' = [head EXCEPT ![p] = [j \in Journals |-> 0]]
    /\ lastDay' = [lastDay EXCEPT ![p] = 0]
    /\ UNCHANGED <<files, data, day, serial, committed>>

(* _recover_journal reads the file; one with an unterminated tail is       *)
(* opened with O_TRUNC, to be written again.                               *)
Recover(p) ==
    LET f == files[cur[p]]
    IN  /\ pc[p] = "recover"
        /\ data' = [data EXCEPT ![p] = Kept(f)]
        /\ IF f.tail = <<>>
           THEN /\ pc' = [pc EXCEPT ![p] = "verify"]
                /\ UNCHANGED files
           ELSE /\ pc' = [pc EXCEPT ![p] = "rewrite"]
                /\ files' = [files EXCEPT ![cur[p]] = Empty]
        /\ UNCHANGED <<owner, cur, head, lastDay, day, serial, committed>>

Rewrite(p) ==
    /\ pc[p] = "rewrite"
    /\ files' = [files EXCEPT ![cur[p]] = [lines |-> data[p], tail |-> <<>>]]
    /\ pc' = [pc EXCEPT ![p] = "verify"]
    /\ UNCHANGED <<owner, memory, day, serial, committed>>

(* Mutant: the date of the last snapshot is not recovered.                 *)
VerifyForgetsDay(p) ==
    LET ok == Chained(data[p])
    IN  /\ pc[p] = "verify"
        /\ head' = [head EXCEPT ![p][cur[p]] = IF ok THEN LastId(data[p]) ELSE 0]
        /\ pc' = [pc EXCEPT ![p] =
                    IF ~ok THEN "down" ELSE IF cur[p] = "event" THEN "recover" ELSE "up"]
        /\ cur' = [cur EXCEPT ![p] = "snapshot"]
        /\ owner' = IF ok THEN owner ELSE NoProc
        /\ UNCHANGED <<files, data, lastDay, day, serial, committed>>

(* The chain is checked, events first and snapshots second; a broken one   *)
(* ends the process in SUPERVISOR_JOURNAL_INVALID.                         *)
Verify(p) ==
    LET ok == Chained(data[p])
    IN  /\ pc[p] = "verify"
        /\ head' = [head EXCEPT ![p][cur[p]] = IF ok THEN LastId(data[p]) ELSE 0]
        /\ lastDay' = [lastDay EXCEPT ![p] =
                         IF ok /\ cur[p] = "snapshot" /\ data[p] # <<>>
                         THEN data[p][Len(data[p])].day ELSE @]
        /\ pc' = [pc EXCEPT ![p] =
                    IF ~ok THEN "down" ELSE IF cur[p] = "event" THEN "recover" ELSE "up"]
        /\ cur' = [cur EXCEPT ![p] = "snapshot"]
        /\ owner' = IF ok THEN owner ELSE NoProc
        /\ UNCHANGED <<files, data, day, serial, committed>>

(* append_event at any time, append_daily_snapshot in the first tick of a  *)
(* day; the record is built on the head in memory.                         *)
BeginAppend(p, j) ==
    /\ pc[p] = "up"
    /\ serial < MaxRecords
    /\ j = "snapshot" => lastDay[p] # day
    /\ serial' = serial + 1
    /\ data' = [data EXCEPT ![p] = <<[id |-> serial', prev |-> head[p][j], day |-> day]>>]
    /\ cur' = [cur EXCEPT ![p] = j]
    /\ pc' = [pc EXCEPT ![p] = "append"]
    /\ UNCHANGED <<files, owner, head, lastDay, day, committed>>

(* _append_fsynced has returned and the head moves to the new record.  The *)
(* tail is empty while a supervisor runs.                                  *)
EndAppend(p) ==
    LET record == data[p][1]
        j == cur[p]
    IN  /\ pc[p] = "append"
        /\ files' = [files EXCEPT ![j].lines = Append(@, record)]
        /\ committed' = [committed EXCEPT ![j] = Append(@, record)]
        /\ head' = [head EXCEPT ![p][j] = record.id]
        /\ lastDay' = [lastDay EXCEPT ![p] = IF j = "snapshot" THEN record.day ELSE @]
        /\ pc' = [pc EXCEPT ![p] = "up"]
        /\ UNCHANGED <<owner, cur, data, day, serial>>

(* __exit__ releases the lock.                                             *)
Stop(p) ==
    /\ pc[p] = "up"
    /\ pc' = [pc EXCEPT ![p] = "down"]
    /\ owner' = NoProc
    /\ UNCHANGED <<files, memory, day, serial, committed>>

(* What file f may hold when appending the lines ls to it stops half way:  *)
(* some of the lines, then a part of the next one or all of it but its     *)
(* newline.                                                                *)
Parts(f, ls) ==
    UNION {{[lines |-> f.lines \o SubSeq(ls, 1, n), tail |-> t] :
               t \in IF n = Len(ls) THEN {<<>>} ELSE {<<>>, <<Garbage>>, <<ls[n + 1]>>}} :
           n \in 0..Len(ls)}

(* The process is killed or the host goes down: the lock is released and   *)
(* the file being written keeps a part of what was written.                *)
Crash(p) ==
    /\ pc[p] # "down"
    /\ pc' = [pc EXCEPT ![p] = "down"]
    /\ owner' = NoProc
    /\ IF pc[p] \in {"rewrite", "append"}
       THEN \E f \in Parts(files[cur[p]], data[p]) : files' = [files EXCEPT ![cur[p]] = f]
       ELSE UNCHANGED files
    /\ UNCHANGED <<memory, day, serial, committed>>

NextDay ==
    /\ day < MaxDay
    /\ day' = day + 1
    /\ UNCHANGED <<files, control, memory, serial, committed>>

Next ==
    \/ NextDay
    \/ \E p \in Procs : \/ Start(p) \/ Recover(p) \/ Rewrite(p) \/ Verify(p)
                        \/ \E j \in Journals : BeginAppend(p, j)
                        \/ EndAppend(p) \/ Stop(p) \/ Crash(p)

Spec == Init /\ [][Next]_vars

-----------------------------------------------------------------------------
(* Properties. *)

(* Every variable has its type. *)
TypeOK ==
    /\ files \in [Journals -> File]
    /\ owner \in Procs \union {NoProc}
    /\ pc \in [Procs -> {"down", "recover", "rewrite", "verify", "up", "append"}]
    /\ cur \in [Procs -> Journals]
    /\ data \in [Procs -> Seq(Line)]
    /\ head \in [Procs -> [Journals -> Nat]]
    /\ lastDay \in [Procs -> Nat]
    /\ day \in Nat
    /\ serial \in Nat
    /\ committed \in [Journals -> Seq(Record)]

(* The only damage that crashes at any point of writing and of recovery,   *)
(* and supervisors started on top of each other, can do to a journal is a  *)
(* single torn record in front; a journal with a second line is a chain.   *)
Intact(lines) == Chained(lines) \/ lines = <<Garbage>>
ChainIsIntact == \A j \in Journals : Intact(files[j].lines)

(* The head a supervisor chains its next record to, which it keeps in      *)
(* memory, is the last record of the file: nobody else has written to it,  *)
(* and recovery has missed nothing.                                        *)
HeadIsLastRecord ==
    \A p \in Procs : pc[p] \in {"up", "append"} =>
        \A j \in Journals : head[p][j] = LastId(files[j].lines)

(* "at most one daily snapshot for a UTC date", also when the supervisor   *)
(* is killed between the snapshot and the end of its tick.                 *)
Days(lines) == \A i, k \in DOMAIN lines : i < k => lines[i].day < lines[k].day
OneSnapshotPerDay == Days(files["snapshot"].lines)

(* A record whose append has returned is lost only if a process dies while *)
(* it writes a truncated journal again (_recover_journal): until then the  *)
(* record is in the file or with the process that is going to write it.    *)
Rewriting(j) == {p \in Procs : pc[p] = "rewrite" /\ cur[p] = j}
Held(j) == Range(files[j].lines) \union UNION {Range(data[p]) : p \in Rewriting(j)}
LossNeedsTwoCrashes ==
    [][\A j \in Journals : (Range(committed[j]) \intersect Held(j)) \subseteq Held(j)'
          \/ \E p \in Rewriting(j) : pc'[p] = "down"]_vars

-----------------------------------------------------------------------------
(* Control and lock: the process past __enter__ is the owner of the lock.  *)
OwnerRuns == \A p \in Procs : pc[p] # "down" <=> owner = p

(* What recovery will keep of each file is intact.                         *)
KeptIsIntact == \A j \in Journals : Intact(Kept(files[j]))

(* Journal j has been recovered by p: it has no tail, its lines are a      *)
(* chain and the head is the last of them.                                 *)
Recovered(p, j) ==
    /\ files[j].tail = <<>>
    /\ Chained(files[j].lines)
    /\ head[p][j] = LastId(files[j].lines)

RecoveryProgress ==
    \A p \in Procs :
        /\ pc[p] = "rewrite" => files[cur[p]] = Empty /\ Intact(data[p])
        /\ pc[p] = "verify" => files[cur[p]] = [lines |-> data[p], tail |-> <<>>]
        /\ pc[p] \in {"recover", "rewrite", "verify"} /\ cur[p] = "snapshot" =>
              Recovered(p, "event")
        /\ pc[p] \in {"up", "append"} => \A j \in Journals : Recovered(p, j)

(* The record being appended continues the journal.                        *)
AppendContinues ==
    \A p \in Procs : pc[p] = "append" =>
        /\ Len(data[p]) = 1
        /\ data[p][1] \in Record
        /\ data[p][1].prev = head[p][cur[p]]

(* The inductive invariant: what each process has recovered so far, what   *)
(* recovery would keep of each file, and the record under way.             *)
ChainInvariant ==
    /\ TypeOK
    /\ OwnerRuns
    /\ ChainIsIntact
    /\ KeptIsIntact
    /\ RecoveryProgress
    /\ AppendContinues

(* The days of a journal increase up to d. *)
DaysUpTo(lines, d) == Days(lines) /\ \A i \in DOMAIN lines : lines[i].day <= d
LastDayOf(lines) == IF lines = <<>> THEN 0 ELSE lines[Len(lines)].day

(* What process p knows of the days: nothing before the snapshots have     *)
(* been recovered, and then the date of the last line.                     *)
DayProgress(p) ==
    /\ pc[p] \in {"recover", "rewrite", "verify"} => lastDay[p] = 0
    /\ pc[p] = "rewrite" /\ cur[p] = "snapshot" => DaysUpTo(data[p], day)
    /\ pc[p] \in {"up", "append"} => lastDay[p] = LastDayOf(files["snapshot"].lines)
    /\ pc[p] = "append" /\ cur[p] = "snapshot" =>
          data[p][1].day \in (lastDay[p] + 1)..day

(* The inductive invariant of the daily snapshots. *)
DayInvariant ==
    /\ DaysUpTo(files["snapshot"].lines, day)
    /\ DaysUpTo(Kept(files["snapshot"]), day)
    /\ \A p \in Procs : DayProgress(p)
=============================================================================
