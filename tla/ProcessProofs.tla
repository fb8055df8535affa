---------------------------- MODULE ProcessProofs ----------------------------
(***************************************************************************)
(* Proofs about module Process: the table of processes and the event log   *)
(* account for the life of every process, exec reports what the program    *)
(* returned, and a program runs exactly when its image has all it needs,   *)
(* for any package, any files and any number of processes and events.      *)
(***************************************************************************)
EXTENDS Process, SequenceTheorems, FiniteSetTheorems, WellFoundedInduction, TLAPS

\* More time than the default for each leaf.
USE SMTT(20), ZenonT(20)

-----------------------------------------------------------------------------
(* Sequences whose elements have no common type worth naming.              *)

IsSeq(s) == \E S : s \in Seq(S)

\* The length and the domain of a sequence.
LEMMA SeqLen ==
  ASSUME NEW s, IsSeq(s)
  PROVE  Len(s) \in Nat /\ DOMAIN s = 1 .. Len(s)
<1>1. PICK S : s \in Seq(S)
  BY DEF IsSeq
<1> QED BY <1>1, LenProperties

\* The empty sequence is one.
LEMMA SeqEmpty == IsSeq(<<>>) /\ Len(<<>>) = 0 /\ DOMAIN <<>> = {}
<1>1. <<>> \in Seq({}) /\ Len(<<>>) = 0
  BY EmptySeq
<1>2. DOMAIN <<>> = 1 .. 0
  BY <1>1, LenProperties
<1> QED BY <1>1, <1>2 DEF IsSeq

\* What Append does.
LEMMA SeqAppend ==
  ASSUME NEW s, IsSeq(s), NEW e
  PROVE  /\ IsSeq(Append(s, e))
         /\ Len(Append(s, e)) = Len(s) + 1
         /\ \A i \in 1 .. Len(s) : Append(s, e)[i] = s[i]
         /\ Append(s, e)[Len(s) + 1] = e
<1>1. PICK S : s \in Seq(S)
  BY DEF IsSeq
<1> DEFINE T == S \union {e}
<1>2. s \in Seq(T) /\ e \in T
  BY <1>1, SeqMonotonic
<1> HIDE DEF T
<1> QED BY <1>2, AppendProperties DEF IsSeq

\* What replacing one element does.
LEMMA SeqExcept ==
  ASSUME NEW s, IsSeq(s), NEW n \in 1 .. Len(s), NEW e
  PROVE  /\ IsSeq([s EXCEPT ![n] = e])
         /\ Len([s EXCEPT ![n] = e]) = Len(s)
         /\ [s EXCEPT ![n] = e][n] = e
         /\ \A i \in 1 .. Len(s) : i # n => [s EXCEPT ![n] = e][i] = s[i]
<1>1. PICK S : s \in Seq(S)
  BY DEF IsSeq
<1> DEFINE T == S \union {e}
<1>2. s \in Seq(T) /\ e \in T
  BY <1>1, SeqMonotonic
<1> HIDE DEF T
<1>3. /\ [s EXCEPT ![n] = e] \in Seq(T)
      /\ Len([s EXCEPT ![n] = e]) = Len(s)
      /\ \A j \in 1 .. Len(s) : [s EXCEPT ![n] = e][j] = IF j = n THEN e ELSE s[j]
  BY <1>2, ExceptSeq
<1> QED BY <1>3 DEF IsSeq

\* What is left of a sequence from m on.
LEMMA SeqFrom ==
  ASSUME NEW s, IsSeq(s), NEW m \in 1 .. Len(s) + 1
  PROVE  /\ IsSeq(SubSeq(s, m, Len(s)))
         /\ Len(SubSeq(s, m, Len(s))) = Len(s) + 1 - m
         /\ \A i \in 1 .. Len(s) + 1 - m : SubSeq(s, m, Len(s))[i] = s[m + i - 1]
<1>1. PICK S : s \in Seq(S)
  BY DEF IsSeq
<1>2. Len(s) \in Nat /\ \A i \in m .. Len(s) : s[i] \in S
  BY <1>1, LenProperties, ElementOfSeq
<1>3. /\ SubSeq(s, m, Len(s)) \in Seq(S)
      /\ Len(SubSeq(s, m, Len(s))) = IF m <= Len(s) THEN Len(s) - m + 1 ELSE 0
      /\ \A i \in 1 .. Len(s) - m + 1 : SubSeq(s, m, Len(s))[i] = s[m + i - 1]
  BY <1>2, SubSeqProperties
<1> DEFINE t == SubSeq(s, m, Len(s))
<1>4. IsSeq(t)
  BY <1>3, Zenon DEF IsSeq
<1> HIDE DEF t
<1>5. Len(t) = Len(s) + 1 - m
  BY <1>2, <1>3 DEF t
<1>6. \A i \in 1 .. Len(s) + 1 - m : t[i] = s[m + i - 1]
  BY <1>2, <1>3 DEF t
<1> QED BY <1>4, <1>5, <1>6 DEF t

\* The tail of a sequence that is not empty.
LEMMA SeqTail ==
  ASSUME NEW s, IsSeq(s), Len(s) > 0
  PROVE  Tail(s) = SubSeq(s, 2, Len(s))
<1>1. PICK S : s \in Seq(S)
  BY DEF IsSeq
<1> QED BY <1>1, EmptySeq, TailIsSubSeq

-----------------------------------------------------------------------------
(* The table of processes: a process's pid is its place in the table, so   *)
(* the search by pid finds it.                                             *)

RecordOK(r, pid) ==
  /\ r = [pid |-> pid, name |-> r.name, state |-> r.state, exit_code |-> r.exit_code]
  /\ r.state \in {"Running", "Waiting", "Exited"}
  /\ (r.state = "Exited") <=> (r.exit_code # None)

ManagerOK(m) ==
  /\ m = [records |-> m.records, next_pid |-> m.next_pid,
          init_pid |-> m.init_pid, shell_pid |-> m.shell_pid]
  /\ IsSeq(m.records)
  /\ m.next_pid = Len(m.records) + 1
  /\ \A i \in 1 .. Len(m.records) : RecordOK(m.records[i], i)

\* m2 is m1 with another record of pid.
Replaced(m1, m2, pid) ==
  /\ Len(m2.records) = Len(m1.records)
  /\ m2.init_pid = m1.init_pid
  /\ m2.next_pid = m1.next_pid
  /\ \A i \in 1 .. Len(m1.records) : i # pid => m2.records[i] = m1.records[i]

\* The pid of a sound record.
LEMMA RecordPid ==
  ASSUME NEW r, NEW pid, RecordOK(r, pid)
  PROVE  r.pid = pid
<1> DEFINE new == [pid |-> pid, name |-> r.name, state |-> r.state, exit_code |-> r.exit_code]
<1>1. r = new /\ new.pid = pid
  BY DEF RecordOK
<1> HIDE DEF new
<1> QED BY <1>1

\* The search by pid.
LEMMA FindIsPid ==
  ASSUME NEW m, ManagerOK(m), NEW pid \in 1 .. Len(m.records)
  PROVE  Find(m, pid) = pid
<1>1. DOMAIN m.records = 1 .. Len(m.records) /\ Len(m.records) \in Nat
  BY SeqLen DEF ManagerOK
<1>2. \A i \in 1 .. Len(m.records) : m.records[i].pid = i
  BY RecordPid DEF ManagerOK
<1> DEFINE Q(i) == m.records[i].pid = pid /\ \A j \in 1 .. i - 1 : m.records[j].pid # pid
<1>3. \A i \in 1 .. Len(m.records) : Q(i) <=> i = pid
  BY <1>1, <1>2
<1> HIDE DEF Q
<1>4. (CHOOSE i \in 1 .. Len(m.records) : Q(i)) = pid
  BY <1>3
<1> QED BY <1>1, <1>4 DEF Find, Q

\* Replacing the record of a process by a sound one.
LEMMA ReplaceRecord ==
  ASSUME NEW m, ManagerOK(m), NEW pid \in 1 .. Len(m.records), NEW r, RecordOK(r, pid)
  PROVE  LET m2 == [m EXCEPT !.records = [m.records EXCEPT ![pid] = r]]
         IN  ManagerOK(m2) /\ Replaced(m, m2, pid) /\ m2.records[pid] = r
<1> DEFINE recs == [m.records EXCEPT ![pid] = r]
<1>1. /\ IsSeq(recs) /\ Len(recs) = Len(m.records) /\ recs[pid] = r
      /\ \A i \in 1 .. Len(m.records) : i # pid => recs[i] = m.records[i]
  BY SeqExcept DEF ManagerOK
<1> HIDE DEF recs
<1> DEFINE m2 == [m EXCEPT !.records = recs]
<1>2. m2 = [records |-> recs, next_pid |-> m.next_pid,
            init_pid |-> m.init_pid, shell_pid |-> m.shell_pid]
  BY DEF ManagerOK
<1> HIDE DEF m2
<1>3. \A i \in 1 .. Len(recs) : RecordOK(recs[i], i)
  BY <1>1 DEF ManagerOK
<1>4. ManagerOK(m2)
  BY <1>1, <1>2, <1>3 DEF ManagerOK
<1>5. Replaced(m, m2, pid) /\ m2.records[pid] = r
  BY <1>1, <1>2 DEF Replaced
<1> QED BY <1>4, <1>5 DEF m2, recs

\* ProcessManager::spawn adds a running process at the end.
LEMMA NewRecordEffect ==
  ASSUME NEW m, ManagerOK(m), NEW name, m.next_pid < U64_MAX, U64_MAX \in Nat
  PROVE  LET m2 == NewRecord(m, name)
         IN  /\ ManagerOK(m2)
             /\ Len(m2.records) = Len(m.records) + 1
             /\ m2.init_pid = m.init_pid
             /\ \A i \in 1 .. Len(m.records) : m2.records[i] = m.records[i]
             /\ m2.records[Len(m.records) + 1].state = "Running"
<1> DEFINE new == [pid |-> m.next_pid, name |-> name, state |-> "Running", exit_code |-> None]
           recs == Append(m.records, new)
           m2 == NewRecord(m, name)
<1>1. Len(m.records) \in Nat /\ m.next_pid = Len(m.records) + 1
  BY SeqLen DEF ManagerOK
<1>2. RecordOK(new, m.next_pid) /\ new.state = "Running"
  BY DEF RecordOK
<1>3. m2 = [m EXCEPT !.records = recs, !.next_pid = saturating_inc(m.next_pid)]
  BY DEF NewRecord
<1> HIDE DEF new, m2
<1>4. /\ IsSeq(recs) /\ Len(recs) = Len(m.records) + 1 /\ recs[Len(m.records) + 1] = new
      /\ \A i \in 1 .. Len(m.records) : recs[i] = m.records[i]
  BY SeqAppend DEF ManagerOK
<1> HIDE DEF recs
<1>5. saturating_inc(m.next_pid) = m.next_pid + 1
  BY DEF saturating_inc
<1>6. m2 = [records |-> recs, next_pid |-> m.next_pid + 1,
            init_pid |-> m.init_pid, shell_pid |-> m.shell_pid]
  BY <1>3, <1>5, Zenon DEF ManagerOK
<1>7. \A i \in 1 .. Len(recs) : RecordOK(recs[i], i)
  <2> TAKE i \in 1 .. Len(recs)
  <2>1. CASE i \in 1 .. Len(m.records)
    BY <2>1, <1>4 DEF ManagerOK
  <2>2. CASE i = Len(m.records) + 1
    BY <2>2, <1>1, <1>2, <1>4
  <2> QED BY <2>1, <2>2, <1>1, <1>4
<1>8. ManagerOK(m2)
  BY <1>1, <1>4, <1>6, <1>7 DEF ManagerOK
<1> QED BY <1>2, <1>4, <1>6, <1>8 DEF m2

\* exit, which every way of ending a process goes through, leaves its code.
LEMMA ExitEffect ==
  ASSUME NEW m, ManagerOK(m), NEW pid \in 1 .. Len(m.records), NEW code, code # None
  PROVE  LET m2 == exit(m, pid, code)
         IN  /\ ManagerOK(m2) /\ Replaced(m, m2, pid)
             /\ m2.records[pid].state = "Exited" /\ m2.records[pid].exit_code = code
<1> DEFINE old == m.records[pid]
           new == [old EXCEPT !.state = "Exited", !.exit_code = code]
<1>1. RecordOK(old, pid) /\ Find(m, pid) = pid
  BY FindIsPid DEF ManagerOK
<1>2. exit(m, pid, code) = [m EXCEPT !.records = [m.records EXCEPT ![pid] = new]]
  BY <1>1 DEF exit, ManagerOK
<1> HIDE DEF old
<1>3. new = [pid |-> pid, name |-> old.name, state |-> "Exited", exit_code |-> code]
  <2>1. PICK name, state, exit_code :
          old = [pid |-> pid, name |-> name, state |-> state, exit_code |-> exit_code]
    BY <1>1 DEF RecordOK
  <2> DEFINE mid == [old EXCEPT !.state = "Exited"]
  <2>2. mid = [pid |-> pid, name |-> name, state |-> "Exited", exit_code |-> exit_code]
    BY <2>1
  <2>3. new = [mid EXCEPT !.exit_code = code]
    OBVIOUS
  <2>4. old.name = name
    BY <2>1
  <2> HIDE DEF mid, new
  <2> QED BY <2>2, <2>3, <2>4
<1>4. RecordOK(new, pid) /\ new.state = "Exited" /\ new.exit_code = code
  BY <1>3 DEF RecordOK
<1> HIDE DEF new
<1> QED BY <1>2, <1>4, ReplaceRecord

\* wait and the end of a program change only the state, and never that a
\* process has exited.
LEMMA MarkEffect ==
  ASSUME NEW m, ManagerOK(m), NEW pid \in 1 .. Len(m.records), NEW state \in {"Running", "Waiting"}
  PROVE  LET new == [m.records[pid] EXCEPT !.state = IF @ = "Exited" THEN @ ELSE state]
             m2 == [m EXCEPT !.records = [m.records EXCEPT ![pid] = new]]
         IN  /\ ManagerOK(m2) /\ Replaced(m, m2, pid)
             /\ m2.records[pid].state = "Exited" <=> m.records[pid].state = "Exited"
             /\ m2.records[pid].exit_code = m.records[pid].exit_code
<1> DEFINE old == m.records[pid]
           new == [old EXCEPT !.state = IF @ = "Exited" THEN @ ELSE state]
<1>1. RecordOK(old, pid)
  BY DEF ManagerOK
<1> HIDE DEF old
<1>2. new = [pid |-> pid, name |-> old.name,
             state |-> IF old.state = "Exited" THEN old.state ELSE state, exit_code |-> old.exit_code]
  BY <1>1 DEF RecordOK
<1>3. /\ RecordOK(new, pid) /\ new.exit_code = old.exit_code
      /\ new.state = "Exited" <=> old.state = "Exited"
  BY <1>1, <1>2 DEF RecordOK
<1> HIDE DEF new
<1> DEFINE m2 == [m EXCEPT !.records = [m.records EXCEPT ![pid] = new]]
<1>4. ManagerOK(m2) /\ Replaced(m, m2, pid) /\ m2.records[pid] = new
  BY <1>3, ReplaceRecord
<1> HIDE DEF m2
<1>5. /\ m2.records[pid].state = "Exited" <=> old.state = "Exited"
      /\ m2.records[pid].exit_code = old.exit_code
  BY <1>3, <1>4
<1> QED BY <1>4, <1>5 DEF m2, new, old

LEMMA SetWaitingEffect ==
  ASSUME NEW m, ManagerOK(m), NEW pid \in 1 .. Len(m.records)
  PROVE  LET m2 == set_waiting(m, pid)
         IN  /\ ManagerOK(m2) /\ Replaced(m, m2, pid)
             /\ m2.records[pid].state = "Exited" <=> m.records[pid].state = "Exited"
             /\ m2.records[pid].exit_code = m.records[pid].exit_code
<1> DEFINE new == [m.records[pid] EXCEPT !.state = IF @ = "Exited" THEN @ ELSE "Waiting"]
           m2 == [m EXCEPT !.records = [m.records EXCEPT ![pid] = new]]
<1>1. set_waiting(m, pid) = m2
  <2>1. Find(m, pid) = pid
    BY FindIsPid, Zenon
  <2> QED BY <2>1, Zenon DEF set_waiting
<1>2. /\ ManagerOK(m2) /\ Replaced(m, m2, pid)
      /\ m2.records[pid].state = "Exited" <=> m.records[pid].state = "Exited"
      /\ m2.records[pid].exit_code = m.records[pid].exit_code
  BY MarkEffect, Zenon
<1> HIDE DEF m2
<1> QED BY <1>1, <1>2

LEMMA SetRunningEffect ==
  ASSUME NEW m, ManagerOK(m), NEW pid \in 1 .. Len(m.records)
  PROVE  LET m2 == set_running(m, pid)
         IN  /\ ManagerOK(m2) /\ Replaced(m, m2, pid)
             /\ m2.records[pid].state = "Exited" <=> m.records[pid].state = "Exited"
             /\ m2.records[pid].exit_code = m.records[pid].exit_code
<1> DEFINE new == [m.records[pid] EXCEPT !.state = IF @ = "Exited" THEN @ ELSE "Running"]
           m2 == [m EXCEPT !.records = [m.records EXCEPT ![pid] = new]]
<1>1. set_running(m, pid) = m2
  <2>1. Find(m, pid) = pid
    BY FindIsPid, Zenon
  <2> QED BY <2>1, Zenon DEF set_running
<1>2. /\ ManagerOK(m2) /\ Replaced(m, m2, pid)
      /\ m2.records[pid].state = "Exited" <=> m.records[pid].state = "Exited"
      /\ m2.records[pid].exit_code = m.records[pid].exit_code
  BY MarkEffect, Zenon
<1> HIDE DEF m2
<1> QED BY <1>1, <1>2

\* The processes that have exited.
ExitedPids(m) == {p \in 1 .. Len(m.records) : m.records[p].state = "Exited"}

\* m2 is m with one more record, the next process's.
Added(m, m2) ==
  /\ ManagerOK(m2) /\ Len(m2.records) = Len(m.records) + 1 /\ m2.init_pid = m.init_pid
  /\ \A i \in 1 .. Len(m.records) : m2.records[i] = m.records[i]
  /\ m2.records[Len(m.records) + 1].state = "Running"

LEMMA NewRecordAdds ==
  ASSUME NEW m, ManagerOK(m), NEW name, m.next_pid < U64_MAX, U64_MAX \in Nat
  PROVE  Added(m, NewRecord(m, name))
BY NewRecordEffect DEF Added

\* m2 is m after the process pid ended with code.
Ended(m, pid, code, m2) ==
  /\ ManagerOK(m2) /\ Replaced(m, m2, pid)
  /\ m2.records[pid].state = "Exited" /\ m2.records[pid].exit_code = code

LEMMA ExitEnds ==
  ASSUME NEW m, ManagerOK(m), NEW pid \in 1 .. Len(m.records), NEW code, code # None
  PROVE  Ended(m, pid, code, exit(m, pid, code))
BY ExitEffect DEF Ended

\* One more process that runs is not one more that exited.
LEMMA RunningNotExited ==
  ASSUME NEW m, NEW m2, NEW n \in Nat, Len(m.records) = n, Len(m2.records) = n + 1,
         \A i \in 1 .. n : m2.records[i] = m.records[i], m2.records[n + 1].state = "Running"
  PROVE  ExitedPids(m2) = ExitedPids(m)
BY DEF ExitedPids

\* How many have exited after one more has.
LEMMA ExitedFinite ==
  ASSUME NEW m, ManagerOK(m)
  PROVE  IsFiniteSet(ExitedPids(m)) /\ Cardinality(ExitedPids(m)) \in Nat
<1>1. Len(m.records) \in Nat
  BY SeqLen DEF ManagerOK
<1>2. IsFiniteSet(1 .. Len(m.records))
  BY <1>1, FS_Interval
<1>3. ExitedPids(m) \in SUBSET (1 .. Len(m.records))
  BY DEF ExitedPids
<1> QED BY <1>2, <1>3, FS_Subset, FS_CardinalityType

LEMMA OneMoreExited ==
  ASSUME NEW m, ManagerOK(m), NEW m2, ManagerOK(m2), NEW pid,
         ExitedPids(m2) \subseteq ExitedPids(m) \union {pid}
  PROVE  Cardinality(ExitedPids(m2)) <= Cardinality(ExitedPids(m)) + 1
<1> DEFINE E == ExitedPids(m)
           F == ExitedPids(m2)
<1>1. IsFiniteSet(E) /\ Cardinality(E) \in Nat /\ IsFiniteSet(F) /\ Cardinality(F) \in Nat
  BY ExitedFinite
<1> HIDE DEF E, F
<1>2. IsFiniteSet(E \union {pid}) /\ Cardinality(E \union {pid}) <= Cardinality(E) + 1
  <2>1. /\ IsFiniteSet(E \union {pid})
        /\ Cardinality(E \union {pid}) = IF pid \in E THEN Cardinality(E) ELSE Cardinality(E) + 1
    BY <1>1, FS_AddElement, Zenon
  <2>2. CASE pid \in E
    BY <2>1, <2>2, <1>1
  <2>3. CASE pid \notin E
    BY <2>1, <2>3, <1>1
  <2> QED BY <2>2, <2>3
<1>3. F \in SUBSET (E \union {pid})
  BY DEF E, F
<1>4. Cardinality(F) <= Cardinality(E \union {pid})
  BY <1>2, <1>3, FS_Subset
<1>5. Cardinality(E \union {pid}) \in Nat
  BY <1>2, FS_CardinalityType
<1> QED BY <1>1, <1>2, <1>4, <1>5 DEF E, F

\* Replacing a record changes no other process's exit.
LEMMA ReplacedExited ==
  ASSUME NEW m, NEW m2, NEW pid, Replaced(m, m2, pid)
  PROVE  /\ ExitedPids(m2) \subseteq ExitedPids(m) \union {pid}
         /\ (m2.records[pid].state = "Exited" <=> m.records[pid].state = "Exited")
              => ExitedPids(m2) = ExitedPids(m)
BY DEF Replaced, ExitedPids

-----------------------------------------------------------------------------
(* The event bus.                                                          *)

BusOK(b) ==
  /\ b = [next_seq |-> b.next_seq, events |-> b.events, total |-> b.total, counters |-> b.counters]
  /\ b.next_seq \in Nat /\ b.next_seq > 0
  /\ IsSeq(b.events) /\ Len(b.events) <= MAX_EVENTS
  /\ \A i \in 1 .. Len(b.events) : b.events[i].seq = b.next_seq - 1 - (Len(b.events) - i)
  /\ b.counters \in [EventKind -> Nat]
  /\ \A k \in EventKind : b.counters[k] < b.next_seq

\* The bus of EventBus::new.
LEMMA NewBusOK ==
  BusOK(NewBus) /\ NewBus.next_seq = 1 /\ \A k \in EventKind : NewBus.counters[k] = 0
<1>1. NewBus = [next_seq |-> 1, events |-> <<>>, total |-> 0, counters |-> [k \in EventKind |-> 0]]
  BY DEF NewBus
<1> QED BY <1>1, SeqEmpty, EventBusAssumption DEF BusOK

\* Numbers counted from the end do not change when one more follows.
LEMMA Renumbered ==
  ASSUME NEW next \in Nat, NEW n \in Nat, NEW i \in 1 .. n
  PROVE  next - 1 - (n - i) = (next + 1) - 1 - ((n + 1) - i)
OBVIOUS

\* A log keeps its numbering when its oldest events are dropped.
LEMMA NumberingFrom ==
  ASSUME NEW log, IsSeq(log), NEW next \in Nat, NEW m \in 1 .. Len(log) + 1,
         \A i \in 1 .. Len(log) : log[i].seq = next - 1 - (Len(log) - i)
  PROVE  LET rest == SubSeq(log, m, Len(log))
         IN  \A i \in 1 .. Len(rest) : rest[i].seq = next - 1 - (Len(rest) - i)
<1> DEFINE rest == SubSeq(log, m, Len(log))
<1>1. Len(log) \in Nat
  BY SeqLen
<1>2. /\ Len(rest) = Len(log) + 1 - m
      /\ \A i \in 1 .. Len(log) + 1 - m : rest[i] = log[m + i - 1]
  BY SeqFrom
<1> HIDE DEF rest
<1>3. ASSUME NEW i \in 1 .. Len(rest)
      PROVE  rest[i].seq = next - 1 - (Len(rest) - i)
  <2>1. rest[i] = log[m + i - 1] /\ m + i - 1 \in 1 .. Len(log)
    BY <1>1, <1>2
  <2>2. log[m + i - 1].seq = next - 1 - (Len(log) - (m + i - 1))
    BY <2>1, Zenon
  <2> QED BY <2>1, <2>2, <1>1, <1>2
<1> QED BY <1>3, Zenon DEF rest

\* publish appends one numbered event and counts it.
LEMMA PublishEffect ==
  ASSUME NEW b, BusOK(b), NEW kind \in EventKind, NEW source, b.next_seq < U64_MAX
  PROVE  LET b2 == publish(b, kind, source)
         IN  /\ BusOK(b2) /\ b2.next_seq = b.next_seq + 1
             /\ \A k \in EventKind : b2.counters[k] = b.counters[k] + (IF k = kind THEN 1 ELSE 0)
<1> DEFINE event == [seq |-> b.next_seq, kind |-> kind, source |-> source]
           log == Append(b.events, event)
           b2 == publish(b, kind, source)
<1> USE EventBusAssumption
<1>1. b.next_seq \in Nat /\ b.next_seq > 0 /\ saturating_inc(b.next_seq) = b.next_seq + 1
  BY DEF BusOK, saturating_inc
<1>2. saturating_inc(b.counters[kind]) = b.counters[kind] + 1 /\ b.counters[kind] \in Nat
  BY DEF BusOK, saturating_inc
<1> DEFINE counters == [b.counters EXCEPT ![kind] = saturating_inc(@)]
<1>3. /\ counters \in [EventKind -> Nat]
      /\ \A k \in EventKind : counters[k] = b.counters[k] + (IF k = kind THEN 1 ELSE 0)
  BY <1>2 DEF BusOK
<1>4. b2 = [next_seq |-> b.next_seq + 1, events |-> Trim(log), total |-> saturating_inc(b.total),
            counters |-> counters]
  BY <1>1 DEF publish
<1>5. event.seq = b.next_seq
  OBVIOUS
<1> HIDE DEF counters, b2, event
<1>6. /\ IsSeq(log) /\ Len(log) = Len(b.events) + 1 /\ Len(b.events) \in Nat
      /\ \A i \in 1 .. Len(b.events) : log[i] = b.events[i]
      /\ log[Len(b.events) + 1] = event
  BY SeqAppend, SeqLen DEF BusOK
<1> HIDE DEF log
<1>7. ASSUME NEW i \in 1 .. Len(log)
      PROVE  log[i].seq = (b.next_seq + 1) - 1 - (Len(log) - i)
  <2>1. CASE i \in 1 .. Len(b.events)
    <3>1. b.events[i].seq = b.next_seq - 1 - (Len(b.events) - i)
      BY <2>1 DEF BusOK
    <3>2. log[i].seq = b.events[i].seq
      BY <2>1, <1>6
    <3>3. b.next_seq - 1 - (Len(b.events) - i) = (b.next_seq + 1) - 1 - ((Len(b.events) + 1) - i)
      BY <2>1, <1>1, <1>6, Renumbered, Zenon
    <3> QED BY <3>1, <3>2, <3>3, <1>6, Zenon
  <2>2. CASE i = Len(b.events) + 1
    BY <2>2, <1>1, <1>5, <1>6
  <2> QED BY <2>1, <2>2, <1>6
<1> DEFINE kept == Trim(log)
<1>8. /\ IsSeq(kept) /\ Len(kept) <= MAX_EVENTS
      /\ \A i \in 1 .. Len(kept) : kept[i].seq = (b.next_seq + 1) - 1 - (Len(kept) - i)
  <2>1. CASE Len(log) <= MAX_EVENTS
    <3>1. kept = log
      BY <2>1, <1>6 DEF Trim
    <3> HIDE DEF kept
    <3> QED BY <2>1, <3>1, <1>6, <1>7, Zenon
  <2>2. CASE Len(log) > MAX_EVENTS
    <3>1. kept = SubSeq(log, 2, Len(log))
      BY <2>2, <1>6, SeqTail DEF Trim
    <3> HIDE DEF kept
    <3>2. 2 \in 1 .. Len(log) + 1 /\ b.next_seq + 1 \in Nat
      BY <1>1, <1>6
    <3>3. \A i \in 1 .. Len(kept) : kept[i].seq = (b.next_seq + 1) - 1 - (Len(kept) - i)
      BY <3>1, <3>2, <1>6, <1>7, NumberingFrom
    <3>4. IsSeq(kept) /\ Len(kept) = Len(log) + 1 - 2
      BY <3>1, <3>2, <1>6, SeqFrom
    <3>5. Len(b.events) <= MAX_EVENTS
      BY DEF BusOK
    <3> QED BY <3>3, <3>4, <3>5, <1>6
  <2> QED BY <2>1, <2>2, <1>6
<1> HIDE DEF kept
<1>9. /\ b2.next_seq = b.next_seq + 1 /\ b2.events = kept /\ b2.counters = counters
      /\ b2 = [next_seq |-> b2.next_seq, events |-> b2.events, total |-> b2.total, counters |-> b2.counters]
  BY <1>4 DEF kept
<1>10. \A k \in EventKind : counters[k] < b.next_seq + 1
  BY <1>1, <1>3 DEF BusOK
<1>11. BusOK(b2)
  BY <1>1, <1>3, <1>8, <1>9, <1>10 DEF BusOK
<1> QED BY <1>3, <1>9, <1>11 DEF b2

\* What publish does to the bus, as one fact.
Published(b, kind, b2) ==
  /\ BusOK(b2) /\ b2.next_seq = b.next_seq + 1
  /\ \A k \in EventKind : b2.counters[k] = b.counters[k] + (IF k = kind THEN 1 ELSE 0)

LEMMA PublishIsPublished ==
  ASSUME NEW b, BusOK(b), NEW kind \in EventKind, NEW source, b.next_seq < U64_MAX
  PROVE  Published(b, kind, publish(b, kind, source))
BY PublishEffect DEF Published

\* clear_stale only forgets.
LEMMA ClearStaleEffect ==
  ASSUME NEW b, BusOK(b), NEW keep_latest \in Nat
  PROVE  LET b2 == clear_stale(b, keep_latest)
         IN  BusOK(b2) /\ b2.next_seq = b.next_seq /\ b2.counters = b.counters
<1> DEFINE from == Len(b.events) + 1 - (IF keep_latest < Len(b.events) THEN keep_latest ELSE Len(b.events))
           kept == SubSeq(b.events, from, Len(b.events))
           b2 == clear_stale(b, keep_latest)
<1>1. Len(b.events) \in Nat /\ IsSeq(b.events) /\ b.next_seq \in Nat
  BY SeqLen DEF BusOK
<1>2. from \in 1 .. Len(b.events) + 1
  <2>1. CASE keep_latest < Len(b.events)
    BY <1>1, <2>1
  <2>2. CASE ~(keep_latest < Len(b.events))
    BY <1>1, <2>2
  <2> QED BY <2>1, <2>2, Zenon
<1>3. b2 = [b EXCEPT !.events = kept]
  BY DEF clear_stale, recent
<1> HIDE DEF from, b2
<1>4. IsSeq(kept) /\ Len(kept) = Len(b.events) + 1 - from
  BY <1>1, <1>2, SeqFrom
<1>5. \A i \in 1 .. Len(kept) : kept[i].seq = b.next_seq - 1 - (Len(kept) - i)
  BY <1>1, <1>2, NumberingFrom, Zenon DEF BusOK
<1> HIDE DEF kept
<1>6. b2 = [next_seq |-> b.next_seq, events |-> kept, total |-> b.total, counters |-> b.counters]
  BY <1>3 DEF BusOK
<1>7. /\ b2.next_seq = b.next_seq /\ b2.events = kept /\ b2.counters = b.counters
      /\ b2 = [next_seq |-> b2.next_seq, events |-> b2.events, total |-> b2.total, counters |-> b2.counters]
  BY <1>6
<1>8. Len(kept) <= MAX_EVENTS
  BY <1>1, <1>2, <1>4, EventBusAssumption DEF BusOK
<1>9. BusOK(b2)
  BY <1>4, <1>5, <1>7, <1>8 DEF BusOK
<1> QED BY <1>7, <1>9 DEF b2

-----------------------------------------------------------------------------
(* Recursive functions on 0 .. n: the definition has a solution, which the *)
(* CHOOSE behind it names.  The solution is built one argument at a time.  *)

\* A nonempty set of naturals has a least element.
LEMMA LeastNat ==
  ASSUME NEW S \in SUBSET Nat, S # {}
  PROVE  \E x \in S : \A y \in S : x <= y
<1> DEFINE R == {ss \in Nat \X Nat : ss[1] < ss[2]}
<1>1. IsWellFoundedOn(R, Nat)
  BY NatLessThanWellFounded, Zenon DEF OpToRel
<1> HIDE DEF R
<1>2. PICK x \in S : \A y \in S : ~(<<y, x>> \in R)
  BY <1>1, WFMin, Zenon
<1>3. ASSUME NEW y \in S PROVE x <= y
  <2>1. ~(<<y, x>> \in R)
    BY <1>2
  <2> QED BY <2>1 DEF R
<1> QED BY <1>3

\* A set of naturals with 0 and with the successor of each of its elements
\* holds every natural.
LEMMA NatSet ==
  ASSUME NEW P, 0 \in P, \A n \in Nat : n \in P => n + 1 \in P
  PROVE  Nat \subseteq P
<1> SUFFICES ASSUME Nat \ P # {} PROVE FALSE
  OBVIOUS
<1>1. PICK x \in Nat \ P : \A y \in Nat \ P : x <= y
  BY LeastNat, Zenon
<1>2. x # 0 /\ x - 1 \in Nat /\ (x - 1) + 1 = x
  BY <1>1
<1>3. x - 1 \in P
  BY <1>1, <1>2
<1> QED BY <1>1, <1>2, <1>3

LinkStep(fs, needed, g, n) ==
  IF n = 0 THEN [ok |-> TRUE, exported |-> {}] ELSE AddLibrary(fs, g[n - 1], needed[n])

\* The libraries loaded after each turn of link_image's loop.
LEMMA LinkedTurns ==
  ASSUME NEW fs, NEW needed, Len(needed) \in Nat
  PROVE  \A n \in 0 .. Len(needed) :
           Linked(fs, needed)[n] = LinkStep(fs, needed, Linked(fs, needed), n)
<1> DEFINE Solves(g, n) == g = [i \in 0 .. n |-> LinkStep(fs, needed, g, i)]
           P == {n \in Nat : \E g : Solves(g, n)}
<1>1. 0 \in P
  <2> DEFINE g == [i \in 0 .. 0 |-> [ok |-> TRUE, exported |-> {}]]
  <2>1. g = [i \in 0 .. 0 |-> LinkStep(fs, needed, g, i)]
    BY DEF LinkStep
  <2> QED BY <2>1
<1>2. ASSUME NEW n \in Nat, n \in P
      PROVE  n + 1 \in P
  <2>1. PICK g : g = [i \in 0 .. n |-> LinkStep(fs, needed, g, i)]
    BY <1>2
  <2> DEFINE h == [i \in 0 .. n + 1 |-> IF i <= n THEN g[i] ELSE LinkStep(fs, needed, g, n + 1)]
  <2>2. ASSUME NEW i \in 0 .. n + 1
        PROVE  h[i] = LinkStep(fs, needed, h, i)
    <3>1. CASE i = 0
      BY <3>1, <2>1 DEF LinkStep
    <3>2. CASE i \in 1 .. n
      <4>1. h[i] = LinkStep(fs, needed, g, i)
        BY <3>2, <2>1
      <4>2. h[i - 1] = g[i - 1]
        BY <3>2
      <4> HIDE DEF h
      <4> QED BY <3>2, <4>1, <4>2 DEF LinkStep
    <3>3. CASE i = n + 1
      <4>1. h[i] = LinkStep(fs, needed, g, i)
        BY <3>3
      <4>2. h[i - 1] = g[i - 1]
        BY <3>3
      <4> HIDE DEF h
      <4> QED BY <3>3, <4>1, <4>2 DEF LinkStep
    <3> QED BY <3>1, <3>2, <3>3
  <2>3. h = [i \in 0 .. n + 1 |-> h[i]]
    OBVIOUS
  <2> HIDE DEF h
  <2>4. h = [i \in 0 .. n + 1 |-> LinkStep(fs, needed, h, i)]
    BY <2>2, <2>3
  <2> QED BY <2>4
<1>3. Len(needed) \in P
  <2> HIDE DEF P
  <2> QED BY <1>1, <1>2, NatSet
<1>4. PICK g : g = [i \in 0 .. Len(needed) |-> LinkStep(fs, needed, g, i)]
  BY <1>3
<1> DEFINE f == Linked(fs, needed)
<1>5. f = [i \in 0 .. Len(needed) |-> LinkStep(fs, needed, f, i)]
  BY <1>4, Zenon DEF Linked, LinkStep
<1> HIDE DEF f
<1> QED BY <1>5 DEF f

-----------------------------------------------------------------------------
(* The linker.                                                             *)

\* Where a library is looked up: the first of its places that has a file,
\* the second when none has.
LibraryAt(fs, name) ==
  IF <<"lib", name>> \in DOMAIN fs THEN <<"lib", name>> ELSE <<"usr", "lib", name>>

LibraryOK(fs, name) ==
  LibraryAt(fs, name) \in DOMAIN fs /\ parse_library(fs, LibraryAt(fs, name)) # None

\* The first place that can be opened.
LEMMA FirstPlace ==
  ASSUME NEW fs, NEW name
  PROVE  LET at == FirstOf(fs, library_paths(name))
         IN  /\ at = 0 <=> LibraryAt(fs, name) \notin DOMAIN fs
             /\ at # 0 => library_paths(name)[at] = LibraryAt(fs, name)
<1> DEFINE a == <<"lib", name>>
           b == <<"usr", "lib", name>>
           paths == library_paths(name)
           at == FirstOf(fs, paths)
           I == {i \in DOMAIN paths : paths[i] \in DOMAIN fs}
<1>1. DOMAIN paths = 1 .. 2 /\ paths[1] = a /\ paths[2] = b
  BY DEF library_paths
<1>2. at = IF I # {} THEN Min(I) ELSE 0
  BY DEF FirstOf
<1> HIDE DEF a, b, paths, at
<1>3. CASE a \in DOMAIN fs
  <2>1. 1 \in I /\ I \in SUBSET (1 .. 2)
    BY <1>1, <1>3
  <2>2. Min(I) = 1
    <3> HIDE DEF I
    <3>1. \A x \in I : (\A y \in I : x <= y) <=> x = 1
      BY <2>1
    <3> QED BY <2>1, <3>1, Zenon DEF Min
  <2>3. at = 1
    BY <1>2, <2>1, <2>2
  <2>4. LibraryAt(fs, name) = a
    BY <1>3 DEF LibraryAt, a
  <2> QED BY <2>3, <2>4, <1>1, <1>3 DEF at, paths
<1>4. CASE a \notin DOMAIN fs /\ b \in DOMAIN fs
  <2>1. I = {2}
    BY <1>1, <1>4
  <2>2. Min(I) = 2
    <3> HIDE DEF I
    <3> QED BY <2>1 DEF Min
  <2>3. at = 2
    BY <1>2, <2>1, <2>2
  <2>4. LibraryAt(fs, name) = b
    BY <1>4 DEF LibraryAt, a, b
  <2> QED BY <2>3, <2>4, <1>1, <1>4 DEF at, paths
<1>5. CASE a \notin DOMAIN fs /\ b \notin DOMAIN fs
  <2>1. I = {}
    BY <1>1, <1>5
  <2>2. LibraryAt(fs, name) = b
    BY <1>5 DEF LibraryAt, a, b
  <2> QED BY <1>2, <1>5, <2>1, <2>2 DEF at, paths
<1> QED BY <1>3, <1>4, <1>5

\* What the loop has gathered: whether all is well, and the symbols.
LibrariesOK(l) == l = [ok |-> l.ok, exported |-> l.exported] /\ l.ok \in BOOLEAN

\* One turn of the loop.
LEMMA AddLibraryEffect ==
  ASSUME NEW fs, NEW l, LibrariesOK(l), NEW name
  PROVE  LET l2 == AddLibrary(fs, l, name)
         IN  /\ LibrariesOK(l2)
             /\ l2.ok <=> l.ok /\ LibraryOK(fs, name)
             /\ l2.ok => l2.exported = l.exported \union fs[LibraryAt(fs, name)].exports
<1> DEFINE at == FirstOf(fs, library_paths(name))
           l2 == AddLibrary(fs, l, name)
<1>1. /\ at = 0 <=> LibraryAt(fs, name) \notin DOMAIN fs
      /\ at # 0 => library_paths(name)[at] = LibraryAt(fs, name)
  BY FirstPlace
<1>2. l2 = IF ~l.ok \/ at = 0 \/ parse_library(fs, library_paths(name)[at]) = None
           THEN [l EXCEPT !.ok = FALSE]
           ELSE [l EXCEPT !.exported = @ \union fs[library_paths(name)[at]].exports]
  BY Zenon DEF AddLibrary
<1> HIDE DEF at, l2
<1>3. CASE l.ok /\ LibraryOK(fs, name)
  <2>1. l2 = [l EXCEPT !.exported = @ \union fs[LibraryAt(fs, name)].exports]
    BY <1>1, <1>2, <1>3, Zenon DEF LibraryOK
  <2>2. l2 = [ok |-> l.ok, exported |-> l.exported \union fs[LibraryAt(fs, name)].exports]
    BY <2>1 DEF LibrariesOK
  <2> QED BY <2>2, <1>3 DEF LibrariesOK, l2
<1>4. CASE ~(l.ok /\ LibraryOK(fs, name))
  <2>1. l2 = [l EXCEPT !.ok = FALSE]
    BY <1>1, <1>2, <1>4, Zenon DEF LibraryOK
  <2>2. l2 = [ok |-> FALSE, exported |-> l.exported]
    BY <2>1, Zenon DEF LibrariesOK
  <2> QED BY <2>2, <1>4 DEF LibrariesOK, l2
<1> QED BY <1>3, <1>4

\* The whole loop.
LEMMA LinkedEffect ==
  ASSUME NEW fs, NEW needed, Len(needed) \in Nat
  PROVE  LET l == Linked(fs, needed)[Len(needed)]
         IN  /\ l.ok <=> \A i \in 1 .. Len(needed) : LibraryOK(fs, needed[i])
             /\ l.ok => \A s : s \in l.exported
                          <=> \E i \in 1 .. Len(needed) : s \in fs[LibraryAt(fs, needed[i])].exports
<1> DEFINE f == Linked(fs, needed)
           Good(n) ==
             /\ LibrariesOK(f[n])
             /\ f[n].ok <=> \A i \in 1 .. n : LibraryOK(fs, needed[i])
             /\ f[n].ok => \A s : s \in f[n].exported
                             <=> \E i \in 1 .. n : s \in fs[LibraryAt(fs, needed[i])].exports
           P == {n \in Nat : n <= Len(needed) => Good(n)}
<1>1. \A n \in 0 .. Len(needed) : f[n] = LinkStep(fs, needed, f, n)
  BY LinkedTurns
<1> HIDE DEF f
<1>2. 0 \in P
  <2>1. f[0] = [ok |-> TRUE, exported |-> {}]
    BY <1>1 DEF LinkStep
  <2>2. LibrariesOK(f[0]) /\ f[0].ok /\ f[0].exported = {}
    BY <2>1 DEF LibrariesOK
  <2>3. \A i : i \notin 1 .. 0
    OBVIOUS
  <2>4. Good(0)
    BY <2>2, <2>3, Zenon
  <2> HIDE DEF Good
  <2> QED BY <2>4
<1>3. ASSUME NEW n \in Nat, n \in P
      PROVE  n + 1 \in P
  <2> SUFFICES ASSUME n + 1 <= Len(needed) PROVE Good(n + 1)
    OBVIOUS
  <2>1. Good(n)
    BY <1>3
  <2>2. f[n + 1] = AddLibrary(fs, f[n], needed[n + 1])
    BY <1>1 DEF LinkStep
  <2>a. LibrariesOK(f[n])
    BY <2>1
  <2> HIDE DEF P, Good
  <2> DEFINE name == needed[n + 1]
             l == f[n]
             l2 == AddLibrary(fs, l, name)
  <2> HIDE DEF name, l
  <2>b. /\ LibrariesOK(l2)
        /\ l2.ok <=> l.ok /\ LibraryOK(fs, name)
        /\ l2.ok => l2.exported = l.exported \union fs[LibraryAt(fs, name)].exports
    BY <2>a, AddLibraryEffect, Zenon DEF l
  <2> HIDE DEF l2
  <2>3. /\ LibrariesOK(f[n + 1])
        /\ f[n + 1].ok <=> f[n].ok /\ LibraryOK(fs, needed[n + 1])
        /\ f[n + 1].ok => f[n + 1].exported = f[n].exported \union fs[LibraryAt(fs, needed[n + 1])].exports
    BY <2>2, <2>b, Zenon DEF l, l2, name
  <2>4. \A i : i \in 1 .. n + 1 <=> i \in 1 .. n \/ i = n + 1
    OBVIOUS
  <2> QED BY <2>1, <2>3, <2>4, Zenon DEF Good
<1>4. Len(needed) \in P
  <2> HIDE DEF P
  <2> QED BY <1>2, <1>3, NatSet
<1> QED BY <1>4 DEF f

FilesOK(fs) == \A p \in DOMAIN fs : IsContent(fs[p])

\* spawn links an image exactly when it has all it needs.
LEMMA LinksExactly ==
  ASSUME FilesOK(files), NEW path \in DOMAIN files
  PROVE  Links(files, path) <=> HasAllItNeeds(path)
<1> DEFINE meta == binary_metadata(files, path)
           needed == meta.needed
           l == Linked(files, needed)[Len(needed)]
           interpreter == IF meta.interpreter = None THEN DefaultInterpreter ELSE meta.interpreter
<1>1. CASE meta = None
  BY <1>1, Zenon DEF Links, HasAllItNeeds
<1>2. CASE meta # None
  <2>1. needed \in Seq(STRING)
    <3>1. CASE files[path].kind = "Elf"
      <4>1. meta.needed = files[path].needed
        BY <3>1 DEF binary_metadata
      <4> QED BY <3>1, <4>1 DEF FilesOK, IsContent
    <3>2. CASE files[path].kind # "Elf" /\ files[path].kind = "Bin" /\ files[path].entry # None
      <4>1. meta.needed = files[path].needed
        BY <3>2 DEF binary_metadata
      <4> QED BY <3>2, <4>1 DEF FilesOK, IsContent
    <3>3. CASE ~(files[path].kind = "Elf") /\ ~(files[path].kind = "Bin" /\ files[path].entry # None)
      BY <3>3, <1>2 DEF binary_metadata
    <3> QED BY <3>1, <3>2, <3>3
  <2>2. Len(needed) \in Nat /\ DOMAIN needed = 1 .. Len(needed)
    BY <2>1, LenProperties
  <2> HIDE DEF meta
  <2>3. /\ l.ok <=> \A i \in DOMAIN needed : LibraryOK(files, needed[i])
        /\ l.ok => \A s : s \in l.exported
                     <=> \E i \in DOMAIN needed : s \in files[LibraryAt(files, needed[i])].exports
    BY <2>2, LinkedEffect, Zenon
  <2>4. Links(files, path) <=>
          (meta.dynamic => interpreter \in DOMAIN files /\ l.ok /\ meta.required \subseteq l.exported)
    BY <1>2, Zenon DEF Links, link_image, meta
  <2>5. HasAllItNeeds(path) <=>
          \/ ~meta.dynamic
          \/ /\ interpreter \in DOMAIN files
             /\ \A i \in DOMAIN needed : LibraryOK(files, needed[i])
             /\ \A s \in meta.required : \E i \in DOMAIN needed :
                  s \in files[LibraryAt(files, needed[i])].exports
    BY <1>2, Zenon DEF HasAllItNeeds, meta, LibraryAt, LibraryOK
  <2> HIDE DEF l, needed, interpreter
  <2> QED BY <2>3, <2>4, <2>5, Zenon
<1> QED BY <1>1, <1>2

\* What the search for a program finds is a file.
LEMMA ResolvedExists ==
  ASSUME NEW name, name.bare \in BOOLEAN, resolve_program_name(files, name) # None
  PROVE  resolve_program_name(files, name) \in DOMAIN files
<1> DEFINE c == candidate_program_paths(name)
           I == {i \in DOMAIN c : c[i] \in DOMAIN files}
           found == FirstOf(files, c)
<1>1. DOMAIN c \subseteq Nat
  <2>1. c = <<name.parts, <<"bin">> \o name.parts>> \/ c = <<name.parts>>
    BY DEF candidate_program_paths
  <2> HIDE DEF c
  <2> QED BY <2>1
<1>2. found = IF I # {} THEN Min(I) ELSE 0
  BY DEF FirstOf
<1>3. resolve_program_name(files, name) = IF found = 0 THEN None ELSE c[found]
  BY Zenon DEF resolve_program_name
<1> HIDE DEF c, found
<1>4. found # 0
  BY <1>3
<1>5. I # {} /\ found = Min(I) /\ I \in SUBSET Nat
  BY <1>1, <1>2, <1>4
<1>6. found \in I
  <2> HIDE DEF I
  <2> QED BY <1>5, LeastNat, Zenon DEF Min
<1> QED BY <1>3, <1>4, <1>6

-----------------------------------------------------------------------------
(* What commands, programs and the package do to the files.                *)

LEMMA WrittenOK ==
  ASSUME NEW fs, FilesOK(fs), NEW path, NEW content, IsContent(content)
  PROVE  FilesOK(Written(fs, path, content))
BY DEF FilesOK, Written

InstallStep(fs, g, n) ==
  IF n = 0 THEN [ok |-> TRUE, files |-> fs] ELSE Install(g[n - 1], Package[n])

\* The files after each one that mount_default writes.
LEMMA InstalledTurns ==
  ASSUME NEW fs, Len(Package) \in Nat
  PROVE  \A n \in 0 .. Len(Package) : Installed(fs)[n] = InstallStep(fs, Installed(fs), n)
<1> DEFINE Solves(g, n) == g = [i \in 0 .. n |-> InstallStep(fs, g, i)]
           P == {n \in Nat : \E g : Solves(g, n)}
<1>1. 0 \in P
  <2> DEFINE g == [i \in 0 .. 0 |-> [ok |-> TRUE, files |-> fs]]
  <2>1. g = [i \in 0 .. 0 |-> InstallStep(fs, g, i)]
    BY DEF InstallStep
  <2> QED BY <2>1, Zenon
<1>2. ASSUME NEW n \in Nat, n \in P
      PROVE  n + 1 \in P
  <2>1. PICK g : g = [i \in 0 .. n |-> InstallStep(fs, g, i)]
    BY <1>2
  <2> DEFINE h == [i \in 0 .. n + 1 |-> IF i <= n THEN g[i] ELSE InstallStep(fs, g, n + 1)]
  <2>2. ASSUME NEW i \in 0 .. n + 1
        PROVE  h[i] = InstallStep(fs, h, i)
    <3>1. CASE i = 0
      BY <3>1, <2>1 DEF InstallStep
    <3>2. CASE i \in 1 .. n
      <4>1. h[i] = InstallStep(fs, g, i)
        BY <3>2, <2>1
      <4>2. h[i - 1] = g[i - 1]
        BY <3>2
      <4> HIDE DEF h
      <4> QED BY <3>2, <4>1, <4>2 DEF InstallStep
    <3>3. CASE i = n + 1
      <4>1. h[i] = InstallStep(fs, g, i)
        BY <3>3
      <4>2. h[i - 1] = g[i - 1]
        BY <3>3
      <4> HIDE DEF h
      <4> QED BY <3>3, <4>1, <4>2 DEF InstallStep
    <3> QED BY <3>1, <3>2, <3>3
  <2>3. h = [i \in 0 .. n + 1 |-> h[i]]
    OBVIOUS
  <2> HIDE DEF h
  <2>4. h = [i \in 0 .. n + 1 |-> InstallStep(fs, h, i)]
    BY <2>2, <2>3
  <2> QED BY <2>4
<1>3. Len(Package) \in P
  <2> HIDE DEF P
  <2> QED BY <1>1, <1>2, NatSet
<1>4. PICK g : g = [i \in 0 .. Len(Package) |-> InstallStep(fs, g, i)]
  BY <1>3
<1> DEFINE f == Installed(fs)
<1>5. f = [i \in 0 .. Len(Package) |-> InstallStep(fs, f, i)]
  BY <1>4, Zenon DEF Installed, InstallStep
<1> HIDE DEF f
<1> QED BY <1>5 DEF f

InstallOK(r) == r = [ok |-> r.ok, files |-> r.files] /\ r.ok \in BOOLEAN /\ FilesOK(r.files)

LEMMA InstallEffect ==
  ASSUME NEW r, InstallOK(r), NEW entry, IsContent(entry[2])
  PROVE  InstallOK(Install(r, entry))
<1> DEFINE new == Written(r.files, entry[1], entry[2])
<1>1. FilesOK(new)
  BY WrittenOK DEF InstallOK
<1>2. Install(r, entry) = [r EXCEPT !.ok = FALSE] \/ Install(r, entry) = [r EXCEPT !.files = new]
  BY DEF Install
<1> HIDE DEF new
<1>3. CASE Install(r, entry) = [r EXCEPT !.ok = FALSE]
  <2>1. Install(r, entry) = [ok |-> FALSE, files |-> r.files]
    BY <1>3, Zenon DEF InstallOK
  <2> QED BY <2>1 DEF InstallOK
<1>4. CASE Install(r, entry) = [r EXCEPT !.files = new]
  <2>1. Install(r, entry) = [ok |-> r.ok, files |-> new]
    BY <1>4 DEF InstallOK
  <2> QED BY <2>1, <1>1 DEF InstallOK
<1> QED BY <1>2, <1>3, <1>4

\* mount_default installs well-formed contents over well-formed contents.
LEMMA MountKeepsFiles ==
  ASSUME NEW fs, FilesOK(fs)
  PROVE  FilesOK(mount_default(fs).files)
<1>1. Len(Package) \in Nat /\ DOMAIN Package = 1 .. Len(Package)
  BY LoaderAssumption, LenProperties
<1> DEFINE f == Installed(fs)
           P == {n \in Nat : n <= Len(Package) => InstallOK(f[n])}
<1>2. \A n \in 0 .. Len(Package) : f[n] = InstallStep(fs, f, n)
  BY <1>1, InstalledTurns
<1> HIDE DEF f
<1>3. 0 \in P
  <2>0. f[0] = InstallStep(fs, f, 0)
    BY <1>1, <1>2
  <2>1. f[0] = [ok |-> TRUE, files |-> fs]
    BY <2>0, Zenon DEF InstallStep
  <2>2. InstallOK(f[0])
    BY <2>1 DEF InstallOK
  <2> QED BY <2>2
<1>4. ASSUME NEW n \in Nat, n \in P
      PROVE  n + 1 \in P
  <2> SUFFICES ASSUME n + 1 <= Len(Package) PROVE InstallOK(f[n + 1])
    OBVIOUS
  <2>1. InstallOK(f[n]) /\ n + 1 \in 1 .. Len(Package)
    BY <1>1, <1>4
  <2>2. f[n + 1] = Install(f[n], Package[n + 1])
    BY <1>1, <1>2 DEF InstallStep
  <2>3. IsContent(Package[n + 1][2])
    BY <2>1, <1>1, LoaderAssumption
  <2> QED BY <2>1, <2>2, <2>3, InstallEffect
<1>5. Len(Package) \in P
  <2> HIDE DEF P
  <2> QED BY <1>1, <1>3, <1>4, NatSet
<1> QED BY <1>1, <1>5 DEF mount_default, f, InstallOK

-----------------------------------------------------------------------------
(* The accounts: the table m, the bus b, the processes whose start was     *)
(* published and the images that had all they need.  Each operation keeps  *)
(* them.                                                                   *)

NeverRan(m, ann) ==
  \A p \in (1 .. Len(m.records)) \ ann :
    m.records[p].state = "Exited" /\ m.records[p].exit_code \in {NOT_RUN, KILLED}

\* One more process, which is announced or ends without having run.
LEMMA OneMoreNeverRan ==
  ASSUME NEW m, NEW m2, NEW n \in Nat, Len(m.records) = n, Len(m2.records) = n + 1,
         \A i \in 1 .. n : m2.records[i] = m.records[i], NEW ann, NeverRan(m, ann),
         NEW ann2, ann \subseteq ann2,
         \/ n + 1 \in ann2
         \/ m2.records[n + 1].state = "Exited" /\ m2.records[n + 1].exit_code \in {NOT_RUN, KILLED}
  PROVE  NeverRan(m2, ann2)
BY DEF NeverRan

\* The counter of stopped processes stays ahead of the exited ones.
LEMMA StaysAhead ==
  ASSUME NEW a \in Nat, NEW c \in Nat, NEW d \in Nat, a >= c, d <= c + 1
  PROVE  a + 1 >= d
OBVIOUS

LEMMA LastIndex == \A n \in Nat : n + 1 \in 1 .. n + 1 /\ 1 .. n \subseteq 1 .. n + 1
OBVIOUS

LEMMA PlusNothing == \A n \in Nat : n + 0 = n
OBVIOUS

Accounts(m, b, ann, lnk) ==
  /\ ManagerOK(m) /\ BusOK(b)
  /\ ann \subseteq 1 .. Len(m.records)
  /\ DOMAIN lnk \subseteq 1 .. Len(m.records)
  /\ b.counters["ProcessStarted"] = Cardinality(ann)
  /\ b.counters["ProcessStopped"] >= Cardinality(ExitedPids(m))
  /\ \A p \in DOMAIN lnk : lnk[p] <=> p \in ann
  /\ NeverRan(m, ann)

\* publish of another kind, and clear_stale.
LEMMA BusAccounts ==
  ASSUME NEW m, NEW b, NEW ann, NEW lnk, Accounts(m, b, ann, lnk), NEW b2, BusOK(b2),
         b2.counters["ProcessStarted"] = b.counters["ProcessStarted"],
         b2.counters["ProcessStopped"] = b.counters["ProcessStopped"]
  PROVE  Accounts(m, b2, ann, lnk)
BY Zenon DEF Accounts

\* Another record of a process, with the same state and exit code.
LEMMA MarkAccounts ==
  ASSUME NEW m, NEW b, NEW ann, NEW lnk, Accounts(m, b, ann, lnk), NEW m2, ManagerOK(m2),
         NEW pid, Replaced(m, m2, pid),
         m2.records[pid].state = "Exited" <=> m.records[pid].state = "Exited",
         m2.records[pid].exit_code = m.records[pid].exit_code
  PROVE  Accounts(m2, b, ann, lnk)
<1>1. Len(m2.records) = Len(m.records) /\ ExitedPids(m2) = ExitedPids(m)
  BY ReplacedExited, Zenon DEF Replaced
<1>2. NeverRan(m2, ann)
  BY <1>1 DEF Accounts, NeverRan, Replaced
<1> QED BY <1>1, <1>2, Zenon DEF Accounts

\* A manager that differs in init_pid only.
LEMMA InitPidAccounts ==
  ASSUME NEW m, NEW b, NEW ann, NEW lnk, Accounts(m, b, ann, lnk), NEW pid, NEW m2,
         m2 = [m EXCEPT !.init_pid = pid]
  PROVE  Accounts(m2, b, ann, lnk) /\ m2.records = m.records /\ m2.init_pid = pid
<1>0. ManagerOK(m)
  BY DEF Accounts
<1>1. m2 = [records |-> m.records, next_pid |-> m.next_pid, init_pid |-> pid, shell_pid |-> m.shell_pid]
  BY <1>0 DEF ManagerOK
<1>2. ManagerOK(m2) /\ m2.records = m.records /\ m2.init_pid = pid
  BY <1>0, <1>1 DEF ManagerOK
<1>3. Accounts(m2, b, ann, lnk)
  BY <1>2 DEF Accounts, NeverRan, ExitedPids
<1> QED BY <1>2, <1>3

\* A manager that differs in shell_pid only.
LEMMA ShellPidAccounts ==
  ASSUME NEW m, NEW b, NEW ann, NEW lnk, Accounts(m, b, ann, lnk), NEW pid, NEW m2,
         m2 = [m EXCEPT !.shell_pid = pid]
  PROVE  Accounts(m2, b, ann, lnk) /\ m2.records = m.records /\ m2.init_pid = m.init_pid
<1>0. ManagerOK(m)
  BY DEF Accounts
<1>1. m2 = [records |-> m.records, next_pid |-> m.next_pid, init_pid |-> m.init_pid, shell_pid |-> pid]
  BY <1>0 DEF ManagerOK
<1>2. ManagerOK(m2) /\ m2.records = m.records /\ m2.init_pid = m.init_pid
  BY <1>0, <1>1 DEF ManagerOK
<1>3. Accounts(m2, b, ann, lnk)
  BY <1>2 DEF Accounts, NeverRan, ExitedPids
<1> QED BY <1>2, <1>3

\* The end of a process is recorded and published.
LEMMA ExitAccounts ==
  ASSUME NEW m, NEW b, NEW ann, NEW lnk, Accounts(m, b, ann, lnk), b.next_seq < U64_MAX,
         NEW pid \in 1 .. Len(m.records), NEW code, code # None,
         pid \in ann \/ code \in {NOT_RUN, KILLED}
  PROVE  LET m2 == exit(m, pid, code)
             b2 == Stopped(b, pid)
         IN  /\ Accounts(m2, b2, ann, lnk) /\ Replaced(m, m2, pid)
             /\ b2.next_seq = b.next_seq + 1 /\ m2.records[pid].exit_code = code
<1> DEFINE m2 == exit(m, pid, code)
           b2 == Stopped(b, pid)
<1>0. ManagerOK(m) /\ BusOK(b) /\ {"ProcessStarted", "ProcessStopped"} \subseteq EventKind
  BY ProcessAssumption DEF Accounts
<1>1. /\ ManagerOK(m2) /\ Replaced(m, m2, pid)
      /\ m2.records[pid].state = "Exited" /\ m2.records[pid].exit_code = code
  <2>1. Ended(m, pid, code, m2)
    BY <1>0, ExitEnds, Zenon
  <2> QED BY <2>1, Zenon DEF Ended
<1>2. /\ BusOK(b2) /\ b2.next_seq = b.next_seq + 1
      /\ \A k \in EventKind : b2.counters[k] = b.counters[k] + (IF k = "ProcessStopped" THEN 1 ELSE 0)
  <2>1. Published(b, "ProcessStopped", b2)
    BY <1>0, PublishIsPublished, Zenon DEF Stopped
  <2> QED BY <2>1, Zenon DEF Published
<1> HIDE DEF m2, b2
<1>3. Cardinality(ExitedPids(m2)) <= Cardinality(ExitedPids(m)) + 1
  BY <1>0, <1>1, ReplacedExited, OneMoreExited
<1>4. /\ Cardinality(ExitedPids(m2)) \in Nat /\ Cardinality(ExitedPids(m)) \in Nat
      /\ b.counters["ProcessStarted"] \in Nat /\ b.counters["ProcessStopped"] \in Nat
  BY <1>0, <1>1, ExitedFinite, Zenon DEF BusOK
<1>5. /\ b2.counters["ProcessStopped"] = b.counters["ProcessStopped"] + 1
      /\ b2.counters["ProcessStarted"] = b.counters["ProcessStarted"]
  BY <1>0, <1>2, <1>4
<1>6. b2.counters["ProcessStopped"] >= Cardinality(ExitedPids(m2))
  <2>1. b.counters["ProcessStopped"] >= Cardinality(ExitedPids(m))
    BY Zenon DEF Accounts
  <2> QED BY <1>3, <1>4, <1>5, <2>1, StaysAhead, Zenon
<1>7. NeverRan(m2, ann)
  BY <1>1 DEF Accounts, NeverRan, Replaced
<1>8. Accounts(m2, b2, ann, lnk)
  BY <1>1, <1>2, <1>5, <1>6, <1>7, Zenon DEF Accounts, Replaced
<1> QED BY <1>1, <1>2, <1>8, Zenon DEF m2, b2

\* The end of a program whose start was announced, with any result.
EndAccounted(m, b, ann, lnk, pid, code, m2, b2) ==
  /\ Accounts(m2, b2, ann, lnk) /\ Replaced(m, m2, pid)
  /\ b2.next_seq = b.next_seq + 1 /\ m2.records[pid].exit_code = code

LEMMA ResultAccounts ==
  ASSUME NEW m, NEW b, NEW ann, NEW lnk, Accounts(m, b, ann, lnk), b.next_seq < U64_MAX,
         NEW pid \in 1 .. Len(m.records), NEW code, code # None,
         pid \in ann \/ code \in {NOT_RUN, KILLED}
  PROVE  EndAccounted(m, b, ann, lnk, pid, code, exit(m, pid, code), Stopped(b, pid))
BY ExitAccounts DEF EndAccounted

\* A set of announced processes and one more.
LEMMA OneMoreAnnounced ==
  ASSUME NEW n \in Nat, NEW ann, ann \subseteq 1 .. n
  PROVE  Cardinality(ann \union {n + 1}) = Cardinality(ann) + 1
<1>1. IsFiniteSet(1 .. n) /\ ann \in SUBSET (1 .. n)
  BY FS_Interval
<1>2. IsFiniteSet(ann)
  BY <1>1, FS_Subset, Zenon
<1>3. n + 1 \notin ann
  BY <1>1
<1> QED BY <1>2, <1>3, FS_AddElement, Zenon

\* The image of a new process had all it needs, or had not.
LEMMA LinkableGrows ==
  ASSUME NEW n \in Nat, NEW lnk, DOMAIN lnk \subseteq 1 .. n, NEW ann, ann \subseteq 1 .. n,
         \A p \in DOMAIN lnk : lnk[p] <=> p \in ann, NEW has \in BOOLEAN
  PROVE  LET lnk2 == Written(lnk, n + 1, has)
             ann2 == IF has THEN ann \union {n + 1} ELSE ann
         IN  DOMAIN lnk2 \subseteq 1 .. n + 1 /\ \A p \in DOMAIN lnk2 : lnk2[p] <=> p \in ann2
<1> DEFINE lnk2 == Written(lnk, n + 1, has)
           ann2 == IF has THEN ann \union {n + 1} ELSE ann
<1>1. DOMAIN lnk2 = DOMAIN lnk \union {n + 1}
  BY DEF Written
<1>2. lnk2[n + 1] = has /\ \A p \in DOMAIN lnk : lnk2[p] = lnk[p]
  BY DEF Written
<1> HIDE DEF lnk2
<1>3. DOMAIN lnk2 \subseteq 1 .. n + 1
  BY <1>1
<1>4. n + 1 \in ann2 <=> has
  BY DEF ann2
<1>5. \A p \in DOMAIN lnk : p \in ann2 <=> p \in ann
  BY DEF ann2
<1> HIDE DEF ann2
<1>6. ASSUME NEW p \in DOMAIN lnk2 PROVE lnk2[p] <=> p \in ann2
  <2>1. CASE p \in DOMAIN lnk
    BY <2>1, <1>2, <1>5, Zenon
  <2>2. CASE p = n + 1
    BY <2>2, <1>2, <1>4, ZenonT(40)
  <2> QED BY <2>1, <2>2, <1>1
<1> QED BY <1>3, <1>6, Zenon DEF lnk2, ann2

\* The start of a process is recorded and published.
LEMMA StartAccounts ==
  ASSUME NEW m, NEW b, NEW ann, NEW lnk, Accounts(m, b, ann, lnk), b.next_seq < U64_MAX,
         NEW name, m.next_pid < U64_MAX, NEW lnk2, lnk2 = lnk \/ lnk2 = Written(lnk, m.next_pid, TRUE)
  PROVE  LET m2 == NewRecord(m, name)
             b2 == Started(b, m.next_pid)
         IN  /\ Accounts(m2, b2, ann \union {m.next_pid}, lnk2)
             /\ Len(m2.records) = Len(m.records) + 1 /\ m2.init_pid = m.init_pid
             /\ b2.next_seq = b.next_seq + 1
<1> DEFINE m2 == NewRecord(m, name)
           b2 == Started(b, m.next_pid)
           n == Len(m.records)
           ann2 == ann \union {n + 1}
<1>0. /\ ManagerOK(m) /\ BusOK(b) /\ {"ProcessStarted", "ProcessStopped"} \subseteq EventKind
      /\ n \in Nat /\ m.next_pid = n + 1 /\ ann \subseteq 1 .. n
  BY ProcessAssumption, SeqLen DEF Accounts, ManagerOK
<1>1. /\ ManagerOK(m2) /\ Len(m2.records) = n + 1 /\ m2.init_pid = m.init_pid
      /\ \A i \in 1 .. n : m2.records[i] = m.records[i]
      /\ m2.records[n + 1].state = "Running"
  <2>1. Added(m, m2)
    BY <1>0, EventBusAssumption, NewRecordAdds, Zenon
  <2> QED BY <2>1, Zenon DEF Added
<1>2. /\ BusOK(b2) /\ b2.next_seq = b.next_seq + 1
      /\ \A k \in EventKind : b2.counters[k] = b.counters[k] + (IF k = "ProcessStarted" THEN 1 ELSE 0)
  <2>1. Published(b, "ProcessStarted", b2)
    BY <1>0, PublishIsPublished, Zenon DEF Started
  <2> QED BY <2>1, Zenon DEF Published
<1> HIDE DEF m2, b2
<1>3. ExitedPids(m2) = ExitedPids(m)
  BY <1>0, <1>1, RunningNotExited, Zenon
<1>4. Cardinality(ann2) = Cardinality(ann) + 1
  BY <1>0, OneMoreAnnounced, Zenon
<1>5. /\ b2.counters["ProcessStarted"] = Cardinality(ann2)
      /\ b2.counters["ProcessStopped"] >= Cardinality(ExitedPids(m2))
  <2>1. b.counters["ProcessStarted"] \in Nat /\ b.counters["ProcessStopped"] \in Nat
    BY <1>0, Zenon DEF BusOK
  <2>2. /\ b2.counters["ProcessStarted"] = b.counters["ProcessStarted"] + 1
        /\ b2.counters["ProcessStopped"] = b.counters["ProcessStopped"] + 0
    BY <1>0, <1>2, Zenon
  <2>3. /\ b.counters["ProcessStarted"] = Cardinality(ann)
        /\ b.counters["ProcessStopped"] >= Cardinality(ExitedPids(m))
    BY Zenon DEF Accounts
  <2> QED BY <1>3, <1>4, <2>1, <2>2, <2>3, PlusNothing, Zenon
<1>6. NeverRan(m2, ann2)
  <2>1. NeverRan(m, ann) /\ ann \subseteq ann2 /\ n + 1 \in ann2 /\ Len(m.records) = n
    BY Zenon DEF Accounts
  <2> HIDE DEF ann2, n
  <2> QED BY <1>0, <1>1, <2>1, OneMoreNeverRan, Zenon
<1>7. ann2 \subseteq 1 .. n + 1
  <2>1. 1 .. n \subseteq 1 .. n + 1 /\ n + 1 \in 1 .. n + 1
    BY <1>0, LastIndex, Zenon
  <2> QED BY <1>0, <2>1, Zenon
<1>8. DOMAIN lnk2 \subseteq 1 .. n + 1 /\ \A p \in DOMAIN lnk2 : lnk2[p] <=> p \in ann2
  <2>1. DOMAIN lnk \subseteq 1 .. n /\ \A p \in DOMAIN lnk : lnk[p] <=> p \in ann
    BY DEF Accounts
  <2> HIDE DEF n
  <2>2. CASE lnk2 = lnk
    <3>1. \A p \in 1 .. n : p \in ann2 <=> p \in ann
      BY <1>0
    <3>2. 1 .. n \subseteq 1 .. n + 1
      BY <1>0, LastIndex, Zenon
    <3> QED BY <2>1, <2>2, <3>1, <3>2, Zenon
  <2>3. CASE lnk2 = Written(lnk, m.next_pid, TRUE)
    <3>1. LET lnk3 == Written(lnk, n + 1, TRUE)
              ann3 == IF TRUE THEN ann \union {n + 1} ELSE ann
          IN  DOMAIN lnk3 \subseteq 1 .. n + 1 /\ \A p \in DOMAIN lnk3 : lnk3[p] <=> p \in ann3
      BY <1>0, <2>1, LinkableGrows, Zenon
    <3> QED BY <3>1, <2>3, <1>0, Zenon
  <2> QED BY <2>2, <2>3, Zenon
<1>9. Accounts(m2, b2, ann2, lnk2)
  BY <1>1, <1>2, <1>5, <1>6, <1>7, <1>8, Zenon DEF Accounts
<1> QED BY <1>0, <1>1, <1>2, <1>9 DEF m2, b2

\* A process that never runs, because its image did not link.
LEMMA LinkFailsAccounts ==
  ASSUME NEW m, NEW b, NEW ann, NEW lnk, Accounts(m, b, ann, lnk), b.next_seq < U64_MAX,
         NEW name, m.next_pid < U64_MAX
  PROVE  LET m2 == exit(NewRecord(m, name), m.next_pid, NOT_RUN)
             b2 == Stopped(b, m.next_pid)
         IN  /\ Accounts(m2, b2, ann, Written(lnk, m.next_pid, FALSE))
             /\ Len(m2.records) = Len(m.records) + 1 /\ m2.init_pid = m.init_pid
             /\ b2.next_seq = b.next_seq + 1
<1> DEFINE m1 == NewRecord(m, name)
           m2 == exit(m1, m.next_pid, NOT_RUN)
           b2 == Stopped(b, m.next_pid)
           n == Len(m.records)
           lnk2 == Written(lnk, n + 1, FALSE)
<1>0. /\ ManagerOK(m) /\ BusOK(b) /\ {"ProcessStarted", "ProcessStopped"} \subseteq EventKind
      /\ n \in Nat /\ m.next_pid = n + 1 /\ ann \subseteq 1 .. n /\ NOT_RUN # None
  BY ProcessAssumption, SeqLen DEF Accounts, ManagerOK, NOT_RUN
<1>1. /\ ManagerOK(m1) /\ Len(m1.records) = n + 1 /\ m1.init_pid = m.init_pid
      /\ \A i \in 1 .. n : m1.records[i] = m.records[i]
  <2>1. Added(m, m1)
    BY <1>0, EventBusAssumption, NewRecordAdds, Zenon
  <2> QED BY <2>1, Zenon DEF Added
<1> HIDE DEF m1
<1>2. n + 1 \in 1 .. Len(m1.records)
  BY <1>0, <1>1, LastIndex, Zenon
<1>3. /\ ManagerOK(m2) /\ Replaced(m1, m2, n + 1)
      /\ m2.records[n + 1].state = "Exited" /\ m2.records[n + 1].exit_code = NOT_RUN
  <2>1. Ended(m1, n + 1, NOT_RUN, m2)
    BY <1>0, <1>1, <1>2, ExitEnds, Zenon
  <2> QED BY <2>1, Zenon DEF Ended
<1>4. /\ BusOK(b2) /\ b2.next_seq = b.next_seq + 1
      /\ \A k \in EventKind : b2.counters[k] = b.counters[k] + (IF k = "ProcessStopped" THEN 1 ELSE 0)
  <2>1. Published(b, "ProcessStopped", b2)
    BY <1>0, PublishIsPublished, Zenon DEF Stopped
  <2> QED BY <2>1, Zenon DEF Published
<1> HIDE DEF m2, b2
<1>5. /\ Len(m2.records) = n + 1 /\ m2.init_pid = m.init_pid
      /\ \A i \in 1 .. n : m2.records[i] = m.records[i]
  BY <1>0, <1>1, <1>3 DEF Replaced
<1>6. ExitedPids(m2) \subseteq ExitedPids(m) \union {n + 1}
  BY <1>0, <1>5 DEF ExitedPids
<1>7. Cardinality(ExitedPids(m2)) <= Cardinality(ExitedPids(m)) + 1
  BY <1>0, <1>3, <1>6, OneMoreExited, Zenon
<1>8. /\ b2.counters["ProcessStarted"] = Cardinality(ann)
      /\ b2.counters["ProcessStopped"] >= Cardinality(ExitedPids(m2))
  <2>1. /\ b.counters["ProcessStarted"] \in Nat /\ b.counters["ProcessStopped"] \in Nat
        /\ Cardinality(ExitedPids(m2)) \in Nat /\ Cardinality(ExitedPids(m)) \in Nat
    BY <1>0, <1>3, ExitedFinite, Zenon DEF BusOK
  <2>2. /\ b2.counters["ProcessStopped"] = b.counters["ProcessStopped"] + 1
        /\ b2.counters["ProcessStarted"] = b.counters["ProcessStarted"]
    <3>1. /\ b2.counters["ProcessStopped"] = b.counters["ProcessStopped"] + 1
          /\ b2.counters["ProcessStarted"] = b.counters["ProcessStarted"] + 0
      BY <1>0, <1>4, Zenon
    <3> QED BY <2>1, <3>1, PlusNothing, Zenon
  <2>3. /\ b.counters["ProcessStarted"] = Cardinality(ann)
        /\ b.counters["ProcessStopped"] >= Cardinality(ExitedPids(m))
    BY Zenon DEF Accounts
  <2> QED BY <1>7, <2>1, <2>2, <2>3, StaysAhead, Zenon
<1>9. NeverRan(m2, ann)
  BY <1>0, <1>3, <1>5, OneMoreNeverRan, Zenon DEF Accounts
<1>10. DOMAIN lnk2 \subseteq 1 .. n + 1 /\ \A p \in DOMAIN lnk2 : lnk2[p] <=> p \in ann
  <2>1. DOMAIN lnk \subseteq 1 .. n /\ \A p \in DOMAIN lnk : lnk[p] <=> p \in ann
    BY DEF Accounts
  <2> HIDE DEF n
  <2>2. LET lnk3 == Written(lnk, n + 1, FALSE)
            ann3 == IF FALSE THEN ann \union {n + 1} ELSE ann
        IN  DOMAIN lnk3 \subseteq 1 .. n + 1 /\ \A p \in DOMAIN lnk3 : lnk3[p] <=> p \in ann3
    BY <1>0, <2>1, LinkableGrows, Zenon
  <2> QED BY <2>2, Zenon
<1>11. ann \subseteq 1 .. n + 1
  BY <1>0
<1>12. Accounts(m2, b2, ann, lnk2)
  BY <1>3, <1>4, <1>5, <1>8, <1>9, <1>10, <1>11, Zenon DEF Accounts
<1> QED BY <1>0, <1>4, <1>5, <1>12, ZenonT(40) DEF m1, m2, b2

-----------------------------------------------------------------------------
(* The inductive invariant.                                                *)

\* PID 1 is the first process, and its start was published.
FirstIsInit(ph, m, ann) ==
  IF ph = "boot" THEN Len(m.records) = 0
  ELSE Len(m.records) >= 1 /\ m.init_pid = 1 /\ 1 \in ann

\* A program that runs is one whose start was published.
RunningIsAnnounced(run, ann) == run # None => run.pid \in ann

\* Room for the event that the end of a running program publishes.
RoomToStop(s, b, run) ==
  b.next_seq <= s.published + 2 /\ (run # None => b.next_seq <= s.published + 1)

IInv ==
  /\ session \in Sessions
  /\ Accounts(manager, bus, announced, linkable)
  /\ FirstIsInit(phase, manager, announced)
  /\ RunningIsAnnounced(running, announced)
  /\ RoomToStop(session, bus, running)
  /\ FilesOK(files)
  /\ ExecReportsResult

LEMMA CodeIsNumber ==
  \A code \in Codes \union {0, NOT_RUN} : code # None
BY ProcessAssumption DEF NOT_RUN

\* What an event leaves of the room: it may be published while the bound is
\* not reached, and one more when a program ends.
LEMMA RoomAfterEvent ==
  ASSUME NEW s, s.published \in Nat, NEW b, b.next_seq \in Nat, b.next_seq <= s.published,
         NEW b2, b2.next_seq = b.next_seq + 1, NEW run
  PROVE  RoomToStop(s, b2, run)
BY DEF RoomToStop

LEMMA RoomAtFirst ==
  ASSUME NEW s, s.published \in Nat, NEW b, b.next_seq = 1
  PROVE  RoomToStop(s, b, None)
BY DEF RoomToStop

LEMMA RoomAfterEnd ==
  ASSUME NEW s, s.published \in Nat, NEW b, b.next_seq \in Nat, b.next_seq <= s.published + 1,
         NEW b2, b2.next_seq = b.next_seq + 1
  PROVE  RoomToStop(s, b2, None)
BY DEF RoomToStop

LEMMA BelowMaximum ==
  ASSUME NEW next \in Nat, NEW published \in Nat, U64_MAX \in Nat, published + 1 < U64_MAX
  PROVE  /\ next <= published => next < U64_MAX
         /\ next <= published + 1 => next < U64_MAX
OBVIOUS

\* Where there is room for some events there is room for one.
LEMMA RoomForOne ==
  ASSUME NEW next \in Nat, NEW published \in Nat, NEW n \in Nat \ {0}, next + n <= published + 1
  PROVE  next <= published
OBVIOUS

\* The bounds of a session keep the pids and the event numbers below the
\* largest integer.
LEMMA SessionBounds ==
  ASSUME session \in Sessions
  PROVE  /\ session.processes \in Nat /\ session.published \in Nat
         /\ session.processes < U64_MAX /\ session.published + 1 < U64_MAX
         /\ \A name \in session.commands : name.bare \in BOOLEAN
         /\ \A e \in session.edits : e[2] = None \/ IsContent(e[2])
BY ProcessAssumption

LEMMA InitIInv == Init => IInv
<1> SUFFICES ASSUME Init PROVE IInv
  OBVIOUS
<1>1. /\ session \in Sessions /\ manager = NewManager /\ bus = NewBus /\ phase = "boot"
      /\ running = None /\ reply = [op |-> "none"] /\ announced = {} /\ linkable = <<>>
      /\ files = Written(mount_default(<<>>).files, InitScript.parts, [kind |-> "Text"])
  BY DEF Init
<1>2. manager.records = <<>> /\ ManagerOK(manager) /\ Len(manager.records) = 0
  <2>1. manager = [records |-> <<>>, next_pid |-> 1, init_pid |-> None, shell_pid |-> None]
    BY <1>1 DEF NewManager
  <2> QED BY <2>1, SeqEmpty DEF ManagerOK
<1>3. BusOK(bus) /\ bus.next_seq = 1 /\ \A k \in EventKind : bus.counters[k] = 0
  BY <1>1, NewBusOK, Zenon
<1>4. ExitedPids(manager) = {} /\ Cardinality({}) = 0
  BY <1>2, FS_EmptySet DEF ExitedPids
<1>5. NeverRan(manager, announced) /\ DOMAIN linkable = {}
  BY <1>1, <1>2, SeqEmpty DEF NeverRan
<1>6. {"ProcessStarted", "ProcessStopped"} \subseteq EventKind
  BY ProcessAssumption
<1>7. Accounts(manager, bus, announced, linkable)
  BY <1>1, <1>2, <1>3, <1>4, <1>5, <1>6 DEF Accounts
<1>8. FilesOK(files)
  <2>1. FilesOK(<<>>) /\ IsContent([kind |-> "Text"])
    BY SeqEmpty DEF FilesOK, IsContent
  <2> QED BY <1>1, <2>1, MountKeepsFiles, WrittenOK
<1>9. FirstIsInit(phase, manager, announced) /\ RunningIsAnnounced(running, announced)
  BY <1>1, <1>2, Zenon DEF FirstIsInit, RunningIsAnnounced
<1>10. RoomToStop(session, bus, running)
  BY <1>1, <1>3, SessionBounds, RoomAtFirst, Zenon
<1>11. ExecReportsResult
  BY <1>1 DEF ExecReportsResult
<1> QED BY <1>1, <1>7, <1>8, <1>9, <1>10, <1>11 DEF IInv

\* The facts about the state that the steps use.
LEMMA Facts ==
  ASSUME IInv
  PROVE  /\ ManagerOK(manager) /\ BusOK(bus)
         /\ Len(manager.records) \in Nat /\ manager.next_pid = Len(manager.records) + 1
         /\ bus.next_seq \in Nat
         /\ \A n \in Nat \ {0} : CanPublish(n) => bus.next_seq <= session.published
         /\ session.processes \in Nat /\ session.published \in Nat
         /\ session.processes < U64_MAX /\ session.published + 1 < U64_MAX /\ U64_MAX \in Nat
         /\ Pids = 1 .. Len(manager.records)
         /\ announced \subseteq 1 .. Len(manager.records)
<1>1. ManagerOK(manager) /\ BusOK(bus) /\ announced \subseteq 1 .. Len(manager.records)
  BY DEF IInv, Accounts
<1>2. Len(manager.records) \in Nat /\ manager.next_pid = Len(manager.records) + 1 /\ bus.next_seq \in Nat
  BY <1>1, SeqLen DEF ManagerOK, BusOK
<1>3. /\ session.processes \in Nat /\ session.published \in Nat
      /\ session.processes < U64_MAX /\ session.published + 1 < U64_MAX
  BY SessionBounds DEF IInv
<1>4. Pids = 1 .. Len(manager.records)
  <2>1. DOMAIN manager.records = 1 .. Len(manager.records)
    BY <1>1, SeqLen DEF ManagerOK
  <2>2. \A i \in 1 .. Len(manager.records) : manager.records[i].pid = i
    BY <1>1, RecordPid DEF ManagerOK
  <2> QED BY <2>1, <2>2 DEF Pids
<1>5. \A n \in Nat \ {0} : CanPublish(n) => bus.next_seq <= session.published
  BY <1>2, <1>3, RoomForOne, Zenon DEF CanPublish
<1> QED BY <1>1, <1>2, <1>3, <1>4, <1>5, EventBusAssumption

\* A step that may publish finds a number for its event.
LEMMA PublishBound ==
  ASSUME IInv, NEW n \in Nat \ {0}, CanPublish(n)
  PROVE  bus.next_seq <= session.published /\ bus.next_seq < U64_MAX
BY Facts

LEMMA PublishOne ==
  IInv /\ CanPublish(1) => bus.next_seq <= session.published /\ bus.next_seq < U64_MAX
BY PublishBound

-----------------------------------------------------------------------------
(* Every step keeps the invariant.                                         *)

LEMMA PublishOtherStep ==
  ASSUME IInv, NEW kind \in EventKind \ {"ProcessStarted", "ProcessStopped"}, PublishOther(kind)
  PROVE  IInv'
<1>1. /\ CanPublish(1) /\ bus' = publish(bus, kind, None)
      /\ UNCHANGED <<session, manager, phase, running, files, reply, results, announced, linkable>>
  BY DEF PublishOther, history
<1>2. bus.next_seq <= session.published /\ bus.next_seq < U64_MAX
  BY <1>1, PublishOne, Zenon
<1>3. /\ BusOK(bus') /\ bus'.next_seq = bus.next_seq + 1
      /\ \A k \in EventKind : bus'.counters[k] = bus.counters[k] + (IF k = kind THEN 1 ELSE 0)
  <2>1. Published(bus, kind, bus')
    BY <1>1, <1>2, Facts, PublishIsPublished, Zenon
  <2> QED BY <2>1, Zenon DEF Published
<1>4. /\ bus'.counters["ProcessStarted"] = bus.counters["ProcessStarted"]
      /\ bus'.counters["ProcessStopped"] = bus.counters["ProcessStopped"]
  <2>1. bus.counters["ProcessStarted"] \in Nat /\ bus.counters["ProcessStopped"] \in Nat
    BY Facts, ProcessAssumption, Zenon DEF BusOK
  <2>2. /\ bus'.counters["ProcessStarted"] = bus.counters["ProcessStarted"] + 0
        /\ bus'.counters["ProcessStopped"] = bus.counters["ProcessStopped"] + 0
    BY <1>3, ProcessAssumption, Zenon
  <2> QED BY <2>1, <2>2, PlusNothing, Zenon
<1>5. Accounts(manager, bus', announced, linkable)
  BY <1>3, <1>4, BusAccounts, Zenon DEF IInv
<1>6. RoomToStop(session, bus', running)
  BY <1>2, <1>3, Facts, RoomAfterEvent, Zenon
<1> QED BY <1>1, <1>5, <1>6 DEF IInv, ExecReportsResult

LEMMA ClearStaleStep ==
  ASSUME IInv, NEW keep_latest \in 0 .. MAX_EVENTS, ClearStale(keep_latest)
  PROVE  IInv'
<1>1. /\ bus' = clear_stale(bus, keep_latest)
      /\ UNCHANGED <<session, manager, phase, running, files, reply, results, announced, linkable>>
  BY DEF ClearStale, history
<1>2. BusOK(bus') /\ bus'.next_seq = bus.next_seq /\ bus'.counters = bus.counters
  <2>1. keep_latest \in Nat /\ BusOK(bus)
    <3>1. keep_latest \in Nat
      BY EventBusAssumption
    <3> QED BY <3>1, Facts, Zenon
  <2> QED BY <1>1, <2>1, ClearStaleEffect
<1>3. Accounts(manager, bus', announced, linkable)
  BY <1>2, BusAccounts, Zenon DEF IInv
<1>4. RoomToStop(session, bus', running)
  BY <1>2, Zenon DEF RoomToStop, IInv
<1> QED BY <1>1, <1>3, <1>4 DEF IInv, ExecReportsResult

LEMMA StartPid1Step == IInv /\ start_pid1 => IInv'
<1> SUFFICES ASSUME IInv, start_pid1 PROVE IInv'
  OBVIOUS
<1> DEFINE m == NewRecord(manager, InitScript.parts)
           pid == manager.next_pid
<1>1. /\ phase = "boot" /\ CanPublish(1) /\ phase' = "init"
      /\ manager' = [m EXCEPT !.init_pid = pid] /\ bus' = Started(bus, pid)
      /\ announced' = announced \union {pid}
      /\ UNCHANGED <<session, running, files, reply, results, linkable>>
  BY DEF start_pid1
<1>2. bus.next_seq <= session.published /\ bus.next_seq < U64_MAX
  BY <1>1, PublishOne, Zenon
<1>3. Len(manager.records) = 0 /\ pid = 1 /\ pid < U64_MAX
  BY <1>1, Facts DEF IInv, FirstIsInit
<1>4. /\ Accounts(m, bus', announced', linkable')
      /\ Len(m.records) = Len(manager.records) + 1 /\ bus'.next_seq = bus.next_seq + 1
  BY <1>1, <1>2, <1>3, StartAccounts, Zenon DEF IInv
<1> HIDE DEF m
<1>5. /\ Accounts(manager', bus', announced', linkable')
      /\ manager'.records = m.records /\ manager'.init_pid = pid
  <2>1. Accounts(m, bus', announced', linkable') /\ manager' = [m EXCEPT !.init_pid = pid]
    BY <1>1, <1>4
  <2> HIDE DEF pid
  <2> QED BY <2>1, InitPidAccounts
<1>6. FirstIsInit(phase', manager', announced')
  <2>1. phase' # "boot" /\ manager'.init_pid = 1 /\ 1 \in announced'
    BY <1>1, <1>3, <1>5, Zenon
  <2>2. Len(manager'.records) >= 1
    <3>1. Len(manager'.records) = 0 + 1
      BY <1>3, <1>4, <1>5, Zenon
    <3> QED BY <3>1
  <2> QED BY <2>1, <2>2, Zenon DEF FirstIsInit
<1>7. RunningIsAnnounced(running', announced')
  BY <1>1 DEF IInv, RunningIsAnnounced
<1>8. RoomToStop(session', bus', running')
  BY <1>1, <1>2, <1>4, Facts, RoomAfterEvent, Zenon
<1> QED BY <1>1, <1>5, <1>6, <1>7, <1>8 DEF IInv, ExecReportsResult

LEMMA EnsureShellStep == IInv /\ ensure_shell_process => IInv'
<1> SUFFICES ASSUME IInv, ensure_shell_process PROVE IInv'
  OBVIOUS
<1> DEFINE m == NewRecord(manager, Shell)
           pid == manager.next_pid
<1>1. /\ phase = "finished" /\ CanPublish(1) /\ phase' = "shell"
      /\ Len(manager.records) < session.processes
      /\ manager' = [m EXCEPT !.shell_pid = pid] /\ bus' = Started(bus, pid)
      /\ announced' = announced \union {pid}
      /\ UNCHANGED <<session, running, files, reply, results, linkable>>
  BY DEF ensure_shell_process
<1>2. bus.next_seq <= session.published /\ bus.next_seq < U64_MAX
  BY <1>1, PublishOne, Zenon
<1>3. pid < U64_MAX
  BY <1>1, Facts
<1>4. /\ Accounts(m, bus', announced', linkable') /\ m.init_pid = manager.init_pid
      /\ Len(m.records) = Len(manager.records) + 1 /\ bus'.next_seq = bus.next_seq + 1
  BY <1>1, <1>2, <1>3, StartAccounts, Zenon DEF IInv
<1> HIDE DEF m
<1>5. /\ Accounts(manager', bus', announced', linkable')
      /\ manager'.records = m.records /\ manager'.init_pid = m.init_pid
  <2>1. Accounts(m, bus', announced', linkable') /\ manager' = [m EXCEPT !.shell_pid = pid]
    BY <1>1, <1>4
  <2> HIDE DEF pid
  <2> QED BY <2>1, ShellPidAccounts
<1>6. FirstIsInit(phase', manager', announced')
  BY <1>1, <1>4, <1>5, Facts DEF IInv, FirstIsInit
<1>7. RunningIsAnnounced(running', announced')
  BY <1>1 DEF IInv, RunningIsAnnounced
<1>8. RoomToStop(session', bus', running')
  BY <1>1, <1>2, <1>4, Facts, RoomAfterEvent, Zenon
<1> QED BY <1>1, <1>5, <1>6, <1>7, <1>8 DEF IInv, ExecReportsResult

\* What every end of a process other than a program's return does to the
\* invariant.
LEMMA ExitStep ==
  ASSUME IInv, NEW pid \in 1 .. Len(manager.records), NEW code, code # None,
         pid \in announced \/ code = KILLED, NEW n \in Nat \ {0}, CanPublish(n),
         manager' = exit(manager, pid, code), bus' = Stopped(bus, pid),
         UNCHANGED <<session, running, files, announced, linkable>>,
         FirstIsInit(phase, manager, announced) => FirstIsInit(phase', manager, announced),
         ExecReportsResult'
  PROVE  IInv'
<1>1. bus.next_seq <= session.published /\ bus.next_seq < U64_MAX
  BY PublishBound, Zenon
<1>2. /\ Accounts(manager', bus', announced, linkable) /\ Replaced(manager, manager', pid)
      /\ bus'.next_seq = bus.next_seq + 1
  <2>1. Accounts(manager, bus, announced, linkable) /\ (pid \in announced \/ code \in {NOT_RUN, KILLED})
    BY Zenon DEF IInv
  <2>2. EndAccounted(manager, bus, announced, linkable, pid, code, exit(manager, pid, code),
                     Stopped(bus, pid))
    BY <1>1, <2>1, ResultAccounts, ZenonT(40)
  <2> QED BY <2>2, Zenon DEF EndAccounted
<1>3. FirstIsInit(phase', manager', announced)
  BY <1>2 DEF IInv, FirstIsInit, Replaced
<1>4. RoomToStop(session, bus', running)
  BY <1>1, <1>2, Facts, RoomAfterEvent, Zenon
<1> QED BY <1>2, <1>3, <1>4 DEF IInv

LEMMA FinishPid1Step == IInv /\ finish_pid1 => IInv'
<1> SUFFICES ASSUME IInv, finish_pid1 PROVE IInv'
  OBVIOUS
<1>1. /\ phase = "init" /\ CanPublish(1) /\ phase' = "finished"
      /\ manager' = exit(manager, manager.init_pid, 0) /\ bus' = Stopped(bus, manager.init_pid)
      /\ UNCHANGED <<session, running, files, reply, results, announced, linkable>>
  BY DEF finish_pid1, history
<1>2. manager.init_pid = 1 /\ 1 \in announced /\ 1 \in 1 .. Len(manager.records)
  BY <1>1, Facts DEF IInv, FirstIsInit
<1>3. FirstIsInit(phase, manager, announced) => FirstIsInit(phase', manager, announced)
  BY <1>1 DEF FirstIsInit
<1>4. ExecReportsResult'
  BY <1>1 DEF IInv, ExecReportsResult
<1>5. 0 # None
  BY ProcessAssumption
<1> QED BY <1>1, <1>2, <1>3, <1>4, <1>5, ExitStep

LEMMA SyscallExitStep ==
  ASSUME IInv, NEW code \in Codes, SyscallExit(code)
  PROVE  IInv'
<1>1. /\ phase \in {"init", "shell"} /\ CanPublish(1) /\ reply' = [op |-> "exit"]
      /\ manager' = exit(manager, 1, code) /\ bus' = Stopped(bus, 1)
      /\ UNCHANGED <<session, phase, running, files, results, announced, linkable>>
  BY DEF SyscallExit, AtPrompt, history
<1>2. 1 \in announced /\ 1 \in 1 .. Len(manager.records)
  BY <1>1, Facts, Zenon DEF IInv, FirstIsInit
<1>3. ExecReportsResult'
  BY <1>1 DEF ExecReportsResult
<1>4. code # None
  BY ProcessAssumption
<1> QED BY <1>1, <1>2, <1>3, <1>4, ExitStep

LEMMA KillStep ==
  ASSUME IInv, NEW pid, Kill(pid)
  PROVE  IInv'
<1>1. /\ CanPublish(1) /\ reply' = [op |-> "kill", ok |-> pid \in Pids]
      /\ UNCHANGED <<session, phase, running, files, results, announced, linkable>>
  BY DEF Kill, history
<1>2. ExecReportsResult'
  <2>1. reply'.op = "kill"
    BY <1>1
  <2> QED BY <2>1 DEF ExecReportsResult
<1>3. CASE pid \in Pids
  <2>1. manager' = exit(manager, pid, KILLED) /\ bus' = Stopped(bus, pid)
    BY <1>3 DEF Kill, kill
  <2>2. pid \in 1 .. Len(manager.records) /\ KILLED # None
    BY <1>3, Facts, ProcessAssumption DEF KILLED
  <2> QED BY <1>1, <1>2, <2>1, <2>2, ExitStep
<1>4. CASE pid \notin Pids
  <2>1. UNCHANGED <<manager, bus>>
    BY <1>4 DEF Kill
  <2> QED BY <1>1, <1>2, <2>1 DEF IInv
<1> QED BY <1>3, <1>4

LEMMA ProgramKillsStep ==
  ASSUME IInv, NEW pid, ProgramKills(pid)
  PROVE  IInv'
<1>1. /\ CanPublish(2) /\ pid \in Pids
      /\ manager' = exit(manager, pid, KILLED) /\ bus' = Stopped(bus, pid)
      /\ UNCHANGED <<session, phase, running, files, reply, results, announced, linkable>>
  BY DEF ProgramKills, kill, history
<1>2. ExecReportsResult'
  BY <1>1 DEF IInv, ExecReportsResult
<1>3. pid \in 1 .. Len(manager.records) /\ KILLED # None
  BY <1>1, Facts, ProcessAssumption DEF KILLED
<1> QED BY <1>1, <1>2, <1>3, ExitStep

LEMMA WaitStep ==
  ASSUME IInv, NEW pid, Wait(pid)
  PROVE  IInv'
<1>1. UNCHANGED <<session, bus, phase, running, files, results, announced, linkable>>
  BY Zenon DEF Wait, history
<1>2. ExecReportsResult'
  <2>1. \E answer : reply' = [op |-> "wait", answer |-> answer]
    BY Zenon DEF Wait
  <2>2. reply'.op = "wait"
    BY <2>1
  <2> QED BY <2>2 DEF ExecReportsResult
<1>3. CASE pid \in Pids
  <2>1. manager' = set_waiting(manager, pid) /\ pid \in 1 .. Len(manager.records)
    BY <1>3, Facts, Zenon DEF Wait
  <2>2. /\ ManagerOK(manager') /\ Replaced(manager, manager', pid)
        /\ manager'.records[pid].state = "Exited" <=> manager.records[pid].state = "Exited"
        /\ manager'.records[pid].exit_code = manager.records[pid].exit_code
    BY <2>1, Facts, SetWaitingEffect
  <2>3. Accounts(manager', bus, announced, linkable)
    BY <2>2, MarkAccounts, ZenonT(40) DEF IInv
  <2>4. FirstIsInit(phase, manager', announced)
    BY <2>2 DEF IInv, FirstIsInit, Replaced
  <2> QED BY <1>1, <1>2, <2>3, <2>4 DEF IInv
<1>4. CASE pid \notin Pids
  <2>1. UNCHANGED manager
    BY <1>4, ZenonT(40) DEF Wait
  <2> QED BY <1>1, <1>2, <2>1 DEF IInv
<1> QED BY <1>3, <1>4

LEMMA EditStep ==
  ASSUME IInv, NEW edit \in session.edits, Edit(edit[1], edit[2])
  PROVE  IInv'
<1>1. /\ files' = IF edit[2] = None THEN Restrict(files, DOMAIN files \ {edit[1]})
                  ELSE Written(files, edit[1], edit[2])
      /\ UNCHANGED <<session, manager, bus, phase, running, reply, results, announced, linkable>>
  BY Zenon DEF Edit, history
<1>2. FilesOK(files) /\ (edit[2] = None \/ IsContent(edit[2]))
  BY SessionBounds, Zenon DEF IInv
<1>3. FilesOK(files')
  <2>1. CASE edit[2] = None
    BY <2>1, <1>1, <1>2 DEF FilesOK, Restrict
  <2>2. CASE edit[2] # None
    BY <2>2, <1>1, <1>2, WrittenOK, Zenon
  <2> QED BY <2>1, <2>2, Zenon
<1> QED BY <1>1, <1>3, Zenon DEF IInv, ExecReportsResult

LEMMA PkgimgStep == IInv /\ cmd_pkgimg => IInv'
<1> SUFFICES ASSUME IInv, cmd_pkgimg PROVE IInv'
  OBVIOUS
<1>1. /\ files' = mount_default(files).files
      /\ UNCHANGED <<session, manager, bus, phase, running, reply, results, announced, linkable>>
  BY DEF cmd_pkgimg, history
<1>2. FilesOK(files')
  BY <1>1, MountKeepsFiles DEF IInv
<1> QED BY <1>1, <1>2, Zenon DEF IInv, ExecReportsResult

\* A name is not found, or its image is spawned, and runs or fails to link.
LEMMA CallStep ==
  ASSUME IInv, NEW op, NEW name, name.bare \in BOOLEAN, Call(op, name)
  PROVE  IInv'
<1> DEFINE path == resolve_program_name(files, name)
           pid == manager.next_pid
<1>1. CASE NotFound(op, name)
  <2>1. /\ reply' = [op |-> op, answer |-> "not found"]
        /\ UNCHANGED <<session, manager, bus, phase, running, files, results, announced, linkable>>
    BY <1>1, Zenon DEF NotFound, history
  <2>2. ExecReportsResult'
    <3>1. "pid" \notin DOMAIN reply'
      BY <2>1, Zenon
    <3> QED BY <3>1 DEF ExecReportsResult
  <2> QED BY <2>1, <2>2, Zenon DEF IInv
<1>2. ASSUME Spawned(path)
      PROVE  /\ path \in DOMAIN files /\ pid < U64_MAX
             /\ linkable' = Written(linkable, pid, HasAllItNeeds(path))
             /\ Links(files, path) <=> HasAllItNeeds(path)
             /\ HasAllItNeeds(path) \in BOOLEAN
             /\ phase \in {"init", "shell"} /\ running = None
  <2>1. /\ path # None /\ Len(manager.records) < session.processes
        /\ linkable' = Written(linkable, pid, HasAllItNeeds(path))
        /\ phase \in {"init", "shell"} /\ running = None
    BY <1>2 DEF Spawned, AtPrompt
  <2>2. path \in DOMAIN files
    BY <2>1, ResolvedExists
  <2>3. pid < U64_MAX
    BY <2>1, Facts
  <2>4. Links(files, path) <=> HasAllItNeeds(path)
    BY <2>2, LinksExactly DEF IInv
  <2>5. HasAllItNeeds(path) \in BOOLEAN
    BY Zenon DEF HasAllItNeeds
  <2> QED BY <2>1, <2>2, <2>3, <2>4, <2>5
<1> HIDE DEF path
<1>3. CASE Spawn(op, path)
  <2>1. /\ Spawned(path) /\ CanPublish(2) /\ Links(files, path)
        /\ manager' = NewRecord(manager, path) /\ bus' = Started(bus, pid)
        /\ announced' = announced \union {pid}
        /\ running' = [op |-> op, pid |-> pid, program |-> execute_path(files, path)]
        /\ UNCHANGED <<session, phase, files, reply, results>>
    BY <1>3 DEF Spawn
  <2>2. bus.next_seq <= session.published /\ bus.next_seq < U64_MAX
    BY <2>1, Facts
  <2>3. linkable' = Written(linkable, pid, TRUE)
    BY <1>2, <2>1, Zenon
  <2>4. /\ Accounts(manager', bus', announced', linkable')
        /\ Len(manager'.records) = Len(manager.records) + 1 /\ manager'.init_pid = manager.init_pid
        /\ bus'.next_seq = bus.next_seq + 1
    BY <1>2, <2>1, <2>2, <2>3, StartAccounts, ZenonT(40) DEF IInv
  <2>5. FirstIsInit(phase', manager', announced')
    BY <1>2, <2>1, <2>4, Facts DEF IInv, FirstIsInit
  <2>6. RunningIsAnnounced(running', announced')
    BY <2>1 DEF RunningIsAnnounced
  <2>7. RoomToStop(session', bus', running')
    BY <2>1, <2>2, <2>4, Facts, RoomAfterEvent, Zenon
  <2> QED BY <2>1, <2>4, <2>5, <2>6, <2>7, Zenon DEF IInv, ExecReportsResult
<1>4. CASE LinkFails(op, path)
  <2>1. /\ Spawned(path) /\ CanPublish(1) /\ ~Links(files, path)
        /\ manager' = exit(NewRecord(manager, path), pid, NOT_RUN) /\ bus' = Stopped(bus, pid)
        /\ reply' = [op |-> op, answer |-> "link failed"]
        /\ UNCHANGED <<session, phase, running, files, results, announced>>
    BY <1>4, Zenon DEF LinkFails
  <2>0. CanPublish(1)
    BY <2>1, Zenon
  <2>2. bus.next_seq <= session.published /\ bus.next_seq < U64_MAX
    BY <2>0, Facts
  <2>3. linkable' = Written(linkable, pid, FALSE)
    BY <1>2, <2>1, Zenon
  <2>4. /\ Accounts(manager', bus', announced, linkable')
        /\ Len(manager'.records) = Len(manager.records) + 1 /\ manager'.init_pid = manager.init_pid
        /\ bus'.next_seq = bus.next_seq + 1
    BY <1>2, <2>1, <2>2, <2>3, LinkFailsAccounts, Zenon DEF IInv
  <2>5. FirstIsInit(phase, manager', announced)
    <3>1. phase # "boot"
      BY <1>2, <2>1, Zenon
    <3> QED BY <2>4, <3>1, Facts DEF IInv, FirstIsInit
  <2>6. RoomToStop(session, bus', running)
    BY <2>2, <2>4, Facts, RoomAfterEvent, Zenon
  <2>7. ExecReportsResult'
    <3>1. "pid" \notin DOMAIN reply'
      BY <2>1, Zenon
    <3> QED BY <3>1 DEF ExecReportsResult
  <2> QED BY <2>1, <2>4, <2>5, <2>6, <2>7, Zenon DEF IInv
<1> QED BY <1>1, <1>3, <1>4, Zenon DEF Call, path

\* The result is recorded whatever happened to the record while the program
\* ran, and exec reports it.
LEMMA ProgramReturnsStep ==
  ASSUME IInv, NEW code \in Codes \union {0, NOT_RUN}, ProgramReturns(code)
  PROVE  IInv'
<1> DEFINE pid == running.pid
           m1 == set_running(manager, pid)
           m2 == exit(m1, pid, code)
<1>1. /\ running # None /\ manager' = m2 /\ bus' = Stopped(bus, pid)
      /\ results' = Written(results, pid, code) /\ running' = None
      /\ reply' = [op |-> running.op, pid |-> pid,
                   answer |-> IF running.op = "exec" THEN m2.records[Find(m2, pid)].exit_code ELSE pid]
      /\ UNCHANGED <<session, phase, files, announced, linkable>>
  BY Zenon DEF ProgramReturns
<1>2. pid \in announced /\ pid \in 1 .. Len(manager.records) /\ code # None
  <2>1. pid \in announced
    BY <1>1, Zenon DEF IInv, RunningIsAnnounced
  <2>2. code # None
    BY CodeIsNumber, Zenon
  <2> QED BY <2>1, <2>2, Facts, Zenon
<1>3. bus.next_seq <= session.published + 1 /\ bus.next_seq < U64_MAX
  <2>1. bus.next_seq <= session.published + 1
    BY <1>1, Zenon DEF IInv, RoomToStop
  <2> QED BY <2>1, Facts, BelowMaximum, Zenon
<1> HIDE DEF pid
<1>4. /\ ManagerOK(m1) /\ Replaced(manager, m1, pid)
      /\ m1.records[pid].state = "Exited" <=> manager.records[pid].state = "Exited"
      /\ m1.records[pid].exit_code = manager.records[pid].exit_code
  BY <1>2, Facts, SetRunningEffect, Zenon
<1> HIDE DEF m1
<1>5. Accounts(m1, bus, announced, linkable)
  BY <1>4, MarkAccounts, Zenon DEF IInv
<1>6. pid \in 1 .. Len(m1.records)
  BY <1>2, <1>4 DEF Replaced
<1>7. /\ Accounts(manager', bus', announced, linkable) /\ Replaced(m1, manager', pid)
      /\ bus'.next_seq = bus.next_seq + 1 /\ manager'.records[pid].exit_code = code
  <2>1. EndAccounted(m1, bus, announced, linkable, pid, code, m2, Stopped(bus, pid))
    BY <1>2, <1>3, <1>5, <1>6, ResultAccounts, Zenon
  <2> QED BY <1>1, <2>1, Zenon DEF EndAccounted
<1> HIDE DEF m2
<1>8. Find(m2, pid) = pid
  <2>1. ManagerOK(m2) /\ pid \in 1 .. Len(m2.records)
    BY <1>1, <1>6, <1>7, Zenon DEF Accounts, Replaced
  <2> QED BY <2>1, FindIsPid
<1>9. ExecReportsResult'
  <2>1. reply' = [op |-> running.op, pid |-> pid, answer |-> IF running.op = "exec" THEN code ELSE pid]
    BY <1>1, <1>7, <1>8, Zenon
  <2>2. results'[pid] = code
    BY <1>1, Zenon DEF Written
  <2>3. reply'.op = running.op /\ reply'.pid = pid
        /\ reply'.answer = IF running.op = "exec" THEN code ELSE pid
    BY <2>1
  <2> QED BY <2>2, <2>3 DEF ExecReportsResult
<1>10. FirstIsInit(phase, manager', announced)
  BY <1>4, <1>7, Zenon DEF IInv, FirstIsInit, Replaced
<1>11. RoomToStop(session, bus', running')
  BY <1>1, <1>3, <1>7, Facts, RoomAfterEnd, Zenon
<1>12. RunningIsAnnounced(running', announced)
  BY <1>1 DEF RunningIsAnnounced
<1> QED BY <1>1, <1>7, <1>9, <1>10, <1>11, <1>12, Zenon DEF IInv

LEMMA NextIInv == IInv /\ [Next]_vars => IInv'
<1> SUFFICES ASSUME IInv, [Next]_vars PROVE IInv'
  OBVIOUS
<1>1. CASE start_pid1
  BY <1>1, StartPid1Step
<1>2. CASE finish_pid1
  BY <1>2, FinishPid1Step
<1>3. CASE ensure_shell_process
  BY <1>3, EnsureShellStep
<1>4. ASSUME NEW pid \in 1 .. session.processes, Kill(pid) \/ Wait(pid) \/ ProgramKills(pid)
      PROVE  IInv'
  BY <1>4, KillStep, WaitStep, ProgramKillsStep
<1>5. ASSUME NEW code \in Codes, SyscallExit(code)
      PROVE  IInv'
  BY <1>5, SyscallExitStep
<1>6. ASSUME NEW name \in session.commands, Call("spawn", name) \/ Call("exec", name)
      PROVE  IInv'
  <2>1. name.bare \in BOOLEAN
    BY SessionBounds DEF IInv
  <2> QED BY <1>6, <2>1, CallStep
<1>7. CASE Call("fork", InitScript)
  BY <1>7, ProcessAssumption, CallStep
<1>8. ASSUME NEW code \in Codes \union {0, NOT_RUN}, ProgramReturns(code)
      PROVE  IInv'
  BY <1>8, ProgramReturnsStep
<1>9. ASSUME NEW edit \in session.edits, Edit(edit[1], edit[2])
      PROVE  IInv'
  BY <1>9, EditStep
<1>10. CASE cmd_pkgimg
  BY <1>10, PkgimgStep
<1>11. ASSUME NEW kind \in EventKind \ {"ProcessStarted", "ProcessStopped"}, PublishOther(kind)
       PROVE  IInv'
  BY <1>11, PublishOtherStep
<1>12. ASSUME NEW keep_latest \in 0 .. MAX_EVENTS, ClearStale(keep_latest)
       PROVE  IInv'
  BY <1>12, ClearStaleStep
<1>13. CASE UNCHANGED vars
  BY <1>13, Zenon DEF vars, IInv, ExecReportsResult
<1> QED BY <1>1, <1>2, <1>3, <1>4, <1>5, <1>6, <1>7, <1>8, <1>9, <1>10, <1>11, <1>12, <1>13, Zenon DEF Next

\* The accounts are what LifeIsCounted says of the table and the log.
LEMMA AccountsCountLife == IInv => LifeIsCounted
<1> SUFFICES ASSUME IInv PROVE LifeIsCounted
  OBVIOUS
<1> DEFINE n == Len(manager.records)
           exited == {p \in Pids : Record(p).state = "Exited"}
<1>1. /\ ManagerOK(manager) /\ BusOK(bus) /\ n \in Nat /\ Pids = 1 .. n
      /\ DOMAIN manager.records = 1 .. n /\ DOMAIN bus.events = 1 .. Len(bus.events)
  BY Facts, SeqLen DEF ManagerOK, BusOK
<1>2. \A p \in 1 .. n : Record(p) = manager.records[p]
  BY <1>1, FindIsPid DEF Record
<1>3. exited = ExitedPids(manager)
  BY <1>1, <1>2 DEF ExitedPids
<1>4. RecordsAreSound
  <2>1. \A i \in 1 .. n : manager.records[i].pid = i
    BY <1>1, RecordPid DEF ManagerOK
  <2>2. \A i \in 1 .. n : (manager.records[i].state = "Exited") <=> (manager.records[i].exit_code # None)
    BY <1>1, Zenon DEF ManagerOK, RecordOK
  <2> QED BY <1>1, <2>1, <2>2 DEF RecordsAreSound
<1>5. LogIsNewestEvents
  BY <1>1 DEF BusOK, LogIsNewestEvents
<1>6. /\ bus.counters["ProcessStarted"] = Cardinality(announced)
      /\ bus.counters["ProcessStopped"] >= Cardinality(exited)
      /\ \A p \in DOMAIN linkable : linkable[p] <=> p \in announced
  BY <1>3, Zenon DEF IInv, Accounts
<1>7. \A p \in Pids \ announced : p \in exited /\ Record(p).exit_code \in {NOT_RUN, KILLED}
  BY <1>1, <1>2, Zenon DEF IInv, Accounts, NeverRan
<1> QED BY <1>4, <1>5, <1>6, <1>7, Zenon DEF LifeIsCounted

-----------------------------------------------------------------------------
(* The theorems.                                                           *)

\* In every run of the process manager, with any package, any edits of the
\* files and any programs, the invariant holds.
THEOREM ProcessInvariant == Spec => []IInv
<1>1. Init => IInv
  BY InitIInv
<1>2. IInv /\ [Next]_vars => IInv'
  BY NextIInv
<1> QED BY <1>1, <1>2, PTL DEF Spec

\* The counters, the log and the table account for the life of every process,
\* whichever code path ended it; a program ran exactly when spawn's linker
\* found all its image needs.
THEOREM LifeAlwaysCounted == Spec => []LifeIsCounted
<1>1. IInv => LifeIsCounted
  BY AccountsCountLife
<1> QED BY <1>1, ProcessInvariant, PTL

\* exec answers with what the program returned, although the process may have
\* been killed while the program ran.
THEOREM ExecAlwaysReports == Spec => []ExecReportsResult
<1>1. IInv => ExecReportsResult
  BY DEF IInv
<1> QED BY <1>1, ProcessInvariant, PTL
=============================================================================
