-------------------------- MODULE SchedulerProofs --------------------------
(***************************************************************************)
(* The run queue, the thread states and the interrupt flag stay consistent *)
(* for every number of threads, every quantum and every sleep.             *)
(***************************************************************************)
EXTENDS Scheduler, SequenceTheorems, NaturalsInduction, WellFoundedInduction, TLAPS

\* More time than the default for each leaf.
USE SMTT(20), ZenonT(20)

Ready(st) == {t \in Threads : st[t] = "Ready"}

\* The elements of q, each once, are those of S.
Enumerates(q, S) ==
  /\ q \in Seq(Threads)
  /\ \A i \in 1 .. Len(q) : q[i] \in S
  /\ \A x \in S : \E i \in 1 .. Len(q) : q[i] = x
  /\ \A i, j \in 1 .. Len(q) : i # j => q[i] # q[j]

\* Adding a new element at the back.
LEMMA EnumeratesMore ==
  ASSUME NEW q, NEW S \in SUBSET Threads, NEW x \in Threads, Enumerates(q, S), x \notin S
  PROVE  Enumerates(q \o <<x>>, S \union {x})
<1>1. q \in Seq(Threads) /\ <<x>> \in Seq(Threads) /\ Len(<<x>>) = 1 /\ <<x>>[1] = x
  BY DEF Enumerates
<1>2. /\ q \o <<x>> \in Seq(Threads)
      /\ Len(q \o <<x>>) = Len(q) + 1
      /\ \A i \in 1 .. Len(q) + 1 : (q \o <<x>>)[i] = IF i <= Len(q) THEN q[i] ELSE <<x>>[i - Len(q)]
  BY <1>1, ConcatProperties
<1> DEFINE r == q \o <<x>>
<1>3. Len(q) \in Nat
  BY <1>1, LenProperties
<1>4. r[Len(q) + 1] = x /\ \A i \in 1 .. Len(q) : r[i] = q[i]
  BY <1>1, <1>2, <1>3
<1>5. r \in Seq(Threads) /\ Len(r) = Len(q) + 1
  BY <1>2
<1> HIDE DEF r
<1>6. \A i \in 1 .. Len(r) : r[i] \in S \union {x}
  BY <1>3, <1>4, <1>5 DEF Enumerates
<1>7. \A y \in S \union {x} : \E i \in 1 .. Len(r) : r[i] = y
  BY <1>3, <1>4, <1>5 DEF Enumerates
<1>8. \A i, j \in 1 .. Len(r) : i # j => r[i] # r[j]
  BY <1>3, <1>4, <1>5 DEF Enumerates
<1>9. Enumerates(r, S \union {x})
  BY <1>5, <1>6, <1>7, <1>8 DEF Enumerates
<1> QED BY <1>9 DEF r

\* A queue of which the beginning, up to i, is cut off.
LEMMA EnumeratesRest ==
  ASSUME NEW q, NEW S \in SUBSET Threads, Enumerates(q, S), NEW i \in 1 .. Len(q)
  PROVE  Enumerates(SubSeq(q, i + 1, Len(q)), {q[k] : k \in i + 1 .. Len(q)})
<1>1. q \in Seq(Threads) /\ Len(q) \in Nat /\ \A k \in 1 .. Len(q) : q[k] \in Threads
  BY LenProperties, ElementOfSeq DEF Enumerates
<1> DEFINE r == SubSeq(q, i + 1, Len(q))
<1>2. /\ r \in Seq(Threads)
      /\ Len(r) = IF i + 1 <= Len(q) THEN Len(q) - (i + 1) + 1 ELSE 0
      /\ \A k \in 1 .. Len(q) - (i + 1) + 1 : r[k] = q[i + 1 + k - 1]
  <2>1. i + 1 \in Int /\ Len(q) \in Int /\ \A k \in i + 1 .. Len(q) : q[k] \in Threads
    BY <1>1
  <2> QED BY <2>1, SubSeqProperties
<1>3. Len(r) = Len(q) - i /\ \A k \in 1 .. Len(q) - i : r[k] = q[i + k]
  BY <1>1, <1>2
<1>4. r \in Seq(Threads)
  BY <1>2
<1> HIDE DEF r
<1>5. \A k \in 1 .. Len(r) : r[k] \in {q[l] : l \in i + 1 .. Len(q)}
  BY <1>1, <1>3
<1>6. \A y \in {q[l] : l \in i + 1 .. Len(q)} : \E k \in 1 .. Len(r) : r[k] = y
  <2> TAKE y \in {q[l] : l \in i + 1 .. Len(q)}
  <2>1. PICK l \in i + 1 .. Len(q) : y = q[l]
    OBVIOUS
  <2>2. l - i \in 1 .. Len(r) /\ r[l - i] = q[l]
    BY <1>1, <1>3, <2>1
  <2> QED BY <2>1, <2>2
<1>7. \A k, l \in 1 .. Len(r) : k # l => r[k] # r[l]
  <2> TAKE k, l \in 1 .. Len(r)
  <2> HAVE k # l
  <2>1. i + k \in 1 .. Len(q) /\ i + l \in 1 .. Len(q) /\ i + k # i + l
    BY <1>1, <1>3
  <2>2. q[i + k] # q[i + l]
    BY <2>1 DEF Enumerates
  <2>3. r[k] = q[i + k] /\ r[l] = q[i + l]
    BY <1>1, <1>3
  <2> QED BY <2>2, <2>3
<1>8. Enumerates(r, {q[l] : l \in i + 1 .. Len(q)})
  BY <1>4, <1>5, <1>6, <1>7, Zenon DEF Enumerates
<1> QED BY <1>8 DEF r

LEMMA LeastNat ==
  ASSUME NEW S \in SUBSET Nat, S # {}
  PROVE  \E x \in S : \A y \in S : x <= y
<1> DEFINE R == {ss \in Nat \X Nat : ss[1] < ss[2]}
<1>1. IsWellFoundedOn(R, Nat)
  BY NatLessThanWellFounded, Zenon DEF OpToRel
<1> HIDE DEF R
<1>2. PICK x \in S : \A y \in S : ~(<<y, x>> \in R)
  BY <1>1, WFMin, Zenon
<1>3. ASSUME NEW y \in S PROVE x <= y
  <2>1. ~(<<y, x>> \in R)
    BY <1>2
  <2> QED BY <2>1 DEF R
<1> QED BY <1>3

\* pick_next takes one Ready thread out of a queue that enumerates them and
\* keeps all others.
LEMMA PickNext ==
  ASSUME NEW S \in SUBSET Threads, S = Ready(state), Enumerates(run_queue, S), Idle \in S
  PROVE  /\ pick_next.next \in S
         /\ Enumerates(pick_next.queue, S \ {pick_next.next})
<1> DEFINE q == run_queue
<1>1. DOMAIN q = 1 .. Len(q) /\ Len(q) \in Nat
  BY LenProperties DEF Enumerates
<1>2. \A i \in 1 .. Len(q) : q[i] \in S /\ state[q[i]] = "Ready"
  BY DEF Enumerates, Ready
<1>3. Candidates = {i \in 1 .. Len(q) : q[i] # Idle}
  BY <1>1, <1>2 DEF Candidates
<1>4. CASE Candidates = {}
  <2>1. pick_next.next = Idle /\ pick_next.queue = <<>>
    BY <1>4 DEF pick_next
  <2>2. S \ {Idle} = {}
    BY <1>3, <1>4 DEF Enumerates
  <2>3. Enumerates(<<>>, {})
    BY EmptySeq DEF Enumerates
  <2> QED BY <2>1, <2>2, <2>3, Zenon
<1>5. CASE Candidates # {}
  <2> DEFINE i == CHOOSE k \in Candidates : Picked(k)
             rest == SubSeq(q, i + 1, Len(q))
             R == {q[k] : k \in i + 1 .. Len(q)}
  <2>1. Candidates \in SUBSET Nat
    BY <1>1, <1>3
  <2>2. i \in Candidates /\ \A j \in Candidates : i <= j
    BY <1>5, <2>1, LeastNat, Zenon DEF Picked
  <2>3. pick_next.next = q[i] /\ pick_next.queue = rest \o (IF IdlePassed(i) THEN <<Idle>> ELSE <<>>)
    BY <1>5, Zenon DEF pick_next
  <2> HIDE DEF i
  <2>4. i \in 1 .. Len(q) /\ q[i] # Idle
    BY <1>3, <2>2
  <2>5. \A j \in 1 .. i - 1 : q[j] = Idle
    BY <1>1, <1>3, <2>2, <2>4
  <2>6. Enumerates(rest, R)
    BY <2>4, EnumeratesRest
  <2>7. q[i] \in S
    BY <1>2, <2>4
  <2>8. IdlePassed(i) <=> \E j \in 1 .. i - 1 : q[j] = Idle
    BY <1>2 DEF IdlePassed, Ready
  <2>9. R \subseteq S /\ q[i] \notin R
    BY <1>1, <1>2, <2>4 DEF Enumerates
  <2>10. CASE IdlePassed(i)
    <3>1. Idle \notin R
      BY <1>1, <2>4, <2>8, <2>10 DEF Enumerates
    <3>2. R \union {Idle} = S \ {q[i]}
      <4>1. ASSUME NEW x \in S, x # q[i] PROVE x \in R \union {Idle}
        <5>1. PICK k \in 1 .. Len(q) : q[k] = x
          BY DEF Enumerates
        <5>2. k < i \/ k > i
          BY <1>1, <2>4, <4>1, <5>1
        <5>3. CASE k < i
          BY <1>1, <2>4, <2>5, <5>1, <5>3
        <5>4. CASE k > i
          BY <1>1, <2>4, <5>1, <5>4
        <5> QED BY <5>2, <5>3, <5>4
      <4> QED BY <2>4, <2>9, <4>1
    <3>3. Idle \in Threads /\ R \in SUBSET Threads
      BY <2>9
    <3>4. Enumerates(rest \o <<Idle>>, R \union {Idle})
      BY <2>6, <3>1, <3>3, EnumeratesMore
    <3> QED BY <2>3, <2>7, <2>10, <3>2, <3>4, Zenon
  <2>11. CASE ~IdlePassed(i)
    <3>1. i = 1
      BY <1>1, <2>4, <2>5, <2>8, <2>11
    <3>2. R = S \ {q[i]}
      <4>1. ASSUME NEW x \in S, x # q[i] PROVE x \in R
        <5>1. PICK k \in 1 .. Len(q) : q[k] = x
          BY DEF Enumerates
        <5>2. k \in i + 1 .. Len(q)
          BY <1>1, <3>1, <4>1, <5>1
        <5> QED BY <5>1, <5>2
      <4> QED BY <2>9, <4>1
    <3>3. rest \o <<>> = rest
      BY <2>6, ConcatEmptySeq DEF Enumerates
    <3> QED BY <2>3, <2>6, <2>7, <2>11, <3>2, <3>3, Zenon
  <2> QED BY <2>10, <2>11
<1> QED BY <1>4, <1>5

-----------------------------------------------------------------------------
(* The inductive invariant.                                                *)

States == {"none", "Ready", "Running", "Dead"}

\* The scheduler uses only the states Ready, Running and Dead of ThreadState, and
\* current is an index of the thread table.
Typed ==
  /\ state \in [Threads -> States]
  /\ pc \in [Threads -> Positions]
  /\ cont \in [Threads -> {"run", "sleep", "hlt", "exit"}]
  /\ current \in Threads

\* Until scheduler::init the bootstrap code is alone.
BeforeInit ==
  ~Live(Bootstrap) =>
    /\ \A t \in Threads : state[t] = "none"
    /\ run_queue = <<>>
    /\ current = Bootstrap
    /\ pc[Bootstrap] = "run"
    /\ phase = "boot"

\* The idle thread waits in the queue until it gets the CPU for the first time,
\* and keeps it from then on: idle_entry never calls yield_now.
IdleNeverYields ==
  /\ Live(Bootstrap) => state[Idle] \in {"Ready", "Running"}
  /\ state[Idle] = "Ready" => pc[Idle] = "new"
  /\ pc[Idle] \in {"none", "new", "hlt", "halted"}

SchedInv ==
  /\ Typed
  /\ Enumerates(run_queue, Ready(state))
  /\ OneRunningThread
  /\ ScheduleIsMasked
  /\ BeforeInit
  /\ IdleNeverYields

LEMMA ThreadIds == Bootstrap \in Threads /\ Idle \in Threads /\ Bootstrap # Idle
BY SchedulerAssumption DEF Bootstrap, Idle, Threads

LEMMA SchedInitHolds == Init => SchedInv
<1> SUFFICES ASSUME Init PROVE SchedInv
  OBVIOUS
<1>1. Typed
  BY ThreadIds DEF Init, Typed, States, Positions
<1>2. Ready(state) = {}
  BY DEF Init, Ready
<1>3. Enumerates(run_queue, Ready(state))
  BY <1>2, EmptySeq DEF Init, Enumerates
<1>4. ~Live(Bootstrap)
  BY ThreadIds DEF Init, Live
<1>5. OneRunningThread /\ ScheduleIsMasked /\ BeforeInit
  BY <1>4, ThreadIds DEF Init, OneRunningThread, ScheduleIsMasked, BeforeInit
<1>6. IdleNeverYields
  BY <1>4, ThreadIds DEF Init, IdleNeverYields
<1> QED BY <1>1, <1>3, <1>5, <1>6 DEF SchedInv

\* A step that leaves the scheduler's data alone and moves only the current
\* thread in its code.
LEMMA OwnStep ==
  ASSUME SchedInv, NEW where \in Positions, Live(Bootstrap),
         pc' = [pc EXCEPT ![current] = where],
         cont' \in [Threads -> {"run", "sleep", "hlt", "exit"}],
         UNCHANGED <<state, run_queue, current>>,
         state[current] = "Dead" =>
           where = "exit" \/ (where = "masked" /\ cont'[current] = "exit"),
         where \in {"masked", "resumed", "new"} => int_flag' = FALSE,
         current = Idle => where \in {"hlt", "halted"}
  PROVE  SchedInv'
<1> USE DEF SchedInv
<1>1. Typed'
  BY Zenon DEF Typed
<1>2. Enumerates(run_queue, Ready(state))'
  BY DEF Enumerates, Ready
<1>3. pc'[current'] = where
  BY DEF Typed
<1>4. OneRunningThread'
  BY <1>3 DEF OneRunningThread, Live
<1>5. ScheduleIsMasked'
  BY <1>3 DEF ScheduleIsMasked
<1>6. BeforeInit'
  BY DEF BeforeInit, Live
<1>7. IdleNeverYields'
  <2>1. CASE current = Idle
    <3>1. state[Idle] # "Ready"
      BY <2>1, ThreadIds DEF OneRunningThread
    <3> QED BY <1>3, <2>1, <3>1, ThreadIds DEF IdleNeverYields, Live
  <2>2. CASE current # Idle
    BY <2>2, ThreadIds DEF IdleNeverYields, Live, Typed
  <2> QED BY <2>1, <2>2
<1> QED BY <1>1, <1>2, <1>4, <1>5, <1>6, <1>7

LEMMA InitStep == SchedInv /\ SchedulerInit => SchedInv'
<1> SUFFICES ASSUME SchedInv, SchedulerInit PROVE SchedInv'
  OBVIOUS
<1> USE DEF SchedInv
<1>1. /\ \A t \in Threads : state[t] = "none"
      /\ current = Bootstrap /\ pc[Bootstrap] = "run"
  BY DEF SchedulerInit, BeforeInit
<1>2. /\ state'[Bootstrap] = "Running" /\ state'[Idle] = "Ready"
      /\ \A t \in Threads \ {Bootstrap, Idle} : state'[t] = "none"
      /\ pc'[Idle] = "new" /\ pc'[Bootstrap] = "run"
      /\ current' = Bootstrap /\ run_queue' = <<Idle>>
  BY <1>1, ThreadIds DEF SchedulerInit, Typed
<1>3. Typed'
  BY ThreadIds DEF SchedulerInit, Typed, States, Positions
<1>4. Ready(state)' = {Idle}
  BY <1>2, ThreadIds DEF Ready
<1>5. Enumerates(<<Idle>>, {Idle})
  BY ThreadIds DEF Enumerates
<1>6. Enumerates(run_queue, Ready(state))'
  BY <1>2, <1>4, <1>5 DEF Enumerates
<1>7. OneRunningThread'
  BY <1>2, ThreadIds DEF OneRunningThread
<1>8. ScheduleIsMasked' /\ BeforeInit' /\ IdleNeverYields'
  BY <1>2 DEF ScheduleIsMasked, BeforeInit, IdleNeverYields, Live
<1> QED BY <1>3, <1>6, <1>7, <1>8

LEMMA SpawnStep ==
  ASSUME SchedInv, NEW t \in Threads, NEW u \in Threads, Spawn(t, u)
  PROVE  SchedInv'
<1> USE DEF SchedInv
<1>1. current = t /\ pc[t] = "run" /\ t # Idle /\ state[t] # "none" /\ state[u] = "none"
  BY DEF Spawn, At, Live
<1>2. Live(Bootstrap)
  BY <1>1 DEF BeforeInit
<1>3. u # t /\ u # Idle /\ u # Bootstrap
  BY <1>1, <1>2 DEF IdleNeverYields, Live
<1>4. /\ state'[u] = "Ready" /\ \A v \in Threads \ {u} : state'[v] = state[v] /\ pc'[v] = pc[v]
      /\ current' = current /\ int_flag' = int_flag /\ cont' = cont
      /\ run_queue' = Append(run_queue, u)
  BY DEF Spawn, Typed
<1>5. Typed'
  BY DEF Spawn, Typed, States, Positions
<1>6. Ready(state)' = Ready(state) \union {u} /\ u \notin Ready(state) /\ Ready(state) \in SUBSET Threads
  BY <1>1, <1>4 DEF Ready
<1>7. Append(run_queue, u) = run_queue \o <<u>>
  BY AppendIsConcat DEF Enumerates
<1>8. Enumerates(run_queue \o <<u>>, Ready(state) \union {u})
  BY <1>6, EnumeratesMore
<1>9. Enumerates(run_queue, Ready(state))'
  BY <1>4, <1>6, <1>7, <1>8 DEF Enumerates
<1>10. OneRunningThread'
  BY <1>1, <1>2, <1>3, <1>4 DEF OneRunningThread, Live
<1>11. ScheduleIsMasked' /\ BeforeInit' /\ IdleNeverYields'
  BY <1>1, <1>2, <1>3, <1>4, ThreadIds DEF ScheduleIsMasked, BeforeInit, IdleNeverYields, Live
<1> QED BY <1>5, <1>9, <1>10, <1>11

LEMMA ExitStep ==
  ASSUME SchedInv, NEW t \in Threads, Exit(t)
  PROVE  SchedInv'
<1> USE DEF SchedInv
<1>1. current = t /\ pc[t] = "run" /\ t # Idle /\ t # Bootstrap
  BY ThreadIds DEF Exit, At, Bootstrap, Idle
<1>2. Live(Bootstrap)
  BY <1>1 DEF BeforeInit
<1>3. state[t] = "Running" /\ \A v \in Threads \ {t} : state[v] # "Running"
  BY <1>1, <1>2 DEF OneRunningThread
<1>4. /\ state'[t] = "Dead" /\ pc'[t] = "exit"
      /\ \A v \in Threads \ {t} : state'[v] = state[v] /\ pc'[v] = pc[v]
      /\ current' = current /\ run_queue' = run_queue
  BY DEF Exit, Typed
<1>5. Typed'
  BY DEF Exit, Typed, States, Positions
<1>6. Ready(state)' = Ready(state)
  BY <1>3, <1>4 DEF Ready
<1>7. Enumerates(run_queue, Ready(state))'
  BY <1>4, <1>6 DEF Enumerates
<1>8. OneRunningThread'
  BY <1>1, <1>3, <1>4 DEF OneRunningThread
<1>9. ScheduleIsMasked' /\ BeforeInit' /\ IdleNeverYields'
  BY <1>1, <1>2, <1>4, ThreadIds DEF ScheduleIsMasked, BeforeInit, IdleNeverYields, Live
<1> QED BY <1>5, <1>7, <1>8, <1>9

LEMMA ScheduleStep ==
  ASSUME SchedInv, NEW t \in Threads, Schedule(t)
  PROVE  SchedInv'
<1> USE DEF SchedInv
<1>1. current = t /\ pc[t] = "masked" /\ int_flag' = int_flag /\ cont' = cont
  BY DEF Schedule, At
<1>2. Live(Bootstrap) /\ t # Idle
  BY <1>1 DEF BeforeInit, IdleNeverYields
<1>3. ~int_flag
  BY <1>1 DEF ScheduleIsMasked
<1>4. state[t] \in {"Running", "Dead"} /\ \A v \in Threads \ {t} : state[v] # "Running"
  BY <1>1, <1>2 DEF OneRunningThread, Typed, States
<1> DEFINE S == Ready(state)
<1>5. Idle \in S /\ S \in SUBSET Threads /\ t \notin S
  BY <1>2, <1>4, ThreadIds DEF Ready, IdleNeverYields
<1>6. pick_next.next \in S /\ Enumerates(pick_next.queue, S \ {pick_next.next})
  BY <1>5, PickNext
<1> DEFINE n == pick_next.next
           requeue == state[t] = "Running"
           q == pick_next.queue \o (IF requeue THEN <<t>> ELSE <<>>)
<1>7. n # t /\ n \in Threads /\ state[n] = "Ready"
  BY <1>5, <1>6 DEF Ready
<1>8. /\ current' = n /\ run_queue' = q
      /\ state' = [state EXCEPT ![t] = IF requeue THEN "Ready" ELSE @, ![n] = "Running"]
      /\ pc' = [pc EXCEPT ![t] = "switched", ![n] = IF @ = "new" THEN "new" ELSE "resumed"]
  BY <1>2, <1>7, Zenon DEF Schedule, do_schedule
<1> HIDE DEF n, q
<1>9. /\ state'[n] = "Running" /\ state'[t] = IF requeue THEN "Ready" ELSE state[t]
      /\ \A v \in Threads \ {t, n} : state'[v] = state[v] /\ pc'[v] = pc[v]
      /\ pc'[n] = IF pc[n] = "new" THEN "new" ELSE "resumed"
  BY <1>7, <1>8 DEF Typed
<1>10. Typed'
  <2>1. state' \in [Threads -> States]
    BY <1>7, <1>8 DEF Typed, States
  <2>2. pc' \in [Threads -> Positions]
    BY <1>7, <1>8 DEF Typed, Positions
  <2> QED BY <1>1, <1>7, <1>8, <2>1, <2>2 DEF Typed
<1>11. Enumerates(q, (S \ {n}) \union (IF requeue THEN {t} ELSE {}))
  <2>1. CASE requeue
    BY <1>5, <1>6, <2>1, EnumeratesMore DEF n, q
  <2>2. CASE ~requeue
    <3>1. q = pick_next.queue
      BY <1>6, <2>2, ConcatEmptySeq DEF q, Enumerates
    <3> QED BY <1>6, <2>2, <3>1 DEF n
  <2> QED BY <2>1, <2>2
<1>12. Ready(state)' = (S \ {n}) \union (IF requeue THEN {t} ELSE {})
  BY <1>4, <1>7, <1>9 DEF Ready
<1>13. Enumerates(run_queue, Ready(state))'
  BY <1>8, <1>11, <1>12, Zenon DEF Enumerates
<1>14. OneRunningThread'
  BY <1>4, <1>7, <1>8, <1>9, ZenonT(40) DEF OneRunningThread
<1>15. ScheduleIsMasked'
  BY <1>1, <1>3 DEF ScheduleIsMasked
<1>16. state'[Bootstrap] # "none"
  BY <1>2, <1>4, <1>9, ThreadIds DEF Live
<1>17. IdleNeverYields'
  <2>1. CASE n = Idle
    BY <1>7, <1>9, <2>1 DEF IdleNeverYields
  <2>2. CASE n # Idle
    BY <1>2, <1>9, <2>2, ThreadIds DEF IdleNeverYields, Live
  <2> QED BY <2>1, <2>2
<1> QED BY <1>10, <1>13, <1>14, <1>15, <1>16, <1>17 DEF BeforeInit, Live

LEMMA StutterStep ==
  ASSUME SchedInv, UNCHANGED vars
  PROVE  SchedInv'
<1>1. UNCHANGED <<state, run_queue, current, pc, cont, int_flag, phase>>
  BY DEF vars, sched
<1>2. Typed' /\ Enumerates(run_queue, Ready(state))'
  BY <1>1 DEF SchedInv, Typed, Enumerates, Ready
<1> QED BY <1>1, <1>2
        DEF SchedInv, OneRunningThread, ScheduleIsMasked, BeforeInit, IdleNeverYields, Live

\* The steps of a thread within its own code, and its calls of yield_now.
LEMMA ThreadSteps ==
  ASSUME SchedInv, NEW t \in Threads,
         \/ Yield(t) \/ Resume(t) \/ Trampoline(t) \/ ExitYield(t) \/ MaybePreempt(t)
         \/ SleepDone(t) \/ Halt(t) \/ (IdleLoop /\ t = Bootstrap)
         \/ \E ticks \in 0 .. MaxSleep : Sleep(t, ticks)
  PROVE  SchedInv'
<1> USE DEF SchedInv
<1> DEFINE Conts == {"run", "sleep", "hlt", "exit"}
<1>1. current = t /\ state' = state /\ run_queue' = run_queue /\ current' = current
  BY DEF Yield, Resume, Trampoline, ExitYield, MaybePreempt, SleepDone, Halt,
         IdleLoop, Sleep, EnterYield, sched, vars, At
<1>2. Live(Bootstrap)
  <2> SUFFICES ASSUME ~Live(Bootstrap) PROVE FALSE
    BY Zenon
  <2>1. t = Bootstrap /\ pc[t] = "run" /\ phase = "boot"
    BY <1>1, Zenon DEF BeforeInit
  <2> QED BY <2>1, SchedulerAssumption DEF Yield, Resume, Trampoline, ExitYield, MaybePreempt, SleepDone,
                      Halt, IdleLoop, Sleep, At, Bootstrap, Idle
<1>3. state[t] = "Dead" => pc[t] = "exit" \/ (pc[t] = "masked" /\ cont[t] = "exit")
  BY <1>1, <1>2 DEF OneRunningThread
<1>4. ASSUME NEW where \in Positions, NEW goOn \in Conts,
             pc' = [pc EXCEPT ![t] = where],
             cont' = cont \/ cont' = [cont EXCEPT ![t] = goOn],
             state[t] = "Dead" => where = "exit" \/ (where = "masked" /\ cont'[t] = "exit"),
             where \in {"masked", "resumed", "new"} => int_flag' = FALSE,
             t = Idle => where \in {"hlt", "halted"}
      PROVE  SchedInv'
  <2>1. cont' \in [Threads -> Conts]
    BY <1>4 DEF Typed
  <2> QED BY <1>1, <1>2, <1>4, <2>1, OwnStep, Zenon
<1>5. ASSUME NEW goOn \in Conts, EnterYield(t, goOn), t # Idle, state[t] = "Dead" => goOn = "exit"
      PROVE  SchedInv'
  <2>1. cont'[t] = goOn
    BY <1>5 DEF EnterYield, Typed
  <2> QED BY <1>4, <1>5, <2>1, Zenon DEF EnterYield, Positions
<1>6. t = Idle => pc[t] \in {"none", "new", "hlt", "halted"}
  BY DEF IdleNeverYields
<1>7. CASE Yield(t)
  BY <1>3, <1>5, <1>7 DEF Yield, At
<1>8. CASE Resume(t)
  <2>1. cont[t] \in Conts /\ cont[t] \in Positions
    BY DEF Typed, Positions
  <2>2. pc[t] = "resumed" /\ pc' = [pc EXCEPT ![t] = cont[t]] /\ cont' = cont
    BY <1>8 DEF Resume, At
  <2> QED BY <1>3, <1>4, <1>6, <2>1, <2>2, Zenon
<1>9. CASE Trampoline(t)
  <2>1. pc[t] = "new" /\ cont' = cont /\ pc' = [pc EXCEPT ![t] = IF t = Idle THEN "hlt" ELSE "run"]
    BY <1>9 DEF Trampoline, At
  <2>2. (IF t = Idle THEN "hlt" ELSE "run") \in Positions
    BY Zenon DEF Positions
  <2> QED BY <1>3, <1>4, <2>1, <2>2, ZenonT(40)
<1>10. CASE ExitYield(t)
  BY <1>5, <1>6, <1>10, Zenon DEF ExitYield, At
<1>11. CASE MaybePreempt(t)
  <2>1. pc[t] \in Conts \ {"exit"} /\ pc[t] # "masked" /\ t # Idle
    BY <1>11 DEF MaybePreempt, At, Idle
  <2>2. EnterYield(t, pc[t]) \/ UNCHANGED vars
    BY <1>11, Zenon DEF MaybePreempt
  <2> QED BY <1>3, <1>5, <2>1, <2>2, StutterStep, Zenon
<1>12. CASE SleepDone(t)
  BY <1>3, <1>4, <1>6, <1>12, Zenon DEF SleepDone, At, Positions
<1>13. CASE Halt(t)
  BY <1>3, <1>4, <1>13 DEF Halt, At, Positions
<1>14. CASE IdleLoop /\ t = Bootstrap
  BY <1>3, <1>5, <1>14, ThreadIds DEF IdleLoop, At
<1>15. CASE \E ticks \in 0 .. MaxSleep : Sleep(t, ticks)
  BY <1>3, <1>4, <1>6, <1>15 DEF Sleep, At, Positions
<1> QED BY <1>7, <1>8, <1>9, <1>10, <1>11, <1>12, <1>13, <1>14, <1>15, ZenonT(40)

\* The bootstrap code's steps that touch neither the scheduler nor a position.
LEMMA BootSteps ==
  ASSUME SchedInv, EnableInterrupts \/ EnterIdleLoop
  PROVE  SchedInv'
<1> USE DEF SchedInv
<1>1. /\ pc[current] = "run" /\ phase # "boot"
      /\ UNCHANGED <<state, run_queue, current, pc, cont>>
  BY DEF EnableInterrupts, EnterIdleLoop, At, sched
<1>2. Live(Bootstrap)
  BY <1>1 DEF BeforeInit
<1>3. Typed' /\ Enumerates(run_queue, Ready(state))'
  BY <1>1 DEF Typed, Enumerates, Ready
<1> QED BY <1>1, <1>2, <1>3
        DEF OneRunningThread, ScheduleIsMasked, BeforeInit, IdleNeverYields, Live

LEMMA TickStep ==
  ASSUME SchedInv, Tick
  PROVE  SchedInv'
<1> USE DEF SchedInv
<1>1. int_flag /\ UNCHANGED <<state, run_queue, current, int_flag, cont, phase>>
  BY DEF Tick
<1>2. pc[current] \notin {"masked", "resumed", "new"}
  BY <1>1 DEF ScheduleIsMasked
<1>3. CASE pc[current] = "halted"
  <2> DEFINE where == IF current = Idle THEN "hlt" ELSE "run"
  <2>1. pc' = [pc EXCEPT ![current] = where]
    BY <1>3 DEF Tick
  <2>2. Live(Bootstrap)
    BY <1>3 DEF BeforeInit
  <2>3. state[current] # "Dead"
    BY <1>3, <2>2 DEF OneRunningThread
  <2>4. where \in Positions /\ where \notin {"masked", "resumed", "new"}
    BY DEF Positions
  <2>5. cont' \in [Threads -> {"run", "sleep", "hlt", "exit"}]
    BY <1>1 DEF Typed
  <2>6. current = Idle => where \in {"hlt", "halted"}
    OBVIOUS
  <2> HIDE DEF where
  <2> QED BY <1>1, <2>1, <2>2, <2>3, <2>4, <2>5, <2>6, OwnStep, Zenon
<1>4. CASE pc[current] # "halted"
  <2>1. pc' = pc
    BY <1>4 DEF Tick
  <2>2. Typed' /\ Enumerates(run_queue, Ready(state))'
    BY <1>1, <2>1 DEF Typed, Enumerates, Ready
  <2>3. ScheduleIsMasked'
    BY <1>1, <1>2, <2>1 DEF ScheduleIsMasked
  <2> QED BY <1>1, <2>1, <2>2, <2>3
          DEF OneRunningThread, BeforeInit, IdleNeverYields, Live
<1> QED BY <1>3, <1>4

LEMMA SchedNext == SchedInv /\ [Next]_vars => SchedInv'
<1> SUFFICES ASSUME SchedInv, [Next]_vars PROVE SchedInv'
  OBVIOUS
<1>1. CASE SchedulerInit
  BY <1>1, InitStep
<1>2. CASE EnableInterrupts \/ EnterIdleLoop
  BY <1>2, BootSteps
<1>3. CASE IdleLoop
  BY <1>3, ThreadIds, ThreadSteps
<1>4. CASE Tick
  BY <1>4, TickStep
<1>5. ASSUME NEW t \in Threads, Step(t) PROVE SchedInv'
  BY <1>5, ThreadSteps, ScheduleStep DEF Step
<1>6. ASSUME NEW t \in Threads, Exit(t) PROVE SchedInv'
  BY <1>6, ExitStep
<1>7. ASSUME NEW t \in Threads, NEW u \in Threads, Spawn(t, u) PROVE SchedInv'
  BY <1>7, SpawnStep
<1>8. ASSUME NEW t \in Threads, NEW ticks \in 0 .. MaxSleep, Sleep(t, ticks) PROVE SchedInv'
  BY <1>8, ThreadSteps
<1>9. CASE UNCHANGED vars
  BY <1>9, StutterStep
<1> QED BY <1>1, <1>2, <1>3, <1>4, <1>5, <1>6, <1>7, <1>8, <1>9 DEF Next

\* For every number of threads, every quantum and every interleaving of yields,
\* exits, sleeps and timer interrupts: the run queue holds the Ready threads, each
\* once; one thread is Running, and it is the current one; and the timer interrupt
\* does not find do_schedule at work on the scheduler's data.
THEOREM SchedulerSound == Spec => []ScheduleIsSound
<1>1. SchedInv => ScheduleIsSound
  <2> SUFFICES ASSUME SchedInv PROVE QueueIsReadyThreads
    BY DEF SchedInv, ScheduleIsSound
  <2>1. DOMAIN run_queue = 1 .. Len(run_queue)
    BY LenProperties DEF SchedInv, Enumerates
  <2> QED BY <2>1 DEF SchedInv, Enumerates, Ready, QueueIsReadyThreads, Range
<1> QED BY <1>1, SchedInitHolds, SchedNext, PTL DEF Spec

-----------------------------------------------------------------------------
(* The order of dispatch.                                                  *)

\* What is added at the back changes no order, and is behind all there is.
LEMMA AheadMore ==
  ASSUME NEW q \in Seq(Threads), NEW x \in Threads
  PROVE  /\ \A t, u \in Threads : Ahead(q, t, u) => Ahead(q \o <<x>>, t, u)
         /\ \A i \in 1 .. Len(q) : Ahead(q \o <<x>>, q[i], x)
<1> DEFINE r == q \o <<x>>
<1>1. <<x>> \in Seq(Threads) /\ Len(<<x>>) = 1 /\ <<x>>[1] = x
  OBVIOUS
<1>2. /\ r \in Seq(Threads) /\ Len(r) = Len(q) + 1
      /\ \A i \in 1 .. Len(q) + 1 : r[i] = IF i <= Len(q) THEN q[i] ELSE <<x>>[i - Len(q)]
  BY <1>1, ConcatProperties
<1>3. Len(q) \in Nat /\ DOMAIN q = 1 .. Len(q) /\ DOMAIN r = 1 .. Len(q) + 1
  BY <1>2, LenProperties
<1>4. r[Len(q) + 1] = x /\ \A i \in 1 .. Len(q) : r[i] = q[i]
  BY <1>1, <1>2, <1>3
<1> HIDE DEF r
<1>5. \A t, u \in Threads : Ahead(q, t, u) => Ahead(r, t, u)
  BY <1>3, <1>4 DEF Ahead
<1>6. \A i \in 1 .. Len(q) : Ahead(r, q[i], x)
  BY <1>3, <1>4 DEF Ahead
<1> QED BY <1>5, <1>6 DEF r

LEMMA RestOf ==
  ASSUME NEW q \in Seq(Threads), NEW i \in 1 .. Len(q)
  PROVE  LET rest == SubSeq(q, i + 1, Len(q))
         IN  /\ rest \in Seq(Threads) /\ Len(rest) = Len(q) - i /\ DOMAIN rest = 1 .. Len(q) - i
             /\ \A k \in 1 .. Len(q) - i : rest[k] = q[i + k]
<1> DEFINE rest == SubSeq(q, i + 1, Len(q))
<1>1. Len(q) \in Nat /\ i + 1 \in Int /\ \A k \in i + 1 .. Len(q) : q[k] \in Threads
  BY LenProperties, ElementOfSeq
<1>2. /\ rest \in Seq(Threads)
      /\ Len(rest) = IF i + 1 <= Len(q) THEN Len(q) - (i + 1) + 1 ELSE 0
      /\ \A k \in 1 .. Len(q) - (i + 1) + 1 : rest[k] = q[i + 1 + k - 1]
  BY <1>1, SubSeqProperties
<1>3. DOMAIN rest = 1 .. Len(rest)
  BY <1>2, LenProperties
<1> HIDE DEF rest
<1>4. Len(rest) = Len(q) - i /\ \A k \in 1 .. Len(q) - i : rest[k] = q[i + k]
  BY <1>1, <1>2
<1>5. DOMAIN rest = 1 .. Len(q) - i
  BY <1>3, <1>4
<1> QED BY <1>2, <1>4, <1>5, Zenon DEF rest

\* pick_next takes the first thread that is not idle and keeps the order of the
\* others.
LEMMA PickNextInOrder ==
  ASSUME NEW S \in SUBSET Threads, S = Ready(state), Enumerates(run_queue, S), Idle \in S
  PROVE  /\ IF S = {Idle} THEN pick_next.next = Idle ELSE pick_next.next # Idle
         /\ \A u \in S \ {pick_next.next, Idle} : Ahead(run_queue, pick_next.next, u)
         /\ \A t, u \in S \ {pick_next.next, Idle} :
              Ahead(run_queue, t, u) => Ahead(pick_next.queue, t, u)
<1> DEFINE q == run_queue
<1>1. DOMAIN q = 1 .. Len(q) /\ Len(q) \in Nat /\ q \in Seq(Threads)
  BY LenProperties DEF Enumerates
<1>2. \A i \in 1 .. Len(q) : q[i] \in S /\ state[q[i]] = "Ready"
  BY DEF Enumerates, Ready
<1>3. Candidates = {i \in 1 .. Len(q) : q[i] # Idle}
  BY <1>1, <1>2 DEF Candidates
<1>4. CASE Candidates = {}
  <2>1. pick_next.next = Idle
    BY <1>4 DEF pick_next
  <2>2. S = {Idle}
    BY <1>3, <1>4 DEF Enumerates
  <2> QED BY <2>1, <2>2, Zenon
<1>5. CASE Candidates # {}
  <2> DEFINE i == CHOOSE k \in Candidates : Picked(k)
             rest == SubSeq(q, i + 1, Len(q))
             back == IF IdlePassed(i) THEN <<Idle>> ELSE <<>>
  <2>1. Candidates \in SUBSET Nat
    BY <1>1, <1>3
  <2>2. i \in Candidates /\ \A j \in Candidates : i <= j
    BY <1>5, <2>1, LeastNat, Zenon DEF Picked
  <2>3. pick_next.next = q[i] /\ pick_next.queue = rest \o back
    BY <1>5, Zenon DEF pick_next
  <2> HIDE DEF i
  <2>4. i \in 1 .. Len(q) /\ q[i] # Idle /\ q[i] \in S
    BY <1>2, <1>3, <2>2
  <2>5. \A k \in 1 .. Len(q) : q[k] \notin {q[i], Idle} => k > i
    BY <1>1, <1>3, <2>2, <2>4
  <2>6. ASSUME NEW u \in S \ {q[i], Idle}
        PROVE  Ahead(q, q[i], u)
    <3>1. PICK k \in 1 .. Len(q) : q[k] = u
      BY DEF Enumerates
    <3>2. i < k
      BY <2>4, <2>5, <3>1
    <3> QED BY <1>1, <2>4, <3>1, <3>2, Zenon DEF Ahead
  <2>7. /\ rest \in Seq(Threads) /\ Len(rest) = Len(q) - i /\ DOMAIN rest = 1 .. Len(q) - i
        /\ \A k \in 1 .. Len(q) - i : rest[k] = q[i + k]
    BY <1>1, <2>4, RestOf, Zenon
  <2> HIDE DEF rest
  <2>8. ASSUME NEW t \in S \ {q[i], Idle}, NEW u \in S \ {q[i], Idle}, Ahead(q, t, u)
        PROVE  Ahead(rest, t, u)
    <3>1. PICK k, l \in 1 .. Len(q) : k < l /\ q[k] = t /\ q[l] = u
      BY <1>1, <2>8 DEF Ahead
    <3>2. k > i /\ l > i
      BY <2>5, <3>1
    <3>3. /\ k - i \in DOMAIN rest /\ l - i \in DOMAIN rest /\ k - i < l - i
          /\ rest[k - i] = t /\ rest[l - i] = u
      BY <1>1, <2>4, <2>7, <3>1, <3>2
    <3> QED BY <3>3, Zenon DEF Ahead
  <2>9. ASSUME NEW t \in S \ {q[i], Idle}, NEW u \in S \ {q[i], Idle}, Ahead(rest, t, u)
        PROVE  Ahead(rest \o back, t, u)
    <3>1. CASE IdlePassed(i)
      BY <2>7, <2>9, <3>1, AheadMore
    <3>2. CASE ~IdlePassed(i)
      BY <2>7, <2>9, <3>2, ConcatEmptySeq
    <3> QED BY <3>1, <3>2
  <2>10. S # {Idle}
    BY <2>4
  <2> HIDE DEF back
  <2> QED BY <2>3, <2>4, <2>6, <2>8, <2>9, <2>10
<1> QED BY <1>4, <1>5

\* The elements of a queue that enumerates S.
LEMMA QueueRange ==
  ASSUME NEW q, NEW S, Enumerates(q, S)
  PROVE  Range(q) = S
<1>1. DOMAIN q = 1 .. Len(q)
  BY LenProperties DEF Enumerates
<1> QED BY <1>1 DEF Enumerates, Range

\* The CPU changes hands only inside do_schedule.
LEMMA OnlyScheduleSwitches ==
  ASSUME Next, current' # current
  PROVE  \E t \in Threads : Schedule(t)
<1>1. ~(SchedulerInit \/ EnableInterrupts \/ EnterIdleLoop \/ Tick \/ IdleLoop)
  BY Zenon DEF SchedulerInit, EnableInterrupts, EnterIdleLoop, Tick, IdleLoop, EnterYield, sched
<1>2. ASSUME NEW t \in Threads, Step(t)
      PROVE  Schedule(t)
  BY <1>2, Zenon DEF Step, Yield, Resume, Trampoline, ExitYield, MaybePreempt, SleepDone,
                     Halt, EnterYield, sched, vars
<1>3. \A t \in Threads : ~Exit(t)
  BY Zenon DEF Exit
<1>4. \A t, u \in Threads : ~Spawn(t, u)
  BY Zenon DEF Spawn
<1>5. \A t \in Threads, ticks \in 0 .. MaxSleep : ~Sleep(t, ticks)
  BY Zenon DEF Sleep, sched
<1> QED BY <1>1, <1>2, <1>3, <1>4, <1>5, Zenon DEF Next

\* idle_entry never calls yield_now: once do_schedule has given the CPU to the idle
\* thread, which it does when no other thread is Ready, no thread is ever
\* dispatched again.
THEOREM IdleKeepsTheCpu == Spec => [][state[Idle] = "Running" => current' = current]_vars
<1>1. SchedInv /\ [Next]_vars => [state[Idle] = "Running" => current' = current]_vars
  <2> SUFFICES ASSUME SchedInv, Next, state[Idle] = "Running" PROVE current' = current
    OBVIOUS
  <2>1. current = Idle
    BY ThreadIds DEF SchedInv, OneRunningThread, BeforeInit
  <2>2. \A t \in Threads : ~Schedule(t)
    BY <2>1 DEF Schedule, At, SchedInv, IdleNeverYields
  <2> QED BY <2>2, OnlyScheduleSwitches, Zenon
<1> QED BY <1>1, SchedInitHolds, SchedNext, PTL DEF Spec

-----------------------------------------------------------------------------
(* Sleep.                                                                  *)

\* A spawned thread never runs with interrupts on, nor finds its quantum expired;
\* only spawned threads sleep.
SpawnedIsMasked ==
  /\ saved \in [Threads -> BOOLEAN] /\ int_flag \in BOOLEAN
  /\ \A t \in Threads : t > Idle => ~saved[t]
  /\ current > Idle => ~int_flag /\ ~needs_reschedule
  /\ \A t \in Threads : pc[t] = "sleep" \/ cont[t] = "sleep" => t > Idle

LEMMA SpawnedNumbers == \A t \in Threads : (t > Idle <=> t \notin {Bootstrap, Idle})
BY SchedulerAssumption DEF Threads, Bootstrap, Idle

\* yield_now keeps what SpawnedIsMasked says.
LEMMA EnterYieldMasked ==
  ASSUME SchedInv, SpawnedIsMasked, NEW t \in Threads, current = t,
         NEW goOn \in {"run", "sleep", "hlt", "exit"}, goOn = "sleep" => t > Idle,
         EnterYield(t, goOn)
  PROVE  SpawnedIsMasked'
<1>1. /\ saved' = [saved EXCEPT ![t] = int_flag] /\ int_flag' = FALSE
      /\ current' = current /\ needs_reschedule' = needs_reschedule
      /\ pc' = [pc EXCEPT ![t] = "masked"] /\ cont' = [cont EXCEPT ![t] = goOn]
  BY DEF EnterYield, sched
<1>2. /\ saved' \in [Threads -> BOOLEAN] /\ int_flag' \in BOOLEAN
      /\ \A u \in Threads : u > Idle => ~saved'[u]
      /\ current' > Idle => ~int_flag' /\ ~needs_reschedule'
  BY <1>1, Zenon DEF SpawnedIsMasked
<1>3. \A u \in Threads : pc'[u] = "sleep" \/ cont'[u] = "sleep" => u > Idle
  BY <1>1 DEF SpawnedIsMasked, SchedInv, Typed
<1> QED BY <1>2, <1>3 DEF SpawnedIsMasked

LEMMA SpawnedNext == SchedInv /\ SpawnedIsMasked /\ [Next]_vars => SpawnedIsMasked'
<1> SUFFICES ASSUME SchedInv, SpawnedIsMasked, [Next]_vars PROVE SpawnedIsMasked'
  OBVIOUS
<1> USE DEF SpawnedIsMasked
<1>1. /\ pc \in [Threads -> Positions] /\ cont \in [Threads -> {"run", "sleep", "hlt", "exit"}]
      /\ current \in Threads
  BY DEF SchedInv, Typed
<1>2. CASE SchedulerInit
  BY <1>1, <1>2, ThreadIds DEF SchedulerInit
<1>3. CASE EnableInterrupts \/ EnterIdleLoop
  BY <1>1, <1>3, ThreadIds, SpawnedNumbers, Zenon DEF EnableInterrupts, EnterIdleLoop, sched, At
<1>4. CASE IdleLoop
  BY <1>4, ThreadIds, EnterYieldMasked DEF IdleLoop, At
<1>5. CASE Tick
  <2>1. ~(current > Idle) /\ UNCHANGED <<current, int_flag, cont, saved>>
    BY <1>5 DEF Tick
  <2>2. \A t \in Threads : pc'[t] = "sleep" => pc[t] = "sleep"
    BY <1>1, <1>5 DEF Tick
  <2> QED BY <2>1, <2>2
<1>6. ASSUME NEW t \in Threads, Step(t) PROVE SpawnedIsMasked'
  <2>1. CASE Yield(t)
    BY <2>1, EnterYieldMasked DEF Yield, At
  <2>2. CASE Schedule(t)
    <3>1. /\ int_flag' = int_flag /\ saved' = saved /\ cont' = cont /\ ~needs_reschedule'
          /\ ~int_flag /\ current = t /\ t \in Threads
      BY <2>2 DEF Schedule, do_schedule, At, SchedInv, ScheduleIsMasked
    <3>2. \A u \in Threads : pc'[u] = "sleep" => pc[u] = "sleep"
      BY <1>1, <2>2, Zenon DEF Schedule, do_schedule
    <3> QED BY <3>1, <3>2, Zenon
  <2>3. CASE Resume(t)
    <3>1. /\ int_flag' = (int_flag \/ saved[t]) /\ saved' = saved /\ cont' = cont
          /\ current = t /\ current' = t /\ needs_reschedule' = needs_reschedule
          /\ pc' = [pc EXCEPT ![t] = cont[t]]
      BY <2>3 DEF Resume, At, sched
    <3>2. \A u \in Threads : pc'[u] = "sleep" => pc[u] = "sleep" \/ cont[u] = "sleep"
      BY <1>1, <3>1
    <3>3. int_flag' \in BOOLEAN /\ (current' > Idle => ~int_flag' /\ ~needs_reschedule')
      BY <3>1, Zenon
    <3> QED BY <3>1, <3>2, <3>3, Zenon
  <2>4. CASE Trampoline(t) \/ SleepDone(t) \/ Halt(t)
    BY <1>1, <2>4 DEF Trampoline, SleepDone, Halt, sched
  <2>5. CASE ExitYield(t)
    BY <2>5, EnterYieldMasked DEF ExitYield, At
  <2>6. CASE MaybePreempt(t)
    <3>1. current = t /\ pc[t] \in {"run", "sleep"} /\ t > Idle
      BY <2>6 DEF MaybePreempt, At
    <3>2. UNCHANGED vars
      BY <2>6, <3>1, Zenon DEF MaybePreempt
    <3> QED BY <3>2 DEF vars, sched
  <2> QED BY <1>6, <2>1, <2>2, <2>3, <2>4, <2>5, <2>6 DEF Step
<1>7. ASSUME NEW t \in Threads, Exit(t) PROVE SpawnedIsMasked'
  BY <1>1, <1>7 DEF Exit
<1>8. ASSUME NEW t \in Threads, NEW u \in Threads, Spawn(t, u) PROVE SpawnedIsMasked'
  BY <1>1, <1>8 DEF Spawn
<1>9. ASSUME NEW t \in Threads, NEW ticks \in 0 .. MaxSleep, Sleep(t, ticks) PROVE SpawnedIsMasked'
  BY <1>1, <1>9, SchedulerAssumption, SpawnedNumbers DEF Sleep, sched
<1>10. CASE UNCHANGED vars
  BY <1>10 DEF vars, sched
<1> QED BY <1>2, <1>3, <1>4, <1>5, <1>6, <1>7, <1>8, <1>9, <1>10 DEF Next

\* A thread in the loop of timer::sleep with a tick to wait for, as every thread
\* that calls it with ms > 0 is: the system never takes a step again.  The ticks
\* it waits for are interrupts, which its context runs without, and maybe_preempt
\* finds no expired quantum because the quantum is counted in ticks.
THEOREM SleepKeepsTheCpu ==
  Spec => [][~(pc[current] = "sleep" /\ left[current] > 0)]_vars
<1> DEFINE A == ~(pc[current] = "sleep" /\ left[current] > 0)
<1>1. Init => SpawnedIsMasked
  BY SchedulerAssumption, Zenon DEF Init, SpawnedIsMasked, Bootstrap, Idle
<1>2. SchedInv /\ SpawnedIsMasked /\ [Next]_vars => [A]_vars
  <2> SUFFICES ASSUME SchedInv, SpawnedIsMasked, Next, pc[current] = "sleep", left[current] > 0
               PROVE  UNCHANGED vars
    BY Zenon
  <2>1. current > Idle /\ ~int_flag /\ ~needs_reschedule
    BY DEF SpawnedIsMasked, SchedInv, Typed
  <2>2. ~(SchedulerInit \/ EnableInterrupts \/ EnterIdleLoop \/ IdleLoop \/ Tick)
    BY <2>1 DEF SchedulerInit, EnableInterrupts, EnterIdleLoop, IdleLoop, Tick, At
  <2>3. ASSUME NEW t \in Threads
        PROVE  /\ ~Exit(t) /\ \A u \in Threads : ~Spawn(t, u)
               /\ \A ticks \in 0 .. MaxSleep : ~Sleep(t, ticks)
    BY DEF Exit, Spawn, Sleep, At
  <2>4. ASSUME NEW t \in Threads, Step(t)
        PROVE  MaybePreempt(t)
    BY <2>4 DEF Step, Yield, Schedule, Resume, Trampoline, ExitYield, SleepDone, Halt, At
  <2>5. ASSUME NEW t \in Threads, MaybePreempt(t)
        PROVE  UNCHANGED vars
    BY <2>1, <2>5, Zenon DEF MaybePreempt
  <2> QED BY <2>2, <2>3, <2>4, <2>5, Zenon DEF Next
<1>3. Spec => [][A]_vars
  BY <1>1, <1>2, SchedInitHolds, SchedNext, SpawnedNext, PTL DEF Spec
<1> QED BY <1>3

-----------------------------------------------------------------------------
(* The order of dispatch, continued.                                       *)

\* With any number of threads, do_schedule dispatches the thread that has waited
\* longest, idle only when no other thread waits, keeps the order of the others
\* and puts the thread that yielded behind them.
THEOREM SchedulerInOrder == Spec => DispatchInOrder
<1> DEFINE others == Waiting \ {current'}
           yielded == IF state[current] = "Running" THEN {current} ELSE {}
           A == current' # current =>
                  /\ IF Waiting = {} THEN current' = Idle ELSE current' \in Waiting
                  /\ \A u \in others : Ahead(run_queue, current', u)
                  /\ \A t, u \in others : Ahead(run_queue, t, u) => Ahead(run_queue', t, u)
                  /\ \A t \in others, u \in yielded : Ahead(run_queue', t, u)
                  /\ Waiting' = others \cup yielded
<1>1. SchedInv /\ SchedInv' /\ [Next]_vars => [A]_vars
  <2> SUFFICES ASSUME SchedInv, SchedInv', Next, current' # current PROVE A
    BY Zenon
  <2>1. PICK t \in Threads : Schedule(t)
    BY OnlyScheduleSwitches, Zenon
  <2> DEFINE S == Ready(state)
             n == pick_next.next
             q == pick_next.queue
             requeue == state[t] = "Running"
  <2>2. current = t /\ t # Idle /\ Live(Bootstrap)
    BY <2>1, ZenonT(40) DEF Schedule, At, SchedInv, IdleNeverYields, BeforeInit
  <2>3. Idle \in S /\ S \in SUBSET Threads /\ t \notin S
    BY <2>2, ThreadIds, Zenon DEF Ready, SchedInv, IdleNeverYields, OneRunningThread
  <2>4. n \in S /\ Enumerates(q, S \ {n})
    BY <2>3, PickNext, Zenon DEF SchedInv
  <2>5. /\ IF S = {Idle} THEN n = Idle ELSE n # Idle
        /\ \A u \in S \ {n, Idle} : Ahead(run_queue, n, u)
        /\ \A v, u \in S \ {n, Idle} : Ahead(run_queue, v, u) => Ahead(q, v, u)
    BY <2>3, PickNextInOrder, Zenon DEF SchedInv
  <2>6. current' = n /\ n # t /\ run_queue' = q \o (IF requeue THEN <<t>> ELSE <<>>)
    BY <2>1, <2>2, <2>3, <2>4, Zenon DEF Schedule, do_schedule
  <2> HIDE DEF n, q, S
  <2>7. Waiting = S \ {Idle} /\ Waiting' = Ready(state)' \ {Idle}
    <3>1. Range(run_queue) = S /\ Range(run_queue') = Ready(state)'
      BY QueueRange DEF SchedInv, S
    <3> QED BY <3>1, Zenon DEF Waiting
  <2>8. Ready(state)' = (S \ {n}) \cup (IF requeue THEN {t} ELSE {})
    <3>1. state[t] \in {"Running", "Dead"}
      BY <2>2 DEF SchedInv, OneRunningThread, Typed, States
    <3>2. n \in Threads \ {t}
      BY <2>3, <2>4
    <3>3. state' = [state EXCEPT ![t] = IF requeue THEN "Ready" ELSE @, ![n] = "Running"]
      BY <2>1, <2>2, <2>6, ZenonT(40) DEF Schedule, do_schedule, n
    <3>4. /\ state'[n] = "Running" /\ state'[t] = (IF requeue THEN "Ready" ELSE state[t])
          /\ \A v \in Threads \ {t, n} : state'[v] = state[v]
      BY <3>2, <3>3, Zenon DEF SchedInv, Typed
    <3> QED BY <3>1, <3>2, <3>4, Zenon DEF Ready, S
  <2>9. q \in Seq(Threads) /\ \A v \in S \ {n} : \E i \in 1 .. Len(q) : q[i] = v
    BY <2>4 DEF Enumerates
  <2>10. \A v, u \in S \ {n, Idle} : Ahead(run_queue, v, u) => Ahead(run_queue', v, u)
    <3>1. CASE requeue
      BY <2>3, <2>5, <2>6, <2>9, <3>1, AheadMore
    <3>2. CASE ~requeue
      BY <2>5, <2>6, <2>9, <3>2, ConcatEmptySeq, Zenon
    <3> QED BY <3>1, <3>2, Zenon
  <2>11. requeue => \A v \in S \ {n} : Ahead(run_queue', v, t)
    BY <2>6, <2>9, AheadMore
  <2>12. Waiting # {} => n \in Waiting
    BY <2>3, <2>4, <2>5, <2>7
  <2>13. Waiting = {} => n = Idle
    BY <2>3, <2>5, <2>7
  <2>14. others = S \ {n, Idle} /\ yielded = (IF requeue THEN {t} ELSE {})
    BY <2>2, <2>6, <2>7
  <2>15. Waiting' = others \cup yielded
    BY <2>2, <2>7, <2>8, <2>14
  <2> HIDE DEF others, yielded
  <2> QED BY <2>2, <2>5, <2>6, <2>10, <2>11, <2>12, <2>13, <2>14, <2>15
<1>2. Spec => [][A]_vars
  BY <1>1, SchedInitHolds, SchedNext, PTL DEF Spec
<1> QED BY <1>2 DEF DispatchInOrder
=============================================================================
