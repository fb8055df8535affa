----------------------------- MODULE KsfProofs -----------------------------
(***************************************************************************)
(* The service framework starts services in dependency order, starts all   *)
(* it can and starts one shell, for every set of services, every graph of  *)
(* dependencies, every order of registration and every set of failing      *)
(* callbacks.                                                              *)
(***************************************************************************)
EXTENDS Ksf, TLAPS

\* More time than the default for each leaf.
USE SMTT(20), ZenonT(20)

ServiceStates == {"Registered", "Ready", "Running", "Stopped", "Failed"}

\* States of the services between two calls: no service is left Ready.
Quiet == [Services -> ServiceStates \ {"Ready"}]

\* A service that start_all need not try again.
Settled(st, s) ==
  \/ st[s] \in {"Running", "Failed"}
  \/ \E dep \in Deps[s] : dep \notin Services \/ st[dep] # "Running"

-----------------------------------------------------------------------------
(* What start_at does.                                                     *)

LEMMA InitAtOutcome ==
  ASSUME NEW st \in Quiet, NEW s \in Services, st[s] # "Running"
  PROVE  \/ init_at(st, s) = Result([st EXCEPT ![s] = "Failed"], FALSE)
         \/ init_at(st, s) = Result([st EXCEPT ![s] = "Ready"], TRUE)
         \/ init_at(st, s) = Result(st, FALSE) /\ st[s] = "Failed"
<1>1. CASE st[s] \in {"Registered", "Stopped"}
  BY <1>1, Zenon DEF init_at
<1>2. CASE st[s] = "Failed"
  <2>1. (st[s] \in {"Ready", "Running"}) = FALSE
    BY <1>2
  <2>2. st[s] \notin {"Registered", "Stopped"}
    BY <1>2
  <2> QED BY <1>2, <2>1, <2>2, Zenon DEF init_at
<1> QED BY <1>1, <1>2, Zenon DEF Quiet, ServiceStates

\* start_at refuses, finds the service running, fails it, or runs it.
LEMMA StartAtOutcome ==
  ASSUME NEW st \in Quiet, NEW s \in Services
  PROVE  \/ ~deps_ready_to_start(st, s) /\ start_at(st, s) = Result(st, FALSE)
         \/ st[s] = "Running" /\ start_at(st, s) = Result(st, TRUE)
         \/ start_at(st, s) = Result([st EXCEPT ![s] = "Failed"], FALSE)
         \/ /\ deps_ready_to_start(st, s) /\ st[s] # "Running"
            /\ start_at(st, s) = Result([st EXCEPT ![s] = "Running"], TRUE)
<1>1. CASE ~deps_ready_to_start(st, s)
  BY <1>1, Zenon DEF start_at
<1>2. CASE deps_ready_to_start(st, s) /\ st[s] = "Running"
  BY <1>2 DEF start_at
<1>3. CASE deps_ready_to_start(st, s) /\ st[s] # "Running"
  <2>1. CASE init_at(st, s) = Result([st EXCEPT ![s] = "Failed"], FALSE)
    BY <1>3, <2>1 DEF start_at, Result
  <2>2. CASE init_at(st, s) = Result([st EXCEPT ![s] = "Ready"], TRUE)
    BY <1>3, <2>2 DEF start_at, Result
  <2>3. CASE init_at(st, s) = Result(st, FALSE) /\ st[s] = "Failed"
    <3>1. st = [st EXCEPT ![s] = "Failed"]
      BY <2>3 DEF Quiet
    <3> QED BY <1>3, <2>3, <3>1, Zenon DEF start_at, Result
  <2> QED BY <1>3, <2>1, <2>2, <2>3, InitAtOutcome, Zenon
<1> QED BY <1>1, <1>2, <1>3, Zenon

LEMMA StartAtQuiet ==
  ASSUME NEW st \in Quiet, NEW s \in Services
  PROVE  /\ start_at(st, s).states \in Quiet
         /\ \A u \in Services \ {s} : start_at(st, s).states[u] = st[u]
         /\ start_at(st, s).states[s] = "Running" /\ st[s] # "Running"
              => /\ start_at(st, s).ok
                 /\ \A dep \in Deps[s] : dep \in Services /\ st[dep] = "Running"
<1>1. deps_ready_to_start(st, s) =>
        \A dep \in Deps[s] : dep \in Services /\ st[dep] = "Running"
  BY DEF deps_ready_to_start, Quiet, ServiceStates
<1> QED BY <1>1, StartAtOutcome DEF Result, Quiet, ServiceStates

\* A service that start_at did not newly run is settled.
LEMMA StartAtSettles ==
  ASSUME NEW st \in Quiet, NEW s \in Services,
         st[s] = "Running" \/ ~start_at(st, s).ok
  PROVE  Settled(start_at(st, s).states, s)
<1>1. ~deps_ready_to_start(st, s) =>
        \E dep \in Deps[s] : dep \notin Services \/ st[dep] # "Running"
  BY DEF deps_ready_to_start
<1> QED BY <1>1, StartAtOutcome DEF Result, Settled, Quiet

\* Such a call leaves settled what was settled.
LEMMA StaysSettled ==
  ASSUME NEW st \in Quiet, NEW s \in Services,
         st[s] = "Running" \/ ~start_at(st, s).ok,
         NEW u \in Services, Settled(st, u)
  PROVE  Settled(start_at(st, s).states, u)
<1>1. CASE u = s
  BY <1>1, StartAtSettles
<1>2. CASE u # s
  <2>1. \A v \in Services :
          start_at(st, s).states[v] = "Running" => st[v] = "Running"
    BY StartAtQuiet
  <2> QED BY <1>2, <2>1, StartAtQuiet DEF Settled
<1> QED BY <1>1, <1>2

LEMMA StopQuiet ==
  ASSUME NEW st \in Quiet, NEW s \in Services
  PROVE  /\ stop_by_name(st, s).states = [st EXCEPT ![s] = "Stopped"]
         /\ stop_by_name(st, s).states \in Quiet
BY DEF stop_by_name, Result, Quiet, ServiceStates

\* What a call of the framework may do to the states of the services.
Called(st, new) ==
  /\ new \in Quiet
  /\ \A u \in Services :
       new[u] = "Running" /\ st[u] # "Running"
         => \A dep \in Deps[u] : st[dep] = "Running"

LEMMA StartCalled ==
  ASSUME NEW st \in Quiet, NEW s \in Services
  PROVE  Called(st, start_at(st, s).states)
BY StartAtQuiet DEF Called

LEMMA StopCalled ==
  ASSUME NEW st \in Quiet, NEW s \in Services
  PROVE  Called(st, stop_by_name(st, s).states)
<1> DEFINE new == stop_by_name(st, s).states
<1>1. new = [st EXCEPT ![s] = "Stopped"] /\ new \in Quiet
  BY StopQuiet
<1> HIDE DEF new
<1>2. \A u \in Services : new[u] = "Running" => st[u] = "Running"
  BY <1>1 DEF Quiet
<1> QED BY <1>1, <1>2 DEF Called, new

LEMMA RestartCalled ==
  ASSUME NEW st \in Quiet, NEW s \in Services
  PROVE  Called(st, restart_by_name(st, s).states)
<1> DEFINE mid == stop_by_name(st, s).states
           new == start_at(mid, s).states
<1>1. mid = [st EXCEPT ![s] = "Stopped"] /\ mid \in Quiet
  BY StopQuiet
<1>2. restart_by_name(st, s).states = new
  BY DEF restart_by_name
<1> HIDE DEF mid
<1>3. /\ new \in Quiet
      /\ \A u \in Services \ {s} : new[u] = mid[u]
      /\ new[s] = "Running" /\ mid[s] # "Running"
           => \A dep \in Deps[s] : dep \in Services /\ mid[dep] = "Running"
  BY <1>1, StartAtQuiet, Zenon
<1> HIDE DEF new
<1>4. mid[s] = "Stopped" /\ \A u \in Services \ {s} : mid[u] = st[u]
  BY <1>1 DEF Quiet
<1>5. \A dep \in Services : mid[dep] = "Running" => st[dep] = "Running"
  BY <1>4
<1>6. ASSUME NEW u \in Services, new[u] = "Running", st[u] # "Running"
      PROVE  \A dep \in Deps[u] : st[dep] = "Running"
  BY <1>3, <1>4, <1>5, <1>6
<1> QED BY <1>2, <1>3, <1>6 DEF Called

-----------------------------------------------------------------------------
(* The inductive invariant.                                                *)

\* Requests name registered services.
RequestOK ==
  /\ shell = "call" =>
       /\ request.op \in {"start", "stop", "restart", "list", "recover"}
       /\ request.service \in Services
  /\ shell = "recover" => request \in [op : {"recover"}, left : SUBSET DOMAIN Order]

\* The bootstrap thread holds the lock exactly inside start_all, and yields in
\* the middle of an iteration.
LockInv ==
  /\ lock = "boot" <=> boot \in {"scan", "yielded"}
  /\ boot = "start" => idx = 1
  /\ boot = "yielded" => idx <= Len(Order)

ThreadInv ==
  /\ started <=> shell # "none"
  /\ OneShellThread

\* A service is Ready only in the middle of the start of the shell, whose
\* dependencies run.
ReadyInv ==
  IF boot = "yielded"
  THEN /\ states[Shell] = "Ready"
       /\ [states EXCEPT ![Shell] = "Running"] \in Quiet
       /\ \A dep \in Deps[Shell] : states[dep] = "Running"
  ELSE states \in Quiet

\* In a pass that has started nothing yet, the services scanned are settled.
ScanInv ==
  boot = "scan" /\ ~progressed =>
    \A i \in 1 .. idx - 1 : Settled(states, Order[i])

IInv ==
  TypeOK /\ RequestOK /\ LockInv /\ ThreadInv /\ ReadyInv /\ ScanInv

LEMMA QuietType == Quiet \subseteq [Services -> ServiceStates]
BY DEF Quiet

\* Outside start_all the framework's lock is free, and the states are quiet.
LEMMA UnlockedQuiet ==
  ASSUME IInv, lock = "none"
  PROVE  states \in Quiet /\ boot \notin {"scan", "yielded"}
BY DEF IInv, LockInv, ReadyInv

LEMMA OrderService ==
  ASSUME NEW i \in DOMAIN Order
  PROVE  Order[i] \in Services
BY DEF Services, Range

LEMMA OrderDomain == DOMAIN Order = 1 .. Len(Order) /\ Len(Order) \in Nat
BY KsfAssumption

LEMMA InitIInv == Init => IInv
<1> SUFFICES ASSUME Init PROVE IInv
  OBVIOUS
<1>1. states \in Quiet
  BY DEF Init, Quiet, ServiceStates
<1>2. TypeOK
  <2>1. states \in [Services -> ServiceStates]
    BY <1>1, QuietType
  <2>2. idx \in 1 .. Len(Order) + 1
    BY OrderDomain DEF Init
  <2>3. started \in BOOLEAN /\ progressed \in BOOLEAN
    BY Zenon DEF Init
  <2> QED BY <2>1, <2>2, <2>3 DEF Init, TypeOK, ServiceStates
<1>3. RequestOK /\ LockInv /\ ThreadInv /\ ScanInv
  BY DEF Init, RequestOK, LockInv, ThreadInv, OneShellThread, ScanInv
<1>4. ReadyInv
  BY <1>1 DEF Init, ReadyInv
<1> QED BY <1>2, <1>3, <1>4 DEF IInv

LEMMA BootstrapIInv == IInv /\ Bootstrap => IInv'
<1> SUFFICES ASSUME IInv, Bootstrap PROVE IInv'
  OBVIOUS
<1> USE DEF Bootstrap
<1>1. TypeOK'
  BY Zenon DEF IInv, TypeOK
<1>2. RequestOK' /\ LockInv' /\ ThreadInv'
  BY DEF IInv, RequestOK, LockInv, ThreadInv, OneShellThread
<1>3. ReadyInv'
  BY DEF IInv, ReadyInv
<1>4. ScanInv'
  BY DEF IInv, ScanInv, LockInv
<1> QED BY <1>1, <1>2, <1>3, <1>4 DEF IInv

LEMMA ScanServiceIInv == IInv /\ ScanService => IInv'
<1> SUFFICES ASSUME IInv, ScanService PROVE IInv'
  OBVIOUS
<1> DEFINE s == Order[idx]
           result == start_at(states, s)
<1>1. /\ boot = "scan" /\ idx \in 1 .. Len(Order)
      /\ states' = result.states /\ idx' = idx + 1
      /\ progressed' = (progressed \/ (states[s] # "Running" /\ result.ok))
      /\ UNCHANGED <<started, threads, lock, cpu, boot, shell, request, faulty>>
  BY OrderDomain DEF ScanService, IInv, TypeOK
<1>2. states \in Quiet
  BY <1>1 DEF IInv, ReadyInv
<1>3. s \in Services
  BY <1>1, OrderService, OrderDomain
<1> HIDE DEF s
<1>4. states' \in Quiet
  BY <1>1, <1>2, <1>3, StartAtQuiet
<1>5. TypeOK'
  <2>1. progressed' \in BOOLEAN
    BY <1>1, Zenon
  <2>2. idx' \in 1 .. Len(Order) + 1
    BY <1>1, OrderDomain
  <2> QED BY <1>1, <1>4, <2>1, <2>2, QuietType DEF IInv, TypeOK, ServiceStates
<1>6. RequestOK' /\ LockInv' /\ ThreadInv'
  BY <1>1 DEF IInv, RequestOK, LockInv, ThreadInv, OneShellThread
<1>7. ReadyInv'
  BY <1>1, <1>4 DEF ReadyInv
<1>8. ScanInv'
  <2> SUFFICES ASSUME ~progressed', NEW i \in 1 .. idx' - 1
               PROVE  Settled(states', Order[i])
    BY DEF ScanInv
  <2>1. ~progressed /\ (states[s] = "Running" \/ ~result.ok)
    BY <1>1, Zenon
  <2>2. CASE i = idx
    BY <1>1, <1>2, <1>3, <2>1, <2>2, StartAtSettles DEF s
  <2>3. CASE i # idx
    <3>1. i \in 1 .. idx - 1 /\ i \in DOMAIN Order
      BY <1>1, <2>3, OrderDomain
    <3>2. Settled(states, Order[i])
      BY <1>1, <2>1, <3>1 DEF IInv, ScanInv
    <3>3. Order[i] \in Services
      BY <3>1, OrderService
    <3> QED BY <1>1, <1>2, <1>3, <2>1, <3>2, <3>3, StaysSettled
  <2> QED BY <2>2, <2>3
<1> QED BY <1>5, <1>6, <1>7, <1>8 DEF IInv

LEMMA ScanShellIInv == IInv /\ ScanShell => IInv'
<1> SUFFICES ASSUME IInv, ScanShell PROVE IInv'
  OBVIOUS
<1>1. /\ boot = "scan" /\ SpawnsShell(states, Order[idx]) /\ idx <= Len(Order)
      /\ states' = [states EXCEPT ![Shell] = "Ready"]
      /\ started' = TRUE /\ threads' = threads + 1 /\ boot' = "yielded"
      /\ cpu' = "shell" /\ shell' = "idle"
      /\ UNCHANGED <<lock, idx, progressed, request, faulty>>
  BY DEF ScanShell
<1>2. /\ ~started /\ states[Shell] # "Running" /\ start_at(states, Shell).ok
  BY <1>1 DEF SpawnsShell, Spawns
<1>3. states \in Quiet /\ Shell \in Services
  BY <1>1, KsfAssumption DEF IInv, ReadyInv
<1>4. \A dep \in Deps[Shell] : dep \in Services /\ states[dep] = "Running"
  <2>1. start_at(states, Shell) = Result([states EXCEPT ![Shell] = "Running"], TRUE)
    BY <1>2, <1>3, StartAtOutcome DEF Result
  <2>2. start_at(states, Shell).states[Shell] = "Running"
    BY <1>3, <2>1 DEF Result, Quiet
  <2> QED BY <1>2, <1>3, <2>2, StartAtQuiet
<1>5. TypeOK'
  BY <1>1, <1>3, QuietType DEF IInv, TypeOK, ServiceStates
<1>6. RequestOK' /\ LockInv'
  BY <1>1 DEF IInv, RequestOK, LockInv
<1>7. ThreadInv'
  <2>1. threads = 0
    BY <1>2 DEF IInv, ThreadInv, OneShellThread
  <2> QED BY <1>1, <2>1 DEF ThreadInv, OneShellThread
<1>8. ReadyInv'
  <2>1. states'[Shell] = "Ready"
    BY <1>1, <1>3 DEF Quiet
  <2>2. [states' EXCEPT ![Shell] = "Running"] \in Quiet
    BY <1>1, <1>3 DEF Quiet, ServiceStates
  <2>3. ASSUME NEW dep \in Deps[Shell] PROVE states'[dep] = "Running"
    BY <1>1, <1>2, <1>3, <1>4 DEF Quiet
  <2> QED BY <1>1, <2>1, <2>2, <2>3 DEF ReadyInv
<1>9. ScanInv'
  BY <1>1 DEF ScanInv
<1> QED BY <1>5, <1>6, <1>7, <1>8, <1>9 DEF IInv

LEMMA ShellStartedIInv == IInv /\ ShellStarted => IInv'
<1> SUFFICES ASSUME IInv, ShellStarted PROVE IInv'
  OBVIOUS
<1>1. /\ boot = "yielded" /\ states' = [states EXCEPT ![Shell] = "Running"]
      /\ progressed' = TRUE /\ idx' = idx + 1 /\ boot' = "scan"
      /\ UNCHANGED <<started, threads, lock, cpu, shell, request, faulty>>
  BY DEF ShellStarted
<1>2. states' \in Quiet
  BY <1>1 DEF IInv, ReadyInv
<1>3. TypeOK'
  <2>1. idx' \in 1 .. Len(Order) + 1
    BY <1>1, OrderDomain DEF IInv, LockInv, TypeOK
  <2>2. states' \in [Services -> ServiceStates]
    BY <1>2, QuietType
  <2>3. progressed' \in BOOLEAN
    BY <1>1, Zenon
  <2> QED BY <1>1, <2>1, <2>2, <2>3 DEF IInv, TypeOK, ServiceStates
<1>4. RequestOK' /\ LockInv' /\ ThreadInv'
  BY <1>1 DEF IInv, RequestOK, LockInv, ThreadInv, OneShellThread
<1>5. ReadyInv' /\ ScanInv'
  BY <1>1, <1>2 DEF ReadyInv, ScanInv
<1> QED BY <1>3, <1>4, <1>5 DEF IInv

LEMMA EndPassIInv == IInv /\ EndPass => IInv'
<1> SUFFICES ASSUME IInv, EndPass PROVE IInv'
  OBVIOUS
<1>1. /\ boot = "scan"
      /\ UNCHANGED <<states, started, threads, cpu, shell, request, faulty>>
  BY DEF EndPass
<1>2. states' \in Quiet
  BY <1>1 DEF IInv, ReadyInv
<1>3. CASE idx' = 1 /\ progressed' = FALSE /\ UNCHANGED <<boot, lock>>
  <2>1. TypeOK'
    <3>1. idx' \in 1 .. Len(Order) + 1
      BY <1>3, OrderDomain
    <3>2. progressed' \in BOOLEAN
      BY <1>3, Zenon
    <3> QED BY <1>1, <1>3, <3>1, <3>2 DEF IInv, TypeOK
  <2>2. RequestOK' /\ LockInv' /\ ThreadInv'
    BY <1>1, <1>3 DEF IInv, RequestOK, LockInv, ThreadInv, OneShellThread
  <2>3. ReadyInv' /\ ScanInv'
    BY <1>1, <1>2, <1>3 DEF ReadyInv, ScanInv
  <2> QED BY <2>1, <2>2, <2>3 DEF IInv
<1>4. CASE /\ boot' \in {"idle", "panic"} /\ lock' = "none"
           /\ UNCHANGED <<idx, progressed>>
  <2>1. TypeOK'
    BY <1>1, <1>4 DEF IInv, TypeOK
  <2>2. RequestOK' /\ LockInv' /\ ThreadInv'
    BY <1>1, <1>4 DEF IInv, RequestOK, LockInv, ThreadInv, OneShellThread
  <2>3. ReadyInv' /\ ScanInv'
    BY <1>1, <1>2, <1>4 DEF ReadyInv, ScanInv
  <2> QED BY <2>1, <2>2, <2>3 DEF IInv
<1> QED BY <1>3, <1>4, Zenon DEF EndPass

\* Steps that leave the framework alone.
LEMMA YieldIInv == IInv /\ (BootYield \/ ShellYield) => IInv'
BY Zenon DEF IInv, BootYield, ShellYield, TypeOK, RequestOK, LockInv, ThreadInv,
       OneShellThread, ReadyInv, ScanInv

LEMMA EnvironmentIInv == IInv /\ Environment => IInv'
BY DEF IInv, Environment, TypeOK, RequestOK, LockInv, ThreadInv,
       OneShellThread, ReadyInv, ScanInv

LEMMA CommandIInv ==
  ASSUME IInv, NEW op \in {"start", "stop", "restart", "list", "recover"},
         NEW s \in Services, Command(op, s)
  PROVE  IInv'
<1> USE DEF Command
<1>1. TypeOK'
  BY DEF IInv, TypeOK
<1>2. RequestOK'
  BY DEF RequestOK
<1>3. LockInv' /\ ThreadInv'
  BY DEF IInv, LockInv, ThreadInv, OneShellThread
<1>4. ReadyInv' /\ ScanInv'
  BY DEF IInv, ReadyInv, ScanInv
<1> QED BY <1>1, <1>2, <1>3, <1>4 DEF IInv

-----------------------------------------------------------------------------
(* Calls of the shell thread.                                              *)

\* A call that the shell thread makes changes the states as Called allows, and
\* spawns no second shell.
LEMMA WithManagerCalled ==
  ASSUME IInv, WithManager
  PROVE  Called(states, states') /\ threads' = threads
<1> DEFINE s == request.service
<1>1. lock = "none" /\ shell = "call"
  BY DEF WithManager
<1>2. states \in Quiet
  BY <1>1, UnlockedQuiet
<1>3. /\ s \in Services
      /\ request.op \in {"start", "stop", "restart", "list", "recover"}
  BY <1>1 DEF IInv, RequestOK
<1>4. started
  BY <1>1 DEF IInv, ThreadInv
<1>5. threads' = threads
  BY <1>4, Zenon DEF WithManager, SpawnsShell, Spawns
<1>6. request.op # "recover"
  BY DEF WithManager
<1>7. CASE request.op = "list"
  BY <1>2, <1>5, <1>7 DEF WithManager, Called
<1>8. CASE request.op = "start"
  <2>1. states' = start_at(states, s).states
    BY <1>8 DEF WithManager
  <2> QED BY <1>2, <1>3, <1>5, <2>1, StartCalled
<1>9. CASE request.op = "stop"
  <2>1. states' = stop_by_name(states, s).states
    BY <1>9 DEF WithManager
  <2> QED BY <1>2, <1>3, <1>5, <2>1, StopCalled
<1>10. CASE request.op = "restart"
  <2>1. states' = restart_by_name(states, s).states
    BY <1>10 DEF WithManager
  <2> QED BY <1>2, <1>3, <1>5, <2>1, RestartCalled
<1> QED BY <1>3, <1>6, <1>7, <1>8, <1>9, <1>10

LEMMA RecoverNextCalled ==
  ASSUME IInv, RecoverNext
  PROVE  Called(states, states')
<1>1. states \in Quiet
  BY UnlockedQuiet DEF RecoverNext
<1>2. PICK i \in request.left : states' = restart_by_name(states, Order[i]).states
  BY DEF RecoverNext
<1>3. Order[i] \in Services
  BY <1>2, OrderService DEF RecoverNext, IInv, RequestOK
<1> QED BY <1>1, <1>2, <1>3, RestartCalled

\* What such a call leaves alone.
LEMMA ShellCallIInv ==
  ASSUME IInv, lock = "none", states' \in Quiet, RequestOK',
         shell # "none", shell' \in {"idle", "call", "recover"}, threads' = threads,
         UNCHANGED <<started, lock, cpu, boot, idx, progressed, faulty>>
  PROVE  IInv'
<1>1. boot \notin {"scan", "yielded"}
  BY UnlockedQuiet
<1>2. TypeOK'
  <2>1. states' \in [Services -> ServiceStates]
    BY QuietType
  <2> QED BY <2>1 DEF IInv, TypeOK, ServiceStates
<1>3. LockInv' /\ ThreadInv'
  BY DEF IInv, LockInv, ThreadInv, OneShellThread
<1>4. ReadyInv' /\ ScanInv'
  BY <1>1 DEF ReadyInv, ScanInv
<1> QED BY <1>2, <1>3, <1>4 DEF IInv

LEMMA ShellStepIInv == IInv /\ ShellStep => IInv'
<1> SUFFICES ASSUME IInv, ShellStep PROVE IInv'
  OBVIOUS
<1>1. CASE WithManager
  <2>1. states' \in Quiet /\ threads' = threads
    BY <1>1, WithManagerCalled DEF Called
  <2>2. RequestOK'
    BY <1>1 DEF WithManager, RequestOK
  <2> QED BY <1>1, <2>1, <2>2, ShellCallIInv, Zenon DEF WithManager
<1>2. CASE RecoverList
  <2>1. states' \in Quiet
    BY <1>2, UnlockedQuiet DEF RecoverList
  <2>2. RequestOK'
    BY <1>2 DEF RecoverList, RequestOK
  <2> QED BY <1>2, <2>1, <2>2, ShellCallIInv DEF RecoverList
<1>3. CASE RecoverNext
  <2>1. states' \in Quiet
    BY <1>3, RecoverNextCalled DEF Called
  <2>2. RequestOK'
    <3>1. PICK i \in request.left : request' = [request EXCEPT !.left = @ \ {i}]
      BY <1>3 DEF RecoverNext
    <3>2. shell = "recover" /\ shell' = shell
      BY <1>3 DEF RecoverNext
    <3> QED BY <3>1, <3>2 DEF IInv, RequestOK
  <2> QED BY <1>3, <2>1, <2>2, ShellCallIInv DEF RecoverNext
<1>4. CASE RecoverEnd
  <2>1. TypeOK' /\ RequestOK'
    BY <1>4 DEF RecoverEnd, IInv, TypeOK, RequestOK
  <2>2. LockInv' /\ ThreadInv'
    BY <1>4 DEF RecoverEnd, IInv, LockInv, ThreadInv, OneShellThread
  <2>3. ReadyInv' /\ ScanInv'
    BY <1>4 DEF RecoverEnd, IInv, ReadyInv, ScanInv
  <2> QED BY <2>1, <2>2, <2>3 DEF IInv
<1> QED BY <1>1, <1>2, <1>3, <1>4 DEF ShellStep

-----------------------------------------------------------------------------
(* The theorems.                                                           *)

LEMMA BootStepIInv == IInv /\ BootStep => IInv'
BY BootstrapIInv, ScanServiceIInv, ScanShellIInv, ShellStartedIInv, EndPassIInv,
   YieldIInv DEF BootStep

LEMMA NextIInv == IInv /\ [Next]_vars => IInv'
<1> SUFFICES ASSUME IInv, [Next]_vars PROVE IInv'
  OBVIOUS
<1>1. CASE BootStep
  BY <1>1, BootStepIInv
<1>2. CASE \E op \in {"start", "stop", "restart"}, s \in Targets : Command(op, s)
  BY <1>2, CommandIInv, KsfAssumption
<1>3. CASE \E op \in {"list", "recover"} : Command(op, Shell)
  BY <1>3, CommandIInv, KsfAssumption
<1>4. CASE ShellStep
  BY <1>4, ShellStepIInv
<1>5. CASE ShellYield
  BY <1>5, YieldIInv
<1>6. CASE Environment
  BY <1>6, EnvironmentIInv
<1>7. CASE UNCHANGED vars
  BY <1>7 DEF vars, IInv, TypeOK, RequestOK, LockInv, ThreadInv, OneShellThread,
              ReadyInv, ScanInv
<1> QED BY <1>1, <1>2, <1>3, <1>4, <1>5, <1>6, <1>7 DEF Next, Panicked

\* The inductive invariant holds of every reachable state.
THEOREM KsfInvariant == Spec => []IInv
BY InitIInv, NextIInv, PTL DEF Spec

\* However often the shell service is stopped, started and restarted, there is at
\* most one shell thread.
THEOREM KsfOneShell == Spec => []OneShellThread
<1>1. IInv => OneShellThread
  BY DEF IInv, ThreadInv
<1> QED BY <1>1, KsfInvariant, PTL

DependenciesRun ==
  \A s \in Services :
    states'[s] = "Running" /\ states[s] # "Running"
      => \A dep \in Deps[s] : states[dep] = "Running"

LEMMA NextDependencies == IInv /\ [Next]_vars => [DependenciesRun]_vars
<1> SUFFICES ASSUME IInv, Next PROVE DependenciesRun
  OBVIOUS
<1>1. CASE ScanService
  <2>1. /\ boot = "scan" /\ idx \in DOMAIN Order
        /\ states' = start_at(states, Order[idx]).states
    BY <1>1, OrderDomain DEF ScanService, IInv, TypeOK
  <2>2. states \in Quiet
    BY <2>1 DEF IInv, ReadyInv
  <2>3. Called(states, states')
    BY <2>1, <2>2, OrderService, StartCalled
  <2> QED BY <2>3 DEF Called, DependenciesRun
<1>2. CASE ScanShell
  <2>1. states' = [states EXCEPT ![Shell] = "Ready"] /\ states \in Quiet
    BY <1>2 DEF ScanShell, IInv, ReadyInv
  <2> QED BY <2>1 DEF DependenciesRun, Quiet
<1>3. CASE ShellStarted
  <2>1. /\ states' = [states EXCEPT ![Shell] = "Running"]
        /\ states \in [Services -> ServiceStates]
        /\ \A dep \in Deps[Shell] : states[dep] = "Running"
    BY <1>3 DEF ShellStarted, IInv, ReadyInv, TypeOK, ServiceStates
  <2> QED BY <2>1 DEF DependenciesRun
<1>4. CASE WithManager
  BY <1>4, WithManagerCalled DEF Called, DependenciesRun
<1>5. CASE RecoverNext
  BY <1>5, RecoverNextCalled DEF Called, DependenciesRun
<1>6. CASE states' = states
  BY <1>6 DEF DependenciesRun
<1> QED BY <1>1, <1>2, <1>3, <1>4, <1>5, <1>6
        DEF Next, BootStep, Bootstrap, EndPass, BootYield, Command, ShellStep,
            RecoverList, RecoverEnd, ShellYield, Environment, Panicked, vars

\* A service becomes Running only while all of its dependencies are Running, also
\* across the yield in the start of the shell.
THEOREM KsfStartsInOrder == Spec => StartsAfterDependencies
<1>1. Spec => [][DependenciesRun]_vars
  BY NextDependencies, KsfInvariant, PTL DEF Spec
<1> QED BY <1>1 DEF StartsAfterDependencies, DependenciesRun

AllTried ==
  boot = "scan" /\ boot' \in {"idle", "panic"}
    => \A s \in Services :
         \/ states[s] \in {"Running", "Failed"}
         \/ \E dep \in Deps[s] : dep \notin Services \/ states[dep] # "Running"

LEMMA NextTried == IInv /\ [Next]_vars => [AllTried]_vars
<1> SUFFICES ASSUME IInv, Next, boot = "scan", boot' \in {"idle", "panic"},
                    NEW s \in Services
             PROVE  Settled(states, s)
  BY DEF AllTried, Settled
<1>1. EndPass
  BY DEF Next, BootStep, Bootstrap, ScanService, ScanShell, ShellStarted, BootYield,
         Command, ShellStep, WithManager, RecoverList, RecoverNext, RecoverEnd,
         ShellYield, Environment, Panicked, vars
<1>2. idx > Len(Order) /\ (AllSettled \/ ~progressed)
  BY <1>1 DEF EndPass
<1>3. CASE AllSettled
  BY <1>3 DEF AllSettled, Settled
<1>4. CASE ~progressed
  <2>1. PICK i \in DOMAIN Order : s = Order[i]
    BY DEF Services, Range
  <2>2. i \in 1 .. idx - 1
    BY <1>2, OrderDomain DEF IInv, TypeOK
  <2> QED BY <1>4, <2>1, <2>2 DEF IInv, ScanInv
<1> QED BY <1>2, <1>3, <1>4

\* When start_all returns, a service that does not run has failed or waits for a
\* dependency that does not run.
THEOREM KsfStartAllMaximal == Spec => StartAllIsMaximal
<1>1. Spec => [][AllTried]_vars
  BY NextTried, KsfInvariant, PTL DEF Spec
<1> QED BY <1>1 DEF StartAllIsMaximal, AllTried
=============================================================================
