-------------------------------- MODULE Ksf --------------------------------
(***************************************************************************)
(* The kernel service framework of seed/saios/src/ksf.rs, with the start   *)
(* of the shell service (shell/service.rs), which yields the CPU while the *)
(* framework's lock is held, and the framework's clients in the shell: the *)
(* service commands and sairu::recover.                                    *)
(*                                                                         *)
(* Two threads matter.  The bootstrap thread runs bootstrap(), and after   *)
(* it only yields.  The shell thread exists once the shell service has     *)
(* been started; it calls the framework, and yields when no input waits.   *)
(* No other thread runs until the one on the CPU yields, so a call of the  *)
(* framework is one step, except where it yields.                          *)
(***************************************************************************)
EXTENDS Integers, Sequences, Functions

CONSTANTS
  Order,      \* the services, in the order bootstrap() registers them
  Deps,       \* dependencies() of each service
  Shell,      \* the shell service
  Targets,    \* services the shell's commands name
  FaultSets   \* the sets of callbacks that may fail together

Services == Range(Order)

Callbacks == Services \X {"initialize", "start"}

ASSUME KsfAssumption ==
  /\ Order \in Seq(Services) /\ Shell \in Services /\ Targets \subseteq Services
  /\ \A faults \in FaultSets : faults \subseteq Callbacks

VARIABLES
  states,     \* ServiceState of each service
  started,    \* STARTED of shell/service.rs
  threads,    \* shell threads spawned
  lock,       \* the thread that holds LOCK, or "none"
  cpu,        \* the thread on the CPU
  boot,       \* where the bootstrap thread is
  idx,        \* local variables of start_all
  progressed,
  shell,      \* where the shell thread is
  request,    \* the call the shell thread makes
  faulty      \* callbacks that return Err when they are called

vars == <<states, started, threads, lock, cpu, boot, idx, progressed, shell, request, faulty>>

None == [op |-> "none"]

-----------------------------------------------------------------------------
(* ServiceManager's functions.  Each returns the new states and Ok or Err. *)

Result(st, ok) == [states |-> st, ok |-> ok]

deps_ready_to_start(st, s) ==
  \A dep \in Deps[s] : dep \in Services /\ st[dep] \in {"Running", "Ready"}

init_at(st, s) ==
  IF st[s] \in {"Registered", "Stopped"}
  THEN IF <<s, "initialize">> \in faulty THEN Result([st EXCEPT ![s] = "Failed"], FALSE)
       ELSE Result([st EXCEPT ![s] = "Ready"], TRUE)
  ELSE Result(st, st[s] \in {"Ready", "Running"})

start_at(st, s) ==
  IF ~deps_ready_to_start(st, s) THEN Result(st, FALSE)
  ELSE IF st[s] = "Running" THEN Result(st, TRUE)
  ELSE LET init == init_at(st, s)
       IN  IF ~init.ok THEN init
           ELSE IF <<s, "start">> \in faulty THEN Result([st EXCEPT ![s] = "Failed"], FALSE)
           ELSE Result([st EXCEPT ![s] = "Running"], TRUE)

\* The service's stop callback is empty.
stop_by_name(st, s) == Result([st EXCEPT ![s] = "Stopped"], TRUE)

restart_by_name(st, s) == start_at(stop_by_name(st, s).states, s)

\* start of shell/service.rs spawns a thread the first time it is called.
Spawns_again == TRUE

Spawns == ~started

\* The call of start_at(s) reaches the start callback of the shell service and
\* spawns the shell thread.
SpawnsShell(st, s) ==
  s = Shell /\ Spawns /\ st[s] # "Running" /\ start_at(st, s).ok

-----------------------------------------------------------------------------
(* The bootstrap thread.                                                   *)

Init ==
  /\ states = [s \in Services |-> "Registered"]
  /\ started = FALSE
  /\ threads = 0
  /\ lock = "none"
  /\ cpu = "boot"
  /\ boot = "start"
  /\ idx = 1
  /\ progressed = TRUE
  /\ shell = "none"
  /\ request = None
  /\ faulty \in FaultSets

\* bootstrap takes the lock, registers the services and enters start_all.
Bootstrap ==
  /\ cpu = "boot" /\ boot = "start" /\ lock = "none"
  /\ lock' = "boot"
  /\ boot' = "scan"
  /\ progressed' = FALSE
  /\ UNCHANGED <<states, started, threads, cpu, idx, shell, request, faulty>>

\* One iteration of the for loop of start_all.
ScanService_any_progress ==
  /\ cpu = "boot" /\ boot = "scan" /\ idx <= Len(Order)
  /\ ~SpawnsShell(states, Order[idx])
  /\ \E result \in {start_at(states, Order[idx])} :
       /\ states' = result.states
       /\ progressed' = (progressed \/ states[Order[idx]] # "Running")
  /\ idx' = idx + 1
  /\ UNCHANGED <<started, threads, lock, cpu, boot, shell, request, faulty>>

ScanService ==
  /\ cpu = "boot" /\ boot = "scan" /\ idx <= Len(Order)
  /\ ~SpawnsShell(states, Order[idx])
  /\ \E result \in {start_at(states, Order[idx])} :
       /\ states' = result.states
       /\ progressed' = (progressed \/ (states[Order[idx]] # "Running" /\ result.ok))
  /\ idx' = idx + 1
  /\ UNCHANGED <<started, threads, lock, cpu, boot, shell, request, faulty>>

\* The iteration that starts the shell, up to yield_now: the shell thread runs,
\* and the lock stays with the bootstrap thread.
ScanShell_unlocked ==
  /\ cpu = "boot" /\ boot = "scan" /\ idx <= Len(Order)
  /\ SpawnsShell(states, Order[idx])
  /\ states' = [states EXCEPT ![Shell] = "Ready"]
  /\ started' = TRUE
  /\ threads' = threads + 1
  /\ boot' = "yielded"
  /\ cpu' = "shell"
  /\ shell' = "idle"
  /\ lock' = "none"
  /\ UNCHANGED <<idx, progressed, request, faulty>>

ScanShell ==
  /\ cpu = "boot" /\ boot = "scan" /\ idx <= Len(Order)
  /\ SpawnsShell(states, Order[idx])
  /\ states' = [states EXCEPT ![Shell] = "Ready"]
  /\ started' = TRUE
  /\ threads' = threads + 1
  /\ boot' = "yielded"
  /\ cpu' = "shell"
  /\ shell' = "idle"
  /\ UNCHANGED <<lock, idx, progressed, request, faulty>>

\* yield_now returns in the bootstrap thread, and so does the start callback.
ShellStarted ==
  /\ cpu = "boot" /\ boot = "yielded"
  /\ states' = [states EXCEPT ![Shell] = "Running"]
  /\ progressed' = TRUE
  /\ idx' = idx + 1
  /\ boot' = "scan"
  /\ UNCHANGED <<started, threads, lock, cpu, shell, request, faulty>>

AllSettled == \A s \in Services : states[s] \in {"Running", "Failed"}

\* The end of a pass: another one, or start_all returns; main panics on Err.
EndPass_one_pass ==
  /\ cpu = "boot" /\ boot = "scan" /\ idx > Len(Order)
  /\ boot' = IF \A s \in Services : states[s] = "Running" THEN "idle" ELSE "panic"
  /\ lock' = "none"
  /\ UNCHANGED <<states, started, threads, cpu, idx, progressed, shell, request, faulty>>

EndPass ==
  /\ cpu = "boot" /\ boot = "scan" /\ idx > Len(Order)
  /\ IF progressed /\ ~AllSettled
     THEN /\ idx' = 1 /\ progressed' = FALSE
          /\ UNCHANGED <<boot, lock>>
     ELSE /\ boot' = IF \A s \in Services : states[s] = "Running" THEN "idle" ELSE "panic"
          /\ lock' = "none"
          /\ UNCHANGED <<idx, progressed>>
  /\ UNCHANGED <<states, started, threads, cpu, shell, request, faulty>>

\* The bootstrap thread's idle loop.
BootYield ==
  /\ cpu = "boot" /\ boot = "idle" /\ shell # "none"
  /\ cpu' = "shell"
  /\ UNCHANGED <<states, started, threads, lock, boot, idx, progressed, shell, request, faulty>>

-----------------------------------------------------------------------------
(* The shell thread.                                                       *)

\* A line of input names a service command, or recover.
Command(op, s) ==
  /\ cpu = "shell" /\ shell = "idle"
  /\ shell' = "call"
  /\ request' = [op |-> op, service |-> s]
  /\ UNCHANGED <<states, started, threads, lock, cpu, boot, idx, progressed, faulty>>

\* The call takes the lock, spinning while it is held, works and releases it.
WithManager ==
  LET s == request.service
  IN  /\ cpu = "shell" /\ shell = "call" /\ lock = "none"
      /\ request.op # "recover"
      /\ states' = CASE request.op = "list"    -> states
                     [] request.op = "start"   -> start_at(states, s).states
                     [] request.op = "stop"    -> stop_by_name(states, s).states
                     [] request.op = "restart" -> restart_by_name(states, s).states
      /\ threads' = IF \/ request.op = "start" /\ SpawnsShell(states, s)
                       \/ request.op = "restart"
                            /\ SpawnsShell(stop_by_name(states, s).states, s)
                    THEN threads + 1 ELSE threads
      /\ shell' = "idle"
      /\ request' = None
      /\ UNCHANGED <<started, lock, cpu, boot, idx, progressed, faulty>>

\* recover takes a snapshot and then restarts the services that were Failed in
\* it, in registration order.
RecoverList ==
  /\ cpu = "shell" /\ shell = "call" /\ lock = "none"
  /\ request.op = "recover"
  /\ shell' = "recover"
  /\ request' = [op   |-> "recover",
                 left |-> {i \in DOMAIN Order : states[Order[i]] = "Failed"}]
  /\ UNCHANGED <<states, started, threads, lock, cpu, boot, idx, progressed, faulty>>

RecoverNext ==
  /\ cpu = "shell" /\ shell = "recover" /\ lock = "none"
  /\ \E i \in request.left :
       /\ \A j \in request.left : i <= j
       /\ states' = restart_by_name(states, Order[i]).states
       /\ request' = [request EXCEPT !.left = @ \ {i}]
  /\ UNCHANGED <<started, threads, lock, cpu, boot, idx, progressed, shell, faulty>>

RecoverEnd ==
  /\ cpu = "shell" /\ shell = "recover"
  /\ request.left = {}
  /\ shell' = "idle" /\ request' = None
  /\ UNCHANGED <<states, started, threads, lock, cpu, boot, idx, progressed, faulty>>

\* engine.run yields when no input waits.
ShellYield ==
  /\ cpu = "shell" /\ shell = "idle"
  /\ cpu' = "boot"
  /\ UNCHANGED <<states, started, threads, lock, boot, idx, progressed, shell, request, faulty>>

\* What the callbacks depend on changes between calls.
Environment ==
  /\ lock = "none" /\ boot = "idle" /\ shell = "idle"
  /\ faulty' \in FaultSets \ {faulty}
  /\ UNCHANGED <<states, started, threads, lock, cpu, boot, idx, progressed, shell, request>>

Panicked == boot = "panic" /\ UNCHANGED vars

BootStep ==
  Bootstrap \/ ScanService \/ ScanShell \/ ShellStarted \/ EndPass \/ BootYield

ShellStep == WithManager \/ RecoverList \/ RecoverNext \/ RecoverEnd

Next ==
  \/ BootStep
  \/ \E op \in {"start", "stop", "restart"}, s \in Targets : Command(op, s)
  \/ \E op \in {"list", "recover"} : Command(op, Shell)
  \/ ShellStep
  \/ ShellYield
  \/ Environment
  \/ Panicked

Spec == Init /\ [][Next]_vars

\* The thread on the CPU goes on; the shell finds no input waiting again and
\* again, since input comes from a keyboard or a serial line.
FairSpec == Spec /\ WF_vars(BootStep) /\ WF_vars(ShellStep) /\ SF_vars(ShellYield)

-----------------------------------------------------------------------------
(* Properties.                                                             *)

\* Between calls no service is left Initializing or Stopping.
TypeOK ==
  /\ states \in [Services -> {"Registered", "Ready", "Running", "Stopped", "Failed"}]
  /\ started \in BOOLEAN /\ progressed \in BOOLEAN
  /\ threads \in Nat
  /\ lock \in {"none", "boot"}
  /\ cpu \in {"boot", "shell"}
  /\ boot \in {"start", "scan", "yielded", "idle", "panic"}
  /\ idx \in 1 .. Len(Order) + 1
  /\ shell \in {"none", "idle", "call", "recover"}
  /\ faulty \in FaultSets

\* The trait's dependencies(): "the list of services that must be running before
\* this one".  A service becomes Running only while all of its dependencies are
\* Running, also when the shell thread ran in the middle of the start.
StartsAfterDependencies ==
  [][\A s \in Services :
       states'[s] = "Running" /\ states[s] # "Running"
         => \A dep \in Deps[s] : states[dep] = "Running"]_vars

\* start_all does all it can: when it returns, a service that does not run has
\* failed itself or waits for a dependency that does not run.
StartAllIsMaximal ==
  [][boot = "scan" /\ boot' \in {"idle", "panic"}
       => \A s \in Services :
            \/ states[s] \in {"Running", "Failed"}
            \/ \E dep \in Deps[s] : dep \notin Services \/ states[dep] # "Running"]_vars

\* There is never a second interactive shell, however often the shell service is
\* stopped, started and restarted, and a shell that runs was started.
OneShellThread == threads = (IF shell = "none" THEN 0 ELSE 1)

\* The loop of start_all ends, whatever fails and however the services depend on
\* each other, unless the shell thread waits for the lock.
StartAllEnds == boot = "scan" ~> (boot \in {"idle", "panic"} \/ shell = "call")
=============================================================================
