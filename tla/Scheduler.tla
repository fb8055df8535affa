----------------------------- MODULE Scheduler -----------------------------
(***************************************************************************)
(* The thread scheduler of seed/saios/src/scheduler.rs with the timer      *)
(* interrupt of timer.rs, the interrupt flag as without_interrupts of      *)
(* hal/src/arch/x86_64/interrupt.rs handles it, and the threads the kernel *)
(* runs: the bootstrap thread (main.rs, seed/mod.rs), the idle thread, and *)
(* threads made by spawn (the shell).                                      *)
(*                                                                         *)
(* There is one CPU.  It runs the current thread; a timer interrupt may    *)
(* come between any two steps of that thread while the interrupt flag is   *)
(* set.  Another thread gets the CPU only inside yield_now.  The context   *)
(* switch does not save the interrupt flag: a thread's own flag survives   *)
(* only as the local of without_interrupts, on its stack.                  *)
(***************************************************************************)
EXTENDS Integers, Sequences, FiniteSets, Functions

CONSTANTS
  MaxThreads,             \* bound on the thread table
  DEFAULT_QUANTUM_TICKS,
  MaxSleep,               \* bound on the ticks a sleep asks for
  Sleepers                \* threads whose code calls timer::sleep (the shell)

Threads == 0 .. MaxThreads - 1
Bootstrap == 0
Idle == 1

ASSUME SchedulerAssumption ==
  /\ MaxThreads \in Nat \ {0, 1}
  /\ DEFAULT_QUANTUM_TICKS \in Nat \ {0}
  /\ MaxSleep \in Nat
  /\ Sleepers \subseteq Threads \ {Bootstrap, Idle}

VARIABLES
  state,              \* ThreadState per slot of the thread table; "none": unused
  run_queue,          \* the run queue
  current,            \* the thread on the CPU
  needs_reschedule,
  ticks_since_switch, \* saturates at the quantum, beyond which it is only compared
  int_flag,           \* the CPU's interrupt flag (RFLAGS.IF)
  pc,                 \* where each thread is in its code
  cont,               \* where it goes on when yield_now returns
  saved,              \* its local "enabled" of without_interrupts
  left,               \* ticks until the target of its sleep
  phase               \* how far the bootstrap thread has come

sched == <<state, run_queue, current, needs_reschedule, ticks_since_switch>>
vars == <<sched, int_flag, pc, cont, saved, left, phase>>

\* Code positions: "run" in the thread's own code, "masked" in yield_now before
\* do_schedule, "switched" off the CPU, "resumed" back from do_schedule, "sleep" in
\* the loop of sleep, "hlt" before and "halted" in a hlt instruction, "exit" in the
\* loop at the end of thread_trampoline, "new" before thread_trampoline.
Positions ==
  {"none", "new", "run", "masked", "switched", "resumed", "sleep", "hlt", "halted",
   "exit"}

At(t, where) == current = t /\ pc[t] = where

Live(t) == state[t] # "none"

-----------------------------------------------------------------------------
(* The scheduler's functions.                                              *)

\* The positions of the run queue at which pick_next finds a thread to return.
Candidates == {i \in DOMAIN run_queue :
                 state[run_queue[i]] = "Ready" /\ run_queue[i] # Idle}

Picked(i) == \A j \in Candidates : i <= j

\* Whether pick_next passed a Ready idle thread on the way to position i.
IdlePassed_dropped(i) == FALSE

IdlePassed(i) ==
  \E j \in 1 .. i - 1 : run_queue[j] = Idle /\ state[Idle] = "Ready"

\* pick_next: the next thread and the rest of the queue.  The idle thread goes to
\* the back when another thread is found, and is the answer when none is.
pick_next ==
  IF Candidates = {} THEN [next |-> Idle, queue |-> <<>>]
  ELSE LET i == CHOOSE i \in Candidates : Picked(i)
       IN  [next  |-> run_queue[i],
            queue |-> SubSeq(run_queue, i + 1, Len(run_queue))
                        \o (IF IdlePassed(i) THEN <<Idle>> ELSE <<>>)]

do_schedule_pushes_front(t) ==
  LET choice  == pick_next
      requeue == state[t] = "Running" /\ t # Idle
  IN  /\ needs_reschedule' = FALSE
      /\ ticks_since_switch' = 0
      /\ current' = choice.next
      /\ run_queue' = (IF requeue THEN <<t>> ELSE <<>>) \o choice.queue
      /\ state' = [state EXCEPT ![t] = IF requeue THEN "Ready" ELSE @,
                                ![choice.next] = "Running"]
      /\ pc' = [pc EXCEPT ![t] = "switched",
                          ![choice.next] = IF @ = "new" THEN "new" ELSE "resumed"]

\* do_schedule, which runs with interrupts off.  The new thread goes on inside
\* its own do_schedule, or in thread_trampoline if it has never run.
do_schedule(t) ==
  \E choice \in {pick_next} :
    LET requeue == state[t] = "Running" /\ t # Idle
    IN  /\ needs_reschedule' = FALSE
        /\ ticks_since_switch' = 0
        /\ current' = choice.next
        /\ IF choice.next = t
           THEN /\ run_queue' = choice.queue
                /\ pc' = [pc EXCEPT ![t] = "resumed"]
                /\ UNCHANGED state
           ELSE /\ run_queue' = choice.queue \o (IF requeue THEN <<t>> ELSE <<>>)
                /\ state' = [state EXCEPT ![t] = IF requeue THEN "Ready" ELSE @,
                                          ![choice.next] = "Running"]
                /\ pc' = [pc EXCEPT ![t] = "switched",
                                    ![choice.next] = IF @ = "new" THEN "new"
                                                     ELSE "resumed"]

-----------------------------------------------------------------------------
(* Steps of the current thread.                                            *)

Init ==
  /\ state = [t \in Threads |-> "none"]
  /\ run_queue = <<>>
  /\ current = Bootstrap
  /\ needs_reschedule = FALSE
  /\ ticks_since_switch = 0
  /\ int_flag = FALSE
  /\ pc = [t \in Threads |-> IF t = Bootstrap THEN "run" ELSE "none"]
  /\ cont = [t \in Threads |-> "run"]
  /\ saved = [t \in Threads |-> FALSE]
  /\ left = [t \in Threads |-> 0]
  /\ phase = "boot"

\* scheduler::init: the bootstrap thread becomes thread 0, the idle thread is
\* spawned.
SchedulerInit ==
  /\ At(Bootstrap, "run")
  /\ ~Live(Bootstrap)
  /\ state' = [state EXCEPT ![Bootstrap] = "Running", ![Idle] = "Ready"]
  /\ pc' = [pc EXCEPT ![Idle] = "new"]
  /\ run_queue' = <<Idle>>
  /\ UNCHANGED <<current, needs_reschedule, ticks_since_switch, int_flag, cont, saved,
                 left, phase>>

\* scheduler::spawn, called by a thread that runs; by the bootstrap thread once,
\* when it starts the shell.
Spawn(t, u) ==
  /\ At(t, "run") /\ t # Idle
  /\ Live(t) /\ (t = Bootstrap => phase = "boot")
  /\ ~Live(u) /\ \A v \in Threads : v < u => Live(v)
  /\ state' = [state EXCEPT ![u] = "Ready"]
  /\ pc' = [pc EXCEPT ![u] = "new"]
  /\ run_queue' = Append(run_queue, u)
  /\ phase' = IF t = Bootstrap THEN "spawned" ELSE phase
  /\ UNCHANGED <<current, needs_reschedule, ticks_since_switch, int_flag, cont, saved,
                 left>>

\* yield_now up to do_schedule: interrupts off, the old flag on the stack.
EnterYield(t, goOn) ==
  /\ pc' = [pc EXCEPT ![t] = "masked"]
  /\ cont' = [cont EXCEPT ![t] = goOn]
  /\ saved' = [saved EXCEPT ![t] = int_flag]
  /\ int_flag' = FALSE
  /\ UNCHANGED <<sched, left>>

\* A thread's own call of yield_now.  The bootstrap thread makes one when it has
\* spawned the shell, and then only those of its idle loop.
Yield(t) ==
  /\ At(t, "run") /\ t # Idle
  /\ t = Bootstrap => phase = "spawned"
  /\ EnterYield(t, "run")
  /\ phase' = IF t = Bootstrap THEN "started" ELSE phase

\* idle_loop of seed/mod.rs: yield, then hlt, for ever.
IdleLoop ==
  /\ At(Bootstrap, "run")
  /\ phase = "idle_loop"
  /\ EnterYield(Bootstrap, "hlt")
  /\ UNCHANGED phase

\* do_schedule inside yield_now.
Schedule(t) ==
  /\ At(t, "masked")
  /\ do_schedule(t)
  /\ UNCHANGED <<int_flag, cont, saved, left, phase>>

\* yield_now returns in t: without_interrupts restores t's flag.
Resume(t) ==
  /\ At(t, "resumed")
  /\ int_flag' = (int_flag \/ saved[t])
  /\ pc' = [pc EXCEPT ![t] = cont[t]]
  /\ UNCHANGED <<sched, cont, saved, left, phase>>

\* thread_trampoline calls the thread's entry.
Trampoline(t) ==
  /\ At(t, "new")
  /\ pc' = [pc EXCEPT ![t] = IF t = Idle THEN "hlt" ELSE "run"]
  /\ UNCHANGED <<sched, int_flag, cont, saved, left, phase>>

\* The entry returns: thread_trampoline marks the thread Dead and yields for ever.
Exit(t) ==
  /\ At(t, "run") /\ t > Idle
  /\ state' = [state EXCEPT ![t] = "Dead"]
  /\ pc' = [pc EXCEPT ![t] = "exit"]
  /\ UNCHANGED <<run_queue, current, needs_reschedule, ticks_since_switch, int_flag,
                 cont, saved, left, phase>>

ExitYield(t) ==
  /\ At(t, "exit")
  /\ EnterYield(t, "exit")
  /\ UNCHANGED phase

\* maybe_preempt, which only the shell's commands and the loop of sleep call:
\* yield_now if the quantum has expired.
MaybePreempt(t) ==
  /\ At(t, "run") \/ (At(t, "sleep") /\ left[t] > 0)
  /\ t > Idle
  /\ IF needs_reschedule THEN EnterYield(t, pc[t]) /\ UNCHANGED phase
     ELSE UNCHANGED vars

\* timer::sleep: the target is computed from the tick counter.
Sleep(t, ticks) ==
  /\ At(t, "run") /\ t \in Sleepers
  /\ left' = [left EXCEPT ![t] = ticks]
  /\ pc' = [pc EXCEPT ![t] = "sleep"]
  /\ UNCHANGED <<sched, int_flag, cont, saved, phase>>

\* The loop of sleep ends when the tick counter has reached the target.
SleepDone(t) ==
  /\ At(t, "sleep")
  /\ left[t] = 0
  /\ pc' = [pc EXCEPT ![t] = "run"]
  /\ UNCHANGED <<sched, int_flag, cont, saved, left, phase>>

\* The hlt instruction: the CPU stops until an interrupt.
Halt(t) ==
  /\ At(t, "hlt")
  /\ pc' = [pc EXCEPT ![t] = "halted"]
  /\ UNCHANGED <<sched, int_flag, cont, saved, left, phase>>

\* main.rs: interrupt::enable() after the services have been started.
EnableInterrupts ==
  /\ At(Bootstrap, "run")
  /\ phase = "started"
  /\ int_flag' = TRUE
  /\ phase' = "enabled"
  /\ UNCHANGED <<sched, pc, cont, saved, left>>

EnterIdleLoop ==
  /\ At(Bootstrap, "run")
  /\ phase = "enabled"
  /\ phase' = "idle_loop"
  /\ UNCHANGED <<sched, int_flag, pc, cont, saved, left>>

\* The timer interrupt: saios_timer_tick with scheduler::on_timer_tick.  It is
\* taken only while the interrupt flag is set, and ends a hlt.
Tick ==
  /\ int_flag
  /\ left' = [t \in Threads |-> IF left[t] > 0 THEN left[t] - 1 ELSE 0]
  /\ IF Live(Bootstrap)
     THEN /\ ticks_since_switch' = IF ticks_since_switch < DEFAULT_QUANTUM_TICKS
                                   THEN ticks_since_switch + 1
                                   ELSE ticks_since_switch
          /\ needs_reschedule' = (needs_reschedule
                                   \/ ticks_since_switch' >= DEFAULT_QUANTUM_TICKS)
     ELSE UNCHANGED <<ticks_since_switch, needs_reschedule>>
  /\ pc' = IF pc[current] = "halted"
           THEN [pc EXCEPT ![current] = IF current = Idle THEN "hlt" ELSE "run"]
           ELSE pc
  /\ UNCHANGED <<state, run_queue, current, int_flag, cont, saved, phase>>

\* What the current thread does next, apart from new work it may start.
Step(t) ==
  \/ Yield(t) \/ Schedule(t) \/ Resume(t) \/ Trampoline(t)
  \/ ExitYield(t) \/ MaybePreempt(t) \/ SleepDone(t) \/ Halt(t)

Next ==
  \/ SchedulerInit
  \/ EnableInterrupts
  \/ EnterIdleLoop
  \/ IdleLoop
  \/ Tick
  \/ \E t \in Threads :
       \/ Step(t)
       \/ Exit(t)
       \/ \E u \in Threads : Spawn(t, u)
       \/ \E ticks \in 0 .. MaxSleep : Sleep(t, ticks)

Spec == Init /\ [][Next]_vars

\* A thread that has the CPU goes on, and its code yields in the end; the boot
\* code is straight-line; the interrupt controller latches a timer interrupt, so
\* one is taken if interrupts are enabled again and again.
FairSpec ==
  /\ Spec
  /\ WF_vars(SchedulerInit \/ \E u \in Threads : Spawn(Bootstrap, u))
  /\ WF_vars(\E t \in Threads : Step(t))
  /\ SF_vars(\E t \in Threads : Yield(t))
  /\ WF_vars(IdleLoop)
  /\ SF_vars(EnableInterrupts)
  /\ SF_vars(EnterIdleLoop)
  /\ SF_vars(Tick)

-----------------------------------------------------------------------------
(* Properties.                                                             *)

\* The run queue holds exactly the Ready threads, each of them once, although
\* pick_next pops and re-pushes the idle thread and do_schedule re-pushes only
\* some of the threads that leave the CPU.
QueueIsReadyThreads ==
  /\ Range(run_queue) = {t \in Threads : state[t] = "Ready"}
  /\ \A i, j \in DOMAIN run_queue : i # j => run_queue[i] # run_queue[j]

\* What verify() and scheduler/tests.rs call "exactly one running thread": while a
\* thread's own code has the CPU it is the one Running thread; a Dead thread has
\* the CPU only in the loop at the end of thread_trampoline.
OneRunningThread ==
  Live(Bootstrap) =>
    IF state[current] = "Dead"
    THEN /\ \A t \in Threads : state[t] # "Running"
         /\ pc[current] = "exit" \/ (pc[current] = "masked" /\ cont[current] = "exit")
    ELSE {t \in Threads : state[t] = "Running"} = {current}

\* The timer interrupt handler, which takes &mut to the scheduler, never runs
\* while do_schedule is using it.
ScheduleIsMasked == pc[current] \in {"masked", "resumed", "new"} => ~int_flag

\* The state on which do_schedule, maybe_preempt and the interrupt handler rely
\* holds after every interleaving of yields, exits, sleeps and timer interrupts.
ScheduleIsSound == QueueIsReadyThreads /\ OneRunningThread /\ ScheduleIsMasked

Waiting == Range(run_queue) \ {Idle}

\* Thread t stands before thread u in the queue q.
Ahead(q, t, u) == \E i, j \in DOMAIN q : i < j /\ q[i] = t /\ q[j] = u

\* do_schedule is first-in first-out among the threads other than idle: it
\* dispatches the one that has waited longest, idle only when none waits; the
\* others keep their order, and the thread that gave up the CPU goes behind them.
DispatchInOrder ==
  [][current' # current =>
       LET others  == Waiting \ {current'}
           yielded == IF state[current] = "Running" THEN {current} ELSE {}
       IN  /\ IF Waiting = {} THEN current' = Idle ELSE current' \in Waiting
           /\ \A u \in others : Ahead(run_queue, current', u)
           /\ \A t, u \in others : Ahead(run_queue, t, u) => Ahead(run_queue', t, u)
           /\ \A t \in others, u \in yielded : Ahead(run_queue', t, u)
           /\ Waiting' = others \cup yielded]_vars

\* The two ways in which the CPU is lost to every other thread: idle_entry halts
\* and never yields, and timer::sleep, in a thread that runs with interrupts off,
\* waits for ticks that do not come.
Lost ==
  \/ state[Idle] = "Running"
  \/ \E t \in Threads : pc[t] = "sleep" /\ left[t] > 0

\* Round robin: until the CPU is lost to idle_entry or to a sleep, every thread
\* that is Ready is dispatched by do_schedule.
ReadyRunsUntilLost ==
  \A t \in Threads \ {Idle} : state[t] = "Ready" ~> (state[t] = "Running" \/ Lost)

\* What the comment of timer::sleep says, "Busy-waits for approximately `ms`
\* milliseconds": a thread that has called it comes back from it.
SleepEnds == \A t \in Sleepers : pc[t] = "sleep" ~> pc[t] = "run"

=============================================================================
