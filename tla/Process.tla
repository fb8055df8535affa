------------------------------- MODULE Process -------------------------------
(***************************************************************************)
(* The process manager of seed/saios/src/kernel/process.rs with the event  *)
(* bus it reports to, driven by the shell thread: PID 1 and its start-up   *)
(* script, then the commands and system calls of the interactive shell.    *)
(*                                                                         *)
(* A process is a record, and its program runs on the caller's stack:      *)
(* spawn returns when the program has.  A program (kill, taskman) may kill *)
(* any process, itself included, while it runs, and commands and programs  *)
(* change the files that programs are loaded from (module Loader).         *)
(*                                                                         *)
(* results, announced and linkable are history variables: what each        *)
(* program returned, the processes whose start was published, and whether  *)
(* the image of a process had all it needs when it was spawned.            *)
(***************************************************************************)
EXTENDS EventBus, Loader

CONSTANTS
  InitScript,   \* /system/init, the program of PID 1
  Shell,        \* the shell's program name
  Codes,        \* exit codes programs return
  Sessions      \* what is done: the commands (names, bare or with a path), the
                \* edits of files (<<path, content>>, None removes), the bounds
                \* on processes, events and edits

KILLED == 137      \* exit code kill records
NOT_RUN == 127     \* exit code of a program that fails or does not link

ASSUME ProcessAssumption ==
  /\ \A s \in Sessions : /\ \A name \in s.commands : name.bare \in BOOLEAN /\ name.parts # <<>>
                         /\ \A e \in s.edits : e[2] = None \/ IsContent(e[2])
                         /\ s.processes \in Nat /\ s.published \in Nat /\ s.edited \in Nat
                         /\ s.processes < U64_MAX /\ s.published + 1 < U64_MAX
  /\ InitScript.bare \in BOOLEAN
  /\ Codes \subseteq Nat /\ None \notin Nat
  /\ {"ProcessStarted", "ProcessStopped"} \subseteq EventKind

VARIABLES
  session,   \* one of Sessions
  manager,   \* ProcessManager
  bus,       \* the event bus
  phase,     \* of the shell thread: boot, init, finished, shell
  running,   \* the program on the shell thread's stack, or None
  files,     \* what Loader sees of the filesystem
  edits,     \* number of edits made to it
  reply,     \* answer of the last call
  results,
  announced,
  linkable

vars == <<session, manager, bus, phase, running, files, edits, reply, results, announced, linkable>>
history == <<results, announced, linkable>>

-----------------------------------------------------------------------------
(* ProcessManager.  Its record of a process is found by pid, the first one *)
(* with that pid.                                                          *)

NewManager == [records |-> <<>>, next_pid |-> 1, init_pid |-> None, shell_pid |-> None]

Pids == {manager.records[i].pid : i \in DOMAIN manager.records}

Find(m, pid) == CHOOSE i \in DOMAIN m.records :
  /\ m.records[i].pid = pid
  /\ \A j \in 1 .. i - 1 : m.records[j].pid # pid

Record(pid) == manager.records[Find(manager, pid)]

\* ProcessManager::spawn, which start_pid1 repeats.
NewRecord(m, name) ==
  [m EXCEPT !.records = Append(@, [pid |-> m.next_pid, name |-> name,
                                   state |-> "Running", exit_code |-> None]),
            !.next_pid = saturating_inc(@)]

exit_keeps_code(m, pid, code) ==
  [m EXCEPT !.records[Find(m, pid)] =
     [@ EXCEPT !.state = "Exited", !.exit_code = IF @ = None THEN code ELSE @]]

exit(m, pid, code) ==
  [m EXCEPT !.records[Find(m, pid)] =
     [@ EXCEPT !.state = "Exited", !.exit_code = code]]

set_waiting(m, pid) ==
  [m EXCEPT !.records[Find(m, pid)].state = IF @ = "Exited" THEN @ ELSE "Waiting"]

set_running(m, pid) ==
  [m EXCEPT !.records[Find(m, pid)].state = IF @ = "Exited" THEN @ ELSE "Running"]

-----------------------------------------------------------------------------
(* Publishing.                                                             *)

CanPublish(n) == bus.next_seq + n <= session.published + 1

Started(b, pid) == publish(b, "ProcessStarted", pid)
Stopped(b, pid) == publish(b, "ProcessStopped", pid)

\* The rest of the kernel publishes too (drivers, devices).
PublishOther(kind) ==
  /\ CanPublish(1)
  /\ bus' = publish(bus, kind, None)
  /\ UNCHANGED <<session, manager, phase, running, files, edits, reply, history>>

\* sairu::recover ends by forgetting old events.
ClearStale(keep_latest) ==
  /\ phase = "shell" /\ running = None
  /\ bus' = clear_stale(bus, keep_latest)
  /\ UNCHANGED <<session, manager, phase, running, files, edits, reply, history>>

-----------------------------------------------------------------------------
(* The shell thread: start-up, then commands.                              *)

Init ==
  /\ session \in Sessions
  /\ manager = NewManager
  /\ bus = NewBus
  /\ phase = "boot"
  /\ running = None
  /\ files = Written(mount_default(<<>>).files, InitScript.parts, [kind |-> "Text"])
  /\ edits = 0
  /\ reply = [op |-> "none"]
  /\ results = <<>>
  /\ announced = {}
  /\ linkable = <<>>

start_pid1 ==
  /\ phase = "boot" /\ CanPublish(1)
  /\ manager' = [NewRecord(manager, InitScript.parts) EXCEPT !.init_pid = manager.next_pid]
  /\ bus' = Started(bus, manager.next_pid)
  /\ announced' = announced \union {manager.next_pid}
  /\ phase' = "init"
  /\ UNCHANGED <<session, running, files, edits, reply, results, linkable>>

\* When the start-up script has ended.
finish_pid1 ==
  /\ phase = "init" /\ running = None /\ CanPublish(1)
  /\ manager' = exit(manager, manager.init_pid, 0)
  /\ bus' = Stopped(bus, manager.init_pid)
  /\ phase' = "finished"
  /\ UNCHANGED <<session, running, files, edits, reply, history>>

ensure_shell_process ==
  /\ phase = "finished" /\ CanPublish(1)
  /\ Len(manager.records) < session.processes
  /\ manager' = [NewRecord(manager, Shell) EXCEPT !.shell_pid = manager.next_pid]
  /\ bus' = Started(bus, manager.next_pid)
  /\ announced' = announced \union {manager.next_pid}
  /\ phase' = "shell"
  /\ UNCHANGED <<session, running, files, edits, reply, results, linkable>>

\* A command or a system call can be issued: from the start-up script or at
\* the prompt.
AtPrompt == phase \in {"init", "shell"} /\ running = None

\* rm, cp, cc, a redirection: at the prompt, or by the program that runs.
Edit(path, content) ==
  /\ edits < session.edited
  /\ edits' = edits + 1
  /\ AtPrompt \/ (running # None /\ running.program \in BuiltIns)
  /\ content = None => path \in DOMAIN files
  /\ files' = IF content = None THEN Restrict(files, DOMAIN files \ {path})
              ELSE Written(files, path, content)
  /\ UNCHANGED <<session, manager, bus, phase, running, reply, history>>

\* pkgimg mount.
cmd_pkgimg ==
  /\ AtPrompt
  /\ files' = mount_default(files).files
  /\ UNCHANGED <<session, edits, manager, bus, phase, running, reply, history>>

kill(pid) ==
  /\ manager' = exit(manager, pid, KILLED)
  /\ bus' = Stopped(bus, pid)

Kill(pid) ==
  /\ AtPrompt /\ CanPublish(1)
  /\ IF pid \in Pids THEN kill(pid) ELSE UNCHANGED <<manager, bus>>
  /\ reply' = [op |-> "kill", ok |-> pid \in Pids]
  /\ UNCHANGED <<session, phase, running, files, edits, history>>

Wait(pid) ==
  /\ AtPrompt
  /\ IF pid \in Pids
     THEN /\ manager' = set_waiting(manager, pid)
          /\ reply' = [op |-> "wait",
                       answer |-> IF Record(pid).state = "Exited"
                                  THEN Record(pid).exit_code ELSE "still running"]
     ELSE /\ reply' = [op |-> "wait", answer |-> "not found"]
          /\ UNCHANGED manager
  /\ UNCHANGED <<session, bus, phase, running, files, edits, history>>

\* The exit system call, which the shell issues for PID 1.
SyscallExit(code) ==
  /\ AtPrompt /\ CanPublish(1)
  /\ manager' = exit(manager, 1, code)
  /\ bus' = Stopped(bus, 1)
  /\ reply' = [op |-> "exit"]
  /\ UNCHANGED <<session, phase, running, files, edits, history>>

\* The reference for link_image: a dynamic image finds its interpreter, every
\* library it needs whole at the first place that has it, and every symbol it
\* requires in one of them.
HasAllItNeeds(path) ==
  LET meta == binary_metadata(files, path)
      At(name) == IF <<"lib", name>> \in DOMAIN files THEN <<"lib", name>> ELSE <<"usr", "lib", name>>
  IN  meta = None \/ ~meta.dynamic \/
        /\ \E p \in DOMAIN files : p = IF meta.interpreter = None THEN DefaultInterpreter ELSE meta.interpreter
        /\ \A i \in DOMAIN meta.needed : At(meta.needed[i]) \in DOMAIN files
                                       /\ parse_library(files, At(meta.needed[i])) # None
        /\ \A s \in meta.required : \E i \in DOMAIN meta.needed : s \in files[At(meta.needed[i])].exports

NotFound(op, name) ==
  /\ AtPrompt
  /\ resolve_program_name(files, name) = None
  /\ reply' = [op |-> op, answer |-> "not found"]
  /\ UNCHANGED <<session, manager, bus, phase, running, files, edits, history>>

\* spawn has found the image at path and makes the record.
Spawned(path) ==
  /\ AtPrompt
  /\ path # None
  /\ Len(manager.records) < session.processes
  /\ linkable' = Written(linkable, manager.next_pid, HasAllItNeeds(path))

\* spawn up to the program's first instruction.  exec and the fork system
\* call go through it too.
Spawn(op, path) ==
  LET pid == manager.next_pid
  IN  /\ Spawned(path) /\ CanPublish(2)
      /\ Links(files, path)
      /\ manager' = NewRecord(manager, path)
      /\ bus' = Started(bus, pid)
      /\ announced' = announced \union {pid}
      /\ running' = [op |-> op, pid |-> pid, program |-> execute_path(files, path)]
      /\ UNCHANGED <<session, phase, files, edits, reply, results>>

\* The linker misses the interpreter, a library or a symbol: the process has
\* a record and never runs.
LinkFails(op, path) ==
  LET pid == manager.next_pid
  IN  /\ Spawned(path) /\ CanPublish(1)
      /\ ~Links(files, path)
      /\ manager' = exit(NewRecord(manager, path), pid, NOT_RUN)
      /\ bus' = Stopped(bus, pid)
      /\ reply' = [op |-> op, answer |-> "link failed"]
      /\ UNCHANGED <<session, phase, running, files, edits, results, announced>>

\* The commands and system calls that start a program.  fork starts the
\* program of PID 1, for which the shell issues it, anew.
Call(op, name) ==
  \/ NotFound(op, name)
  \/ \E path \in {resolve_program_name(files, name)} : Spawn(op, path) \/ LinkFails(op, path)

ProgramKills(pid) ==
  /\ running # None /\ running.program \in BuiltIns /\ CanPublish(2)
  /\ pid \in Pids
  /\ kill(pid)
  /\ UNCHANGED <<session, phase, running, files, edits, reply, history>>

\* What the program on the stack can return: a stub prints, a file with no
\* program behind it fails, which counts as NOT_RUN.
CanReturn(code) ==
  CASE running.program = None -> code = NOT_RUN
    [] running.program = "stub" -> code = 0
    [] OTHER -> code \in Codes \union {NOT_RUN}

\* The program returns: the rest of spawn, and of exec, which looks up the
\* code in a copy of the table.
ProgramReturns(code) ==
  LET pid == running.pid
      m   == exit(set_running(manager, pid), pid, code)
  IN  /\ running # None
      /\ CanReturn(code)
      /\ manager' = m
      /\ bus' = Stopped(bus, pid)
      /\ results' = Written(results, pid, code)
      /\ reply' = [op |-> running.op, pid |-> pid,
                   answer |-> IF running.op = "exec" THEN m.records[Find(m, pid)].exit_code
                              ELSE pid]
      /\ running' = None
      /\ UNCHANGED <<session, phase, files, edits, announced, linkable>>

Next ==
  \/ start_pid1
  \/ finish_pid1
  \/ ensure_shell_process
  \/ \E pid \in 1 .. session.processes : Kill(pid) \/ Wait(pid) \/ ProgramKills(pid)
  \/ \E code \in Codes : SyscallExit(code)
  \/ \E name \in session.commands : Call("spawn", name) \/ Call("exec", name)
  \/ Call("fork", InitScript)
  \/ \E code \in Codes \union {0, NOT_RUN} : ProgramReturns(code)
  \/ \E edit \in session.edits : Edit(edit[1], edit[2])
  \/ cmd_pkgimg
  \/ \E kind \in EventKind \ {"ProcessStarted", "ProcessStopped"} : PublishOther(kind)
  \/ \E keep_latest \in 0 .. MAX_EVENTS : ClearStale(keep_latest)

Spec == Init /\ [][Next]_vars

-----------------------------------------------------------------------------
(* Properties.                                                             *)

\* exec answers with what the program returned, even when the program, or
\* another program's kill, had already marked the process as exited; it never
\* fails with "process did not exit".
ExecReportsResult ==
  (reply.op = "exec" /\ "pid" \in DOMAIN reply) => reply.answer = results[reply.pid]

\* A process has a pid of its own, and an exit code exactly when it has exited,
\* whichever of the four code paths ended it and whatever wait or the end of a
\* program that killed its own process did to its record.
RecordsAreSound ==
  /\ \A i, j \in DOMAIN manager.records :
       manager.records[i].pid = manager.records[j].pid => i = j
  /\ \A i \in DOMAIN manager.records :
       (manager.records[i].state = "Exited") <=> (manager.records[i].exit_code # None)

\* The log holds the newest events, numbered consecutively without a gap, and
\* no more than the cap, after any mixture of publish and clear_stale.
LogIsNewestEvents ==
  /\ Len(bus.events) <= MAX_EVENTS
  /\ \A i \in DOMAIN bus.events :
       bus.events[i].seq = bus.next_seq - 1 - (Len(bus.events) - i)

\* The counters, which telemetry reports, account for the life of every
\* process although the log forgets: one start for each process that ran, at
\* least one stop for each that exited, and nothing stopped before it started
\* except what failed to link.  A process was started exactly when its image
\* had all it needs at that time.  Records and log stay sound.
LifeIsCounted ==
  LET exited == {p \in Pids : Record(p).state = "Exited"}
  IN  /\ RecordsAreSound
      /\ LogIsNewestEvents
      /\ bus.counters["ProcessStarted"] = Cardinality(announced)
      /\ bus.counters["ProcessStopped"] >= Cardinality(exited)
      /\ \A p \in DOMAIN linkable : linkable[p] <=> p \in announced
      /\ \A p \in Pids \ announced : p \in exited /\ Record(p).exit_code \in {NOT_RUN, KILLED}
=============================================================================
