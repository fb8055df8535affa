------------------------------- MODULE Shell -------------------------------
(***************************************************************************)
(* The shell: the start of its thread (shell/service.rs), its run loop     *)
(* (shell/engine.rs), the dispatcher of lines, statements, pipelines and   *)
(* scripts (shell/dispatcher.rs), and the capture of what a command prints *)
(* (console/mod.rs).  A command is taken in three steps: its redirections  *)
(* are opened and the capture begins, it runs, the capture ends and its    *)
(* output goes where it has to.                                            *)
(***************************************************************************)
EXTENDS ShellCommands

CONSTANTS Lines,      \* the lines a user may type
          Files,      \* the files in memory at start, path |-> text
          Dirs,       \* the directories in memory at start
          Volume,     \* the directory a volume is mounted at
          OnDisk,     \* the files of the volume at start, path |-> text
          Virtual,    \* what the object manager answers below /sys, path |-> text
          MaxLines,   \* bound: lines typed
          Subjects    \* lines and patterns the pure functions are checked on

VARIABLES ctx,        \* CommandContext: running, environment, aliases, last_exit_code, history
          fs,         \* what SAIFS stores: texts and directories in memory, the volume's texts
          capture,    \* OUTPUT_CAPTURE
          screen,     \* what the console showed since the line was read
          completion, \* the aliases of the completion snapshot
          typed,      \* the number of lines typed
          boot,       \* the lines the shell thread runs before its loop
          frames,     \* the calls of dispatch in progress, the innermost last
          run,        \* the call of execute_command in progress: none or one
          wanted,     \* history: what the line read last has to do, if it is one pipeline
          governed,   \* history: every statement so far ran as its operator says
          subject     \* none, or the input a pure function is checked on

vars == <<ctx, fs, capture, screen, completion, typed, boot, frames, run, wanted, governed, subject>>

NoSubject == [kind |-> "none", text |-> <<>>]

-----------------------------------------------------------------------------
(***************************************************************************)
(* The capture of output.                                                  *)
(***************************************************************************)
NoCapture == [active |-> FALSE, suppress |-> FALSE, buffer |-> <<>>]

begin_output_capture(suppress) == [active |-> TRUE, suppress |-> suppress, buffer |-> <<>>]

\* capture_str: what is printed is also kept while the capture is active.
capture_str(cap, text) == IF cap.active THEN [cap EXCEPT !.buffer = @ \o text] ELSE cap

\* What is printed is shown unless the capture suppresses it.
Shown(cap, text) == IF cap.active /\ cap.suppress THEN screen ELSE screen \o text

-----------------------------------------------------------------------------
(***************************************************************************)
(* Calls in progress.  A frame is a call of dispatch: the line that is not *)
(* parsed yet, the statements left, previous_ok, the operator of the       *)
(* statement in progress with the commands left of its pipeline,           *)
(* pipe_input and ok; and, in a script, the lines left of it.              *)
(***************************************************************************)
Dispatch(script, quiet) ==
    [line |-> IF script = <<>> THEN <<>> ELSE <<script[1]>>, stmts |-> <<>>, previous_ok |-> TRUE, op |-> "none", cmds |-> <<>>,
     pipe |-> <<>>, ok |-> TRUE, script |-> From(script, 2), quiet |-> quiet, before |-> <<>>]

Top == Last(frames)
WithTop(frame) == [frames EXCEPT ![Len(frames)] = frame]
Between == Top.cmds = <<>> /\ Top.line = <<>> /\ run = <<>>

\* refresh_completion_snapshot, when the run loop starts and behind every line.
Refreshed == IF boot = <<>> THEN DOMAIN ctx'.aliases ELSE completion

\* Err leaves every call in progress; the run loop prints it.
Abort(shown) ==
    /\ frames' = <<>>
    /\ run' = <<>>
    /\ screen' = IF frames[1].quiet THEN shown ELSE shown \o Error
    /\ completion' = Refreshed

\* The lines of a script that are run.
ScriptLines(text) ==
    LET lines == TextLines(text)
        trimmed == [k \in 1..Len(lines) |-> trim(lines[k])]
    IN SelectSeq(trimmed, LAMBDA line : line # <<>> /\ line[1] # "#")

Reads(cmd) == SelectSeq(cmd.redirections, LAMBDA r : r.kind = "Read")
Writes(cmd) == SelectSeq(cmd.redirections, LAMBDA r : r.kind # "Read")
IsSource(cmd) == cmd.command = <<".">>

\* Mutant: the pipe is read and not taken.
Taken_stays(frame) == frame

\* pipe_input.take().
Taken(frame) == [frame EXCEPT !.pipe = <<>>]

-----------------------------------------------------------------------------
(***************************************************************************)
(* Files.  The volume has no directories.  A handle writes to the tree in  *)
(* memory even at a path that is on the volume.                            *)
(***************************************************************************)
Root == <<"/">>
Parent(path) ==
    LET slash == Max({i \in 1..Len(path) : path[i] = "/"})
    IN IF slash = 1 THEN Root ELSE SubSeq(path, 1, slash - 1)
is_storage_backed(path) == path = Volume \/ IsPrefix(Volume \o Root, path)

\* What read_text answers at every path.
Texts(f) ==
    LET memory == {path \in DOMAIN f.texts : ~is_storage_backed(path)}
    IN Virtual @@ f.volume @@ [path \in memory |-> f.texts[path]]

\* A directory goes too when nothing is in it.
remove(f, path) ==
    LET entries == {p \in DOMAIN f.texts \cup f.dirs : p # Root /\ Parent(p) = path}
    IN IF path \in DOMAIN Virtual THEN f
       ELSE IF is_storage_backed(path) THEN [f EXCEPT !.volume = Without(@, path)]
       ELSE [f EXCEPT !.texts = Without(@, path),
                      !.dirs = IF entries = {} THEN @ \ {path} ELSE @]

Exists(f, path) ==
    IF is_storage_backed(path) THEN path \in DOMAIN f.volume \cup {Volume}
    ELSE path \in DOMAIN f.texts \cup f.dirs \cup DOMAIN Virtual

touch(f, path) ==
    IF Exists(f, path) THEN f
    ELSE IF is_storage_backed(path)
    THEN IF Parent(path) = Volume THEN [f EXCEPT !.volume = With(@, path, <<>>)] ELSE f
    ELSE IF Parent(path) \in f.dirs THEN [f EXCEPT !.texts = With(@, path, <<>>)] ELSE f

\* Handle::write from the start of the file: none when it cannot be opened.
Overwrite(f, path, data) ==
    LET old == IF path \in DOMAIN f.texts THEN f.texts[path] ELSE <<>>
    IN IF \/ path \in DOMAIN Virtual \cup f.dirs
          \/ path \notin DOMAIN f.texts /\ Parent(path) \notin f.dirs THEN <<>>
       ELSE <<[f EXCEPT !.texts = With(@, path, data \o From(old, Len(data) + 1))]>>

\* The text a redirection leaves in its file.
Merged(texts, target, data) ==
    LET path == resolve_shell_path(target.path)
    IN IF target.kind = "Append" /\ path \in DOMAIN texts THEN texts[path] \o data ELSE data

\* The file is removed and made anew, whether that succeeds or not, and written
\* if it is found and opened.
write_redirect(f, target, data) ==
    LET path == resolve_shell_path(target.path)
        Ended(made, written) ==
            IF ~Exists(made, path) \/ written = <<>> THEN [fs |-> made, err |-> TRUE]
            ELSE [fs |-> written[1], err |-> FALSE]
    IN CHOOSE r \in {Ended(made, Overwrite(made, path, Merged(Texts(f), target, data))) :
                        made \in {touch(remove(f, path), path)}} : TRUE

\* The redirections of a command in their order: the last of each kind counts.
Input(cmd, texts, pipe) ==
    IF Reads(cmd) = <<>> THEN pipe ELSE <<texts[resolve_shell_path(Last(Reads(cmd)).path)]>>

Missing(cmd, texts) ==
    \E k \in DOMAIN Reads(cmd) : resolve_shell_path(Reads(cmd)[k].path) \notin DOMAIN texts

-----------------------------------------------------------------------------
(***************************************************************************)
(* What one pipeline has to do: every command reads the file it names, or  *)
(* what the command before it wrote to the pipe, or nothing; and its       *)
(* output goes to the file it names, or to the next command, or, from the  *)
(* last command, to the screen.  A file can be named where a directory has *)
(* room for it, except below /sys and in place of a directory in use.      *)
(***************************************************************************)
Refuses(p, path) ==
    \/ path \in DOMAIN Virtual
    \/ Parent(path) \notin p.dirs
    \/ path \in p.dirs /\ \E other \in DOMAIN p.texts \cup p.dirs : other # Root /\ Parent(other) = path

\* The text out is added to the file or replaces it.  What is stored on the
\* volume is not said.
Stored(p, target, out) ==
    LET path == resolve_shell_path(target.path)
        old == IF target.kind = "Append" /\ path \in DOMAIN p.texts THEN p.texts[path] ELSE <<>>
    IN IF Refuses(p, path) THEN [p EXCEPT !.err = TRUE]
       ELSE [p EXCEPT !.texts = With(@, path, old \o out), !.dirs = @ \ {path},
                      !.unsaid = IF IsPrefix(Volume, path) THEN @ \cup {path} ELSE @]

Piped(p, cmd, last) ==
    LET quiet == ~last \/ Writes(cmd) # <<>>
        Ran(r) == [p EXCEPT !.ctx = env_put(r.ctx, STDIN, <<>>), !.err = r.err,
                            !.shown = @ \o IF quiet THEN <<>> ELSE r.out,
                            !.pipe = IF Writes(cmd) = <<>> /\ ~last THEN <<r.out>> ELSE <<>>]
    IN IF p.err THEN p
       ELSE IF Missing(cmd, p.texts) THEN [p EXCEPT !.err = TRUE]
       ELSE CHOOSE done \in
               {IF Writes(cmd) = <<>> \/ r.err THEN Ran(r) ELSE Stored(Ran(r), Last(Writes(cmd)), r.out) :
                   r \in {Executed(env_put(p.ctx, STDIN, Input(cmd, p.texts, p.pipe)), cmd, quiet)}} : TRUE

Composed(cmds) ==
    LET after[k \in 0..Len(cmds)] ==
            IF k = 0 THEN [ctx |-> ctx, shown |-> <<>>, err |-> FALSE, pipe |-> <<>>,
                           texts |-> Texts(fs), dirs |-> fs.dirs, unsaid |-> {}]
            ELSE CHOOSE r \in {Piped(p, cmds[k], k = Len(cmds)) : p \in {after[k - 1]}} : TRUE
        end == after[Len(cmds)]
    IN [shown |-> end.shown \o IF end.err THEN Error ELSE <<>>,
        texts |-> end.texts, dirs |-> end.dirs, unsaid |-> end.unsaid]

\* The line is one pipeline that nothing is expanded in.
IsPipeline(line, stmts) ==
    /\ Len(stmts) = 1
    /\ "$" \notin ToSet(line)
    /\ \A k \in DOMAIN stmts[1].commands :
        stmts[1].commands[k].command \notin DOMAIN ctx.aliases \cup {<<".">>}

-----------------------------------------------------------------------------
(***************************************************************************)
(* Steps.                                                                  *)
(***************************************************************************)
\* sish_thread_entry: the init script is run, then "clear"; errors are ignored.
Boot ==
    /\ subject = NoSubject /\ frames = <<>> /\ boot # <<>>
    /\ frames' = <<Dispatch(<<Head(boot)>>, TRUE)>>
    /\ boot' = Tail(boot)
    /\ UNCHANGED <<ctx, fs, capture, screen, completion, typed, run, wanted, governed, subject>>

\* The run loop takes a line.
ReadLine(line) ==
    /\ subject = NoSubject /\ frames = <<>> /\ boot = <<>> /\ ctx.running /\ typed < MaxLines
    /\ typed' = typed + 1
    /\ ctx' = push_history(ctx, line)
    /\ screen' = <<>>
    /\ frames' = <<Dispatch(<<line>>, FALSE)>>
    /\ UNCHANGED <<fs, capture, completion, boot, run, wanted, governed, subject>>

\* dispatch parses its line.
ParseLine ==
    /\ frames # <<>> /\ Top.line # <<>>
    /\ \E stmts \in {parse_line(Top.line[1])} :
        /\ frames' = WithTop([Top EXCEPT !.line = <<>>, !.stmts = stmts])
        /\ wanted' = IF Top.quiet \/ Len(frames) > 1 THEN wanted
                     ELSE IF IsPipeline(Top.line[1], stmts) THEN <<Composed(stmts[1].commands)>>
                     ELSE <<>>
    /\ UNCHANGED <<ctx, fs, capture, screen, completion, typed, boot, run, governed, subject>>

\* The next statement: its operator is looked at when it is over.
StartStatement ==
    /\ frames # <<>> /\ Between /\ Top.op = "none" /\ Top.stmts # <<>>
    /\ LET stmt == Head(Top.stmts) IN
       /\ frames' = WithTop([Top EXCEPT !.stmts = Tail(@), !.op = stmt.operator,
                                        !.cmds = stmt.commands, !.pipe = <<>>, !.ok = TRUE])
       /\ governed' = /\ governed
                      /\ stmt.operator = "AndAnd" /\ Top.before # <<>> => Top.before[1]
                      /\ stmt.operator = "OrOr" /\ Top.before # <<>> => ~Top.before[1]
    /\ UNCHANGED <<ctx, fs, capture, screen, completion, typed, boot, run, wanted, subject>>

EndStatement ==
    /\ frames # <<>> /\ Between /\ Top.op # "none"
    /\ LET ok == Top.previous_ok /\ Top.ok
           break == (Top.op = "AndAnd" /\ ~ok) \/ (Top.op = "OrOr" /\ ok)
       IN frames' = WithTop([Top EXCEPT !.op = "none", !.before = <<Top.ok>>,
                                        !.previous_ok = ok \/ Top.op = "Background",
                                        !.stmts = IF break THEN <<>> ELSE @])
    /\ UNCHANGED <<ctx, fs, capture, screen, completion, typed, boot, run, wanted, governed, subject>>

\* dispatch returns: to the next line of its script, to the command after the
\* one that sourced the script, or to the run loop.
EndLine ==
    /\ frames # <<>> /\ Between /\ Top.op = "none" /\ Top.stmts = <<>>
    /\ frames' = IF Top.script = <<>> THEN Front(frames)
                 ELSE WithTop(Dispatch(Top.script, Top.quiet))
    /\ UNCHANGED ctx
    /\ completion' = IF frames' = <<>> THEN Refreshed ELSE completion
    /\ UNCHANGED <<fs, capture, screen, typed, boot, run, wanted, governed, subject>>

\* A script is run in a call of its own, its output not captured; the pipe stays
\* as it is for the next command.
run_script(cmd) ==
    /\ UNCHANGED <<ctx, capture>>
    /\ LET path == resolve_shell_path(cmd.args[1])
           after == [Top EXCEPT !.cmds = Tail(@)]
       IN IF cmd.args = <<>> \/ path \notin DOMAIN Texts(fs) THEN Abort(screen)
          ELSE /\ frames' = Append(WithTop(after), Dispatch(ScriptLines(Texts(fs)[path]), Top.quiet))
               /\ UNCHANGED <<run, screen, completion>>

\* SISH_STDIN is saved and set, and the capture begins.
BeginCommand(cmd) ==
    IF Missing(cmd, Texts(fs)) THEN UNCHANGED <<ctx, capture>> /\ Abort(screen)
    ELSE LET more == Len(Top.cmds) > 1 IN
         /\ run' = <<[cmd |-> cmd, saved |-> env_get(ctx, STDIN), more |-> more, code |-> -1, err |-> FALSE]>>
         /\ ctx' = env_put(ctx, STDIN, Input(cmd, Texts(fs), Top.pipe))
         /\ capture' = begin_output_capture(more \/ Writes(cmd) # <<>>)
         /\ frames' = WithTop(Taken([Top EXCEPT !.cmds = Tail(@)]))
         /\ UNCHANGED <<screen, completion>>

NextCommand ==
    /\ frames # <<>> /\ run = <<>> /\ Top.cmds # <<>>
    /\ \E cmd \in {expand_alias_and_env(ctx, Head(Top.cmds))} :
        IF IsSource(cmd) THEN run_script(cmd) ELSE BeginCommand(cmd)
    /\ UNCHANGED <<fs, typed, boot, wanted, governed, subject>>

\* The command runs; "clear" empties the screen whatever is captured.
Execute ==
    /\ run # <<>> /\ run[1].code = -1
    /\ \E r \in {Executed(ctx, run[1].cmd, capture.suppress)} :
        /\ ctx' = r.ctx
        /\ capture' = capture_str(capture, r.out)
        /\ screen' = IF run[1].cmd.command = <<"k">> THEN <<>> ELSE Shown(capture, r.out)
        /\ run' = <<[run[1] EXCEPT !.code = r.code, !.err = r.err]>>
    /\ UNCHANGED <<fs, completion, typed, boot, frames, wanted, governed, subject>>

\* Mutant: the error is returned before SISH_STDIN is put back.
Restored_unless_error(c, r) == IF r.err THEN c ELSE [env_put(c, STDIN, r.saved) EXCEPT !.last = r.code]

\* The session behind a command: an error leaves last_exit_code alone.
Restored(c, r) ==
    IF r.err THEN env_put(c, STDIN, r.saved)
    ELSE [env_put(c, STDIN, r.saved) EXCEPT !.last = r.code]

\* The capture ends, SISH_STDIN is put back, and the output goes to the file or
\* into the pipe.
EndCommand ==
    /\ run # <<>> /\ run[1].code # -1
    /\ LET r == run[1]
           target == Writes(r.cmd)
           done == [Top EXCEPT !.ok = @ /\ r.code = 0]
       IN /\ ctx' = Restored(ctx, r)
          /\ capture' = NoCapture
          /\ \/ /\ r.err
                /\ Abort(screen)
                /\ UNCHANGED fs
             \/ /\ ~r.err /\ target # <<>>
                /\ \E w \in {write_redirect(fs, Last(target), capture.buffer)} :
                   /\ fs' = w.fs
                   /\ IF w.err THEN Abort(screen)
                      ELSE /\ frames' = WithTop(done)
                           /\ run' = <<>>
                           /\ UNCHANGED <<screen, completion>>
             \/ /\ ~r.err /\ target = <<>>
                /\ frames' = WithTop(IF r.more THEN [done EXCEPT !.pipe = <<capture.buffer>>] ELSE done)
                /\ run' = <<>>
                /\ UNCHANGED <<fs, screen, completion>>
    /\ UNCHANGED <<typed, boot, wanted, governed, subject>>

\* The shell has been left, no more lines are typed, or a pure function is all there is to check.
Stopped ==
    /\ subject # NoSubject \/ (frames = <<>> /\ boot = <<>> /\ (~ctx.running \/ typed = MaxLines))
    /\ UNCHANGED vars

Init ==
    /\ ctx = [running |-> TRUE, env |-> <<>>, aliases |-> <<>>, last |-> 0, history |-> <<>>]
    /\ fs = [texts |-> Files, dirs |-> Dirs, volume |-> OnDisk]
    /\ capture = NoCapture
    /\ screen = <<>>
    /\ completion = {}
    /\ typed = 0
    /\ subject \in Subjects \cup {NoSubject}
    /\ boot = IF subject = NoSubject THEN <<<<".", " ", "i">>, <<"k">>>> ELSE <<>>
    /\ frames = <<>>
    /\ run = <<>>
    /\ wanted = <<>>
    /\ governed = TRUE

Next ==
    \/ Boot
    \/ \E line \in Lines : ReadLine(line)
    \/ ParseLine
    \/ StartStatement
    \/ EndStatement
    \/ EndLine
    \/ NextCommand
    \/ Execute
    \/ EndCommand
    \/ Stopped

Spec == Init /\ [][Next]_vars

Idle == subject = NoSubject /\ frames = <<>>

-----------------------------------------------------------------------------
(***************************************************************************)
(* Properties.                                                             *)
(***************************************************************************)
\* grep takes a pattern that is written as its parts say, and accepts a line
\* exactly when the parts have a match in it: neither the order in which
\* match_here and match_repeat try lengths nor the exits of their loops
\* (shell/regex.rs:8-133) miss a match, and the reading of atoms and classes
\* (regex.rs:135-251) finds the bytes they were written for.
Haystacks == UNION {[1..n -> {"a", "b"}] : n \in 0..3}
RegexFindsMatches ==
    subject.kind = "pattern" =>
        \A text \in Haystacks :
            is_match(Written(subject), text) = IF Meaning(subject, text) THEN "match" ELSE "none"

\* The commands of a line, with their arguments and redirections, are those its
\* words ask for: cutting it at operators, then at pipes, then at blanks and
\* arrows, each with a quoting state of its own (shell/parser.rs:58-290),
\* neither loses, splits nor joins a word, quoted or not.  Lines with an empty
\* quoted word or a quoted arrow are left out: parser.rs:173 and :199 drop the
\* one and :220 takes the other for a redirection.
WordsKeepQuotes ==
    LET Arrow(kind) == CASE kind = "Write" -> <<">">> [] kind = "Append" -> <<">", ">">> [] kind = "Read" -> <<"<">>
        Given(cmd) == [command |-> cmd.command, args |-> cmd.args,
                       arrows |-> [k \in DOMAIN cmd.redirections |->
                                      [arrow |-> Arrow(cmd.redirections[k].kind), path |-> cmd.redirections[k].path]]]
        Of(stmt) == [k \in DOMAIN stmt.commands |-> Given(stmt.commands[k])]
    IN subject.kind = "line" /\ Open(subject.text, Len(subject.text) + 1) = "none" =>
        \E pieces \in {WordsOf(subject.text)} :
            (\A k \in DOMAIN pieces : \A i \in DOMAIN pieces[k] : ~Forgotten(pieces[k][i])) =>
            \E stmts \in {parse_line(subject.text)} :
                FlattenSeq([k \in DOMAIN stmts |-> Of(stmts[k])])
                = FlattenSeq([k \in DOMAIN pieces |-> Asked(pieces[k])])

\* A line that is one pipeline shows and stores what the composition of its
\* commands does: the capture, SISH_STDIN, pipe_input and the redirections
\* (shell/dispatcher.rs:56-177, 297-313) pass every text to one reader, and to
\* no later one, nothing of an earlier line gets into it, a redirection that
\* reports no error has its text in its file, and one that is refused costs no
\* file its text.  A file on the mounted volume that the line writes to is left
\* out: remove and touch empty it there (vfs.rs:738, :985) and the handle
\* writes to a file of that name in memory (vfs.rs:809), without an error.
OutputIsRouted ==
    Idle /\ boot = <<>> /\ wanted # <<>> =>
        LET Except(texts) == [path \in DOMAIN texts \ wanted[1].unsaid |-> texts[path]]
        IN /\ screen = wanted[1].shown
           /\ fs.dirs = wanted[1].dirs
           /\ Except(Texts(fs)) = Except(wanted[1].texts)

\* Between two lines nothing of the last one is left behind, however it ended:
\* SISH_STDIN is unset, no capture is active, and the completion snapshot has
\* the aliases of the session.
NothingLeftBehind ==
    /\ Idle => STDIN \notin DOMAIN ctx.env /\ capture = NoCapture
    /\ Idle /\ boot = <<>> => completion = DOMAIN ctx.aliases

\* shell/parser.rs:53: "The control operator that governs execution of the next
\* statement."  No statement behind && runs when the one before it failed, and
\* none behind || when it did not.
OperatorGovernsNext == governed
=============================================================================
