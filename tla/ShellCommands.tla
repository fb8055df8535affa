--------------------------- MODULE ShellCommands ---------------------------
(***************************************************************************)
(* The session of the shell (shell/session.rs), the expansion of aliases   *)
(* and variables (shell/dispatcher.rs), and the commands that change the   *)
(* session or read their standard input (shell/native.rs).  Texts and      *)
(* words are sequences of characters; command names are one character.     *)
(***************************************************************************)
EXTENDS Integers, Sequences, SequencesExt, FiniteSets, TLC, Parser

CONSTANT MaxHistory   \* MAX_HISTORY

\* The environment variable SISH_STDIN.
STDIN == <<"I">>
Error == <<"!", "\n">>
Newline == <<"\n">>

\* The names in the registry and their handlers.
Registry ==
    <<"e">> :> "echo" @@ <<"g">> :> "grep" @@ <<"s">> :> "setenv" @@ <<"u">> :> "unsetenv"
    @@ <<"l">> :> "alias" @@ <<"n">> :> "unalias" @@ <<"t">> :> "status" @@ <<"r">> :> "exec"
    @@ <<"x">> :> "exit" @@ <<"k">> :> "clear"

-----------------------------------------------------------------------------
(***************************************************************************)
(* The pattern matcher of grep, shell/regex.rs: bytes, '.', classes,       *)
(* escapes, the quantifiers *, + and ?, and the anchors ^ and $.           *)
(***************************************************************************)
\* The bytes of the instances in their order, for ranges.
Alphabet == <<"$", "*", "+", "-", ".", "?", "[", "\\", "]", "^", "a", "b", "c">>
Ord(ch) == CHOOSE i \in 1..Len(Alphabet) : Alphabet[i] = ch

Quantifiers == {"*", "+", "?"}
From(s, i) == SubSeq(s, i, Len(s))
NoAtom == [kind |-> "none", len |-> 0]

\* Where the class that starts the pattern ends: behind members that may be
\* escaped.  0 when it does not, or has no member.
ClassEnd(p, start) ==
    LET next[i \in start..Len(p) + 2] ==
            IF i > Len(p) THEN 0
            ELSE IF p[i] = "\\" THEN IF i = Len(p) THEN 0 ELSE next[i + 2]
            ELSE IF p[i] = "]" THEN IF i = start THEN 0 ELSE i
            ELSE next[i + 1]
    IN next[start]

\* The negation mark and the body of a class, and its length.
parse_class(p) ==
    LET negated == Len(p) > 1 /\ p[2] = "^"
        start == IF negated THEN 3 ELSE 2
        end == ClassEnd(p, start)
    IN IF end = 0 THEN NoAtom
       ELSE [kind |-> "class", negated |-> negated, body |-> SubSeq(p, start, end - 1), len |-> end]

parse_atom(p) ==
    IF p = <<>> \/ p[1] \in Quantifiers THEN NoAtom
    ELSE CASE p[1] = "." -> [kind |-> "any", len |-> 1]
           [] p[1] = "\\" -> IF Len(p) = 1 THEN NoAtom
                             ELSE [kind |-> "byte", byte |-> p[2], len |-> 2]
           [] p[1] = "[" -> parse_class(p)
           [] OTHER -> [kind |-> "byte", byte |-> p[1], len |-> 1]

\* A member is a byte or an escaped byte; two with a dash between are a range
\* in either direction.
class_contains(body, ch) ==
    LET Len1(i) == IF body[i] = "\\" THEN 2 ELSE 1
        Char(i) == body[i + Len1(i) - 1]
        found[i \in 1..Len(body) + 2] ==
            IF i > Len(body) THEN FALSE
            ELSE LET j == i + Len1(i) IN
                 IF j + 1 <= Len(body) /\ body[j] = "-"
                 THEN LET a == Ord(Char(i))
                          b == Ord(Char(j + 1))
                      IN \/ Ord(ch) \in a..b \/ Ord(ch) \in b..a
                         \/ found[j + 1 + Len1(j + 1)]
                 ELSE ch = Char(i) \/ found[j]
    IN found[1]

atom_matches(atom, ch) ==
    CASE atom.kind = "byte" -> atom.byte = ch
      [] atom.kind = "any" -> TRUE
      [] atom.kind = "class" -> class_contains(atom.body, ch) # atom.negated

\* Mutant: the loop ends before the rest is tried behind no byte.
match_repeat_stops_early(takes, min_count, rest) ==
    LET need[c \in 0..min_count] ==
            IF c = min_count THEN TRUE
            ELSE IF c >= Len(takes) \/ ~takes[c + 1] THEN FALSE ELSE need[c + 1]
        grow[m \in 0..Len(takes)] == IF m < Len(takes) /\ takes[m + 1] THEN grow[m + 1] ELSE m
        try[i \in 0..Len(takes)] ==
            IF i < min_count \/ i = 0 THEN FALSE ELSE IF rest[i] THEN TRUE ELSE try[i - 1]
    IN need[0] /\ try[grow[min_count]]

\* The three loops: the bytes the atom must take, as many more as it can, and
\* the rest of the pattern tried behind ever fewer of them.  takes[i] says
\* whether the atom matches byte i of the text, rest[i] whether the rest of the
\* pattern matches behind i bytes of it.
match_repeat(takes, min_count, rest) ==
    LET need[c \in 0..min_count] ==
            IF c = min_count THEN TRUE
            ELSE IF c >= Len(takes) \/ ~takes[c + 1] THEN FALSE ELSE need[c + 1]
        grow[m \in 0..Len(takes)] == IF m < Len(takes) /\ takes[m + 1] THEN grow[m + 1] ELSE m
        try[i \in 0..Len(takes)] ==
            IF i < min_count THEN FALSE
            ELSE IF rest[i] THEN TRUE ELSE IF i = 0 THEN FALSE ELSE try[i - 1]
    IN need[0] /\ try[grow[min_count]]

\* An atom with its quantifier, "1" for none, at the start of the text.
MatchAtom(takes, q, rest) ==
    CASE q \in {"*", "+"} -> match_repeat(takes, IF q = "+" THEN 1 ELSE 0, rest)
      [] q = "?" -> IF rest[0] THEN TRUE ELSE takes # <<>> /\ takes[1] /\ rest[1]
      [] OTHER -> takes # <<>> /\ takes[1] /\ rest[1]

QuantifierAt(p, i) == IF i <= Len(p) /\ p[i] \in Quantifiers THEN p[i] ELSE "1"

\* The pattern from i on at the text from j on.
match_here(p, t) ==
    LET here[i \in 1..Len(p) + 2, j \in 1..Len(t) + 1] ==
            IF i > Len(p) THEN TRUE
            ELSE IF p[i] = "$" /\ i = Len(p) THEN j > Len(t)
            ELSE \E atom \in {parse_atom(From(p, i))} :
                 /\ atom # NoAtom
                 /\ \E q \in {QuantifierAt(p, i + atom.len)} :
                    MatchAtom([k \in 1..Len(t) - j + 1 |-> atom_matches(atom, t[j + k - 1])], q,
                              [n \in 0..Len(t) - j + 1 |->
                                  here[i + atom.len + (IF q = "1" THEN 0 ELSE 1), j + n]])
    IN here[1, 1]

validate_pattern(p) ==
    LET start == IF p # <<>> /\ p[1] = "^" THEN 2 ELSE 1
        \* What is left is valid, when the item before it was an atom or not.
        valid[i \in start..Len(p) + 1, atom \in BOOLEAN] ==
            IF i > Len(p) \/ (p[i] = "$" /\ i = Len(p)) THEN TRUE
            ELSE IF p[i] \in Quantifiers THEN atom /\ valid[i + 1, FALSE]
            ELSE \E a \in {parse_atom(From(p, i))} : a # NoAtom /\ valid[i + a.len, TRUE]
    IN valid[start, FALSE]

\* Tried at every start of the text in turn, behind an anchor only at the first.
is_match(p, t) ==
    LET anchored == p # <<>> /\ p[1] = "^"
        from[idx \in 0..Len(t)] ==
            IF match_here(IF anchored THEN Tail(p) ELSE p, From(t, idx + 1)) THEN "match"
            ELSE IF anchored \/ idx >= Len(t) THEN "none" ELSE from[idx + 1]
    IN IF validate_pattern(p) THEN from[0] ELSE "error"

-----------------------------------------------------------------------------
(***************************************************************************)
(* What a pattern means, said of its parts and not of its text: whether it *)
(* is anchored at either end, and items, each with the bytes it stands     *)
(* for, how that is written, and its quantifier.                           *)
(***************************************************************************)
Written(e) ==
    (IF e.begin THEN <<"^">> ELSE <<>>)
    \o FlattenSeq([k \in 1..Len(e.items) |-> e.items[k].written \o e.items[k].quantifier])
    \o (IF e.end THEN <<"$">> ELSE <<>>)

Repetitions(quantifier, n) ==
    CASE quantifier = <<>> -> {1} [] quantifier = <<"?">> -> {0, 1}
      [] quantifier = <<"*">> -> 0..n [] quantifier = <<"+">> -> 1..n

\* Some cut points of the text give every item a piece it allows.
Meaning(e, t) ==
    \E cut \in [0..Len(e.items) -> 0..Len(t)] :
        /\ e.begin => cut[0] = 0
        /\ e.end => cut[Len(e.items)] = Len(t)
        /\ \A k \in 1..Len(e.items) :
            /\ cut[k] - cut[k - 1] \in Repetitions(e.items[k].quantifier, Len(t))
            /\ \A i \in cut[k - 1] + 1..cut[k] : t[i] \in e.items[k].bytes

-----------------------------------------------------------------------------
(***************************************************************************)
(* Texts.                                                                  *)
(***************************************************************************)
Digits == <<"0", "1", "2", "3", "4", "5", "6", "7", "8", "9">>
Decimal(n) ==
    LET digits[m \in 0..n] ==
            IF m < 10 THEN <<Digits[m + 1]>> ELSE Append(digits[m \div 10], Digits[(m % 10) + 1])
    IN digits[n]

Joined(words) ==
    FlattenSeq([k \in 1..Len(words) |-> IF k = 1 THEN words[k] ELSE <<" ">> \o words[k]])

\* The pieces between separators.
Split(text, separators) ==
    LET cuts == Ascending({i \in 1..Len(text) : text[i] \in separators} \cup {0, Len(text) + 1})
    IN [k \in 1..Len(cuts) - 1 |-> SubSeq(text, cuts[k] + 1, cuts[k + 1] - 1)]

\* str::lines: no empty line behind the last newline.
TextLines(text) ==
    LET pieces == Split(text, {"\n"})
    IN IF Last(pieces) = <<>> THEN Front(pieces) ELSE pieces

split_whitespace(text) ==
    SelectSeq(Split(text, Blanks \cup {"\n"}), LAMBDA word : word # <<>>)

HasPart(text, part) ==
    \E i \in 0..Len(text) - Len(part) : SubSeq(text, i + 1, i + Len(part)) = part

\* str::split_once at the first '='; none without one.
EqualSigns(word) == {i \in 1..Len(word) : word[i] = "="}
KeyOf(word) == SubSeq(word, 1, Min(EqualSigns(word)) - 1)
ValueOf(word) == From(word, Min(EqualSigns(word)) + 1)
is_env_assignment(word) == EqualSigns(word) # {} /\ word[1] # "="

\* A path below the working directory, which is "/".
resolve_shell_path(path) == IF path # <<>> /\ path[1] = "/" THEN path ELSE <<"/">> \o path

-----------------------------------------------------------------------------
(***************************************************************************)
(* The session.                                                            *)
(***************************************************************************)
With(map, key, value) == (key :> value) @@ map
Without(map, key) == [k \in DOMAIN map \ {key} |-> map[k]]

\* An optional text is a sequence of at most one.
env_get(c, key) == IF key \in DOMAIN c.env THEN <<c.env[key]>> ELSE <<>>
env_put(c, key, value) ==
    [c EXCEPT !.env = IF value = <<>> THEN Without(@, key) ELSE With(@, key, value[1])]

push_history(c, line) ==
    LET longer == IF line = <<>> THEN c.history ELSE Append(c.history, line)
    IN [c EXCEPT !.history = From(longer, 1 + IF Len(longer) > MaxHistory
                                              THEN Len(longer) - MaxHistory ELSE 0)]

KeyChars == {"a", "b", "c", "e", "f", "H", "I", "X", "_"} \cup ToSet(Digits)

\* $?, $key and ${key}; a '$' before anything else stays.
expand_vars(c, input) ==
    LET n == Len(input)
        \* The end of the key that starts at j.
        KeyEnd(j, inKey) == Min({i \in j..n + 1 : i = n + 1 \/ ~inKey[input[i]]})
        Plain == [ch \in ToSet(input) |-> ch \in KeyChars]
        Braced == [ch \in ToSet(input) |-> ch # "}"]
        out[i \in 1..n + 2] ==
            IF i > n THEN <<>>
            ELSE IF input[i] # "$" THEN <<input[i]>> \o out[i + 1]
            ELSE IF i = n THEN <<"$">>
            ELSE IF input[i + 1] = "?" THEN Decimal(c.last) \o out[i + 2]
            ELSE LET braced == input[i + 1] = "{"
                     first == IF braced THEN i + 2 ELSE i + 1
                 IN CHOOSE r \in
                        {IF end = first THEN <<"$">> \o out[i + 1]
                         ELSE FlattenSeq(env_get(c, SubSeq(input, first, end - 1)))
                              \o out[IF braced /\ end <= n THEN end + 1 ELSE end] :
                            end \in {KeyEnd(first, IF braced THEN Braced ELSE Plain)}} : TRUE
    IN out[1]

\* At most eight rounds of aliases, their arguments in front of the given ones.
expand_alias_and_env(c, cmd) ==
    LET Words(name) == IF name \in DOMAIN c.aliases THEN split_whitespace(c.aliases[name]) ELSE <<>>
        round[i \in 0..8] ==
            IF i = 0 THEN [name |-> cmd.command, args |-> <<>>]
            ELSE CHOOSE r \in {LET words == Words(p.name)
                               IN IF words = <<>> THEN p
                                  ELSE [name |-> words[1], args |-> p.args \o Tail(words)] :
                               p \in {round[i - 1]}} : TRUE
        Expanded(full) == [k \in 1..Len(full) |-> expand_vars(c, full[k])]
        Made(words, paths) ==
            [command |-> words[1], args |-> Tail(words),
             redirections |-> [k \in 1..Len(cmd.redirections) |->
                                  [cmd.redirections[k] EXCEPT !.path = paths[k]]]]
        n == Len(cmd.redirections)
        \* Names, arguments and paths are expanded alike.
        all == CHOOSE r \in {Expanded([k \in 1..n |-> cmd.redirections[k].path]
                                      \o <<alias.name>> \o alias.args \o cmd.args) :
                                alias \in {round[8]}} : TRUE
    IN CHOOSE r \in {Made(From(words, n + 1), words) : words \in {all}} : TRUE

-----------------------------------------------------------------------------
(***************************************************************************)
(* The commands.  A result is the session, the text printed, and whether   *)
(* the handler returned Err.                                               *)
(***************************************************************************)
Did(c, out) == [ctx |-> c, out |-> out, err |-> FALSE]
Failed(c, out) == [ctx |-> c, out |-> out, err |-> TRUE]

cmd_echo(c, args) ==
    IF args # <<>> THEN Did(c, Joined(args) \o Newline)
    ELSE Did(c, IF env_get(c, STDIN) = <<>> THEN <<>> ELSE c.env[STDIN] \o Newline)

\* The lines of the input that match, up to the first the pattern is refused at.
cmd_grep(c, args) ==
    LET literal == Len(args) > 1 /\ args[1] = <<"-", "F">>
        pattern == IF literal THEN args[2] ELSE args[1]
        input == TextLines(c.env[STDIN])
        Matches(line) == IF literal THEN HasPart(line, pattern) ELSE is_match(pattern, line) = "match"
        matched == SelectSeq(input, Matches)
    IN IF args = <<>> \/ STDIN \notin DOMAIN c.env THEN Failed(c, <<>>)
       ELSE IF ~literal /\ input # <<>> /\ ~validate_pattern(pattern) THEN Failed(c, <<>>)
       ELSE Did(c, FlattenSeq([k \in 1..Len(matched) |-> matched[k] \o Newline]))

\* The program /bin/h prints its arguments and how many variables it got; the
\* program /bin/f fails.  -1 is a program that is not found.
exec(program, args, env) ==
    CASE program = <<"h">> -> [out |-> Joined(args) \o Decimal(Cardinality(DOMAIN env)) \o Newline,
                               code |-> 0]
      [] program = <<"f">> -> [out |-> <<>>, code |-> 127]
      [] OTHER -> [out |-> <<>>, code |-> -1]

ExitLine(code) == IF code = 0 THEN <<>> ELSE Decimal(code) \o Newline

\* The assignments in front of the program are its alone.
cmd_exec(c, args) ==
    LET idx == Min({i \in 1..Len(args) + 1 : i > Len(args) \/ ~is_env_assignment(args[i])})
        overlay[i \in 0..Len(args)] ==
            IF i = 0 THEN c.env ELSE With(overlay[i - 1], KeyOf(args[i]), ValueOf(args[i]))
        ran == exec(args[idx], From(args, idx + 1), overlay[idx - 1])
    IN IF idx > Len(args) THEN Failed(c, <<>>)
       ELSE IF ran.code = -1 THEN Failed(c, <<>>)
       ELSE Did([c EXCEPT !.last = ran.code], ran.out \o ExitLine(ran.code))

\* The aliases are listed without arguments; an alias is set from "n=v" or from
\* a name and words.
cmd_alias(c, args) ==
    IF args = <<>>
    THEN \* cmd_aliases
         LET names == SetToSeq(DOMAIN c.aliases)
         IN Did(c, FlattenSeq([k \in DOMAIN names |->
                       names[k] \o <<"=">> \o c.aliases[names[k]] \o Newline]))
    ELSE IF EqualSigns(args[1]) # {}
    THEN IF args[1][1] = "=" THEN Failed(c, <<>>)
         ELSE Did([c EXCEPT !.aliases = With(@, KeyOf(args[1]), ValueOf(args[1]))], <<>>)
    ELSE IF Len(args) < 2 THEN Failed(c, <<>>)
    ELSE Did([c EXCEPT !.aliases = With(@, args[1], Joined(Tail(args)))], <<>>)

Handler(name, c, args) ==
    CASE name = "echo" -> cmd_echo(c, args)
      [] name = "grep" -> cmd_grep(c, args)
      [] name = "setenv" -> IF Len(args) < 2 THEN Failed(c, <<>>)
                            ELSE Did(env_put(c, args[1], <<args[2]>>), <<>>)
      [] name = "unsetenv" -> IF args = <<>> THEN Failed(c, <<>>) ELSE Did(env_put(c, args[1], <<>>), <<>>)
      [] name = "alias" -> cmd_alias(c, args)
      [] name = "unalias" -> IF args = <<>> THEN Failed(c, <<>>)
                             ELSE Did([c EXCEPT !.aliases = Without(@, args[1])], <<>>)
      [] name = "status" -> Did(c, Decimal(c.last) \o Newline)
      [] name = "exec" -> cmd_exec(c, args)
      [] name = "exit" -> Did([c EXCEPT !.running = FALSE], <<>>)
      [] name = "clear" -> Did(c, <<>>)

\* The command of the registry or the program of that name: the exit code, and
\* the session with the code of a program.
Executed(c, cmd, suppress) ==
    IF cmd.command \in DOMAIN Registry
    THEN CHOOSE r \in {[ctx |-> d.ctx, out |-> d.out, err |-> d.err, code |-> IF d.err THEN 1 ELSE 0] :
                          d \in {Handler(Registry[cmd.command], c, cmd.args)}} : TRUE
    ELSE LET ran == exec(cmd.command, cmd.args, c.env)
         IN IF ran.code = -1
            THEN [ctx |-> c, out |-> IF suppress THEN <<>> ELSE cmd.command \o Newline,
                  err |-> FALSE, code |-> 127]
            ELSE [ctx |-> [c EXCEPT !.last = ran.code],
                  out |-> ran.out \o IF suppress THEN <<>> ELSE ExitLine(ran.code),
                  err |-> FALSE, code |-> ran.code]
=============================================================================
