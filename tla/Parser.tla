------------------------------- MODULE Parser -------------------------------
(***************************************************************************)
(* The parser of the shell, shell/parser.rs: a line is cut into statements *)
(* at control operators, a statement into commands at pipes, a command     *)
(* into words.  A line is a sequence of characters; "sq" and "dq" stand    *)
(* for the two quote characters.                                           *)
(***************************************************************************)
EXTENDS Integers, Sequences, SequencesExt, FiniteSets

Blanks == {" ", "\t"}

\* A set of positions in their order.
Ascending(S) ==
    LET first == Min(S \cup {0})
        all == [k \in 1..Max(S \cup {0}) - first + 1 |-> first + k - 1]
    IN SelectSeq(all, LAMBDA i : i \in S)

trim(s) ==
    LET kept == {i \in 1..Len(s) : s[i] \notin Blanks}
    IN IF kept = {} THEN <<>> ELSE SubSeq(s, Min(kept), Max(kept))

\* Mutant: a quote character of the other kind also ends the quoting.
Toggled_by_any(q, ch) ==
    IF ch \notin {"sq", "dq"} THEN q
    ELSE IF q # "none" THEN "none" ELSE IF ch = "sq" THEN "single" ELSE "double"

\* in_single and in_double behind a character: "none", "single" or "double".
Toggled(q, ch) ==
    CASE ch = "sq" /\ q # "double" -> IF q = "single" THEN "none" ELSE "single"
      [] ch = "dq" /\ q # "single" -> IF q = "double" THEN "none" ELSE "double"
      [] OTHER -> q

\* The quoting in force before each position of s, and behind the last one.
Quoting(s) ==
    LET q[i \in 1..Len(s) + 1] == IF i = 1 THEN "none" ELSE Toggled(q[i - 1], s[i - 1])
    IN q

\* The operator an unquoted position of s starts, and the characters it takes.
OperatorAt(s, i) ==
    LET twice == i < Len(s) /\ s[i + 1] = s[i]
    IN CASE s[i] = "&" -> IF twice THEN <<"AndAnd", 2>> ELSE <<"Background", 1>>
         [] s[i] = "|" /\ twice -> <<"OrOr", 2>>
         [] s[i] = ";" -> <<"Sequential", 1>>
         [] OTHER -> <<"none", 1>>

\* Each statement with the operator in front of it; empty ones are left out.
split_statements(line) ==
    LET quoting == Quoting(line)
        Part(start, i, pending) ==
            LET part == trim(SubSeq(line, start, i - 1))
            IN IF part = <<>> THEN <<>> ELSE <<[text |-> part, operator |-> pending]>>
        \* What is read from idx on, when the statement began at start.
        rest[idx \in 1..Len(line) + 2, start \in 1..Len(line) + 2,
             pending \in {"Sequential", "AndAnd", "OrOr", "Background"}] ==
            IF idx > Len(line) THEN Part(start, Len(line) + 1, pending)
            ELSE LET op == IF quoting[idx] = "none" THEN OperatorAt(line, idx) ELSE <<"none", 1>>
                     next == idx + op[2]
                 IN IF op[1] = "none" THEN rest[next, start, pending]
                    ELSE Part(start, idx, pending) \o rest[next, next, op[1]]
    IN rest[1, 1, "Sequential"]

\* The non-empty stages between unquoted pipes.
split_pipeline(statement) ==
    LET quoting == Quoting(statement)
        bars == {i \in 1..Len(statement) : statement[i] = "|" /\ quoting[i] = "none"}
        cuts == Ascending(bars \cup {0, Len(statement) + 1})
        stages == [k \in 1..Len(cuts) - 1 |->
                      trim(SubSeq(statement, cuts[k] + 1, cuts[k + 1] - 1))]
    IN SelectSeq(stages, LAMBDA stage : stage # <<>>)

\* Words without their quote characters; an unquoted redirection operator is a
\* word of its own.
tokenize(part) ==
    LET quoting == Quoting(part)
        Flushed(current) == IF current = <<>> THEN <<>> ELSE <<current>>
        rest[i \in 1..Len(part) + 2, current \in Seq(STRING)] ==
            IF i > Len(part) THEN Flushed(current)
            ELSE LET ch == part[i]
                     plain == quoting[i] = "none"
                     double == ch = ">" /\ i < Len(part) /\ part[i + 1] = ">"
                 IN IF Toggled(quoting[i], ch) # quoting[i] THEN rest[i + 1, current]
                    ELSE IF plain /\ ch \in Blanks THEN Flushed(current) \o rest[i + 1, <<>>]
                    ELSE IF plain /\ double
                    THEN Flushed(current) \o <<<<">", ">">>>> \o rest[i + 2, <<>>]
                    ELSE IF plain /\ ch \in {">", "<"}
                    THEN Flushed(current) \o <<<<ch>>>> \o rest[i + 1, <<>>]
                    ELSE rest[i + 1, Append(current, ch)]
    IN rest[1, <<>>]

\* RedirectKind of a word.
RedirectKind(token) ==
    CASE token = <<">">> -> "Write" [] token = <<">", ">">> -> "Append"
      [] token = <<"<">> -> "Read" [] OTHER -> "none"

\* At most one command: a word behind a redirection operator is its path, the
\* first other word the command.  An operator without a path, and a stage
\* without a command, is dropped with all of its words.
CommandOf(tokens) ==
    LET \* Whether a word is taken as the path of the operator before it.
        path[i \in 1..Len(tokens) + 1] ==
            i > 1 /\ RedirectKind(tokens[i - 1]) # "none" /\ ~path[i - 1]
        Made(words, operators) ==
            [command |-> tokens[words[1]],
             args |-> [k \in 1..Len(words) - 1 |-> tokens[words[k + 1]]],
             redirections |-> [k \in 1..Len(operators) |->
                                  [kind |-> RedirectKind(tokens[operators[k]]),
                                   path |-> tokens[operators[k] + 1]]]]
        own == {i \in 1..Len(tokens) : ~path[i]}
        words == {i \in own : RedirectKind(tokens[i]) = "none"}
    IN IF words = {} \/ path[Len(tokens) + 1] THEN <<>>
       ELSE <<Made(Ascending(words), Ascending(own \ words))>>

parse_command(part) == CHOOSE r \in {CommandOf(tokens) : tokens \in {tokenize(part)}} : TRUE

\* The commands of a statement.
CommandsOf(stages) == FlattenSeq([k \in 1..Len(stages) |-> parse_command(stages[k])])

parse_line(line) ==
    LET Statement(part) ==
            [commands |-> CHOOSE r \in {CommandsOf(stages) : stages \in {split_pipeline(part.text)}} : TRUE,
             operator |-> part.operator]
        Statements(parts) == [k \in 1..Len(parts) |-> Statement(parts[k])]
    IN SelectSeq(CHOOSE r \in {Statements(parts) : parts \in {split_statements(line)}} : TRUE,
                 LAMBDA statement : statement.commands # <<>>)

-----------------------------------------------------------------------------
(***************************************************************************)
(* What a line says, read without cutting it up.  Every position has a     *)
(* role: a quote mark that opens or closes, an unquoted bar between        *)
(* commands, gap between words or redirection arrow, or else text.  Marks  *)
(* and text that touch are one word; ">>" is one arrow.                    *)
(***************************************************************************)
\* The mark that is open before position i.
Open(line, i) ==
    LET open[k \in 0..i - 1] ==
            IF k = 0 THEN "none"
            ELSE IF line[k] \notin {"sq", "dq"} THEN open[k - 1]
            ELSE LET before == open[k - 1]
                 IN IF before = "none" THEN line[k] ELSE IF before = line[k] THEN "none" ELSE before
    IN open[i - 1]

Role(ch, open) ==
    CASE ch \in {"sq", "dq"} /\ open \in {"none", ch} -> "mark"
      [] open = "none" /\ ch \in {"|", "&", ";"} -> "bar"
      [] open = "none" /\ ch \in Blanks -> "gap"
      [] open = "none" /\ ch \in {">", "<"} -> "arrow"
      [] OTHER -> "text"
Roles(line) == [i \in 1..Len(line) |-> Role(line[i], Open(line, i))]

\* The last position of the word or arrow that starts at i, 0 if none does.
WordEnd(line, roles, i) ==
    LET Inside(k) == k \in 1..Len(line) /\ roles[k] \in {"text", "mark"}
        Arrow(k) == k \in 1..Len(line) /\ roles[k] = "arrow"
        before == Cardinality({k \in 1..i - 1 : \A j \in k..i : Arrow(j) /\ line[j] = ">"})
    IN CASE Inside(i) -> IF Inside(i - 1) THEN 0
                         ELSE Max({k \in i..Len(line) : \A j \in i..k : Inside(j)})
         [] Arrow(i) /\ line[i] = "<" -> i
         [] Arrow(i) /\ line[i] = ">" ->
                IF before % 2 = 1 THEN 0 ELSE IF Arrow(i + 1) /\ line[i + 1] = ">" THEN i + 1 ELSE i
         [] OTHER -> 0

\* The words between two positions: their text, whether they are arrows, and
\* whether quote marks belong to them.
WordsIn(line, roles, from, to) ==
    LET starts == Ascending({i \in from..to : WordEnd(line, roles, i) # 0})
        Word(i, end) == [text |-> [k \in 1..Cardinality({j \in i..end : roles[j] # "mark"}) |->
                                      line[Ascending({j \in i..end : roles[j] # "mark"})[k]]],
                         arrow |-> roles[i] = "arrow",
                         quoted |-> \E j \in i..end : roles[j] = "mark"]
    IN [k \in 1..Len(starts) |-> Word(starts[k], WordEnd(line, roles, starts[k]))]

\* The words of the commands of a line, a sequence for every piece between bars.
WordsOf(line) ==
    LET Cut(roles, bars) == [k \in 1..Len(bars) - 1 |-> WordsIn(line, roles, bars[k] + 1, bars[k + 1] - 1)]
    IN CHOOSE r \in {Cut(roles, Ascending({i \in 1..Len(line) : roles[i] = "bar"} \cup {0, Len(line) + 1})) :
                        roles \in {Roles(line)}} : TRUE

\* A word the quotes of which the parser forgets: an empty one, and one that
\* spells an arrow.
Forgotten(word) ==
    word.quoted /\ word.text \in {<<>>, <<">">>, <<">", ">">>, <<"<">>}

\* What the words of a piece ask for: the word behind an arrow is its path, the
\* first other word the command.  None of it when a path or the command is missing.
Asked(words) ==
    LET isPath[k \in 1..Len(words) + 1] == k > 1 /\ words[k - 1].arrow /\ ~isPath[k - 1]
        said == SelectSeq([k \in 1..Len(words) |-> [k |-> k, text |-> words[k].text]],
                          LAMBDA w : ~isPath[w.k] /\ ~words[w.k].arrow)
        arrows == Ascending({k \in 1..Len(words) : words[k].arrow /\ ~isPath[k]})
    IN IF said = <<>> \/ isPath[Len(words) + 1] THEN <<>>
       ELSE <<[command |-> said[1].text, args |-> [k \in 1..Len(said) - 1 |-> said[k + 1].text],
               arrows |-> [k \in 1..Len(arrows) |->
                              [arrow |-> words[arrows[k]].text, path |-> words[arrows[k] + 1].text]]]>>
=============================================================================
