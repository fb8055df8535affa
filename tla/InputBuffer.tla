---------------------------- MODULE InputBuffer ----------------------------
(***************************************************************************)
(* The line editor of console/input.rs: a line of characters, a cursor and *)
(* a bounded history.  Every method is an operator from a buffer to a      *)
(* buffer; one that returns a bool returns TRUE when its result differs    *)
(* from its argument.                                                      *)
(***************************************************************************)
EXTENDS Integers, Sequences, SequencesExt, FiniteSets

CONSTANTS LineCapacity,     \* characters of a line, and bytes of a rendered one
          HistoryCapacity   \* lines the history keeps

ASSUME CapacitiesArePositive ==
    /\ LineCapacity \in Nat \ {0}
    /\ HistoryCapacity \in Nat \ {0}

\* No history entry is being shown (history_index is None).
NoIndex == 0

\* A character is a string.  "e'" stands for the characters of two bytes and
\* one cell, "W" for those of three bytes and two cells.
Utf8Len(c) == IF c = "W" THEN 3 ELSE IF c = "e'" THEN 2 ELSE 1
IsWhitespace(c) == c = " "

NewBuffer == [line |-> <<>>, cursor |-> 0, history |-> <<>>,
              index |-> NoIndex, stash |-> <<>>]

\* A rendered line holds LineCapacity bytes; a character that no longer fits
\* is left out, later ones are still tried.
render(b) ==
    LET bytes[n \in 0..Len(b.line)] ==
            IF n = 0 THEN <<0, <<>>>>
            ELSE CHOOSE r \in {LET c == b.line[n] IN
                                 IF p[1] + Utf8Len(c) <= LineCapacity
                                 THEN <<p[1] + Utf8Len(c), Append(p[2], c)>>
                                 ELSE p : p \in {bytes[n - 1]}} : TRUE
    IN bytes[Len(b.line)][2]

insert(b, c) ==
    IF Len(b.line) = LineCapacity THEN b
    ELSE [b EXCEPT !.line = InsertAt(@, b.cursor + 1, c), !.cursor = @ + 1]

backspace(b) ==
    IF b.cursor = 0 THEN b
    ELSE [b EXCEPT !.line = RemoveAt(@, b.cursor), !.cursor = @ - 1]

delete(b) ==
    IF b.cursor >= Len(b.line) THEN b
    ELSE [b EXCEPT !.line = RemoveAt(@, b.cursor + 1)]

move_left(b) == IF b.cursor = 0 THEN b ELSE [b EXCEPT !.cursor = @ - 1]
move_right(b) ==
    IF b.cursor >= Len(b.line) THEN b ELSE [b EXCEPT !.cursor = @ + 1]
move_home(b) == [b EXCEPT !.cursor = 0]
move_end(b) == [b EXCEPT !.cursor = Len(b.line)]

\* The start of the word before position p: a position whose left neighbour
\* is a blank or the edge, with something else than blanks up to p.
PrevWord(line, p) ==
    LET starts == {s \in 0..p : /\ s = 0 \/ IsWhitespace(line[s])
                                /\ \E i \in s + 1..p : ~IsWhitespace(line[i])}
    IN IF starts = {} THEN 0 ELSE CHOOSE s \in starts : \A t \in starts : t <= s

\* The first non-blank behind a blank behind position p, or the end.
NextWord(line, p) ==
    LET stops == {s \in p..Len(line) :
                    /\ s = Len(line) \/ ~IsWhitespace(line[s + 1])
                    /\ s = Len(line) \/ \E i \in p + 1..s : IsWhitespace(line[i])}
    IN CHOOSE s \in stops : \A t \in stops : s <= t

move_prev_word(b) == [b EXCEPT !.cursor = PrevWord(b.line, @)]
move_next_word(b) == [b EXCEPT !.cursor = NextWord(b.line, @)]

delete_prev_word(b) ==
    LET start == PrevWord(b.line, b.cursor) IN
    [b EXCEPT !.line = SubSeq(@, 1, start) \o SubSeq(@, b.cursor + 1, Len(@)),
              !.cursor = start]

clear_to_start(b) ==
    [b EXCEPT !.line = SubSeq(@, b.cursor + 1, Len(@)), !.cursor = 0]
clear_to_end(b) == [b EXCEPT !.line = SubSeq(@, 1, b.cursor)]

set_line(b, text) ==
    LET kept == SubSeq(text, 1, IF Len(text) < LineCapacity THEN Len(text)
                                ELSE LineCapacity)
    IN [b EXCEPT !.line = kept, !.cursor = Len(kept)]

clear(b) == [b EXCEPT !.line = <<>>, !.cursor = 0, !.index = NoIndex, !.stash = <<>>]

\* Mutant: the second press of Up overwrites the kept line.
history_prev_restash(b) ==
    IF b.history = <<>> THEN b
    ELSE LET i == IF b.index = NoIndex THEN Len(b.history)
                  ELSE IF b.index > 1 THEN b.index - 1 ELSE 1
         IN set_line([b EXCEPT !.stash = render(b), !.index = i], b.history[i])

\* Up: the first press keeps the line being typed; the console then shows
\* the entry with set_line.
history_prev(b) ==
    IF b.history = <<>> THEN b
    ELSE LET i == IF b.index = NoIndex THEN Len(b.history)
                  ELSE IF b.index > 1 THEN b.index - 1 ELSE 1
         IN set_line([b EXCEPT !.stash = IF b.index = NoIndex THEN render(b) ELSE @,
                               !.index = i], b.history[i])

history_next(b) ==
    IF b.index = NoIndex THEN b
    ELSE IF b.index < Len(b.history)
         THEN set_line([b EXCEPT !.index = @ + 1], b.history[b.index + 1])
         ELSE set_line([b EXCEPT !.index = NoIndex], b.stash)

submit(b) ==
    LET line == render(b)
        room == IF Len(b.history) = HistoryCapacity THEN Tail(b.history) ELSE b.history
    IN [NewBuffer EXCEPT !.history = IF line = <<>> THEN b.history ELSE Append(room, line)]

-----------------------------------------------------------------------------
(***************************************************************************)
(* Tab completion, shell/mod.rs: the word left of the cursor is completed  *)
(* from the names of commands and aliases when it is the first, from the   *)
(* names of a directory otherwise.  Texts are sequences of characters.     *)
(***************************************************************************)
CONSTANTS CommandNames,     \* what update_completion_snapshot stored
          EntryNames        \* what saifs::list answers for the directory

NoCompletion == <<"none">>
Panic == <<"panic">>

\* The one name that starts with the word, if there is exactly one.
OnlyMatch(names, word) ==
    LET matches == {n \in names : IsPrefix(word, n)} IN
    IF Cardinality(matches) = 1 THEN CHOOSE n \in matches : TRUE ELSE NoCompletion

complete_command_token(word) == OnlyMatch(CommandNames, word)

\* A word with a slash is split at the last one: the directory is listed, and
\* put back in front of the completed name.
complete_path_token(word) ==
    LET slashes == {i \in 1..Len(word) : word[i] = "/"}
        last == CHOOSE i \in slashes : \A j \in slashes : j <= i
        dir == IF last = 1 THEN <<"/">> ELSE SubSeq(word, 1, last - 1)
        found == OnlyMatch(EntryNames, IF slashes = {} THEN word
                                       ELSE SubSeq(word, last + 1, Len(word)))
    IN IF found = NoCompletion \/ slashes = {} THEN found
       ELSE IF dir = <<"/">> THEN dir \o found ELSE dir \o <<"/">> \o found

\* The bytes of the first n characters.
Bytes(line, n) == FoldLeft(+, 0, [i \in 1..n |-> Utf8Len(line[i])])

\* The console passes a position in characters and the line is cut there in
\* bytes: inside a character the cut panics.
complete_for_console(line, position) ==
    LET at == IF position < Bytes(line, Len(line)) THEN position ELSE Bytes(line, Len(line))
        cuts == {n \in 0..Len(line) : Bytes(line, n) = at}
        cursor == CHOOSE n \in cuts : TRUE
        blanks == {i \in 1..cursor : IsWhitespace(line[i])}
        start == IF blanks = {} THEN 0 ELSE CHOOSE i \in blanks : \A j \in blanks : j <= i
        word == SubSeq(line, start + 1, cursor)
        first == \A i \in 1..start : IsWhitespace(line[i])
        found == IF first THEN complete_command_token(word) ELSE complete_path_token(word)
    IN IF cuts = {} THEN Panic
       ELSE IF word = <<>> \/ found = NoCompletion THEN NoCompletion
       ELSE SubSeq(line, 1, start) \o found \o (IF first THEN <<" ">> ELSE <<>>)
                \o SubSeq(line, cursor + 1, Len(line))
=============================================================================
