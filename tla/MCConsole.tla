----------------------------- MODULE MCConsole -----------------------------
(***************************************************************************)
(* Sessions of the console: what each one can type, send and print.        *)
(***************************************************************************)
EXTENDS Console

MCPrompt == <<">">>
MCCommands == {<<"a", "b">>}
MCEntries == {<<"a">>}

Quiet == [present |-> TRUE, keyboard |-> TRUE, mouse |-> NoByte, display |-> FALSE,
          keys |-> {}, packets |-> {}, reports |-> {}, mice |-> {}, strokes |-> {},
          tokens |-> {}, texts |-> {}, ticks |-> FALSE]

Token(bytes, event) == [bytes |-> bytes, event |-> event]
Wheel == Token(<<8, 0, 0, 1>>, <<"Wheel", 1>>)
Drag == Token(<<12 + 32, 0, 255, 0>>, <<"Move", 0, 1, TRUE>>)
Rest4 == Token(<<8, 0, 0, 0>>, NoEvent)
Stray == Token(<<0>>, NoEvent)

MCSessions ==
    [shifts |-> [Quiet EXCEPT !.keys = {"left", "shift", "rshift"}],
     ctrl |-> [Quiet EXCEPT !.keys = {"left", "ctrl"}],
     caps |-> [Quiet EXCEPT !.keys = {"a", "caps"}],
     one |-> [Quiet EXCEPT !.keys = {"one", "caps"}],
     wheel |-> [Quiet EXCEPT !.mouse = 3, !.keys = {"left"}, !.packets = {Wheel, Drag, Rest4, Stray}],
     plain |-> [Quiet EXCEPT !.mouse = 0, !.keys = {"left"},
                             !.packets = {Token(<<8, 1, 0>>, <<"Move", 1, 0, FALSE>>), Stray}],
     usb |-> [Quiet EXCEPT !.keyboard = FALSE,
                           !.reports = {<<m, 0, k, l, 0, 0, 0, 0>> : m \in {0, 2}, k \in {0, 4},
                                            l \in {0, 80}} \cup {<<0, 0, 4>>}],
     absent |-> [Quiet EXCEPT !.present = FALSE, !.keyboard = FALSE, !.display = TRUE,
                              !.strokes = {<<0, 4>>}, !.texts = {<<"x", "\n">>}],
     serial |-> [Quiet EXCEPT !.tokens = {Token(<<97>>, Character("a")), Token(<<9>>, <<"Tab">>),
                     Token(<<195, 169>>, Character("e'"))}],
     escapes |-> [Quiet EXCEPT !.tokens = {Token(<<97>>, Character("a")), Token(<<NoByte>>, NoEvent),
                     Token(<<27, 91, 49, 59, 53, 68>>, <<"ArrowLeft", "Ctrl">>),
                     Token(<<27, 79, 72>>, <<"Home">>), Token(<<27, 91, 51, 126>>, <<"Delete">>)}],
     mixed |-> [Quiet EXCEPT !.keys = {"a"}, !.strokes = {<<0, 4>>},
                             !.tokens = {Token(<<97>>, Character("a"))}],
     edit |-> [Quiet EXCEPT !.strokes =
                    {<<0, u>> : u \in {4, 44, 42, 43, 74, 76, 77, 80, 79}}
                        \cup {<<1, u>> : u \in {4, 6, 7, 8, 14, 15, 24, 26}}],
     history |-> [Quiet EXCEPT !.strokes = {<<0, u>> : u \in {4, 40, 42, 82, 81}}],
     typing |-> [Quiet EXCEPT !.display = TRUE, !.ticks = TRUE,
                              !.strokes = {<<0, 4>>, <<0, 42>>, <<0, 80>>}],
     breaks |-> [Quiet EXCEPT !.display = TRUE, !.ticks = TRUE, !.texts = {<<"x", "\n">>},
                              !.mice = {<<0, 0, 0, 1>>}],
     output |-> [Quiet EXCEPT !.display = TRUE, !.texts = {<<"x", "\n">>, <<"y">>},
                              !.mice = {<<0, 0, 0, 1>>, <<4, 0, 1>>}]]
=============================================================================
