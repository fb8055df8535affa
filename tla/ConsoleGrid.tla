---------------------------- MODULE ConsoleGrid ----------------------------
(***************************************************************************)
(* The console of console/mod.rs: the grid of characters, its cursor and   *)
(* the framebuffer behind it, and what a key event does to the input line  *)
(* and to the display.  The serial half of MirrorConsole is a stream of    *)
(* bytes that nothing reads back and is left out; so is redraw, which is   *)
(* reached only while no framebuffer is attached.                          *)
(***************************************************************************)
EXTENDS InputBuffer, FramebufferConsole

CONSTANTS DefaultWidth, DefaultHeight,
          BlinkDivisor,
          Prompt            \* what SessionPromptProvider renders

ASSUME ConsoleHasCells ==
    /\ DefaultWidth \in Nat \ {0}
    /\ DefaultHeight \in Nat \ {0}
    /\ BlinkDivisor \in Nat \ {0}

Erase == "backspace"

\* Console::new, with the first clear of init.
ConsoleOff == [x |-> 0, y |-> 0, width |-> DefaultWidth, height |-> DefaultHeight,
               counter |-> 0, fb |-> FramebufferOff,
               grid |-> [y \in 1..DefaultHeight |-> [x \in 1..DefaultWidth |-> Blank]]]

sync_cursor(c) == [c EXCEPT !.counter = 0, !.fb = fb_set_cursor(@, c.x, c.y)]

\* The row scrolled out at the top is lost to the grid.
scroll(c) ==
    [c EXCEPT !.grid = Append(Tail(@), [x \in 1..c.width |-> Blank]),
              !.fb = fb_set_cursor(fb_scroll_up(@), c.x, c.y)]

newline(c) ==
    LET below == [c EXCEPT !.fb = fb_put_char(@, "\n"), !.x = 0, !.y = @ + 1] IN
    sync_cursor(IF below.y >= c.height
                THEN [scroll(below) EXCEPT !.y = c.height - 1] ELSE below)

\* put_char_inner of a printable character.
PutCell(c, ch, sync, emit) ==
    LET put == [c EXCEPT !.grid[c.y + 1][c.x + 1] = ch, !.x = @ + 1,
                         !.fb = IF emit THEN fb_put_char(@, ch) ELSE @]
    IN IF put.x >= c.width THEN newline(put)
       ELSE IF sync THEN sync_cursor(put) ELSE put

\* Mutant: erasing forgets the cell.
Erased_cell_stays(c, sync, emit) ==
    IF c.x = 0 THEN c
    ELSE LET left == [c EXCEPT !.x = @ - 1, !.fb = IF emit THEN fb_put_char(@, Blank) ELSE @]
         IN IF sync THEN sync_cursor(left) ELSE left

\* put_char_inner of a backspace: the cell left of the cursor is blanked, and
\* the framebuffer is given a blank where its own cursor still is.
Erased(c, sync, emit) ==
    IF c.x = 0 THEN c
    ELSE LET left == [c EXCEPT !.x = @ - 1, !.grid[c.y + 1][c.x] = Blank,
                               !.fb = IF emit THEN fb_put_char(@, Blank) ELSE @]
         IN IF sync THEN sync_cursor(left) ELSE left

put_char_inner(c, ch, sync, emit) ==
    LET count == IF ch = "\t" THEN TabWidth - (c.x % TabWidth) ELSE 1
        cells[n \in 0..TabWidth] ==
            IF n = 0 THEN c
            ELSE PutCell(cells[n - 1], IF ch = "\t" THEN Blank ELSE ch, sync, emit)
    IN CASE ch = "\n" -> newline(c)
         [] ch = "\r" -> IF sync THEN sync_cursor([c EXCEPT !.x = 0]) ELSE [c EXCEPT !.x = 0]
         [] ch = Erase -> Erased(c, sync, emit)
         [] OTHER -> cells[count]

PutAll(c, s, sync, emit) ==
    LET after[n \in 0..Len(s)] ==
            IF n = 0 THEN c
            ELSE CHOOSE d \in {put_char_inner(e, s[n], sync, emit) : e \in {after[n - 1]}} : TRUE
    IN after[Len(s)]

\* write_str moves the grid on first and then hands the whole string on.
write_str(c, s) ==
    CHOOSE d \in {sync_cursor([e EXCEPT !.fb = fb_put_str(@, s)])
                    : e \in {PutAll(c, s, FALSE, FALSE)}} : TRUE

clear_console(c) ==
    [c EXCEPT !.grid = [y \in 1..c.height |-> [x \in 1..c.width |-> Blank]],
              !.x = 0, !.y = 0, !.fb = fb_set_cursor(fb_clear(@), 0, 0)]

\* attach_framebuffer: the grid takes the size of the display.
attach_framebuffer(c) ==
    clear_console([c EXCEPT !.fb = attach(@), !.width = Columns, !.height = Rows])

\* move_cursor_left and move_cursor_right, n times each.
LeftBy(c, n) ==
    LET x == Minus(c.x, n) IN IF x = c.x THEN c ELSE sync_cursor([c EXCEPT !.x = x])
RightBy(c, n) ==
    LET x == AtMost(c.x + n, c.width - 1)
    IN IF x = c.x THEN c ELSE sync_cursor([c EXCEPT !.x = x])

\* on_timer_tick.
TimerTick(c) ==
    IF c.counter + 1 >= BlinkDivisor
    THEN [c EXCEPT !.counter = 0, !.fb = blink_cursor(@)]
    ELSE [c EXCEPT !.counter = @ + 1]

-----------------------------------------------------------------------------
\* poll_input.
cell_width(ch) == IF ch = "W" THEN 2 ELSE 1
line_cells(s) == FoldLeft(+, 0, [i \in 1..Len(s) |-> cell_width(s[i])])
cursor_cells(s, n) == line_cells(SubSeq(s, 1, AtMost(n, Len(s))))

\* A mouse event scrolls the view: eight lines a notch of the wheel, two or
\* more for a move with the middle button down.
Scrolled(c, event) ==
    LET By(n) == [c EXCEPT !.fb = scroll_view_lines(@, n)]
        dy == event[3]
    IN CASE event = <<>> -> c
         [] event # <<>> /\ event[1] = "Wheel" -> By(8 * event[2])
         [] event # <<>> /\ event[1] = "Move" ->
                IF ~event[4] \/ dy = 0 THEN c
                ELSE By(IF dy > 0 THEN IF dy < 2 THEN 2 ELSE dy
                        ELSE IF dy > -2 THEN -2 ELSE dy)

Held(event, key) == \E i \in 2..Len(event) : event[i] = key

\* The input line after a key.
Edited(b, event) ==
    LET key == event[1]
        completed == complete_for_console(render(b), b.cursor)
    IN CASE key = "Character" -> insert(b, event[2])
         [] key = "Backspace" -> backspace(b)
         [] key \in {"Delete", "CtrlD"} -> delete(b)
         [] key \in {"Home", "CtrlA"} -> move_home(b)
         [] key \in {"End", "CtrlE"} -> move_end(b)
         [] key \in {"PageUp", "ArrowUp"} -> history_prev(b)
         [] key \in {"PageDown", "ArrowDown"} -> history_next(b)
         [] key = "ArrowLeft" -> IF Held(event, "Ctrl") THEN move_prev_word(b) ELSE move_left(b)
         [] key = "ArrowRight" -> IF Held(event, "Ctrl") THEN move_next_word(b) ELSE move_right(b)
         [] key = "CtrlC" -> clear(b)
         [] key = "CtrlU" -> clear_to_start(b)
         [] key = "CtrlK" -> clear_to_end(b)
         [] key = "CtrlW" -> delete_prev_word(b)
         [] key = "Enter" -> submit(b)
         [] key = "Tab" -> IF completed \in {NoCompletion, Panic} THEN b
                           ELSE set_line(b, completed)
         [] OTHER -> b

\* The keys after which the line is drawn anew when the editor reports a
\* change; the others move the cursor or start a new line.
Redraws(b, event) ==
    LET key == event[1] IN
    CASE key \in {"PageUp", "ArrowUp"} -> b.history # <<>>
      [] key \in {"PageDown", "ArrowDown"} -> b.index # NoIndex
      [] key = "Tab" -> complete_for_console(render(b), b.cursor) # NoCompletion
      [] key = "Character" -> Edited(b, event) # b
                /\ cursor_cells(render(b), b.cursor) # line_cells(render(b))
      [] key \in {"ArrowLeft", "ArrowRight"} -> Held(event, "Ctrl") /\ Edited(b, event) # b
      [] key \in {"Backspace", "Delete", "CtrlD", "CtrlU", "CtrlK", "CtrlW"} ->
                Edited(b, event) # b
      [] OTHER -> FALSE

\* redraw_line: from the end of the old line back over it, and the new one.
redraw_line(old, new) ==
    LET was == render(old) IN
    [right |-> Minus(line_cells(was), cursor_cells(was, old.cursor)),
     text |-> [i \in 1..line_cells(was) |-> Erase] \o render(new),
     left |-> line_cells(render(new)) - cursor_cells(render(new), new.cursor)]

\* What is done to the display after a key took the line from old to new:
\* cells to the right, characters put, cells to the left.
Moves(old, new, event) ==
    LET key == event[1]
        text == render(old)
        cells == line_cells(text)
        at == cursor_cells(text, old.cursor)
        Nothing == [right |-> 0, text |-> <<>>, left |-> 0]
    IN CASE Redraws(old, event) -> redraw_line(old, new)
         [] key = "CtrlL" -> [Nothing EXCEPT !.text = text, !.left = cells - at]
         [] key \in {"CtrlC", "Enter"} -> [Nothing EXCEPT !.text = <<"\n">>]
         [] OTHER ->
            IF new = old THEN Nothing
            ELSE CASE key = "Character" -> [Nothing EXCEPT !.text = <<event[2]>>]
                   [] key \in {"Home", "CtrlA"} -> [Nothing EXCEPT !.left = at]
                   [] key \in {"End", "CtrlE"} -> [Nothing EXCEPT !.right = cells - at]
                   [] key = "ArrowLeft" ->
                        [Nothing EXCEPT !.left = cell_width(old.line[old.cursor])]
                   [] key = "ArrowRight" ->
                        [Nothing EXCEPT !.right = cell_width(old.line[old.cursor + 1])]

\* Ctrl-L starts from a cleared console with the prompt.
Shown(c, old, new, event) ==
    LET start == IF event = <<"CtrlL">> THEN write_str(clear_console(c), Prompt) ELSE c IN
    CHOOSE d \in {LeftBy(PutAll(RightBy(start, m.right), m.text, TRUE, TRUE), m.left)
                    : m \in {Moves(old, new, event)}} : TRUE
=============================================================================
