------------------------- MODULE FramebufferConsole -------------------------
(***************************************************************************)
(* The text console drawn on the framebuffer, console/framebuffer.rs: a    *)
(* grid of characters, the lines that scrolled off its top, the offset of  *)
(* the view into them, and the glyph each cell of the display shows.       *)
(* Positions count from 0 as in the source, rows and columns from 1.       *)
(***************************************************************************)
EXTENDS Integers, Sequences, SequencesExt

CONSTANTS Columns, Rows,        \* text cells of the display
          ScrollbackCapacity    \* lines kept behind the top

ASSUME DisplayHasCells ==
    /\ Columns \in Nat \ {0}
    /\ Rows \in Nat \ {0}
    /\ ScrollbackCapacity \in Nat \ {0}

TabWidth == 4
Blank == " "
Overlay == "_"       \* the glyph of a visible cursor
AtMost(a, b) == IF a < b THEN a ELSE b
Minus(a, b) == IF a > b THEN a - b ELSE 0
BlankRow == [x \in 1..Columns |-> Blank]
BlankRows(n) == [y \in 1..n |-> BlankRow]

FramebufferOff ==
    [on |-> FALSE, cx |-> 0, cy |-> 0, screen |-> BlankRows(Rows), view |-> 0,
     back |-> <<>>, inverted |-> FALSE, glyphs |-> BlankRows(Rows),
     trail |-> FALSE]   \* history: see LeaveOverlay

\* The cell of the cursor, row first.
CursorCell(fb) == <<AtMost(fb.cy, Rows - 1) + 1, AtMost(fb.cx, Columns - 1) + 1>>

\* The cursor or the pixels are about to be moved without taking the overlay
\* back, so that one that is shown stays behind.
LeaveOverlay(fb) ==
    [fb EXCEPT !.trail = @ \/ fb.glyphs[CursorCell(fb)[1]][CursorCell(fb)[2]] = Overlay]

Drawn(fb, x, y, c) == [fb EXCEPT !.glyphs[y + 1][x + 1] = c]

\* Rows are kept without their trailing blanks and shown padded.
row_to_scrollback(row) ==
    LET used == {x \in 1..Len(row) : row[x] # Blank} IN
    SubSeq(row, 1, IF used = {} THEN 0 ELSE CHOOSE x \in used : \A z \in used : z <= x)
Padded(line) == [x \in 1..Columns |-> IF x <= Len(line) THEN line[x] ELSE Blank]

push_scrollback_line(back, line) ==
    LET longer == Append(back, line) IN
    SubSeq(longer, Minus(Len(longer), ScrollbackCapacity) + 1, Len(longer))

\* The line at index i of the lines behind the top followed by the screen.
ViewLine(fb, i) ==
    IF i < Len(fb.back) THEN Padded(fb.back[i + 1]) ELSE fb.screen[i - Len(fb.back) + 1]

\* The first of the lines in view.
ViewStart(fb) == Minus(Len(fb.back) + Rows, Rows + fb.view)

render_viewport(fb) ==
    LET offset == AtMost(fb.view, Len(fb.back))
        at == [fb EXCEPT !.view = offset]
    IN [at EXCEPT !.glyphs = [y \in 1..Rows |-> ViewLine(at, ViewStart(at) + y - 1)],
                  !.trail = FALSE,
                  !.cx = IF offset = 0 THEN AtMost(@, Columns - 1) ELSE @,
                  !.cy = IF offset = 0 THEN AtMost(@, Rows - 1) ELSE @]

scroll_pixels_up(fb, n) ==
    [LeaveOverlay(fb) EXCEPT !.glyphs = SubSeq(@, n + 1, Rows) \o BlankRows(AtMost(n, Rows))]
scroll_pixels_down(fb, n) ==
    [LeaveOverlay(fb) EXCEPT !.glyphs = BlankRows(AtMost(n, Rows)) \o SubSeq(@, 1, Rows - n)]

\* Mutant: the rows exposed at the top are drawn as if they were at the bottom.
scroll_viewport_incremental_wrong_end(fb, delta) ==
    LET n == IF delta > 0 THEN delta ELSE -delta
        moved == IF delta > 0 THEN scroll_pixels_up(fb, n) ELSE scroll_pixels_down(fb, n)
    IN IF n >= Rows THEN render_viewport(fb)
       ELSE [moved EXCEPT !.glyphs = [y \in 1..Rows |->
                IF y > Rows - n THEN ViewLine(fb, ViewStart(fb) + y - 1) ELSE @[y]]]

\* A small step of the view moves the pixels and draws the exposed rows; a
\* larger one repaints.
scroll_viewport_incremental(fb, delta) ==
    LET n == IF delta > 0 THEN delta ELSE -delta
        moved == IF delta > 0 THEN scroll_pixels_up(fb, n) ELSE scroll_pixels_down(fb, n)
        exposed == IF delta > 0 THEN Rows - n..Rows - 1 ELSE 0..n - 1
    IN IF n >= Rows THEN render_viewport(fb)
       ELSE [moved EXCEPT !.glyphs = [y \in 1..Rows |->
                IF y - 1 \in exposed THEN ViewLine(fb, ViewStart(fb) + y - 1) ELSE @[y]]]

scroll_view_lines(fb, lines) ==
    LET offset == IF lines > 0 THEN AtMost(fb.view + lines, Len(fb.back))
                  ELSE Minus(fb.view, -lines)
        at == [fb EXCEPT !.view = offset]
    IN IF ~fb.on \/ offset = fb.view THEN fb
       ELSE scroll_viewport_incremental(at, ViewStart(at) - ViewStart(fb))

scroll_to_bottom(fb) ==
    IF fb.view = 0 THEN fb
    ELSE IF fb.on THEN render_viewport([fb EXCEPT !.view = 0])
    ELSE [fb EXCEPT !.view = 0]

\* blink_cursor: the flag toggles even while the view shows older lines.
blink_cursor(fb) ==
    LET x == AtMost(fb.cx, Columns - 1)
        y == AtMost(fb.cy, Rows - 1)
        toggled == [fb EXCEPT !.inverted = ~@]
    IN IF ~fb.on THEN fb
       ELSE IF fb.view # 0 THEN toggled
       ELSE Drawn(toggled, x, y, IF toggled.inverted THEN Overlay ELSE fb.screen[y + 1][x + 1])

\* A printable character: stored, drawn when the view is live, and the cursor
\* stops at the last column.
PutGlyph(fb, c) ==
    LET x == AtMost(fb.cx, Columns - 1)
        y == AtMost(fb.cy, Rows - 1)
        stored == [fb EXCEPT !.screen[y + 1][x + 1] = c, !.cx = AtMost(@ + 1, Columns - 1)]
    IN IF fb.view = 0 THEN Drawn(stored, x, y, c) ELSE stored

\* A tab is blanks up to the next stop; a view of older lines is repainted.
fb_put_char(fb, c) ==
    LET count == IF c = "\t" THEN TabWidth - (fb.cx % TabWidth) ELSE 1
        glyphs[n \in 0..TabWidth] ==
            IF n = 0 THEN fb ELSE PutGlyph(glyphs[n - 1], IF c = "\t" THEN Blank ELSE c)
        put == CASE c = "\n" -> [LeaveOverlay(fb) EXCEPT !.cx = 0, !.cy = AtMost(@ + 1, Rows - 1)]
                 [] c = "\r" -> [LeaveOverlay(fb) EXCEPT !.cx = 0]
                 [] OTHER -> glyphs[count]
    IN IF ~fb.on THEN fb ELSE IF fb.view > 0 THEN render_viewport(put) ELSE put

fb_put_str(fb, s) ==
    LET after[n \in 0..Len(s)] ==
            IF n = 0 THEN fb
            ELSE CHOOSE f \in {fb_put_char(g, s[n]) : g \in {after[n - 1]}} : TRUE
    IN after[Len(s)]

fb_clear(fb) ==
    [fb EXCEPT !.cx = 0, !.cy = 0, !.inverted = FALSE, !.view = 0,
               !.screen = IF fb.on THEN BlankRows(Rows) ELSE @,
               !.glyphs = IF fb.on THEN BlankRows(Rows) ELSE @,
               !.trail = IF fb.on THEN FALSE ELSE @]

attach(fb) == fb_clear([fb EXCEPT !.on = TRUE])

\* The overlay of a visible cursor is taken back at the place the framebuffer
\* cursor has now.
fb_set_cursor(fb, x, y) ==
    LET ox == AtMost(fb.cx, Columns - 1)
        oy == AtMost(fb.cy, Rows - 1)
        restored == IF fb.inverted /\ fb.view = 0 /\ fb.on
                    THEN Drawn(fb, ox, oy, fb.screen[oy + 1][ox + 1]) ELSE fb
    IN [restored EXCEPT !.inverted = FALSE, !.cx = x, !.cy = y]

\* scroll_up by one row, the only amount the console asks for.
fb_scroll_up(fb) ==
    LET shifted == [fb EXCEPT
                !.back = push_scrollback_line(@, row_to_scrollback(fb.screen[1])),
                !.screen = Append(Tail(@), BlankRow)]
    IN IF ~fb.on THEN fb
       ELSE IF fb.view = 0 THEN scroll_pixels_up(shifted, 1)
       ELSE render_viewport([shifted EXCEPT !.view = AtMost(@, Len(shifted.back))])
=============================================================================
