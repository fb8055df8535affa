------------------------------ MODULE Console ------------------------------
(***************************************************************************)
(* The console as the shell's loop drives it (shell/engine.rs): devices    *)
(* start, a framebuffer is attached, the prompt is printed and poll_input  *)
(* is called again and again, while keys, mouse packets, USB reports and   *)
(* serial bytes arrive, other threads print, and the timer blinks the      *)
(* cursor.  What the devices send is chosen from a session.                *)
(***************************************************************************)
EXTENDS ConsoleGrid, InputPorts

CONSTANTS Sessions,      \* name -> what can happen, see MCConsole
          InFlight       \* bytes waiting in the controller, events not yet polled

VARIABLES session, phase, hw, kb, mouse, hid, ser, wire, input, con, needs_prompt,
          \* What was done at the devices: modifiers and keys held, bytes of a
          \* mouse packet still to come, and the events that must come of it.
          held, sending, expect, astray,
          raced,         \* a key was pressed between the two start-up dialogues
          unshifted,     \* a shift key was released while the other one was down
          disturbed,     \* the line no longer stands alone behind its prompt
          draft          \* the line as it was before Up was pressed

devices == <<hw, kb, mouse, hid, ser, wire>>
ghosts == <<held, sending, expect, astray, raced, unshifted, disturbed, draft>>
vars == <<session, phase, devices, input, con, needs_prompt, ghosts>>

S == Sessions[session]

Init ==
    /\ session \in DOMAIN Sessions
    /\ phase = "keyboard"
    /\ hw = Controller(S.present, S.keyboard, S.mouse)
    /\ kb = KeyboardOff
    /\ mouse = MouseOff
    /\ hid = HidOff
    /\ ser = SerialOff
    /\ wire = <<>>
    /\ input = NewBuffer
    /\ con = ConsoleOff
    /\ needs_prompt = TRUE
    /\ held = [shifts |-> {}, ctrl |-> FALSE, caps |-> FALSE, usb |-> {}]
    /\ sending = <<>>
    /\ expect = [ps2 |-> <<>>, usb |-> <<>>, serial |-> <<>>, mouse |-> <<>>]
    /\ astray = {}
    /\ raced = FALSE
    /\ unshifted = FALSE
    /\ disturbed = FALSE
    /\ draft = <<>>

-----------------------------------------------------------------------------
\* console::init, interruptible by the devices between the two drivers.
InitKeyboard ==
    /\ phase = "keyboard"
    /\ \E r \in {keyboard_init(kb, hw)} : kb' = r.kb /\ hw' = r.hw
    /\ phase' = "mouse"
    /\ UNCHANGED <<session, mouse, hid, ser, wire, input, con, needs_prompt, ghosts>>

InitMouse ==
    /\ phase = "mouse"
    /\ \E r \in {mouse_init(mouse, hw)} : mouse' = r.m /\ hw' = r.hw
    /\ phase' = IF S.display THEN "attach" ELSE "run"
    /\ UNCHANGED <<session, kb, hid, ser, wire, input, con, needs_prompt, ghosts>>

Attach ==
    /\ phase = "attach"
    /\ con' = attach_framebuffer(con)
    /\ phase' = "run"
    /\ UNCHANGED <<session, devices, input, needs_prompt, ghosts>>

\* A line the display cannot follow: too long for its row or for render, or
\* with a character that put_char counts as one cell and redraw_line as two.
Wraps(b) ==
    \/ Len(Prompt) + line_cells(b.line) >= con.width
    \/ render(b) # b.line
    \/ "W" \in Range(b.line)

\* render_prompt, on whatever line the editor holds.
RenderPrompt ==
    /\ phase = "run"
    /\ needs_prompt
    /\ con' = write_str(con, Prompt)
    /\ needs_prompt' = FALSE
    /\ disturbed' = (con.x # 0 \/ Wraps(input))
    /\ UNCHANGED <<session, phase, devices, input, held, sending, expect, astray, raced, unshifted,
                   draft>>

\* The events that were due from a source, and whether this one is the next.
Due(src, event) ==
    IF event = NoEvent THEN expect[src]
    ELSE IF expect[src] # <<>> THEN Tail(expect[src]) ELSE <<>>
Unexpected(src, event) ==
    event # NoEvent /\ (expect[src] = <<>> \/ Head(expect[src]) # event)

First(queue) == IF queue = <<>> THEN NoEvent ELSE Head(queue)
Rest(queue) == IF queue = <<>> THEN queue ELSE Tail(queue)

Panics(event) ==
    event # NoEvent /\ event[1] = "Tab"
        /\ complete_for_console(render(input), input.cursor) = Panic

Submits(event) == event # NoEvent /\ event[1] \in {"Enter", "CtrlC"}

\* The line editor and the display take the key, whichever device it came from.
TakeKey(c, event) ==
    IF event = NoEvent
    THEN con' = c /\ UNCHANGED <<input, needs_prompt, phase, disturbed, draft>>
    ELSE \E bottom \in {[c EXCEPT !.fb = scroll_to_bottom(@)]} :
         IF Panics(event)
         THEN /\ phase' = "panicked"
              /\ con' = bottom
              /\ UNCHANGED <<input, needs_prompt, disturbed, draft>>
         ELSE /\ input' = Edited(input, event)
              /\ con' = Shown(bottom, input, input', event)
              /\ needs_prompt' = Submits(event)
              /\ disturbed' = (Wraps(input') \/ (disturbed /\ event # <<"CtrlL">>))
              /\ draft' = IF input'.index = NoIndex THEN <<>>
                          ELSE IF input.index = NoIndex THEN render(input) ELSE draft
              /\ UNCHANGED phase

\* poll_input: one mouse event, PS/2 before USB, then one key event, PS/2
\* before USB before serial.
poll_input ==
    /\ phase = "run"
    /\ ~needs_prompt
    /\ \E m \in {mouse_poll_event(mouse, hw)} : \E k \in {keyboard_poll_event(kb, m.hw)} :
       LET usbMouse == IF m.event = NoEvent THEN First(hid.mice) ELSE NoEvent
           usbKey == IF k.event = NoEvent THEN First(hid.keys) ELSE NoEvent
       IN \E s \in {IF k.event # NoEvent \/ usbKey # NoEvent
                    THEN [ser |-> ser, wire |-> wire, event |-> NoEvent]
                    ELSE serial_poll_event(ser, wire)} :
          /\ mouse' = m.m
          /\ hw' = k.hw
          /\ kb' = k.kb
          /\ hid' = [hid EXCEPT !.mice = IF usbMouse # NoEvent THEN Rest(@) ELSE @,
                                !.keys = IF usbKey # NoEvent THEN Rest(@) ELSE @]
          /\ ser' = s.ser
          /\ wire' = s.wire
          /\ expect' = [ps2 |-> Due("ps2", k.event), usb |-> Due("usb", usbKey),
                        serial |-> Due("serial", s.event), mouse |-> Due("mouse", m.event)]
          /\ astray' = astray \cup
                (IF Unexpected("mouse", m.event) THEN {"mouse"} ELSE {}) \cup
                (IF \/ Unexpected("ps2", k.event)
                    \/ Unexpected("usb", usbKey)
                    \/ Unexpected("serial", s.event) THEN {"key"} ELSE {})
          /\ TakeKey(Scrolled(con, m.event \o usbMouse), k.event \o usbKey \o s.event)
    /\ UNCHANGED <<session, held, sending, raced, unshifted>>

-----------------------------------------------------------------------------
\* The world outside.

\* A key of the PS/2 keyboard: its scan code, and what it stands for.
ScanCode == [a |-> <<30>>, one |-> <<2>>, left |-> <<224, 75>>, shift |-> <<42>>,
             rshift |-> <<54>>, ctrl |-> <<29>>, caps |-> <<58>>]
Legend(key) ==
    CASE key = "a" -> IF held.ctrl THEN <<"CtrlA">>
                      ELSE Character(IF (held.shifts # {}) # held.caps THEN "A" ELSE "a")
      [] key = "one" -> IF held.ctrl THEN NoEvent
                        ELSE Character(IF held.shifts # {} THEN "!" ELSE "1")
      [] key = "left" -> <<"ArrowLeft">> \o (IF held.ctrl THEN <<"Ctrl">> ELSE <<>>)
                                         \o (IF held.shifts # {} THEN <<"Shift">> ELSE <<>>)
      [] OTHER -> NoEvent

Listed(event) == IF event = NoEvent THEN <<>> ELSE <<event>>
Started == phase \in {"mouse", "run"}

\* A key goes down or up.
Key(key, down) ==
    LET code == ScanCode[key] IN
    /\ Started
    /\ key \in S.keys
    /\ Len(hw.out) + Len(code) <= InFlight
    /\ Len(expect.ps2) < InFlight
    /\ hw' = Offer(hw, IF down THEN code ELSE [code EXCEPT ![Len(code)] = @ + 128], FALSE)
    /\ held' = [held EXCEPT
            !.shifts = IF key \notin {"shift", "rshift"} THEN @
                       ELSE IF down THEN @ \cup {key} ELSE @ \ {key},
            !.ctrl = IF key = "ctrl" THEN down ELSE @,
            !.caps = IF key = "caps" /\ down THEN ~@ ELSE @]
    /\ expect' = [expect EXCEPT !.ps2 = @ \o (IF down THEN Listed(Legend(key)) ELSE <<>>)]
    /\ raced' = (raced \/ phase = "mouse")
    /\ unshifted' = (unshifted \/ (~down /\ key \in {"shift", "rshift"} /\ held.shifts \ {key} # {}))
    /\ UNCHANGED <<session, phase, kb, mouse, hid, ser, wire, input, con, needs_prompt,
                   sending, astray, disturbed, draft>>

\* The mouse starts a packet, and sends it byte by byte between the keys.
Packet(p) ==
    /\ phase = "run"
    /\ p \in S.packets
    /\ sending = <<>>
    /\ Len(expect.mouse) < InFlight
    /\ sending' = p.bytes
    /\ expect' = [expect EXCEPT !.mouse = @ \o Listed(p.event)]
    /\ UNCHANGED <<session, phase, devices, input, con, needs_prompt, held, astray, raced,
                   unshifted, disturbed, draft>>

SendByte ==
    /\ sending # <<>>
    /\ Len(hw.out) < InFlight
    /\ hw' = Offer(hw, <<Head(sending)>>, TRUE)
    /\ sending' = Tail(sending)
    /\ UNCHANGED <<session, phase, kb, mouse, hid, ser, wire, input, con, needs_prompt, held,
                   expect, astray, raced, unshifted, disturbed, draft>>

\* A USB keyboard report: the keys that are down; those that were not before
\* are due, as far as the queue has room.
Report(r) ==
    LET new == SelectSeq(SubSeq(r, 3, Len(r)), LAMBDA u : u \notin held.usb \cup {0})
        events == SelectSeq([i \in 1..Len(new) |-> usage_to_key_event(new[i], r[1])],
                            LAMBDA e : e # NoEvent)
        room == KeyQueueCapacity - Len(hid.keys)
    IN /\ phase = "run"
       /\ r \in S.reports
       /\ hid' = feed_boot_keyboard_report(hid, r)
       /\ IF Len(r) < 8 THEN UNCHANGED <<held, expect>>
          ELSE /\ held' = [held EXCEPT !.usb = Range(SubSeq(r, 3, 8))]
               /\ expect' = [expect EXCEPT !.usb = @ \o SubSeq(events, 1, AtMost(room, Len(events)))]
       /\ UNCHANGED <<session, phase, hw, kb, mouse, ser, wire, input, con, needs_prompt,
                      sending, astray, raced, unshifted, disturbed, draft>>

\* A USB mouse report.
MouseReport(r) ==
    /\ phase = "run"
    /\ r \in S.mice
    /\ hid' = feed_boot_mouse_report(hid, r)
    /\ UNCHANGED <<session, phase, hw, kb, mouse, ser, wire, input, con, needs_prompt, ghosts>>

\* A USB key is pressed and released before the next one.
Type(u) ==
    LET event == usage_to_key_event(u[2], u[1]) IN
    /\ phase = "run"
    /\ u \in S.strokes
    /\ hid.keys = <<>>
    /\ hid' = feed_boot_keyboard_report(
                feed_boot_keyboard_report(hid, <<u[1], 0, u[2], 0, 0, 0, 0, 0>>),
                <<0, 0, 0, 0, 0, 0, 0, 0>>)
    /\ expect' = [expect EXCEPT !.usb = Listed(event)]
    /\ UNCHANGED <<session, phase, hw, kb, mouse, ser, wire, input, con, needs_prompt, held,
                   sending, astray, raced, unshifted, disturbed, draft>>

\* The terminal at the serial line sends a character or an escape sequence.
Receive(t) ==
    /\ phase = "run"
    /\ t \in S.tokens
    /\ Len(expect.serial) < InFlight
    /\ wire = <<>> \/ Len(wire) + Len(t.bytes) <= InFlight
    /\ wire' = wire \o t.bytes
    /\ expect' = [expect EXCEPT !.serial = @ \o Listed(t.event)]
    /\ UNCHANGED <<session, phase, hw, kb, mouse, hid, ser, input, con, needs_prompt, held,
                   sending, astray, raced, unshifted, disturbed, draft>>

\* Another thread, or a command, prints.
Output(s) ==
    /\ phase = "run"
    /\ s \in S.texts
    /\ con' = write_str(con, s)
    /\ disturbed' = TRUE
    /\ UNCHANGED <<session, phase, devices, input, needs_prompt, held, sending, expect, astray,
                   raced, unshifted, draft>>

on_timer_tick ==
    /\ phase = "run"
    /\ S.ticks
    /\ con' = TimerTick(con)
    /\ UNCHANGED <<session, phase, devices, input, needs_prompt, ghosts>>

\* The panic handler halts the processor.
Panicked == phase = "panicked" /\ UNCHANGED vars

Next ==
    \/ InitKeyboard
    \/ InitMouse
    \/ Attach
    \/ RenderPrompt
    \/ poll_input
    \/ \E key \in DOMAIN ScanCode, down \in BOOLEAN : Key(key, down)
    \/ \E p \in S.packets : Packet(p)
    \/ SendByte
    \/ \E r \in S.reports : Report(r)
    \/ \E r \in S.mice : MouseReport(r)
    \/ \E u \in S.strokes : Type(u)
    \/ \E t \in S.tokens : Receive(t)
    \/ \E s \in S.texts : Output(s)
    \/ on_timer_tick
    \/ Panicked

Spec == Init /\ [][Next]_vars

-----------------------------------------------------------------------------
\* Every key that was pressed gives its event once, in the order pressed on
\* its device, with the modifiers that were down then, and none is left over
\* when the device has been read out (poll_input, the three decoders): even
\* if mouse bytes, other keyboards and releases come in between.  Left out is
\* what follows the release of one of two shift keys held together: the driver
\* has one flag for both and forgets the other one (keyboard.rs:337).
KeysArriveOnce ==
    (~raced /\ ~unshifted) =>
        /\ "key" \notin astray
        /\ (\A i \in 1..Len(hw.out) : hw.out[i].aux) => expect.ps2 = <<>>
        /\ hid.keys = <<>> => expect.usb = <<>>
        /\ wire = <<>> => expect.serial = <<>>

\* Every mouse packet gives its event, and a byte that belongs to no packet
\* gives none (MouseDriver::init and poll_event): the driver asked for the
\* packet size the mouse really uses and stays in step with it.
PacketsArriveWhole ==
    (~raced /\ hw.present) =>
        /\ "mouse" \notin astray
        /\ (phase = "run" /\ sending = <<>> /\ \A i \in 1..Len(hw.out) : ~hw.out[i].aux)
                => expect.mouse = <<>>

\* The row of the cursor shows the prompt and the line being edited and
\* nothing else, and the cursor stands at the editor's position, after any
\* mixture of keys (redraw_line and the cursor moves of poll_input), as long
\* as the line fits and nobody else printed.
GridShowsLine ==
    (phase = "run" /\ ~needs_prompt /\ ~disturbed) =>
        LET text == Prompt \o render(input) IN
        /\ con.grid[con.y + 1] = [x \in 1..con.width |-> IF x <= Len(text) THEN text[x] ELSE Blank]
        /\ con.x = Len(Prompt) + input.cursor

\* Coming back down from the history shows the line that was being typed
\* before the first Up, whatever entries were visited (history_prev and
\* history_next).
HistoryRoundTrip ==
    [][(input.index # NoIndex /\ input'.index = NoIndex /\ ~needs_prompt')
            => input'.line = draft]_vars

\* What the display shows is the part of scrollback and screen the view is
\* at, however the pixels got there: drawn cell by cell, moved, or repainted
\* (framebuffer.rs).  Only the cell of the cursor may show the overlay instead,
\* only while the cursor is inverted and the view is live: set_cursor restores
\* the cell before it moves on (framebuffer.rs:881).  A line break and moved
\* pixels do not restore it, so that after one of them met a shown overlay, and
\* until the display is repainted or cleared, a cell may show an overlay that
\* was left behind; never anything else.
PixelsShowView ==
    con.fb.on =>
        /\ con.fb.view <= Len(con.fb.back)
        /\ \A y \in 1..Rows, x \in 1..Columns :
              \/ con.fb.glyphs[y][x] = ViewLine(con.fb, ViewStart(con.fb) + y - 1)[x]
              \/ /\ con.fb.glyphs[y][x] = Overlay
                 /\ \/ con.fb.trail
                    \/ con.fb.inverted /\ con.fb.view = 0 /\ <<y, x>> = CursorCell(con.fb)
=============================================================================
