----------------------------- MODULE InputPorts -----------------------------
(***************************************************************************)
(* Input from the two ports beside the PS/2 controller: the event queues   *)
(* of USB keyboards and mice, and the serial line COM1.                    *)
(***************************************************************************)
EXTENDS Ps2, TLC

-----------------------------------------------------------------------------
(***************************************************************************)
(* The USB input queues of driver/usb.rs: boot-protocol keyboard and mouse *)
(* reports become events, queued until the console polls for them.  A full *)
(* queue drops the newest event.                                           *)
(***************************************************************************)
CONSTANTS KeyQueueCapacity, MouseQueueCapacity

ASSUME QueueCapacitiesArePositive ==
    /\ KeyQueueCapacity \in Nat \ {0}
    /\ MouseQueueCapacity \in Nat \ {0}

HidOff == [modifiers |-> 0, pressed |-> <<0, 0, 0, 0, 0, 0>>, keys |-> <<>>, mice |-> <<>>]

shift_active(modifiers) == Bit(modifiers, 1) \/ Bit(modifiers, 5)
ctrl_active(modifiers) == Bit(modifiers, 0) \/ Bit(modifiers, 4)

usb_arrow_modifiers(base, modifiers) ==
    apply_arrow_modifiers(base, shift_active(modifiers), ctrl_active(modifiers))

UsageCtrl == [u \in {4, 6, 7, 8, 14, 15, 24, 26} |->
    CASE u = 4 -> "CtrlA" [] u = 6 -> "CtrlC" [] u = 7 -> "CtrlD" [] u = 8 -> "CtrlE"
      [] u = 14 -> "CtrlK" [] u = 15 -> "CtrlL" [] u = 24 -> "CtrlU" [] u = 26 -> "CtrlW"]
UsageChars ==
    {Keys(4, <<"a", "b", "c", "d", "e", "f", "g", "h", "i", "j", "k", "l", "m",
               "n", "o", "p", "q", "r", "s", "t", "u", "v", "w", "x", "y", "z">>,
             <<"A", "B", "C", "D", "E", "F", "G", "H", "I", "J", "K", "L", "M",
               "N", "O", "P", "Q", "R", "S", "T", "U", "V", "W", "X", "Y", "Z">>),
     Keys(30, <<"1", "2", "3", "4", "5", "6", "7", "8", "9", "0">>,
              <<"!", "@", "#", "$", "%", "^", "&", "*", "(", ")">>),
     Keys(44, <<" ", "-", "=", "[", "]", "\\">>, <<" ", "_", "+", "{", "}", "|">>),
     Keys(51, <<";", "'", "grave", ",", ".", "/">>, <<":", "dquote", "~", "<", ">", "?">>)}
UsageNames == [u \in 40..43 \cup 73..82 |->
    CASE u = 40 -> "Enter" [] u = 41 -> "Escape" [] u = 42 -> "Backspace"
      [] u = 43 -> "Tab" [] u = 73 -> "Insert" [] u = 74 -> "Home" [] u = 75 -> "PageUp"
      [] u = 76 -> "Delete" [] u = 77 -> "End" [] u = 78 -> "PageDown"
      [] u = 79 -> "ArrowRight" [] u = 80 -> "ArrowLeft" [] u = 81 -> "ArrowDown"
      [] u = 82 -> "ArrowUp"]

usage_to_key_event(u, modifiers) ==
    IF ctrl_active(modifiers)
    THEN IF u \in DOMAIN UsageCtrl THEN <<UsageCtrl[u]>> ELSE NoEvent
    ELSE IF \E row \in UsageChars : u \in DOMAIN row
    THEN Character((CHOOSE row \in UsageChars : u \in DOMAIN row)[u]
                        [IF shift_active(modifiers) THEN 2 ELSE 1])
    ELSE IF u \in 58..69 THEN <<"FKey", u - 57>>
    ELSE IF u \in DOMAIN UsageNames THEN usb_arrow_modifiers(UsageNames[u], modifiers)
    ELSE NoEvent

Enqueued(queue, event, capacity) ==
    IF event = NoEvent \/ Len(queue) = capacity THEN queue ELSE Append(queue, event)
enqueue_key(queue, event) == Enqueued(queue, event, KeyQueueCapacity)
enqueue_mouse(queue, event) == Enqueued(queue, event, MouseQueueCapacity)

\* The queue after the first n keys of a report: a key that was not down in
\* the report before is an event.
AfterKeys(hid, modifiers, current) ==
    LET after[n \in 0..6] ==
            IF n = 0 THEN hid.keys
            ELSE IF current[n] = 0 \/ \E i \in 1..6 : hid.pressed[i] = current[n]
            THEN after[n - 1]
            ELSE enqueue_key(after[n - 1], usage_to_key_event(current[n], modifiers))
    IN after[6]

\* A report of fewer than eight bytes is refused and changes nothing.
feed_boot_keyboard_report(hid, report) ==
    LET current == SubSeq(report, 3, 8) IN
    IF Len(report) < 8 THEN hid
    ELSE [hid EXCEPT !.keys = AfterKeys(hid, report[1], current),
                     !.modifiers = report[1], !.pressed = current]

feed_boot_mouse_report(hid, report) ==
    LET dx == AsI8(report[2])
        dy == -AsI8(report[3])
        moved == IF dx # 0 \/ dy # 0
                 THEN enqueue_mouse(hid.mice, <<"Move", dx, dy, Bit(report[1], 2)>>)
                 ELSE hid.mice
    IN IF Len(report) < 3 THEN hid
       ELSE [hid EXCEPT !.mice =
                IF Len(report) >= 4 /\ AsI8(report[4]) # 0
                THEN enqueue_mouse(moved, <<"Wheel", AsI8(report[4])>>) ELSE moved]

-----------------------------------------------------------------------------
(***************************************************************************)
(* Input over COM1, console/serial.rs: bytes become key events through an  *)
(* escape-sequence automaton and a UTF-8 decoder.                          *)
(***************************************************************************)
CONSTANT CsiCapacity      \* bytes of a CSI sequence that are kept

ASSUME CsiCapacityHoldsArrows == CsiCapacity \in Nat /\ CsiCapacity >= 4

SerialOff == [esc |-> "None", params |-> <<>>, utf8 |-> <<>>]

Esc == 27
IsDigit(b) == b \in 48..57
Semicolon == 59

\* The last number among the parameters, saturating in a byte: <<last,
\* current, saw_digit>> after each parameter byte.
parse_csi_modifier(params) ==
    LET Cap(v) == IF v > 255 THEN 255 ELSE v
        after[n \in 0..Len(params)] ==
            IF n = 0 THEN <<0, 0, FALSE>>
            ELSE CHOOSE r \in {IF IsDigit(params[n])
                               THEN <<p[1], Cap(Cap(p[2] * 10) + params[n] - 48), TRUE>>
                               ELSE IF params[n] = Semicolon
                               THEN <<IF p[3] THEN p[2] ELSE p[1], 0, FALSE>>
                               ELSE p : p \in {after[n - 1]}} : TRUE
        end == after[Len(params)]
    IN IF end[3] THEN end[2] ELSE end[1]

serial_arrow_modifiers(base, modifier) ==
    apply_arrow_modifiers(base, modifier \in {2, 6}, modifier \in {5, 6})

Arrows == [b \in 65..68 |-> <<"ArrowUp", "ArrowDown", "ArrowRight", "ArrowLeft">>[b - 64]]

\* The event of "ESC [ params ~".
Tilde(params) ==
    LET N == IF params # <<>> /\ \A i \in 1..Len(params) : IsDigit(params[i])
             THEN parse_csi_modifier(params) ELSE 0
    IN CASE Len(params) = 1 /\ N = 2 -> <<"Insert">>
         [] Len(params) = 1 /\ N = 3 -> <<"Delete">>
         [] Len(params) = 1 /\ N = 5 -> <<"PageUp">>
         [] Len(params) = 1 /\ N = 6 -> <<"PageDown">>
         [] Len(params) = 1 /\ N \in {1, 7} -> <<"Home">>
         [] Len(params) = 1 /\ N \in {4, 8} -> <<"End">>
         [] Len(params) = 2 /\ N = 15 -> <<"FKey", 5>>
         [] Len(params) = 2 /\ N \in 17..21 -> <<"FKey", N - 11>>
         [] Len(params) = 2 /\ N \in 23..24 -> <<"FKey", N - 12>>
         [] params \in {<<49, Semicolon, d>> : d \in {50, 53, 54}} ->
                serial_arrow_modifiers("ArrowUp", params[3] - 48)
         [] OTHER -> NoEvent

CsiEvent(params, final) ==
    CASE final \in DOMAIN Arrows ->
            serial_arrow_modifiers(Arrows[final], parse_csi_modifier(params))
      [] final = 72 -> <<"Home">>
      [] final = 70 -> <<"End">>
      [] final = 126 -> Tilde(params)
      [] OTHER -> NoEvent

Ss3Event(byte) ==
    CASE byte \in DOMAIN Arrows -> <<Arrows[byte]>>
      [] byte = 72 -> <<"Home">>
      [] byte = 70 -> <<"End">>
      [] byte \in 80..83 -> <<"FKey", byte - 79>>
      [] OTHER -> NoEvent

\* The UTF-8 parser (external): the bytes of an unfinished character.
SequenceLength(lead) == IF lead \in 194..223 THEN 2 ELSE IF lead \in 224..239 THEN 3 ELSE 4
Undecodable(pending, byte) ==
    IF pending = <<>> THEN byte \in 128..193 \/ byte > 244 ELSE byte \notin 128..191
Complete(pending, byte) ==
    byte < 128 \/ Len(pending) + 1 = SequenceLength(Append(pending, byte)[1])
Pending(pending, byte) ==
    IF Undecodable(pending, byte) \/ Complete(pending, byte) THEN <<>>
    ELSE Append(pending, byte)

\* A character is named by itself, by the class InputBuffer tells apart, or
\* by its code.
NameOf(bytes) ==
    CASE Len(bytes) = 3 -> "W"
      [] Len(bytes) = 2 -> "e'"
      [] bytes[1] = 32 -> " "
      [] bytes[1] \in 97..122 ->
            (CHOOSE row \in UsageChars : 4 \in DOMAIN row)[bytes[1] - 93][1]
      [] OTHER -> ToString(bytes[1])

ControlKeys == [b \in {13, 10, 8, 127, 9, 1, 3, 4, 5, 11, 12, 21, 23} |->
    CASE b \in {13, 10} -> "Enter" [] b \in {8, 127} -> "Backspace" [] b = 9 -> "Tab"
      [] b = 1 -> "CtrlA" [] b = 3 -> "CtrlC" [] b = 4 -> "CtrlD" [] b = 5 -> "CtrlE"
      [] b = 11 -> "CtrlK" [] b = 12 -> "CtrlL" [] b = 21 -> "CtrlU" [] b = 23 -> "CtrlW"]

CharEvent(pending, byte) ==
    IF Undecodable(pending, byte) THEN Character("replacement")
    ELSE IF ~Complete(pending, byte) THEN NoEvent
    ELSE IF byte \in DOMAIN ControlKeys THEN <<ControlKeys[byte]>>
    ELSE IF byte < 32 THEN NoEvent
    ELSE Character(NameOf(Append(pending, byte)))

Introducers == [b \in {91, 79} |-> IF b = 91 THEN "Csi" ELSE "Ss3"]

\* poll_input_event: one byte a call.  A byte received with a line error
\* stands as NoByte on the wire and is thrown away by poll_byte.  A byte behind a lone ESC is dropped
\* with it; a CSI sequence longer than the buffer ends without an event.
serial_poll_event(ser, wire) ==
    LET byte == Head(wire)
        idle == [ser EXCEPT !.esc = "None", !.params = <<>>]
        After(s, e) == [ser |-> s, wire |-> Tail(wire), event |-> e]
    IN IF wire = <<>> THEN [ser |-> ser, wire |-> wire, event |-> NoEvent]
       ELSE IF byte = NoByte THEN After(ser, NoEvent)
       ELSE CASE ser.esc = "None" ->
                   IF byte = Esc THEN After([ser EXCEPT !.esc = "Esc"], NoEvent)
                   ELSE After([ser EXCEPT !.utf8 = Pending(@, byte)],
                              CharEvent(ser.utf8, byte))
              [] ser.esc = "Esc" ->
                   IF byte \in DOMAIN Introducers
                   THEN After([ser EXCEPT !.esc = Introducers[byte]], NoEvent)
                   ELSE After(idle, <<"Escape">>)
              [] ser.esc = "Ss3" -> After(idle, Ss3Event(byte))
              [] ser.esc = "Csi" ->
                   IF Len(ser.params) >= CsiCapacity THEN After(idle, NoEvent)
                   ELSE IF byte \notin 64..126
                   THEN After([ser EXCEPT !.params = Append(@, byte)], NoEvent)
                   ELSE After(idle, CsiEvent(ser.params, byte))
=============================================================================
