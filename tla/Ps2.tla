--------------------------------- MODULE Ps2 --------------------------------
(***************************************************************************)
(* The 8042 controller that the PS/2 keyboard and mouse share, and the two *)
(* drivers behind it, console/keyboard.rs and console/mouse.rs: their      *)
(* start-up dialogues, the decoding of scan codes into key events and the  *)
(* assembly of mouse packets.                                              *)
(*                                                                         *)
(* A key event is a tuple whose first element names the KeyEvent variant.  *)
(***************************************************************************)
EXTENDS Integers, Sequences, Bitwise

NoEvent == <<>>
NoByte == -1
Character(c) == <<"Character", c>>

-----------------------------------------------------------------------------
(***************************************************************************)
(* The controller (external): the bytes it offers at port 0x60, each       *)
(* marked as the keyboard's or as the mouse's, its configuration byte, and *)
(* what the next data byte is for.  A machine without a controller reads   *)
(* 0xFF from both ports.                                                   *)
(***************************************************************************)
ReadConfig == 32
WriteConfig == 96
WriteMouse == 212
Ack == 250
GetDeviceId == 242

Offered(bytes, aux) == [i \in 1..Len(bytes) |-> [byte |-> bytes[i], aux |-> aux]]

\* keyboard: it answers commands; id: the mouse's answer to GetDeviceId, NoByte
\* when there is no mouse.
Controller(present, keyboard, id) ==
    [present |-> present, keyboard |-> keyboard, id |-> id,
     out |-> <<>>, config |-> 32, dataFor |-> 0]

StatusOutputFull(hw) == ~hw.present \/ hw.out # <<>>
StatusAux(hw) == ~hw.present \/ (hw.out # <<>> /\ Head(hw.out).aux)
StatusInputFull(hw) == ~hw.present
InData(hw) == IF hw.present THEN Head(hw.out).byte ELSE 255
Taken(hw) == IF hw.present THEN [hw EXCEPT !.out = Tail(@)] ELSE hw
Offer(hw, bytes, aux) == [hw EXCEPT !.out = @ \o Offered(bytes, aux)]

OutCommand(hw, cmd) ==
    CASE cmd = ReadConfig -> Offer(hw, <<hw.config>>, FALSE)
      [] cmd \in {WriteConfig, WriteMouse} -> [hw EXCEPT !.dataFor = cmd]
      [] OTHER -> hw

OutData(hw, v) ==
    CASE hw.dataFor = WriteConfig -> [hw EXCEPT !.config = v, !.dataFor = 0]
      [] hw.dataFor = WriteMouse ->
            LET h == [hw EXCEPT !.dataFor = 0] IN
            IF hw.id = NoByte THEN h
            ELSE Offer(h, IF v = GetDeviceId THEN <<Ack, hw.id>> ELSE <<Ack>>, TRUE)
      [] OTHER -> IF hw.keyboard THEN Offer(hw, <<Ack>>, FALSE) ELSE hw

-----------------------------------------------------------------------------
\* Ps2Driver.  The waits end at once in a working machine and run out of
\* iterations when the awaited bit never comes.
wait_input_clear(hw) == ~StatusInputFull(hw)
wait_output_ready(hw) == StatusOutputFull(hw)

\* The byte data_read finds, and the controller after it.
data_read(hw) == IF wait_output_ready(hw) THEN InData(hw) ELSE NoByte
AfterRead(hw) == IF wait_output_ready(hw) THEN Taken(hw) ELSE hw

drain_output(hw) == [hw EXCEPT !.out = SubSeq(@, 33, Len(@))]

read_scancode(hw) ==
    IF ~StatusOutputFull(hw) \/ StatusAux(hw) THEN NoByte ELSE InData(hw)

KeyboardOff == [initialized |-> FALSE, extended |-> FALSE, ctrl_down |-> FALSE,
                shift_down |-> FALSE, caps_lock |-> FALSE]

SetDefaults == 246
EnableScanning == 244
ConfigBits == 65              \* IRQ1 and translation
KeyboardClockOff == 16

\* KeyboardDriver::init: what is left of the controller, and whether the
\* keyboard answered.  Every early return leaves the driver as it was.
keyboard_init(kb, hw) ==
    LET asked == OutCommand(drain_output(hw), ReadConfig)
        config == (data_read(asked) | ConfigBits) & (255 - KeyboardClockOff)
        set == drain_output(OutData(OutCommand(AfterRead(asked), WriteConfig), config))
        defaults == OutData(set, SetDefaults)
        scanning == OutData(AfterRead(defaults), EnableScanning)
    IN IF kb.initialized THEN [kb |-> kb, hw |-> hw]
       ELSE IF ~wait_input_clear(hw) THEN [kb |-> kb, hw |-> drain_output(hw)]
       ELSE IF data_read(defaults) # Ack THEN [kb |-> kb, hw |-> AfterRead(defaults)]
       ELSE [kb |-> [KeyboardOff EXCEPT !.initialized = data_read(scanning) = Ack],
             hw |-> AfterRead(scanning)]

-----------------------------------------------------------------------------
\* The keys of the main block, by scan code: row after row, the character
\* without and with the shift key.
Keys(first, plain, shifted) ==
    [code \in first..first + Len(plain) - 1 |->
        <<plain[code - first + 1], shifted[code - first + 1]>>]

Digits == Keys(2, <<"1", "2", "3", "4", "5", "6", "7", "8", "9", "0", "-", "=">>,
                  <<"!", "@", "#", "$", "%", "^", "&", "*", "(", ")", "_", "+">>)
TopRow == Keys(16, <<"q", "w", "e", "r", "t", "y", "u", "i", "o", "p">>,
                   <<"Q", "W", "E", "R", "T", "Y", "U", "I", "O", "P">>)
Brackets == Keys(26, <<"[", "]">>, <<"{", "}">>)
HomeRow == Keys(30, <<"a", "s", "d", "f", "g", "h", "j", "k", "l">>,
                    <<"A", "S", "D", "F", "G", "H", "J", "K", "L">>)
Quotes == Keys(39, <<";", "'", "grave">>, <<":", "dquote", "~">>)
Backslash == Keys(43, <<"\\">>, <<"|">>)
BottomRow == Keys(44, <<"z", "x", "c", "v", "b", "n", "m">>,
                      <<"Z", "X", "C", "V", "B", "N", "M">>)
Stops == Keys(51, <<",", ".", "/">>, <<"<", ">", "?">>)
SpaceBar == Keys(57, <<" ">>, <<" ">>)

LetterRows == {TopRow, HomeRow, BottomRow}
SymbolRows == {Digits, Brackets, Quotes, Backslash, Stops, SpaceBar}

\* Caps Lock concerns the letters only, Shift everything.
decode_char(kb, code) ==
    LET upper == kb.shift_down # kb.caps_lock
        Of(row, high) == Character(row[code][IF high THEN 2 ELSE 1])
    IN IF \E row \in LetterRows : code \in DOMAIN row
       THEN Of(CHOOSE row \in LetterRows : code \in DOMAIN row, upper)
       ELSE IF \E row \in SymbolRows : code \in DOMAIN row
       THEN Of(CHOOSE row \in SymbolRows : code \in DOMAIN row, kb.shift_down)
       ELSE NoEvent

ArrowNames == {"ArrowUp", "ArrowDown", "ArrowLeft", "ArrowRight"}

\* An arrow event carries the modifiers held with it.
apply_arrow_modifiers(base, shift, ctrl) ==
    IF base \notin ArrowNames THEN <<base>>
    ELSE <<base>> \o (IF ctrl THEN <<"Ctrl">> ELSE <<>>)
                  \o (IF shift THEN <<"Shift">> ELSE <<>>)

CtrlKeys == [code \in {30, 46, 32, 18, 37, 38, 22, 17} |->
    CASE code = 30 -> "CtrlA" [] code = 46 -> "CtrlC" [] code = 32 -> "CtrlD"
      [] code = 18 -> "CtrlE" [] code = 37 -> "CtrlK" [] code = 38 -> "CtrlL"
      [] code = 22 -> "CtrlU" [] code = 17 -> "CtrlW"]
NamedKeys == [code \in {1, 14, 15, 28} |->
    CASE code = 1 -> "Escape" [] code = 14 -> "Backspace" [] code = 15 -> "Tab"
      [] code = 28 -> "Enter"]
FunctionKeys == [code \in 59..68 \cup {87, 88} |->
    IF code < 87 THEN code - 58 ELSE code - 76]
ExtendedKeys == [code \in {28, 71, 72, 73, 75, 77, 79, 80, 81, 82, 83} |->
    CASE code = 28 -> "Enter" [] code = 71 -> "Home" [] code = 72 -> "ArrowUp"
      [] code = 73 -> "PageUp" [] code = 75 -> "ArrowLeft" [] code = 77 -> "ArrowRight"
      [] code = 79 -> "End" [] code = 80 -> "ArrowDown" [] code = 81 -> "PageDown"
      [] code = 82 -> "Insert" [] code = 83 -> "Delete"]

ExtendedPrefix == 224
Ctrl == 29
Shifts == {42, 54}
CapsLock == 58

\* Mutant: the release of an extended key leaves the prefix standing.
Flags_keeps_prefix(kb, byte) ==
    LET released == byte >= 128
        code == byte % 128
    IN IF byte = ExtendedPrefix THEN [kb EXCEPT !.extended = TRUE]
       ELSE IF kb.extended THEN [kb EXCEPT !.extended = released]
       ELSE IF code = Ctrl THEN [kb EXCEPT !.ctrl_down = ~released]
       ELSE IF code \in Shifts THEN [kb EXCEPT !.shift_down = ~released]
       ELSE IF code = CapsLock /\ ~released THEN [kb EXCEPT !.caps_lock = ~@]
       ELSE kb

\* The driver's flags after a scan code.
Flags(kb, byte) ==
    LET released == byte >= 128
        code == byte % 128
    IN IF byte = ExtendedPrefix THEN [kb EXCEPT !.extended = TRUE]
       ELSE IF kb.extended THEN [kb EXCEPT !.extended = FALSE]
       ELSE IF code = Ctrl THEN [kb EXCEPT !.ctrl_down = ~released]
       ELSE IF code \in Shifts THEN [kb EXCEPT !.shift_down = ~released]
       ELSE IF code = CapsLock /\ ~released THEN [kb EXCEPT !.caps_lock = ~@]
       ELSE kb

\* The event a scan code gives, if any.
Decoded(kb, byte) ==
    LET code == byte % 128 IN
    IF byte >= 128 THEN NoEvent
    ELSE IF kb.extended
    THEN IF code \in DOMAIN ExtendedKeys
         THEN apply_arrow_modifiers(ExtendedKeys[code], kb.shift_down, kb.ctrl_down)
         ELSE NoEvent
    ELSE IF code \in {Ctrl, CapsLock} \cup Shifts THEN NoEvent
    ELSE IF kb.ctrl_down
    THEN IF code \in DOMAIN CtrlKeys THEN <<CtrlKeys[code]>> ELSE NoEvent
    ELSE IF code \in DOMAIN NamedKeys THEN <<NamedKeys[code]>>
    ELSE IF code \in DOMAIN FunctionKeys THEN <<"FKey", FunctionKeys[code]>>
    ELSE decode_char(kb, code)

\* KeyboardDriver::poll_event.
keyboard_poll_event(kb, hw) ==
    IF ~kb.initialized \/ read_scancode(hw) = NoByte
    THEN [kb |-> kb, hw |-> hw, event |-> NoEvent]
    ELSE [kb |-> Flags(kb, InData(hw)), hw |-> Taken(hw),
          event |-> Decoded(kb, InData(hw))]

-----------------------------------------------------------------------------
(***************************************************************************)
(* The mouse.  A mouse event is <<"Move", dx, dy, middle>> or              *)
(* <<"Wheel", delta>>; the console looks at no other button.               *)
(***************************************************************************)
MouseOff == [initialized |-> FALSE, packet |-> <<>>, packet_size |-> 3]

EnableAux == 168
SetSampleRate == 243
EnableReporting == 244
Irq12 == 2
AuxClockOff == 32

\* controller_write gives up without a word; mouse_write wants an Ack, which
\* is any byte the controller offers first.
controller_write(hw, cmd) == IF wait_input_clear(hw) THEN OutCommand(hw, cmd) ELSE hw
MouseWritten(hw, v) ==
    IF wait_input_clear(hw) THEN OutData(OutCommand(hw, WriteMouse), v) ELSE hw
mouse_write_ok(hw, v) == wait_input_clear(hw) /\ data_read(MouseWritten(hw, v)) = Ack
mouse_write(hw, v) ==
    IF wait_input_clear(hw) THEN AfterRead(MouseWritten(hw, v)) ELSE hw

\* The one element, so that the dialogue below is evaluated step by step.
Then(results) == CHOOSE r \in results : TRUE

\* The rate is sent only when the command was acknowledged.
set_sample_rate(hw, rate) ==
    Then({IF mouse_write_ok(hw, SetSampleRate) THEN mouse_write(h, rate) ELSE h
            : h \in {mouse_write(hw, SetSampleRate)}})

\* MouseDriver::init: the clock and the interrupt of the mouse are switched
\* on in the controller's configuration ...
Configured(hw) ==
    LET Config(read) == ((IF read = NoByte THEN 0 ELSE read) | Irq12) & (255 - AuxClockOff)
    IN Then({IF ~wait_input_clear(hw) THEN AfterRead(h)
             ELSE OutData(OutCommand(AfterRead(h), WriteConfig), Config(data_read(h)))
               : h \in {controller_write(controller_write(hw, EnableAux), ReadConfig)}})

\* ... the wheel is enabled by three sample rates ...
Rated(hw) ==
    Then({set_sample_rate(h, 80) : h \in {set_sample_rate(g, 100) : g \in
            {set_sample_rate(f, 200) : f \in {mouse_write(hw, SetDefaults)}}}})

\* ... and the mouse asked what it is; the driver calls itself initialized
\* whatever was answered.
mouse_init(m, hw) ==
    LET known(h) == mouse_write_ok(h, GetDeviceId)
        id(h, g) == IF known(h) THEN data_read(g) ELSE NoByte
    IN IF m.initialized THEN [m |-> m, hw |-> hw]
       ELSE Then(UNION {{[m |-> [initialized |-> TRUE, packet |-> <<>>,
                                 packet_size |-> IF id(h, g) = NoByte THEN m.packet_size
                                                 ELSE IF id(h, g) \in {3, 4} THEN 4 ELSE 3],
                          hw |-> mouse_write(IF known(h) THEN AfterRead(g) ELSE g,
                                             EnableReporting)]
                            : g \in {mouse_write(h, GetDeviceId)}}
                            : h \in {Rated(f) : f \in {Configured(hw)}}})

read_aux_byte(hw) ==
    IF StatusOutputFull(hw) /\ StatusAux(hw) THEN InData(hw) ELSE NoByte

Bit(v, k) == (v \div 2^k) % 2 = 1
sign_extend(v, sign) == IF sign THEN v - 256 ELSE v
AsI8(v) == IF v >= 128 THEN v - 256 ELSE v

\* parse_packet, on a complete packet.
parse_packet(p) ==
    LET flags == p[1]
        dx == sign_extend(p[2], Bit(flags, 4))
        dy == -sign_extend(p[3], Bit(flags, 5))
    IN IF ~Bit(flags, 3) THEN NoEvent
       ELSE IF Len(p) = 4 /\ AsI8(p[4]) # 0 THEN <<"Wheel", AsI8(p[4])>>
       ELSE IF dx # 0 \/ dy # 0 THEN <<"Move", dx, dy, Bit(flags, 2)>>
       ELSE NoEvent

\* Mutant: a byte that cannot start a packet is taken as one.
mouse_poll_event_unsynced(m, hw) ==
    LET byte == read_aux_byte(hw)
        packet == Append(m.packet, byte)
    IN IF ~m.initialized \/ byte = NoByte THEN [m |-> m, hw |-> hw, event |-> NoEvent]
       ELSE IF Len(packet) < m.packet_size
       THEN [m |-> [m EXCEPT !.packet = packet], hw |-> Taken(hw), event |-> NoEvent]
       ELSE [m |-> [m EXCEPT !.packet = <<>>], hw |-> Taken(hw),
             event |-> parse_packet(packet)]

\* MouseDriver::poll_event: one byte a call; a packet starts with a byte whose
\* bit 3 is set.
mouse_poll_event(m, hw) ==
    LET byte == read_aux_byte(hw)
        packet == Append(m.packet, byte)
    IN IF ~m.initialized \/ byte = NoByte THEN [m |-> m, hw |-> hw, event |-> NoEvent]
       ELSE IF m.packet = <<>> /\ ~Bit(byte, 3)
       THEN [m |-> m, hw |-> Taken(hw), event |-> NoEvent]
       ELSE IF Len(packet) < m.packet_size
       THEN [m |-> [m EXCEPT !.packet = packet], hw |-> Taken(hw), event |-> NoEvent]
       ELSE [m |-> [m EXCEPT !.packet = <<>>], hw |-> Taken(hw),
             event |-> parse_packet(packet)]
=============================================================================
