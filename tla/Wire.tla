-------------------------------- MODULE Wire --------------------------------
(* The messages of a controller's socket (crates/protocol): an echo of 9      *)
(* bytes, a command of 2, a Dolphin pad of 13 and a Switch pad of 15.  The    *)
(* reader has no mode and no header: the LENGTH says what a message is        *)
(* (pad.rs, input_thread), the room's format says which pad is spoken         *)
(* (controller.rs), and anything else hangs up.                               *)
(*                                                                            *)
(* A byte has BYTES values instead of 256, a word is two of them, and the     *)
(* masks of known buttons keep their place in the word.  A page encodes a     *)
(* message; the network may hand over the bytes of another page, of another   *)
(* version or of a faulty client (one byte changed, a byte lost or added).    *)
EXTENDS Integers, Sequences

CONSTANTS BYTES,       \* values of a byte (a power of two)
          MAX_SLOT,    \* MAX_PLAYERS of the protocol
          KNOWN,       \* Buttons::KNOWN
          Words,       \* raw words a client may press or push
          SEAT,        \* the port the connection holds
          Formats      \* formats a room may have: a subset of {"Dolphin", "Switch"}

ASSUME WireAssumption ==
  /\ BYTES \in Nat /\ BYTES >= 8 /\ BYTES % 2 = 0
  /\ MAX_SLOT \in Nat /\ MAX_SLOT < BYTES /\ SEAT \in 1 .. MAX_SLOT
  /\ KNOWN \in 0 .. BYTES * BYTES - 1 /\ Words \subseteq 0 .. BYTES * BYTES - 1
  /\ Formats \subseteq {"Dolphin", "Switch"}

VARIABLES format,   \* the room's pad: "Dolphin" or "Switch"
          meant,    \* what the page means, Silence when the bytes are nobody's
          bytes,    \* what travels
          heard     \* what the worker understood, Silence before

wireVars == <<format, meant, bytes, heard>>

Silence == [is |-> "silence"]
HangUpOn == [is |-> "hang up"]     \* the connection is closed
Ignored == [is |-> "ignored"]      \* nine bytes without the mark: kept open
Byte == 0 .. BYTES - 1
ECHO == 9
COMMAND == 2
WIRE_LEN == 13
SWITCH_LEN == 15
TAG == BYTES - 1                   \* 0xE0, the mark of an echo
SWITCH_TAG == BYTES - 2            \* 0x53
VERSION == 1

le(word) == <<word % BYTES, word \div BYTES>>
word(b, at) == b[at] + BYTES * b[at + 1]
Half == (BYTES * BYTES) \div 2
signed(w) == IF w < Half THEN w ELSE w - 2 * Half
unsigned(i) == IF i < 0 THEN i + 2 * Half ELSE i
MIN == -Half                       \* i16::MIN

-----------------------------------------------------------------------------
(* The typed values.  Each has one constructor, and it refuses or repairs.    *)

IsSlot(raw) == raw # 0 /\ raw <= MAX_SLOT

\* Mutant: the most negative axis is let through.
stick_raw(x, y) == [x |-> x, y |-> y]
stick(x, y) == [x |-> IF x = MIN THEN MIN + 1 ELSE x,
                y |-> IF y = MIN THEN MIN + 1 ELSE y]

(* bits & !KNOWN = 0, the known bits being the low ones.                      *)
IsKnown(bits) == bits <= KNOWN
SWITCH_KNOWN == BYTES * BYTES - 1  \* 0xffff: two bytes of the four
IsSwitchKnown(bits) == bits <= SWITCH_KNOWN

Sticks == {stick(signed(x), signed(y)) : x, y \in Words}
(* Every pad and every command a page of this version may send.               *)
Opcode == <<"SwitchRom", "ChooseSave", "ChoosePad", "ChooseExtension">>
Commands == [is : {"command"}, order : {Opcode[o] : o \in DOMAIN Opcode}, argument : {0, TAG}]
Echoes == [is : {"echo"}, token : {<<t, 0, 0, 0, 0, 0, 0, 1>> : t \in {0, TAG}}]
PadMessages == [is : {"pad"}, slot : {1, MAX_SLOT}, buttons : {w \in Words : IsKnown(w)},
         main : Sticks, c : {stick(0, 0), stick(1, -2)}, l : {0, TAG}, r : {0}]
SwitchPadMessages == [is : {"switch"}, slot : {1, MAX_SLOT}, buttons : Words,
               left : Sticks, right : {stick(0, 0), stick(1, -2)}]
Messages == Commands \cup Echoes \cup IF format = "Dolphin" THEN PadMessages ELSE SwitchPadMessages

Axes(s) == le(unsigned(s.x)) \o le(unsigned(s.y))
encode(m) ==
  CASE m.is = "echo"    -> <<TAG>> \o m.token
    [] m.is = "command" -> <<CHOOSE o \in DOMAIN Opcode : Opcode[o] = m.order, m.argument>>
    [] m.is = "pad"     -> le(m.buttons) \o <<m.slot>> \o Axes(m.main) \o Axes(m.c) \o <<m.l, m.r>>
    [] m.is = "switch"  -> <<SWITCH_TAG, VERSION, m.slot>> \o le(m.buttons) \o <<0, 0>>
                           \o Axes(m.left) \o Axes(m.right)

(* Bytes counted from 0 in the source, from 1 here.                           *)
StickAt(b, at) == stick(signed(word(b, at + 1)), signed(word(b, at + 3)))

\* Mutant: the second stick is read one byte too early.
decode_pad_shifted(b) ==
  IF IsKnown(word(b, 1)) /\ IsSlot(b[3])
  THEN [is |-> "pad", slot |-> SEAT, buttons |-> word(b, 1), main |-> StickAt(b, 3),
        c |-> StickAt(b, 6), l |-> b[12], r |-> b[13]]
  ELSE HangUpOn
(* InputFrame::decode, then the seat of the connection (InputKind::decode).   *)
decode_pad(b) ==
  IF IsKnown(word(b, 1)) /\ IsSlot(b[3])
  THEN [is |-> "pad", slot |-> SEAT, buttons |-> word(b, 1), main |-> StickAt(b, 3),
        c |-> StickAt(b, 7), l |-> b[12], r |-> b[13]]
  ELSE HangUpOn

\* Mutant: the two high bytes of the four of the mask are not looked at.
decode_switch_low(b) ==
  IF /\ <<b[1], b[2]>> = <<SWITCH_TAG, VERSION>> /\ IsSlot(b[3])
  THEN [is |-> "switch", slot |-> SEAT, buttons |-> word(b, 4),
        left |-> StickAt(b, 7), right |-> StickAt(b, 11)]
  ELSE HangUpOn
(* SwitchFrame::decode, then the seat of the connection.                      *)
decode_switch(b) ==
  IF /\ <<b[1], b[2]>> = <<SWITCH_TAG, VERSION>> /\ IsSlot(b[3])
     /\ IsSwitchKnown(word(b, 4) + BYTES * BYTES * word(b, 6))
  THEN [is |-> "switch", slot |-> SEAT, buttons |-> word(b, 4),
        left |-> StickAt(b, 7), right |-> StickAt(b, 11)]
  ELSE HangUpOn

decode_command(b) ==
  IF b[1] \in DOMAIN Opcode
  THEN [is |-> "command", order |-> Opcode[b[1]], argument |-> b[2]] ELSE HangUpOn
bounce(b) == IF b[1] = TAG THEN [is |-> "echo", token |-> Tail(b)] ELSE Ignored
decode(b) == CASE format = "Dolphin" /\ Len(b) = WIRE_LEN -> decode_pad(b)
               [] format = "Switch" /\ Len(b) = SWITCH_LEN -> decode_switch(b)
               [] OTHER -> HangUpOn
(* One message of the socket: told apart by its length alone.                 *)
reading(b) == CASE Len(b) = ECHO -> bounce(b)
                [] Len(b) = COMMAND -> decode_command(b)
                [] OTHER -> decode(b)

-----------------------------------------------------------------------------
WireInit == /\ format \in Formats /\ heard = Silence
            /\ meant = Silence /\ bytes = << >>

Fresh == heard = Silence /\ bytes # << >>
Say(m) == /\ bytes = << >> /\ meant' = m /\ bytes' = encode(m) /\ UNCHANGED <<format, heard>>
(* Bytes no page of this version meant.                                       *)
Mistaken == meant # Silence /\ Fresh /\ meant' = Silence /\ UNCHANGED <<format, heard>>
Alter(at, b) == Mistaken /\ bytes[at] # b /\ bytes' = [bytes EXCEPT ![at] = b]
Shorten == Mistaken /\ bytes' = Tail(bytes)
Lengthen == Mistaken /\ bytes' = Append(bytes, 0)
Hear == Fresh /\ heard' = reading(bytes) /\ UNCHANGED <<format, meant, bytes>>

WireNext == \/ \E m \in Messages : Say(m)
            \/ \E at \in DOMAIN bytes, b \in Byte : Alter(at, b)
            \/ Shorten \/ Lengthen \/ Hear
WireSpec == WireInit /\ [][WireNext]_wireVars

-----------------------------------------------------------------------------
(* The axes given to the private pads of a Switch game (ingress.rs, command): *)
(* up is negative there, so both vertical axes are negated.                   *)
command(frame) == [player |-> frame.slot, lx |-> frame.left.x, ly |-> -frame.left.y,
                   rx |-> frame.right.x, ry |-> -frame.right.y]

InRange(s) == {s.x, s.y, -s.x, -s.y} \subseteq MIN + 1 .. -(MIN + 1)
WireTypeOK == /\ format \in Formats /\ bytes \in Seq(Byte) /\ Len(bytes) <= SWITCH_LEN + 1
              /\ heard.is \in {"silence", "hang up", "ignored", "echo", "command", "pad", "switch"}

(* What a page of this version means is what the worker understands, for the  *)
(* seat of its connection and whatever seat the message names.                *)
HeardAsMeant ==
  heard # Silence /\ meant # Silence =>
    heard = IF meant.is \in {"pad", "switch"} THEN [meant EXCEPT !.slot = SEAT] ELSE meant

(* Whatever bytes arrive, a pad that is accepted moves the seat of its own    *)
(* connection, holds only buttons this version knows, and has axes whose      *)
(* opposite exists, so the negation made for the Switch pads cannot overflow. *)
AcceptedIsSound ==
  /\ heard.is = "pad" => /\ heard.slot = SEAT /\ IsKnown(heard.buttons)
                         /\ InRange(heard.main) /\ InRange(heard.c)
  /\ heard.is = "switch" => /\ command(heard).player = SEAT
                            /\ InRange([x |-> command(heard).lx, y |-> command(heard).ly])
                            /\ InRange([x |-> command(heard).rx, y |-> command(heard).ry])

(* Nothing of an accepted message is dropped in silence: encoded again, it is *)
(* the bytes that came, but for the seat and for the one axis that has no     *)
(* opposite.  A newer page's bit therefore hangs up, it is never ignored.     *)
Repaired(at) == word(bytes, at) = Half     \* i16::MIN travelled at these two bytes
NothingDropped ==
  heard.is \in {"echo", "command", "pad", "switch"} =>
    LET again == encode(heard)
        axes == CASE heard.is = "pad" -> {4, 6, 8, 10}
                  [] heard.is = "switch" -> {8, 10, 12, 14}
                  [] OTHER -> {}
    IN /\ Len(again) = Len(bytes)
       /\ \A i \in DOMAIN bytes :
            \/ again[i] = bytes[i]
            \/ i = 3 /\ heard.is \in {"pad", "switch"}
            \/ \E at \in axes : i \in {at, at + 1} /\ Repaired(at)
=============================================================================
