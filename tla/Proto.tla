-------------------------------- MODULE Proto -------------------------------
(***************************************************************************)
(* The byte-stuffing protocol of esp/src/mqtt/proto.c, as functions on     *)
(* byte sequences: what PROTO_AddRb feeds to the ring for a packet, and    *)
(* what PROTO_ParseRb makes of the bytes it reads back.                    *)
(***************************************************************************)
EXTENDS Integers, Sequences, SequencesExt

Escape == 125    \* 0x7D
FrameBegin == 126    \* 0x7E
FrameEnd == 127    \* 0x7F

(* value ^ 0x20 *)
FlipBit5(v) == IF (v \div 32) % 2 = 1 THEN v - 32 ELSE v + 32

EscapeByte(v) == IF v \in {Escape, FrameBegin, FrameEnd}
                 THEN <<Escape, FlipBit5(v)>>
                 ELSE <<v>>

(* The bytes PROTO_AddRb puts for a packet when none of the puts fails.    *)
PROTO_AddRb(packet) ==
  <<FrameBegin>>
    \o FlattenSeq([i \in 1 .. Len(packet) |-> EscapeByte(packet[i])])
    \o <<FrameEnd>>

(* A parser as PROTO_Init leaves it.  isBegin is not initialised there:    *)
(* begin is whatever the stack held.                                       *)
PROTO_Init(begin) == [buf |-> <<>>, isBegin |-> begin, isEsc |-> FALSE]

(* A slip the checks must notice: a begin byte keeps the bytes before it.  *)
ParseByteKeeping(parser, value, bufSize) ==
  CASE value = Escape -> [parser EXCEPT !.isEsc = TRUE]
    [] value = FrameBegin -> [parser EXCEPT !.isBegin = TRUE, !.isEsc = FALSE]
    [] value = FrameEnd -> [parser EXCEPT !.isBegin = FALSE]
    [] OTHER ->
         IF ~parser.isBegin THEN parser
         ELSE LET v == IF parser.isEsc THEN FlipBit5(value) ELSE value
              IN  [parser EXCEPT !.isEsc = FALSE,
                                 !.buf = IF Len(@) < bufSize
                                         THEN Append(@, v) ELSE @]

PROTO_ParseByte(parser, value, bufSize) ==
  CASE value = Escape -> [parser EXCEPT !.isEsc = TRUE]
    [] value = FrameBegin -> [buf |-> <<>>, isBegin |-> TRUE, isEsc |-> FALSE]
    [] value = FrameEnd -> [parser EXCEPT !.isBegin = FALSE]
    [] OTHER ->
         IF ~parser.isBegin THEN parser
         ELSE LET v == IF parser.isEsc THEN FlipBit5(value) ELSE value
              IN  [parser EXCEPT !.isEsc = FALSE,
                                 !.buf = IF Len(@) < bufSize
                                         THEN Append(@, v) ELSE @]

(* The packet PROTO_ParseRb leaves in bufOut after reading these bytes.    *)
PROTO_ParseRb(bytes, begin, bufSize) ==
  FoldLeft(LAMBDA parser, value : PROTO_ParseByte(parser, value, bufSize),
           PROTO_Init(begin), bytes).buf

=============================================================================
