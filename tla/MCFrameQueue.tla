---------------------------- MODULE MCFrameQueue ----------------------------
(* The queue on a ring of eight bytes, with frames made by proto.c.        *)
EXTENDS PacketQueue, TLC

CONSTANTS a, b, c, d

(* A frame of 3 bytes; one of 6 with both markers to escape; one of 5;     *)
(* and one of 9 that fits no ring of eight, from a packet that fills its   *)
(* buffer.                                                                 *)
MCMsg == {a, b, c, d}
MCPacket == (a :> <<7>>) @@ (b :> <<FrameEnd, FrameBegin>>)
              @@ (c :> <<FlipBit5(Escape), 1, 2>>)
              @@ (d :> <<1, Escape, 2, FrameEnd, 4>>)
MCWire == [m \in MCMsg |-> PROTO_AddRb(MCPacket[m])]

=============================================================================
