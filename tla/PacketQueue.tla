---------------------------- MODULE PacketQueue -----------------------------
(***************************************************************************)
(* The queue with the frames proto.c makes: what MQTT_Task reads into its  *)
(* dataBuffer and hands to espconn_send is the packet that was pushed.     *)
(***************************************************************************)
EXTENDS FrameQueue, Proto

CONSTANTS Packet,  (* the bytes of each message, as mqtt_msg.c builds it   *)
          BufSize  (* MQTT_BUF_SIZE, of out_buffer and of dataBuffer       *)

ASSUME PacketAssumption ==
  /\ BufSize \in Nat
  /\ Packet \in [Msg -> Seq(Byte)]
  /\ \A m \in Msg : Len(Packet[m]) <= BufSize
  /\ Wire = [m \in Msg |-> PROTO_AddRb(Packet[m])]

-----------------------------------------------------------------------------
(* What MQTT_Task hands to espconn_send is the packet of a message, to the *)
(* byte, whatever junk was read before the frame and whatever isBegin held *)
(* when the parser was set up (proto.c lines 13-69).                       *)
PacketIntact ==
  out # <<>> => \E m \in Msg :
    /\ FrameIn(out) = Wire[m]
    /\ \A begin \in BOOLEAN :
         PROTO_ParseRb(out, begin, BufSize) = Packet[m]

=============================================================================
