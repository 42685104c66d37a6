------------------------------ MODULE FrameQueue ----------------------------
(***************************************************************************)
(* The outbound message queue of the MQTT client: queue.c and proto.c over *)
(* the byte ring, with its three users in mqtt.c: the push loop of         *)
(* MQTT_Publish / Subscribe / UnSubscribe / Ping, the single put of a      *)
(* reply in mqtt_tcpclient_recv, and the get in MQTT_Task.                 *)
(*                                                                         *)
(* A message is framed: a begin byte, its escaped bytes, an end byte.  A   *)
(* put that runs out of room leaves the bytes already put in the ring.     *)
(* A get reads up to the first end byte, and keeps what follows the last   *)
(* begin byte before it.  Each pass of the push loop is a step of its own; *)
(* no other handler runs while a loop is under way (phase # "idle").       *)
(***************************************************************************)
EXTENDS Integers, Sequences

CONSTANTS Msg,    (* the messages                                          *)
          NoMsg,  (* not a message                                         *)
          Wire,   (* the frame of each message, as PROTO_AddRb puts it     *)
          Size    (* QUEUE_BUFFER_SIZE                                     *)

Byte == 0 .. 255
Begin == 126
End == 127

ASSUME SizeAssumption == Size \in Nat /\ Size >= 2
ASSUME NoMsgAssumption == NoMsg \notin Msg

(* Escaping leaves the two markers at the ends of a frame only.            *)
ASSUME WireAssumption ==
  /\ Wire \in [Msg -> Seq(Byte)]
  /\ \A m \in Msg :
       /\ Len(Wire[m]) >= 2
       /\ Wire[m][1] = Begin
       /\ Wire[m][Len(Wire[m])] = End
       /\ \A i \in 2 .. (Len(Wire[m]) - 1) : Wire[m][i] \notin {Begin, End}

VARIABLES ring,      (* the bytes in the ring, oldest first                *)
          phase,     (* the push loop: "idle", or what it does next        *)
          pushing,   (* the message of the push loop under way, or NoMsg   *)
          out,       (* the bytes read by the last QUEUE_Gets of MQTT_Task *)
          live,      (* history: messages accepted and not removed since   *)
          starts,    (* history: where in ring the frame of each begins    *)
          largest    (* history: longest frame evicted by the loop         *)

vars == <<ring, phase, pushing, out, live, starts, largest>>

-----------------------------------------------------------------------------
Room == Size - Len(ring)

QUEUE_IsEmpty == ring = <<>>

HasFrame == \E i \in 1 .. Len(ring) : ring[i] = End

(* Slips the checks must notice: reading up to the last end byte, or not   *)
(* up to it.                                                               *)
LastEnd == CHOOSE i \in 1 .. Len(ring) :
             ring[i] = End /\ \A j \in (i + 1) .. Len(ring) : ring[j] # End

EndLeft == (CHOOSE i \in 1 .. Len(ring) :
              ring[i] = End /\ \A j \in 1 .. (i - 1) : ring[j] # End) - 1

(* Where QUEUE_Gets stops reading, and what it makes of the bytes read.    *)
FirstEnd == CHOOSE i \in 1 .. Len(ring) :
              ring[i] = End /\ \A j \in 1 .. (i - 1) : ring[j] # End

LastBegin(bytes) == CHOOSE i \in 1 .. Len(bytes) :
                      /\ bytes[i] = Begin
                      /\ \A j \in (i + 1) .. Len(bytes) : bytes[j] # Begin

FrameIn(bytes) == SubSeq(bytes, LastBegin(bytes), Len(bytes))

(* QUEUE_Puts: all of the frame, or -1 and as much of it as there is room  *)
(* for.                                                                    *)
PutsOK(m) == Len(Wire[m]) <= Room

(* A slip: the end byte is put whether or not the others found room.       *)
PutsClosing(m) ==
  IF PutsOK(m)
  THEN /\ ring' = ring \o Wire[m]
       /\ live' = Append(live, m)
       /\ starts' = Append(starts, Len(ring) + 1)
  ELSE /\ ring' = IF Room = 0 THEN ring
                  ELSE ring \o SubSeq(Wire[m], 1, Room - 1) \o <<End>>
       /\ UNCHANGED <<live, starts>>

QUEUE_Puts(m) ==
  IF PutsOK(m)
  THEN /\ ring' = ring \o Wire[m]
       /\ live' = Append(live, m)
       /\ starts' = Append(starts, Len(ring) + 1)
  ELSE /\ ring' = ring \o SubSeq(Wire[m], 1, Room)
       /\ UNCHANGED <<live, starts>>

(* A slip: the end byte is left in the ring.                               *)
GetsLeavingEnd ==
  IF HasFrame
  THEN /\ ring' = SubSeq(ring, FirstEnd, Len(ring))
       /\ live' = SubSeq(live, 2, Len(live))
       /\ starts' = [k \in 1 .. (Len(starts) - 1) |-> starts[k + 1] - FirstEnd + 1]
  ELSE /\ ring' = <<>>
       /\ UNCHANGED <<live, starts>>

(* QUEUE_Gets: everything up to the first end byte, or -1 and the ring is  *)
(* read empty.                                                             *)
QUEUE_Gets ==
  IF HasFrame
  THEN /\ ring' = SubSeq(ring, FirstEnd + 1, Len(ring))
       /\ live' = Tail(live)
       /\ starts' = [k \in 1 .. (Len(starts) - 1) |-> starts[k + 1] - FirstEnd]
  ELSE /\ ring' = <<>>
       /\ UNCHANGED <<live, starts>>

-----------------------------------------------------------------------------
Init == /\ ring = <<>>
        /\ phase = "idle"
        /\ pushing = NoMsg
        /\ out = <<>>
        /\ live = <<>>
        /\ starts = <<>>
        /\ largest = 0

(* One evaluation of the loop condition QUEUE_Puts(...) == -1.             *)
TryPuts(m) ==
  /\ QUEUE_Puts(m)
  /\ IF PutsOK(m) THEN phase' = "idle" /\ pushing' = NoMsg /\ largest' = 0
                  ELSE phase' = "evict" /\ pushing' = m /\ UNCHANGED largest
  /\ UNCHANGED out

MQTT_Publish(m) == phase = "idle" /\ TryPuts(m)

(* A slip: the loop never gives up.                                        *)
EvictForever ==
  /\ phase = "evict"
  /\ QUEUE_Gets
  /\ phase' = "retry"
  /\ largest' = IF HasFrame /\ FirstEnd > largest THEN FirstEnd ELSE largest
  /\ UNCHANGED <<pushing, out>>

(* The loop body.  Reading a frame makes the loop try again; finding none  *)
(* is the "Serious buffer error" that makes it return FALSE.               *)
Evict ==
  /\ phase = "evict"
  /\ QUEUE_Gets
  /\ IF HasFrame
     THEN /\ phase' = "retry"
          /\ largest' = IF FirstEnd > largest THEN FirstEnd ELSE largest
          /\ UNCHANGED pushing
     ELSE /\ phase' = "idle"
          /\ pushing' = NoMsg
          /\ largest' = 0
  /\ UNCHANGED out

Retry == phase = "retry" /\ TryPuts(pushing)

(* A PUBACK, PUBREC, PUBREL, PUBCOMP or PINGRESP is put once; on -1 it is  *)
(* given up.                                                               *)
Reply(m) == /\ phase = "idle"
            /\ QUEUE_Puts(m)
            /\ UNCHANGED <<phase, pushing, out, largest>>

(* The MQTT_DATA case of MQTT_Task, when it is not waiting for a send.     *)
SendNext == /\ phase = "idle"
            /\ ~QUEUE_IsEmpty
            /\ QUEUE_Gets
            /\ out' = IF HasFrame THEN SubSeq(ring, 1, FirstEnd) ELSE out
            /\ UNCHANGED <<phase, pushing, largest>>

Next == \/ \E m \in Msg : MQTT_Publish(m) \/ Reply(m)
        \/ Evict
        \/ Retry
        \/ SendNext

Spec == Init /\ [][Next]_vars

(* A handler, once called, runs to its end.                                *)
FairSpec == Spec /\ WF_vars(Evict \/ Retry)

-----------------------------------------------------------------------------
(* Every variable keeps its range; the ring never holds more than Size     *)
(* bytes, whatever partial frames it has taken (ringbuf.c line 34).        *)
TypeOK == /\ ring \in Seq(Byte)
          /\ Len(ring) <= Size
          /\ phase \in {"idle", "evict", "retry"}
          /\ pushing \in Msg \cup {NoMsg}
          /\ phase = "idle" <=> pushing = NoMsg
          /\ out \in Seq(Byte)
          /\ live \in Seq(Msg)
          /\ starts \in Seq(Nat)
          /\ largest \in Nat

EndOf(k) == starts[k] + Len(Wire[live[k]]) - 1

(* The frames of the accepted messages lie in the ring whole and in order, *)
(* and every end byte is the end of one of them: a partial frame left by a *)
(* failed put (proto.c lines 109-125 have no rollback) never passes for a  *)
(* message and never damages one.                                          *)
FramesIntact ==
  /\ Len(starts) = Len(live)
  /\ \A k \in 1 .. Len(live) :
       /\ starts[k] >= 1
       /\ EndOf(k) <= Len(ring)
       /\ \A j \in 1 .. Len(Wire[live[k]]) :
            ring[starts[k] + j - 1] = Wire[live[k]][j]
       /\ \A l \in 1 .. Len(live) : k < l => EndOf(k) < starts[l]
  /\ \A i \in 1 .. Len(ring) :
       ring[i] = End => \E k \in 1 .. Len(live) : i = EndOf(k)

(* The next byte a get reads is always a begin byte, so that the isBegin   *)
(* flag PROTO_Init (proto.c lines 3-11) leaves uninitialized is written    *)
(* before it is read.                                                      *)
StartsAtFrame ==
  /\ ring # <<>> => ring[1] = Begin
  /\ \A i \in 1 .. (Len(ring) - 1) : ring[i] = End => ring[i + 1] = Begin

IInv == TypeOK /\ FramesIntact /\ StartsAtFrame

(* When the push loop is about to give up, its message is longer than      *)
(* every frame it pushed out: a message no longer than one that is queued  *)
(* is never refused, although failed puts keep filling the room the        *)
(* evictions make (mqtt.c lines 592-598).                                  *)
RefusedOnlyIfLongest ==
  phase = "evict" => Len(Wire[pushing]) > largest

(* Why that holds: a failed put fills the ring to its last byte, so that    *)
(* the room at the next one is exactly the stretch evicted in between.     *)
LoopInv ==
  /\ phase = "idle" => largest = 0
  /\ phase = "evict" => Room = 0 /\ Len(Wire[pushing]) > largest
  /\ phase = "retry" => Len(Wire[pushing]) > largest \/ largest <= Room

(* The queue implements the message FIFO.                                  *)
WireQueue == [k \in 1 .. Len(live) |-> Wire[live[k]]]

Fifo == INSTANCE MessageFifo WITH
          Message <- {Wire[m] : m \in Msg},
          NoMessage <- <<>>,
          queue <- WireQueue,
          wanted <- IF phase = "idle" THEN <<>> ELSE Wire[pushing],
          taken <- IF out = <<>> THEN <<>> ELSE FrameIn(out)

ImplementsFifo == Fifo!Spec

(* A call of MQTT_Publish returns: the loop, which runs inside a           *)
(* cooperative task with a watchdog, makes finitely many passes.           *)
PushReturns == phase # "idle" ~> phase = "idle"

=============================================================================
