----------------------------- MODULE MessageFifo ----------------------------
(***************************************************************************)
(* What the outbound MQTT queue promises: a FIFO of whole messages.  A     *)
(* message that finds no room pushes out the oldest ones; it is refused    *)
(* only once nothing is left to push out.  Nothing is ever taken out of    *)
(* order, twice, cut short or mixed with another message.                  *)
(***************************************************************************)
EXTENDS Sequences

CONSTANTS Message, NoMessage

VARIABLES queue,     (* accepted and neither taken nor pushed out yet      *)
          wanted,    (* the message room is being made for, or NoMessage   *)
          taken      (* the message the last Take handed out               *)

Init == /\ queue = <<>>
        /\ wanted = NoMessage
        /\ taken = NoMessage

(* A message is accepted, at once or after others were pushed out for it.  *)
Accept(m) == /\ wanted \in {NoMessage, m}
             /\ queue' = Append(queue, m)
             /\ wanted' = NoMessage
             /\ UNCHANGED taken

MakeRoom(m) == /\ wanted = NoMessage
               /\ wanted' = m
               /\ UNCHANGED <<queue, taken>>

DropOldest == /\ wanted # NoMessage
              /\ queue # <<>>
              /\ queue' = Tail(queue)
              /\ UNCHANGED <<wanted, taken>>

Refuse == /\ wanted # NoMessage
          /\ queue = <<>>
          /\ wanted' = NoMessage
          /\ UNCHANGED <<queue, taken>>

Take == /\ wanted = NoMessage
        /\ queue # <<>>
        /\ taken' = Head(queue)
        /\ queue' = Tail(queue)
        /\ UNCHANGED wanted

Next == \/ \E m \in Message : Accept(m) \/ MakeRoom(m)
        \/ DropOldest
        \/ Refuse
        \/ Take

Spec == Init /\ [][Next]_<<queue, wanted, taken>>

=============================================================================
