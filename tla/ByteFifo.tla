------------------------------ MODULE ByteFifo ------------------------------
(***************************************************************************)
(* What ringbuf.c promises its callers: a FIFO of at most Size bytes in    *)
(* which a put on a full queue and a get on an empty one fail and change   *)
(* nothing.  ret is the return value of the last call, got the last byte   *)
(* handed out through RINGBUF_Get's output pointer.                        *)
(***************************************************************************)
EXTENDS Integers, Sequences

CONSTANTS Byte,   (* the values a slot can hold  *)
          Size    (* the capacity, r->size       *)

VARIABLES content, got, ret

Init == /\ content = <<>>
        /\ got \in Byte
        /\ ret = 0

Put(c) == /\ Len(content) < Size
          /\ content' = Append(content, c)
          /\ ret' = 0
          /\ UNCHANGED got

PutFull == /\ Len(content) = Size
           /\ ret' = -1
           /\ UNCHANGED <<content, got>>

Get == /\ content # <<>>
       /\ got' = Head(content)
       /\ content' = Tail(content)
       /\ ret' = 0

GetEmpty == /\ content = <<>>
            /\ ret' = -1
            /\ UNCHANGED <<content, got>>

Next == \/ \E c \in Byte : Put(c)
        \/ PutFull
        \/ Get
        \/ GetEmpty

Spec == Init /\ [][Next]_<<content, got, ret>>

=============================================================================
