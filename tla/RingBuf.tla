------------------------------- MODULE RingBuf ------------------------------
(***************************************************************************)
(* The byte ring of esp/src/mqtt/ringbuf.c: a buffer of Size slots, a      *)
(* write and a read pointer that wrap at the physical end, and a fill      *)
(* count that tells a full ring from an empty one.  Pointers are offsets   *)
(* from p_o.                                                               *)
(***************************************************************************)
EXTENDS Integers, Sequences

CONSTANTS Byte, Size

(* RINGBUF_Init refuses a ring of fewer than two slots.                    *)
ASSUME SizeAssumption == Size \in Nat /\ Size >= 2
ASSUME ByteAssumption == Byte # {}

VARIABLES buf,        (* the slots: whatever the heap holds at first       *)
          p_r, p_w,   (* read and write offsets                            *)
          fill_cnt,   (* number of filled slots                            *)
          got,        (* *c of the last RINGBUF_Get                        *)
          ret         (* return value of the last call                     *)

vars == <<buf, p_r, p_w, fill_cnt, got, ret>>

Slots == 0 .. (Size - 1)

(* Slips the checks must notice (the mutants of PROJECT.json): a put that   *)
(* overwrites on a full ring, a get that advances before it reads.         *)
PutOverwriting(c) ==
  /\ fill_cnt' = IF fill_cnt < Size THEN fill_cnt + 1 ELSE fill_cnt
  /\ buf' = [buf EXCEPT ![p_w] = c]
  /\ p_w' = IF p_w + 1 >= Size THEN 0 ELSE p_w + 1
  /\ ret' = 0
  /\ UNCHANGED <<p_r, got>>

GetAdvancedFirst ==
  /\ fill_cnt > 0
  /\ fill_cnt' = fill_cnt - 1
  /\ p_r' = IF p_r + 1 >= Size THEN 0 ELSE p_r + 1
  /\ got' = buf[p_r']
  /\ ret' = 0
  /\ UNCHANGED <<buf, p_w>>

(* The address `n' slots after offset p, wrapped as the pointers are.      *)
Offset(p, n) == IF p + n >= Size THEN p + n - Size ELSE p + n

RINGBUF_Init == /\ buf \in [Slots -> Byte]
                /\ p_r = 0
                /\ p_w = 0
                /\ fill_cnt = 0
                /\ got \in Byte
                /\ ret = 0

RINGBUF_Put(c) ==
  \/ /\ fill_cnt >= Size
     /\ ret' = -1
     /\ UNCHANGED <<buf, p_r, p_w, fill_cnt, got>>
  \/ /\ fill_cnt < Size
     /\ fill_cnt' = fill_cnt + 1
     /\ buf' = [buf EXCEPT ![p_w] = c]
     /\ p_w' = Offset(p_w, 1)
     /\ ret' = 0
     /\ UNCHANGED <<p_r, got>>

RINGBUF_Get ==
  \/ /\ fill_cnt <= 0
     /\ ret' = -1
     /\ UNCHANGED <<buf, p_r, p_w, fill_cnt, got>>
  \/ /\ fill_cnt > 0
     /\ fill_cnt' = fill_cnt - 1
     /\ got' = buf[p_r]
     /\ p_r' = Offset(p_r, 1)
     /\ ret' = 0
     /\ UNCHANGED <<buf, p_w>>

Next == \/ \E c \in Byte : RINGBUF_Put(c)
        \/ RINGBUF_Get

Spec == RINGBUF_Init /\ [][Next]_vars

-----------------------------------------------------------------------------
(* Every variable keeps its C type's range: the pointers never leave the   *)
(* buffer and the count never leaves 0..size (ringbuf.c lines 32-67).      *)
TypeOK == /\ buf \in [Slots -> Byte]
          /\ p_r \in Slots
          /\ p_w \in Slots
          /\ fill_cnt \in 0 .. Size
          /\ got \in Byte
          /\ ret \in {0, -1}

(* The write pointer is always fill_cnt slots after the read pointer, so   *)
(* that a wrap of one pointer and not of the other never makes the count   *)
(* and the pointers disagree (ringbuf.c lines 42 and 63).                  *)
PointersAgree == p_w = Offset(p_r, fill_cnt)

IInv == TypeOK /\ PointersAgree

(* The bytes between the two pointers, oldest first.                       *)
Content == [i \in 1 .. fill_cnt |-> buf[Offset(p_r, i - 1)]]

(* The ring implements a bounded FIFO: bytes come out in the order they    *)
(* went in, none is overwritten before it is read, and a refused call      *)
(* changes nothing.                                                        *)
Fifo == INSTANCE ByteFifo WITH content <- Content
ImplementsFifo == Fifo!Spec

=============================================================================
