------------------------------- MODULE Base64 -------------------------------
(***************************************************************************)
(* Base64 as the firmware (driver/base64.c) and the web page               *)
(* (web/js/lib/b64.js) do it.  The two alphabets are the same, so that a   *)
(* character is its index in the alphabet, and Pad is '='.                 *)
(***************************************************************************)
EXTENDS Integers, Sequences

Byte == 0 .. 255
Pad == 64

(* The 24 bits of three bytes and of four sextets, and their parts.        *)
OfBytes(a, b, c) == a * 65536 + b * 256 + c
OfSextets(a, b, c, d) == a * 262144 + b * 4096 + c * 64 + d
SextetOf(triple, n) == (triple \div 64 ^ (3 - n)) % 64
ByteOf(triple, n) == (triple \div 256 ^ (2 - n)) % 256

-----------------------------------------------------------------------------
(* The firmware.                                                           *)

mod_table == <<0, 2, 1>>

base64_encode2(data) ==
  LET length == 4 * ((Len(data) + 2) \div 3)
      Octet(k) == IF k <= Len(data) THEN data[k] ELSE 0
      Triple(q) == OfBytes(Octet(3 * q + 1), Octet(3 * q + 2), Octet(3 * q + 3))
  IN  [k \in 1 .. length |->
         IF k > length - mod_table[(Len(data) % 3) + 1]
         THEN Pad
         ELSE SextetOf(Triple((k - 1) \div 4), (k - 1) % 4)]

(* base64_decode2 returns NULL for other texts.                            *)
Decodes(text) == Len(text) % 4 = 0

(* The first bytes of what the sextets of a text hold.                     *)
Unpacked(text, length) ==
  LET Sextet(k) == IF text[k] = Pad THEN 0 ELSE text[k]
      Triple(q) == OfSextets(Sextet(4 * q + 1), Sextet(4 * q + 2),
                             Sextet(4 * q + 3), Sextet(4 * q + 4))
  IN  [k \in 1 .. length |-> ByteOf(Triple((k - 1) \div 3), (k - 1) % 3)]

(* The two tests of the text's end; a slip looks at the last only.         *)
PadsLast(text) == IF text[Len(text)] = Pad THEN 1 ELSE 0
Pads(text) == (IF text[Len(text)] = Pad THEN 1 ELSE 0)
                + (IF text[Len(text) - 1] = Pad THEN 1 ELSE 0)

base64_decode2(text) ==
  Unpacked(text, (Len(text) \div 4) * 3 - Pads(text))

-----------------------------------------------------------------------------
(* The web page: whole triples first, then what is left over.              *)

fromByteArray(data) ==
  LET extra == Len(data) % 3
      whole == Len(data) - extra
      Triple(q) == OfBytes(data[3 * q + 1], data[3 * q + 2], data[3 * q + 3])
      last == data[Len(data)]
      two == data[Len(data) - 1] * 256 + last
  IN  [k \in 1 .. (whole \div 3) * 4 |->
         SextetOf(Triple((k - 1) \div 4), (k - 1) % 4)]
      \o CASE extra = 0 -> <<>>
           [] extra = 1 -> <<last \div 4, (last * 16) % 64, Pad, Pad>>
           [] extra = 2 -> <<two \div 1024, (two \div 16) % 64, (two * 4) % 64, Pad>>

toByteArray(text) ==
  LET placeHolders == IF text[Len(text) - 1] = Pad THEN 2
                      ELSE IF text[Len(text)] = Pad THEN 1 ELSE 0
      whole == IF placeHolders > 0 THEN Len(text) - 4 ELSE Len(text)
      Triple(q) == OfSextets(text[4 * q + 1], text[4 * q + 2],
                             text[4 * q + 3], text[4 * q + 4])
      rest(k) == text[whole + k]
      two == rest(1) * 1024 + rest(2) * 16 + rest(3) \div 4
  IN  [k \in 1 .. (whole \div 4) * 3 |->
         ByteOf(Triple((k - 1) \div 3), (k - 1) % 3)]
      \o CASE placeHolders = 0 -> <<>>
           [] placeHolders = 1 -> <<(two \div 256) % 256, two % 256>>
           [] placeHolders = 2 -> <<(rest(1) * 4 + rest(2) \div 16) % 256>>
=============================================================================
