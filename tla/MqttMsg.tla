------------------------------ MODULE MqttMsg ------------------------------
(***************************************************************************)
(* The MQTT messages of esp/src/mqtt/mqtt_msg.c as byte sequences: how the *)
(* client builds them and how it takes a received one apart.  A position   *)
(* i of the C code is position i + 1 here.                                 *)
(***************************************************************************)
EXTENDS Integers, Sequences, FiniteSetsExt

CONSTANTS
  BufferLength,   (* MQTT_BUF_SIZE: of in_buffer and of out_buffer         *)
  IdRange,        (* 2^16: message ids are counted modulo this             *)
  NULL            (* what mqtt_get_publish_topic returns if there is none  *)

ASSUME MsgAssumption ==
  /\ BufferLength \in Nat /\ 7 <= BufferLength /\ BufferLength <= 16386
  /\ IdRange \in Nat /\ 2 <= IdRange /\ IdRange <= 65536

Byte == 0 .. 255

CONNACK == 2
PUBLISH == 3
PUBACK == 4
PUBREC == 5
PUBREL == 6
PUBCOMP == 7
SUBSCRIBE == 8
SUBACK == 9
UNSUBACK == 11
PINGREQ == 12
PINGRESP == 13

-----------------------------------------------------------------------------
(* Building.  Strings are not empty here; a message that does not fit      *)
(* fails and is left empty.                                                *)
WordBytes(w) == <<w \div 256, w % 256>>

append_string(string) == WordBytes(Len(string)) \o string

(* The id append_message_id takes when it is given none: zero is skipped.  *)
Fresh(message_id) == LET next == (message_id + 1) % IdRange
                     IN  IF next = 0 THEN 1 ELSE next

(* A slip: a remaining length of 128 is still put into one byte.           *)
RemainingLengthLate(n) ==
  IF n > 128 THEN <<128 + (n % 128), n \div 128>> ELSE <<n>>

RemainingLength(n) ==
  IF n > 127 THEN <<128 + (n % 128), n \div 128>> ELSE <<n>>

fini_message(type, qos, retain, body) ==
  IF Len(body) + 3 > BufferLength THEN << >>
  ELSE <<16 * type + 2 * qos + retain>> \o RemainingLength(Len(body)) \o body

mqtt_msg_publish(topic, data, qos, retain, id) ==
  fini_message(PUBLISH, qos, retain,
    append_string(topic) \o (IF qos > 0 THEN WordBytes(id) ELSE << >>) \o data)

(* mqtt_msg_puback, _pubrec, _pubrel and _pubcomp                          *)
mqtt_msg_ack(type, id) ==
  fini_message(type, IF type = PUBREL THEN 1 ELSE 0, 0, WordBytes(id))

mqtt_msg_subscribe(topic, qos, id) ==
  fini_message(SUBSCRIBE, 1, 0, WordBytes(id) \o append_string(topic) \o <<qos>>)

mqtt_msg_pingresp == fini_message(PINGRESP, 0, 0, << >>)

-----------------------------------------------------------------------------
(* Taking apart.  buf is a whole buffer, length the part of it that counts. *)
mqtt_get_type(buf) == buf[1] \div 16
mqtt_get_qos(buf) == (buf[1] \div 2) % 4
WordAt(buf, i) == 256 * buf[i + 1] + buf[i + 2]

(* i after the loop over the bytes of the remaining length.                *)
HeaderEnd(buf, length) ==
  LET last == CHOOSE i \in 1 .. length :
                /\ i = length \/ buf[i + 1] < 128
                /\ \A j \in 1 .. i - 1 : buf[j + 1] >= 128
  IN  IF last = length THEN length ELSE last + 1

mqtt_get_total_length(buf, length) ==
  LET end == HeaderEnd(buf, length)
  IN  end + MapThenSumSet(LAMBDA i : (buf[i + 1] % 128) * 128^(i - 1),
                          1 .. end - 1)

(* A slip: the length of the topic is not compared with what arrived.      *)
TopicUnchecked(buf, length) ==
  LET i == HeaderEnd(buf, length)
  IN  IF i + 2 >= length \/ i + 2 + WordAt(buf, i) > BufferLength THEN NULL
      ELSE SubSeq(buf, i + 3, i + 2 + WordAt(buf, i))

mqtt_get_publish_topic(buf, length) ==
  LET i == HeaderEnd(buf, length)
  IN  IF i + 2 >= length \/ i + 2 + WordAt(buf, i) > length THEN NULL
      ELSE SubSeq(buf, i + 3, i + 2 + WordAt(buf, i))

(* No data is the empty sequence, whatever the pointer.                    *)
mqtt_get_publish_data(buf, length) ==
  LET i == HeaderEnd(buf, length)
      at == i + 2 + WordAt(buf, i)
      from == IF mqtt_get_qos(buf) > 0 THEN at + 2 ELSE at
      total == mqtt_get_total_length(buf, length)
  IN  IF \/ i + 2 >= length
         \/ at >= length
         \/ mqtt_get_qos(buf) > 0 /\ from >= length
         \/ total < from
      THEN << >>
      ELSE SubSeq(buf, from + 1, Min({total, length}))

mqtt_get_id(buf, length) ==
  LET i == HeaderEnd(buf, length)
      at == i + 2 + WordAt(buf, i)
  IN  CASE mqtt_get_type(buf) = PUBLISH ->
             IF \/ i + 2 >= length \/ at >= length
                \/ mqtt_get_qos(buf) = 0 \/ at + 2 >= length
             THEN 0 ELSE WordAt(buf, at)
        [] mqtt_get_type(buf) \in {PUBACK, PUBREC, PUBREL, PUBCOMP, SUBACK,
                                   UNSUBACK, SUBSCRIBE} ->
             IF length >= 4 /\ buf[2] < 128 THEN WordAt(buf, 2) ELSE 0
        [] OTHER -> 0

=============================================================================
