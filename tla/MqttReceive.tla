---------------------------- MODULE MqttReceive ----------------------------
(***************************************************************************)
(* What the MQTT client makes of the bytes TCP brings it                   *)
(* (mqtt_tcpclient_recv in esp/src/mqtt/mqtt.c): a segment is copied into  *)
(* in_buffer and read packet by packet as long as the packets are PUBLISH. *)
(* The broker's packets may share a segment, and a segment may end inside  *)
(* a packet; the code keeps nothing of a packet for the next segment.      *)
(*                                                                         *)
(* The states of the connection besides the two that look at packets, and  *)
(* what refuses or ends a connection, are MqttClient's; what the full      *)
(* queue does to a message put into it is FrameQueue's.  The bytes of a    *)
(* packet behind its header are below 128.                                 *)
(***************************************************************************)
EXTENDS MqttMsg, SequencesExt

CONSTANTS
  Packets,        (* what the broker sends: Packet records, below          *)
  MaxPackets,     (* bound: packets the broker sends                       *)
  MaxCuts,        (* bound: segments that end inside a packet              *)
  Command,        (* a topic whose handler publishes what it was given     *)
  Status,         (* the topic it publishes that on                        *)
  Subscriptions,  (* the topics mqttConnectedCb subscribes to, a sequence  *)
  Version         (* what it publishes then, on the topic Status           *)

Letter == 0 .. 127

Packet == [type : {PUBLISH, PUBREC, PUBREL, SUBACK, PINGREQ}, qos : 0 .. 2,
           id : {256 * high + low : high \in Letter, low \in Letter},
           topic : Seq(Letter), data : Seq(Letter)]

VARIABLES
  connState,
  in_buffer,
  pdata,          (* what is still to be read of the segment               *)
  out,            (* the last message_id, and what QUEUE_Puts was given    *)
  delivered,      (* what dataCb was called with                           *)
  wire,           (* the packets, or the end of one, still to be received  *)
  sent,           (* history: the packets the broker sent                  *)
  cuts,           (* history: the segments that ended inside a packet      *)
  aligned,        (* history: this segment started with a packet           *)
  reached         (* history: the packets the client acts on (ActsOn)      *)

client == <<connState, in_buffer, out, delivered>>
vars == <<client, pdata, wire, sent, cuts, aligned, reached>>

(* A packet as the broker encodes it.                                      *)
Encode(p) ==
  CASE p.type = CONNACK -> fini_message(CONNACK, 0, 0, <<0, 0>>)
    [] p.type = PUBLISH -> mqtt_msg_publish(p.topic, p.data, p.qos, 0, p.id)
    [] p.type = SUBACK -> fini_message(SUBACK, 0, 0, WordBytes(p.id) \o <<1>>)
    [] p.type = PINGREQ -> fini_message(PINGREQ, 0, 0, << >>)
    [] OTHER -> mqtt_msg_ack(p.type, p.id)

(* The broker's messages fit the client's buffer, and so do those it       *)
(* publishes; a command is not empty, and topics are short.                *)
ASSUME ReceiveAssumption ==
  /\ Packets \subseteq Packet
  /\ \A p \in Packets : p.type = PUBLISH => p.topic # << >> /\ Encode(p) # << >>
  /\ Status \in Seq(Byte) /\ Status # << >> /\ Command # Status
  /\ \A data \in {Version} \cup {p.data : p \in {q \in Packets : q.topic = Command}} :
       /\ data \in Seq(Byte) /\ data # << >>
       /\ mqtt_msg_publish(Status, data, 1, 1, 1) # << >>
  /\ Subscriptions \in Seq(Seq(Byte))
  /\ \A topic \in Range(Subscriptions) :
       topic # << >> /\ mqtt_msg_subscribe(topic, 1, 1) # << >> /\ Len(topic) <= 122
  /\ NULL \notin Seq(Byte)
  /\ MaxPackets \in Nat /\ MaxCuts \in Nat

Accepted == [type |-> CONNACK, qos |-> 0, id |-> 0, topic |-> << >>,
             data |-> << >>]

OnWire(p) == [packet |-> p, bytes |-> Encode(p), cut |-> FALSE]

-----------------------------------------------------------------------------
(* One pass of READPACKET.  in_buffer keeps the end of what was in it.     *)
Copied == pdata \o SubSeq(in_buffer, Len(pdata) + 1, BufferLength)

(* A slip: what fills the buffer and more is copied, too.                  *)
FitsAlways == pdata # << >>

Fits == pdata # << >> /\ Len(pdata) < BufferLength

TooLong ==
  /\ pdata # << >> /\ ~Fits
  /\ pdata' = << >>
  /\ UNCHANGED <<client, wire, sent, cuts, aligned, reached>>

(* A reply carries the id of the packet, or a fresh one if that is zero.   *)
Replied(o, type, id) ==
  LET n == IF id = 0 THEN Fresh(o.message_id) ELSE id
  IN  [message_id |-> IF id = 0 THEN n ELSE o.message_id,
       offered |-> Append(o.offered, mqtt_msg_ack(type, n))]

(* A message of the client's own; one that failed is not queued.           *)
Published(o, topic, data) ==
  LET n == Fresh(o.message_id)
      m == mqtt_msg_publish(topic, data, 1, 1, n)
  IN  [message_id |-> n,
       offered |-> IF m = << >> THEN o.offered ELSE Append(o.offered, m)]

Subscribed(o, topic) ==
  LET n == Fresh(o.message_id)
  IN  [message_id |-> n,
       offered |-> Append(o.offered, mqtt_msg_subscribe(topic, 1, n))]

mqttConnectedCb(o) ==
  Published(FoldLeft(Subscribed, o, Subscriptions), Status, Version)

(* The rest of the CONNACK's segment is not looked at.                     *)
RecvConnecting ==
  /\ Fits /\ connState = "MQTT_CONNECT_SENDING"
  /\ in_buffer' = Copied
  /\ pdata' = << >>
  /\ IF mqtt_get_type(in_buffer') = CONNACK
     THEN connState' = "MQTT_DATA" /\ out' = mqttConnectedCb(out)
     ELSE UNCHANGED <<connState, out>>
  /\ UNCHANGED <<delivered, wire, sent, cuts, aligned, reached>>

(* A slip: the packet is handled first and its id read afterwards.         *)
AnswerFresh(o, qos, id) ==
  CASE qos = 1 -> Replied(o, PUBACK, 0)
    [] qos = 2 -> Replied(o, PUBREC, 0)
    [] OTHER -> o

Answer(o, qos, id) ==
  CASE qos = 1 -> Replied(o, PUBACK, id)
    [] qos = 2 -> Replied(o, PUBREC, id)
    [] OTHER -> o

(* A slip: pdata is not moved on.                                          *)
BehindAgain(length) == IF length < Len(pdata) THEN pdata ELSE << >>

Behind(length) == SubSeq(pdata, length + 1, Len(pdata))

(* The id is looked for in all of in_buffer, topic and data only in what   *)
(* arrived.  The answer is queued before dataCb, whose handler may publish. *)
(* A topic that did not arrive as a whole is NULL, but dataCb copies from   *)
(* it: whatever lies at address 0, or a fault that resets the device.       *)
RecvPublish ==
  /\ Fits /\ connState = "MQTT_DATA"
  /\ in_buffer' = Copied
  /\ mqtt_get_type(in_buffer') = PUBLISH
  /\ LET id == mqtt_get_id(in_buffer', BufferLength)
         topic == mqtt_get_publish_topic(in_buffer', Len(pdata))
         data == mqtt_get_publish_data(in_buffer', Len(pdata))
         answered == Answer(out, mqtt_get_qos(in_buffer'), id)
     IN  /\ delivered' = Append(delivered, [topic |-> topic, data |-> data,
                                            whole |-> aligned])
         /\ out' = IF topic = Command THEN Published(answered, Status, data)
                                      ELSE answered
         /\ connState' \in IF topic = NULL THEN {"MQTT_DATA", "RESET"}
                            ELSE {"MQTT_DATA"}
  /\ pdata' = IF connState' = "RESET" THEN << >>
              ELSE Behind(mqtt_get_total_length(in_buffer', Len(pdata)))
  /\ UNCHANGED <<wire, sent, cuts, aligned, reached>>

(* After any other packet the rest of the segment is not looked at.        *)
RecvOther ==
  /\ Fits /\ connState = "MQTT_DATA"
  /\ in_buffer' = Copied
  /\ mqtt_get_type(in_buffer') # PUBLISH
  /\ pdata' = << >>
  /\ LET type == mqtt_get_type(in_buffer')
         id == mqtt_get_id(in_buffer', BufferLength)
     IN  out' = CASE type = PUBREC -> Replied(out, PUBREL, id)
                  [] type = PUBREL -> Replied(out, PUBCOMP, id)
                  [] type = PINGREQ -> [out EXCEPT !.offered = Append(@, mqtt_msg_pingresp)]
                  [] OTHER -> out
  /\ UNCHANGED <<connState, delivered, wire, sent, cuts, aligned, reached>>

READPACKET == TooLong \/ RecvConnecting \/ RecvPublish \/ RecvOther

-----------------------------------------------------------------------------
(* The broker, and TCP, which brings k whole packets and m bytes of the    *)
(* next one.                                                               *)
BrokerSends ==
  /\ Len(sent) <= MaxPackets
  /\ \E p \in Packets : sent' = Append(sent, p) /\ wire' = Append(wire, OnWire(p))
  /\ UNCHANGED <<client, pdata, cuts, aligned, reached>>

(* What the client is to act on of whole packets that come in one segment: *)
(* of one that fills the buffer nothing, before the CONNACK nothing but    *)
(* it, and then all up to the first that is not a PUBLISH.                 *)
ActsOn(packets, length) ==
  LET last == {j \in DOMAIN packets : packets[j].type # PUBLISH}
  IN  IF length >= BufferLength THEN << >>
      ELSE IF connState = "MQTT_CONNECT_SENDING"
      THEN IF packets # << >> /\ packets[1].type = CONNACK THEN <<packets[1]>>
           ELSE << >>
      ELSE SubSeq(packets, 1, Min(last \cup {Len(packets)}))

Segment(k, m) ==
  /\ pdata = << >> /\ connState # "RESET"
  /\ k + m > 0
  /\ m > 0 => cuts < MaxCuts
  /\ LET whole == SubSeq(wire, 1, k)
         part == IF m = 0 THEN << >> ELSE SubSeq(wire[k + 1].bytes, 1, m)
     IN  /\ pdata' = FlattenSeq([j \in 1 .. k |-> whole[j].bytes]) \o part
         /\ wire' = IF m = 0 THEN SubSeq(wire, k + 1, Len(wire))
                    ELSE <<[wire[k + 1] EXCEPT !.cut = TRUE,
                            !.bytes = SubSeq(@, m + 1, Len(@))]>>
                         \o SubSeq(wire, k + 2, Len(wire))
         /\ cuts' = IF m = 0 THEN cuts ELSE cuts + 1
         /\ aligned' = ~wire[1].cut
         /\ reached' = IF cuts' > 0 THEN reached
                       ELSE reached \o ActsOn([j \in 1 .. k |-> whole[j].packet],
                                              Len(pdata'))
  /\ UNCHANGED <<client, sent>>

Arrives == \E k \in 0 .. Len(wire) :
             \/ Segment(k, 0)
             \/ k < Len(wire) /\ \E m \in 1 .. Len(wire[k + 1].bytes) - 1 : Segment(k, m)

Init ==
  /\ connState = "MQTT_CONNECT_SENDING"
  /\ in_buffer = [i \in 1 .. BufferLength |-> 0]
  /\ pdata = << >>
  /\ out = [message_id |-> 0, offered |-> << >>]
  /\ delivered = << >>
  /\ wire = <<OnWire(Accepted)>> /\ sent = <<Accepted>>
  /\ cuts = 0 /\ aligned = TRUE /\ reached = << >>

Next == READPACKET \/ BrokerSends \/ Arrives

Spec == Init /\ [][Next]_vars

-----------------------------------------------------------------------------
(* Whatever arrives, in_buffer is never written beyond its end, and ids    *)
(* stay in their range and are not zero (mqtt.c line 293, mqtt_msg.c lines *)
(* 76-90).                                                                 *)
TypeOK ==
  /\ connState \in {"MQTT_CONNECT_SENDING", "MQTT_DATA", "RESET"}
  /\ in_buffer \in Seq(Byte) /\ Len(in_buffer) = BufferLength
  /\ pdata \in Seq(Byte)
  /\ out.message_id \in 0 .. IdRange - 1
  /\ out.offered \in Seq(Seq(Byte))
  /\ \A m \in Range(out.offered) : m # << >> /\ Len(m) <= BufferLength
  /\ cuts \in 0 .. MaxCuts
  /\ aligned \in BOOLEAN

(* What dataCb is called with for a packet that came as a whole.          *)
Given(p) ==
  IF p.type = PUBLISH THEN <<[topic |-> p.topic, data |-> p.data, whole |-> TRUE]>>
  ELSE << >>

(* Messages that share a segment are taken apart exactly: as long as no    *)
(* packet was cut, dataCb has seen each PUBLISH that was to be acted on,   *)
(* once, in order, with its own topic and all of its data, on both sides   *)
(* of the two forms of the remaining length (mqtt_msg.c lines 135-227,     *)
(* mqtt.c lines 414-427).                                                  *)
DeliversReached ==
  cuts = 0 /\ pdata = << >> =>
    delivered = FlattenSeq([j \in DOMAIN reached |-> Given(reached[j])])

(* What a packet makes the client queue: the type, the id of the packet or *)
(* 0 for a fresh one, and the data.                                        *)
Item(type, id, data) == [type |-> type, id |-> id, data |-> data]

Owed(p) ==
  CASE p.type = CONNACK -> [j \in DOMAIN Subscriptions |-> Item(SUBSCRIBE, 0, << >>)]
                           \o <<Item(PUBLISH, 0, Version)>>
    [] p.type = PUBLISH ->
         (CASE p.qos = 1 -> <<Item(PUBACK, p.id, << >>)>>
            [] p.qos = 2 -> <<Item(PUBREC, p.id, << >>)>>
            [] OTHER -> << >>)
         \o (IF p.topic = Command THEN <<Item(PUBLISH, 0, p.data)>> ELSE << >>)
    [] p.type = PUBREC -> <<Item(PUBREL, p.id, << >>)>>
    [] p.type = PUBREL -> <<Item(PUBCOMP, p.id, << >>)>>
    [] p.type = PINGREQ -> <<Item(PINGRESP, 0, << >>)>>
    [] OTHER -> << >>

(* Every packet acted on is answered once, in order, with its own id, and  *)
(* the client's own messages between the answers carry ids of their own,   *)
(* which count on past zero; each message is one the broker can read       *)
(* (mqtt_msg.c lines 63-133, 363-419, mqtt.c lines 365-405).               *)
AnswersReached ==
  cuts = 0 /\ pdata = << >> =>
    LET owed == FlattenSeq([j \in DOMAIN reached |-> Owed(reached[j])])
        Own(j) == Cardinality({i \in 1 .. j : owed[i].id = 0
                                               /\ owed[i].type # PINGRESP})
    IN  /\ Len(out.offered) = Len(owed)
        /\ \A j \in DOMAIN owed :
             LET m == out.offered[j]
             IN  /\ mqtt_get_type(m) = owed[j].type
                 /\ mqtt_get_total_length(m, Len(m)) = Len(m)
                 /\ mqtt_get_id(m, Len(m)) =
                      IF owed[j].id = 0 /\ owed[j].type # PINGRESP
                      THEN ((Own(j) - 1) % (IdRange - 1)) + 1 ELSE owed[j].id
                 /\ owed[j].type = PUBLISH =>
                      /\ mqtt_get_publish_topic(m, Len(m)) = Status
                      /\ mqtt_get_publish_data(m, Len(m)) = owed[j].data

(* Wherever a segment ends, what is delivered of it, if it started with a  *)
(* packet, is a packet the broker sent or the start of one, never mixed    *)
(* with what in_buffer held before (mqtt_msg.c lines 154-227).             *)
NeverMixes ==
  \A d \in Range(delivered) :
    d.whole /\ d.topic # NULL =>
      \E p \in Range(sent) : /\ p.type = PUBLISH
                             /\ d.topic = p.topic
                             /\ IsPrefix(d.data, p.data)

(* The loop over a segment ends, whatever the segment holds, a cut packet  *)
(* or the rest of one taken for a header: every pass leaves less of it     *)
(* (mqtt.c lines 288-427).                                                 *)
PassesShorten ==
  [][UNCHANGED <<wire, sent>> => Len(pdata') < Len(pdata)]_vars

=============================================================================
