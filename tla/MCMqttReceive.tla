---------------------------- MODULE MCMqttReceive ----------------------------
(* Packets for MqttReceive: PUBLISH of each quality of service, one whose   *)
(* remaining length is the last to fit one byte and one the first to need  *)
(* two, and the others the client answers or ignores.  Two long ones do    *)
(* not fit in_buffer together.                                             *)
EXTENDS MqttReceive

MCCommand == <<99, 49>>
MCStatus == <<99, 50>>
Weather == <<119, 49>>
MCSubscriptions == <<MCCommand, Weather>>
MCVersion == <<50, 48>>
Text(n) == [i \in 1 .. n |-> 48 + (i % 10)]

Publish(qos, id, topic, data) ==
  [type |-> PUBLISH, qos |-> qos, id |-> id, topic |-> topic, data |-> data]
Plain(type, id) ==
  [type |-> type, qos |-> 0, id |-> id, topic |-> << >>, data |-> << >>]

MCPackets == {Publish(0, 0, MCCommand, <<49, 56>>),
              Publish(1, 258, Weather, Text(121)),
              Publish(2, 515, MCCommand, Text(122)),
              Publish(1, 3, Weather, << >>),
              Plain(PUBREC, 7), Plain(PUBREL, 515), Plain(SUBACK, 1),
              Plain(PINGREQ, 0)}

=============================================================================
