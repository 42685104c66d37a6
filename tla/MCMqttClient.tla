---------------------------- MODULE MCMqttClient ----------------------------
(* The budget of the environment for the runs of MqttClient.               *)
EXTENDS MqttClient

SafetyBudget == [drops |-> 2, faults |-> 2, memory |-> 1, late |-> 2, work |-> 2]

=============================================================================
