---------------------------- MODULE MCMqttClient ----------------------------
(* MqttClient on small instances. *)
EXTENDS MqttClient
=============================================================================
