------------------------------- MODULE MCMqtt -------------------------------
(* What the broker retains, with a topic of each kind.  The two values of  *)
(* a text are alike (neither is in the cache or at the broker at first),   *)
(* so that those topics may begin with either.                             *)
EXTENDS MqttState

MCInit == MqttInit /\ \A t \in Texts \cup Kept : current[t] = 0

MCSpec == MCInit /\ [][MqttNext]_mqttVars /\ MqttFairness
=============================================================================
