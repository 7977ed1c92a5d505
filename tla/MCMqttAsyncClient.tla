------------------------- MODULE MCMqttAsyncClient --------------------------
(***************************************************************************)
(* Model checking MqttAsyncClient.                                         *)
(***************************************************************************)
EXTENDS MqttAsyncClient, TLC

Symmetry == Permutations(Ops)
=============================================================================
