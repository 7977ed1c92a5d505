---------------------- MODULE MCAvailabilityPublisher -----------------------
(***************************************************************************)
(* Model checking AvailabilityPublisher together with the MqttClient it    *)
(* uses.  Requests are interchangeable.                                    *)
(***************************************************************************)
EXTENDS AvailabilityPublisher, TLC

Symmetry == Permutations(Ops)
=============================================================================
