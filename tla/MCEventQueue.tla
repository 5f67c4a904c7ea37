---------------------------- MODULE MCEventQueue ----------------------------
(* Instances of EventQueue for TLC. *)
EXTENDS EventQueue, TLC

MCObjects == {"o1", "o2"}
MCOneObject == {"o1"}
MCHelpers == {"h"}
MCNobody == {}
=============================================================================
