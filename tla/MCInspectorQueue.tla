-------------------------- MODULE MCInspectorQueue --------------------------
(* Instances of InspectorQueue. *)
EXTENDS InspectorQueue

MCNoOthers == {}
=============================================================================
