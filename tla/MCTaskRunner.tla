---------------------------- MODULE MCTaskRunner ----------------------------
(* Instances of TaskRunner. *)
EXTENDS TaskRunner

CONSTANTS d1, d2
MCDelayed == {d1, d2}
MCOneDelayed == {d1}
MCDelays == {0, 2}
=============================================================================
