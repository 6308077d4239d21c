---------------------------- MODULE MCDataChannel ----------------------------
(* Two fetches, one acquired resource and one trigger of the agent. *)
EXTENDS DataChannel

CONSTANTS f1, f2, a1, t1

MCFetchCalls == {f1, f2}
MCAcquireCalls == {a1}
MCTriggers == {t1}
=============================================================================
