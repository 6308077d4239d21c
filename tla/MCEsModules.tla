----------------------------- MODULE MCEsModules -----------------------------
(***************************************************************************)
(* A diamond of modules: m imports b and c, both of them d, and d a chain  *)
(* of two more, so that one importer is linked before d's own imports are. *)
(***************************************************************************)
EXTENDS EsModules

MCGraphs == {[f \in Files |-> CASE f = "m" -> <<"b", "c">>
                                [] f \in {"b", "c"} -> <<"d">>
                                [] f = "d" -> <<"e">>
                                [] f = "e" -> <<"f">>
                                [] OTHER -> <<>>]}
MCBroken == {{}}
=============================================================================
