---------------------------- MODULE MCCacheStore ----------------------------
(* Two workers A and B that share the cache "c": puts, a match and the       *)
(* deletion of the cache; opens, a query and a deletion in the storage page. *)
EXTENDS CacheStore
MCOps == {"putA", "putB", "match", "openC", "openD", "openC2", "has", "keys", "delete"}
MCKind == [o \in MCOps |-> CASE o = "match" -> "match" [] o = "has" -> "has"
                             [] o = "delete" -> "delete" [] o = "keys" -> "keys"
                             [] o \in {"putA", "putB"} -> "put" [] OTHER -> "open"]
MCArg == [o \in MCOps |-> CASE o \in {"putA", "match"} -> "k1" [] o = "putB" -> "k2"
                            [] o = "openD" -> "d" [] OTHER -> "c"]
MCWorker == [o \in MCOps |-> IF o \in {"putA", "openC", "delete"} THEN "A" ELSE "B"]
MCScenarios == {{"putA", "putB", "match", "delete"}, {"openC", "openD", "openC2"},
                {"openC", "has", "delete"}, {"openC", "keys"}}
MCOpens == {{"openC", "openD"}}
=============================================================================
