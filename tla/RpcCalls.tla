------------------------------ MODULE RpcCalls ------------------------------
(***************************************************************************)
(* What the IPC layer promises to a caller of NoslatedService::Request:    *)
(* a call is made once, and from then on it is pending until it gets one   *)
(* final outcome, which is never replaced.  The outcome is the canonical   *)
(* code handed to the closure, or "dropped" for a call made while there is *)
(* no socket: the delegate logs it and forgets its closure.                *)
(***************************************************************************)
CONSTANTS Calls,  \* the calls a client may make
          Codes   \* the canonical codes a closure may be given

VARIABLE outcome  \* outcome[k]: the caller's view of call k

Outcomes == Codes \cup {"none", "pending", "dropped"}

Init == outcome = [k \in Calls |-> "none"]

Start(k) == /\ outcome[k] = "none"
            /\ outcome' = [outcome EXCEPT ![k] = "pending"]

Drop(k) == /\ outcome[k] = "none"
           /\ outcome' = [outcome EXCEPT ![k] = "dropped"]

Refuse(k, c) == /\ outcome[k] = "none"
                /\ outcome' = [outcome EXCEPT ![k] = c]

\* One response settles one call; the end of the delegate settles them all.
Settle(S, c) == /\ \A k \in S : outcome[k] = "pending"
                /\ outcome' = [k \in Calls |-> IF k \in S THEN c ELSE outcome[k]]

Next == \/ \E k \in Calls : Start(k) \/ Drop(k)
        \/ \E k \in Calls, c \in Codes : Refuse(k, c)
        \/ \E S \in SUBSET Calls, c \in Codes : Settle(S, c)

Spec == Init /\ [][Next]_outcome
=============================================================================
