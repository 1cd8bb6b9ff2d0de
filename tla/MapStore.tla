------------------------------- MODULE MapStore -------------------------------
(* What a HashTableT promises its users: a map from keys to values, until an *)
(* allocation failure makes Add go down.                                     *)
CONSTANTS Keys, Values, NoValue

VARIABLES map, down

vars == <<map, down>>

Init == map = [k \in Keys |-> NoValue] /\ down = FALSE

Put(k, v) == [map EXCEPT ![k] = v]

Add ==
    /\ ~down
    /\ map' \in {Put(k, v) : k \in Keys, v \in Values}
    /\ UNCHANGED down

Down == down' = TRUE /\ UNCHANGED map

Next == Down \/ Add

Spec == Init /\ [][Next]_vars
=============================================================================
