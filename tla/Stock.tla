--------------------------------- MODULE Stock ---------------------------------
(***************************************************************************)
(* What the inventory promises the rest of the program, which reads it     *)
(* through ListItems and GetEffectiveQuantity only (grocery/service.go): a *)
(* set of items, each with a target and a quantity on hand.  One item      *)
(* changes at a time, except when an inventory goes with all its items; a  *)
(* deleted item never comes back; and an item that does not exist, or      *)
(* exists no more, has nothing on hand.                                    *)
(***************************************************************************)
EXTENDS Integers

CONSTANTS
    Items,      \* the items, past and future
    Targets,    \* the values of target_quantity
    Levels,     \* the quantities an item can have on hand
    None        \* no target: there is no such item

VARIABLES
    status,     \* "none" before the item, "gone" after its inventory
    wanted,     \* target_quantity
    onHand      \* the sum of the active batches

vars == <<status, wanted, onHand>>

Statuses == {"none", "live", "deleted", "gone"}
Known(i) == status[i] \in {"live", "deleted"}

TypeOK ==
    /\ status \in [Items -> Statuses]
    /\ wanted \in [Items -> Targets \union {None}]
    /\ onHand \in [Items -> Levels]

Init ==
    /\ TypeOK
    /\ \A i \in Items : IF Known(i) THEN wanted[i] # None ELSE wanted[i] = None /\ onHand[i] = 0

Appear(i, t) ==
    /\ status[i] = "none"
    /\ status' = [status EXCEPT ![i] = "live"]
    /\ wanted' = [wanted EXCEPT ![i] = t]
    /\ UNCHANGED onHand

\* A request that found the item just before it was deleted may still change it.
Want(i, t) ==
    /\ Known(i)
    /\ wanted' = [wanted EXCEPT ![i] = t]
    /\ UNCHANGED <<status, onHand>>

Restock(i, q) ==
    /\ Known(i)
    /\ onHand' = [onHand EXCEPT ![i] = q]
    /\ UNCHANGED <<status, wanted>>

Delete(i) ==
    /\ status[i] = "live"
    /\ status' = [status EXCEPT ![i] = "deleted"]
    /\ UNCHANGED <<wanted, onHand>>

Lose(S) ==
    /\ \A i \in S : Known(i)
    /\ status' = [i \in Items |-> IF i \in S THEN "gone" ELSE status[i]]
    /\ onHand' = [i \in Items |-> IF i \in S THEN 0 ELSE onHand[i]]
    /\ wanted' = [i \in Items |-> IF i \in S THEN None ELSE wanted[i]]

Next ==
    \/ \E i \in Items, t \in Targets : Appear(i, t) \/ Want(i, t)
    \/ \E i \in Items, q \in Levels : Restock(i, q)
    \/ \E i \in Items : Delete(i)
    \/ \E S \in SUBSET Items : Lose(S)

Spec == Init /\ [][Next]_vars
================================================================================
