------------------------------ MODULE MCInventory ------------------------------
(* Two requests in flight, of one household or of two, on a shelf with one      *)
(* batch of rice, with room for one new inventory, item and batch.  Every two   *)
(* requests meet at every statement; a request that comes after the other was   *)
(* answered sees what it left behind.  Quantities: minus a thousandth, one that *)
(* is rounded to nothing, and two thousandths.                                  *)
EXTENDS Inventory

CONSTANTS h1, h2, v1, v2, i1, i2, b1, b2

Quantities == {-4, 1, 8}
Rice ==
    <<[v \in Inventories |-> IF v = v1 THEN [household |-> h1, name |-> "rice"] ELSE None],
      [i \in Items |-> IF i # i1 THEN None
                       ELSE [inventory |-> v1, name |-> "rice", target |-> 2,
                             deleted |-> FALSE]],
      [b \in Batches |-> IF b # b1 THEN None
                         ELSE [item |-> i1, quantity |-> 2, emptied |-> "no"]]>>
OneShelf == {Rice}
================================================================================
