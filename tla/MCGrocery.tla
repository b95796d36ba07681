------------------------------- MODULE MCGrocery -------------------------------
(* Two requests in flight and a change of the stock.  One list with one entry   *)
(* is there already, with room for another list and two more entries; of the    *)
(* two items one is short, the other is about to be or to come.  Sort orders    *)
(* wrap at 4.  Of the quantities a client may send one is no quantity, one is   *)
(* rounded to nothing, and one is more than the column can hold.                *)
EXTENDS Grocery, TLC

CONSTANTS i1, i2, l1, l2, e1, e2, e3, r1, r2

Sym == Permutations(Requests)

With(second) ==
    <<[l \in Lists |-> IF l # l1 THEN None
                       ELSE [name |-> "week", status |-> "active", completed |-> "never"]],
      [e \in Entries |-> IF e # e1 THEN None
                         ELSE [list |-> l1, item |-> i1, quantity |-> 1,
                               status |-> "pending", order |-> 0]],
      [i \in Items |-> IF i = i1 THEN "live" ELSE second],
      [i \in Items |-> IF i = i1 \/ second = "live" THEN 2 ELSE None],
      [i \in Items |-> IF i = i1 THEN 1 ELSE IF second = "live" THEN 2 ELSE 0]>>
OneOrTwoItems == {With("live"), With("none")}
================================================================================
