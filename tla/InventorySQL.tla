----------------------------- MODULE InventorySQL -----------------------------
(***************************************************************************)
(* The statements on inventories, inventory_items and inventory_batches    *)
(* (src/baskety/gen/sqlc), each one atomic.  A table is a function from    *)
(* the ids a row may get to a row, to None before the row is inserted, and *)
(* to Gone once it is deleted: an id is random and never used again.       *)
(* A name stands for lower(name) and lower(category) together.  Units,     *)
(* notes, descriptions and expiry dates have no part in any property.      *)
(***************************************************************************)
EXTENDS FiniteSets, FiniteSetsExt, Numeric

CONSTANTS
    None,       \* SQL NULL, and no row yet
    Gone        \* the row was deleted

IsRow(row) == row \notin {None, Gone}
Rows(tab) == {id \in DOMAIN tab : IsRow(tab[id])}

InventoryRecords(households, names) == [household : households, name : names]
ItemRecords(inventories, names, targets) ==
    [inventory : inventories, name : names, target : targets, deleted : BOOLEAN]

\* emptied_at, as the purge tells it apart: NULL, set, set more than 90 days ago.
Emptied == {"no", "recently", "long_ago"}
BatchRecords(items, quantities) ==
    [item : items, quantity : quantities, emptied : Emptied]

--------------------------------------------------------------------------------
(* inventories.sql.go                                                       *)

CreateInventoryRow(tab, v, household, name) ==
    [tab EXCEPT ![v] = [household |-> household, name |-> name]]

GetInventoryByID(tab, v) == tab[v]

UpdateInventoryRow(tab, v, name) ==
    IF IsRow(tab[v]) THEN [tab EXCEPT ![v].name = name] ELSE tab

\* ON DELETE CASCADE: an item goes with its inventory, a batch with its item.
DeleteInventoryRow(tab, v) ==
    IF IsRow(tab[v]) THEN [tab EXCEPT ![v] = Gone] ELSE tab
CascadeItems(tab, v) ==
    [i \in DOMAIN tab |-> IF IsRow(tab[i]) /\ tab[i].inventory = v THEN Gone ELSE tab[i]]
CascadeBatches(tab, lost) ==
    [b \in DOMAIN tab |-> IF IsRow(tab[b]) /\ tab[b].item \in lost THEN Gone ELSE tab[b]]

--------------------------------------------------------------------------------
(* inventory_items.sql.go                                                   *)

\* idx_inventory_items_unique_name_category: rows that are not deleted only.
NameFree(tab, i, v, name) ==
    \A k \in Rows(tab) \ {i} :
        ~tab[k].deleted => <<tab[k].inventory, tab[k].name>> # <<v, name>>

CreateInventoryItem(tab, i, v, name, target) ==
    [tab EXCEPT ![i] = [inventory |-> v, name |-> name, target |-> target,
                        deleted |-> FALSE]]

GetInventoryItemByID(tab, i) == tab[i]

\* mutant: the update brings a deleted item back
UpdateReviving(tab, i, name, target) ==
    IF IsRow(tab[i])
    THEN [tab EXCEPT ![i].name = name, ![i].target = target, ![i].deleted = FALSE] ELSE tab

\* WHERE id = $1: a deleted item is updated as well.
UpdateInventoryItem(tab, i, name, target) ==
    IF IsRow(tab[i]) THEN [tab EXCEPT ![i].name = name, ![i].target = target] ELSE tab

SoftDeleteInventoryItem(tab, i) ==
    IF IsRow(tab[i]) THEN [tab EXCEPT ![i].deleted = TRUE] ELSE tab

--------------------------------------------------------------------------------
(* inventory_batches.sql.go                                                 *)

CreateInventoryBatch(tab, b, i, quantity) ==
    [tab EXCEPT ![b] = [item |-> i, quantity |-> quantity, emptied |-> "no"]]

GetInventoryBatchByID(tab, b) == tab[b]

ListActiveBatchesByItem(tab, i) ==
    {b \in Rows(tab) : tab[b].item = i /\ tab[b].emptied = "no"}

\* Emptied again, a batch starts its 90 days again.
MarkBatchEmptiedRow(tab, b) ==
    IF IsRow(tab[b]) THEN [tab EXCEPT ![b].emptied = "recently"] ELSE tab

\* mutant: AND emptied_at IS NULL is missing
PatchWhereAnyBatch(tab, b, i) == IsRow(tab[b]) /\ tab[b].item = i

PatchBatchWhere(tab, b, i) ==
    IsRow(tab[b]) /\ tab[b].item = i /\ tab[b].emptied = "no"
PatchBatchRow(tab, b, i, quantity) ==
    IF PatchBatchWhere(tab, b, i) THEN [tab EXCEPT ![b].quantity = quantity] ELSE tab

DeleteInventoryBatch(tab, b) ==
    IF IsRow(tab[b]) THEN [tab EXCEPT ![b] = Gone] ELSE tab

GetInventoryItemQuantity(tab, i) ==
    MapThenSumSet(LAMBDA b : tab[b].quantity, ListActiveBatchesByItem(tab, i))

\* pg_cron purge-emptied-batches.
PurgeEmptiedBatches(tab) ==
    [b \in DOMAIN tab |-> IF IsRow(tab[b]) /\ tab[b].emptied = "long_ago"
                          THEN Gone ELSE tab[b]]
================================================================================
