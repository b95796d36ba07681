------------------------------ MODULE GrocerySQL ------------------------------
(***************************************************************************)
(* The statements on grocery_lists and grocery_list_items                  *)
(* (src/baskety/gen/sqlc), each one atomic, on tables like those of        *)
(* InventorySQL: a row, None before it is inserted, Gone once deleted.     *)
(* Units, notes and the columns nothing sets (pinned_at, expires_at) are   *)
(* left out.                                                               *)
(***************************************************************************)
EXTENDS Numeric

CONSTANTS
    None,       \* SQL NULL, and no row yet
    Gone,       \* the row was deleted
    IntHalf     \* 2^31: sort_order is an integer column

\* Nothing in S can be taken for a NULL or a row that is not there.
NoNull(S) == None \notin S /\ Gone \notin S

IsRow(row) == row \notin {None, Gone}
Rows(tab) == {id \in DOMAIN tab : IsRow(tab[id])}

ListStatuses == {"active", "completed", "archived"}
EntryStatuses == {"pending", "bought", "skipped"}

\* completed_at, as pg_cron tells it apart: NULL, set, set more than 30 days ago.
Completed == {"never", "recently", "long_ago"}
ListRecords(names) == [name : names, status : ListStatuses, completed : Completed]
EntryRecords(lists, items, most) ==
    [list : lists, item : items \union {None}, quantity : 0..most,
     status : EntryStatuses, order : -IntHalf..(IntHalf - 1)]

\* mutant: the column were as wide as an int
AsInt32Unbound(n) == n

\* int32(sortOrder)
AsInt32(n) == ((n + IntHalf) % (2 * IntHalf)) - IntHalf

--------------------------------------------------------------------------------
(* grocery_lists.sql.go                                                     *)

CreateGroceryList(tab, l, name) ==
    [tab EXCEPT ![l] = [name |-> name, status |-> "active", completed |-> "never"]]

GetGroceryListByID(tab, l) == tab[l]

UpdateGroceryListStatus(tab, l, status, completed) ==
    IF IsRow(tab[l])
    THEN [tab EXCEPT ![l].status = status, ![l].completed = completed] ELSE tab

\* completed_at stays.
ArchiveGroceryList(tab, l) ==
    IF IsRow(tab[l]) THEN [tab EXCEPT ![l].status = "archived"] ELSE tab

RenameGroceryList(tab, l, name) ==
    IF IsRow(tab[l]) THEN [tab EXCEPT ![l].name = name] ELSE tab

DeleteGroceryList(tab, l) == IF IsRow(tab[l]) THEN [tab EXCEPT ![l] = Gone] ELSE tab

\* ON DELETE CASCADE of grocery_list_id.
CascadeEntries(tab, lost) ==
    [e \in DOMAIN tab |-> IF IsRow(tab[e]) /\ tab[e].list \in lost THEN Gone ELSE tab[e]]

\* pg_cron archive-completed-lists.
ArchiveCompletedLists(tab) ==
    [l \in DOMAIN tab |->
        IF IsRow(tab[l]) /\ tab[l].status = "completed" /\ tab[l].completed = "long_ago"
        THEN [tab[l] EXCEPT !.status = "archived"] ELSE tab[l]]

--------------------------------------------------------------------------------
(* grocery_list_items.sql.go                                                *)

AddGroceryListItem(tab, e, l, item, quantity, order) ==
    [tab EXCEPT ![e] = [list |-> l, item |-> item, quantity |-> quantity,
                        status |-> "pending", order |-> order]]

GetGroceryListItemByID(tab, e) == tab[e]

UpdateGroceryListItemStatus(tab, e, status) ==
    IF IsRow(tab[e]) THEN [tab EXCEPT ![e].status = status] ELSE tab

UpdateGroceryListItemSortOrder(tab, e, order) ==
    IF IsRow(tab[e]) THEN [tab EXCEPT ![e].order = order] ELSE tab

DeleteGroceryListItem(tab, e) == IF IsRow(tab[e]) THEN [tab EXCEPT ![e] = Gone] ELSE tab
================================================================================
