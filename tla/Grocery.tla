-------------------------------- MODULE Grocery --------------------------------
(***************************************************************************)
(* The grocery lists of one inventory (src/baskety/internal/grocery):      *)
(* requests that run at the same time, each a handler, a service that      *)
(* checks the row it is about and then changes it, and a repository.       *)
(* AutoGenerate goes through the inventory item by item, statement by      *)
(* statement, while the stock changes: what it knows of the stock is what  *)
(* module Stock promises, and Inventory keeps.                             *)
(***************************************************************************)
EXTENDS GrocerySQL, FiniteSets

CONSTANTS
    Items,      \* the inventory's items
    Targets, Levels,            \* see Stock
    Lists, Entries,             \* ids of grocery_lists and of grocery_list_items
    Names,      \* non-empty names of lists
    NoName,     \* the empty name
    Spaces,     \* a name of nothing but spaces
    BadId,      \* an inventory_item_id that is no UUID
    AutoName,   \* "Auto-generated" and the date
    Quantities, \* the quantities a request may ask for (see Numeric)
    One,        \* a quantity of one, as it is stored
    Orders,     \* the sort orders a request may ask for
    Owner,      \* the household of the inventory
    Other,      \* another one
    Requests,
    Starts,     \* what the model starts from: <<lists, entries, status, wanted, onHand>>
    MaxChanges, \* bound: the changes of the stock
    Most        \* the largest quantity numeric(10,3) holds

VARIABLES
    status, wanted, onHand,     \* the stock
    there,      \* does the inventory exist?
    lists, entries,             \* the tables
    calls,      \* the requests, each None until it is received
    runs,       \* what AutoGenerate holds in its variables, by request
    changes     \* how often the stock changed

stock == <<status, wanted, onHand>>
tables == <<lists, entries>>
vars == <<stock, there, tables, calls, runs, changes>>

Shelf == INSTANCE Stock

Ops == {"CreateList", "GetList", "ListByInventory", "CompleteList", "ArchiveList",
        "RenameList", "DeleteList", "AddItem", "ListItems", "UpdateItemStatus",
        "ReorderItem", "DeleteItem", "AutoGenerate"}
Generating == {"relist", "snapshot", "new_list", "next_item", "item_inventory",
               "quantity", "add"}
Stages == {"entry", "list", "inventory", "statement", "answered"} \union Generating
Errors == {"not_found", "forbidden", "invalid_input", "internal", "lost"}

\* What a request asked for is forgotten once it is answered.
CallRecords ==
    [op : Ops \union {None}, household : {Owner, Other, None}, list : Lists \union {None},
     entry : Entries \union {None}, item : Items \union {BadId, None},
     name : Names \union {Spaces, None}, quantity : Quantities \union {None},
     status : EntryStatuses \union {None}, order : Orders \union {None},
     stage : Stages, answer : {"ok", None} \union Errors]

\* asked: the items of the inventory and their targets, as ListItems gave them; todo: the
\* ones ahead; at, read: the one in hand and its effective quantity; next: sortOrder.
\* wrote, seen are history: the rows inserted, and the levels of the stock meanwhile.
RunRecords ==
    [asked : UNION {[S -> Targets] : S \in SUBSET Items}, todo : SUBSET Items,
     at : Items \union {None}, read : Levels \union {None}, next : 0..Cardinality(Items),
     wrote : SUBSET EntryRecords(Lists, Items, Most), seen : [Items -> SUBSET Levels]]

ListTable == [Lists -> ListRecords(Names \union {Spaces, AutoName}) \union {None, Gone}]
EntryTable == [Entries -> EntryRecords(Lists, Items, Most) \union {None, Gone}]

\* An inventory has fewer items than sort_order has places.
ASSUME GroceryAssumption ==
    /\ IntHalf \in Nat \ {0}
    /\ IsFiniteSet(Items) /\ Cardinality(Items) <= IntHalf
    /\ Orders \subseteq Nat
    /\ Levels \subseteq Int /\ 0 \in Levels
    /\ Targets \subseteq Int
    /\ Quantities \subseteq Int
    /\ MaxChanges \in Nat
    /\ Most \in Nat /\ One \in 1..Most
    /\ None # Gone /\ None \notin Items \union Levels \union Targets
    /\ NoNull(EntryStatuses \union Errors \union {"ok", "?"})
    /\ NoNull(ListRecords(Names \union {Spaces, AutoName}))
    /\ NoNull(EntryRecords(Lists, Items, Most))
    /\ NoNull(CallRecords) /\ NoNull(RunRecords)

\* The keys of the tables the model starts from, and a date for what is completed.
ASSUME StartsAssumption ==
    \A db \in Starts :
        /\ db[1] \in ListTable /\ db[2] \in EntryTable
        /\ \A l \in Rows(db[1]) : db[1][l].status = "completed" => db[1][l].completed # "never"
        /\ \A e \in Rows(db[2]) :
              /\ IsRow(db[1][db[2][e].list])
              /\ db[2][e].item # None => db[3][db[2][e].item] \in {"live", "deleted"}

TypeOK ==
    /\ Shelf!TypeOK
    /\ there \in BOOLEAN
    /\ lists \in ListTable /\ entries \in EntryTable
    /\ calls \in [Requests -> CallRecords \union {None}]
    /\ runs \in [Requests -> RunRecords \union {None}]
    /\ \A r \in Requests : calls[r] # None =>
          /\ calls[r].stage = "answered" <=> calls[r].answer # None
          /\ runs[r] # None => calls[r].op \in {"AutoGenerate", None}
          /\ calls[r].stage \in {"item_inventory", "quantity", "add"} => runs[r].at # None
          /\ calls[r].stage = "add" => runs[r].read # None
    /\ changes \in 0..MaxChanges

Init ==
    /\ \E db \in Starts : /\ lists = db[1] /\ entries = db[2]
                         /\ status = db[3] /\ wanted = db[4] /\ onHand = db[5]
    /\ Shelf!Init
    /\ there = TRUE
    /\ calls = [r \in Requests |-> None]
    /\ runs = [r \in Requests |-> None]
    /\ changes = 0

Pending(r, stage) == calls[r] # None /\ calls[r].stage = stage
Running(r, op) == Pending(r, "statement") /\ calls[r].op = op
World == <<stock, there, changes>>
Around == <<World, tables>>

--------------------------------------------------------------------------------
(* The repository: one statement each; what came of it in outcome.          *)

CreateList(l, name, outcome) ==
    /\ lists[l] = None
    /\ lists' = IF there THEN CreateGroceryList(lists, l, name) ELSE lists
    /\ outcome = (IF there THEN "ok" ELSE "internal")
    /\ UNCHANGED entries

\* None stands for ErrNotFound.
GetList(l) == LET row == GetGroceryListByID(lists, l) IN IF IsRow(row) THEN row ELSE None

UpdateListStatus(l, new, completed, outcome) ==
    /\ lists' = UpdateGroceryListStatus(lists, l, new, completed)
    /\ outcome = (IF IsRow(lists[l]) THEN "ok" ELSE "not_found")
    /\ UNCHANGED entries

\* A row that is gone already is no error.
ArchiveList(l, outcome) ==
    /\ lists' = ArchiveGroceryList(lists, l)
    /\ outcome = "ok"
    /\ UNCHANGED entries

RenameList(l, name, outcome) ==
    /\ lists' = RenameGroceryList(lists, l, name)
    /\ outcome = (IF IsRow(lists[l]) THEN "ok" ELSE "not_found")
    /\ UNCHANGED entries

DeleteList(l, outcome) ==
    /\ lists' = DeleteGroceryList(lists, l)
    /\ entries' = CascadeEntries(entries, {l})
    /\ outcome = "ok"

\* mutant: nothing ties an entry to its list and its item
AddUnbound(e, l, i, quantity, order, outcome) ==
    /\ entries[e] = None
    /\ entries' = AddGroceryListItem(entries, e, l, i, quantity, AsInt32(order))
    /\ outcome = "ok"
    /\ UNCHANGED lists

\* Both foreign keys ask for a row; the item's may be a deleted item's.  The column
\* asks for a quantity that fits.
AddItem(e, l, i, quantity, order, outcome) ==
    /\ entries[e] = None
    /\ \/ /\ IsRow(lists[l]) /\ (i # None => Shelf!Known(i)) /\ quantity <= Most
          /\ entries' = AddGroceryListItem(entries, e, l, i, quantity, AsInt32(order))
          /\ outcome = "ok"
       \/ /\ ~(IsRow(lists[l]) /\ (i # None => Shelf!Known(i)) /\ quantity <= Most)
          /\ outcome = "internal"
          /\ UNCHANGED entries
    /\ UNCHANGED lists

GetItem(e) ==
    LET row == GetGroceryListItemByID(entries, e) IN IF IsRow(row) THEN row ELSE None

UpdateItemStatus(e, new, outcome) ==
    /\ entries' = UpdateGroceryListItemStatus(entries, e, new)
    /\ outcome = (IF IsRow(entries[e]) THEN "ok" ELSE "not_found")
    /\ UNCHANGED lists

ReorderItem(e, order, outcome) ==
    /\ entries' = UpdateGroceryListItemSortOrder(entries, e, AsInt32(order))
    /\ outcome = "ok"
    /\ UNCHANGED lists

DeleteItem(e, outcome) ==
    /\ entries' = DeleteGroceryListItem(entries, e)
    /\ outcome = "ok"
    /\ UNCHANGED lists

--------------------------------------------------------------------------------
(* The handlers: a request is received, its input read.                     *)

Blank == [op |-> None, household |-> None, list |-> None, entry |-> None, item |-> None,
          name |-> None, quantity |-> None, status |-> None, order |-> None,
          stage |-> "answered", answer |-> None]

\* What the service refuses before it asks the database.
InvalidInput(c) ==
    \/ c.name = NoName
    \/ c.name = Spaces /\ c.op = "RenameList"
    \/ c.status \notin EntryStatuses \union {None}

\* householdFromCtx, userFromCtx, and the first thing the service does.
Receive(r, c, first) ==
    /\ calls[r] = None
    /\ \E h \in {Owner, Other, None} :
          LET refusal == IF h = None THEN "forbidden"
                         ELSE IF InvalidInput(c) THEN "invalid_input" ELSE None
          IN  calls' = [calls EXCEPT ![r] =
                 IF refusal = None THEN [c EXCEPT !.household = h, !.stage = first]
                 ELSE [Blank EXCEPT !.answer = refusal]]
    /\ UNCHANGED <<Around, runs>>

HandleCreateList(r) == \E n \in Names \union {NoName, Spaces} :
    Receive(r, [Blank EXCEPT !.op = "CreateList", !.name = n], "inventory")

HandleListByInventory(r) == Receive(r, [Blank EXCEPT !.op = "ListByInventory"], "inventory")

HandleGetList(r) == \E l \in Lists :
    Receive(r, [Blank EXCEPT !.op = "GetList", !.list = l], "list")

HandleCompleteList(r) == \E l \in Lists :
    Receive(r, [Blank EXCEPT !.op = "CompleteList", !.list = l], "list")

HandleArchiveList(r) == \E l \in Lists :
    Receive(r, [Blank EXCEPT !.op = "ArchiveList", !.list = l], "list")

HandleRenameList(r) == \E l \in Lists, n \in Names \union {NoName, Spaces} :
    Receive(r, [Blank EXCEPT !.op = "RenameList", !.list = l, !.name = n], "list")

HandleDeleteList(r) == \E l \in Lists :
    Receive(r, [Blank EXCEPT !.op = "DeleteList", !.list = l], "list")

\* A body that cannot be read is an empty one.
HandleAutoGenerate(r) == Receive(r, [Blank EXCEPT !.op = "AutoGenerate"], "inventory")

HandleAddItem(r) ==
    \E l \in Lists, i \in Items \union {BadId, None}, q \in Quantities, o \in Orders,
       n \in {NoName, None} :
        Receive(r, [Blank EXCEPT !.op = "AddItem", !.list = l, !.item = i, !.quantity = q,
                                 !.order = o, !.name = n], "list")

HandleListItems(r) == \E l \in Lists :
    Receive(r, [Blank EXCEPT !.op = "ListItems", !.list = l], "list")

HandleUpdateItemStatus(r) == \E l \in Lists, e \in Entries, s \in EntryStatuses \union {"?"} :
    Receive(r, [Blank EXCEPT !.op = "UpdateItemStatus", !.list = l, !.entry = e,
                             !.status = s], "entry")

HandleReorderItem(r) == \E l \in Lists, e \in Entries, o \in Orders :
    Receive(r, [Blank EXCEPT !.op = "ReorderItem", !.list = l, !.entry = e, !.order = o],
            "entry")

HandleDeleteItem(r) == \E l \in Lists, e \in Entries :
    Receive(r, [Blank EXCEPT !.op = "DeleteItem", !.list = l, !.entry = e], "entry")

--------------------------------------------------------------------------------
(* The service.  A check is one query, and what it found may be past when   *)
(* the next statement runs.                                                 *)

Proceed(r, stage) == calls' = [calls EXCEPT ![r].stage = stage]
Answer(r, a) == calls' = [calls EXCEPT ![r] = [Blank EXCEPT !.answer = a]]

\* assertItemScope: the entry, and the list the path names.
AssertItemScope(r) ==
    /\ Pending(r, "entry")
    /\ LET row == GetItem(calls[r].entry)
           found == row # None /\ row.list = calls[r].list
       IN  \/ ~found /\ Answer(r, "not_found")
           \/ found /\ Proceed(r, "list")
    /\ UNCHANGED <<Around, runs>>

AssertListScope(r) ==
    /\ Pending(r, "list")
    /\ LET found == GetList(calls[r].list) # None
       IN  \/ ~found /\ Answer(r, "not_found")
           \/ found /\ Proceed(r, "inventory")
    /\ UNCHANGED <<Around, runs>>

\* assertInventoryScope.  GetList answers with what the checks read.
AssertInventoryScope(r) ==
    /\ Pending(r, "inventory")
    /\ LET owned == there /\ calls[r].household = Owner IN
       \/ ~owned /\ Answer(r, "not_found")
       \/ owned /\ calls[r].op = "GetList" /\ Answer(r, "ok")
       \/ owned /\ calls[r].op = "AutoGenerate" /\ Proceed(r, "relist")
       \/ owned /\ calls[r].op \notin {"GetList", "AutoGenerate"} /\ Proceed(r, "statement")
    /\ UNCHANGED <<Around, runs>>

\* ListByInventory, ListItems: one query, nothing changes.
Read(r) ==
    /\ Running(r, "ListByInventory") \/ Running(r, "ListItems")
    /\ Answer(r, "ok")
    /\ UNCHANGED <<Around, runs>>

\* writeErr.  The answer of a statement that was executed may be lost on its way back.
Settle(r, outcome) ==
    /\ \E a \in {outcome, "internal"} : Answer(r, a)
    /\ UNCHANGED <<World, runs>>

Outcomes == {"ok", "not_found", "internal"}

ServeCreateList(r) ==
    /\ Running(r, "CreateList")
    /\ \E l \in Lists, o \in Outcomes : CreateList(l, calls[r].name, o) /\ Settle(r, o)

\* mutant: the date of the completion is not passed on
CompleteUndated(r) ==
    /\ Running(r, "CompleteList")
    /\ \E o \in Outcomes :
          UpdateListStatus(calls[r].list, "completed", "never", o) /\ Settle(r, o)

\* Whatever the status was.
ServeCompleteList(r) ==
    /\ Running(r, "CompleteList")
    /\ \E o \in Outcomes :
          UpdateListStatus(calls[r].list, "completed", "recently", o) /\ Settle(r, o)

ServeArchiveList(r) ==
    /\ Running(r, "ArchiveList")
    /\ \E o \in Outcomes : ArchiveList(calls[r].list, o) /\ Settle(r, o)

ServeRenameList(r) ==
    /\ Running(r, "RenameList")
    /\ \E o \in Outcomes : RenameList(calls[r].list, calls[r].name, o) /\ Settle(r, o)

ServeDeleteList(r) ==
    /\ Running(r, "DeleteList")
    /\ \E o \in Outcomes : DeleteList(calls[r].list, o) /\ Settle(r, o)

\* A quantity that is not positive means one; a positive one may still be stored as 0.
ServeAddItem(r) ==
    /\ Running(r, "AddItem")
    /\ LET c == calls[r]
           quantity == IF c.quantity <= 0 THEN One ELSE AsNumeric(c.quantity)
       IN  \/ /\ c.item = BadId
              /\ Answer(r, "invalid_input")
              /\ UNCHANGED <<Around, runs>>
           \/ /\ c.item # BadId
              /\ \E e \in Entries, o \in Outcomes :
                    AddItem(e, c.list, c.item, quantity, c.order, o) /\ Settle(r, o)

ServeUpdateItemStatus(r) ==
    /\ Running(r, "UpdateItemStatus")
    /\ \E o \in Outcomes :
          UpdateItemStatus(calls[r].entry, calls[r].status, o) /\ Settle(r, o)

ServeReorderItem(r) ==
    /\ Running(r, "ReorderItem")
    /\ \E o \in Outcomes : ReorderItem(calls[r].entry, calls[r].order, o) /\ Settle(r, o)

ServeDeleteItem(r) ==
    /\ Running(r, "DeleteItem")
    /\ \E o \in Outcomes : DeleteItem(calls[r].entry, o) /\ Settle(r, o)

\* The database refuses or cannot be reached: nothing was executed.
DatabaseFails(r) ==
    /\ calls[r] # None /\ ~Pending(r, "answered")
    /\ Answer(r, "internal")
    /\ UNCHANGED <<Around, runs>>

--------------------------------------------------------------------------------
(* AutoGenerate, which calls the inventory's service for every item.        *)

Hold(r, run) == runs' = [runs EXCEPT ![r] = run]
Owned(r) == there /\ calls[r].household = Owner

\* ListItems of the inventory asserts its own scope, ...
RelistScope(r) ==
    /\ Pending(r, "relist")
    /\ \/ ~Owned(r) /\ Answer(r, "not_found")
       \/ Owned(r) /\ Proceed(r, "snapshot")
    /\ UNCHANGED <<Around, runs>>

\* ... then reads the items that are not deleted.
Snapshot(r) ==
    /\ Pending(r, "snapshot")
    /\ LET live == {i \in Items : status[i] = "live"} IN
       Hold(r, [asked |-> [i \in live |-> wanted[i]], todo |-> live, at |-> None,
                read |-> None, next |-> 0, wrote |-> {},
                seen |-> [i \in Items |-> {onHand[i]}]])
    /\ Proceed(r, "new_list")
    /\ UNCHANGED Around

NewList(r) ==
    /\ Pending(r, "new_list")
    /\ \E l \in Lists, o \in Outcomes :
          /\ CreateList(l, AutoName, o)
          /\ \/ o = "ok" /\ calls' = [calls EXCEPT ![r].stage = "next_item", ![r].list = l]
             \/ Answer(r, "internal")
    /\ UNCHANGED <<World, runs>>

\* GetEffectiveQuantity asserts that the item is there and not deleted, ...
NextItem(r) ==
    /\ Pending(r, "next_item")
    /\ \/ /\ runs[r].todo = {}
          /\ Answer(r, "ok")
          /\ UNCHANGED runs
       \/ \E i \in runs[r].todo :
             /\ Hold(r, [runs[r] EXCEPT !.todo = @ \ {i}, !.at = i])
             /\ \/ status[i] # "live" /\ Answer(r, "not_found")
                \/ status[i] = "live" /\ Proceed(r, "item_inventory")
    /\ UNCHANGED Around

\* ... that its inventory is still the household's, ...
ItemInventoryScope(r) ==
    /\ Pending(r, "item_inventory")
    /\ \/ ~Owned(r) /\ Answer(r, "not_found")
       \/ Owned(r) /\ Proceed(r, "quantity")
    /\ UNCHANGED <<Around, runs>>

\* ... and reads what is on hand now; the target is still the snapshot's.
EffectiveQuantity(r) ==
    /\ Pending(r, "quantity")
    /\ LET i == runs[r].at IN
       \/ /\ onHand[i] >= runs[r].asked[i]
          /\ Hold(r, [runs[r] EXCEPT !.at = None])
          /\ Proceed(r, "next_item")
       \/ /\ onHand[i] < runs[r].asked[i]
          /\ Hold(r, [runs[r] EXCEPT !.read = onHand[i]])
          /\ Proceed(r, "add")
    /\ UNCHANGED Around

\* mutant: an entry that cannot be added is passed over
AddOrSkip(r) ==
    /\ Pending(r, "add")
    /\ LET run == runs[r] IN
       \E e \in Entries, o \in Outcomes :
          /\ AddItem(e, calls[r].list, run.at, run.asked[run.at] - run.read, run.next, o)
          /\ Hold(r, [run EXCEPT !.at = None, !.read = None, !.next = @ + 1,
                        !.wrote = IF o = "ok" THEN @ \union {entries'[e]} ELSE @])
          /\ Proceed(r, "next_item")
    /\ UNCHANGED World

\* The shortfall, a difference of two stored quantities and so stored as it is; the
\* first error ends it all, and the list stays as it is.
AddShortfall(r) ==
    /\ Pending(r, "add")
    /\ LET run == runs[r] IN
       \E e \in Entries, o \in Outcomes :
          /\ AddItem(e, calls[r].list, run.at, run.asked[run.at] - run.read, run.next, o)
          /\ \/ /\ o = "ok"
                /\ Hold(r, [run EXCEPT !.at = None, !.read = None, !.next = @ + 1,
                                       !.wrote = @ \union {entries'[e]}])
                /\ \/ Proceed(r, "next_item")
                   \/ Answer(r, "internal")
             \/ /\ o # "ok"
                /\ Answer(r, "internal")
                /\ UNCHANGED runs
    /\ UNCHANGED World

--------------------------------------------------------------------------------
(* Around the requests: the inventory, the clock, pg_cron, the process.     *)

\* History: the levels a request in flight may see.
Watch ==
    runs' = [r \in Requests |->
        IF runs[r] = None \/ Pending(r, "answered") THEN runs[r]
        ELSE [runs[r] EXCEPT !.seen = [i \in Items |-> @[i] \union {onHand'[i]}]]]

\* The inventory's API changes an item, as Stock allows.
StockChanges(i) ==
    /\ changes < MaxChanges /\ there
    /\ \/ Shelf!Delete(i)
       \/ \E t \in Targets : Shelf!Appear(i, t) \/ Shelf!Want(i, t)
       \/ \E q \in Levels : Shelf!Restock(i, q)
    /\ stock' # stock
    /\ changes' = changes + 1
    /\ Watch
    /\ UNCHANGED <<there, tables, calls>>

\* The inventory is deleted; its lists and their entries go with it.
InventoryGoes ==
    /\ there
    /\ Shelf!Lose({i \in Items : Shelf!Known(i)})
    /\ there' = FALSE
    /\ entries' = CascadeEntries(entries, Rows(lists))
    /\ lists' = [l \in Lists |-> IF IsRow(lists[l]) THEN Gone ELSE lists[l]]
    /\ Watch
    /\ UNCHANGED <<calls, changes>>

\* 30 days pass for a list; pg_cron runs.
Age(l) ==
    /\ IsRow(lists[l]) /\ lists[l].completed = "recently"
    /\ lists' = [lists EXCEPT ![l].completed = "long_ago"]
    /\ UNCHANGED <<World, entries, calls, runs>>

ArchiveCompleted ==
    /\ ArchiveCompletedLists(lists) # lists
    /\ lists' = ArchiveCompletedLists(lists)
    /\ UNCHANGED <<World, entries, calls, runs>>

\* The process ends: the requests it was serving get no answer.
Crash ==
    /\ \E r \in Requests : calls[r] # None /\ ~Pending(r, "answered")
    /\ calls' = [r \in Requests |->
           IF calls[r] = None \/ Pending(r, "answered") THEN calls[r]
           ELSE [Blank EXCEPT !.answer = "lost"]]
    /\ UNCHANGED <<Around, runs>>

Handle(r) ==
    \/ HandleCreateList(r) \/ HandleListByInventory(r) \/ HandleGetList(r)
    \/ HandleCompleteList(r) \/ HandleArchiveList(r) \/ HandleRenameList(r)
    \/ HandleDeleteList(r) \/ HandleAutoGenerate(r) \/ HandleAddItem(r)
    \/ HandleListItems(r) \/ HandleUpdateItemStatus(r) \/ HandleReorderItem(r)
    \/ HandleDeleteItem(r)

Check(r) == AssertItemScope(r) \/ AssertListScope(r) \/ AssertInventoryScope(r)

Serve(r) ==
    \/ Read(r)
    \/ ServeCreateList(r) \/ ServeCompleteList(r) \/ ServeArchiveList(r)
    \/ ServeRenameList(r) \/ ServeDeleteList(r) \/ ServeAddItem(r)
    \/ ServeUpdateItemStatus(r) \/ ServeReorderItem(r) \/ ServeDeleteItem(r)
    \/ DatabaseFails(r)

AutoGenerate(r) ==
    \/ RelistScope(r) \/ Snapshot(r) \/ NewList(r) \/ NextItem(r)
    \/ ItemInventoryScope(r) \/ EffectiveQuantity(r) \/ AddShortfall(r)

Next ==
    \/ \E r \in Requests : Handle(r) \/ Check(r) \/ Serve(r) \/ AutoGenerate(r)
    \/ \E i \in Items : StockChanges(i)
    \/ \E l \in Lists : Age(l)
    \/ InventoryGoes
    \/ ArchiveCompleted
    \/ Crash

Spec == Init /\ [][Next]_vars

--------------------------------------------------------------------------------
(* Properties.                                                              *)

\* Whatever was in flight when a list or the inventory went, no entry is left without
\* its list, and none names an item that is no row (the foreign keys of 00004).
NoDangling ==
    /\ ~there => Rows(lists) = {}
    /\ \A e \in Rows(entries) :
          /\ IsRow(lists[entries[e].list])
          /\ entries[e].item # None => Shelf!Known(entries[e].item)

\* What AutoGenerate makes of a stock that changes meanwhile (service.go:272).  Every
\* entry asks for what was missing, and something was, at some moment since the items
\* were read; every item
\* is asked for once, in a place of its own; and a request that was answered "created"
\* forgot no item that was short all along.
GeneratedFromStock ==
    \A r \in Requests : runs[r] # None =>
        LET run == runs[r] IN
        /\ \A w \in run.wrote :
              /\ w.item \in DOMAIN run.asked
              /\ w.quantity > 0
              /\ w.quantity \in {run.asked[w.item] - q : q \in run.seen[w.item]}
        /\ \A w1, w2 \in run.wrote : w1.item = w2.item => w1 = w2
        /\ {w.order : w \in run.wrote} = 0..(Cardinality(run.wrote) - 1)
        /\ calls[r].answer = "ok" => \A i \in DOMAIN run.asked :
              (\A q \in run.seen[i] : q < run.asked[i]) => \E w \in run.wrote : w.item = i

\* The life of a list, whatever requests and pg_cron do to it at once: it never becomes
\* active again, its completion is never forgotten, and one that was completed within
\* 30 days is only archived by a request for it (service.go:151, 00009_pg_cron.sql).
ListLifecycle ==
    [][\A l \in Lists : IsRow(lists[l]) /\ IsRow(lists'[l]) =>
          /\ lists'[l].status = "active" => lists[l].status = "active"
          /\ lists'[l].status = "completed" => lists'[l].completed # "never"
          /\ lists[l].completed # "never" => lists'[l].completed # "never"
          /\ lists[l].status = "completed" /\ lists'[l].status = "archived" =>
                \/ lists[l].completed = "long_ago"
                \/ \E r \in Requests : Running(r, "ArchiveList") /\ calls[r].list = l]_lists
================================================================================
