------------------------------- MODULE Inventory -------------------------------
(***************************************************************************)
(* The inventory API (src/baskety/internal/inventory): requests that run   *)
(* at the same time, each a handler that reads its input (handler.go), a   *)
(* service that first asks the database whether the row belongs to the     *)
(* household and then changes it (service.go), and a repository that turns *)
(* what a statement did into an error (repository_pg.go).  Nothing runs in *)
(* a transaction: other requests, pg_cron's purge and the end of the       *)
(* process come between any two statements.                                *)
(*                                                                         *)
(* The household of a request is the one the middleware put into its       *)
(* context, or None.  A request is received once; a client that tries      *)
(* again sends another one.                                                *)
(***************************************************************************)
EXTENDS InventorySQL

CONSTANTS
    Households, Inventories, Items, Batches,
    Names,      \* non-empty names of inventories and items
    NoName,     \* the empty name
    Targets,    \* values of target_quantity, as they are stored
    Amounts,    \* values of quantity and initial_quantity in a request (see Numeric)
    Requests,
    Starts      \* the databases the model starts from: <<inventories, items, batches>>

VARIABLES
    inventories, items, batches,    \* the tables
    calls,      \* the requests, each None until it is received
    everHeld    \* history: the items that have had a batch

tables == <<inventories, items, batches>>
vars == <<tables, calls, everHeld>>

\* Values of inventory_batches.quantity.
Stored == {AsNumeric(q) : q \in Amounts}

\* The quantities an item can have on hand, with every batch at its least or at its most.
Levels == (Cardinality(Batches) * Min({0} \union Stored))..
          (Cardinality(Batches) * Max({0} \union Stored))

Deleted(i) == items[i] = Gone \/ (IsRow(items[i]) /\ items[i].deleted)

\* Foreign keys and the unique index.
Integrity ==
    /\ \A i \in Rows(items) : IsRow(inventories[items[i].inventory])
    /\ \A b \in Rows(batches) : IsRow(items[batches[b].item])
    /\ \A i \in Rows(items) :
          ~items[i].deleted => NameFree(items, i, items[i].inventory, items[i].name)

TablesOK ==
    /\ inventories \in [Inventories -> InventoryRecords(Households, Names) \union {None, Gone}]
    /\ items \in [Items -> ItemRecords(Inventories, Names, Targets) \union {None, Gone}]
    /\ batches \in [Batches -> BatchRecords(Items, Stored) \union {None, Gone}]

Reads == {"ListInventories", "GetInventory", "ListItems", "GetItem", "GetEffectiveQuantity",
          "ListActiveBatches"}
Ops == Reads \union {"CreateInventory", "UpdateInventory", "DeleteInventory", "CreateItem",
                     "UpdateItem", "DeleteItem", "AddBatch", "MarkBatchEmptied",
                     "DeleteBatch", "PatchBatch"}
Stages == {"batch", "item", "inventory", "statement", "first_batch", "answered"}
Errors == {"not_found", "forbidden", "invalid_input", "internal", "lost"}

CallRecords ==
    [op : Ops, household : Households \union {None}, inventory : Inventories \union {None},
     item : Items \union {None}, batch : Batches \union {None},
     name : Names \union {NoName, None}, target : Targets \union {None},
     quantity : Amounts \union {None}, stage : Stages,
     answer : {"ok", None} \union Errors, late : BOOLEAN]

\* NULL, a deleted row and an empty name are none of the other values.
NoNull(S) == {None, Gone} \intersect S = {}
ASSUME InventoryAssumption ==
    /\ None # Gone
    /\ NoNull(Households) /\ NoNull(Inventories) /\ NoNull(Items) /\ NoNull(Batches)
    /\ NoNull(Names) /\ NoNull(Targets) /\ NoNull(Amounts) /\ NoNull(Errors \union {"ok"})
    /\ NoNull(InventoryRecords(Households, Names))
    /\ NoNull(ItemRecords(Inventories, Names, Targets))
    /\ NoNull(BatchRecords(Items, Stored))
    /\ NoNull(CallRecords)
    /\ NoName \notin Names
    /\ Amounts \subseteq Int
    /\ IsFiniteSet(Stored) /\ IsFiniteSet(Batches)

TypeOK ==
    /\ TablesOK
    /\ calls \in [Requests -> CallRecords \union {None}]
    /\ \A r \in Requests :
          calls[r] # None => (calls[r].stage = "answered" <=> calls[r].answer # None)
    /\ everHeld \subseteq Items

Init ==
    /\ \E db \in Starts : inventories = db[1] /\ items = db[2] /\ batches = db[3]
    /\ TablesOK /\ Integrity
    /\ \A b \in Rows(batches) : batches[b].quantity >= 0
    /\ calls = [r \in Requests |-> None]
    /\ everHeld = Rows(items)

Pending(r, stage) == calls[r] # None /\ calls[r].stage = stage
Running(r, op) == Pending(r, "statement") /\ calls[r].op = op

--------------------------------------------------------------------------------
(* The repository: one statement each; what came of it in outcome.          *)

CreateInventory(v, h, name, outcome) ==
    /\ inventories[v] = None
    /\ inventories' = CreateInventoryRow(inventories, v, h, name)
    /\ outcome = "ok"
    /\ UNCHANGED <<items, batches>>

\* None stands for ErrNotFound.
GetInventory(v) ==
    LET row == GetInventoryByID(inventories, v) IN IF IsRow(row) THEN row ELSE None

UpdateInventory(v, name, outcome) ==
    /\ inventories' = UpdateInventoryRow(inventories, v, name)
    /\ outcome = (IF IsRow(inventories[v]) THEN "ok" ELSE "not_found")
    /\ UNCHANGED <<items, batches>>

\* A row that is gone already is no error.
DeleteInventory(v, outcome) ==
    /\ inventories' = DeleteInventoryRow(inventories, v)
    /\ items' = CascadeItems(items, v)
    /\ batches' = CascadeBatches(batches, {i \in Rows(items) : items[i].inventory = v})
    /\ outcome = "ok"

CreateItem(i, v, name, target, outcome) ==
    /\ items[i] = None
    /\ \/ /\ IsRow(inventories[v]) /\ NameFree(items, i, v, name)
          /\ items' = CreateInventoryItem(items, i, v, name, target)
          /\ outcome = "ok"
       \/ /\ ~NameFree(items, i, v, name)
          /\ outcome = "unique_violation"
          /\ UNCHANGED items
       \/ /\ ~IsRow(inventories[v])
          /\ outcome = "internal"
          /\ UNCHANGED items
    /\ UNCHANGED <<inventories, batches>>

GetItem(i) ==
    LET row == GetInventoryItemByID(items, i) IN IF IsRow(row) THEN row ELSE None

UpdateItem(i, name, target, outcome) ==
    /\ \/ /\ IsRow(items[i])
          /\ items[i].deleted \/ NameFree(items, i, items[i].inventory, name)
          /\ items' = UpdateInventoryItem(items, i, name, target)
          /\ outcome = "ok"
       \/ /\ IsRow(items[i])
          /\ ~items[i].deleted /\ ~NameFree(items, i, items[i].inventory, name)
          /\ outcome = "internal"
          /\ UNCHANGED items
       \/ /\ ~IsRow(items[i])
          /\ outcome = "not_found"
          /\ UNCHANGED items
    /\ UNCHANGED <<inventories, batches>>

SoftDeleteItem(i, outcome) ==
    /\ items' = SoftDeleteInventoryItem(items, i)
    /\ outcome = "ok"
    /\ UNCHANGED <<inventories, batches>>

\* mutant: no foreign key
AddBatchUnbound(b, i, quantity, outcome) ==
    /\ batches[b] = None
    /\ batches' = CreateInventoryBatch(batches, b, i, quantity)
    /\ outcome = "ok"
    /\ UNCHANGED <<inventories, items>>

\* The foreign key asks for the item's row, deleted or not.
AddBatch(b, i, quantity, outcome) ==
    /\ batches[b] = None
    /\ \/ /\ IsRow(items[i])
          /\ batches' = CreateInventoryBatch(batches, b, i, quantity)
          /\ outcome = "ok"
       \/ /\ ~IsRow(items[i])
          /\ outcome = "internal"
          /\ UNCHANGED batches
    /\ UNCHANGED <<inventories, items>>

GetBatch(b) ==
    LET row == GetInventoryBatchByID(batches, b) IN IF IsRow(row) THEN row ELSE None

MarkBatchEmptied(b, outcome) ==
    /\ batches' = MarkBatchEmptiedRow(batches, b)
    /\ outcome = "ok"
    /\ UNCHANGED <<inventories, items>>

DeleteBatch(b, outcome) ==
    /\ batches' = DeleteInventoryBatch(batches, b)
    /\ outcome = "ok"
    /\ UNCHANGED <<inventories, items>>

PatchBatch(b, i, quantity, outcome) ==
    /\ batches' = PatchBatchRow(batches, b, i, quantity)
    /\ outcome = (IF PatchBatchWhere(batches, b, i) THEN "ok" ELSE "not_found")
    /\ UNCHANGED <<inventories, items>>

--------------------------------------------------------------------------------
(* The handlers: a request is received, its input read.                     *)

Blank == [op |-> None, household |-> None, inventory |-> None, item |-> None,
          batch |-> None, name |-> None, target |-> None, quantity |-> None,
          stage |-> "answered", answer |-> None, late |-> FALSE]

\* mutant: the name is not required
AnyName(c) ==
    \/ c.op = "AddBatch" /\ c.quantity <= 0
    \/ c.op = "PatchBatch" /\ c.quantity < 0

\* What the service refuses before it asks the database.
InvalidInput(c) ==
    \/ c.name = NoName
    \/ c.op = "AddBatch" /\ c.quantity <= 0
    \/ c.op = "PatchBatch" /\ c.quantity < 0

\* history: was the item deleted before the request came?
Late(c) ==
    \/ c.item # None /\ Deleted(c.item)
    \/ c.op \in {"MarkBatchEmptied", "DeleteBatch"} /\ IsRow(batches[c.batch])
       /\ Deleted(batches[c.batch].item)

\* householdFromCtx, and the first thing the service does.
Receive(r, c, first) ==
    /\ calls[r] = None
    /\ \E h \in Households \union {None} :
          LET refusal == IF h = None THEN "forbidden"
                         ELSE IF InvalidInput(c) THEN "invalid_input" ELSE None
          IN  calls' = [calls EXCEPT ![r] =
                 IF refusal = None
                 THEN [c EXCEPT !.household = h, !.late = Late(c), !.stage = first]
                 ELSE [Blank EXCEPT !.op = c.op, !.answer = refusal]]
    /\ UNCHANGED <<tables, everHeld>>

HandleCreateInventory(r) == \E n \in Names \union {NoName} :
    Receive(r, [Blank EXCEPT !.op = "CreateInventory", !.name = n], "statement")

HandleListInventories(r) ==
    Receive(r, [Blank EXCEPT !.op = "ListInventories"], "statement")

HandleGetInventory(r) == \E v \in Inventories :
    Receive(r, [Blank EXCEPT !.op = "GetInventory", !.inventory = v], "inventory")

HandleUpdateInventory(r) == \E v \in Inventories, n \in Names \union {NoName} :
    Receive(r, [Blank EXCEPT !.op = "UpdateInventory", !.inventory = v, !.name = n],
            "inventory")

HandleDeleteInventory(r) == \E v \in Inventories :
    Receive(r, [Blank EXCEPT !.op = "DeleteInventory", !.inventory = v], "inventory")

HandleCreateItem(r) ==
    \E v \in Inventories, n \in Names \union {NoName}, t \in Targets, q \in Amounts :
        Receive(r, [Blank EXCEPT !.op = "CreateItem", !.inventory = v, !.name = n,
                                 !.target = t, !.quantity = q], "inventory")

HandleListItems(r) == \E v \in Inventories :
    Receive(r, [Blank EXCEPT !.op = "ListItems", !.inventory = v], "inventory")

HandleGetItem(r) == \E i \in Items :
    Receive(r, [Blank EXCEPT !.op = "GetItem", !.item = i], "item")

HandleUpdateItem(r) == \E i \in Items, n \in Names \union {NoName}, t \in Targets :
    Receive(r, [Blank EXCEPT !.op = "UpdateItem", !.item = i, !.name = n, !.target = t],
            "item")

HandleDeleteItem(r) == \E i \in Items :
    Receive(r, [Blank EXCEPT !.op = "DeleteItem", !.item = i], "item")

HandleGetEffectiveQuantity(r) == \E i \in Items :
    Receive(r, [Blank EXCEPT !.op = "GetEffectiveQuantity", !.item = i], "item")

HandleAddBatch(r) == \E i \in Items, q \in Amounts :
    Receive(r, [Blank EXCEPT !.op = "AddBatch", !.item = i, !.quantity = q], "item")

HandleListActiveBatches(r) == \E i \in Items :
    Receive(r, [Blank EXCEPT !.op = "ListActiveBatches", !.item = i], "item")

HandleMarkBatchEmptied(r) == \E b \in Batches :
    Receive(r, [Blank EXCEPT !.op = "MarkBatchEmptied", !.batch = b], "batch")

HandleDeleteBatch(r) == \E b \in Batches :
    Receive(r, [Blank EXCEPT !.op = "DeleteBatch", !.batch = b], "batch")

HandlePatchBatch(r) == \E i \in Items, b \in Batches, q \in Amounts :
    Receive(r, [Blank EXCEPT !.op = "PatchBatch", !.item = i, !.batch = b, !.quantity = q],
            "item")

--------------------------------------------------------------------------------
(* The service.  A check is one query, and what it found may be past when   *)
(* the next statement runs.                                                 *)

Proceed(r, stage) == calls' = [calls EXCEPT ![r].stage = stage]
Answer(r, a) == calls' = [calls EXCEPT ![r].stage = "answered", ![r].answer = a]

\* assertBatchScope: the batch, then its item.
AssertBatchScope(r) ==
    /\ Pending(r, "batch")
    /\ \/ /\ GetBatch(calls[r].batch) = None
          /\ Answer(r, "not_found")
       \/ /\ GetBatch(calls[r].batch) # None
          /\ calls' = [calls EXCEPT ![r].stage = "item",
                                    ![r].item = GetBatch(calls[r].batch).item]
    /\ UNCHANGED <<tables, everHeld>>

\* mutant: DeletedAt is not looked at
VisibleDeleted(row) == row # None

\* assertItemScope: a soft-deleted item is not found.
Visible(row) == row # None /\ ~row.deleted
AssertItemScope(r) ==
    /\ Pending(r, "item")
    /\ LET row == GetItem(calls[r].item) IN
       \/ ~Visible(row) /\ Answer(r, "not_found")
       \/ Visible(row) /\ calls' = [calls EXCEPT ![r].stage = "inventory",
                                                 ![r].inventory = row.inventory]
    /\ UNCHANGED <<tables, everHeld>>

\* assertInventoryScope.  GetInventory and GetItem answer with what the checks read.
Owned(row, household) == row # None /\ row.household = household
AssertInventoryScope(r) ==
    /\ Pending(r, "inventory")
    /\ LET owned == Owned(GetInventory(calls[r].inventory), calls[r].household) IN
       \/ ~owned /\ Answer(r, "not_found")
       \/ owned /\ calls[r].op \in {"GetInventory", "GetItem"} /\ Answer(r, "ok")
       \/ owned /\ calls[r].op \notin {"GetInventory", "GetItem"} /\ Proceed(r, "statement")
    /\ UNCHANGED <<tables, everHeld>>

\* The four lists and the quantity change nothing.
Read(r) ==
    /\ Pending(r, "statement") /\ calls[r].op \in Reads
    /\ Answer(r, "ok")
    /\ UNCHANGED <<tables, everHeld>>

\* writeErr.  The answer of a statement that was executed may be lost on its way back.
Settle(r, outcome) ==
    \E a \in {IF outcome = "unique_violation" THEN "invalid_input" ELSE outcome,
              "internal"} : Answer(r, a)

Finish(r, outcome) == Settle(r, outcome) /\ UNCHANGED everHeld

Outcomes == {"ok", "not_found", "unique_violation", "internal"}

ServeCreateInventory(r) ==
    /\ Running(r, "CreateInventory")
    /\ \E v \in Inventories, o \in Outcomes :
          CreateInventory(v, calls[r].household, calls[r].name, o) /\ Finish(r, o)

ServeUpdateInventory(r) ==
    /\ Running(r, "UpdateInventory")
    /\ \E o \in Outcomes :
          UpdateInventory(calls[r].inventory, calls[r].name, o) /\ Finish(r, o)

ServeDeleteInventory(r) ==
    /\ Running(r, "DeleteInventory")
    /\ \E o \in Outcomes : DeleteInventory(calls[r].inventory, o) /\ Finish(r, o)

\* The item, ...
ServeCreateItem(r) ==
    /\ Running(r, "CreateItem")
    /\ \E i \in Items, o \in Outcomes :
          /\ CreateItem(i, calls[r].inventory, calls[r].name, calls[r].target, o)
          /\ \/ o # "ok" /\ Settle(r, o)
             \/ o = "ok" /\ calls' = [calls EXCEPT ![r].item = i, ![r].stage = "first_batch"]
             \/ o = "ok" /\ calls' = [calls EXCEPT ![r].item = i, ![r].stage = "answered",
                                                   ![r].answer = "internal"]
    /\ UNCHANGED everHeld

\* mutant: the error of the first batch is dropped
FirstBatchDropped(r) ==
    /\ Pending(r, "first_batch")
    /\ Answer(r, "ok")
    /\ UNCHANGED <<tables, everHeld>>

\* ... then its first batch, whose quantity nobody looks at.
ServeFirstBatch(r) ==
    /\ Pending(r, "first_batch")
    /\ \E b \in Batches, o \in Outcomes :
          /\ AddBatch(b, calls[r].item, AsNumeric(calls[r].quantity), o)
          /\ Settle(r, o)
          /\ everHeld' = IF o = "ok" THEN everHeld \union {calls[r].item} ELSE everHeld

ServeUpdateItem(r) ==
    /\ Running(r, "UpdateItem")
    /\ \E o \in Outcomes :
          UpdateItem(calls[r].item, calls[r].name, calls[r].target, o) /\ Finish(r, o)

ServeDeleteItem(r) ==
    /\ Running(r, "DeleteItem")
    /\ \E o \in Outcomes : SoftDeleteItem(calls[r].item, o) /\ Finish(r, o)

ServeAddBatch(r) ==
    /\ Running(r, "AddBatch")
    /\ \E b \in Batches, o \in Outcomes :
          /\ AddBatch(b, calls[r].item, AsNumeric(calls[r].quantity), o)
          /\ Settle(r, o)
          /\ everHeld' = IF o = "ok" THEN everHeld \union {calls[r].item} ELSE everHeld

ServeMarkBatchEmptied(r) ==
    /\ Running(r, "MarkBatchEmptied")
    /\ \E o \in Outcomes : MarkBatchEmptied(calls[r].batch, o) /\ Finish(r, o)

ServeDeleteBatch(r) ==
    /\ Running(r, "DeleteBatch")
    /\ \E o \in Outcomes : DeleteBatch(calls[r].batch, o) /\ Finish(r, o)

ServePatchBatch(r) ==
    /\ Running(r, "PatchBatch")
    /\ \E o \in Outcomes :
          /\ PatchBatch(calls[r].batch, calls[r].item, AsNumeric(calls[r].quantity), o)
          /\ Finish(r, o)

\* The database refuses or cannot be reached: nothing was executed.
DatabaseFails(r) ==
    /\ calls[r] # None /\ ~Pending(r, "answered")
    /\ Answer(r, "internal")
    /\ UNCHANGED <<tables, everHeld>>

--------------------------------------------------------------------------------

\* 90 days pass for a batch; pg_cron runs.
Age(b) ==
    /\ IsRow(batches[b]) /\ batches[b].emptied = "recently"
    /\ batches' = [batches EXCEPT ![b].emptied = "long_ago"]
    /\ UNCHANGED <<inventories, items, calls, everHeld>>

Purge ==
    /\ PurgeEmptiedBatches(batches) # batches
    /\ batches' = PurgeEmptiedBatches(batches)
    /\ UNCHANGED <<inventories, items, calls, everHeld>>

\* The process ends: the requests it was serving get no answer.
Crash ==
    /\ \E r \in Requests : calls[r] # None /\ calls[r].stage # "answered"
    /\ calls' = [r \in Requests |->
           IF calls[r] = None \/ calls[r].stage = "answered" THEN calls[r]
           ELSE [calls[r] EXCEPT !.stage = "answered", !.answer = "lost"]]
    /\ UNCHANGED <<tables, everHeld>>

Handle(r) ==
    \/ HandleCreateInventory(r) \/ HandleListInventories(r) \/ HandleGetInventory(r)
    \/ HandleUpdateInventory(r) \/ HandleDeleteInventory(r)
    \/ HandleCreateItem(r) \/ HandleListItems(r) \/ HandleGetItem(r)
    \/ HandleUpdateItem(r) \/ HandleDeleteItem(r) \/ HandleGetEffectiveQuantity(r)
    \/ HandleAddBatch(r) \/ HandleListActiveBatches(r) \/ HandleMarkBatchEmptied(r)
    \/ HandleDeleteBatch(r) \/ HandlePatchBatch(r)

Check(r) == AssertBatchScope(r) \/ AssertItemScope(r) \/ AssertInventoryScope(r)

Serve(r) ==
    \/ Read(r)
    \/ ServeCreateInventory(r) \/ ServeUpdateInventory(r) \/ ServeDeleteInventory(r)
    \/ ServeCreateItem(r) \/ ServeFirstBatch(r) \/ ServeUpdateItem(r) \/ ServeDeleteItem(r)
    \/ ServeAddBatch(r) \/ ServeMarkBatchEmptied(r) \/ ServeDeleteBatch(r)
    \/ ServePatchBatch(r)
    \/ DatabaseFails(r)

Next ==
    \/ \E r \in Requests : Handle(r) \/ Check(r) \/ Serve(r)
    \/ \E b \in Batches : Age(b)
    \/ Purge
    \/ Crash

Spec == Init /\ [][Next]_vars

--------------------------------------------------------------------------------
(* Properties.                                                              *)

\* A request that came after its item was deleted changes nothing and finds nothing,
\* whatever was in flight when the item went (assertItemScope, service.go:70).
NothingAfterDelete ==
    \A r \in Requests : calls[r] # None /\ calls[r].late =>
        /\ calls[r].stage \in {"batch", "item", "answered"}
        /\ calls[r].answer # "ok"

\* A request about to run its statement has checked the household: the row it names is
\* the household's own, or has gone since (service.go:50-89).
WritesAreScoped ==
    \A r \in Requests :
        (Pending(r, "statement") \/ Pending(r, "first_batch")) =>
            LET c == calls[r] IN
            /\ c.inventory # None /\ IsRow(inventories[c.inventory]) =>
                   inventories[c.inventory].household = c.household
            /\ c.item # None /\ IsRow(items[c.item]) => items[c.item].inventory = c.inventory

\* The checks of a request hold when its statement runs, as far as they still can.
ScopeHolds == NothingAfterDelete /\ WritesAreScoped

\* What CreateItem leaves behind when it does not get through (service.go:161, its TODO).
\* An item that never had a batch is one whose creator is still at work or was not told
\* "created"; and only a creator can have put less than nothing on the shelf.
CreateLeftovers ==
    /\ \A i \in Rows(items) \ everHeld : \E r \in Requests :
          /\ calls[r] # None /\ calls[r].op = "CreateItem" /\ calls[r].item = i
          /\ calls[r].answer # "ok"
    /\ \A b \in Rows(batches) : batches[b].quantity < 0 => \E r \in Requests :
          /\ calls[r] # None /\ calls[r].op = "CreateItem"
          /\ calls[r].item = batches[b].item
          /\ AsNumeric(calls[r].quantity) = batches[b].quantity

\* An emptied batch is out of the stock for good: no patch that was in flight when it
\* was emptied changes it or brings it back (PatchBatch's WHERE clause).
EmptiedStaysEmptied ==
    [][\A b \in Rows(batches) : batches[b].emptied # "no" =>
          \/ batches'[b] = Gone
          \/ batches'[b].emptied # "no" /\ batches'[b].quantity = batches[b].quantity]_batches

\* The rows, read the way ListItems and GetEffectiveQuantity read them, are a Stock.
StockStatus == [i \in Items |->
    IF items[i] = None THEN "none" ELSE IF items[i] = Gone THEN "gone"
    ELSE IF items[i].deleted THEN "deleted" ELSE "live"]
StockWanted == [i \in Items |-> IF IsRow(items[i]) THEN items[i].target ELSE None]
StockOnHand == [i \in Items |-> GetInventoryItemQuantity(batches, i)]
Shelf == INSTANCE Stock WITH status <- StockStatus, wanted <- StockWanted,
                             onHand <- StockOnHand

\* No interleaving of requests shows the rest of the program anything but a Stock.
StockSpec == Shelf!Spec
================================================================================
