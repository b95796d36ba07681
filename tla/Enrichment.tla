------------------------------ MODULE Enrichment ------------------------------
(***************************************************************************)
(* The enrichment jobs of committed purchases                              *)
(* (src/baskety/internal/catalog/worker.go): each links its transaction to *)
(* a store and a catalog entry, found by name or created, and stocks the   *)
(* purchase as a batch of an inventory item, found by name or created.     *)
(* The queue's workers run several of them at once, statement by           *)
(* statement and without a transaction, while users edit the same          *)
(* inventory (inventory/service.go).                                       *)
(*                                                                         *)
(* One household, and its default inventory.  A name stands for what the   *)
(* code compares with EqualFold (a product's brand included), and a row is *)
(* identified by who inserted it: a job inserts at most one of a kind.     *)
(* The queue is the one of JobDelivery, in any order of delivery.          *)
(***************************************************************************)
EXTENDS FiniteSets, Naturals, Sequences

CONSTANTS
    Txns,       \* the purchase transactions with an enqueued job
    Names,      \* product names
    Stores,     \* store names
    UserItems,  \* the inventory items that are or may be made by a user
    Workers,    \* how many jobs the queue runs at once (2 in main.go)
    MaxEdits,   \* bound: the changes users make to the rows
    User,       \* who inserts the rows that no job did
    None        \* SQL NULL

ASSUME EnrichmentAssumption ==
    /\ IsFiniteSet(Txns)
    /\ Workers \in Nat \ {0}
    /\ MaxEdits \in Nat
    /\ Txns \intersect UserItems = {}
    /\ User \notin Txns
    /\ None \notin Names \union Stores \union Txns \union UserItems

VARIABLES
    pc,         \* each job, by the next statement of Work
    refs,       \* what loadScanItemRefs gave the job
    found,      \* storeID and catalogEntryID
    target,     \* itemID
    rows,       \* the rows of stores and of catalog_entries
    linked,     \* store_id and catalog_entry_id of each transaction
    inventory,  \* does the household have its default inventory?
    items,      \* the rows of inventory_items
    batches,    \* history: the batches each job inserted, by item
    deadAtLoad, \* history: the items that were deleted when the job began
    edits       \* how many changes users have made

jobVars == <<pc, refs, found, target>>
catalogVars == <<rows, linked>>
stockVars == <<inventory, items, batches>>
vars == <<jobVars, catalogVars, stockVars, deadAtLoad, edits>>

Items == Txns \union UserItems
Tables == {"store", "entry"}
NoRow == [name |-> None, plain |-> TRUE, deleted |-> FALSE]
Gone == [NoRow EXCEPT !.deleted = TRUE]  \* an id is never used again
NoRefs == [store |-> None, entry |-> None, link |-> None]
NotFound == [store |-> None, entry |-> None]

FindAt == [store |-> "find_store", entry |-> "find_entry"]
AddAt == [store |-> "add_store", entry |-> "add_entry"]
After == [store |-> "find_entry", entry |-> "link"]

InWork == {"find_store", "add_store", "find_entry", "add_entry", "link", "resolve",
           "find_item", "add_item", "check", "add_batch", "return"}
\* "failed": a database call did.  "refused": a constraint of a table said no.
Over == {"ended", "failed", "refused", "lost"}

Running == {t \in Txns : pc[t] \in InWork}
Present(i) == items[i].name # None
Live(i) == Present(i) /\ ~items[i].deleted
Named(tab, n) == {r \in rows : r.table = tab /\ r.name = n}

\* idx_inventory_items_unique_name_category: may row i hold this name and category?
Unique(i, name, plain) ==
    \A k \in Items \ {i} : Live(k) => <<items[k].name, items[k].plain>> # <<name, plain>>

RowRecords == [table : Tables, name : Names \union Stores, by : Txns \union {User}]
ItemRecords == [name : Names \union {None}, plain : BOOLEAN, deleted : BOOLEAN]
RefRecords == [store : Stores \union {None}, entry : Names \union {None},
               link : Items \union {None}]
FoundRecords == [store : RowRecords \union {None}, entry : RowRecords \union {None}]

TypeOK ==
    /\ pc \in [Txns -> {"queued"} \union InWork \union Over]
    /\ refs \in [Txns -> RefRecords]
    /\ found \in [Txns -> FoundRecords]
    /\ target \in [Txns -> Items \union {None}]
    /\ rows \in SUBSET RowRecords
    /\ linked \in [Txns -> FoundRecords]
    /\ inventory \in BOOLEAN
    /\ items \in [Items -> ItemRecords]
    /\ batches \in [Txns -> Seq(Items)]
    /\ deadAtLoad \in [Txns -> SUBSET Items]
    /\ edits \in 0..MaxEdits

\* The catalog is empty; the inventory may already hold items.
Init ==
    /\ pc = [t \in Txns |-> "queued"]
    /\ refs = [t \in Txns |-> NoRefs]
    /\ found = [t \in Txns |-> NotFound]
    /\ target = [t \in Txns |-> None]
    /\ rows = {}
    /\ linked = [t \in Txns |-> NotFound]
    /\ inventory \in BOOLEAN
    /\ items \in [Items -> {NoRow} \union
                           [name : IF inventory THEN Names ELSE {}, plain : BOOLEAN,
                            deleted : {FALSE}]]
    /\ \A t \in Txns : ~Present(t)
    /\ \A i \in Items : Present(i) => Unique(i, items[i].name, items[i].plain)
    /\ batches = [t \in Txns |-> <<>>]
    /\ deadAtLoad = [t \in Txns |-> {}]
    /\ edits = 0

--------------------------------------------------------------------------------
(* ProcessPurchaseTransactionWorker.Work, one action per statement.         *)

Goto(t, from, to) == pc[t] = from /\ pc' = [pc EXCEPT ![t] = to]

\* A free worker receives the job, which reads its transaction and what the scan item
\* says by now.  CommitScan gives every transaction a scan item.
Load(t) ==
    /\ Cardinality(Running) < Workers
    /\ Goto(t, "queued", "find_store")
    /\ \E store \in Stores \union {None}, entry \in Names \union {None},
          link \in {i \in Items : Present(i)} \union {None} :
          refs' = [refs EXCEPT ![t] = [store |-> store, entry |-> entry, link |-> link]]
    /\ deadAtLoad' = [deadAtLoad EXCEPT ![t] = {i \in Items : items[i].deleted}]
    /\ UNCHANGED <<found, target, catalogVars, stockVars, edits>>

\* UpsertStore and UpsertCatalogEntry: nothing to look for.
SkipRow(t, tab) ==
    /\ refs[t][tab] = None
    /\ Goto(t, FindAt[tab], After[tab])
    /\ UNCHANGED <<refs, found, target, catalogVars, stockVars, deadAtLoad, edits>>

\* They list the table and take the first row of that name.
FindRow(t, tab) ==
    /\ refs[t][tab] # None
    /\ Goto(t, FindAt[tab], After[tab])
    /\ \E r \in Named(tab, refs[t][tab]) : found' = [found EXCEPT ![t][tab] = r]
    /\ UNCHANGED <<refs, target, catalogVars, stockVars, deadAtLoad, edits>>

\* mutant: the row is inserted without a look at the list
MissRowAlways(t, tab) ==
    /\ refs[t][tab] # None
    /\ Goto(t, FindAt[tab], AddAt[tab])
    /\ UNCHANGED <<refs, found, target, catalogVars, stockVars, deadAtLoad, edits>>

\* There is none: it will be inserted.
MissRow(t, tab) ==
    /\ refs[t][tab] # None
    /\ Named(tab, refs[t][tab]) = {}
    /\ Goto(t, FindAt[tab], AddAt[tab])
    /\ UNCHANGED <<refs, found, target, catalogVars, stockVars, deadAtLoad, edits>>

\* mutant: the table and the name of the new row come from the store's
AddRowOfStore(t, tab) ==
    /\ Goto(t, AddAt[tab], After[tab])
    /\ LET r == [table |-> tab, name |-> refs[t].store, by |-> t] IN
         /\ rows' = rows \union {r}
         /\ found' = [found EXCEPT ![t][tab] = r]
    /\ UNCHANGED <<refs, target, linked, stockVars, deadAtLoad, edits>>

\* The insert: no table has a unique name.
AddRow(t, tab) ==
    /\ Goto(t, AddAt[tab], After[tab])
    /\ LET r == [table |-> tab, name |-> refs[t][tab], by |-> t] IN
         /\ rows' = rows \union {r}
         /\ found' = [found EXCEPT ![t][tab] = r]
    /\ UNCHANGED <<refs, target, linked, stockVars, deadAtLoad, edits>>

\* mutant: the purchase is stocked first
LinkNothing(t) ==
    /\ \E to \in {"resolve", "return"} : Goto(t, "link", to)
    /\ UNCHANGED <<refs, found, target, catalogVars, stockVars, deadAtLoad, edits>>

\* UpdatePurchaseTransactionRefs; a purchase without a quantity is not stocked.
Link(t) ==
    /\ \E to \in {"resolve", "return"} : Goto(t, "link", to)
    /\ linked' = [linked EXCEPT ![t] = found[t]]
    /\ UNCHANGED <<refs, found, target, rows, stockVars, deadAtLoad, edits>>

\* resolveInventoryItemID up to ListInventories: the explicit link; or nothing, when
\* the product has no name or the household no inventory; or the name.
Resolve(t) ==
    /\ \/ /\ refs[t].link # None
          /\ Goto(t, "resolve", "check")
          /\ target' = [target EXCEPT ![t] = refs[t].link]
       \/ /\ refs[t].link = None
          /\ Goto(t, "resolve", IF refs[t].entry = None \/ ~inventory THEN "return"
                                                                     ELSE "find_item")
          /\ UNCHANGED target
    /\ UNCHANGED <<refs, found, catalogVars, stockVars, deadAtLoad, edits>>

\* ListItems: the live items, the first of that name whatever its category.
FindItem(t) ==
    /\ Goto(t, "find_item", "check")
    /\ \E i \in Items :
          /\ Live(i) /\ items[i].name = refs[t].entry
          /\ target' = [target EXCEPT ![t] = i]
    /\ UNCHANGED <<refs, found, catalogVars, stockVars, deadAtLoad, edits>>

\* mutant: the item is inserted without a look at the list
MissItemAlways(t) ==
    /\ Goto(t, "find_item", "add_item")
    /\ UNCHANGED <<refs, found, target, catalogVars, stockVars, deadAtLoad, edits>>

MissItem(t) ==
    /\ Goto(t, "find_item", "add_item")
    /\ \A i \in Items : Live(i) => items[i].name # refs[t].entry
    /\ UNCHANGED <<refs, found, target, catalogVars, stockVars, deadAtLoad, edits>>

\* mutant: there is no unique index
AddItemUnindexed(t) ==
    /\ Goto(t, "add_item", "check")
    /\ inventory
    /\ items' = [items EXCEPT ![t] = [name |-> refs[t].entry, plain |-> TRUE, deleted |-> FALSE]]
    /\ target' = [target EXCEPT ![t] = t]
    /\ UNCHANGED <<refs, found, catalogVars, inventory, batches, deadAtLoad, edits>>

\* The insert, with no category, which the unique index and the foreign key allow.
AddItem(t) ==
    /\ Goto(t, "add_item", "check")
    /\ inventory /\ Unique(t, refs[t].entry, TRUE)
    /\ items' = [items EXCEPT ![t] = [name |-> refs[t].entry, plain |-> TRUE, deleted |-> FALSE]]
    /\ target' = [target EXCEPT ![t] = t]
    /\ UNCHANGED <<refs, found, catalogVars, inventory, batches, deadAtLoad, edits>>

\* The index or the key refuses it: the job ends with the error.
AddItemRefused(t) ==
    /\ Goto(t, "add_item", "refused")
    /\ ~(inventory /\ Unique(t, refs[t].entry, TRUE))
    /\ UNCHANGED <<refs, found, target, catalogVars, stockVars, deadAtLoad, edits>>

\* mutant: a soft-deleted item is as good as any
CheckItemPresent(t) ==
    /\ pc[t] = "check"
    /\ Goto(t, "check", IF Present(target[t]) THEN "add_batch" ELSE "return")
    /\ UNCHANGED <<refs, found, target, catalogVars, stockVars, deadAtLoad, edits>>

\* GetItem: an item that is gone or soft-deleted is skipped.
CheckItem(t) ==
    /\ pc[t] = "check"
    /\ Goto(t, "check", IF Live(target[t]) THEN "add_batch" ELSE "return")
    /\ UNCHANGED <<refs, found, target, catalogVars, stockVars, deadAtLoad, edits>>

\* The batch is inserted for the item checked a statement ago.
AddBatch(t) ==
    /\ Goto(t, "add_batch", "return")
    /\ Present(target[t])
    /\ batches' = [batches EXCEPT ![t] = Append(@, target[t])]
    /\ UNCHANGED <<refs, found, target, catalogVars, inventory, items, deadAtLoad, edits>>

\* The item went away with its inventory: the foreign key refuses the batch.
AddBatchRefused(t) ==
    /\ Goto(t, "add_batch", "refused")
    /\ ~Present(target[t])
    /\ UNCHANGED <<refs, found, target, catalogVars, stockVars, deadAtLoad, edits>>

\* Work returns and the worker is free again.
Return(t) ==
    /\ Goto(t, "return", "ended")
    /\ UNCHANGED <<refs, found, target, catalogVars, stockVars, deadAtLoad, edits>>

\* mutant: a job whose last answer was lost is put back
CallFailsRetried(t) ==
    /\ Goto(t, "return", "queued")
    /\ UNCHANGED <<refs, found, target, catalogVars, stockVars, deadAtLoad, edits>>

\* A database call fails, or succeeds and its answer is lost; no job is retried.
CallFails(t) ==
    /\ t \in Running
    /\ pc' = [pc EXCEPT ![t] = "failed"]
    /\ UNCHANGED <<refs, found, target, catalogVars, stockVars, deadAtLoad, edits>>

Work(t) ==
    \/ Load(t) \/ Link(t) \/ Resolve(t)
    \/ \E tab \in Tables : SkipRow(t, tab) \/ FindRow(t, tab) \/ MissRow(t, tab) \/ AddRow(t, tab)
    \/ FindItem(t) \/ MissItem(t) \/ AddItem(t) \/ AddItemRefused(t)
    \/ CheckItem(t) \/ AddBatch(t) \/ AddBatchRefused(t) \/ Return(t) \/ CallFails(t)

--------------------------------------------------------------------------------
(* What users do meanwhile.                                                 *)

Edit == edits < MaxEdits /\ edits' = edits + 1

\* CreateStore and CreateCatalogEntry insert what they are given.
UserAddsRow(tab) ==
    /\ Edit
    /\ \E n \in (IF tab = "store" THEN Stores ELSE Names) :
          rows' = rows \union {[table |-> tab, name |-> n, by |-> User]}
    /\ UNCHANGED <<jobVars, linked, stockVars, deadAtLoad>>

\* CreateItem, up to the insert of the item.
UserAddsItem(i) ==
    /\ Edit
    /\ inventory /\ items[i] = NoRow
    /\ \E n \in Names, plain \in BOOLEAN :
          /\ Unique(i, n, plain)
          /\ items' = [items EXCEPT ![i] = [name |-> n, plain |-> plain, deleted |-> FALSE]]
    /\ UNCHANGED <<jobVars, catalogVars, inventory, batches, deadAtLoad>>

\* UpdateItem, of a live item.
UserUpdatesItem(i) ==
    /\ Edit
    /\ Live(i)
    /\ \E n \in Names, plain \in BOOLEAN :
          /\ Unique(i, n, plain)
          /\ items' = [items EXCEPT ![i].name = n, ![i].plain = plain]
    /\ UNCHANGED <<jobVars, catalogVars, inventory, batches, deadAtLoad>>

\* DeleteItem is a soft delete.
UserDeletesItem(i) ==
    /\ Edit
    /\ Live(i)
    /\ items' = [items EXCEPT ![i].deleted = TRUE]
    /\ UNCHANGED <<jobVars, catalogVars, inventory, batches, deadAtLoad>>

\* DeleteInventory takes every item along, soft-deleted or not.
UserDeletesInventory ==
    /\ Edit
    /\ inventory' = FALSE
    /\ items' = [i \in Items |-> IF items[i] = NoRow THEN NoRow ELSE Gone]
    /\ UNCHANGED <<jobVars, catalogVars, batches, deadAtLoad>>

UserCreatesInventory ==
    /\ Edit
    /\ inventory' = TRUE
    /\ UNCHANGED <<jobVars, catalogVars, items, batches, deadAtLoad>>

UserEdits ==
    \/ \E tab \in Tables : UserAddsRow(tab)
    \/ \E i \in UserItems : UserAddsItem(i)
    \/ \E i \in Items : UserUpdatesItem(i) \/ UserDeletesItem(i)
    \/ UserDeletesInventory \/ UserCreatesInventory

\* The process dies: its jobs are gone, wherever they were.
Crash ==
    /\ \E t \in Txns : pc[t] \notin Over
    /\ pc' = [t \in Txns |-> IF pc[t] \in Over THEN pc[t] ELSE "lost"]
    /\ UNCHANGED <<refs, found, target, catalogVars, stockVars, deadAtLoad, edits>>

Next == (\E t \in Txns : Work(t)) \/ UserEdits \/ Crash

Spec == Init /\ [][Next]_vars

--------------------------------------------------------------------------------
(* Properties *)

\* A purchase is stocked at most once: nothing retries a job that may already have
\* inserted its batch.
StockedOnce == \A t \in Txns : Len(batches[t]) <= 1

\* A purchase is stocked after its transaction was linked, to rows of the store's and
\* the product's names, whichever job or user inserted them.
StockFollowsLink ==
    \A t \in Txns : batches[t] # <<>> =>
        \A tab \in Tables :
            IF refs[t][tab] = None THEN linked[t][tab] = None
            ELSE linked[t][tab] \in Named(tab, refs[t][tab])

\* Find-then-insert duplicates a store or a catalog entry when jobs overlap, but never
\* beyond the number of workers, however many receipts name it: with one worker the
\* dedup "at the application layer" (repository_pg.go:161-163) would hold.
DuplicatesBounded ==
    \A tab \in Tables : \A n \in Names \union Stores :
        Cardinality({r \in Named(tab, n) : r.by # User}) <= Workers

\* Stock never reappears on an item the user had deleted before the job began, by link
\* or by name; only a delete in between can be overtaken.
DeletedStaysEmpty ==
    \A t \in Txns : \A k \in 1..Len(batches[t]) : batches[t][k] \notin deadAtLoad[t]

\* Two live items of one name and category are never seen, and as long as users
\* leave the rows alone no two of a name: jobs that race for a new product end up
\* with one item.
OneItemPerName ==
    \A i, k \in Items : Live(i) /\ Live(k) /\ i # k /\ items[i].name = items[k].name =>
        /\ items[i].plain # items[k].plain
        /\ {i, k} \subseteq Txns => edits > 0

\* A job is refused its item only when another job or a user's edit took the name
\* after it had looked.
RefusedWasRaced ==
    \A t \in Txns : pc[t] = "refused" /\ edits = 0 =>
        \E s \in Txns \ {t} : Live(s) /\ items[s].name = refs[t].entry

\* Contradicted.  "Receipts of brand-new products still populate inventory"
\* (worker.go:105-108): as long as no user touches a row no job is refused the item
\* its purchase needs.
NewProductsStocked == \A t \in Txns : edits = 0 => pc[t] # "refused"
================================================================================
