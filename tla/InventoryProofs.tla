---------------------------- MODULE InventoryProofs ----------------------------
(***************************************************************************)
(* Proofs about Inventory, for any number of requests, households and rows *)
(* and any database the keys allow to start from: type correctness,        *)
(* referential integrity, and that the checks of a request still hold when *)
(* its statement runs.                                                     *)
(*                                                                         *)
(* ScopeHolds is not inductive: it says nothing of a request between its   *)
(* checks.  IInv adds what each stage of a request knows (Carried, Scoped, *)
(* LateStopped).  What keeps that knowledge true while other requests      *)
(* write is Stable: a row never comes back, never moves to another owner,  *)
(* and an item once deleted stays deleted.  Every statement is shown to be *)
(* Stable once, and every request's knowledge to survive Stable once.      *)
(***************************************************************************)
EXTENDS Inventory, TLAPS

OfBatch == {"MarkBatchEmptied", "DeleteBatch", "PatchBatch"}
OfItem == {"GetItem", "GetEffectiveQuantity", "ListActiveBatches", "UpdateItem", "DeleteItem",
           "AddBatch", "PatchBatch"}
OfInventory == {"GetInventory", "UpdateInventory", "DeleteInventory", "CreateItem", "ListItems"}

\* What a request carries from its input, by operation.
Inputs(c) ==
    /\ c.op \in {"CreateInventory", "UpdateInventory", "CreateItem", "UpdateItem"} =>
          c.name \in Names
    /\ c.op \in {"CreateItem", "UpdateItem"} => c.target \in Targets
    /\ c.op \in {"CreateItem", "AddBatch", "PatchBatch"} => c.quantity \in Amounts
    /\ c.op \in {"AddBatch", "PatchBatch"} => c.quantity >= 0
    /\ c.op \in OfBatch => c.batch \in Batches
    /\ c.op \in OfItem => c.item \in Items
    /\ c.op \in OfInventory => c.inventory \in Inventories

\* ... and what it has with it at each stage, until it is answered.
Carried(c) == c.stage # "answered" =>
    /\ c.household \in Households
    /\ Inputs(c)
    /\ c.stage = "batch" => c.op \in {"MarkBatchEmptied", "DeleteBatch"}
    /\ c.stage = "item" => c.item \in Items /\ c.op \in OfItem \union OfBatch
    /\ c.stage = "inventory" => c.inventory \in Inventories
    /\ c.stage = "first_batch" => c.op = "CreateItem" /\ c.item \in Items
    /\ c.op = "CreateItem" /\ c.stage # "first_batch" => c.item = None

\* What the checks a request has passed found, as far as it is still there.
Scoped(c) ==
    /\ c.stage \in {"inventory", "statement", "first_batch"} /\ c.item # None =>
          items[c.item] # None /\ (IsRow(items[c.item]) => items[c.item].inventory = c.inventory)
    /\ c.stage \in {"statement", "first_batch"} /\ c.inventory # None =>
          /\ inventories[c.inventory] # None
          /\ IsRow(inventories[c.inventory]) => inventories[c.inventory].household = c.household

\* Where a request that came too late can be, and why it gets no further.
LateStopped(c) == c.late =>
    /\ c.stage \in {"batch", "item", "answered"}
    /\ c.answer # "ok"
    /\ c.stage = "item" => Deleted(c.item)
    /\ c.stage = "batch" =>
          /\ batches[c.batch] # None
          /\ IsRow(batches[c.batch]) => Deleted(batches[c.batch].item)

CallInv(r) == calls[r] # None => Carried(calls[r]) /\ Scoped(calls[r]) /\ LateStopped(calls[r])

IInv ==
    /\ TypeOK
    /\ Integrity
    /\ CreateLeftovers
    /\ \A r \in Requests : CallInv(r)

\* What no statement undoes: rows neither come back nor change hands, a deleted item stays
\* deleted, an emptied batch stays emptied and keeps its quantity.
Stable ==
    /\ \A v \in Inventories : inventories[v] # None =>
          /\ inventories'[v] # None
          /\ IsRow(inventories'[v]) =>
                /\ IsRow(inventories[v])
                /\ inventories'[v].household = inventories[v].household
    /\ \A i \in Items : items[i] # None =>
          /\ items'[i] # None
          /\ IsRow(items'[i]) =>
                /\ IsRow(items[i])
                /\ items'[i].inventory = items[i].inventory
                /\ items[i].deleted => items'[i].deleted
    /\ \A b \in Batches : batches[b] # None =>
          /\ batches'[b] # None
          /\ IsRow(batches'[b]) =>
                /\ IsRow(batches[b])
                /\ batches'[b].item = batches[b].item
                /\ batches[b].emptied # "no" =>
                      batches'[b].emptied # "no" /\ batches'[b].quantity = batches[b].quantity

NoNewItem == Rows(items') \subseteq Rows(items)
NoNewDebt == \A b \in Rows(batches') : batches'[b].quantity < 0 =>
    /\ b \in Rows(batches)
    /\ batches'[b].item = batches[b].item /\ batches'[b].quantity = batches[b].quantity

Sound == TablesOK' /\ Integrity' /\ Stable
Kept == IInv' /\ Stable

--------------------------------------------------------------------------------
(* The statements.                                                          *)

\* Nothing is written.
LEMMA Unwritten ==
    ASSUME TablesOK, Integrity, UNCHANGED tables
    PROVE  Sound /\ NoNewItem /\ NoNewDebt
BY DEF tables, TablesOK, Integrity, NameFree, Rows, IsRow, Sound, Stable, NoNewItem, NoNewDebt

LEMMA CreateInventorySound ==
    ASSUME TablesOK, Integrity, NEW v \in Inventories, NEW h \in Households, NEW n \in Names,
           NEW o, CreateInventory(v, h, n, o)
    PROVE  Sound /\ NoNewItem /\ NoNewDebt
<1> DEFINE row == [household |-> h, name |-> n]
<1>1. row \in InventoryRecords(Households, Names)
  BY DEF InventoryRecords
<1>2. IsRow(row)
  BY <1>1, InventoryAssumption DEF InventoryAssumption, NoNull, IsRow
<1>3. inventories' = [inventories EXCEPT ![v] = row] /\ UNCHANGED <<items, batches>>
      /\ inventories[v] = None
  BY DEF CreateInventory, CreateInventoryRow
<1> HIDE DEF row
<1>4. TablesOK'
  BY <1>1, <1>3 DEF TablesOK
<1>5. \A w \in Inventories : IsRow(inventories[w]) => IsRow(inventories'[w])
  BY <1>2, <1>3 DEF TablesOK
<1>6. Integrity'
  BY <1>3, <1>5 DEF Integrity, TablesOK, ItemRecords, NameFree, Rows, IsRow
<1>7. Stable
  BY <1>3 DEF Stable, TablesOK
<1> QED BY <1>3, <1>4, <1>6, <1>7 DEF Sound, NoNewItem, NoNewDebt, Rows

LEMMA UpdateInventorySound ==
    ASSUME TablesOK, Integrity, NEW v \in Inventories, NEW n \in Names,
           NEW o, UpdateInventory(v, n, o)
    PROVE  Sound /\ NoNewItem /\ NoNewDebt
<1>1. CASE ~IsRow(inventories[v])
  BY <1>1, Unwritten DEF UpdateInventory, UpdateInventoryRow, tables
<1>2. CASE IsRow(inventories[v])
  <2> DEFINE row == [inventories[v] EXCEPT !.name = n]
  <2>1. inventories[v] \in InventoryRecords(Households, Names)
    BY <1>2 DEF TablesOK, IsRow
  <2>2. row \in InventoryRecords(Households, Names) /\ row.household = inventories[v].household
    BY <2>1 DEF InventoryRecords
  <2>3. IsRow(row)
    BY <2>2, InventoryAssumption DEF InventoryAssumption, NoNull, IsRow
  <2>4. inventories' = [inventories EXCEPT ![v] = row] /\ UNCHANGED <<items, batches>>
    BY <1>2 DEF UpdateInventory, UpdateInventoryRow
  <2> HIDE DEF row
  <2>5. TablesOK'
    BY <2>2, <2>4 DEF TablesOK
  <2>6. \A w \in Inventories : IsRow(inventories[w]) => IsRow(inventories'[w])
    BY <2>3, <2>4 DEF TablesOK
  <2>7. Integrity'
    BY <2>4, <2>6 DEF Integrity, TablesOK, ItemRecords, NameFree, Rows, IsRow
  <2>8. Stable
    BY <1>2, <2>2, <2>3, <2>4 DEF Stable, TablesOK, IsRow
  <2> QED BY <2>4, <2>5, <2>7, <2>8 DEF Sound, NoNewItem, NoNewDebt, Rows
<1> QED BY <1>1, <1>2

LEMMA DeleteInventorySound ==
    ASSUME TablesOK, Integrity, NEW v \in Inventories, NEW o, DeleteInventory(v, o)
    PROVE  Sound /\ NoNewItem /\ NoNewDebt
<1> DEFINE lost == {i \in Rows(items) : items[i].inventory = v}
<1>1. /\ inventories' = IF IsRow(inventories[v]) THEN [inventories EXCEPT ![v] = Gone]
                        ELSE inventories
      /\ items' = [i \in Items |-> IF i \in lost THEN Gone ELSE items[i]]
      /\ batches' = [b \in Batches |-> IF IsRow(batches[b]) /\ batches[b].item \in lost THEN Gone
                                       ELSE batches[b]]
  BY DEF DeleteInventory, DeleteInventoryRow, CascadeItems, CascadeBatches, TablesOK, Rows
<1>2. TablesOK'
  BY <1>1 DEF TablesOK
<1>3. Rows(items') = Rows(items) \ lost
  BY <1>1 DEF Rows, IsRow, TablesOK
<1>4. Rows(batches') = {b \in Rows(batches) : batches[b].item \notin lost}
  BY <1>1 DEF Rows, IsRow, TablesOK
<1>5. /\ \A i \in Rows(items') : items'[i] = items[i] /\ items[i].inventory # v
      /\ \A b \in Rows(batches') : batches'[b] = batches[b]
  BY <1>1, <1>3, <1>4 DEF Rows, IsRow, TablesOK
<1>6. Integrity'
  <2>1. ASSUME NEW i \in Rows(items') PROVE IsRow(inventories'[items'[i].inventory])
    <3>1. i \in Rows(items)
      BY <1>3
    <3>2. items'[i] = items[i] /\ items[i].inventory # v
      BY <1>5
    <3>3. IsRow(inventories[items[i].inventory])
      BY <3>1, Zenon DEF Integrity
    <3> QED BY <1>1, <3>2, <3>3 DEF TablesOK
  <2>2. ASSUME NEW b \in Rows(batches') PROVE IsRow(items'[batches'[b].item])
    <3>1. b \in Rows(batches) /\ batches[b].item \notin lost /\ batches'[b] = batches[b]
      BY <1>4, <1>5
    <3>2. batches[b].item \in Items
      BY <3>1 DEF TablesOK, BatchRecords, Rows, IsRow
    <3>3. IsRow(items[batches[b].item])
      BY <3>1 DEF Integrity
    <3> QED BY <1>1, <3>1, <3>2, <3>3
  <2>3. ASSUME NEW i \in Rows(items'), ~items'[i].deleted
        PROVE  NameFree(items', i, items'[i].inventory, items'[i].name)
    BY <1>3, <1>5, <2>3 DEF Integrity, NameFree
  <2> QED BY <2>1, <2>2, <2>3 DEF Integrity
<1>7. Stable
  BY <1>1, InventoryAssumption DEF Stable, TablesOK, IsRow, InventoryAssumption
<1> QED BY <1>2, <1>3, <1>4, <1>5, <1>6, <1>7 DEF Sound, NoNewItem, NoNewDebt

LEMMA CreateItemSound ==
    ASSUME TablesOK, Integrity, NEW i \in Items, NEW v \in Inventories, NEW n \in Names,
           NEW t \in Targets, NEW o, CreateItem(i, v, n, t, o)
    PROVE  /\ Sound /\ NoNewDebt
           /\ o # "ok" => NoNewItem
           /\ o = "ok" => /\ Rows(items') = Rows(items) \union {i}
                         /\ items[i] = None /\ IsRow(items'[i]) /\ items'[i].inventory = v
<1>1. CASE o # "ok"
  <2>1. UNCHANGED tables
    BY <1>1 DEF CreateItem, tables
  <2> QED BY <1>1, <2>1, Unwritten
<1>2. CASE o = "ok"
  <2> DEFINE row == [inventory |-> v, name |-> n, target |-> t, deleted |-> FALSE]
  <2>1. row \in ItemRecords(Inventories, Names, Targets)
    BY DEF ItemRecords
  <2>2. IsRow(row)
    BY <2>1, InventoryAssumption DEF InventoryAssumption, NoNull, IsRow
  <2>3. /\ items' = [items EXCEPT ![i] = row] /\ UNCHANGED <<inventories, batches>>
        /\ items[i] = None /\ IsRow(inventories[v]) /\ NameFree(items, i, v, n)
    BY <1>2 DEF CreateItem, CreateInventoryItem
  <2>4. row.inventory = v /\ row.name = n /\ ~row.deleted
    OBVIOUS
  <2> HIDE DEF row
  <2>5. TablesOK'
    BY <2>1, <2>3 DEF TablesOK
  <2>6. /\ Rows(items') = Rows(items) \union {i} /\ i \notin Rows(items)
        /\ items'[i] = row
        /\ \A k \in Rows(items) : items'[k] = items[k]
    BY <2>2, <2>3 DEF TablesOK, Rows, IsRow
  <2>7. Integrity'
    <3>1. ASSUME NEW k \in Rows(items') PROVE IsRow(inventories'[items'[k].inventory])
      BY <2>3, <2>4, <2>6 DEF Integrity
    <3>2. ASSUME NEW b \in Rows(batches') PROVE IsRow(items'[batches'[b].item])
      <4>1. IsRow(items[batches[b].item]) /\ batches[b].item \in Items
        BY <2>3 DEF Integrity, TablesOK, BatchRecords, Rows, IsRow
      <4>2. batches[b].item \in Rows(items)
        BY <4>1 DEF Rows, TablesOK
      <4> QED BY <2>3, <2>6, <4>1, <4>2
    <3>3. ASSUME NEW k \in Rows(items'), ~items'[k].deleted
          PROVE  NameFree(items', k, items'[k].inventory, items'[k].name)
      <4>1. ASSUME NEW j \in Rows(items') \ {k}, ~items'[j].deleted
            PROVE  <<items'[j].inventory, items'[j].name>> # <<items'[k].inventory, items'[k].name>>
        <5>1. CASE k = i
          BY <2>3, <2>4, <2>6, <4>1, <5>1 DEF NameFree
        <5>2. CASE j = i
          BY <2>3, <2>4, <2>6, <3>3, <5>2 DEF NameFree
        <5>3. CASE k # i /\ j # i
          BY <2>6, <3>3, <4>1, <5>3 DEF Integrity, NameFree
        <5> QED BY <5>1, <5>2, <5>3
      <4> QED BY <4>1 DEF NameFree
    <3> QED BY <3>1, <3>2, <3>3 DEF Integrity
  <2>8. Stable
    BY <2>3 DEF Stable, TablesOK
  <2> QED BY <1>2, <2>2, <2>3, <2>4, <2>5, <2>6, <2>7, <2>8 DEF Sound, NoNewDebt, Rows
<1> QED BY <1>1, <1>2

\* An item's row changes in place: what has to be shown of the new one.
LEMMA ItemChanged ==
    ASSUME TablesOK, Integrity, NEW i \in Rows(items),
           NEW row \in ItemRecords(Inventories, Names, Targets),
           items' = [items EXCEPT ![i] = row], UNCHANGED <<inventories, batches>>,
           row.inventory = items[i].inventory, items[i].deleted => row.deleted,
           row.deleted \/ NameFree(items, i, row.inventory, row.name)
    PROVE  Sound /\ NoNewItem /\ NoNewDebt
<1>1. IsRow(row)
  BY InventoryAssumption DEF InventoryAssumption, NoNull, IsRow
<1>2. i \in Items /\ IsRow(items[i])
  BY DEF Rows, TablesOK
<1>3. TablesOK'
  BY <1>2 DEF TablesOK
<1>4. /\ Rows(items') = Rows(items) /\ items'[i] = row
      /\ \A k \in Rows(items) \ {i} : items'[k] = items[k]
  BY <1>1, <1>2 DEF TablesOK, Rows, IsRow
<1>5. Integrity'
  <2>1. ASSUME NEW k \in Rows(items') PROVE IsRow(inventories'[items'[k].inventory])
    BY <1>4 DEF Integrity
  <2>2. ASSUME NEW b \in Rows(batches') PROVE IsRow(items'[batches'[b].item])
    <3>1. batches[b].item \in Rows(items)
      BY DEF Integrity, TablesOK, BatchRecords, Rows, IsRow
    <3> QED BY <1>1, <1>4, <3>1 DEF Rows
  <2>3. ASSUME NEW k \in Rows(items'), ~items'[k].deleted
        PROVE  NameFree(items', k, items'[k].inventory, items'[k].name)
    <3>1. ASSUME NEW j \in Rows(items') \ {k}, ~items'[j].deleted
          PROVE  <<items'[j].inventory, items'[j].name>> # <<items'[k].inventory, items'[k].name>>
      <4>1. CASE k = i
        BY <1>4, <2>3, <3>1, <4>1 DEF NameFree
      <4>2. CASE j = i
        BY <1>4, <2>3, <3>1, <4>2 DEF NameFree
      <4>3. CASE k # i /\ j # i
        BY <1>4, <2>3, <3>1, <4>3 DEF Integrity, NameFree
      <4> QED BY <4>1, <4>2, <4>3
    <3> QED BY <3>1 DEF NameFree
  <2> QED BY <2>1, <2>2, <2>3 DEF Integrity
<1>6. Stable
  <2>1. \A k \in Items \ {i} : items'[k] = items[k]
    BY <1>2 DEF TablesOK
  <2> QED BY <1>1, <1>2, <1>4, <2>1 DEF Stable, IsRow
<1> QED BY <1>3, <1>4, <1>5, <1>6 DEF Sound, NoNewItem, NoNewDebt

LEMMA UpdateItemSound ==
    ASSUME TablesOK, Integrity, NEW i \in Items, NEW n \in Names, NEW t \in Targets,
           NEW o, UpdateItem(i, n, t, o)
    PROVE  Sound /\ NoNewItem /\ NoNewDebt
<1>1. CASE UNCHANGED items
  BY <1>1, Unwritten DEF UpdateItem, tables
<1>2. CASE /\ IsRow(items[i])
           /\ items[i].deleted \/ NameFree(items, i, items[i].inventory, n)
           /\ items' = UpdateInventoryItem(items, i, n, t)
  <2> DEFINE row == [items[i] EXCEPT !.name = n, !.target = t]
  <2>1. items[i] \in ItemRecords(Inventories, Names, Targets)
    BY <1>2 DEF TablesOK, IsRow
  <2>2. /\ row \in ItemRecords(Inventories, Names, Targets)
        /\ row.inventory = items[i].inventory /\ row.deleted = items[i].deleted /\ row.name = n
    BY <2>1 DEF ItemRecords
  <2>3. items' = [items EXCEPT ![i] = row] /\ UNCHANGED <<inventories, batches>>
    BY <1>2, <2>1 DEF UpdateInventoryItem, UpdateItem, TablesOK, ItemRecords
  <2>4. i \in Rows(items)
    BY <1>2 DEF Rows, TablesOK
  <2> HIDE DEF row
  <2> QED BY <1>2, <2>2, <2>3, <2>4, ItemChanged
<1> QED BY <1>1, <1>2 DEF UpdateItem

LEMMA SoftDeleteItemSound ==
    ASSUME TablesOK, Integrity, NEW i \in Items, NEW o, SoftDeleteItem(i, o)
    PROVE  Sound /\ NoNewItem /\ NoNewDebt
<1>1. CASE ~IsRow(items[i])
  BY <1>1, Unwritten DEF SoftDeleteItem, SoftDeleteInventoryItem, tables
<1>2. CASE IsRow(items[i])
  <2> DEFINE row == [items[i] EXCEPT !.deleted = TRUE]
  <2>1. items[i] \in ItemRecords(Inventories, Names, Targets)
    BY <1>2 DEF TablesOK, IsRow
  <2>2. /\ row \in ItemRecords(Inventories, Names, Targets)
        /\ row.inventory = items[i].inventory /\ row.deleted
    BY <2>1 DEF ItemRecords
  <2>3. items' = [items EXCEPT ![i] = row] /\ UNCHANGED <<inventories, batches>>
    BY <1>2 DEF SoftDeleteItem, SoftDeleteInventoryItem
  <2>4. i \in Rows(items)
    BY <1>2 DEF Rows, TablesOK
  <2> HIDE DEF row
  <2> QED BY <2>2, <2>3, <2>4, ItemChanged
<1> QED BY <1>1, <1>2

\* What a request asks for, as it is stored: what is not negative does not become so.
LEMMA StoredAmounts ==
    /\ Stored \subseteq Int
    /\ \A q \in Amounts : AsNumeric(q) \in Stored /\ (q >= 0 => AsNumeric(q) >= 0)
<1>1. \A q \in Amounts : q \in Int
  BY InventoryAssumption DEF InventoryAssumption
<1>2. \A q \in Int : AsNumeric(q) \in Int /\ (q >= 0 => AsNumeric(q) >= 0)
  BY DEF AsNumeric
<1> QED BY <1>1, <1>2 DEF Stored

\* No statement but the deletion of an inventory takes an item's row: a batch needs nothing
\* else, so the statements on batches only have to say what they do to batches.
LEMMA BatchesChanged ==
    ASSUME TablesOK, Integrity, UNCHANGED <<inventories, items>>,
           batches' \in [Batches -> BatchRecords(Items, Stored) \union {None, Gone}],
           \A b \in Rows(batches') \ Rows(batches) : IsRow(items[batches'[b].item]),
           \A b \in Batches : batches[b] # None =>
              /\ batches'[b] # None
              /\ IsRow(batches'[b]) =>
                    /\ IsRow(batches[b])
                    /\ batches'[b].item = batches[b].item
                    /\ batches[b].emptied # "no" =>
                          /\ batches'[b].emptied # "no"
                          /\ batches'[b].quantity = batches[b].quantity
    PROVE  Sound /\ NoNewItem
<1>1. TablesOK'
  BY DEF TablesOK
<1>2. ASSUME NEW b \in Rows(batches') PROVE IsRow(items'[batches'[b].item])
  BY DEF Integrity, Rows, IsRow
<1>3. Integrity'
  BY <1>2 DEF Integrity, NameFree
<1>4. Stable
  BY DEF Stable
<1> QED BY <1>1, <1>3, <1>4 DEF Sound, NoNewItem

LEMMA AddBatchSound ==
    ASSUME TablesOK, Integrity, NEW b \in Batches, NEW i \in Items, NEW q \in Stored,
           NEW o, AddBatch(b, i, q, o)
    PROVE  /\ Sound /\ NoNewItem
           /\ \/ NoNewDebt
              \/ /\ \A c \in Rows(batches') \ {b} : c \in Rows(batches) /\ batches'[c] = batches[c]
                 /\ batches'[b].item = i /\ batches'[b].quantity = q
           /\ q >= 0 => NoNewDebt
<1>1. CASE UNCHANGED batches
  BY <1>1, Unwritten DEF AddBatch, tables
<1>2. CASE IsRow(items[i]) /\ batches' = CreateInventoryBatch(batches, b, i, q)
  <2> DEFINE row == [item |-> i, quantity |-> q, emptied |-> "no"]
  <2>1. row \in BatchRecords(Items, Stored) /\ row.item = i /\ row.quantity = q
    BY DEF BatchRecords, Emptied
  <2>2. IsRow(row)
    BY <2>1, InventoryAssumption DEF InventoryAssumption, NoNull, IsRow
  <2>3. /\ batches' = [batches EXCEPT ![b] = row] /\ batches[b] = None
        /\ UNCHANGED <<inventories, items>>
    BY <1>2 DEF AddBatch, CreateInventoryBatch
  <2> HIDE DEF row
  <2>4. /\ Rows(batches') = Rows(batches) \union {b} /\ b \notin Rows(batches)
        /\ batches'[b] = row
        /\ \A c \in Batches \ {b} : batches'[c] = batches[c]
        /\ Rows(batches) \subseteq Batches
    BY <2>2, <2>3 DEF TablesOK, Rows, IsRow
  <2>5. batches' \in [Batches -> BatchRecords(Items, Stored) \union {None, Gone}]
    BY <2>1, <2>3 DEF TablesOK
  <2>6. \A c \in Batches : batches[c] # None => batches'[c] = batches[c]
    BY <2>3, <2>4
  <2>7. Sound /\ NoNewItem
    BY <1>2, <2>1, <2>3, <2>4, <2>5, <2>6, BatchesChanged
  <2>8. q >= 0 => NoNewDebt
    <3> SUFFICES ASSUME q >= 0, NEW c \in Rows(batches'), batches'[c].quantity < 0
                 PROVE  c \in Rows(batches) /\ batches'[c] = batches[c]
      BY DEF NoNewDebt
    <3>1. q \in Int
      BY StoredAmounts
    <3>2. c # b
      BY <2>1, <2>4, <3>1
    <3> QED BY <2>4, <3>2
  <2>9. /\ \A c \in Rows(batches') \ {b} : c \in Rows(batches) /\ batches'[c] = batches[c]
        /\ batches'[b].item = i /\ batches'[b].quantity = q
    BY <2>1, <2>4
  <2> QED BY <2>7, <2>8, <2>9
<1> QED BY <1>1, <1>2 DEF AddBatch

\* A batch's row changes in place.
LEMMA BatchChanged ==
    ASSUME TablesOK, Integrity, NEW b \in Rows(batches), NEW row \in BatchRecords(Items, Stored),
           batches' = [batches EXCEPT ![b] = row], UNCHANGED <<inventories, items>>,
           row.item = batches[b].item,
           batches[b].emptied # "no" => row.emptied # "no" /\ row.quantity = batches[b].quantity,
           row.quantity >= 0 \/ row.quantity = batches[b].quantity
    PROVE  Sound /\ NoNewItem /\ NoNewDebt
<1>1. IsRow(row) /\ b \in Batches /\ IsRow(batches[b])
  BY InventoryAssumption DEF InventoryAssumption, NoNull, IsRow, Rows, TablesOK
<1>2. /\ Rows(batches') = Rows(batches) /\ batches'[b] = row
      /\ \A c \in Batches \ {b} : batches'[c] = batches[c]
      /\ Rows(batches) \subseteq Batches
  BY <1>1 DEF TablesOK, Rows, IsRow
<1>3. batches' \in [Batches -> BatchRecords(Items, Stored) \union {None, Gone}]
  BY <1>1 DEF TablesOK
<1>4. Sound /\ NoNewItem
  BY <1>1, <1>2, <1>3, BatchesChanged DEF IsRow
<1>5. NoNewDebt
  <2> SUFFICES ASSUME NEW c \in Rows(batches'), batches'[c].quantity < 0
               PROVE  /\ c \in Rows(batches) /\ batches'[c].item = batches[c].item
                      /\ batches'[c].quantity = batches[c].quantity
    BY DEF NoNewDebt
  <2>1. row.quantity \in Int
    BY StoredAmounts DEF BatchRecords
  <2> QED BY <1>2, <2>1
<1> QED BY <1>4, <1>5

LEMMA MarkBatchEmptiedSound ==
    ASSUME TablesOK, Integrity, NEW b \in Batches, NEW o, MarkBatchEmptied(b, o)
    PROVE  Sound /\ NoNewItem /\ NoNewDebt
<1>1. CASE ~IsRow(batches[b])
  BY <1>1, Unwritten DEF MarkBatchEmptied, MarkBatchEmptiedRow, tables
<1>2. CASE IsRow(batches[b])
  <2> DEFINE row == [batches[b] EXCEPT !.emptied = "recently"]
  <2>1. batches[b] \in BatchRecords(Items, Stored)
    BY <1>2 DEF TablesOK, IsRow
  <2>2. /\ row \in BatchRecords(Items, Stored) /\ row.item = batches[b].item
        /\ row.quantity = batches[b].quantity /\ row.emptied = "recently"
    BY <2>1 DEF BatchRecords, Emptied
  <2>3. batches' = [batches EXCEPT ![b] = row] /\ UNCHANGED <<inventories, items>>
    BY <1>2 DEF MarkBatchEmptied, MarkBatchEmptiedRow
  <2>4. b \in Rows(batches)
    BY <1>2 DEF Rows, TablesOK
  <2> HIDE DEF row
  <2> QED BY <2>2, <2>3, <2>4, BatchChanged
<1> QED BY <1>1, <1>2

LEMMA PatchBatchSound ==
    ASSUME TablesOK, Integrity, NEW b \in Batches, NEW i \in Items, NEW q \in Stored, q >= 0,
           NEW o, PatchBatch(b, i, q, o)
    PROVE  Sound /\ NoNewItem /\ NoNewDebt
<1>1. CASE ~PatchBatchWhere(batches, b, i)
  BY <1>1, Unwritten DEF PatchBatch, PatchBatchRow, tables
<1>2. CASE PatchBatchWhere(batches, b, i)
  <2> DEFINE row == [batches[b] EXCEPT !.quantity = q]
  <2>1. batches[b] \in BatchRecords(Items, Stored) /\ batches[b].emptied = "no"
    BY <1>2 DEF TablesOK, IsRow, PatchBatchWhere
  <2>2. /\ row \in BatchRecords(Items, Stored) /\ row.item = batches[b].item
        /\ row.quantity = q
    BY <2>1 DEF BatchRecords
  <2>3. batches' = [batches EXCEPT ![b] = row] /\ UNCHANGED <<inventories, items>>
    BY <1>2 DEF PatchBatch, PatchBatchRow
  <2>4. b \in Rows(batches)
    BY <1>2 DEF Rows, TablesOK, PatchBatchWhere
  <2> HIDE DEF row
  <2> QED BY <2>1, <2>2, <2>3, <2>4, BatchChanged
<1> QED BY <1>1, <1>2

\* Rows of the table are deleted, the others stay as they are.
LEMMA BatchesDeleted ==
    ASSUME TablesOK, Integrity, UNCHANGED <<inventories, items>>, NEW S,
           batches' = [b \in Batches |-> IF b \in S THEN Gone ELSE batches[b]],
           \A b \in S : IsRow(batches[b])
    PROVE  Sound /\ NoNewItem /\ NoNewDebt
<1>1. batches' \in [Batches -> BatchRecords(Items, Stored) \union {None, Gone}]
  BY DEF TablesOK
<1>2. \A b \in Batches : batches[b] # None =>
        batches'[b] # None /\ (IsRow(batches'[b]) => batches'[b] = batches[b])
  BY InventoryAssumption DEF InventoryAssumption, IsRow
<1>3. Rows(batches') \subseteq Rows(batches) /\ \A b \in Rows(batches') : batches'[b] = batches[b]
  BY DEF Rows, IsRow, TablesOK
<1>4. Sound /\ NoNewItem
  BY <1>1, <1>2, <1>3, BatchesChanged
<1> QED BY <1>3, <1>4 DEF NoNewDebt

LEMMA DeleteBatchSound ==
    ASSUME TablesOK, Integrity, NEW b \in Batches, NEW o, DeleteBatch(b, o)
    PROVE  Sound /\ NoNewItem /\ NoNewDebt
<1>1. CASE ~IsRow(batches[b])
  BY <1>1, Unwritten DEF DeleteBatch, DeleteInventoryBatch, tables
<1>2. CASE IsRow(batches[b])
  <2> DEFINE S == {b}
  <2>1. /\ batches' = [c \in Batches |-> IF c \in S THEN Gone ELSE batches[c]]
        /\ UNCHANGED <<inventories, items>>
    BY <1>2 DEF DeleteBatch, DeleteInventoryBatch, TablesOK
  <2>2. \A c \in S : IsRow(batches[c])
    BY <1>2
  <2> HIDE DEF S
  <2> QED BY <2>1, <2>2, BatchesDeleted
<1> QED BY <1>1, <1>2

LEMMA PurgeSound ==
    ASSUME TablesOK, Integrity, Purge
    PROVE  Sound /\ NoNewItem /\ NoNewDebt
<1> DEFINE S == {b \in Batches : IsRow(batches[b]) /\ batches[b].emptied = "long_ago"}
<1>1. /\ batches' = [b \in Batches |-> IF b \in S THEN Gone ELSE batches[b]]
      /\ UNCHANGED <<inventories, items>>
  BY DEF Purge, PurgeEmptiedBatches, TablesOK
<1>2. \A b \in S : IsRow(batches[b])
  OBVIOUS
<1> HIDE DEF S
<1> QED BY <1>1, <1>2, BatchesDeleted

LEMMA AgeSound ==
    ASSUME TablesOK, Integrity, NEW b \in Batches, Age(b)
    PROVE  Sound /\ NoNewItem /\ NoNewDebt
<1> DEFINE row == [batches[b] EXCEPT !.emptied = "long_ago"]
<1>1. batches[b] \in BatchRecords(Items, Stored)
  BY DEF TablesOK, IsRow, Age
<1>2. /\ row \in BatchRecords(Items, Stored) /\ row.item = batches[b].item
      /\ row.quantity = batches[b].quantity /\ row.emptied = "long_ago"
  BY <1>1 DEF BatchRecords, Emptied
<1>3. batches' = [batches EXCEPT ![b] = row] /\ UNCHANGED <<inventories, items>>
  BY DEF Age
<1>4. b \in Rows(batches)
  BY DEF Rows, TablesOK, Age
<1> HIDE DEF row
<1> QED BY <1>2, <1>3, <1>4, BatchChanged

--------------------------------------------------------------------------------
(* The requests.                                                            *)

\* What a request knows survives what the others write.
LEMMA CallStable ==
    ASSUME TypeOK, Stable, NEW r \in Requests, CallInv(r), calls'[r] = calls[r]
    PROVE  CallInv(r)'
<1> SUFFICES ASSUME calls[r] # None PROVE CallInv(r)'
  BY DEF CallInv
<1>1. PICK c \in CallRecords : c = calls[r]
  BY DEF TypeOK
<1>2. Carried(c) /\ Scoped(c) /\ LateStopped(c)
  BY <1>1 DEF CallInv
<1>3. /\ c.item \in Items \union {None} /\ c.inventory \in Inventories \union {None}
  BY DEF CallRecords
<1>4. Scoped(c)'
  BY <1>2, <1>3 DEF Scoped, Stable
<1>5. \A i \in Items : Deleted(i) => Deleted(i)'
  BY InventoryAssumption DEF Deleted, Stable, IsRow, InventoryAssumption
<1>6. ASSUME c.late, c.stage = "batch"
      PROVE  /\ batches'[c.batch] # None
             /\ IsRow(batches'[c.batch]) =>
                   \E i \in Items : i = batches'[c.batch].item /\ Deleted(i)'
  <2> DEFINE b == c.batch
  <2>1. b \in Batches /\ batches[b] # None
    BY <1>2, <1>6 DEF Carried, Inputs, LateStopped, OfBatch
  <2>2. /\ batches'[b] # None
        /\ IsRow(batches'[b]) => IsRow(batches[b]) /\ batches'[b].item = batches[b].item
    BY <2>1 DEF Stable
  <2>3. IsRow(batches[b]) => Deleted(batches[b].item) /\ batches[b].item \in Items
    BY <1>2, <1>6, <2>1 DEF LateStopped, TypeOK, TablesOK, BatchRecords, IsRow
  <2> QED BY <2>2, <2>3, <1>5
<1>7. c.stage = "item" => c.item \in Items
  BY <1>2 DEF Carried
<1>8. LateStopped(c)'
  BY <1>2, <1>5, <1>6, <1>7 DEF LateStopped, Deleted
<1> QED BY <1>1, <1>2, <1>4, <1>8 DEF CallInv

\* What CreateItem leaves behind stays accounted for.
LEMMA LeftoversKept ==
    ASSUME TypeOK, CreateLeftovers, TablesOK', everHeld \subseteq everHeld',
           \A q \in Requests :
              calls[q] # None /\ calls[q].op = "CreateItem" /\ calls[q].item \in Items =>
                 /\ calls'[q] # None /\ calls'[q].op = "CreateItem"
                 /\ calls'[q].item = calls[q].item /\ calls'[q].quantity = calls[q].quantity
                 /\ calls[q].answer # "ok" /\ calls[q].item \notin everHeld' =>
                       calls'[q].answer # "ok",
           \A i \in (Rows(items') \ everHeld') \ Rows(items) : \E q \in Requests :
              /\ calls'[q] # None /\ calls'[q].op = "CreateItem" /\ calls'[q].item = i
              /\ calls'[q].answer # "ok",
           \A b \in Rows(batches') : batches'[b].quantity < 0 =>
              \/ /\ b \in Rows(batches)
                 /\ batches'[b].item = batches[b].item
                 /\ batches'[b].quantity = batches[b].quantity
              \/ \E q \in Requests :
                    /\ calls'[q] # None /\ calls'[q].op = "CreateItem"
                    /\ calls'[q].item = batches'[b].item
                    /\ AsNumeric(calls'[q].quantity) = batches'[b].quantity
    PROVE  CreateLeftovers'
<1>1. ASSUME NEW i \in Rows(items') \ everHeld'
      PROVE  \E q \in Requests :
                /\ calls'[q] # None /\ calls'[q].op = "CreateItem" /\ calls'[q].item = i
                /\ calls'[q].answer # "ok"
  <2>1. CASE i \in Rows(items)
    <3>1. i \in Items /\ i \notin everHeld
      BY <1>1, <2>1 DEF Rows, TypeOK, TablesOK
    <3>2. PICK q \in Requests : /\ calls[q] # None /\ calls[q].op = "CreateItem"
                                /\ calls[q].item = i /\ calls[q].answer # "ok"
      BY <2>1, <3>1 DEF CreateLeftovers
    <3> QED BY <1>1, <3>1, <3>2
  <2> QED BY <1>1, <2>1
<1>2. ASSUME NEW b \in Rows(batches'), batches'[b].quantity < 0
      PROVE  \E q \in Requests :
                /\ calls'[q] # None /\ calls'[q].op = "CreateItem"
                /\ calls'[q].item = batches'[b].item
                /\ AsNumeric(calls'[q].quantity) = batches'[b].quantity
  <2>1. CASE /\ b \in Rows(batches) /\ batches'[b].item = batches[b].item
             /\ batches'[b].quantity = batches[b].quantity
    <3>1. batches[b].item \in Items
      BY <2>1 DEF Rows, IsRow, TypeOK, TablesOK, BatchRecords
    <3>2. PICK q \in Requests :
             /\ calls[q] # None /\ calls[q].op = "CreateItem"
             /\ calls[q].item = batches[b].item
             /\ AsNumeric(calls[q].quantity) = batches[b].quantity
      BY <1>2, <2>1 DEF CreateLeftovers
    <3> QED BY <2>1, <3>1, <3>2
  <2> QED BY <1>2, <2>1
<1> QED BY <1>1, <1>2 DEF CreateLeftovers

\* What a request is once the middlewares let it through.
Admitted(c, h, l, s) == [c EXCEPT !.household = h, !.late = l, !.stage = s]

\* It is a request still, with what it came with.
LEMMA CallAdmitted ==
    ASSUME NEW c \in CallRecords, NEW h \in Households, NEW l \in BOOLEAN, NEW s \in Stages
    PROVE  LET d == Admitted(c, h, l, s) IN
           /\ d \in CallRecords /\ d.stage = s /\ d.late = l /\ d.household = h
           /\ d.answer = c.answer /\ d.item = c.item /\ d.inventory = c.inventory
           /\ d.batch = c.batch /\ d.op = c.op /\ d.name = c.name /\ d.target = c.target
           /\ d.quantity = c.quantity
<1>1. Admitted(c, h, l, s) \in CallRecords
  BY DEF Admitted, CallRecords
<1>2. LET d == Admitted(c, h, l, s) IN
         /\ d.stage = s /\ d.late = l /\ d.household = h /\ d.answer = c.answer
  BY DEF Admitted, CallRecords
<1>3. LET d == Admitted(c, h, l, s) IN
         /\ d.item = c.item /\ d.inventory = c.inventory /\ d.batch = c.batch
  BY DEF Admitted, CallRecords
<1>4. LET d == Admitted(c, h, l, s) IN
         /\ d.op = c.op /\ d.name = c.name /\ d.target = c.target /\ d.quantity = c.quantity
  BY DEF Admitted, CallRecords
<1> QED BY <1>1, <1>2, <1>3, <1>4

\* What CreateItem makes of its request once the item is inserted: the batch is next, or
\* the request ends here.
WithItem(c, i) == [c EXCEPT !.item = i, !.stage = "first_batch"]
WithoutBatch(c, i) == [c EXCEPT !.item = i, !.stage = "answered", !.answer = "internal"]

\* Either is a request still, with what it came with.
LEMMA CallCreated ==
    ASSUME NEW c \in CallRecords, NEW i \in Items, NEW d \in {WithItem(c, i), WithoutBatch(c, i)}
    PROVE  /\ d \in CallRecords /\ d.item = i
           /\ d.op = c.op /\ d.late = c.late /\ d.inventory = c.inventory
           /\ d.household = c.household /\ d.name = c.name /\ d.target = c.target
           /\ d.quantity = c.quantity
           /\ d = WithItem(c, i) => d.stage = "first_batch" /\ d.answer = c.answer
           /\ d = WithoutBatch(c, i) => d.stage = "answered" /\ d.answer = "internal"
<1>1. {"first_batch", "answered"} \subseteq Stages /\ "internal" \in Errors
  BY DEF Stages, Errors
<1>2. CASE d = WithItem(c, i)
  BY <1>1, <1>2 DEF WithItem, WithoutBatch, CallRecords
<1>3. CASE d = WithoutBatch(c, i)
  BY <1>1, <1>3 DEF WithItem, WithoutBatch, CallRecords
<1> QED BY <1>2, <1>3

\* A step of one request: what has to be shown of it.
LEMMA OneCall ==
    ASSUME IInv, Sound, NEW r \in Requests, NEW c, c \in CallRecords,
           calls' = [calls EXCEPT ![r] = c], CallInv(r)',
           c.stage = "answered" <=> c.answer # None,
           CreateLeftovers', everHeld' \subseteq Items
    PROVE  Kept
<1>1. calls' \in [Requests -> CallRecords \union {None}] /\ calls'[r] = c
      /\ \A q \in Requests \ {r} : calls'[q] = calls[q]
  BY DEF IInv, TypeOK
<1>2. TypeOK'
  BY <1>1 DEF IInv, TypeOK, Sound
<1>3. \A q \in Requests : CallInv(q)'
  BY <1>1, CallStable DEF IInv, Sound
<1> QED BY <1>2, <1>3 DEF IInv, Sound, Kept

\* A request is answered.
LEMMA AnswerStep ==
    ASSUME IInv, Sound, NoNewItem, NEW r \in Requests, NEW a \in {"ok"} \union Errors,
           calls[r] # None, calls[r].stage # "answered", Answer(r, a),
           calls[r].late => a # "ok",
           calls[r].stage = "first_batch" /\ a = "ok" => calls[r].item \in everHeld',
           everHeld \subseteq everHeld', everHeld' \subseteq Items,
           \A b \in Rows(batches') : batches'[b].quantity < 0 =>
              \/ /\ b \in Rows(batches)
                 /\ batches'[b].item = batches[b].item
                 /\ batches'[b].quantity = batches[b].quantity
              \/ /\ calls[r].op = "CreateItem" /\ calls[r].item = batches'[b].item
                 /\ AsNumeric(calls[r].quantity) = batches'[b].quantity
    PROVE  Kept
<1>1. PICK c : c = [calls[r] EXCEPT !.stage = "answered", !.answer = a]
  OBVIOUS
<1>2. calls[r] \in CallRecords /\ Carried(calls[r])
  BY DEF IInv, TypeOK, CallInv
<1>3. /\ c \in CallRecords
      /\ c.stage = "answered" /\ c.answer = a /\ c.op = calls[r].op /\ c.item = calls[r].item
      /\ c.quantity = calls[r].quantity /\ c.late = calls[r].late
  BY <1>1, <1>2 DEF CallRecords, Stages
<1>4. a # None /\ c # None
  BY <1>3, InventoryAssumption DEF InventoryAssumption, NoNull
<1>5. calls' = [calls EXCEPT ![r] = c]
  BY <1>1 DEF Answer, IInv, TypeOK
<1>6. calls'[r] = c /\ \A q \in Requests \ {r} : calls'[q] = calls[q]
  BY <1>5 DEF IInv, TypeOK
<1>7. CallInv(r)'
  BY <1>3, <1>6 DEF CallInv, Carried, Scoped, LateStopped
<1>8. CreateLeftovers'
  <2>1. ASSUME NEW q \in Requests,
               calls[q] # None, calls[q].op = "CreateItem", calls[q].item \in Items
        PROVE  /\ calls'[q] # None /\ calls'[q].op = "CreateItem"
               /\ calls'[q].item = calls[q].item /\ calls'[q].quantity = calls[q].quantity
               /\ calls[q].answer # "ok" /\ calls[q].item \notin everHeld' =>
                     calls'[q].answer # "ok"
    <3>1. CASE q = r
      <4>1. calls[r].item # None
        BY <2>1, <3>1, InventoryAssumption DEF InventoryAssumption, NoNull
      <4>2. calls[r].stage = "first_batch"
        BY <1>2, <2>1, <3>1, <4>1 DEF Carried
      <4> QED BY <1>3, <1>4, <1>6, <2>1, <3>1, <4>2
    <3> QED BY <1>6, <2>1, <3>1
  <2>2. \A b \in Rows(batches') : batches'[b].quantity < 0 =>
              \/ /\ b \in Rows(batches)
                 /\ batches'[b].item = batches[b].item
                 /\ batches'[b].quantity = batches[b].quantity
              \/ \E q \in Requests :
                    /\ calls'[q] # None /\ calls'[q].op = "CreateItem"
                    /\ calls'[q].item = batches'[b].item
                    /\ AsNumeric(calls'[q].quantity) = batches'[b].quantity
    BY <1>3, <1>4, <1>6
  <2>3. (Rows(items') \ everHeld') \ Rows(items) = {}
    BY DEF NoNewItem
  <2>4. TypeOK /\ CreateLeftovers /\ TablesOK'
    BY DEF IInv, Sound
  <2> QED BY <2>1, <2>2, <2>3, <2>4, LeftoversKept
<1> QED BY <1>3, <1>4, <1>5, <1>7, <1>8, OneCall

\* What a handler puts together: enough for the stage the service starts at.
Fresh(c, first) ==
    /\ c \in CallRecords /\ c.answer = None
    /\ ~InvalidInput(c) => Inputs(c)
    /\ \/ first = "statement" /\ c.item = None /\ c.inventory = None
          /\ c.op \in {"CreateInventory", "ListInventories"}
       \/ first = "inventory" /\ c.item = None /\ c.op \in OfInventory
       \/ first = "item" /\ c.op \in OfItem
       \/ first = "batch" /\ c.item = None /\ c.op \in {"MarkBatchEmptied", "DeleteBatch"}

\* A request is received, or refused at once.
LEMMA ReceiveStep ==
    ASSUME IInv, NEW r \in Requests, NEW c, NEW first, Fresh(c, first), Receive(r, c, first)
    PROVE  Kept
<1>1. PICK h, d :
         /\ h \in Households \union {None}
         /\ calls' = [calls EXCEPT ![r] = d]
         /\ \/ /\ h # None /\ ~InvalidInput(c)
               /\ d = [c EXCEPT !.household = h, !.late = Late(c), !.stage = first]
            \/ \E refusal \in {"forbidden", "invalid_input"} :
                  d = [Blank EXCEPT !.op = c.op, !.answer = refusal]
  <2>1. PICK h \in Households \union {None} :
           LET refusal == IF h = None THEN "forbidden"
                          ELSE IF InvalidInput(c) THEN "invalid_input" ELSE None
           IN  calls' = [calls EXCEPT ![r] =
                  IF refusal = None
                  THEN [c EXCEPT !.household = h, !.late = Late(c), !.stage = first]
                  ELSE [Blank EXCEPT !.op = c.op, !.answer = refusal]]
    BY DEF Receive
  <2>2. None \notin {"forbidden", "invalid_input"}
    BY InventoryAssumption DEF InventoryAssumption, NoNull, Errors
  <2>3. CASE h = None
    <3>1. calls' = [calls EXCEPT ![r] = [Blank EXCEPT !.op = c.op, !.answer = "forbidden"]]
      BY <2>1, <2>2, <2>3
    <3> QED BY <3>1
  <2>4. CASE h # None /\ InvalidInput(c)
    <3>1. calls' = [calls EXCEPT ![r] = [Blank EXCEPT !.op = c.op, !.answer = "invalid_input"]]
      BY <2>1, <2>2, <2>4
    <3> QED BY <3>1
  <2>5. CASE h # None /\ ~InvalidInput(c)
    <3>1. calls' = [calls EXCEPT ![r] =
              [c EXCEPT !.household = h, !.late = Late(c), !.stage = first]]
      BY <2>1, <2>5
    <3> QED BY <2>5, <3>1
  <2> QED BY <2>3, <2>4, <2>5
<1>2. calls[r] = None /\ UNCHANGED tables /\ UNCHANGED everHeld
  BY DEF Receive
<1>3. Sound /\ NoNewItem /\ NoNewDebt
  BY <1>2, Unwritten DEF IInv, TypeOK
<1>4. calls'[r] = d /\ \A q \in Requests \ {r} : calls'[q] = calls[q]
  BY <1>1 DEF IInv, TypeOK
<1>5. CreateLeftovers'
  BY <1>2, <1>3, <1>4, LeftoversKept DEF IInv, Sound, NoNewItem, NoNewDebt
<1>6. everHeld' \subseteq Items
  BY <1>2 DEF IInv, TypeOK
<1>7. c \in CallRecords /\ c.answer = None
  BY DEF Fresh
<1>8. CASE /\ h # None /\ ~InvalidInput(c)
           /\ d = [c EXCEPT !.household = h, !.late = Late(c), !.stage = first]
  <2>1. Late(c) \in BOOLEAN
    BY DEF Late
  <2>2. first \in {"statement", "inventory", "item", "batch"} /\ h \in Households
    BY <1>1, <1>8 DEF Fresh
  <2>3. /\ d \in CallRecords /\ d.stage = first /\ d.answer = None /\ d.late = Late(c)
        /\ d.item = c.item /\ d.inventory = c.inventory /\ d.batch = c.batch /\ d.op = c.op
        /\ d.name = c.name /\ d.target = c.target /\ d.quantity = c.quantity
        /\ d.household = h
    <3>1. d = Admitted(c, h, Late(c), first)
      BY <1>8, Zenon DEF Admitted
    <3>2. first \in Stages
      BY <2>2 DEF Stages
    <3> QED BY <1>7, <2>1, <2>2, <3>1, <3>2, CallAdmitted
  <2>4. Carried(d)
    BY <1>8, <2>2, <2>3 DEF Fresh, Carried, Inputs, OfItem, OfInventory
  <2>5. Scoped(d)'
    BY <2>3 DEF Scoped, Fresh
  <2>6. LateStopped(d)'
    <3> SUFFICES ASSUME d.late PROVE LateStopped(d)'
      BY DEF LateStopped
    <3>1. Late(c)
      BY <2>3
    <3>2. CASE c.item # None /\ Deleted(c.item)
      <4>1. first = "item"
        BY <3>2 DEF Fresh
      <4> QED BY <1>2, <2>3, <3>2, <4>1, InventoryAssumption
              DEF InventoryAssumption, NoNull, LateStopped, Deleted, tables
    <3>3. CASE /\ c.op \in {"MarkBatchEmptied", "DeleteBatch"} /\ IsRow(batches[c.batch])
               /\ Deleted(batches[c.batch].item)
      <4>1. first = "batch"
        BY <3>3 DEF Fresh, OfItem, OfInventory
      <4> QED BY <1>2, <2>3, <3>3, <4>1, InventoryAssumption
              DEF InventoryAssumption, NoNull, LateStopped, Deleted, IsRow, tables
    <3> QED BY <3>1, <3>2, <3>3 DEF Late
  <2>7. CallInv(r)'
    BY <1>4, <2>4, <2>5, <2>6 DEF CallInv
  <2> QED BY <1>1, <1>3, <1>5, <1>6, <2>2, <2>3, <2>7, OneCall
<1>9. CASE \E refusal \in {"forbidden", "invalid_input"} :
              d = [Blank EXCEPT !.op = c.op, !.answer = refusal]
  <2>1. /\ d \in CallRecords /\ d.stage = "answered" /\ ~d.late
        /\ d.answer \in {"forbidden", "invalid_input"}
    <3>1. PICK refusal \in {"forbidden", "invalid_input"} :
             d = [Blank EXCEPT !.op = c.op, !.answer = refusal]
      BY <1>9
    <3>2. c.op \in Ops /\ "answered" \in Stages /\ {"forbidden", "invalid_input"} \subseteq Errors
      BY <1>7 DEF CallRecords, Stages, Errors
    <3>3. d = [op |-> c.op, household |-> None, inventory |-> None, item |-> None,
               batch |-> None, name |-> None, target |-> None, quantity |-> None,
               stage |-> "answered", answer |-> refusal, late |-> FALSE]
      BY <3>1 DEF Blank
    <3> QED BY <3>2, <3>3 DEF CallRecords
  <2>2. d.answer # None
    BY <2>1, InventoryAssumption DEF InventoryAssumption, NoNull, Errors
  <2>3. CallInv(r)'
    BY <1>4, <2>1 DEF CallInv, Carried, Scoped, LateStopped
  <2> QED BY <1>1, <1>3, <1>5, <1>6, <2>1, <2>2, <2>3, OneCall
<1> QED BY <1>1, <1>8, <1>9

\* Every handler puts together what its operation needs.
LEMMA HandleStep ==
    ASSUME IInv, NEW r \in Requests, Handle(r)
    PROVE  Kept
<1> DEFINE good(c, first) == Fresh(c, first) /\ Receive(r, c, first)
<1> SUFFICES \E c, first : good(c, first)
  BY ReceiveStep
<1>0. Amounts \subseteq Int
  BY InventoryAssumption DEF InventoryAssumption
<1>1. CASE HandleCreateInventory(r)
  <2>1. PICK n \in Names \union {NoName} :
           Receive(r, [Blank EXCEPT !.op = "CreateInventory", !.name = n], "statement")
    BY <1>1 DEF HandleCreateInventory
  <2> DEFINE c == [Blank EXCEPT !.op = "CreateInventory", !.name = n]
  <2>2. /\ c \in CallRecords
        /\ c.op = "CreateInventory" /\ c.inventory = None /\ c.item = None /\ c.batch = None
        /\ c.name = n /\ c.target = None /\ c.quantity = None /\ c.answer = None
    BY DEF Blank, CallRecords, Ops, Reads, Stages
  <2> HIDE DEF c
  <2>3. Fresh(c, "statement")
    BY <1>0, <2>2 DEF Fresh, Inputs, InvalidInput, OfBatch, OfItem, OfInventory
  <2> QED BY <2>1, <2>3 DEF c
<1>2. CASE HandleListInventories(r)
  <2>1. Receive(r, [Blank EXCEPT !.op = "ListInventories"], "statement")
    BY <1>2 DEF HandleListInventories
  <2> DEFINE c == [Blank EXCEPT !.op = "ListInventories"]
  <2>2. /\ c \in CallRecords
        /\ c.op = "ListInventories" /\ c.inventory = None /\ c.item = None /\ c.batch = None
        /\ c.name = None /\ c.target = None /\ c.quantity = None /\ c.answer = None
    BY DEF Blank, CallRecords, Ops, Reads, Stages
  <2> HIDE DEF c
  <2>3. Fresh(c, "statement")
    BY <1>0, <2>2 DEF Fresh, Inputs, InvalidInput, OfBatch, OfItem, OfInventory
  <2> QED BY <2>1, <2>3 DEF c
<1>3. CASE HandleGetInventory(r)
  <2>1. PICK v \in Inventories :
           Receive(r, [Blank EXCEPT !.op = "GetInventory", !.inventory = v], "inventory")
    BY <1>3 DEF HandleGetInventory
  <2> DEFINE c == [Blank EXCEPT !.op = "GetInventory", !.inventory = v]
  <2>2. /\ c \in CallRecords
        /\ c.op = "GetInventory" /\ c.inventory = v /\ c.item = None /\ c.batch = None
        /\ c.name = None /\ c.target = None /\ c.quantity = None /\ c.answer = None
    BY DEF Blank, CallRecords, Ops, Reads, Stages
  <2> HIDE DEF c
  <2>3. Fresh(c, "inventory")
    BY <1>0, <2>2 DEF Fresh, Inputs, InvalidInput, OfBatch, OfItem, OfInventory
  <2> QED BY <2>1, <2>3 DEF c
<1>4. CASE HandleUpdateInventory(r)
  <2>1. PICK v \in Inventories, n \in Names \union {NoName} :
           Receive(r, [Blank EXCEPT !.op = "UpdateInventory", !.inventory = v,
                                    !.name = n], "inventory")
    BY <1>4 DEF HandleUpdateInventory
  <2> DEFINE c == [Blank EXCEPT !.op = "UpdateInventory", !.inventory = v, !.name = n]
  <2>2. /\ c \in CallRecords
        /\ c.op = "UpdateInventory" /\ c.inventory = v /\ c.item = None /\ c.batch = None
        /\ c.name = n /\ c.target = None /\ c.quantity = None /\ c.answer = None
    BY DEF Blank, CallRecords, Ops, Reads, Stages
  <2> HIDE DEF c
  <2>3. Fresh(c, "inventory")
    BY <1>0, <2>2 DEF Fresh, Inputs, InvalidInput, OfBatch, OfItem, OfInventory
  <2> QED BY <2>1, <2>3 DEF c
<1>5. CASE HandleDeleteInventory(r)
  <2>1. PICK v \in Inventories :
           Receive(r, [Blank EXCEPT !.op = "DeleteInventory", !.inventory = v], "inventory")
    BY <1>5 DEF HandleDeleteInventory
  <2> DEFINE c == [Blank EXCEPT !.op = "DeleteInventory", !.inventory = v]
  <2>2. /\ c \in CallRecords
        /\ c.op = "DeleteInventory" /\ c.inventory = v /\ c.item = None /\ c.batch = None
        /\ c.name = None /\ c.target = None /\ c.quantity = None /\ c.answer = None
    BY DEF Blank, CallRecords, Ops, Reads, Stages
  <2> HIDE DEF c
  <2>3. Fresh(c, "inventory")
    BY <1>0, <2>2 DEF Fresh, Inputs, InvalidInput, OfBatch, OfItem, OfInventory
  <2> QED BY <2>1, <2>3 DEF c
<1>6. CASE HandleCreateItem(r)
  <2>1. PICK v \in Inventories, n \in Names \union {NoName}, t \in Targets, q \in Amounts :
           Receive(r, [Blank EXCEPT !.op = "CreateItem", !.inventory = v, !.name = n,
                                    !.target = t, !.quantity = q], "inventory")
    BY <1>6 DEF HandleCreateItem
  <2> DEFINE c == [Blank EXCEPT !.op = "CreateItem", !.inventory = v, !.name = n,
                                !.target = t, !.quantity = q]
  <2>2. /\ c \in CallRecords
        /\ c.op = "CreateItem" /\ c.inventory = v /\ c.item = None /\ c.batch = None
        /\ c.name = n /\ c.target = t /\ c.quantity = q /\ c.answer = None
    BY DEF Blank, CallRecords, Ops, Reads, Stages
  <2> HIDE DEF c
  <2>3. Fresh(c, "inventory")
    BY <1>0, <2>2 DEF Fresh, Inputs, InvalidInput, OfBatch, OfItem, OfInventory
  <2> QED BY <2>1, <2>3 DEF c
<1>7. CASE HandleListItems(r)
  <2>1. PICK v \in Inventories :
           Receive(r, [Blank EXCEPT !.op = "ListItems", !.inventory = v], "inventory")
    BY <1>7 DEF HandleListItems
  <2> DEFINE c == [Blank EXCEPT !.op = "ListItems", !.inventory = v]
  <2>2. /\ c \in CallRecords
        /\ c.op = "ListItems" /\ c.inventory = v /\ c.item = None /\ c.batch = None
        /\ c.name = None /\ c.target = None /\ c.quantity = None /\ c.answer = None
    BY DEF Blank, CallRecords, Ops, Reads, Stages
  <2> HIDE DEF c
  <2>3. Fresh(c, "inventory")
    BY <1>0, <2>2 DEF Fresh, Inputs, InvalidInput, OfBatch, OfItem, OfInventory
  <2> QED BY <2>1, <2>3 DEF c
<1>8. CASE HandleGetItem(r)
  <2>1. PICK i \in Items :
           Receive(r, [Blank EXCEPT !.op = "GetItem", !.item = i], "item")
    BY <1>8 DEF HandleGetItem
  <2> DEFINE c == [Blank EXCEPT !.op = "GetItem", !.item = i]
  <2>2. /\ c \in CallRecords
        /\ c.op = "GetItem" /\ c.inventory = None /\ c.item = i /\ c.batch = None
        /\ c.name = None /\ c.target = None /\ c.quantity = None /\ c.answer = None
    BY DEF Blank, CallRecords, Ops, Reads, Stages
  <2> HIDE DEF c
  <2>3. Fresh(c, "item")
    BY <1>0, <2>2 DEF Fresh, Inputs, InvalidInput, OfBatch, OfItem, OfInventory
  <2> QED BY <2>1, <2>3 DEF c
<1>9. CASE HandleUpdateItem(r)
  <2>1. PICK i \in Items, n \in Names \union {NoName}, t \in Targets :
           Receive(r, [Blank EXCEPT !.op = "UpdateItem", !.item = i, !.name = n,
                                    !.target = t], "item")
    BY <1>9 DEF HandleUpdateItem
  <2> DEFINE c == [Blank EXCEPT !.op = "UpdateItem", !.item = i, !.name = n, !.target = t]
  <2>2. /\ c \in CallRecords
        /\ c.op = "UpdateItem" /\ c.inventory = None /\ c.item = i /\ c.batch = None
        /\ c.name = n /\ c.target = t /\ c.quantity = None /\ c.answer = None
    BY DEF Blank, CallRecords, Ops, Reads, Stages
  <2> HIDE DEF c
  <2>3. Fresh(c, "item")
    BY <1>0, <2>2 DEF Fresh, Inputs, InvalidInput, OfBatch, OfItem, OfInventory
  <2> QED BY <2>1, <2>3 DEF c
<1>10. CASE HandleDeleteItem(r)
  <2>1. PICK i \in Items :
           Receive(r, [Blank EXCEPT !.op = "DeleteItem", !.item = i], "item")
    BY <1>10 DEF HandleDeleteItem
  <2> DEFINE c == [Blank EXCEPT !.op = "DeleteItem", !.item = i]
  <2>2. /\ c \in CallRecords
        /\ c.op = "DeleteItem" /\ c.inventory = None /\ c.item = i /\ c.batch = None
        /\ c.name = None /\ c.target = None /\ c.quantity = None /\ c.answer = None
    BY DEF Blank, CallRecords, Ops, Reads, Stages
  <2> HIDE DEF c
  <2>3. Fresh(c, "item")
    BY <1>0, <2>2 DEF Fresh, Inputs, InvalidInput, OfBatch, OfItem, OfInventory
  <2> QED BY <2>1, <2>3 DEF c
<1>11. CASE HandleGetEffectiveQuantity(r)
  <2>1. PICK i \in Items :
           Receive(r, [Blank EXCEPT !.op = "GetEffectiveQuantity", !.item = i], "item")
    BY <1>11 DEF HandleGetEffectiveQuantity
  <2> DEFINE c == [Blank EXCEPT !.op = "GetEffectiveQuantity", !.item = i]
  <2>2. /\ c \in CallRecords
        /\ c.op = "GetEffectiveQuantity" /\ c.inventory = None /\ c.item = i /\ c.batch = None
        /\ c.name = None /\ c.target = None /\ c.quantity = None /\ c.answer = None
    BY DEF Blank, CallRecords, Ops, Reads, Stages
  <2> HIDE DEF c
  <2>3. Fresh(c, "item")
    BY <1>0, <2>2 DEF Fresh, Inputs, InvalidInput, OfBatch, OfItem, OfInventory
  <2> QED BY <2>1, <2>3 DEF c
<1>12. CASE HandleAddBatch(r)
  <2>1. PICK i \in Items, q \in Amounts :
           Receive(r, [Blank EXCEPT !.op = "AddBatch", !.item = i, !.quantity = q], "item")
    BY <1>12 DEF HandleAddBatch
  <2> DEFINE c == [Blank EXCEPT !.op = "AddBatch", !.item = i, !.quantity = q]
  <2>2. /\ c \in CallRecords
        /\ c.op = "AddBatch" /\ c.inventory = None /\ c.item = i /\ c.batch = None
        /\ c.name = None /\ c.target = None /\ c.quantity = q /\ c.answer = None
    BY DEF Blank, CallRecords, Ops, Reads, Stages
  <2> HIDE DEF c
  <2>3. Fresh(c, "item")
    BY <1>0, <2>2 DEF Fresh, Inputs, InvalidInput, OfBatch, OfItem, OfInventory
  <2> QED BY <2>1, <2>3 DEF c
<1>13. CASE HandleListActiveBatches(r)
  <2>1. PICK i \in Items :
           Receive(r, [Blank EXCEPT !.op = "ListActiveBatches", !.item = i], "item")
    BY <1>13 DEF HandleListActiveBatches
  <2> DEFINE c == [Blank EXCEPT !.op = "ListActiveBatches", !.item = i]
  <2>2. /\ c \in CallRecords
        /\ c.op = "ListActiveBatches" /\ c.inventory = None /\ c.item = i /\ c.batch = None
        /\ c.name = None /\ c.target = None /\ c.quantity = None /\ c.answer = None
    BY DEF Blank, CallRecords, Ops, Reads, Stages
  <2> HIDE DEF c
  <2>3. Fresh(c, "item")
    BY <1>0, <2>2 DEF Fresh, Inputs, InvalidInput, OfBatch, OfItem, OfInventory
  <2> QED BY <2>1, <2>3 DEF c
<1>14. CASE HandleMarkBatchEmptied(r)
  <2>1. PICK b \in Batches :
           Receive(r, [Blank EXCEPT !.op = "MarkBatchEmptied", !.batch = b], "batch")
    BY <1>14 DEF HandleMarkBatchEmptied
  <2> DEFINE c == [Blank EXCEPT !.op = "MarkBatchEmptied", !.batch = b]
  <2>2. /\ c \in CallRecords
        /\ c.op = "MarkBatchEmptied" /\ c.inventory = None /\ c.item = None /\ c.batch = b
        /\ c.name = None /\ c.target = None /\ c.quantity = None /\ c.answer = None
    BY DEF Blank, CallRecords, Ops, Reads, Stages
  <2> HIDE DEF c
  <2>3. Fresh(c, "batch")
    BY <1>0, <2>2 DEF Fresh, Inputs, InvalidInput, OfBatch, OfItem, OfInventory
  <2> QED BY <2>1, <2>3 DEF c
<1>15. CASE HandleDeleteBatch(r)
  <2>1. PICK b \in Batches :
           Receive(r, [Blank EXCEPT !.op = "DeleteBatch", !.batch = b], "batch")
    BY <1>15 DEF HandleDeleteBatch
  <2> DEFINE c == [Blank EXCEPT !.op = "DeleteBatch", !.batch = b]
  <2>2. /\ c \in CallRecords
        /\ c.op = "DeleteBatch" /\ c.inventory = None /\ c.item = None /\ c.batch = b
        /\ c.name = None /\ c.target = None /\ c.quantity = None /\ c.answer = None
    BY DEF Blank, CallRecords, Ops, Reads, Stages
  <2> HIDE DEF c
  <2>3. Fresh(c, "batch")
    BY <1>0, <2>2 DEF Fresh, Inputs, InvalidInput, OfBatch, OfItem, OfInventory
  <2> QED BY <2>1, <2>3 DEF c
<1>16. CASE HandlePatchBatch(r)
  <2>1. PICK i \in Items, b \in Batches, q \in Amounts :
           Receive(r, [Blank EXCEPT !.op = "PatchBatch", !.item = i, !.batch = b,
                                    !.quantity = q], "item")
    BY <1>16 DEF HandlePatchBatch
  <2> DEFINE c == [Blank EXCEPT !.op = "PatchBatch", !.item = i, !.batch = b,
                                !.quantity = q]
  <2>2. /\ c \in CallRecords
        /\ c.op = "PatchBatch" /\ c.inventory = None /\ c.item = i /\ c.batch = b
        /\ c.name = None /\ c.target = None /\ c.quantity = q /\ c.answer = None
    BY DEF Blank, CallRecords, Ops, Reads, Stages
  <2> HIDE DEF c
  <2>3. Fresh(c, "item")
    BY <1>0, <2>2 DEF Fresh, Inputs, InvalidInput, OfBatch, OfItem, OfInventory
  <2> QED BY <2>1, <2>3 DEF c
<1> QED BY <1>1, <1>2, <1>3, <1>4, <1>5, <1>6, <1>7, <1>8,
          <1>9, <1>10, <1>11, <1>12, <1>13, <1>14, <1>15, <1>16 DEF Handle

\* A request goes on to its next stage.
LEMMA MoveStep ==
    ASSUME IInv, NEW r \in Requests, calls[r] # None,
           calls[r].stage \notin {"answered", "first_batch"},
           NEW c \in CallRecords, calls' = [calls EXCEPT ![r] = c],
           c.stage # "answered", c.answer = None, Carried(c), Scoped(c), LateStopped(c),
           UNCHANGED <<tables, everHeld>>
    PROVE  Kept
<1>1. Sound /\ NoNewItem /\ NoNewDebt
  BY Unwritten DEF IInv, TypeOK
<1>2. calls'[r] = c /\ \A q \in Requests \ {r} : calls'[q] = calls[q]
  BY DEF IInv, TypeOK
<1>3. ~(calls[r].op = "CreateItem" /\ calls[r].item \in Items)
  BY InventoryAssumption DEF InventoryAssumption, NoNull, IInv, CallInv, Carried
<1>4. CreateLeftovers'
  BY <1>1, <1>2, <1>3, LeftoversKept DEF IInv, Sound, NoNewItem, NoNewDebt
<1>5. CallInv(r)'
  <2>1. Carried(c)' /\ Scoped(c)' /\ LateStopped(c)'
    BY DEF Carried, Scoped, LateStopped, Deleted, tables
  <2> QED BY <1>2, <2>1 DEF CallInv
<1> QED BY <1>1, <1>4, <1>5, OneCall DEF IInv, TypeOK

\* The three checks.
LEMMA CheckStep ==
    ASSUME IInv, NEW r \in Requests, Check(r)
    PROVE  Kept
<1>1. calls[r] # None /\ calls[r].stage \in {"batch", "item", "inventory"}
      /\ UNCHANGED <<tables, everHeld>>
  BY DEF Check, AssertBatchScope, AssertItemScope, AssertInventoryScope, Pending
<1>2. PICK c \in CallRecords : c = calls[r]
  BY <1>1 DEF IInv, TypeOK
<1>3. Carried(c) /\ Scoped(c) /\ LateStopped(c) /\ (c.stage = "answered" <=> c.answer # None)
  BY <1>1, <1>2 DEF IInv, CallInv, TypeOK
<1>4. ASSUME NEW a \in {"ok"} \union Errors, c.late => a # "ok", Answer(r, a)
      PROVE  Kept
  <2>1. Sound /\ NoNewItem /\ NoNewDebt
    BY <1>1, Unwritten DEF IInv, TypeOK
  <2> QED BY <1>1, <1>2, <1>4, <2>1, AnswerStep DEF NoNewDebt, IInv, TypeOK
<1>5. CASE AssertBatchScope(r)
  <2>1. CASE Answer(r, "not_found")
    BY <1>4, <2>1 DEF Errors
  <2>2. CASE /\ GetBatch(calls[r].batch) # None
             /\ calls' = [calls EXCEPT ![r].stage = "item",
                                       ![r].item = GetBatch(calls[r].batch).item]
    <3>1. c.stage = "batch" /\ c.op \in {"MarkBatchEmptied", "DeleteBatch"} /\ c.batch \in Batches
      BY <1>2, <1>3, <1>5 DEF AssertBatchScope, Pending, Carried, Inputs, OfBatch
    <3>2. IsRow(batches[c.batch])
      BY <1>2, <2>2 DEF GetBatch, GetInventoryBatchByID
    <3>3. PICK i \in Items : i = batches[c.batch].item
      BY <3>1, <3>2 DEF IInv, TypeOK, TablesOK, BatchRecords, IsRow
    <3>4. PICK d : d = [c EXCEPT !.stage = "item", !.item = i]
      OBVIOUS
    <3>5. calls' = [calls EXCEPT ![r] = d]
      BY <1>2, <2>2, <3>2, <3>3, <3>4 DEF GetBatch, GetInventoryBatchByID, IInv, TypeOK
    <3>6. /\ d \in CallRecords /\ d.stage = "item" /\ d.item = i /\ d.answer = c.answer
          /\ d.op = c.op /\ d.late = c.late /\ d.batch = c.batch /\ d.household = c.household
      BY <3>4 DEF CallRecords, Stages
    <3>7. Carried(d)
      BY <1>3, <3>1, <3>6 DEF Carried, Inputs, OfBatch, OfItem, OfInventory
    <3>8. Scoped(d)
      BY <3>6 DEF Scoped
    <3>9. LateStopped(d)
      BY <1>3, <3>1, <3>2, <3>3, <3>6 DEF LateStopped
    <3> QED BY <1>1, <1>2, <1>3, <3>1, <3>5, <3>6, <3>7, <3>8, <3>9, MoveStep
  <2> QED BY <1>5, <2>1, <2>2 DEF AssertBatchScope
<1>6. CASE AssertItemScope(r)
  <2>1. CASE Answer(r, "not_found")
    BY <1>4, <2>1 DEF Errors
  <2>2. CASE /\ Visible(GetItem(calls[r].item))
             /\ calls' = [calls EXCEPT ![r].stage = "inventory",
                                       ![r].inventory = GetItem(calls[r].item).inventory]
    <3>1. c.stage = "item" /\ c.item \in Items /\ c.op \in OfItem \union OfBatch
      BY <1>2, <1>3, <1>6 DEF AssertItemScope, Pending, Carried
    <3>2. IsRow(items[c.item]) /\ ~items[c.item].deleted
      BY <1>2, <2>2 DEF Visible, GetItem, GetInventoryItemByID
    <3>3. PICK v \in Inventories : v = items[c.item].inventory
      BY <3>1, <3>2 DEF IInv, TypeOK, TablesOK, ItemRecords, IsRow
    <3>4. PICK d : d = [c EXCEPT !.stage = "inventory", !.inventory = v]
      OBVIOUS
    <3>5. calls' = [calls EXCEPT ![r] = d]
      BY <1>2, <2>2, <3>2, <3>3, <3>4 DEF GetItem, GetInventoryItemByID, IInv, TypeOK
    <3>6. /\ d \in CallRecords /\ d.stage = "inventory" /\ d.inventory = v /\ d.item = c.item
          /\ d.answer = c.answer /\ d.op = c.op /\ d.late = c.late /\ d.batch = c.batch
          /\ d.household = c.household /\ d.name = c.name /\ d.target = c.target
          /\ d.quantity = c.quantity
      BY <3>4 DEF CallRecords, Stages
    <3>7. ~c.late
      BY <1>3, <3>1, <3>2, InventoryAssumption
         DEF LateStopped, Deleted, IsRow, InventoryAssumption
    <3>8. Carried(d)
      BY <1>3, <3>1, <3>6 DEF Carried, Inputs, OfBatch, OfItem, OfInventory
    <3>9. Scoped(d) /\ LateStopped(d)
      BY <3>2, <3>3, <3>6, <3>7 DEF Scoped, LateStopped, IsRow
    <3> QED BY <1>1, <1>2, <1>3, <3>1, <3>5, <3>6, <3>8, <3>9, MoveStep
  <2> QED BY <1>6, <2>1, <2>2 DEF AssertItemScope
<1>7. CASE AssertInventoryScope(r)
  <2>1. c.stage = "inventory" /\ c.inventory \in Inventories /\ ~c.late
    BY <1>2, <1>3, <1>7 DEF AssertInventoryScope, Pending, Carried, LateStopped
  <2>2. CASE Answer(r, "not_found") \/ Answer(r, "ok")
    BY <1>4, <2>1, <2>2 DEF Errors
  <2>3. CASE Owned(GetInventory(calls[r].inventory), calls[r].household) /\ Proceed(r, "statement")
    <3>1. IsRow(inventories[c.inventory]) /\ inventories[c.inventory].household = c.household
      BY <1>2, <2>3 DEF Owned, GetInventory, GetInventoryByID
    <3>2. PICK d : d = [c EXCEPT !.stage = "statement"]
      OBVIOUS
    <3>3. calls' = [calls EXCEPT ![r] = d]
      BY <1>2, <2>3, <3>2 DEF Proceed, IInv, TypeOK
    <3>4. /\ d \in CallRecords /\ d.stage = "statement" /\ d.inventory = c.inventory
          /\ d.item = c.item /\ d.answer = c.answer /\ d.op = c.op /\ d.late = c.late
          /\ d.batch = c.batch /\ d.household = c.household /\ d.name = c.name
          /\ d.target = c.target /\ d.quantity = c.quantity
      BY <3>2 DEF CallRecords, Stages
    <3>5. Carried(d)
      BY <1>3, <2>1, <3>4 DEF Carried, Inputs
    <3>6. Scoped(d) /\ LateStopped(d)
      BY <1>3, <2>1, <3>1, <3>4 DEF Scoped, LateStopped, IsRow
    <3> QED BY <1>1, <1>2, <1>3, <2>1, <3>3, <3>4, <3>5, <3>6, MoveStep
  <2> QED BY <1>7, <2>2, <2>3 DEF AssertInventoryScope
<1> QED BY <1>5, <1>6, <1>7 DEF Check

\* A statement is executed and its outcome settled.
LEMMA WriteStep ==
    ASSUME IInv, NEW r \in Requests, Pending(r, "statement"), NEW o \in Outcomes, Settle(r, o),
           Sound, NoNewItem, NoNewDebt, everHeld \subseteq everHeld', everHeld' \subseteq Items
    PROVE  Kept
<1>1. PICK a \in {"ok"} \union Errors : Answer(r, a)
  BY DEF Settle, Outcomes, Errors
<1>2. calls[r] # None /\ calls[r].stage = "statement" /\ ~calls[r].late
  BY DEF Pending, IInv, CallInv, LateStopped
<1> QED BY <1>1, <1>2, AnswerStep DEF NoNewDebt

\* CreateItem's first statement: the new item is its creator's to account for.
LEMMA CreateItemStep ==
    ASSUME IInv, NEW r \in Requests, ServeCreateItem(r)
    PROVE  Kept
<1>1. PICK c \in CallRecords : c = calls[r] /\ calls[r] # None
  BY DEF ServeCreateItem, Running, Pending, IInv, TypeOK
<1>2. /\ c.stage = "statement" /\ c.op = "CreateItem" /\ c.answer = None /\ ~c.late
      /\ Carried(c) /\ Scoped(c)
  BY <1>1 DEF ServeCreateItem, Running, Pending, IInv, CallInv, TypeOK, LateStopped
<1>3. /\ c.household \in Households /\ c.inventory \in Inventories /\ c.name \in Names
      /\ c.target \in Targets /\ c.quantity \in Amounts /\ c.item = None
  BY <1>2 DEF Carried, Inputs, OfInventory
<1>4. PICK i \in Items, o \in Outcomes :
         /\ CreateItem(i, c.inventory, c.name, c.target, o)
         /\ \/ o # "ok" /\ Settle(r, o)
            \/ o = "ok" /\ calls' = [calls EXCEPT ![r].item = i, ![r].stage = "first_batch"]
            \/ o = "ok" /\ calls' = [calls EXCEPT ![r].item = i, ![r].stage = "answered",
                                                  ![r].answer = "internal"]
  BY <1>1 DEF ServeCreateItem
<1>5. /\ Sound /\ NoNewDebt
      /\ o # "ok" => NoNewItem
      /\ o = "ok" => /\ Rows(items') = Rows(items) \union {i}
                    /\ items[i] = None /\ IsRow(items'[i]) /\ items'[i].inventory = c.inventory
  BY <1>3, <1>4, CreateItemSound DEF IInv, TypeOK
<1>6. UNCHANGED everHeld /\ everHeld \subseteq Items
  BY DEF ServeCreateItem, IInv, TypeOK
<1>7. CASE o # "ok" /\ Settle(r, o)
  BY <1>1, <1>2, <1>5, <1>6, <1>7, WriteStep DEF Pending
<1>8. ASSUME o = "ok", NEW d \in CallRecords, calls' = [calls EXCEPT ![r] = d],
             d.stage = "answered" <=> d.answer # None, d.answer # "ok",
             d.op = c.op, d.item = i, d.quantity = c.quantity, CallInv(r)'
      PROVE  Kept
  <2>1. calls'[r] = d /\ d # None /\ \A q \in Requests \ {r} : calls'[q] = calls[q]
    BY <1>8, InventoryAssumption DEF IInv, TypeOK, InventoryAssumption, NoNull
  <2>2. ~(calls[r].op = "CreateItem" /\ calls[r].item \in Items)
    BY <1>1, <1>3, InventoryAssumption DEF InventoryAssumption, NoNull
  <2>3. CreateLeftovers'
    BY <1>2, <1>5, <1>6, <1>8, <2>1, <2>2, LeftoversKept DEF IInv, Sound, NoNewDebt
  <2> QED BY <1>5, <1>6, <1>8, <2>3, OneCall
<1>9. CASE o = "ok" /\ calls' = [calls EXCEPT ![r].item = i, ![r].stage = "first_batch"]
  <2>1. PICK d : d = [c EXCEPT !.item = i, !.stage = "first_batch"]
    OBVIOUS
  <2>2. calls' = [calls EXCEPT ![r] = d] /\ calls'[r] = d
    BY <1>1, <1>9, <2>1 DEF IInv, TypeOK
  <2>3. /\ d \in CallRecords /\ d.stage = "first_batch" /\ d.item = i /\ d.answer = None
        /\ d.op = c.op /\ d.late = c.late /\ d.inventory = c.inventory
        /\ d.household = c.household /\ d.name = c.name /\ d.target = c.target
        /\ d.quantity = c.quantity
    <3>1. d = WithItem(c, i)
      BY <2>1, Zenon DEF WithItem
    <3> QED BY <1>2, <3>1, CallCreated
  <2>4. Carried(d)
    BY <1>2, <1>3, <2>3 DEF Carried, Inputs, OfBatch, OfItem, OfInventory
  <2>5. Scoped(d)'
    <3>1. /\ inventories'[c.inventory] # None
          /\ IsRow(inventories'[c.inventory]) => inventories'[c.inventory].household = c.household
      BY <1>2, <1>3, <1>5, InventoryAssumption
         DEF Scoped, Sound, Stable, InventoryAssumption, NoNull
    <3> QED BY <1>5, <1>9, <2>3, <3>1 DEF Scoped, IsRow
  <2>6. CallInv(r)'
    BY <1>2, <2>2, <2>3, <2>4, <2>5 DEF CallInv, LateStopped, Carried
  <2>7. None # "ok"
    BY InventoryAssumption DEF InventoryAssumption, NoNull
  <2> QED BY <1>8, <1>9, <2>2, <2>3, <2>6, <2>7
<1>10. CASE /\ o = "ok"
            /\ calls' = [calls EXCEPT ![r].item = i, ![r].stage = "answered",
                                      ![r].answer = "internal"]
  <2>1. PICK d : d = [c EXCEPT !.item = i, !.stage = "answered", !.answer = "internal"]
    OBVIOUS
  <2>2. calls' = [calls EXCEPT ![r] = d] /\ calls'[r] = d
    BY <1>1, <1>10, <2>1 DEF IInv, TypeOK
  <2>3. /\ d \in CallRecords /\ d.stage = "answered" /\ d.item = i /\ d.answer = "internal"
        /\ d.op = c.op /\ d.late = c.late /\ d.quantity = c.quantity
    <3>1. d = WithoutBatch(c, i)
      BY <2>1, Zenon DEF WithoutBatch
    <3> QED BY <1>2, <3>1, CallCreated
  <2>4. CallInv(r)'
    BY <1>2, <2>2, <2>3 DEF CallInv, LateStopped, Carried, Scoped
  <2>5. None # "internal"
    BY InventoryAssumption DEF InventoryAssumption, NoNull, Errors
  <2> QED BY <1>8, <1>10, <2>2, <2>3, <2>4, <2>5
<1> QED BY <1>4, <1>7, <1>9, <1>10

\* Its second: the batch is the creator's to account for, whatever its quantity.
LEMMA FirstBatchStep ==
    ASSUME IInv, NEW r \in Requests, ServeFirstBatch(r)
    PROVE  Kept
<1>1. PICK c \in CallRecords : c = calls[r] /\ calls[r] # None
  BY DEF ServeFirstBatch, Pending, IInv, TypeOK
<1>2. c.stage = "first_batch" /\ Carried(c) /\ ~c.late
  BY <1>1 DEF ServeFirstBatch, Pending, IInv, CallInv, LateStopped
<1>3. c.op = "CreateItem" /\ c.item \in Items /\ AsNumeric(c.quantity) \in Stored
  BY <1>2, StoredAmounts DEF Carried, Inputs
<1>4. PICK b \in Batches, o \in Outcomes :
         /\ AddBatch(b, c.item, AsNumeric(c.quantity), o) /\ Settle(r, o)
         /\ everHeld' = IF o = "ok" THEN everHeld \union {c.item} ELSE everHeld
  BY <1>1 DEF ServeFirstBatch
<1>5. /\ Sound /\ NoNewItem
      /\ \/ NoNewDebt
         \/ /\ \A k \in Rows(batches') \ {b} : k \in Rows(batches) /\ batches'[k] = batches[k]
            /\ batches'[b].item = c.item /\ batches'[b].quantity = AsNumeric(c.quantity)
  BY <1>3, <1>4, AddBatchSound DEF IInv, TypeOK
<1>6. \A k \in Rows(batches') : batches'[k].quantity < 0 =>
         \/ /\ k \in Rows(batches)
            /\ batches'[k].item = batches[k].item
            /\ batches'[k].quantity = batches[k].quantity
         \/ /\ c.op = "CreateItem" /\ c.item = batches'[k].item
            /\ AsNumeric(c.quantity) = batches'[k].quantity
  BY <1>3, <1>5 DEF NoNewDebt
<1>7. PICK a \in {"ok"} \union Errors : Answer(r, a) /\ (a = "ok" => o = "ok")
  BY <1>4 DEF Settle, Outcomes, Errors
<1>8. /\ everHeld \subseteq everHeld' /\ everHeld' \subseteq Items
      /\ a = "ok" => c.item \in everHeld'
  BY <1>3, <1>4, <1>7 DEF IInv, TypeOK
<1> QED BY <1>1, <1>2, <1>5, <1>6, <1>7, <1>8, AnswerStep

\* Every statement, and the database failing before one.
LEMMA ServeStep ==
    ASSUME IInv, NEW r \in Requests, Serve(r)
    PROVE  Kept
<1>1. CASE ServeCreateItem(r)
  BY <1>1, CreateItemStep
<1>2. CASE ServeFirstBatch(r)
  BY <1>2, FirstBatchStep
<1>3. CASE DatabaseFails(r)
  <2>1. Sound /\ NoNewItem /\ NoNewDebt
    BY <1>3, Unwritten DEF DatabaseFails, IInv, TypeOK
  <2> QED BY <1>3, <2>1, AnswerStep DEF DatabaseFails, Pending, Errors, NoNewDebt, IInv, TypeOK
<1>4. CASE Read(r)
  <2>1. Sound /\ NoNewItem /\ NoNewDebt
    BY <1>4, Unwritten DEF Read, IInv, TypeOK
  <2>2. calls[r] # None /\ calls[r].stage = "statement" /\ ~calls[r].late
    BY <1>4 DEF Read, Pending, IInv, CallInv, LateStopped
  <2> QED BY <1>4, <2>1, <2>2, AnswerStep DEF Read, NoNewDebt, IInv, TypeOK
<1>5. ASSUME Pending(r, "statement") PROVE Carried(calls[r])
  BY <1>5 DEF Pending, IInv, CallInv
<1>6. TablesOK /\ Integrity /\ everHeld \subseteq Items
  BY DEF IInv, TypeOK
<1>7. CASE ServeCreateInventory(r)
  <2>1. Pending(r, "statement") /\ calls[r].stage = "statement" /\ calls[r].op = "CreateInventory"
    BY <1>7 DEF ServeCreateInventory, Running, Pending
  <2>2. calls[r].household \in Households /\ calls[r].name \in Names
    BY <1>5, <2>1 DEF Carried, Inputs, OfBatch, OfItem, OfInventory
  <2>3. PICK v \in Inventories, o \in Outcomes :
           CreateInventory(v, calls[r].household, calls[r].name, o) /\ Finish(r, o)
    BY <1>7 DEF ServeCreateInventory
  <2>4. Sound /\ NoNewItem /\ NoNewDebt
    BY <1>6, <2>2, <2>3, CreateInventorySound
  <2> QED BY <1>6, <2>1, <2>3, <2>4, WriteStep DEF Finish
<1>8. CASE ServeUpdateInventory(r)
  <2>1. Pending(r, "statement") /\ calls[r].stage = "statement" /\ calls[r].op = "UpdateInventory"
    BY <1>8 DEF ServeUpdateInventory, Running, Pending
  <2>2. calls[r].inventory \in Inventories /\ calls[r].name \in Names
    BY <1>5, <2>1 DEF Carried, Inputs, OfBatch, OfItem, OfInventory
  <2>3. PICK o \in Outcomes :
           UpdateInventory(calls[r].inventory, calls[r].name, o) /\ Finish(r, o)
    BY <1>8 DEF ServeUpdateInventory
  <2>4. Sound /\ NoNewItem /\ NoNewDebt
    BY <1>6, <2>2, <2>3, UpdateInventorySound
  <2> QED BY <1>6, <2>1, <2>3, <2>4, WriteStep DEF Finish
<1>9. CASE ServeDeleteInventory(r)
  <2>1. Pending(r, "statement") /\ calls[r].stage = "statement" /\ calls[r].op = "DeleteInventory"
    BY <1>9 DEF ServeDeleteInventory, Running, Pending
  <2>2. calls[r].inventory \in Inventories
    BY <1>5, <2>1 DEF Carried, Inputs, OfBatch, OfItem, OfInventory
  <2>3. PICK o \in Outcomes : DeleteInventory(calls[r].inventory, o) /\ Finish(r, o)
    BY <1>9 DEF ServeDeleteInventory
  <2>4. Sound /\ NoNewItem /\ NoNewDebt
    BY <1>6, <2>2, <2>3, DeleteInventorySound
  <2> QED BY <1>6, <2>1, <2>3, <2>4, WriteStep DEF Finish
<1>10. CASE ServeUpdateItem(r)
  <2>1. Pending(r, "statement") /\ calls[r].stage = "statement" /\ calls[r].op = "UpdateItem"
    BY <1>10 DEF ServeUpdateItem, Running, Pending
  <2>2. calls[r].item \in Items /\ calls[r].name \in Names /\ calls[r].target \in Targets
    BY <1>5, <2>1 DEF Carried, Inputs, OfBatch, OfItem, OfInventory
  <2>3. PICK o \in Outcomes :
           UpdateItem(calls[r].item, calls[r].name, calls[r].target, o) /\ Finish(r, o)
    BY <1>10 DEF ServeUpdateItem
  <2>4. Sound /\ NoNewItem /\ NoNewDebt
    BY <1>6, <2>2, <2>3, UpdateItemSound
  <2> QED BY <1>6, <2>1, <2>3, <2>4, WriteStep DEF Finish
<1>11. CASE ServeDeleteItem(r)
  <2>1. Pending(r, "statement") /\ calls[r].stage = "statement" /\ calls[r].op = "DeleteItem"
    BY <1>11 DEF ServeDeleteItem, Running, Pending
  <2>2. calls[r].item \in Items
    BY <1>5, <2>1 DEF Carried, Inputs, OfBatch, OfItem, OfInventory
  <2>3. PICK o \in Outcomes : SoftDeleteItem(calls[r].item, o) /\ Finish(r, o)
    BY <1>11 DEF ServeDeleteItem
  <2>4. Sound /\ NoNewItem /\ NoNewDebt
    BY <1>6, <2>2, <2>3, SoftDeleteItemSound
  <2> QED BY <1>6, <2>1, <2>3, <2>4, WriteStep DEF Finish
<1>12. CASE ServeMarkBatchEmptied(r)
  <2>1. Pending(r, "statement") /\ calls[r].stage = "statement" /\ calls[r].op = "MarkBatchEmptied"
    BY <1>12 DEF ServeMarkBatchEmptied, Running, Pending
  <2>2. calls[r].batch \in Batches
    BY <1>5, <2>1 DEF Carried, Inputs, OfBatch, OfItem, OfInventory
  <2>3. PICK o \in Outcomes : MarkBatchEmptied(calls[r].batch, o) /\ Finish(r, o)
    BY <1>12 DEF ServeMarkBatchEmptied
  <2>4. Sound /\ NoNewItem /\ NoNewDebt
    BY <1>6, <2>2, <2>3, MarkBatchEmptiedSound
  <2> QED BY <1>6, <2>1, <2>3, <2>4, WriteStep DEF Finish
<1>13. CASE ServeDeleteBatch(r)
  <2>1. Pending(r, "statement") /\ calls[r].stage = "statement" /\ calls[r].op = "DeleteBatch"
    BY <1>13 DEF ServeDeleteBatch, Running, Pending
  <2>2. calls[r].batch \in Batches
    BY <1>5, <2>1 DEF Carried, Inputs, OfBatch, OfItem, OfInventory
  <2>3. PICK o \in Outcomes : DeleteBatch(calls[r].batch, o) /\ Finish(r, o)
    BY <1>13 DEF ServeDeleteBatch
  <2>4. Sound /\ NoNewItem /\ NoNewDebt
    BY <1>6, <2>2, <2>3, DeleteBatchSound
  <2> QED BY <1>6, <2>1, <2>3, <2>4, WriteStep DEF Finish
<1>14. CASE ServePatchBatch(r)
  <2>1. Pending(r, "statement") /\ calls[r].stage = "statement" /\ calls[r].op = "PatchBatch"
    BY <1>14 DEF ServePatchBatch, Running, Pending
  <2>2. calls[r].batch \in Batches /\ calls[r].item \in Items
        /\ AsNumeric(calls[r].quantity) \in Stored /\ AsNumeric(calls[r].quantity) >= 0
    BY <1>5, <2>1, StoredAmounts DEF Carried, Inputs, OfBatch, OfItem, OfInventory
  <2>3. PICK o \in Outcomes :
           /\ PatchBatch(calls[r].batch, calls[r].item, AsNumeric(calls[r].quantity), o)
           /\ Finish(r, o)
    BY <1>14 DEF ServePatchBatch
  <2>4. Sound /\ NoNewItem /\ NoNewDebt
    BY <1>6, <2>2, <2>3, PatchBatchSound
  <2> QED BY <1>6, <2>1, <2>3, <2>4, WriteStep DEF Finish
<1>15. CASE ServeAddBatch(r)
  <2>1. Pending(r, "statement") /\ calls[r].stage = "statement" /\ calls[r].op = "AddBatch"
    BY <1>15 DEF ServeAddBatch, Running, Pending
  <2>2. calls[r].item \in Items
        /\ AsNumeric(calls[r].quantity) \in Stored /\ AsNumeric(calls[r].quantity) >= 0
    BY <1>5, <2>1, StoredAmounts DEF Carried, Inputs, OfBatch, OfItem, OfInventory
  <2>3. PICK b \in Batches, o \in Outcomes :
           /\ AddBatch(b, calls[r].item, AsNumeric(calls[r].quantity), o) /\ Settle(r, o)
           /\ everHeld' = IF o = "ok" THEN everHeld \union {calls[r].item} ELSE everHeld
    BY <1>15 DEF ServeAddBatch
  <2>4. Sound /\ NoNewItem /\ NoNewDebt
    BY <1>6, <2>2, <2>3, AddBatchSound
  <2>5. everHeld \subseteq everHeld' /\ everHeld' \subseteq Items
    BY <1>6, <2>2, <2>3
  <2> QED BY <2>1, <2>3, <2>4, <2>5, WriteStep
<1> QED BY <1>1, <1>2, <1>3, <1>4, <1>7, <1>8,
          <1>9, <1>10, <1>11, <1>12, <1>13, <1>14, <1>15 DEF Serve

\* Nobody's request moves: a batch ages, pg_cron runs, or nothing happens at all.
LEMMA OtherStep ==
    ASSUME IInv, Sound, NoNewItem, NoNewDebt, UNCHANGED <<calls, everHeld>>
    PROVE  Kept
<1>1. TypeOK'
  BY DEF IInv, TypeOK, Sound
<1>2. \A q \in Requests : CallInv(q)'
  BY CallStable DEF IInv, Sound
<1>3. CreateLeftovers'
  BY LeftoversKept DEF IInv, Sound, NoNewItem, NoNewDebt
<1> QED BY <1>1, <1>2, <1>3 DEF IInv, Sound, Kept

\* The requests that were being served are answered "lost".
LEMMA CrashStep ==
    ASSUME IInv, Crash
    PROVE  Kept
<1>1. Sound /\ NoNewItem /\ NoNewDebt /\ UNCHANGED everHeld
  BY Unwritten DEF Crash, IInv, TypeOK
<1>2. "lost" # None /\ "ok" # "lost" /\ None \notin CallRecords
  BY InventoryAssumption DEF InventoryAssumption, NoNull, Errors
<1>3. ASSUME NEW q \in Requests
      PROVE  \/ (calls[q] = None \/ calls[q].stage = "answered") /\ calls'[q] = calls[q]
             \/ /\ calls[q] \in CallRecords /\ calls'[q] \in CallRecords
                /\ calls'[q].stage = "answered" /\ calls'[q].answer = "lost"
                /\ calls'[q].op = calls[q].op /\ calls'[q].item = calls[q].item
                /\ calls'[q].quantity = calls[q].quantity
  <2>1. CASE calls[q] = None \/ calls[q].stage = "answered"
    BY <2>1 DEF Crash
  <2>2. CASE ~(calls[q] = None \/ calls[q].stage = "answered")
    <3>1. calls[q] \in CallRecords
      BY <2>2 DEF IInv, TypeOK
    <3>2. calls'[q] = [calls[q] EXCEPT !.stage = "answered", !.answer = "lost"]
      BY <2>2 DEF Crash
    <3> QED BY <3>1, <3>2 DEF CallRecords, Stages, Errors
  <2> QED BY <2>1, <2>2
<1>4. TypeOK'
  <2>1. calls' = [q \in Requests |-> calls'[q]]
    BY DEF Crash
  <2>2. \A q \in Requests : calls'[q] \in CallRecords \union {None}
    BY <1>3 DEF IInv, TypeOK
  <2>3. calls' \in [Requests -> CallRecords \union {None}]
    BY <2>1, <2>2
  <2>4. \A q \in Requests :
           calls'[q] # None => (calls'[q].stage = "answered" <=> calls'[q].answer # None)
    BY <1>2, <1>3 DEF IInv, TypeOK
  <2> QED BY <1>1, <2>3, <2>4 DEF IInv, TypeOK, Sound
<1>5. ASSUME NEW q \in Requests PROVE CallInv(q)'
  <2>1. CASE calls'[q] = calls[q]
    BY <1>1, <2>1, CallStable DEF IInv, Sound
  <2>2. CASE calls'[q].stage = "answered" /\ calls'[q].answer = "lost"
    BY <2>2 DEF CallInv, Carried, Scoped, LateStopped
  <2> QED BY <1>3, <2>1, <2>2
<1>6. CreateLeftovers'
  BY <1>1, <1>2, <1>3, LeftoversKept DEF IInv, Sound, NoNewItem, NoNewDebt
<1> QED BY <1>1, <1>4, <1>5, <1>6 DEF IInv, Sound, Kept

--------------------------------------------------------------------------------
(* The theorems.                                                            *)

\* The databases the model starts from.
LEMMA InitIInv == Init => IInv
<1> SUFFICES ASSUME Init PROVE IInv
  OBVIOUS
<1>1. TypeOK
  BY DEF Init, TypeOK, TablesOK, Rows
<1>2. CreateLeftovers
  <2>1. Rows(items) \ everHeld = {}
    BY DEF Init
  <2>2. ASSUME NEW b \in Rows(batches) PROVE ~(batches[b].quantity < 0)
    <3>1. batches[b].quantity \in Int
      BY <1>1, StoredAmounts DEF TypeOK, TablesOK, Rows, IsRow, BatchRecords
    <3> QED BY <3>1 DEF Init
  <2> QED BY <2>1, <2>2 DEF CreateLeftovers
<1>3. \A r \in Requests : CallInv(r)
  BY DEF Init, CallInv
<1> QED BY <1>1, <1>2, <1>3 DEF IInv, Init

\* Every step of the specification.
LEMMA NextKept == IInv /\ [Next]_vars => Kept
<1> SUFFICES ASSUME IInv, [Next]_vars PROVE Kept
  OBVIOUS
<1>1. ASSUME NEW r \in Requests, Handle(r) PROVE Kept
  BY <1>1, HandleStep
<1>2. ASSUME NEW r \in Requests, Check(r) PROVE Kept
  BY <1>2, CheckStep
<1>3. ASSUME NEW r \in Requests, Serve(r) PROVE Kept
  BY <1>3, ServeStep
<1>4. ASSUME NEW b \in Batches, Age(b) PROVE Kept
  BY <1>4, AgeSound, OtherStep DEF Age, IInv, TypeOK
<1>5. CASE Purge
  BY <1>5, PurgeSound, OtherStep DEF Purge, IInv, TypeOK
<1>6. CASE Crash
  BY <1>6, CrashStep
<1>7. CASE UNCHANGED vars
  <2>1. UNCHANGED tables /\ UNCHANGED <<calls, everHeld>>
    BY <1>7 DEF vars
  <2> QED BY <2>1, Unwritten, OtherStep DEF IInv, TypeOK
<1> QED BY <1>1, <1>2, <1>3, <1>4, <1>5, <1>6, <1>7 DEF Next

\* The inductive invariant: what every request knows at its stage is true, however the
\* other requests, the purge and the end of the process come in between.
THEOREM InventoryInvariant == Spec => []IInv
BY InitIInv, NextKept, PTL DEF Spec, Kept

\* The tables, the requests and their answers keep their types (TypeOK).
THEOREM InventoryTypes == Spec => []TypeOK
<1>1. IInv => TypeOK
  BY DEF IInv
<1> QED BY <1>1, InventoryInvariant, PTL

\* Every batch has its item and every item its inventory, and no two items of an inventory
\* that are not deleted have the same name (Integrity: the foreign keys, the cascades and
\* the partial unique index, under every statement of the API).
THEOREM InventoryIntegrity == Spec => []Integrity
<1>1. IInv => Integrity
  BY DEF IInv
<1> QED BY <1>1, InventoryInvariant, PTL

\* What a request's checks established still holds when its statement runs, or the row has
\* gone; and a request that came after its item was deleted never gets that far
\* (ScopeHolds: assertInventoryScope, assertItemScope and assertBatchScope).
THEOREM InventoryScope == Spec => []ScopeHolds
<1>1. IInv => ScopeHolds
  <2> SUFFICES ASSUME IInv PROVE ScopeHolds
    OBVIOUS
  <2>1. NothingAfterDelete
    BY DEF IInv, CallInv, LateStopped, NothingAfterDelete
  <2>2. WritesAreScoped
    BY DEF IInv, CallInv, Scoped, Pending, WritesAreScoped
  <2> QED BY <2>1, <2>2 DEF ScopeHolds
<1> QED BY <1>1, InventoryInvariant, PTL

\* What CreateItem leaves behind when it does not get through is all it leaves: an item
\* that never had a batch, and a batch of less than nothing, are a creator's
\* (CreateLeftovers).
THEOREM InventoryLeftovers == Spec => []CreateLeftovers
<1>1. IInv => CreateLeftovers
  BY DEF IInv
<1> QED BY <1>1, InventoryInvariant, PTL

\* An emptied batch is never patched and never comes back (EmptiedStaysEmptied), whatever
\* was in flight when it was emptied.
THEOREM InventoryEmptied == Spec => EmptiedStaysEmptied
<1>1. IInv /\ Kept =>
        \A b \in Rows(batches) : batches[b].emptied # "no" =>
           \/ batches'[b] = Gone
           \/ batches'[b].emptied # "no" /\ batches'[b].quantity = batches[b].quantity
  BY DEF Kept, Stable, IInv, TypeOK, TablesOK, Rows, IsRow
<1>2. IInv /\ [Next]_vars =>
        [\A b \in Rows(batches) : batches[b].emptied # "no" =>
           \/ batches'[b] = Gone
           \/ batches'[b].emptied # "no" /\ batches'[b].quantity = batches[b].quantity]_batches
  BY <1>1, NextKept
<1> QED BY <1>2, InventoryInvariant, PTL DEF Spec, EmptiedStaysEmptied

================================================================================
