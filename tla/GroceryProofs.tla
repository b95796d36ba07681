----------------------------- MODULE GroceryProofs -----------------------------
(***************************************************************************)
(* Proofs about Grocery, for any number of requests, lists, entries and    *)
(* items: type correctness, the foreign keys, the life of a list, and what *)
(* AutoGenerate makes of a stock that changes under it.                    *)
(*                                                                         *)
(* GeneratedFromStock looks at finished runs only and is not inductive.    *)
(* RunInv follows a run through its items: each item it read is ahead, in  *)
(* hand, asked for, or was seen with enough; what was read was seen; and   *)
(* the places handed out are those of the entries written.  A run knows of *)
(* the stock only the levels it may have seen, so one lemma (Watching)     *)
(* carries every run over every change of the stock.                       *)
(***************************************************************************)
EXTENDS Grocery, TLAPS, FiniteSetTheorems

OfEntry == {"UpdateItemStatus", "ReorderItem", "DeleteItem"}
OfList == {"GetList", "CompleteList", "ArchiveList", "RenameList", "DeleteList", "AddItem",
           "ListItems"} \union OfEntry

\* What a request carries from its input, by operation ...
Inputs(c) ==
    /\ c.op \in OfList => c.list \in Lists
    /\ c.op \in OfEntry => c.entry \in Entries
    /\ c.op \in {"CreateList", "RenameList"} => c.name \in Names \union {Spaces}
    /\ c.op = "UpdateItemStatus" => c.status \in EntryStatuses
    /\ c.op \in {"AddItem", "ReorderItem"} => c.order \in Orders
    /\ c.op = "AddItem" => c.quantity \in Quantities

InHand == {"item_inventory", "quantity", "add"}
Going == {"next_item"} \union InHand

\* ... and where it can be with it.
Carried(c) == c.stage # "answered" =>
    /\ Inputs(c)
    /\ c.stage = "entry" => c.op \in OfEntry
    /\ c.stage = "list" => c.op \in OfList
    /\ c.stage \in Generating <=> c.op = "AutoGenerate" /\ c.stage # "inventory"
    /\ c.stage \in Going => c.list \in Lists

\* The item in hand, and what was read of it.
Progress(c, run) ==
    /\ c.stage \in {"new_list", "next_item"} => run.at = None
    /\ c.stage \in InHand => run.at \in DOMAIN run.asked
    /\ c.stage = "add" => run.read \in run.seen[run.at] /\ run.read < run.asked[run.at]
    /\ c.answer = "ok" => run.todo = {} /\ run.at = None

\* The entries it wrote: of items it is through with, for what was missing, in order.
Written(run) ==
    /\ \A w \in run.wrote :
          /\ w.item \in DOMAIN run.asked /\ w.item \notin run.todo /\ w.item # run.at
          /\ w.quantity > 0
          /\ \E q \in run.seen[w.item] : w.quantity = run.asked[w.item] - q
    /\ \A w1, w2 \in run.wrote : w1.item = w2.item => w1 = w2
    /\ {w.order : w \in run.wrote} = 0..(run.next - 1)
    /\ IsFiniteSet(run.wrote) /\ run.next = Cardinality(run.wrote)

\* No item it is through with was forgotten.
Covered(run) ==
    \A i \in DOMAIN run.asked : i \notin run.todo /\ i # run.at =>
        (\E q \in run.seen[i] : q >= run.asked[i]) \/ (\E w \in run.wrote : w.item = i)

\* There are as many places as items.
Counted(run) ==
    run.next + Cardinality(run.todo) + (IF run.at = None THEN 0 ELSE 1) <= Cardinality(Items)

Seen(c, run) == c.stage # "answered" => \A i \in Items : onHand[i] \in run.seen[i]

\* What of a run does not depend on where its request is, and what does.
Sound(run) ==
    /\ run \in RunRecords
    /\ run.todo \subseteq DOMAIN run.asked /\ run.at \notin run.todo
    /\ Written(run) /\ Covered(run) /\ Counted(run)

RunInv(c, run) == Sound(run) /\ Progress(c, run) /\ Seen(c, run)

ReqInv(c, run) ==
    \/ c = None /\ run = None
    \/ /\ c \in CallRecords
       /\ c.stage = "answered" <=> c.answer # None
       /\ Carried(c)
       /\ \/ run = None /\ c.stage \notin Going \union {"new_list"}
          \/ run # None /\ c.stage \in Going \union {"new_list", "answered"} /\ RunInv(c, run)
       /\ c.stage = "answered" => c.op = None

CallsOK ==
    /\ calls \in [Requests -> CallRecords \union {None}]
    /\ runs \in [Requests -> RunRecords \union {None}]
    /\ \A r \in Requests : ReqInv(calls[r], runs[r])

\* A completed list has a date (service.go:143-152).
Dated == \A l \in Rows(lists) : lists[l].status = "completed" => lists[l].completed # "never"

TablesOK ==
    /\ there \in BOOLEAN
    /\ lists \in ListTable /\ entries \in EntryTable
    /\ NoDangling /\ Dated

IInv ==
    /\ Shelf!Init
    /\ TablesOK
    /\ CallsOK
    /\ changes \in 0..MaxChanges

\* What ListLifecycle says of one step.
Lives == \A l \in Lists : IsRow(lists[l]) /\ IsRow(lists'[l]) =>
    /\ lists'[l].status = "active" => lists[l].status = "active"
    /\ lists'[l].status = "completed" => lists'[l].completed # "never"
    /\ lists[l].completed # "never" => lists'[l].completed # "never"
    /\ lists[l].status = "completed" /\ lists'[l].status = "archived" =>
          \/ lists[l].completed = "long_ago"
          \/ \E r \in Requests : Running(r, "ArchiveList") /\ calls[r].list = l

TablesKept == TablesOK' /\ Lives
Kept == IInv' /\ Lives

--------------------------------------------------------------------------------
(* Rows.                                                                    *)

ListNames == Names \union {Spaces, AutoName}

\* A list, an entry, a request and a run are not None.
LEMMA RecordsAreRows ==
    /\ \A row \in ListRecords(ListNames) : IsRow(row)
    /\ \A row \in EntryRecords(Lists, Items, Most) : IsRow(row)
    /\ \A c \in CallRecords : c # None
    /\ \A run \in RunRecords : run # None
BY GroceryAssumption DEF GroceryAssumption, NoNull, IsRow, ListNames

\* The rows of the two tables.
LEMMA TableRows ==
    ASSUME TablesOK
    PROVE  /\ \A l \in Rows(lists) : l \in Lists /\ lists[l] \in ListRecords(ListNames)
           /\ \A l \in Lists : IsRow(lists[l]) => l \in Rows(lists)
           /\ \A e \in Rows(entries) :
                 e \in Entries /\ entries[e] \in EntryRecords(Lists, Items, Most)
           /\ \A e \in Entries : IsRow(entries[e]) => e \in Rows(entries)
           /\ DOMAIN lists = Lists /\ DOMAIN entries = Entries
BY DEF TablesOK, ListTable, EntryTable, Rows, IsRow, ListNames

\* int32() of a sort order: in range, and the number itself while it fits.
LEMMA Int32 ==
    ASSUME NEW n \in Int
    PROVE  /\ AsInt32(n) \in -IntHalf..(IntHalf - 1)
           /\ n \in 0..(IntHalf - 1) => AsInt32(n) = n
<1>1. IntHalf \in Nat /\ IntHalf > 0
  BY GroceryAssumption DEF GroceryAssumption
<1> DEFINE m == n + IntHalf  w == 2 * IntHalf
<1>2. m \in Int /\ w \in Int /\ w > 0
  BY <1>1
<1>3. m % w \in 0..(w - 1)
  BY <1>2
<1>4. m \in 0..(w - 1) => m % w = m
  BY <1>2
<1>5. AsInt32(n) = (m % w) - IntHalf
  BY DEF AsInt32
<1> HIDE DEF m, w
<1>6. m = n + IntHalf /\ w = 2 * IntHalf
  BY DEF m, w
<1> QED BY <1>1, <1>3, <1>4, <1>5, <1>6

--------------------------------------------------------------------------------
(* The statements.                                                          *)

\* Statements that leave the lists alone.
LEMMA ListsAlone ==
    ASSUME Dated, lists \in ListTable, lists' = lists
    PROVE  Lives
<1>1. \A l \in Lists : IsRow(lists[l]) => l \in Rows(lists)
  BY DEF Rows, ListTable
<1> QED BY <1>1 DEF Lives, Dated

\* A list is inserted or written.
LEMMA ListWritten ==
    ASSUME TablesOK, UNCHANGED <<status, there, entries>>,
           NEW l \in Lists, NEW row \in ListRecords(ListNames),
           lists' = [lists EXCEPT ![l] = row], IsRow(lists[l]) \/ there,
           row.status = "completed" => row.completed # "never",
           IsRow(lists[l]) =>
              /\ row.status = "active" => lists[l].status = "active"
              /\ lists[l].completed # "never" => row.completed # "never"
              /\ lists[l].status = "completed" /\ row.status = "archived" =>
                    \/ lists[l].completed = "long_ago"
                    \/ \E r \in Requests : Running(r, "ArchiveList") /\ calls[r].list = l
    PROVE  TablesKept
<1>1. /\ lists' \in ListTable
      /\ \A k \in Lists : lists'[k] = IF k = l THEN row ELSE lists[k]
  BY DEF TablesOK, ListTable, ListNames
<1>2. IsRow(row)
  BY RecordsAreRows
<1>3. /\ \A k \in Rows(lists)' : k \in Lists /\ IsRow(lists'[k])
      /\ \A k \in Lists : IsRow(lists[k]) => IsRow(lists'[k])
  BY <1>1, <1>2 DEF Rows, ListTable
<1>4. Dated'
  BY <1>1, <1>3, TableRows DEF Dated, TablesOK
<1>5. NoDangling'
  <2>1. ~there => Rows(lists)' = {}
    <3> SUFFICES ASSUME ~there PROVE Rows(lists)' = {}
      OBVIOUS
    <3>1. l \in Rows(lists)
      BY TableRows
    <3> QED BY <3>1 DEF NoDangling, TablesOK
  <2>2. ASSUME NEW e \in Rows(entries)
        PROVE  /\ IsRow(lists'[entries[e].list])
               /\ entries[e].item # None => Shelf!Known(entries[e].item)
    <3>1. entries[e].list \in Lists
      BY TableRows DEF EntryRecords
    <3> QED BY <3>1, <1>3 DEF NoDangling, TablesOK
  <2> QED BY <2>1, <2>2 DEF NoDangling, Shelf!Known
<1>6. Lives
  <2> SUFFICES ASSUME NEW k \in Lists, IsRow(lists[k])
               PROVE /\ lists'[k].status = "active" => lists[k].status = "active"
                     /\ lists'[k].status = "completed" => lists'[k].completed # "never"
                     /\ lists[k].completed # "never" => lists'[k].completed # "never"
                     /\ lists[k].status = "completed" /\ lists'[k].status = "archived" =>
                        \/ lists[k].completed = "long_ago"
                        \/ \E r \in Requests : Running(r, "ArchiveList") /\ calls[r].list = k
    BY DEF Lives
  <2>1. CASE k = l
    BY <1>1, <2>1
  <2>2. CASE k # l
    <3>1. lists'[k] = lists[k] /\ (lists[k].status = "completed" => lists[k].completed # "never")
      BY <1>1, <2>2, TableRows DEF TablesOK, Dated
    <3> QED BY <3>1
  <2> QED BY <2>1, <2>2
<1> QED BY <1>1, <1>4, <1>5, <1>6 DEF TablesKept, TablesOK

\* An entry is inserted or written.
LEMMA EntryWritten ==
    ASSUME TablesOK, UNCHANGED <<status, there, lists>>,
           NEW e \in Entries, NEW row \in EntryRecords(Lists, Items, Most),
           entries' = [entries EXCEPT ![e] = row],
           IsRow(lists[row.list]), row.item # None => Shelf!Known(row.item)
    PROVE  TablesKept
<1>1. /\ entries' \in EntryTable
      /\ \A k \in Entries : entries'[k] = IF k = e THEN row ELSE entries[k]
  BY DEF TablesOK, EntryTable
<1>2. ASSUME NEW k \in Rows(entries)'
      PROVE  k \in Entries /\ (k = e \/ (k \in Rows(entries) /\ entries'[k] = entries[k]))
  BY <1>1, TableRows DEF Rows, EntryTable
<1>3. NoDangling'
  <2>1. NoDangling /\ (~there)' = ~there /\ Rows(lists)' = Rows(lists)
    BY DEF TablesOK, Rows
  <2>2. \A i : Shelf!Known(i)' <=> Shelf!Known(i)
    BY DEF Shelf!Known
  <2>3. ASSUME NEW k \in Rows(entries)'
        PROVE  /\ IsRow(lists'[entries'[k].list])
               /\ entries'[k].item # None => Shelf!Known(entries'[k].item)
    <3>1. CASE k = e
      BY <1>1, <3>1
    <3>2. CASE k # e
      BY <1>2, <2>1, <2>3, <3>2 DEF NoDangling
    <3> QED BY <3>1, <3>2
  <2> QED BY <2>1, <2>2, <2>3 DEF NoDangling
<1>4. Dated' /\ Lives
  BY ListsAlone DEF TablesOK, Dated
<1> QED BY <1>1, <1>3, <1>4 DEF TablesKept, TablesOK

\* Nothing is written.
LEMMA TablesAlone ==
    ASSUME TablesOK, UNCHANGED <<status, there, lists, entries>>
    PROVE  TablesKept
<1>1. NoDangling' /\ Dated' /\ Lives
  BY ListsAlone DEF TablesOK, Dated, NoDangling, Shelf!Known
<1> QED BY <1>1 DEF TablesKept, TablesOK

\* Entries go.
LEMMA EntriesGo ==
    ASSUME TablesOK, UNCHANGED <<status, there, lists>>, entries' \in EntryTable,
           \A e \in Entries : entries'[e] = Gone \/ entries'[e] = entries[e]
    PROVE  TablesKept
<1>2. ASSUME NEW k \in Rows(entries)'
      PROVE  k \in Rows(entries) /\ entries'[k] = entries[k]
  BY TableRows DEF Rows, IsRow, EntryTable
<1>3. NoDangling'
  BY <1>2 DEF NoDangling, TablesOK, Shelf!Known
<1>4. Dated' /\ Lives
  BY ListsAlone DEF TablesOK, Dated
<1> QED BY <1>3, <1>4 DEF TablesKept, TablesOK

\* CreateList.
LEMMA CreateListKeeps ==
    ASSUME TablesOK, UNCHANGED World, NEW l \in Lists, NEW name \in ListNames, NEW o,
           CreateList(l, name, o)
    PROVE  TablesKept /\ (o = "ok" => there)
<1>1. PICK row : row = [name |-> name, status |-> "active", completed |-> "never"]
  OBVIOUS
<1>2. row \in ListRecords(ListNames)
  BY <1>1 DEF ListRecords, ListStatuses, Completed
<1>3. ~IsRow(lists[l])
  BY DEF CreateList, IsRow
<1>4. CASE there
  BY <1>1, <1>2, <1>3, <1>4, ListWritten DEF CreateList, CreateGroceryList, World, stock
<1>5. CASE ~there
  BY <1>5, TablesAlone DEF CreateList, World, stock
<1> QED BY <1>4, <1>5 DEF TablesOK

\* CompleteList.
LEMMA CompleteListKeeps ==
    ASSUME TablesOK, UNCHANGED World, NEW l \in Lists, NEW o,
           UpdateListStatus(l, "completed", "recently", o)
    PROVE  TablesKept
<1>1. CASE IsRow(lists[l])
  <2>1. PICK row : row = [lists[l] EXCEPT !.status = "completed", !.completed = "recently"]
    OBVIOUS
  <2>2. row \in ListRecords(ListNames) /\ row.status = "completed" /\ row.completed = "recently"
    BY <1>1, <2>1, TableRows DEF ListRecords, ListStatuses, Completed
  <2>3. lists' = [lists EXCEPT ![l] = row]
    BY <1>1, <2>1 DEF UpdateListStatus, UpdateGroceryListStatus, TablesOK, ListTable
  <2> QED BY <1>1, <2>2, <2>3, ListWritten DEF UpdateListStatus, World, stock
<1>2. CASE ~IsRow(lists[l])
  BY <1>2, TablesAlone DEF UpdateListStatus, UpdateGroceryListStatus, World, stock
<1> QED BY <1>1, <1>2

\* ArchiveList, for a request.
LEMMA ArchiveListKeeps ==
    ASSUME TablesOK, UNCHANGED World, NEW l \in Lists, NEW o, ArchiveList(l, o),
           NEW r \in Requests, Running(r, "ArchiveList"), calls[r].list = l
    PROVE  TablesKept
<1>1. CASE IsRow(lists[l])
  <2>1. PICK row : row = [lists[l] EXCEPT !.status = "archived"]
    OBVIOUS
  <2>2. /\ row \in ListRecords(ListNames)
        /\ row.status = "archived" /\ row.completed = lists[l].completed
    BY <1>1, <2>1, TableRows DEF ListRecords, ListStatuses
  <2>3. lists' = [lists EXCEPT ![l] = row]
    BY <1>1, <2>1 DEF ArchiveList, ArchiveGroceryList, TablesOK, ListTable
  <2> QED BY <1>1, <2>2, <2>3, ListWritten DEF ArchiveList, World, stock
<1>2. CASE ~IsRow(lists[l])
  BY <1>2, TablesAlone DEF ArchiveList, ArchiveGroceryList, World, stock
<1> QED BY <1>1, <1>2

\* RenameList.
LEMMA RenameListKeeps ==
    ASSUME TablesOK, UNCHANGED World, NEW l \in Lists, NEW name \in ListNames, NEW o,
           RenameList(l, name, o)
    PROVE  TablesKept
<1>1. CASE IsRow(lists[l])
  <2>1. PICK row : row = [lists[l] EXCEPT !.name = name]
    OBVIOUS
  <2>2. /\ row \in ListRecords(ListNames)
        /\ row.status = lists[l].status /\ row.completed = lists[l].completed
    BY <1>1, <2>1, TableRows DEF ListRecords
  <2>3. lists' = [lists EXCEPT ![l] = row]
    BY <1>1, <2>1 DEF RenameList, RenameGroceryList, TablesOK, ListTable
  <2>4. row.status = "completed" => row.completed # "never"
    BY <1>1, <2>2, TableRows DEF TablesOK, Dated
  <2> QED BY <1>1, <2>2, <2>3, <2>4, ListWritten DEF RenameList, World, stock
<1>2. CASE ~IsRow(lists[l])
  BY <1>2, TablesAlone DEF RenameList, RenameGroceryList, World, stock
<1> QED BY <1>1, <1>2

\* Lists that go with their entries, or with their inventory.
LEMMA ListsGo ==
    ASSUME TablesOK, NEW gone \in SUBSET Rows(lists),
           lists' \in ListTable,
           \A l \in Lists : lists'[l] = IF l \in gone THEN Gone ELSE lists[l],
           entries' = CascadeEntries(entries, gone),
           (there' = there /\ status' = status) \/ (there' = FALSE /\ gone = Rows(lists))
    PROVE  TablesKept
<1>1. entries' \in EntryTable /\ there' \in BOOLEAN
  BY DEF TablesOK, EntryTable, CascadeEntries
<1>2. /\ \A k \in Rows(lists)' : k \in Rows(lists) /\ k \notin gone /\ lists'[k] = lists[k]
      /\ \A k \in Rows(lists) : k \notin gone => k \in Rows(lists)' /\ lists'[k] = lists[k]
  BY TableRows DEF Rows, IsRow, ListTable
<1>3. ASSUME NEW e \in Rows(entries)'
      PROVE  e \in Rows(entries) /\ entries'[e] = entries[e] /\ entries[e].list \notin gone
  BY TableRows DEF Rows, IsRow, CascadeEntries
<1>4. ASSUME NEW e \in Rows(entries)
      PROVE  entries[e].list \in Rows(lists)
  <2>1. entries[e].list \in Lists
    BY TableRows DEF EntryRecords
  <2> QED BY <2>1, TableRows DEF NoDangling, TablesOK
<1>5. NoDangling'
  <2>1. CASE there' = there /\ status' = status
    <3>1. \A k \in Rows(lists) : k \notin gone => IsRow(lists'[k])
      BY <1>2 DEF Rows
    <3> QED BY <1>2, <1>3, <1>4, <2>1, <3>1 DEF NoDangling, TablesOK, Shelf!Known
  <2>2. CASE there' = FALSE /\ gone = Rows(lists)
    <3>1. Rows(entries)' = {} /\ Rows(lists)' = {}
      BY <1>2, <1>3, <1>4, <2>2
    <3> QED BY <3>1 DEF NoDangling
  <2> QED BY <2>1, <2>2
<1>6. Dated'
  BY <1>2 DEF Dated, TablesOK
<1>7. Lives
  <2>1. \A l \in Lists : IsRow(lists'[l]) => l \in Rows(lists)'
    BY DEF Rows, ListTable
  <2>2. \A l \in Lists : IsRow(lists'[l]) =>
            lists'[l] = lists[l] /\ (lists[l].status = "completed" => lists[l].completed # "never")
    BY <1>2, <2>1 DEF TablesOK, Dated
  <2> QED BY <2>2 DEF Lives
<1> QED BY <1>1, <1>5, <1>6, <1>7 DEF TablesKept, TablesOK

\* DeleteList, with its entries.
LEMMA DeleteListKeeps ==
    ASSUME TablesOK, UNCHANGED World, NEW l \in Lists, NEW o, DeleteList(l, o)
    PROVE  TablesKept
<1>1. CASE IsRow(lists[l])
  <2>1. PICK gone : gone = {l}
    OBVIOUS
  <2>2. lists' \in ListTable /\ \A k \in Lists : lists'[k] = IF k \in gone THEN Gone ELSE lists[k]
    BY <1>1, <2>1 DEF DeleteList, DeleteGroceryList, TablesOK, ListTable
  <2>3. gone \in SUBSET Rows(lists)
    BY <1>1, <2>1, TableRows
  <2>4. entries' = CascadeEntries(entries, gone)
    BY <2>1 DEF DeleteList
  <2>5. (there' = there /\ status' = status) \/ (there' = FALSE /\ gone = Rows(lists))
    BY DEF World, stock
  <2> QED BY <2>2, <2>3, <2>4, <2>5, ListsGo
<1>2. CASE ~IsRow(lists[l])
  <2>1. \A e \in Entries : ~(IsRow(entries[e]) /\ entries[e].list \in {l})
    BY <1>2, TableRows DEF NoDangling, TablesOK
  <2>2. entries' = entries
    BY <2>1, TableRows DEF DeleteList, CascadeEntries, TablesOK, EntryTable
  <2>3. lists' = lists
    BY <1>2 DEF DeleteList, DeleteGroceryList
  <2> QED BY <2>2, <2>3, TablesAlone DEF World, stock
<1> QED BY <1>1, <1>2

\* AddItem, from a request or from AutoGenerate.
LEMMA AddItemKeeps ==
    ASSUME TablesOK, UNCHANGED World, NEW e \in Entries, NEW l \in Lists,
           NEW i \in Items \union {None}, NEW quantity \in Nat, NEW order \in Int, NEW o,
           AddItem(e, l, i, quantity, order, o)
    PROVE  /\ TablesKept
           /\ o = "ok" => /\ entries'[e] \in EntryRecords(Lists, Items, Most)
                          /\ entries'[e].item = i /\ entries'[e].quantity = quantity
                          /\ entries'[e].order = AsInt32(order)
<1>1. PICK row : row = [list |-> l, item |-> i, quantity |-> quantity,
                        status |-> "pending", order |-> AsInt32(order)]
  OBVIOUS
<1>2. quantity <= Most => row \in EntryRecords(Lists, Items, Most)
  <2>1. Most \in Nat
    BY GroceryAssumption DEF GroceryAssumption
  <2>2. quantity <= Most => quantity \in 0..Most
    BY <2>1
  <2> QED BY <1>1, <2>2, Int32 DEF EntryRecords, EntryStatuses
<1>3. lists' = lists
  BY DEF AddItem
<1>4. CASE entries' = AddGroceryListItem(entries, e, l, i, quantity, AsInt32(order))
           /\ IsRow(lists[l]) /\ (i # None => Shelf!Known(i)) /\ quantity <= Most
  <2>1. entries' = [entries EXCEPT ![e] = row]
    BY <1>1, <1>4 DEF AddGroceryListItem
  <2>2. row.list = l /\ row.item = i /\ row.quantity = quantity /\ row.order = AsInt32(order)
    BY <1>1
  <2>3. TablesKept
    BY <1>2, <1>3, <1>4, <2>1, <2>2, EntryWritten DEF World, stock
  <2>4. entries'[e] = row
    BY <2>1 DEF TablesOK, EntryTable
  <2> QED BY <1>2, <1>4, <2>2, <2>3, <2>4
<1>5. CASE entries' = entries /\ o = "internal"
  BY <1>3, <1>5, TablesAlone DEF World, stock
<1> QED BY <1>4, <1>5 DEF AddItem

\* The entry keeps its list and its item.
LEMMA EntryChanged ==
    ASSUME TablesOK, UNCHANGED World, lists' = lists, NEW e \in Entries, NEW row,
           IsRow(entries[e]) => /\ row \in EntryRecords(Lists, Items, Most)
                                /\ row.list = entries[e].list /\ row.item = entries[e].item,
           entries' = IF IsRow(entries[e]) THEN [entries EXCEPT ![e] = row] ELSE entries
    PROVE  TablesKept
<1>1. CASE IsRow(entries[e])
  <2>1. /\ IsRow(lists[entries[e].list])
        /\ entries[e].item # None => Shelf!Known(entries[e].item)
    BY <1>1, TableRows DEF TablesOK, NoDangling
  <2> QED BY <1>1, <2>1, EntryWritten DEF World, stock
<1>2. CASE ~IsRow(entries[e])
  BY <1>2, TablesAlone DEF World, stock
<1> QED BY <1>1, <1>2

\* UpdateItemStatus.
LEMMA UpdateItemStatusKeeps ==
    ASSUME TablesOK, UNCHANGED World, NEW e \in Entries, NEW new \in EntryStatuses, NEW o,
           UpdateItemStatus(e, new, o)
    PROVE  TablesKept
<1>1. PICK row : row = [entries[e] EXCEPT !.status = new]
  OBVIOUS
<1>2. IsRow(entries[e]) => /\ row \in EntryRecords(Lists, Items, Most)
                           /\ row.list = entries[e].list /\ row.item = entries[e].item
  BY <1>1, TableRows DEF EntryRecords
<1>3. entries' = IF IsRow(entries[e]) THEN [entries EXCEPT ![e] = row] ELSE entries
  BY <1>1 DEF UpdateItemStatus, UpdateGroceryListItemStatus, TablesOK, EntryTable
<1> QED BY <1>2, <1>3, EntryChanged DEF UpdateItemStatus

\* ReorderItem.
LEMMA ReorderItemKeeps ==
    ASSUME TablesOK, UNCHANGED World, NEW e \in Entries, NEW order \in Int, NEW o,
           ReorderItem(e, order, o)
    PROVE  TablesKept
<1>1. PICK row : row = [entries[e] EXCEPT !.order = AsInt32(order)]
  OBVIOUS
<1>2. IsRow(entries[e]) => /\ row \in EntryRecords(Lists, Items, Most)
                           /\ row.list = entries[e].list /\ row.item = entries[e].item
  BY <1>1, TableRows, Int32 DEF EntryRecords
<1>3. entries' = IF IsRow(entries[e]) THEN [entries EXCEPT ![e] = row] ELSE entries
  BY <1>1 DEF ReorderItem, UpdateGroceryListItemSortOrder, TablesOK, EntryTable
<1> QED BY <1>2, <1>3, EntryChanged DEF ReorderItem

\* DeleteItem.
LEMMA DeleteItemKeeps ==
    ASSUME TablesOK, UNCHANGED World, NEW e \in Entries, NEW o, DeleteItem(e, o)
    PROVE  TablesKept
<1>1. CASE IsRow(entries[e])
  <2>1. /\ entries' \in EntryTable
        /\ \A k \in Entries : entries'[k] = Gone \/ entries'[k] = entries[k]
    BY <1>1 DEF DeleteItem, DeleteGroceryListItem, TablesOK, EntryTable
  <2> QED BY <2>1, EntriesGo DEF DeleteItem, World, stock
<1>2. CASE ~IsRow(entries[e])
  BY <1>2, TablesAlone DEF DeleteItem, DeleteGroceryListItem, World, stock
<1> QED BY <1>1, <1>2

--------------------------------------------------------------------------------
(* The requests.                                                            *)

\* What a request is once the middlewares let it through, and at its next statement.
Admitted(c, h, s) == [c EXCEPT !.household = h, !.stage = s]
Moved(c, s) == [c EXCEPT !.stage = s]
OnList(c, s, l) == [c EXCEPT !.stage = s, !.list = l]

\* The inputs of a request are those of its fields ...
LEMMA InputsAlike ==
    ASSUME NEW c \in CallRecords, Inputs(c), NEW d \in CallRecords,
           d.op = c.op, d.list = c.list, d.entry = c.entry, d.name = c.name,
           d.quantity = c.quantity, d.status = c.status, d.order = c.order
    PROVE  Inputs(d)
BY DEF Inputs

\* ... so that one the middlewares let through carries what it came with.
LEMMA CallCarries ==
    ASSUME NEW c \in CallRecords, NEW h \in {Owner, Other, None}, NEW s \in Stages,
           Inputs(c), NEW d, d = Admitted(c, h, s)
    PROVE  /\ d \in CallRecords /\ d.stage = s /\ d.answer = c.answer /\ d.op = c.op
           /\ Inputs(d)
<1>1. d \in CallRecords
  <2>1. PICK b : b = [c EXCEPT !.household = h]
    OBVIOUS
  <2>2. b \in CallRecords
    BY <2>1 DEF CallRecords
  <2>3. d = [b EXCEPT !.stage = s]
    BY <2>1, Zenon DEF Admitted
  <2> QED BY <2>2, <2>3 DEF CallRecords
<1>2. d.stage = s /\ d.answer = c.answer /\ d.op = c.op /\ d.list = c.list
  BY DEF Admitted, CallRecords
<1>3. d.entry = c.entry /\ d.item = c.item /\ d.name = c.name
  BY DEF Admitted, CallRecords
<1>4. d.quantity = c.quantity /\ d.status = c.status /\ d.order = c.order
  BY DEF Admitted, CallRecords
<1>5. Inputs(d)
  BY <1>1, <1>2, <1>3, <1>4, InputsAlike
<1> QED BY <1>1, <1>2, <1>5

\* What a request is at its next statement ...
LEMMA CallMoved ==
    ASSUME NEW c \in CallRecords, NEW s \in Stages
    PROVE  LET d == Moved(c, s) IN
           /\ d \in CallRecords /\ d.stage = s /\ d.answer = c.answer /\ d.op = c.op
           /\ d.list = c.list
BY DEF Moved, CallRecords

\* ... and when it has its list.
LEMMA CallOnList ==
    ASSUME NEW c \in CallRecords, NEW s \in Stages, NEW l \in Lists
    PROVE  LET d == OnList(c, s, l) IN
           /\ d \in CallRecords /\ d.stage = s /\ d.answer = c.answer /\ d.op = c.op
           /\ d.list = l
<1>1. OnList(c, s, l) \in CallRecords
  BY DEF OnList, CallRecords
<1>2. LET d == OnList(c, s, l) IN
         d.stage = s /\ d.answer = c.answer /\ d.op = c.op /\ d.list = l
  BY DEF OnList, CallRecords
<1> QED BY <1>1, <1>2

\* What a request holds, by its parts.
LEMMA CallParts ==
    ASSUME CallsOK, NEW r \in Requests, calls[r] # None
    PROVE  /\ calls[r] \in CallRecords
           /\ calls[r].stage = "answered" <=> calls[r].answer # None
           /\ Carried(calls[r])
           /\ calls[r].stage \in Stages
           /\ \/ runs[r] = None /\ calls[r].stage \notin Going \union {"new_list"}
              \/ /\ runs[r] # None /\ calls[r].stage \in Going \union {"new_list", "answered"}
                 /\ RunInv(calls[r], runs[r])
BY DEF CallsOK, ReqInv, CallRecords

\* A run, by its parts.
LEMMA RunParts ==
    ASSUME NEW run \in RunRecords
    PROVE  /\ \E S \in SUBSET Items : run.asked \in [S -> Targets]
           /\ DOMAIN run.asked \subseteq Items
           /\ \A i \in DOMAIN run.asked : run.asked[i] \in Targets /\ run.asked[i] \in Int
           /\ run.todo \subseteq Items /\ IsFiniteSet(run.todo) /\ Cardinality(run.todo) \in Nat
           /\ run.at \in Items \union {None} /\ run.read \in Levels \union {None}
           /\ run.next \in Nat /\ run.next <= Cardinality(Items)
           /\ run.wrote \subseteq EntryRecords(Lists, Items, Most)
           /\ run.seen \in [Items -> SUBSET Levels]
           /\ Cardinality(Items) \in Nat
<1>1. /\ IsFiniteSet(Items) /\ Cardinality(Items) \in Nat /\ Targets \subseteq Int
  BY FS_CardinalityType, GroceryAssumption DEF GroceryAssumption
<1>2. /\ \E S \in SUBSET Items : run.asked \in [S -> Targets]
      /\ run.todo \subseteq Items
      /\ run.at \in Items \union {None} /\ run.read \in Levels \union {None}
      /\ run.next \in 0..Cardinality(Items)
      /\ run.wrote \subseteq EntryRecords(Lists, Items, Most)
      /\ run.seen \in [Items -> SUBSET Levels]
  BY DEF RunRecords
<1>3. IsFiniteSet(run.todo) /\ Cardinality(run.todo) \in Nat
  BY <1>1, <1>2, FS_Subset, FS_CardinalityType
<1>4. /\ DOMAIN run.asked \subseteq Items
      /\ \A i \in DOMAIN run.asked : run.asked[i] \in Targets /\ run.asked[i] \in Int
  <2>1. PICK S \in SUBSET Items : run.asked \in [S -> Targets]
    BY <1>2
  <2> QED BY <1>1, <2>1
<1>5. run.next \in Nat /\ run.next <= Cardinality(Items)
  BY <1>1, <1>2
<1> QED BY <1>1, <1>2, <1>3, <1>4, <1>5

\* One request moves on; the stock stays.
LEMMA OneRequest ==
    ASSUME CallsOK, NEW r \in Requests, NEW c, NEW run, onHand' = onHand,
           calls' = [calls EXCEPT ![r] = c], runs' = [runs EXCEPT ![r] = run],
           ReqInv(c, run)
    PROVE  CallsOK'
<1>1. /\ \A q \in Requests : calls'[q] = IF q = r THEN c ELSE calls[q]
      /\ \A q \in Requests : runs'[q] = IF q = r THEN run ELSE runs[q]
  BY DEF CallsOK
<1>2. c \in CallRecords \union {None} /\ run \in RunRecords \union {None}
  BY DEF ReqInv, RunInv, Sound
<1>3. /\ calls' \in [Requests -> CallRecords \union {None}]
      /\ runs' \in [Requests -> RunRecords \union {None}]
  BY <1>2 DEF CallsOK
<1>4. ASSUME NEW q \in Requests
      PROVE  ReqInv(calls[q], runs[q])'
  <2>1. \E d, e : calls'[q] = d /\ runs'[q] = e /\ ReqInv(d, e)
    BY <1>1 DEF CallsOK
  <2>2. PICK d, e : calls'[q] = d /\ runs'[q] = e /\ ReqInv(d, e)
    BY <2>1
  <2> QED BY <2>2 DEF ReqInv, RunInv, Seen
<1> QED BY <1>3, <1>4 DEF CallsOK

\* A request that has run says no more of its run once it is answered.
LEMMA AnswerStep ==
    ASSUME CallsOK, NEW r \in Requests, calls[r] # None, NEW a \in {"ok"} \union Errors,
           Answer(r, a), runs' = runs, onHand' = onHand,
           a = "ok" => runs[r] = None \/ (runs[r].todo = {} /\ runs[r].at = None)
    PROVE  CallsOK'
<1>1. PICK c : c = [Blank EXCEPT !.answer = a]
  OBVIOUS
<1>2. c \in CallRecords /\ c.stage = "answered" /\ c.answer = a /\ c.op = None
  BY <1>1 DEF Blank, CallRecords, Stages
<1>3. a # None
  BY GroceryAssumption DEF GroceryAssumption, NoNull
<1>4. runs[r] = None \/ RunInv(c, runs[r])
  <2> SUFFICES ASSUME runs[r] # None PROVE RunInv(c, runs[r])
    OBVIOUS
  <2>1. RunInv(calls[r], runs[r])
    BY CallParts
  <2>2. Progress(c, runs[r]) /\ Seen(c, runs[r])
    BY <1>2, <2>1 DEF RunInv, Progress, Seen, InHand
  <2> QED BY <2>1, <2>2 DEF RunInv
<1>5. ReqInv(c, runs[r])
  BY <1>2, <1>3, <1>4 DEF ReqInv, Carried, Going, InHand
<1>6. calls' = [calls EXCEPT ![r] = c] /\ runs' = [runs EXCEPT ![r] = runs[r]]
  BY <1>1 DEF Answer, CallsOK
<1> QED BY <1>5, <1>6, OneRequest

\* A request that has no run passes a check.
LEMMA ProceedStep ==
    ASSUME CallsOK, NEW r \in Requests, calls[r] # None, calls[r].stage # "answered",
           NEW stage \in {"list", "inventory", "statement", "relist", "snapshot"},
           Proceed(r, stage), runs' = runs, onHand' = onHand, runs[r] = None,
           stage = "list" => calls[r].op \in OfList,
           stage \in {"relist", "snapshot"} <=> calls[r].op = "AutoGenerate" /\ stage # "inventory"
    PROVE  CallsOK'
<1>1. PICK c : c = [calls[r] EXCEPT !.stage = stage]
  OBVIOUS
<1>2. calls[r] \in CallRecords /\ Carried(calls[r]) /\ calls[r].answer = None
  BY CallParts
<1>3. /\ c \in CallRecords /\ c.stage = stage /\ c.answer = None /\ c.op = calls[r].op
      /\ Inputs(calls[r]) => Inputs(c)
  BY <1>1, <1>2 DEF CallRecords, Stages, Generating, Inputs
<1>4. Carried(c)
  BY <1>2, <1>3 DEF Carried, Generating, Going, InHand
<1>5. ReqInv(c, runs[r])
  BY <1>3, <1>4 DEF ReqInv, Going, InHand
<1>6. calls' = [calls EXCEPT ![r] = c] /\ runs' = [runs EXCEPT ![r] = runs[r]]
  BY <1>1 DEF Proceed, CallsOK
<1> QED BY <1>5, <1>6, OneRequest

\* A request is received.
LEMMA ReceiveStep ==
    ASSUME CallsOK, NEW r \in Requests, NEW c, NEW first \in {"entry", "list", "inventory"},
           Receive(r, c, first),
           InvalidInput(c) \/ (c \in CallRecords /\ Inputs(c)), c.op \in Ops, c.answer = None,
           first = "entry" => c.op \in OfEntry, first = "list" => c.op \in OfList
    PROVE  CallsOK'
<1>1. calls[r] = None /\ runs[r] = None
  BY RecordsAreRows DEF CallsOK, ReqInv, Receive
<1>2. runs' = [runs EXCEPT ![r] = None] /\ onHand' = onHand
  BY <1>1 DEF Receive, CallsOK, Around, World, stock
<1>3. PICK h \in {Owner, Other, None} :
         LET refusal == IF h = None THEN "forbidden"
                        ELSE IF InvalidInput(c) THEN "invalid_input" ELSE None
         IN  calls' = [calls EXCEPT ![r] =
                IF refusal = None THEN [c EXCEPT !.household = h, !.stage = first]
                ELSE [Blank EXCEPT !.answer = refusal]]
  BY DEF Receive
<1>4. "forbidden" # None /\ "invalid_input" # None
  BY GroceryAssumption DEF GroceryAssumption, NoNull, Errors
<1>5. ASSUME NEW a \in {"forbidden", "invalid_input"},
             calls' = [calls EXCEPT ![r] = [Blank EXCEPT !.answer = a]]
      PROVE  CallsOK'
  <2>1. PICK d : d = [Blank EXCEPT !.answer = a]
    OBVIOUS
  <2>2. d \in CallRecords /\ d.stage = "answered" /\ d.answer = a /\ d.op = None
    BY <2>1 DEF Blank, CallRecords, Stages, Errors
  <2>3. ReqInv(d, None)
    BY <1>4, <2>2 DEF ReqInv, Carried, Going, InHand
  <2>4. calls' = [calls EXCEPT ![r] = d]
    BY <1>5, <2>1
  <2> QED BY <1>2, <2>3, <2>4, OneRequest
<1>6. ASSUME ~InvalidInput(c), h # None,
             calls' = [calls EXCEPT ![r] = [c EXCEPT !.household = h, !.stage = first]]
      PROVE  CallsOK'
  <2>1. PICK d : d = [c EXCEPT !.household = h, !.stage = first]
    OBVIOUS
  <2>2. /\ d \in CallRecords /\ d.stage = first /\ d.answer = None /\ d.op = c.op
        /\ Inputs(d)
    <3>1. c \in CallRecords /\ Inputs(c) /\ first \in Stages
      BY <1>6 DEF Stages
    <3>2. d = Admitted(c, h, first)
      BY <2>1, Zenon DEF Admitted
    <3>3. /\ d \in CallRecords /\ d.stage = first /\ d.answer = c.answer /\ d.op = c.op
          /\ Inputs(d)
      BY <3>1, <3>2, CallCarries
    <3> QED BY <3>3
  <2>3. Carried(d)
    BY <2>2 DEF Carried, Going, InHand, Generating, OfList, OfEntry
  <2>4. ReqInv(d, None)
    BY <2>2, <2>3 DEF ReqInv, Going, InHand
  <2>5. calls' = [calls EXCEPT ![r] = d]
    BY <1>6, <2>1
  <2> QED BY <1>2, <2>4, <2>5, OneRequest
<1> QED BY <1>3, <1>4, <1>5, <1>6

\* The stock, when nobody touches it.
LEMMA StockAlone ==
    ASSUME Shelf!Init, UNCHANGED stock
    PROVE  Shelf!Init'
BY DEF Shelf!Init, Shelf!TypeOK, Shelf!Known, stock

\* What a handler does.
LEMMA HandleStep ==
    ASSUME IInv, NEW r \in Requests, Handle(r)
    PROVE  Kept
<1> USE DEF InvalidInput, Inputs, CallRecords, Blank, Ops, OfList, OfEntry, Stages
<1>1. CallsOK
  BY DEF IInv
<1>2. CallsOK'
  <2>1. CASE HandleCreateList(r)
    <3>1. PICK n \in Names \union {NoName, Spaces} :
             Receive(r, [Blank EXCEPT !.op = "CreateList", !.name = n], "inventory")
      BY <2>1 DEF HandleCreateList
    <3> QED BY <1>1, <3>1, ReceiveStep
  <2>2. CASE HandleListByInventory(r)
    BY <1>1, <2>2, ReceiveStep DEF HandleListByInventory
  <2>3. CASE HandleGetList(r)
    <3>1. PICK l \in Lists :
             Receive(r, [Blank EXCEPT !.op = "GetList", !.list = l], "list")
      BY <2>3 DEF HandleGetList
    <3> QED BY <1>1, <3>1, ReceiveStep
  <2>4. CASE HandleCompleteList(r)
    <3>1. PICK l \in Lists :
             Receive(r, [Blank EXCEPT !.op = "CompleteList", !.list = l], "list")
      BY <2>4 DEF HandleCompleteList
    <3> QED BY <1>1, <3>1, ReceiveStep
  <2>5. CASE HandleArchiveList(r)
    <3>1. PICK l \in Lists :
             Receive(r, [Blank EXCEPT !.op = "ArchiveList", !.list = l], "list")
      BY <2>5 DEF HandleArchiveList
    <3> QED BY <1>1, <3>1, ReceiveStep
  <2>6. CASE HandleRenameList(r)
    <3>1. PICK l \in Lists, n \in Names \union {NoName, Spaces} :
             Receive(r, [Blank EXCEPT !.op = "RenameList", !.list = l, !.name = n], "list")
      BY <2>6 DEF HandleRenameList
    <3> QED BY <1>1, <3>1, ReceiveStep
  <2>7. CASE HandleDeleteList(r)
    <3>1. PICK l \in Lists :
             Receive(r, [Blank EXCEPT !.op = "DeleteList", !.list = l], "list")
      BY <2>7 DEF HandleDeleteList
    <3> QED BY <1>1, <3>1, ReceiveStep
  <2>8. CASE HandleAutoGenerate(r)
    BY <1>1, <2>8, ReceiveStep DEF HandleAutoGenerate
  <2>9. CASE HandleAddItem(r)
    <3>1. PICK l \in Lists, i \in Items \union {BadId, None}, q \in Quantities, o \in Orders,
              n \in {NoName, None} :
             Receive(r, [Blank EXCEPT !.op = "AddItem", !.list = l, !.item = i, !.quantity = q,
                                      !.order = o, !.name = n], "list")
      BY <2>9 DEF HandleAddItem
    <3> QED BY <1>1, <3>1, ReceiveStep
  <2>10. CASE HandleListItems(r)
    <3>1. PICK l \in Lists :
             Receive(r, [Blank EXCEPT !.op = "ListItems", !.list = l], "list")
      BY <2>10 DEF HandleListItems
    <3> QED BY <1>1, <3>1, ReceiveStep
  <2>11. CASE HandleUpdateItemStatus(r)
    <3>1. PICK l \in Lists, e \in Entries, s \in EntryStatuses \union {"?"} :
             Receive(r, [Blank EXCEPT !.op = "UpdateItemStatus", !.list = l, !.entry = e,
                                      !.status = s], "entry")
      BY <2>11 DEF HandleUpdateItemStatus
    <3> QED BY <1>1, <3>1, ReceiveStep, GroceryAssumption DEF GroceryAssumption, NoNull
  <2>12. CASE HandleReorderItem(r)
    <3>1. PICK l \in Lists, e \in Entries, o \in Orders :
             Receive(r, [Blank EXCEPT !.op = "ReorderItem", !.list = l, !.entry = e,
                                      !.order = o], "entry")
      BY <2>12 DEF HandleReorderItem
    <3> QED BY <1>1, <3>1, ReceiveStep
  <2>13. CASE HandleDeleteItem(r)
    <3>1. PICK l \in Lists, e \in Entries :
             Receive(r, [Blank EXCEPT !.op = "DeleteItem", !.list = l, !.entry = e], "entry")
      BY <2>13 DEF HandleDeleteItem
    <3> QED BY <1>1, <3>1, ReceiveStep
  <2> QED BY <2>1, <2>2, <2>3, <2>4, <2>5, <2>6, <2>7, <2>8, <2>9, <2>10, <2>11,
            <2>12, <2>13 DEF Handle
<1>3. UNCHANGED World /\ UNCHANGED tables
  <2>1. ASSUME NEW c, NEW first, Receive(r, c, first)
        PROVE  UNCHANGED World /\ UNCHANGED tables
    BY <2>1 DEF Receive, Around
  <2> QED
    BY <2>1 DEF Handle, HandleCreateList, HandleListByInventory, HandleGetList,
       HandleCompleteList, HandleArchiveList, HandleRenameList, HandleDeleteList,
       HandleAutoGenerate, HandleAddItem, HandleListItems, HandleUpdateItemStatus,
       HandleReorderItem, HandleDeleteItem
<1> QED BY <1>2, <1>3, TablesAlone, StockAlone DEF IInv, Kept, TablesKept, World, tables, stock

\* A positive quantity is stored as a natural number; it may be 0.
LEMMA Rounded ==
    ASSUME NEW q \in Int, q > 0
    PROVE  AsNumeric(q) \in Nat
BY DEF AsNumeric

\* The numbers a request may carry, as they are stored.
LEMMA Numbers ==
    /\ \A o \in Orders : o \in Int
    /\ \A q \in Quantities : (IF q <= 0 THEN One ELSE AsNumeric(q)) \in Nat
<1>1. /\ \A o \in Orders : o \in Int
      /\ \A q \in Quantities : q \in Int
      /\ One \in Nat
  BY GroceryAssumption DEF GroceryAssumption
<1>2. \A q \in Quantities : ~(q <= 0) => AsNumeric(q) \in Nat
  BY <1>1, Rounded
<1> QED BY <1>1, <1>2

\* A step of a request that leaves the stock alone.
LEMMA RequestKeeps ==
    ASSUME IInv, UNCHANGED World, TablesKept, CallsOK'
    PROVE  Kept
BY StockAlone DEF IInv, Kept, TablesKept, World, stock

\* A request at a stage before or beside AutoGenerate's items has no run.
LEMMA NoRun ==
    ASSUME CallsOK, NEW r \in Requests,
           NEW stage \in {"entry", "list", "inventory", "statement", "relist", "snapshot"},
           Pending(r, stage)
    PROVE  /\ calls[r] # None /\ runs[r] = None /\ calls[r].stage = stage
           /\ calls[r] \in CallRecords /\ Carried(calls[r]) /\ Inputs(calls[r])
BY CallParts DEF Pending, Going, InHand, Carried

\* The checks of the service.
LEMMA CheckStep ==
    ASSUME IInv, NEW r \in Requests, Check(r)
    PROVE  Kept
<1>1. CallsOK
  BY DEF IInv
<1>2. CallsOK'
  <2>1. CASE AssertItemScope(r)
    <3>1. runs[r] = None /\ calls[r] # None /\ calls[r].stage = "entry" /\ Carried(calls[r])
      BY <1>1, <2>1, NoRun DEF AssertItemScope
    <3>2. UNCHANGED <<runs, onHand>>
      BY <2>1 DEF AssertItemScope, Around, World, stock
    <3>3. calls[r].op \in OfList /\ calls[r].op # "AutoGenerate"
      BY <3>1 DEF Carried, OfList, OfEntry
    <3>4. Answer(r, "not_found") \/ Proceed(r, "list")
      BY <2>1 DEF AssertItemScope
    <3>5. CASE Answer(r, "not_found")
      BY <1>1, <3>1, <3>2, <3>5, AnswerStep DEF Errors
    <3>6. CASE Proceed(r, "list")
      BY <1>1, <3>1, <3>2, <3>3, <3>6, ProceedStep
    <3> QED BY <3>4, <3>5, <3>6
  <2>2. CASE AssertListScope(r)
    <3>1. runs[r] = None /\ calls[r] # None /\ calls[r].stage = "list"
      BY <1>1, <2>2, NoRun DEF AssertListScope
    <3>2. UNCHANGED <<runs, onHand>>
      BY <2>2 DEF AssertListScope, Around, World, stock
    <3>3. Answer(r, "not_found") \/ Proceed(r, "inventory")
      BY <2>2 DEF AssertListScope
    <3>4. CASE Answer(r, "not_found")
      BY <1>1, <3>1, <3>2, <3>4, AnswerStep DEF Errors
    <3>5. CASE Proceed(r, "inventory")
      BY <1>1, <3>1, <3>2, <3>5, ProceedStep
    <3> QED BY <3>3, <3>4, <3>5
  <2>3. CASE AssertInventoryScope(r)
    <3>1. runs[r] = None /\ calls[r] # None /\ calls[r].stage = "inventory"
      BY <1>1, <2>3, NoRun DEF AssertInventoryScope
    <3>2. UNCHANGED <<runs, onHand>>
      BY <2>3 DEF AssertInventoryScope, Around, World, stock
    <3>3. CASE \E a \in {"ok", "not_found"} : Answer(r, a)
      BY <1>1, <3>1, <3>2, <3>3, AnswerStep DEF Errors
    <3>4. CASE calls[r].op = "AutoGenerate" /\ Proceed(r, "relist")
      BY <1>1, <3>1, <3>2, <3>4, ProceedStep
    <3>5. CASE calls[r].op # "AutoGenerate" /\ Proceed(r, "statement")
      BY <1>1, <3>1, <3>2, <3>5, ProceedStep
    <3> QED BY <2>3, <3>3, <3>4, <3>5 DEF AssertInventoryScope
  <2> QED BY <2>1, <2>2, <2>3 DEF Check
<1>3. UNCHANGED Around
  BY DEF Check, AssertItemScope, AssertListScope, AssertInventoryScope
<1> QED BY <1>2, <1>3, TablesAlone, RequestKeeps DEF IInv, Around, World, tables, stock

\* A statement was executed, and the answer, or its loss, is the request's last step.
LEMMA SettleStep ==
    ASSUME IInv, NEW r \in Requests, Pending(r, "statement"), NEW o \in Outcomes,
           Settle(r, o), TablesKept
    PROVE  Kept
<1>1. CallsOK /\ runs[r] = None /\ calls[r] # None
  BY NoRun DEF IInv
<1>2. PICK a \in {o, "internal"} : Answer(r, a)
  BY DEF Settle
<1>3. a \in {"ok"} \union Errors
  BY <1>2 DEF Outcomes, Errors
<1>4. UNCHANGED World /\ runs' = runs
  BY DEF Settle
<1>5. CallsOK'
  BY <1>1, <1>2, <1>3, <1>4, AnswerStep DEF World, stock
<1> QED BY <1>4, <1>5, RequestKeeps

\* The statements of the service.
LEMMA ServeStep ==
    ASSUME IInv, NEW r \in Requests, Serve(r)
    PROVE  Kept
<1>1. CallsOK /\ TablesOK
  BY DEF IInv
<1>2. ASSUME Pending(r, "statement")
      PROVE  calls[r] \in CallRecords /\ Inputs(calls[r]) /\ runs[r] = None /\ calls[r] # None
  BY <1>1, <1>2, NoRun
<1>3. CASE Read(r) \/ DatabaseFails(r)
  <2>1. UNCHANGED Around /\ runs' = runs /\ calls[r] # None
    BY <1>3 DEF Read, DatabaseFails, Running, Pending
  <2>2. \E a \in {"ok", "internal"} : Answer(r, a) /\ (a = "ok" => runs[r] = None)
    BY <1>2, <1>3 DEF Read, DatabaseFails, Running
  <2>3. CallsOK'
    BY <1>1, <2>1, <2>2, AnswerStep DEF Errors, Around, World, stock
  <2> QED BY <1>1, <2>1, <2>3, TablesAlone, RequestKeeps DEF Around, World, tables, stock
<1>4. CASE ServeCreateList(r)
  <2>1. PICK l \in Lists, o \in Outcomes : CreateList(l, calls[r].name, o) /\ Settle(r, o)
    BY <1>4 DEF ServeCreateList
  <2>2. Pending(r, "statement") /\ calls[r].op = "CreateList"
    BY <1>4 DEF ServeCreateList, Running
  <2>3. calls[r].name \in ListNames
    BY <1>2, <2>2 DEF Inputs, ListNames
  <2>4. TablesKept
    BY <1>1, <2>1, <2>3, CreateListKeeps DEF Settle
  <2> QED BY <2>1, <2>2, <2>4, SettleStep
<1>5. CASE ServeCompleteList(r)
  <2>1. PICK o \in Outcomes :
           UpdateListStatus(calls[r].list, "completed", "recently", o) /\ Settle(r, o)
    BY <1>5 DEF ServeCompleteList
  <2>2. Pending(r, "statement") /\ calls[r].op = "CompleteList"
    BY <1>5 DEF ServeCompleteList, Running
  <2>3. calls[r].list \in Lists
    BY <1>2, <2>2 DEF Inputs, OfList
  <2>4. TablesKept
    BY <1>1, <2>1, <2>3, CompleteListKeeps DEF Settle
  <2> QED BY <2>1, <2>2, <2>4, SettleStep
<1>6. CASE ServeArchiveList(r)
  <2>1. PICK o \in Outcomes : ArchiveList(calls[r].list, o) /\ Settle(r, o)
    BY <1>6 DEF ServeArchiveList
  <2>2. Running(r, "ArchiveList") /\ Pending(r, "statement") /\ calls[r].op = "ArchiveList"
    BY <1>6 DEF ServeArchiveList, Running
  <2>3. calls[r].list \in Lists
    BY <1>2, <2>2 DEF Inputs, OfList
  <2>4. TablesKept
    BY <1>1, <2>1, <2>2, <2>3, ArchiveListKeeps DEF Settle
  <2> QED BY <2>1, <2>2, <2>4, SettleStep
<1>7. CASE ServeRenameList(r)
  <2>1. PICK o \in Outcomes : RenameList(calls[r].list, calls[r].name, o) /\ Settle(r, o)
    BY <1>7 DEF ServeRenameList
  <2>2. Pending(r, "statement") /\ calls[r].op = "RenameList"
    BY <1>7 DEF ServeRenameList, Running
  <2>3. calls[r].list \in Lists /\ calls[r].name \in ListNames
    BY <1>2, <2>2 DEF Inputs, OfList, ListNames
  <2>4. TablesKept
    BY <1>1, <2>1, <2>3, RenameListKeeps DEF Settle
  <2> QED BY <2>1, <2>2, <2>4, SettleStep
<1>8. CASE ServeDeleteList(r)
  <2>1. PICK o \in Outcomes : DeleteList(calls[r].list, o) /\ Settle(r, o)
    BY <1>8 DEF ServeDeleteList
  <2>2. Pending(r, "statement") /\ calls[r].op = "DeleteList"
    BY <1>8 DEF ServeDeleteList, Running
  <2>3. calls[r].list \in Lists
    BY <1>2, <2>2 DEF Inputs, OfList
  <2>4. TablesKept
    BY <1>1, <2>1, <2>3, DeleteListKeeps DEF Settle
  <2> QED BY <2>1, <2>2, <2>4, SettleStep
<1>9. CASE ServeAddItem(r)
  <2>1. Pending(r, "statement") /\ calls[r].op = "AddItem"
    BY <1>9 DEF ServeAddItem, Running
  <2>2. /\ calls[r].list \in Lists /\ calls[r].item \in Items \union {BadId, None}
        /\ calls[r].quantity \in Quantities /\ calls[r].order \in Orders
        /\ runs[r] = None /\ calls[r] # None
    BY <1>2, <2>1 DEF Inputs, OfList, CallRecords
  <2>3. PICK quantity : quantity = IF calls[r].quantity <= 0 THEN One
                                    ELSE AsNumeric(calls[r].quantity)
    OBVIOUS
  <2>4. quantity \in Nat /\ calls[r].order \in Int
    BY <2>2, <2>3, Numbers
  <2>5. CASE Answer(r, "invalid_input") /\ UNCHANGED <<Around, runs>>
    <3>1. CallsOK'
      BY <1>1, <2>2, <2>5, AnswerStep DEF Errors, Around, World, stock
    <3> QED BY <1>1, <2>5, <3>1, TablesAlone, RequestKeeps DEF Around, World, tables, stock
  <2>6. CASE /\ calls[r].item # BadId
             /\ \E e \in Entries, o \in Outcomes :
                   /\ AddItem(e, calls[r].list, calls[r].item, quantity, calls[r].order, o)
                   /\ Settle(r, o)
    <3>1. PICK e \in Entries, o \in Outcomes :
             /\ AddItem(e, calls[r].list, calls[r].item, quantity, calls[r].order, o)
             /\ Settle(r, o)
      BY <2>6
    <3>2. calls[r].item \in Items \union {None}
      BY <2>2, <2>6
    <3>3. TablesKept
      BY <1>1, <2>2, <2>4, <3>1, <3>2, AddItemKeeps DEF Settle
    <3> QED BY <2>1, <3>1, <3>3, SettleStep
  <2> QED BY <1>9, <2>3, <2>5, <2>6 DEF ServeAddItem
<1>10. CASE ServeUpdateItemStatus(r)
  <2>1. PICK o \in Outcomes :
           UpdateItemStatus(calls[r].entry, calls[r].status, o) /\ Settle(r, o)
    BY <1>10 DEF ServeUpdateItemStatus
  <2>2. Pending(r, "statement") /\ calls[r].op = "UpdateItemStatus"
    BY <1>10 DEF ServeUpdateItemStatus, Running
  <2>3. calls[r].entry \in Entries /\ calls[r].status \in EntryStatuses
    BY <1>2, <2>2 DEF Inputs, OfEntry
  <2>4. TablesKept
    BY <1>1, <2>1, <2>3, UpdateItemStatusKeeps DEF Settle
  <2> QED BY <2>1, <2>2, <2>4, SettleStep
<1>11. CASE ServeReorderItem(r)
  <2>1. PICK o \in Outcomes : ReorderItem(calls[r].entry, calls[r].order, o) /\ Settle(r, o)
    BY <1>11 DEF ServeReorderItem
  <2>2. Pending(r, "statement") /\ calls[r].op = "ReorderItem"
    BY <1>11 DEF ServeReorderItem, Running
  <2>3. calls[r].entry \in Entries /\ calls[r].order \in Int
    BY <1>2, <2>2, Numbers DEF Inputs, OfEntry
  <2>4. TablesKept
    BY <1>1, <2>1, <2>3, ReorderItemKeeps DEF Settle
  <2> QED BY <2>1, <2>2, <2>4, SettleStep
<1>12. CASE ServeDeleteItem(r)
  <2>1. PICK o \in Outcomes : DeleteItem(calls[r].entry, o) /\ Settle(r, o)
    BY <1>12 DEF ServeDeleteItem
  <2>2. Pending(r, "statement") /\ calls[r].op = "DeleteItem"
    BY <1>12 DEF ServeDeleteItem, Running
  <2>3. calls[r].entry \in Entries
    BY <1>2, <2>2 DEF Inputs, OfEntry
  <2>4. TablesKept
    BY <1>1, <2>1, <2>3, DeleteItemKeeps DEF Settle
  <2> QED BY <2>1, <2>2, <2>4, SettleStep
<1> QED
  BY <1>3, <1>4, <1>5, <1>6, <1>7, <1>8, <1>9, <1>10, <1>11, <1>12 DEF Serve

--------------------------------------------------------------------------------
(* A run of AutoGenerate, item by item.                                     *)

\* The items are read (Snapshot).
LEMMA RunBegins ==
    ASSUME Shelf!Init, NEW live, live = {i \in Items : status[i] = "live"}, NEW run,
           run = [asked |-> [i \in live |-> wanted[i]], todo |-> live, at |-> None,
                  read |-> None, next |-> 0, wrote |-> {},
                  seen |-> [i \in Items |-> {onHand[i]}]]
    PROVE  Sound(run)
<1>1. /\ run.asked = [i \in live |-> wanted[i]] /\ run.todo = live /\ run.at = None
      /\ run.read = None /\ run.next = 0 /\ run.wrote = {}
      /\ run.seen = [i \in Items |-> {onHand[i]}]
  OBVIOUS
<1>2. /\ IsFiniteSet(Items) /\ Cardinality(Items) \in Nat
      /\ Cardinality(live) \in Nat /\ Cardinality(live) <= Cardinality(Items)
      /\ IsFiniteSet({}) /\ Cardinality({}) = 0
  BY FS_CardinalityType, FS_Subset, FS_EmptySet, GroceryAssumption DEF GroceryAssumption
<1>3. \A i \in live : wanted[i] \in Targets
  BY DEF Shelf!Init, Shelf!TypeOK, Shelf!Known
<1>4. run \in RunRecords
  <2>1. run.asked \in [live -> Targets] /\ live \in SUBSET Items
    BY <1>1, <1>3
  <2>2. run.asked \in UNION {[S -> Targets] : S \in SUBSET Items}
    BY <2>1
  <2>3. run.seen \in [Items -> SUBSET Levels]
    BY <1>1 DEF Shelf!Init, Shelf!TypeOK
  <2>4. 0 \in 0..Cardinality(Items)
    BY <1>2
  <2>5. run.wrote \in SUBSET EntryRecords(Lists, Items, Most)
    BY <1>1
  <2> HIDE DEF EntryRecords
  <2> QED BY <1>1, <2>1, <2>2, <2>3, <2>4, <2>5 DEF RunRecords
<1>5. Written(run)
  BY <1>1, <1>2 DEF Written
<1>6. /\ Covered(run) /\ Counted(run)
      /\ run.todo \subseteq DOMAIN run.asked /\ run.at \notin run.todo
  BY <1>1, <1>2, GroceryAssumption DEF Covered, Counted, GroceryAssumption
<1> QED BY <1>4, <1>5, <1>6 DEF Sound

Taken(run, i) == [run EXCEPT !.todo = @ \ {i}, !.at = i]

\* The next item is taken in hand (NextItem).
LEMMA RunTakes ==
    ASSUME NEW run, Sound(run), run.at = None, NEW i \in run.todo, NEW new,
           new = Taken(run, i)
    PROVE  /\ Sound(new) /\ new.at = i /\ new.asked = run.asked
           /\ new.seen = run.seen /\ i \in DOMAIN run.asked
<1>1. /\ run \in RunRecords /\ i \in Items /\ i # None /\ i \in DOMAIN run.asked
      /\ None \notin DOMAIN run.asked /\ None \notin run.todo
  BY RunParts, GroceryAssumption DEF Sound, GroceryAssumption
<1>2. /\ new.asked = run.asked /\ new.todo = run.todo \ {i} /\ new.at = i
      /\ new.read = run.read /\ new.next = run.next /\ new.wrote = run.wrote
      /\ new.seen = run.seen /\ new \in RunRecords
  BY <1>1 DEF RunRecords, Taken
<1>3. Written(new) /\ Covered(new)
  <2>1. Written(new)
    BY <1>1, <1>2 DEF Sound, Written
  <2>2. Covered(new)
    BY <1>1, <1>2 DEF Sound, Covered
  <2> QED BY <2>1, <2>2
<1>4. Counted(new)
  <2>1. IsFiniteSet(run.todo)
    BY <1>1, RunParts
  <2>2. Cardinality(run.todo \ {i}) = Cardinality(run.todo) - 1
    BY <2>1, FS_RemoveElement
  <2> QED BY <1>1, <1>2, <2>2, RunParts DEF Sound, Counted
<1> QED BY <1>1, <1>2, <1>3, <1>4 DEF Sound

\* There is enough of the item in hand (EffectiveQuantity).
LEMMA RunPasses ==
    ASSUME NEW run, Sound(run), run.at \in DOMAIN run.asked, NEW new,
           new = [run EXCEPT !.at = None], NEW q \in run.seen[run.at], q >= run.asked[run.at]
    PROVE  Sound(new) /\ new.at = None /\ new.asked = run.asked /\ new.seen = run.seen
<1>1. run \in RunRecords /\ None \notin DOMAIN run.asked /\ run.at # None
  BY RunParts, GroceryAssumption DEF Sound, GroceryAssumption
<1>2. /\ new.asked = run.asked /\ new.todo = run.todo /\ new.at = None
      /\ new.read = run.read /\ new.next = run.next /\ new.wrote = run.wrote
      /\ new.seen = run.seen /\ new \in RunRecords
  BY <1>1 DEF RunRecords
<1>3. Written(new)
  BY <1>1, <1>2 DEF Sound, Written
<1>4. Covered(new)
  BY <1>2 DEF Sound, Covered
<1>5. Counted(new)
  BY <1>1, <1>2, RunParts DEF Sound, Counted
<1> QED BY <1>1, <1>2, <1>3, <1>4, <1>5 DEF Sound

\* The item in hand is short, and what is on hand was read (EffectiveQuantity).
LEMMA RunReads ==
    ASSUME NEW run, Sound(run), NEW q \in Levels, NEW new, new = [run EXCEPT !.read = q]
    PROVE  /\ Sound(new) /\ new.at = run.at /\ new.read = q /\ new.asked = run.asked
           /\ new.todo = run.todo /\ new.seen = run.seen
<1>1. /\ new.asked = run.asked /\ new.todo = run.todo /\ new.at = run.at
      /\ new.read = q /\ new.next = run.next /\ new.wrote = run.wrote
      /\ new.seen = run.seen /\ new \in RunRecords
  BY DEF RunRecords, Sound
<1> QED BY <1>1 DEF Sound, Written, Covered, Counted

\* The next place is one of sort_order's, and the shortfall is a quantity.
LEMMA RunFits ==
    ASSUME NEW run, Sound(run), run.at \in DOMAIN run.asked,
           run.read \in run.seen[run.at], run.read < run.asked[run.at]
    PROVE  /\ run.next \in 0..(IntHalf - 1) /\ run.next \in Int
           /\ run.next + 1 <= Cardinality(Items)
           /\ run.asked[run.at] - run.read \in Nat /\ run.asked[run.at] - run.read > 0
           /\ run.at \in Items
<1>1. run \in RunRecords /\ run.at \in Items /\ run.at # None
  BY RunParts, GroceryAssumption DEF Sound, GroceryAssumption
<1>2. run.next + Cardinality(run.todo) + 1 <= Cardinality(Items)
  BY <1>1 DEF Sound, Counted
<1>3. /\ run.next \in Nat /\ Cardinality(run.todo) \in Nat /\ Cardinality(Items) \in Nat
      /\ run.asked[run.at] \in Targets /\ run.asked[run.at] \in Int
      /\ run.read \in Levels
  BY <1>1, RunParts
<1>4. IntHalf \in Nat /\ Cardinality(Items) <= IntHalf /\ run.read \in Int
  BY <1>3, GroceryAssumption DEF GroceryAssumption
<1> QED BY <1>1, <1>2, <1>3, <1>4

\* The shortfall is on the list (AddShortfall).
LEMMA RunAdds ==
    ASSUME NEW run, Sound(run), run.at \in DOMAIN run.asked,
           run.read \in run.seen[run.at], run.read < run.asked[run.at],
           NEW w \in EntryRecords(Lists, Items, Most), w.item = run.at, w.order = run.next,
           w.quantity = run.asked[run.at] - run.read, NEW new,
           new = [run EXCEPT !.at = None, !.read = None, !.next = @ + 1,
                             !.wrote = @ \union {w}]
    PROVE  Sound(new) /\ new.at = None /\ new.asked = run.asked /\ new.seen = run.seen
<1>1. /\ run \in RunRecords /\ None \notin DOMAIN run.asked /\ run.at # None
      /\ run.todo \subseteq DOMAIN run.asked
  BY RunParts, GroceryAssumption DEF Sound, GroceryAssumption
<1>2. run.next + 1 \in 0..Cardinality(Items) /\ run.next \in Nat
  BY <1>1, RunFits, RunParts
<1>3. /\ new.asked = run.asked /\ new.todo = run.todo /\ new.at = None
      /\ new.read = None /\ new.next = run.next + 1 /\ new.wrote = run.wrote \union {w}
      /\ new.seen = run.seen /\ new \in RunRecords
  BY <1>1, <1>2 DEF RunRecords
<1>4. \A v \in run.wrote : v.item # run.at
  BY DEF Sound, Written
<1>5. Written(new)
  <2>1. \A v \in new.wrote :
          /\ v.item \in DOMAIN new.asked /\ v.item \notin new.todo /\ v.item # new.at
          /\ v.quantity > 0
          /\ \E q \in new.seen[v.item] : v.quantity = new.asked[v.item] - q
    <3>1. ASSUME NEW v \in run.wrote
          PROVE  /\ v.item \in DOMAIN run.asked /\ v.item \notin run.todo
                 /\ v.quantity > 0
                 /\ \E q \in run.seen[v.item] : v.quantity = run.asked[v.item] - q
      BY DEF Sound, Written
    <3>2. run.at \notin run.todo
      BY DEF Sound
    <3>3. w.quantity > 0
      BY RunFits
    <3> QED BY <1>1, <1>3, <3>1, <3>2, <3>3
  <2>2. \A w1, w2 \in new.wrote : w1.item = w2.item => w1 = w2
    BY <1>3, <1>4 DEF Sound, Written
  <2>3. {v.order : v \in new.wrote} = 0..(new.next - 1)
    <3>1. {v.order : v \in run.wrote} = 0..(run.next - 1)
      BY DEF Sound, Written
    <3>2. {v.order : v \in new.wrote} = {v.order : v \in run.wrote} \union {run.next}
      BY <1>3
    <3>3. (0..(run.next - 1)) \union {run.next} = 0..(new.next - 1)
      BY <1>2, <1>3
    <3> QED BY <3>1, <3>2, <3>3
  <2>4. IsFiniteSet(new.wrote) /\ new.next = Cardinality(new.wrote)
    <3>1. IsFiniteSet(run.wrote) /\ run.next = Cardinality(run.wrote) /\ w \notin run.wrote
      BY <1>4 DEF Sound, Written
    <3>2. /\ IsFiniteSet(run.wrote \union {w})
          /\ Cardinality(run.wrote \union {w}) = Cardinality(run.wrote) + 1
      BY <3>1, FS_AddElement
    <3> QED BY <1>3, <3>1, <3>2
  <2> QED BY <2>1, <2>2, <2>3, <2>4 DEF Written
<1>6. Covered(new)
  <2> SUFFICES ASSUME NEW i \in DOMAIN run.asked, i \notin run.todo
               PROVE (\E q \in run.seen[i] : q >= run.asked[i]) \/ (\E v \in new.wrote : v.item = i)
    BY <1>3 DEF Covered
  <2>1. CASE i = run.at
    BY <1>3, <2>1
  <2>2. CASE i # run.at
    BY <1>3, <2>2 DEF Sound, Covered
  <2> QED BY <2>1, <2>2
<1>7. Counted(new)
  BY <1>1, <1>3, RunParts DEF Sound, Counted
<1> QED BY <1>1, <1>3, <1>5, <1>6, <1>7 DEF Sound

\* A request that goes through items moves on.
LEMMA GoesStep ==
    ASSUME CallsOK, NEW r \in Requests, calls[r] # None, NEW from \in Generating,
           calls[r].stage = from, NEW stage \in Going \union {"new_list"}, NEW c, NEW run,
           c = Moved(calls[r], stage) \/ (\E l \in Lists : c = OnList(calls[r], stage, l)),
           stage # "new_list" => calls[r].list \in Lists \/ c.list \in Lists,
           calls' = [calls EXCEPT ![r] = c],
           runs' = [runs EXCEPT ![r] = run], onHand' = onHand,
           Sound(run), \A i \in Items : onHand[i] \in run.seen[i],
           stage \in {"new_list", "next_item"} => run.at = None,
           stage \in InHand => run.at \in DOMAIN run.asked,
           stage = "add" => run.read \in run.seen[run.at] /\ run.read < run.asked[run.at]
    PROVE  CallsOK'
<1>1. /\ calls[r] \in CallRecords /\ Carried(calls[r]) /\ calls[r].answer = None
      /\ calls[r].op = "AutoGenerate"
  BY CallParts DEF Generating, Carried
<1>2. /\ c \in CallRecords /\ c.stage = stage /\ c.answer = None /\ c.op = "AutoGenerate"
      /\ stage # "new_list" => c.list \in Lists
  <2>1. stage \in Stages
    BY DEF Stages, Generating, Going, InHand
  <2>2. CASE c = Moved(calls[r], stage)
    BY <1>1, <2>1, <2>2, CallMoved
  <2>3. ASSUME NEW l \in Lists, c = OnList(calls[r], stage, l)
        PROVE  /\ c \in CallRecords /\ c.stage = stage /\ c.answer = None
               /\ c.op = "AutoGenerate" /\ c.list \in Lists
    BY <1>1, <2>1, <2>3, CallOnList
  <2> QED BY <2>2, <2>3
<1>3. Carried(c)
  BY <1>2 DEF Carried, Inputs, Generating, Going, InHand, OfList, OfEntry
<1>4. "ok" # None
  BY GroceryAssumption DEF GroceryAssumption, NoNull
<1>5. RunInv(c, run)
  BY <1>2, <1>4 DEF RunInv, Progress, Seen
<1>6. run # None
  BY RecordsAreRows DEF Sound
<1>7. ReqInv(c, run)
  BY <1>2, <1>3, <1>5, <1>6 DEF ReqInv, Going, InHand
<1> QED BY <1>7, OneRequest

\* A request that goes through items ends with an error.
LEMMA EndsStep ==
    ASSUME CallsOK, NEW r \in Requests, calls[r] # None, NEW a \in Errors, Answer(r, a),
           NEW run, runs' = [runs EXCEPT ![r] = run], onHand' = onHand, Sound(run)
    PROVE  CallsOK'
<1>1. PICK c : c = [Blank EXCEPT !.answer = a]
  OBVIOUS
<1>2. c \in CallRecords /\ c.stage = "answered" /\ c.answer = a /\ c.op = None
  BY <1>1 DEF Blank, CallRecords, Stages
<1>3. a # None /\ a # "ok" /\ run # None
  BY RecordsAreRows, GroceryAssumption DEF GroceryAssumption, NoNull, Errors, Sound
<1>4. RunInv(c, run)
  BY <1>2, <1>3 DEF RunInv, Progress, Seen, InHand
<1>5. ReqInv(c, run)
  BY <1>2, <1>3, <1>4 DEF ReqInv, Carried, Going, InHand
<1>6. calls' = [calls EXCEPT ![r] = c]
  BY <1>1 DEF Answer
<1> QED BY <1>5, <1>6, OneRequest

\* A request at a stage of the items has a run.
LEMMA HasRun ==
    ASSUME CallsOK, NEW r \in Requests, NEW stage \in Going \union {"new_list"},
           Pending(r, stage)
    PROVE  /\ calls[r] # None /\ calls[r].stage = stage /\ stage \in Generating
           /\ Sound(runs[r]) /\ Progress(calls[r], runs[r])
           /\ \A i \in Items : onHand[i] \in runs[r].seen[i]
           /\ stage # "new_list" => calls[r].list \in Lists
           /\ runs' = runs => runs' = [runs EXCEPT ![r] = runs[r]]
<1>1. calls[r] # None /\ calls[r].stage = stage /\ stage \in Generating /\ stage # "answered"
  BY DEF Pending, Going, InHand, Generating
<1>2. RunInv(calls[r], runs[r]) /\ Carried(calls[r])
  BY <1>1, CallParts
<1> QED
  BY <1>1, <1>2, RunParts DEF RunInv, Sound, Seen, Carried, CallsOK

\* AutoGenerate.
LEMMA AutoGenerateStep ==
    ASSUME IInv, NEW r \in Requests, AutoGenerate(r)
    PROVE  Kept
<1>1. CallsOK /\ TablesOK
  BY DEF IInv
<1>2. CASE RelistScope(r)
  <2>1. UNCHANGED Around /\ runs' = runs
    BY <1>2 DEF RelistScope
  <2>2. calls[r] # None /\ runs[r] = None /\ calls[r].stage = "relist" /\ Carried(calls[r])
    BY <1>1, <1>2, NoRun DEF RelistScope
  <2>3. calls[r].op = "AutoGenerate"
    BY <2>2 DEF Carried, Generating
  <2>4. CASE Answer(r, "not_found")
    <3>1. CallsOK'
      BY <1>1, <2>1, <2>2, <2>4, AnswerStep DEF Errors, Around, World, stock
    <3> QED BY <1>1, <2>1, <3>1, TablesAlone, RequestKeeps DEF Around, World, tables, stock
  <2>5. CASE Proceed(r, "snapshot")
    <3>1. CallsOK'
      BY <1>1, <2>1, <2>2, <2>3, <2>5, ProceedStep DEF Around, World, stock
    <3> QED BY <1>1, <2>1, <3>1, TablesAlone, RequestKeeps DEF Around, World, tables, stock
  <2> QED BY <1>2, <2>4, <2>5 DEF RelistScope
<1>3. CASE Snapshot(r)
  <2>1. PICK live : live = {i \in Items : status[i] = "live"}
    OBVIOUS
  <2>2. PICK run : run = [asked |-> [i \in live |-> wanted[i]], todo |-> live, at |-> None,
                          read |-> None, next |-> 0, wrote |-> {},
                          seen |-> [i \in Items |-> {onHand[i]}]]
    OBVIOUS
  <2>3. Sound(run)
    BY <2>1, <2>2, RunBegins DEF IInv
  <2>4. run.at = None /\ \A i \in Items : onHand[i] \in run.seen[i]
    BY <2>2
  <2>5. runs' = [runs EXCEPT ![r] = run] /\ UNCHANGED Around
    BY <1>3, <2>1, <2>2 DEF Snapshot, Hold
  <2>6. calls[r] # None /\ calls[r].stage = "snapshot"
    BY <1>1, <1>3, NoRun DEF Snapshot
  <2>7. PICK c : c = Moved(calls[r], "new_list")
    OBVIOUS
  <2>8. calls' = [calls EXCEPT ![r] = c]
    BY <1>3, <2>7 DEF Snapshot, Proceed, Moved
  <2>9. onHand' = onHand
    BY <2>5 DEF Around, World, stock
  <2>10. "snapshot" \in Generating /\ "new_list" \notin InHand
    BY DEF Generating, InHand
  <2>11. CallsOK'
    BY <1>1, <2>3, <2>4, <2>5, <2>6, <2>7, <2>8, <2>9, <2>10, GoesStep
  <2> QED BY <1>1, <2>5, <2>11, TablesAlone, RequestKeeps DEF Around, World, tables, stock
<1>4. CASE NewList(r)
  <2>1. PICK l \in Lists, o \in Outcomes :
           /\ CreateList(l, AutoName, o)
           /\ \/ o = "ok" /\ calls' = [calls EXCEPT ![r].stage = "next_item", ![r].list = l]
              \/ Answer(r, "internal")
    BY <1>4 DEF NewList
  <2>2. UNCHANGED World /\ runs' = runs /\ onHand' = onHand
    BY <1>4 DEF NewList, World, stock
  <2>3. TablesKept
    BY <1>1, <2>1, <2>2, CreateListKeeps DEF ListNames
  <2>4. /\ calls[r] # None /\ calls[r].stage = "new_list" /\ Sound(runs[r])
        /\ Progress(calls[r], runs[r]) /\ \A i \in Items : onHand[i] \in runs[r].seen[i]
        /\ runs' = [runs EXCEPT ![r] = runs[r]] /\ "new_list" \in Generating
    BY <1>1, <1>4, <2>2, HasRun DEF NewList
  <2>5. runs[r].at = None
    BY <2>4 DEF Progress
  <2>6. CASE calls' = [calls EXCEPT ![r].stage = "next_item", ![r].list = l]
    <3>1. PICK c : c = OnList(calls[r], "next_item", l)
      OBVIOUS
    <3>2. calls' = [calls EXCEPT ![r] = c] /\ c.list \in Lists
      <4>1. calls' = [calls EXCEPT ![r] = c]
        BY <2>6, <3>1 DEF OnList
      <4>2. calls[r] \in CallRecords /\ "next_item" \in Stages
        BY <1>1, <2>4, CallParts DEF Stages, Generating
      <4> QED BY <3>1, <4>1, <4>2, CallOnList
    <3>3. "next_item" \in Going /\ "next_item" \notin InHand
      BY DEF Going, InHand
    <3>4. CallsOK'
      BY <1>1, <2>2, <2>4, <2>5, <3>1, <3>2, <3>3, GoesStep
    <3> QED BY <2>2, <2>3, <3>4, RequestKeeps
  <2>7. CASE Answer(r, "internal")
    <3>1. CallsOK'
      BY <1>1, <2>2, <2>4, <2>7, EndsStep DEF Errors
    <3> QED BY <2>2, <2>3, <3>1, RequestKeeps
  <2> QED BY <2>1, <2>6, <2>7
<1>5. CASE NextItem(r)
  <2>1. UNCHANGED Around /\ onHand' = onHand
    BY <1>5 DEF NextItem, Around, World, stock
  <2>2. /\ calls[r] # None /\ calls[r].stage = "next_item" /\ Sound(runs[r])
        /\ Progress(calls[r], runs[r]) /\ \A i \in Items : onHand[i] \in runs[r].seen[i]
        /\ calls[r].list \in Lists /\ "next_item" \in Generating
    <3>1. Pending(r, "next_item") /\ "next_item" \in Going
      BY <1>5 DEF NextItem, Going
    <3> QED BY <1>1, <3>1, HasRun
  <2>3. runs[r].at = None
    BY <2>2 DEF Progress
  <2>4. CallsOK'
    <3>1. CASE runs[r].todo = {} /\ Answer(r, "ok") /\ UNCHANGED runs
      BY <1>1, <2>1, <2>2, <2>3, <3>1, AnswerStep
    <3>2. CASE \E i \in runs[r].todo :
                  /\ Hold(r, [runs[r] EXCEPT !.todo = @ \ {i}, !.at = i])
                  /\ \/ status[i] # "live" /\ Answer(r, "not_found")
                     \/ status[i] = "live" /\ Proceed(r, "item_inventory")
      <4>1. PICK i \in runs[r].todo :
               /\ Hold(r, [runs[r] EXCEPT !.todo = @ \ {i}, !.at = i])
               /\ \/ Answer(r, "not_found")
                  \/ Proceed(r, "item_inventory")
        BY <3>2
      <4>2. PICK run : run = runs[r]
        OBVIOUS
      <4>3. PICK new : new = Taken(run, i)
        OBVIOUS
      <4>4. /\ Sound(new) /\ new.at = i /\ new.asked = run.asked
            /\ new.seen = run.seen /\ i \in DOMAIN run.asked
            /\ runs' = [runs EXCEPT ![r] = new]
        <5>1. Sound(run) /\ run.at = None /\ i \in run.todo
          BY <2>2, <2>3, <4>1, <4>2
        <5>2. /\ Sound(new) /\ new.at = i /\ new.asked = run.asked
              /\ new.seen = run.seen /\ i \in DOMAIN run.asked
          BY <4>3, <5>1, RunTakes
        <5>3. runs' = [runs EXCEPT ![r] = new]
          BY <4>1, <4>2, <4>3 DEF Hold, Taken
        <5> QED BY <5>2, <5>3
      <4>5. CASE Answer(r, "not_found")
        BY <1>1, <2>1, <2>2, <4>4, <4>5, EndsStep DEF Errors
      <4>6. CASE Proceed(r, "item_inventory")
        <5>1. PICK c : c = Moved(calls[r], "item_inventory")
          OBVIOUS
        <5>2. calls' = [calls EXCEPT ![r] = c]
          BY <4>6, <5>1 DEF Proceed, Moved
        <5>3. "item_inventory" \in Going
          BY DEF Going, InHand
        <5> QED BY <1>1, <2>1, <2>2, <4>2, <4>4, <5>1, <5>2, <5>3, GoesStep
      <4> QED BY <4>1, <4>5, <4>6
    <3> QED BY <1>5, <3>1, <3>2 DEF NextItem
  <2> QED BY <1>1, <2>1, <2>4, TablesAlone, RequestKeeps DEF Around, World, tables, stock
<1>6. CASE ItemInventoryScope(r)
  <2>1. UNCHANGED Around /\ onHand' = onHand /\ runs' = runs
    BY <1>6 DEF ItemInventoryScope, Around, World, stock
  <2>2. /\ calls[r] # None /\ calls[r].stage = "item_inventory" /\ Sound(runs[r])
        /\ Progress(calls[r], runs[r]) /\ \A i \in Items : onHand[i] \in runs[r].seen[i]
        /\ calls[r].list \in Lists /\ "item_inventory" \in Generating
        /\ runs' = [runs EXCEPT ![r] = runs[r]]
    BY <1>1, <1>6, <2>1, HasRun DEF ItemInventoryScope, Going, InHand
  <2>3. runs[r].at \in DOMAIN runs[r].asked
    BY <2>2 DEF Progress, InHand
  <2>4. CallsOK'
    <3>1. CASE Answer(r, "not_found")
      BY <1>1, <2>1, <2>2, <3>1, EndsStep DEF Errors
    <3>2. CASE Proceed(r, "quantity")
      <4>1. PICK c : c = Moved(calls[r], "quantity")
        OBVIOUS
      <4>2. calls' = [calls EXCEPT ![r] = c]
        BY <3>2, <4>1 DEF Proceed, Moved
      <4>3. "quantity" \in Going
        BY DEF Going, InHand
      <4> QED BY <1>1, <2>1, <2>2, <2>3, <4>1, <4>2, <4>3, GoesStep
    <3> QED BY <1>6, <3>1, <3>2 DEF ItemInventoryScope
  <2> QED BY <1>1, <2>1, <2>4, TablesAlone, RequestKeeps DEF Around, World, tables, stock
<1>7. CASE EffectiveQuantity(r)
  <2>1. UNCHANGED Around /\ onHand' = onHand
    BY <1>7 DEF EffectiveQuantity, Around, World, stock
  <2>2. /\ calls[r] # None /\ calls[r].stage = "quantity" /\ Sound(runs[r])
        /\ Progress(calls[r], runs[r]) /\ \A i \in Items : onHand[i] \in runs[r].seen[i]
        /\ calls[r].list \in Lists /\ "quantity" \in Generating
    BY <1>1, <1>7, HasRun DEF EffectiveQuantity, Going, InHand
  <2>3. PICK run : run = runs[r]
    OBVIOUS
  <2>4. /\ Sound(run) /\ run.at \in DOMAIN run.asked /\ run.at \in Items
        /\ \A i \in Items : onHand[i] \in run.seen[i]
    BY <2>2, <2>3, RunParts DEF Progress, InHand, Sound
  <2>5. PICK q : q = onHand[run.at]
    OBVIOUS
  <2>6. q \in run.seen[run.at] /\ q \in Levels
    BY <2>4, <2>5 DEF IInv, Shelf!Init, Shelf!TypeOK
  <2>7. CallsOK'
    <3>1. CASE /\ q >= run.asked[run.at] /\ Hold(r, [run EXCEPT !.at = None])
               /\ Proceed(r, "next_item")
      <4>1. PICK new : new = [run EXCEPT !.at = None]
        OBVIOUS
      <4>2. Sound(new) /\ new.at = None /\ new.seen = run.seen
        BY <2>4, <2>6, <3>1, <4>1, RunPasses
      <4>3. PICK c : c = Moved(calls[r], "next_item")
        OBVIOUS
      <4>4. calls' = [calls EXCEPT ![r] = c] /\ runs' = [runs EXCEPT ![r] = new]
        BY <3>1, <4>1, <4>3 DEF Proceed, Hold, Moved
      <4>5. "next_item" \in Going /\ "next_item" \notin InHand
        BY DEF Going, InHand
      <4> QED BY <1>1, <2>1, <2>2, <2>4, <4>2, <4>3, <4>4, <4>5, GoesStep
    <3>2. CASE /\ q < run.asked[run.at] /\ Hold(r, [run EXCEPT !.read = q])
               /\ Proceed(r, "add")
      <4>1. PICK new : new = [run EXCEPT !.read = q]
        OBVIOUS
      <4>2. /\ Sound(new) /\ new.at = run.at /\ new.read = q /\ new.seen = run.seen
            /\ new.asked = run.asked
        BY <2>4, <2>6, <4>1, RunReads
      <4>3. PICK c : c = Moved(calls[r], "add")
        OBVIOUS
      <4>4. calls' = [calls EXCEPT ![r] = c] /\ runs' = [runs EXCEPT ![r] = new]
        BY <3>2, <4>1, <4>3 DEF Proceed, Hold, Moved
      <4>5. "add" \in Going
        BY DEF Going, InHand
      <4> QED BY <1>1, <2>1, <2>2, <2>4, <2>6, <3>2, <4>2, <4>3, <4>4, <4>5, GoesStep
    <3> QED BY <1>7, <2>3, <2>5, <3>1, <3>2 DEF EffectiveQuantity
  <2> QED BY <1>1, <2>1, <2>7, TablesAlone, RequestKeeps DEF Around, World, tables, stock
<1>8. CASE AddShortfall(r)
  <2>0. Pending(r, "add") /\ "add" \in Going
    BY <1>8 DEF AddShortfall, Going, InHand
  <2>1. UNCHANGED World /\ onHand' = onHand
    BY <1>8 DEF AddShortfall, World, stock
  <2>2. PICK run : run = runs[r]
    OBVIOUS
  <2>3. /\ calls[r] # None /\ calls[r].stage = "add" /\ Sound(run)
        /\ Progress(calls[r], run) /\ \A i \in Items : onHand[i] \in run.seen[i]
        /\ calls[r].list \in Lists /\ "add" \in Generating
    BY <1>1, <2>0, <2>2, HasRun
  <2>4. /\ run.at \in DOMAIN run.asked /\ run.read \in run.seen[run.at]
        /\ run.read < run.asked[run.at]
    BY <2>3 DEF Progress, InHand
  <2>5. PICK quantity : quantity = run.asked[run.at] - run.read
    OBVIOUS
  <2>6. /\ run.next \in 0..(IntHalf - 1) /\ run.next \in Int
        /\ quantity \in Nat /\ run.at \in Items \union {None}
    <3>1. /\ run.next \in 0..(IntHalf - 1) /\ run.next \in Int
          /\ run.asked[run.at] - run.read \in Nat /\ run.at \in Items
      BY <2>3, <2>4, RunFits, Zenon
    <3> QED BY <2>5, <3>1, Zenon
  <2>7. PICK e \in Entries, o \in Outcomes :
           /\ AddItem(e, calls[r].list, run.at, quantity, run.next, o)
           /\ \/ /\ o = "ok"
                 /\ Hold(r, [run EXCEPT !.at = None, !.read = None, !.next = @ + 1,
                                        !.wrote = @ \union {entries'[e]}])
                 /\ \/ Proceed(r, "next_item")
                    \/ Answer(r, "internal")
              \/ /\ o # "ok"
                 /\ Answer(r, "internal")
                 /\ UNCHANGED runs
    BY <1>8, <2>2, <2>5 DEF AddShortfall
  <2>8. /\ TablesKept
        /\ o = "ok" => /\ entries'[e] \in EntryRecords(Lists, Items, Most)
                       /\ entries'[e].item = run.at /\ entries'[e].quantity = quantity
                       /\ entries'[e].order = AsInt32(run.next)
    BY <1>1, <2>1, <2>3, <2>6, <2>7, AddItemKeeps
  <2>9. CallsOK'
    <3>1. CASE /\ o = "ok"
               /\ Hold(r, [run EXCEPT !.at = None, !.read = None, !.next = @ + 1,
                                      !.wrote = @ \union {entries'[e]}])
               /\ Proceed(r, "next_item") \/ Answer(r, "internal")
      <4>1. PICK w : w = entries'[e]
        OBVIOUS
      <4>2. /\ w \in EntryRecords(Lists, Items, Most) /\ w.item = run.at
            /\ w.quantity = run.asked[run.at] - run.read /\ w.order = run.next
        BY <2>5, <2>6, <2>8, <3>1, <4>1, Int32
      <4>3. PICK new : new = [run EXCEPT !.at = None, !.read = None, !.next = @ + 1,
                                         !.wrote = @ \union {w}]
        OBVIOUS
      <4>4. Sound(new) /\ new.at = None /\ new.seen = run.seen
        BY <2>3, <2>4, <4>2, <4>3, RunAdds
      <4>5. runs' = [runs EXCEPT ![r] = new]
        BY <3>1, <4>1, <4>3 DEF Hold
      <4>6. CASE Proceed(r, "next_item")
        <5>1. PICK c : c = Moved(calls[r], "next_item")
          OBVIOUS
        <5>2. calls' = [calls EXCEPT ![r] = c]
          BY <4>6, <5>1 DEF Proceed, Moved
        <5>3. "next_item" \in Going /\ "next_item" \notin InHand
          BY DEF Going, InHand
        <5> QED BY <1>1, <2>1, <2>3, <4>4, <4>5, <5>1, <5>2, <5>3, GoesStep
      <4>7. CASE Answer(r, "internal")
        BY <1>1, <2>1, <2>3, <4>4, <4>5, <4>7, EndsStep DEF Errors
      <4> QED BY <3>1, <4>6, <4>7
    <3>2. CASE Answer(r, "internal") /\ UNCHANGED runs
      <4>1. runs' = [runs EXCEPT ![r] = run]
        BY <1>1, <2>2, <3>2 DEF CallsOK
      <4> QED BY <1>1, <2>1, <2>3, <3>2, <4>1, EndsStep DEF Errors
    <3> QED BY <2>7, <3>1, <3>2
  <2> QED BY <2>1, <2>8, <2>9, RequestKeeps
<1> QED BY <1>2, <1>3, <1>4, <1>5, <1>6, <1>7, <1>8 DEF AutoGenerate

--------------------------------------------------------------------------------
(* Around the requests.                                                     *)

\* Every run survives every change of the stock: it may have seen the new levels.
LEMMA Watching ==
    ASSUME CallsOK, Watch, calls' = calls, onHand' \in [Items -> Levels]
    PROVE  CallsOK'
<1>1. ASSUME NEW r \in Requests
      PROVE  ReqInv(calls[r], runs[r])'
  <2>1. CASE runs[r] = None \/ Pending(r, "answered")
    <3>1. runs'[r] = runs[r] /\ calls'[r] = calls[r]
      BY <2>1 DEF Watch
    <3>2. ReqInv(calls[r], runs[r]) /\ (calls[r] = None => runs[r] = None)
      BY RecordsAreRows DEF CallsOK, ReqInv
    <3> QED BY <2>1, <3>1, <3>2 DEF ReqInv, RunInv, Seen, Pending
  <2>2. CASE runs[r] # None /\ ~Pending(r, "answered")
    <3>1. PICK c : c = calls[r]
      OBVIOUS
    <3>2. PICK run : run = runs[r]
      OBVIOUS
    <3>3. PICK new : new = [run EXCEPT !.seen = [i \in Items |-> @[i] \union {onHand'[i]}]]
      OBVIOUS
    <3>4. calls'[r] = c /\ runs'[r] = new
      BY <2>2, <3>1, <3>2, <3>3 DEF Watch
    <3>5. /\ calls[r] # None /\ c \in CallRecords /\ (c.stage = "answered" <=> c.answer # None)
          /\ Carried(c) /\ c.stage \in Going \union {"new_list"} /\ RunInv(c, run)
          /\ c.stage # "answered"
      <4>1. calls[r] # None /\ calls[r].stage # "answered"
        BY <2>2, RecordsAreRows DEF CallsOK, ReqInv, Pending
      <4> QED BY <2>2, <3>1, <3>2, <4>1, CallParts
    <3>6. /\ new.asked = run.asked /\ new.todo = run.todo /\ new.at = run.at
          /\ new.read = run.read /\ new.next = run.next /\ new.wrote = run.wrote
          /\ \A i \in Items : new.seen[i] = run.seen[i] \union {onHand'[i]}
          /\ new \in RunRecords
      BY <3>3, <3>5 DEF RunInv, Sound, RunRecords
    <3>7. \A i \in Items : run.seen[i] \subseteq new.seen[i] /\ onHand'[i] \in new.seen[i]
      BY <3>6
    <3>8. \A i \in DOMAIN run.asked : i \in Items
      BY <3>5, RunParts DEF RunInv, Sound
    <3>9. Written(new)
      <4>1. ASSUME NEW w \in run.wrote
            PROVE  /\ w.item \in DOMAIN run.asked /\ w.item \notin run.todo /\ w.item # run.at
                   /\ w.quantity > 0
                   /\ \E q \in new.seen[w.item] : w.quantity = run.asked[w.item] - q
        BY <3>5, <3>7, <3>8 DEF RunInv, Sound, Written
      <4>2. /\ \A w1, w2 \in run.wrote : w1.item = w2.item => w1 = w2
            /\ {w.order : w \in run.wrote} = 0..(run.next - 1)
            /\ IsFiniteSet(run.wrote) /\ run.next = Cardinality(run.wrote)
        BY <3>5 DEF RunInv, Sound, Written
      <4> QED BY <3>6, <4>1, <4>2 DEF Written
    <3>10. Covered(new)
      <4>1. ASSUME NEW i \in DOMAIN run.asked, i \notin run.todo, i # run.at
            PROVE  (\E q \in new.seen[i] : q >= run.asked[i]) \/ (\E w \in run.wrote : w.item = i)
        BY <3>5, <3>7, <3>8, <4>1 DEF RunInv, Sound, Covered
      <4> QED BY <3>6, <4>1 DEF Covered
    <3>11. Sound(new)
      BY <3>5, <3>6, <3>9, <3>10 DEF RunInv, Sound, Counted
    <3>12. Progress(c, new)
      <4>1. Progress(c, run)
        BY <3>5 DEF RunInv
      <4>2. c.stage = "add" => run.read \in new.seen[run.at] /\ run.read < run.asked[run.at]
        BY <3>7, <3>8, <4>1 DEF Progress, InHand
      <4> QED BY <3>6, <4>1, <4>2 DEF Progress
    <3>13. \A i \in Items : onHand'[i] \in new.seen[i]
      BY <3>7
    <3>14. new # None
      BY <3>6, RecordsAreRows
    <3> QED BY <3>5, <3>4, <3>11, <3>12, <3>13, <3>14 DEF ReqInv, RunInv, Seen
  <2> QED BY <2>1, <2>2
<1>2. \A r \in Requests : runs'[r] \in RunRecords \union {None}
  BY <1>1 DEF ReqInv, RunInv, Sound
<1>3. runs' = [r \in Requests |-> runs'[r]]
  BY DEF Watch
<1>4. runs' \in [Requests -> RunRecords \union {None}]
  BY <1>2, <1>3
<1> QED BY <1>1, <1>4 DEF CallsOK

\* One item changes, as Stock allows.
LEMMA StockStep ==
    ASSUME IInv, NEW i \in Items, StockChanges(i)
    PROVE  Kept
<1>1. /\ status \in [Items -> Shelf!Statuses] /\ wanted \in [Items -> Targets \union {None}]
      /\ onHand \in [Items -> Levels]
      /\ \A k \in Items : IF Shelf!Known(k) THEN wanted[k] # None
                          ELSE wanted[k] = None /\ onHand[k] = 0
  BY DEF IInv, Shelf!Init, Shelf!TypeOK
<1>2. /\ Shelf!Init' /\ onHand' \in [Items -> Levels]
      /\ \A k \in Items : Shelf!Known(k) => Shelf!Known(k)'
  <2> USE DEF Shelf!Init, Shelf!TypeOK, Shelf!Known, Shelf!Statuses
  <2>1. CASE Shelf!Delete(i)
    BY <1>1, <2>1 DEF Shelf!Delete
  <2>2. ASSUME NEW t \in Targets, Shelf!Appear(i, t)
        PROVE  /\ Shelf!Init' /\ onHand' \in [Items -> Levels]
               /\ \A k \in Items : Shelf!Known(k) => Shelf!Known(k)'
    BY <1>1, <2>2, GroceryAssumption DEF Shelf!Appear, GroceryAssumption
  <2>3. ASSUME NEW t \in Targets, Shelf!Want(i, t)
        PROVE  /\ Shelf!Init' /\ onHand' \in [Items -> Levels]
               /\ \A k \in Items : Shelf!Known(k) => Shelf!Known(k)'
    BY <1>1, <2>3, GroceryAssumption DEF Shelf!Want, GroceryAssumption
  <2>4. ASSUME NEW q \in Levels, Shelf!Restock(i, q)
        PROVE  /\ Shelf!Init' /\ onHand' \in [Items -> Levels]
               /\ \A k \in Items : Shelf!Known(k) => Shelf!Known(k)'
    BY <1>1, <2>4 DEF Shelf!Restock
  <2> QED BY <2>1, <2>2, <2>3, <2>4 DEF StockChanges
<1>3. CallsOK'
  BY <1>2, Watching DEF IInv, StockChanges
<1>4. TablesOK' /\ Lives
  <2>1. UNCHANGED <<there, lists, entries>>
    BY DEF StockChanges, tables
  <2>2. Dated /\ NoDangling /\ lists \in ListTable /\ TablesOK
    BY DEF IInv, TablesOK
  <2>3. ASSUME NEW e \in Rows(entries), entries[e].item # None
        PROVE  Shelf!Known(entries[e].item)'
    <3>1. PICK k : k = entries[e].item
      OBVIOUS
    <3>2. k \in Items /\ Shelf!Known(k)
      BY <2>2, <2>3, <3>1, TableRows DEF NoDangling, EntryRecords
    <3> QED BY <1>2, <2>1, <3>1, <3>2 DEF Shelf!Known
  <2>4. NoDangling'
    BY <2>1, <2>2, <2>3 DEF NoDangling
  <2>5. Lives /\ Dated'
    BY <2>1, <2>2, ListsAlone DEF Dated
  <2> QED BY <2>1, <2>2, <2>4, <2>5 DEF TablesOK
<1>5. changes' \in 0..MaxChanges
  BY GroceryAssumption DEF IInv, StockChanges, GroceryAssumption
<1> QED BY <1>2, <1>3, <1>4, <1>5 DEF Kept, IInv

\* The inventory is deleted.
LEMMA InventoryGoesStep ==
    ASSUME IInv, InventoryGoes
    PROVE  Kept
<1>1. /\ status \in [Items -> Shelf!Statuses] /\ wanted \in [Items -> Targets \union {None}]
      /\ onHand \in [Items -> Levels] /\ 0 \in Levels
      /\ \A k \in Items : IF Shelf!Known(k) THEN wanted[k] # None
                          ELSE wanted[k] = None /\ onHand[k] = 0
  BY GroceryAssumption DEF IInv, Shelf!Init, Shelf!TypeOK, GroceryAssumption
<1>2. Shelf!Init' /\ onHand' \in [Items -> Levels]
  BY <1>1 DEF InventoryGoes, Shelf!Lose, Shelf!Init, Shelf!TypeOK, Shelf!Known, Shelf!Statuses
<1>3. CallsOK'
  BY <1>2, Watching DEF IInv, InventoryGoes
<1>4. TablesKept
  <2>1. TablesOK
    BY DEF IInv
  <2>2. PICK gone : gone = Rows(lists)
    OBVIOUS
  <2>3. /\ lists' \in ListTable
        /\ \A l \in Lists : lists'[l] = IF l \in gone THEN Gone ELSE lists[l]
    BY <2>1, <2>2, TableRows DEF InventoryGoes, TablesOK, ListTable, Rows
  <2>4. entries' = CascadeEntries(entries, gone) /\ there' = FALSE /\ gone \in SUBSET Rows(lists)
    BY <2>2 DEF InventoryGoes
  <2> QED BY <2>1, <2>2, <2>3, <2>4, ListsGo
<1> QED BY <1>2, <1>3, <1>4 DEF InventoryGoes, Kept, IInv, TablesKept

\* 30 days pass for a list.
LEMMA AgeStep ==
    ASSUME IInv, NEW l \in Lists, Age(l)
    PROVE  Kept
<1>1. PICK row : row = [lists[l] EXCEPT !.completed = "long_ago"]
  OBVIOUS
<1>2. TablesOK /\ IsRow(lists[l])
  BY DEF IInv, Age
<1>3. row \in ListRecords(ListNames) /\ row.status = lists[l].status /\ row.completed = "long_ago"
  BY <1>1, <1>2, TableRows DEF ListRecords, Completed
<1>4. lists' = [lists EXCEPT ![l] = row] /\ UNCHANGED <<status, there, entries>>
  BY <1>1, <1>2 DEF Age, World, stock
<1>5. TablesKept
  BY <1>2, <1>3, <1>4, ListWritten
<1>6. UNCHANGED World /\ CallsOK'
  BY DEF Age, World, stock, IInv, CallsOK, ReqInv, RunInv, Seen
<1> QED BY <1>5, <1>6, RequestKeeps

\* pg_cron archives what was completed long ago.
LEMMA ArchiveStep ==
    ASSUME IInv, ArchiveCompleted
    PROVE  Kept
<1>1. TablesOK /\ lists' = ArchiveCompletedLists(lists) /\ entries' = entries
  BY DEF IInv, ArchiveCompleted
<1>2. ASSUME NEW l \in Lists
      PROVE  \/ lists'[l] = lists[l]
             \/ /\ IsRow(lists[l]) /\ lists[l].completed = "long_ago"
                /\ lists'[l] = [lists[l] EXCEPT !.status = "archived"]
  BY <1>1, TableRows DEF ArchiveCompletedLists
<1>3. ASSUME NEW l \in Lists
      PROVE  /\ lists'[l] \in ListRecords(ListNames) \union {None, Gone}
             /\ IsRow(lists'[l]) <=> IsRow(lists[l])
             /\ IsRow(lists[l]) /\ lists'[l] # lists[l] =>
                   lists'[l].status = "archived" /\ lists'[l].completed = "long_ago"
                   /\ lists[l].completed = "long_ago"
  <2>1. CASE lists'[l] = lists[l]
    BY <1>1, <2>1 DEF TablesOK, ListTable, ListNames
  <2>2. CASE /\ IsRow(lists[l]) /\ lists[l].completed = "long_ago"
             /\ lists'[l] = [lists[l] EXCEPT !.status = "archived"]
    <3>1. lists[l] \in ListRecords(ListNames)
      BY <1>1, <2>2, TableRows
    <3>2. lists'[l] \in ListRecords(ListNames)
      BY <2>2, <3>1 DEF ListRecords, ListStatuses
    <3>3. lists'[l].status = "archived" /\ lists'[l].completed = "long_ago"
      BY <2>2, <3>1 DEF ListRecords
    <3> QED BY <2>2, <3>2, <3>3, RecordsAreRows
  <2> QED BY <1>2, <2>1, <2>2
<1>4. lists' \in ListTable
  <2>1. lists' = [l \in Lists |-> lists'[l]]
    BY <1>1, TableRows DEF ArchiveCompletedLists
  <2> QED BY <1>3, <2>1 DEF ListTable, ListNames
<1>5. /\ \A l \in Rows(lists)' : l \in Rows(lists)
      /\ \A l \in Rows(lists) : l \in Lists
  BY <1>1, <1>3, <1>4, TableRows DEF Rows, ListTable
<1>6. UNCHANGED World /\ CallsOK'
  BY DEF ArchiveCompleted, World, stock, IInv, CallsOK, ReqInv, RunInv, Seen
<1>7. NoDangling'
  <2>1. ~there => Rows(lists)' = {}
    BY <1>1, <1>5 DEF TablesOK, NoDangling
  <2>2. \A e \in Rows(entries) :
          /\ IsRow(lists'[entries[e].list])
          /\ entries[e].item # None => Shelf!Known(entries[e].item)
    BY <1>1, <1>3, TableRows DEF TablesOK, NoDangling, EntryRecords
  <2> QED BY <1>1, <1>6, <2>1, <2>2 DEF NoDangling, Shelf!Known, World, stock
<1>8. Dated' /\ Lives
  <2>1. ASSUME NEW l \in Lists, IsRow(lists[l])
        PROVE  lists[l].status = "completed" => lists[l].completed # "never"
    BY <1>1, <2>1, TableRows DEF TablesOK, Dated
  <2>2. ASSUME NEW l \in Lists, IsRow(lists'[l])
        PROVE  \/ lists'[l] = lists[l] /\ IsRow(lists[l])
               \/ /\ lists'[l].status = "archived" /\ lists'[l].completed = "long_ago"
                  /\ lists[l].completed = "long_ago"
    BY <1>3, <2>2
  <2>3. \A l \in Rows(lists)' : l \in Lists /\ IsRow(lists'[l])
    BY <1>4 DEF Rows, ListTable
  <2>4. Dated'
    BY <2>1, <2>2, <2>3 DEF Dated
  <2>5. Lives
    BY <2>1, <2>2 DEF Lives
  <2> QED BY <2>4, <2>5
<1>9. TablesKept
  BY <1>1, <1>4, <1>6, <1>7, <1>8 DEF TablesKept, TablesOK, World
<1> QED BY <1>6, <1>9, RequestKeeps

\* The process ends.
LEMMA CrashStep ==
    ASSUME IInv, Crash
    PROVE  Kept
<1>1. CallsOK /\ TablesOK
  BY DEF IInv
<1>2. UNCHANGED Around /\ runs' = runs /\ onHand' = onHand
  BY DEF Crash, Around, World, stock
<1>3. PICK lost : lost = [Blank EXCEPT !.answer = "lost"]
  OBVIOUS
<1>4. /\ lost \in CallRecords /\ lost.stage = "answered" /\ lost.answer = "lost"
      /\ lost.op = None
  BY <1>3 DEF Blank, CallRecords, Stages, Errors
<1>5. "lost" # None /\ "lost" # "ok"
  BY GroceryAssumption DEF GroceryAssumption, NoNull, Errors
<1>6. ASSUME NEW r \in Requests
      PROVE  calls'[r] = calls[r] \/ (calls[r] # None /\ calls'[r] = lost)
  BY <1>3 DEF Crash
<1>7. ASSUME NEW r \in Requests
      PROVE  ReqInv(calls[r], runs[r])'
  <2>1. CASE calls'[r] = calls[r]
    BY <1>1, <1>2, <2>1 DEF CallsOK, ReqInv, RunInv, Seen
  <2>2. CASE calls[r] # None /\ calls'[r] = lost
    <3>1. runs[r] = None \/ (runs[r] # None /\ Sound(runs[r]))
      BY <1>1, <2>2, CallParts DEF RunInv
    <3>2. Progress(lost, runs[r])
      BY <1>4, <1>5 DEF Progress, InHand
    <3> QED BY <1>2, <1>4, <1>5, <2>2, <3>1, <3>2 DEF ReqInv, RunInv, Seen, Carried, Going, InHand
  <2> QED BY <1>6, <2>1, <2>2
<1>8. calls' \in [Requests -> CallRecords \union {None}]
  <2>1. calls' = [r \in Requests |-> calls'[r]]
    BY DEF Crash
  <2> QED BY <1>1, <1>4, <1>6, <2>1 DEF CallsOK
<1>9. CallsOK'
  BY <1>1, <1>2, <1>7, <1>8 DEF CallsOK
<1> QED BY <1>1, <1>2, <1>9, TablesAlone, RequestKeeps DEF Around, World, tables, stock

--------------------------------------------------------------------------------
(* The invariant, and the theorems.                                         *)

\* What the model starts from.
LEMMA InitIInv == Init => IInv
<1> SUFFICES ASSUME Init PROVE IInv
  OBVIOUS
<1>1. PICK db \in Starts : /\ lists = db[1] /\ entries = db[2]
                           /\ status = db[3] /\ wanted = db[4] /\ onHand = db[5]
  BY DEF Init
<1>2. /\ db[1] \in ListTable /\ db[2] \in EntryTable
      /\ \A l \in Rows(db[1]) : db[1][l].status = "completed" => db[1][l].completed # "never"
      /\ \A e \in Rows(db[2]) :
            /\ IsRow(db[1][db[2][e].list])
            /\ db[2][e].item # None => db[3][db[2][e].item] \in {"live", "deleted"}
  BY StartsAssumption DEF StartsAssumption
<1>3. TablesOK
  BY <1>1, <1>2 DEF Init, TablesOK, NoDangling, Dated, Shelf!Known
<1>4. CallsOK
  BY DEF Init, CallsOK, ReqInv
<1>5. Shelf!Init /\ changes \in 0..MaxChanges
  BY GroceryAssumption DEF Init, GroceryAssumption
<1> QED BY <1>3, <1>4, <1>5 DEF IInv

\* Every step keeps the invariant and the life of a list.
LEMMA NextKeeps == IInv /\ [Next]_vars => Kept
<1> SUFFICES ASSUME IInv, [Next]_vars PROVE Kept
  OBVIOUS
<1>1. ASSUME NEW r \in Requests, Handle(r) \/ Check(r) \/ Serve(r) \/ AutoGenerate(r)
      PROVE  Kept
  BY <1>1, HandleStep, CheckStep, ServeStep, AutoGenerateStep
<1>2. CASE UNCHANGED vars
  <2>1. UNCHANGED World /\ UNCHANGED <<calls, runs>> /\ UNCHANGED tables
    BY <1>2 DEF vars, World
  <2>2. CallsOK'
    BY <2>1 DEF World, stock, IInv, CallsOK, ReqInv, RunInv, Seen
  <2> QED BY <2>1, <2>2, TablesAlone, RequestKeeps DEF IInv, World, tables, stock
<1> QED
  BY <1>1, <1>2, StockStep, AgeStep, InventoryGoesStep, ArchiveStep, CrashStep DEF Next

\* The inductive invariant: the tables keep their keys, every request carries what its
\* stage needs, and every run knows what became of each item it read (service.go:272-339).
THEOREM GroceryInvariant == Spec => []IInv
<1>1. IInv /\ [Next]_vars => IInv'
  BY NextKeeps DEF Kept
<1> QED BY <1>1, InitIInv, PTL DEF Spec

\* The tables, the requests and the runs have the types the code gives them, and a run has
\* an item in hand and a quantity read when it is about to use them.
THEOREM GroceryTypes == Spec => []TypeOK
<1>1. IInv => TypeOK
  <2> SUFFICES ASSUME IInv PROVE TypeOK
    OBVIOUS
  <2>1. CallsOK /\ Shelf!TypeOK
    BY DEF IInv, Shelf!Init
  <2>2. ASSUME NEW r \in Requests, calls[r] # None
        PROVE  /\ calls[r].stage = "answered" <=> calls[r].answer # None
               /\ runs[r] # None => calls[r].op \in {"AutoGenerate", None}
               /\ calls[r].stage \in {"item_inventory", "quantity", "add"} => runs[r].at # None
               /\ calls[r].stage = "add" => runs[r].read # None
    <3>1. /\ calls[r].stage = "answered" <=> calls[r].answer # None
          /\ calls[r].stage = "answered" => calls[r].op = None
          /\ Carried(calls[r])
      BY <2>1, <2>2 DEF CallsOK, ReqInv
    <3>2. runs[r] # None => calls[r].op \in {"AutoGenerate", None}
      BY <2>1, <2>2, <3>1, CallParts DEF Carried, Going, InHand, Generating
    <3>3. ASSUME calls[r].stage \in InHand
          PROVE  runs[r].at # None /\ (calls[r].stage = "add" => runs[r].read # None)
      <4>1. RunInv(calls[r], runs[r])
        BY <2>1, <2>2, <3>3, CallParts DEF Going, InHand
      <4>2. /\ runs[r].at \in DOMAIN runs[r].asked
            /\ calls[r].stage = "add" => runs[r].read \in runs[r].seen[runs[r].at]
        BY <3>3, <4>1 DEF RunInv, Progress
      <4>3. /\ \A i \in DOMAIN runs[r].asked : i \in Items
            /\ runs[r].seen \in [Items -> SUBSET Levels]
        BY <4>1, RunParts DEF RunInv, Sound
      <4>4. None \notin Items /\ None \notin Levels
        BY GroceryAssumption DEF GroceryAssumption
      <4> QED BY <4>2, <4>3, <4>4
    <3> QED BY <3>1, <3>2, <3>3 DEF InHand
  <2> QED BY <2>1, <2>2 DEF TypeOK, IInv, TablesOK, CallsOK
<1> QED BY <1>1, GroceryInvariant, PTL

\* Whatever was in flight when a list or the inventory went, no entry is left without its
\* list, and none names an item that is no row (the foreign keys of 00004).
THEOREM GroceryNoDangling == Spec => []NoDangling
<1>1. IInv => NoDangling
  BY DEF IInv, TablesOK
<1> QED BY <1>1, GroceryInvariant, PTL

\* What AutoGenerate writes was missing at some moment of the run, each item once and in a
\* place of its own, and a "created" forgot no item that was short all along
\* (service.go:272-339).
THEOREM GroceryGenerated == Spec => []GeneratedFromStock
<1>1. IInv => GeneratedFromStock
  <2> SUFFICES ASSUME IInv, NEW r \in Requests, runs[r] # None
      PROVE LET run == runs[r] IN
        /\ \A w \in run.wrote :
              /\ w.item \in DOMAIN run.asked
              /\ w.quantity > 0
              /\ w.quantity \in {run.asked[w.item] - q : q \in run.seen[w.item]}
        /\ \A w1, w2 \in run.wrote : w1.item = w2.item => w1 = w2
        /\ {w.order : w \in run.wrote} = 0..(Cardinality(run.wrote) - 1)
        /\ calls[r].answer = "ok" => \A i \in DOMAIN run.asked :
              (\A q \in run.seen[i] : q < run.asked[i]) => \E w \in run.wrote : w.item = i
    BY DEF GeneratedFromStock
  <2>1. calls[r] # None /\ RunInv(calls[r], runs[r])
    BY RecordsAreRows DEF IInv, CallsOK, ReqInv
  <2>2. PICK run : run = runs[r]
    OBVIOUS
  <2>3. Sound(run) /\ Progress(calls[r], run)
    BY <2>1, <2>2 DEF RunInv
  <2>4. /\ \A w \in run.wrote :
              /\ w.item \in DOMAIN run.asked
              /\ w.quantity > 0
              /\ w.quantity \in {run.asked[w.item] - q : q \in run.seen[w.item]}
        /\ \A w1, w2 \in run.wrote : w1.item = w2.item => w1 = w2
        /\ {w.order : w \in run.wrote} = 0..(Cardinality(run.wrote) - 1)
    BY <2>3 DEF Sound, Written
  <2>5. ASSUME calls[r].answer = "ok", NEW i \in DOMAIN run.asked,
               \A q \in run.seen[i] : q < run.asked[i]
        PROVE  \E w \in run.wrote : w.item = i
    <3>1. run.todo = {} /\ run.at = None
      BY <2>3, <2>5 DEF Progress
    <3>2. i \in Items /\ i # None /\ run.asked[i] \in Int /\ run.seen[i] \subseteq Levels
      BY <2>3, RunParts, GroceryAssumption DEF Sound, GroceryAssumption
    <3>3. ASSUME NEW q \in run.seen[i] PROVE ~(q >= run.asked[i])
      <4>1. q \in Int /\ q < run.asked[i]
        BY <2>5, <3>2, GroceryAssumption DEF GroceryAssumption
      <4> QED BY <3>2, <4>1
    <3> QED BY <2>3, <3>1, <3>2, <3>3 DEF Sound, Covered
  <2> QED BY <2>2, <2>4, <2>5
<1> QED BY <1>1, GroceryInvariant, PTL

\* A list never becomes active again, its completion is never forgotten, and one that was
\* completed within 30 days is only archived by a request for it (service.go:143-161,
\* 00009_pg_cron.sql).
THEOREM GroceryListLifecycle == Spec => ListLifecycle
<1>1. ASSUME IInv, [Next]_vars
      PROVE  [\A l \in Lists : IsRow(lists[l]) /\ IsRow(lists'[l]) =>
                /\ lists'[l].status = "active" => lists[l].status = "active"
                /\ lists'[l].status = "completed" => lists'[l].completed # "never"
                /\ lists[l].completed # "never" => lists'[l].completed # "never"
                /\ lists[l].status = "completed" /\ lists'[l].status = "archived" =>
                      \/ lists[l].completed = "long_ago"
                      \/ \E r \in Requests :
                            Running(r, "ArchiveList") /\ calls[r].list = l]_lists
  BY <1>1, NextKeeps DEF Kept, Lives
<1> QED BY <1>1, GroceryInvariant, PTL DEF Spec, ListLifecycle


================================================================================
