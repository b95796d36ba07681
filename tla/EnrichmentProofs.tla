---------------------------- MODULE EnrichmentProofs ----------------------------
(***************************************************************************)
(* Proofs about Enrichment, for any number of jobs, workers, products and  *)
(* edits by users.                                                         *)
(*                                                                         *)
(* Every property is about a job and what other jobs and users did since   *)
(* it looked.  Job(t) says what a job may rely on at each statement; what  *)
(* the others cannot take away from it is Grows: rows stay, a deleted item *)
(* stays deleted, and nothing of the users' changes while edits is 0.      *)
(* Each statement is shown to keep the job's own knowledge and to be       *)
(* Grows; and a job's knowledge is shown once to survive Grows.            *)
(*                                                                         *)
(* DuplicatesBounded needs one more idea: the rows of a name and the jobs  *)
(* about to insert one (Racers) get no newcomer once there is a row, and   *)
(* before that they all run at once.                                       *)
(***************************************************************************)
EXTENDS Enrichment, FiniteSetTheorems, TLAPS

\* Was the row that the job looked up in tab the right one?
Right(t, tab, row) ==
    IF refs[t][tab] = None THEN row = None ELSE row \in Named(tab, refs[t][tab])

\* What a job has looked up, by its next statement.
LookedUp(t) ==
    /\ pc[t] \in {"queued", "find_store", "add_store"} => found[t] = NotFound
    /\ pc[t] \in {"find_entry", "add_entry"} =>
          Right(t, "store", found[t].store) /\ found[t].entry = None
    /\ pc[t] = "link" => \A tab \in Tables : Right(t, tab, found[t][tab])
    /\ \/ pc[t] \in {"resolve", "find_item", "add_item", "check", "add_batch", "return"}
       \/ batches[t] # <<>>
       => \A tab \in Tables : Right(t, tab, linked[t][tab])
    /\ pc[t] = "add_store" => refs[t].store # None
    /\ pc[t] \in {"add_entry", "find_item", "add_item"} => refs[t].entry # None

BeforeItem == {"queued", "find_store", "add_store", "find_entry", "add_entry", "link", "resolve",
               "find_item", "add_item"}

\* What it has stocked and will stock.
Stocked(t) ==
    /\ pc[t] \in BeforeItem => items[t] = NoRow
    /\ pc[t] \in BeforeItem \union {"check", "add_batch"} => batches[t] = <<>>
    /\ pc[t] \in {"check", "add_batch"} => target[t] \in Items
    /\ \A i \in deadAtLoad[t] : items[i].deleted
    /\ pc[t] = "add_batch" => target[t] \notin deadAtLoad[t]
    /\ \/ batches[t] = <<>>
       \/ \E i \in Items : batches[t] = <<i>> /\ i \notin deadAtLoad[t]

\* What it may rely on as long as no user has changed a row.
Undisturbed(t) == edits = 0 =>
    /\ refs[t].link # None => Present(refs[t].link)
    /\ pc[t] \in {"find_item", "add_item"} => inventory
    /\ pc[t] = "add_item" => \A k \in UserItems : Live(k) => items[k].name # refs[t].entry
    /\ pc[t] \in {"check", "add_batch"} => Present(target[t])
    /\ pc[t] = "refused" => \E s \in Txns \ {t} : Live(s) /\ items[s].name = refs[t].entry
    /\ Present(t) => items[t].plain

Job(t) == LookedUp(t) /\ Stocked(t) /\ Undisturbed(t)

\* The unique index.
Indexed == \A i, k \in Items :
    Live(i) /\ Live(k) /\ i # k =>
        <<items[i].name, items[i].plain>> # <<items[k].name, items[k].plain>>

\* The jobs that inserted a row of the name or are about to.
Racers(tab, n) ==
    {t \in Txns : (pc[t] = AddAt[tab] /\ refs[t][tab] = n)
                  \/ [table |-> tab, name |-> n, by |-> t] \in rows}

Races ==
    /\ Cardinality(Running) <= Workers
    /\ \A tab \in Tables : \A n \in Names \union Stores : Cardinality(Racers(tab, n)) <= Workers

IInv ==
    /\ TypeOK
    /\ \A t \in Txns : Job(t)
    /\ Indexed
    /\ Races

\* What no step undoes.
Grows ==
    /\ rows \subseteq rows'
    /\ \A i \in Items : items[i].deleted => items'[i].deleted
    /\ edits' = 0 =>
          /\ edits = 0 /\ inventory' = inventory
          /\ \A i \in Items : i \in UserItems \/ Present(i) => items'[i] = items[i]

\* A step that is not the job's own.
SameJob(t) ==
    /\ pc'[t] = pc[t] /\ refs'[t] = refs[t] /\ found'[t] = found[t] /\ target'[t] = target[t]
    /\ linked'[t] = linked[t] /\ batches'[t] = batches[t] /\ deadAtLoad'[t] = deadAtLoad[t]
    /\ items[t] = NoRow \/ edits' = 0 => items'[t] = items[t]

\* Nobody gets ready to insert a row of a name that has one, and nobody inserts one who
\* was not ready.
NoLateRacer ==
    /\ \A r \in rows' \ rows :
          r.by = User \/ (pc[r.by] = AddAt[r.table] /\ refs[r.by][r.table] = r.name)
    /\ \A t \in Txns : \A tab \in Tables : pc'[t] = AddAt[tab] =>
          \/ pc[t] = AddAt[tab] /\ refs'[t] = refs[t]
          \/ \A r \in rows' : ~(r.table = tab /\ r.name = refs'[t][tab])

--------------------------------------------------------------------------------
(* What a job knows survives what it does not do itself.                    *)

\* The parts of a job's state.
LEMMA JobTypes ==
    ASSUME TypeOK, NEW t \in Txns
    PROVE  /\ refs[t].store \in Stores \union {None} /\ refs[t].entry \in Names \union {None}
           /\ refs[t].link \in Items \union {None} /\ target[t] \in Items \union {None}
           /\ refs[t] \in RefRecords /\ found[t] \in FoundRecords /\ linked[t] \in FoundRecords
           /\ deadAtLoad[t] \subseteq Items /\ t \in Items /\ items[t] \in ItemRecords
BY DEF TypeOK, RefRecords, Items

LEMMA JobStable ==
    ASSUME TypeOK, NEW t \in Txns, Job(t), SameJob(t), Grows
    PROVE  Job(t)'
<1>1. LookedUp(t)'
  <2>1. ASSUME NEW tab \in Tables, NEW row, Right(t, tab, row)
        PROVE  IF refs[t][tab] = None THEN row = None
               ELSE \E r \in rows' : r = row /\ r.table = tab /\ r.name = refs[t][tab]
    BY <2>1 DEF Right, Named, Grows
  <2>2. LookedUp(t)
    BY DEF Job
  <2>3. "store" \in Tables
    BY DEF Tables
  <2> QED BY <2>1, <2>2, <2>3 DEF LookedUp, Right, Named, SameJob, NotFound
<1>2. Stocked(t)'
  BY JobTypes DEF Job, Stocked, SameJob, Grows
<1>3. Undisturbed(t)'
  <2> SUFFICES ASSUME edits' = 0 PROVE Undisturbed(t)'
    BY DEF Undisturbed
  <2>1. /\ edits = 0 /\ inventory' = inventory
        /\ \A i \in Items : i \in UserItems \/ Present(i) => items'[i] = items[i]
    BY DEF Grows
  <2>2. \A i \in Items : Present(i) => items'[i].name # None
    BY <2>1 DEF Present
  <2>3. refs'[t].link # None => Present(refs[t].link) /\ refs[t].link \in Items
    BY <2>1, JobTypes DEF Job, Undisturbed, SameJob
  <2>4. pc'[t] = "add_item" => \A k \in UserItems : Live(k)' => items'[k].name # refs'[t].entry
    BY <2>1 DEF Job, Undisturbed, SameJob, Live, Present, Items
  <2>5. pc'[t] \in {"check", "add_batch"} => Present(target[t]) /\ target[t] \in Items
    BY <2>1 DEF Job, Undisturbed, Stocked, SameJob
  <2>6. pc'[t] = "refused" => \E s \in Txns \ {t} : Live(s)' /\ items'[s].name = refs'[t].entry
    BY <2>1 DEF Job, Undisturbed, SameJob, Live, Present, Items
  <2>7. Present(t)' => items'[t].plain
    BY <2>1 DEF Job, Undisturbed, SameJob, Present
  <2>8. refs'[t].link # None => items'[refs'[t].link].name # None
    BY <2>2, <2>3 DEF SameJob
  <2>9. pc'[t] \in {"check", "add_batch"} => items'[target'[t]].name # None
    BY <2>2, <2>5 DEF SameJob
  <2> QED
    BY <2>1, <2>4, <2>6, <2>7, <2>8, <2>9 DEF Undisturbed, Job, SameJob, Present
<1> QED BY <1>1, <1>2, <1>3 DEF Job


--------------------------------------------------------------------------------
(* Who races for a row.                                                     *)

LEMMA RunningFinite ==
    IsFiniteSet(Running) /\ Cardinality(Running) \in Nat
BY FS_Subset, FS_CardinalityType, EnrichmentAssumption DEF EnrichmentAssumption, Running

LEMMA RacesKept ==
    ASSUME TypeOK, Races, NoLateRacer,
           \/ Running' \subseteq Running
           \/ \E t \in Txns : Running' = Running \union {t} /\ Cardinality(Running) < Workers
    PROVE  Races'
<1> USE EnrichmentAssumption DEF EnrichmentAssumption
<1>1. /\ IsFiniteSet(Running') /\ Cardinality(Running') \in Nat
      /\ Cardinality(Running') <= Workers
  <2>1. CASE Running' \subseteq Running
    BY <2>1, RunningFinite, FS_Subset, FS_CardinalityType DEF Races
  <2>2. CASE \E t \in Txns : Running' = Running \union {t} /\ Cardinality(Running) < Workers
    <3>1. PICK t \in Txns : Running' = Running \union {t} /\ Cardinality(Running) < Workers
      BY <2>2
    <3> DEFINE more == Running \union {t}
    <3>2. /\ IsFiniteSet(more)
          /\ Cardinality(more) = IF t \in Running THEN Cardinality(Running)
                                                 ELSE Cardinality(Running) + 1
      BY RunningFinite, FS_AddElement
    <3>3. Cardinality(more) \in Nat /\ Cardinality(more) <= Workers
      BY <3>1, <3>2, RunningFinite
    <3> QED BY <3>1, <3>2, <3>3
  <2> QED BY <2>1, <2>2
<1>2. ASSUME NEW tab \in Tables, NEW n \in Names \union Stores
      PROVE  Cardinality(Racers(tab, n)') <= Workers
  <2> DEFINE old == Racers(tab, n)
             new == Racers(tab, n)'
  <2>1. IsFiniteSet(old) /\ Cardinality(old) \in Nat /\ Cardinality(old) <= Workers
    <3>1. old \in SUBSET Txns
      BY DEF Racers
    <3>2. Cardinality(old) <= Workers
      BY DEF Races
    <3> QED BY <3>1, <3>2, FS_Subset, FS_CardinalityType
  <2>2. CASE \E r \in rows' : r.table = tab /\ r.name = n
    <3>1. ASSUME NEW t \in Txns, pc'[t] = AddAt[tab], refs'[t][tab] = n
          PROVE  t \in old
      BY <2>2, <3>1 DEF NoLateRacer, Racers
    <3>2. ASSUME NEW t \in Txns, [table |-> tab, name |-> n, by |-> t] \in rows'
          PROVE  t \in old
      <4> DEFINE r == [table |-> tab, name |-> n, by |-> t]
      <4>1. r.table = tab /\ r.name = n /\ r.by = t /\ t # User
        OBVIOUS
      <4> HIDE DEF r
      <4>2. r \in rows \/ (pc[t] = AddAt[tab] /\ refs[t][tab] = n)
        BY <3>2, <4>1 DEF NoLateRacer, r
      <4> QED BY <4>2 DEF Racers, r
    <3>3. new \subseteq old
      BY <3>1, <3>2 DEF Racers
    <3> QED BY <2>1, <3>3, FS_Subset, FS_CardinalityType
  <2>3. CASE \A r \in rows' : ~(r.table = tab /\ r.name = n)
    <3>1. new \subseteq Running'
      <4>1. AddAt[tab] \in InWork
        BY DEF AddAt, Tables, InWork
      <4>2. \A t \in Txns : [table |-> tab, name |-> n, by |-> t] \notin rows'
        BY <2>3
      <4> QED BY <4>1, <4>2 DEF Racers, Running
    <3>2. IsFiniteSet(new) /\ Cardinality(new) <= Cardinality(Running')
      BY <1>1, <3>1, FS_Subset
    <3> QED BY <1>1, <3>2, FS_CardinalityType
  <2> QED BY <2>2, <2>3
<1> QED BY <1>1, <1>2 DEF Races

--------------------------------------------------------------------------------
(* One step.                                                                *)

\* A step of one job: what has to be shown of it.
LEMMA JobStep ==
    ASSUME IInv, NEW t \in Txns, TypeOK', Job(t)', Indexed', Grows, NoLateRacer,
           \A s \in Txns \ {t} : SameJob(s),
           \/ Running' \subseteq Running
           \/ Running' = Running \union {t} /\ Cardinality(Running) < Workers
    PROVE  IInv'
<1>1. \A s \in Txns : Job(s)'
  BY JobStable DEF IInv
<1>2. Races'
  BY RacesKept DEF IInv
<1> QED BY <1>1, <1>2 DEF IInv

Places == {"queued"} \union InWork \union Over

\* Its place, when it moves on.
LEMMA Moved ==
    ASSUME TypeOK, NEW t \in Txns, NEW from, NEW to \in Places, Goto(t, from, to)
    PROVE  /\ pc' \in [Txns -> Places] /\ pc[t] = from /\ pc'[t] = to
           /\ \A s \in Txns \ {t} : pc'[s] = pc[s]
           /\ from \in InWork => Running' \subseteq Running
BY DEF TypeOK, Goto, Places, Running

\* Nobody is late when the job does not get ready to insert, and inserts nothing.
LEMMA NotLate ==
    ASSUME UNCHANGED rows, NEW t \in Txns,
           \A s \in Txns \ {t} : pc'[s] = pc[s] /\ refs'[s] = refs[s],
           pc'[t] \notin {"add_store", "add_entry"}
    PROVE  NoLateRacer
BY DEF NoLateRacer, AddAt, Tables

\* It moves on and changes nothing.
LEMMA MoveStep ==
    ASSUME IInv, NEW t \in Txns, NEW from \in InWork, NEW to \in Places \ {"queued"},
           Goto(t, from, to), Job(t)', NoLateRacer,
           UNCHANGED <<refs, found, target, catalogVars, stockVars, deadAtLoad, edits>>
    PROVE  IInv'
<1>1. /\ pc' \in [Txns -> Places] /\ \A s \in Txns \ {t} : pc'[s] = pc[s]
      /\ Running' \subseteq Running
  BY Moved DEF IInv
<1>2. TypeOK'
  BY <1>1 DEF IInv, TypeOK, Places, catalogVars, stockVars
<1>3. Indexed' /\ Grows
  BY DEF IInv, Indexed, Live, Present, Grows, catalogVars, stockVars
<1>4. \A s \in Txns \ {t} : SameJob(s)
  BY <1>1 DEF SameJob, catalogVars, stockVars
<1> QED BY <1>1, <1>2, <1>3, <1>4, JobStep

\* What the job knew before its step, field by field.
LEMMA Before ==
    ASSUME IInv, NEW t \in Txns
    PROVE  /\ TypeOK /\ LookedUp(t) /\ Stocked(t) /\ Undisturbed(t)
           /\ refs[t] \in RefRecords /\ found[t] \in FoundRecords
BY JobTypes DEF IInv, Job

\* A row of a table is looked for.
LEMMA LookStep ==
    ASSUME IInv, NEW t \in Txns, NEW tab \in Tables,
           SkipRow(t, tab) \/ FindRow(t, tab) \/ MissRow(t, tab)
    PROVE  IInv'
<1> DEFINE from == FindAt[tab]
<1>0. /\ from \in InWork
      /\ After[tab] \in Places \ {"queued"} /\ AddAt[tab] \in Places \ {"queued"}
      /\ tab = "store" =>
            from = "find_store" /\ After[tab] = "find_entry" /\ AddAt[tab] = "add_store"
      /\ tab = "entry" =>
            from = "find_entry" /\ After[tab] = "link" /\ AddAt[tab] = "add_entry"
      /\ tab \in {"store", "entry"}
  BY DEF FindAt, AddAt, After, Tables, InWork, Places
<1> HIDE DEF from
<1>1. CASE SkipRow(t, tab)
  <2>1. /\ Goto(t, from, After[tab]) /\ refs[t][tab] = None
        /\ UNCHANGED <<refs, found, target, catalogVars, stockVars, deadAtLoad, edits>>
    BY <1>1 DEF SkipRow, from
  <2>2. /\ pc[t] = from /\ pc'[t] = After[tab]
        /\ \A s \in Txns \ {t} : pc'[s] = pc[s]
    BY <1>0, <2>1, Moved DEF IInv
  <2>3. LookedUp(t)'
    BY <1>0, <2>1, <2>2, Before
       DEF LookedUp, Right, Named, Tables, NotFound, Stocked, BeforeItem, catalogVars, stockVars
  <2>4. Stocked(t)' /\ Undisturbed(t)'
    BY <1>0, <2>1, <2>2, Before
       DEF Stocked, Undisturbed, BeforeItem, Present, Live, catalogVars, stockVars
  <2>5. NoLateRacer
    BY <1>0, <2>1, <2>2, NotLate DEF catalogVars
  <2> QED BY <1>0, <2>1, <2>3, <2>4, <2>5, MoveStep DEF Job
<1>2. CASE MissRow(t, tab)
  <2>1. /\ Goto(t, from, AddAt[tab]) /\ refs[t][tab] # None /\ Named(tab, refs[t][tab]) = {}
        /\ UNCHANGED <<refs, found, target, catalogVars, stockVars, deadAtLoad, edits>>
    BY <1>2 DEF MissRow, from
  <2>2. /\ pc[t] = from /\ pc'[t] = AddAt[tab]
        /\ \A s \in Txns \ {t} : pc'[s] = pc[s]
    BY <1>0, <2>1, Moved DEF IInv
  <2>3. LookedUp(t)'
    BY <1>0, <2>1, <2>2, Before
       DEF LookedUp, Right, Named, Tables, NotFound, Stocked, BeforeItem, catalogVars, stockVars
  <2>4. Stocked(t)' /\ Undisturbed(t)'
    BY <1>0, <2>1, <2>2, Before
       DEF Stocked, Undisturbed, BeforeItem, Present, Live, catalogVars, stockVars
  <2>5. NoLateRacer
    <3>1. \A r \in rows' : ~(r.table = tab /\ r.name = refs'[t][tab])
      BY <2>1 DEF Named, catalogVars
    <3>2. \A k \in Tables : pc'[t] = AddAt[k] => k = tab
      BY <1>0, <2>2 DEF AddAt, Tables
    <3> QED BY <2>1, <2>2, <3>1, <3>2 DEF NoLateRacer, catalogVars
  <2> QED BY <1>0, <2>1, <2>3, <2>4, <2>5, MoveStep DEF Job
<1>3. CASE FindRow(t, tab)
  <2>1. /\ Goto(t, from, After[tab]) /\ refs[t][tab] # None
        /\ UNCHANGED <<refs, target, catalogVars, stockVars, deadAtLoad, edits>>
    BY <1>3 DEF FindRow, from
  <2>2. PICK r \in Named(tab, refs[t][tab]) : found' = [found EXCEPT ![t][tab] = r]
    BY <1>3 DEF FindRow
  <2>3. /\ pc' \in [Txns -> Places] /\ pc[t] = from /\ pc'[t] = After[tab]
        /\ \A s \in Txns \ {t} : pc'[s] = pc[s]
        /\ Running' \subseteq Running
    BY <1>0, <2>1, Moved DEF IInv
  <2>4. /\ found'[t] = [found[t] EXCEPT ![tab] = r]
        /\ \A s \in Txns \ {t} : found'[s] = found[s]
        /\ found' = [s \in Txns |-> found'[s]]
    BY <2>2, Before DEF TypeOK
  <2>5. r \in RowRecords
    BY Before DEF Named, TypeOK
  <2>6. /\ found'[t] \in FoundRecords /\ found'[t][tab] = r
        /\ \A k \in Tables \ {tab} : found'[t][k] = found[t][k]
    BY <1>0, <2>4, <2>5, Before DEF FoundRecords, Tables
  <2>7. TypeOK'
    <3>1. found' \in [Txns -> FoundRecords]
      BY <2>4, <2>6, Before DEF TypeOK
    <3> QED BY <2>1, <2>3, <3>1, Before DEF TypeOK, Places, catalogVars, stockVars
  <2>8. LookedUp(t)'
    <3>1. batches[t] = <<>> /\ refs' = refs /\ batches' = batches
      BY <1>0, <2>1, <2>2, <2>3, <2>6, Before DEF Stocked, BeforeItem, catalogVars, stockVars
    <3>2. Right(t, tab, found[t][tab])'
      BY <1>0, <2>1, <2>2, <2>3, <2>6, Before DEF Right, Named, catalogVars
    <3>3. CASE tab = "store"
      <4>1. found[t] = NotFound /\ found'[t].entry = None
        BY <1>0, <2>1, <2>2, <2>3, <2>6, <3>3, Before DEF LookedUp, NotFound, Tables
      <4> QED BY <1>0, <2>1, <2>2, <2>3, <2>6, <3>1, <3>2, <3>3, <4>1, Before DEF LookedUp
    <3>4. CASE tab = "entry"
      <4>1. Right(t, "store", found[t].store) /\ found'[t].store = found[t].store
        BY <1>0, <2>1, <2>2, <2>3, <2>6, <3>4, Before DEF LookedUp, Tables
      <4>2. Right(t, "store", found[t].store)'
        BY <1>0, <2>1, <2>2, <2>3, <2>6, <3>1, <4>1 DEF Right, Named, catalogVars
      <4> QED BY <1>0, <2>1, <2>2, <2>3, <2>6, <3>1, <3>2, <3>4, <4>2, Before DEF LookedUp, Tables
    <3> QED BY <1>0, <3>3, <3>4
  <2>9. Stocked(t)' /\ Undisturbed(t)'
    BY <1>0, <2>1, <2>3, Before
       DEF Stocked, Undisturbed, BeforeItem, Present, Live, catalogVars, stockVars
  <2>10. NoLateRacer
    BY <1>0, <2>1, <2>3, NotLate DEF catalogVars
  <2>11. Indexed' /\ Grows
    BY <2>1 DEF IInv, Indexed, Live, Present, Grows, catalogVars, stockVars
  <2>12. \A s \in Txns \ {t} : SameJob(s)
    BY <2>1, <2>3, <2>4 DEF SameJob, catalogVars, stockVars
  <2> QED BY <2>3, <2>7, <2>8, <2>9, <2>10, <2>11, <2>12, JobStep DEF Job
<1> QED BY <1>1, <1>2, <1>3

\* It is inserted.
LEMMA AddRowStep ==
    ASSUME IInv, NEW t \in Txns, NEW tab \in Tables, AddRow(t, tab)
    PROVE  IInv'
<1> DEFINE from == AddAt[tab]
<1>0. /\ from \in InWork /\ After[tab] \in Places \ {"queued"}
      /\ tab = "store" => from = "add_store" /\ After[tab] = "find_entry"
      /\ tab = "entry" => from = "add_entry" /\ After[tab] = "link"
      /\ tab \in {"store", "entry"}
  BY DEF AddAt, After, Tables, InWork, Places
<1> DEFINE r == [table |-> tab, name |-> refs[t][tab], by |-> t]
<1>1. /\ Goto(t, from, After[tab]) /\ rows' = rows \union {r}
      /\ found' = [found EXCEPT ![t][tab] = r]
      /\ UNCHANGED <<refs, target, linked, stockVars, deadAtLoad, edits>>
  BY DEF AddRow
<1> HIDE DEF from
<1>2. /\ pc' \in [Txns -> Places] /\ pc[t] = from /\ pc'[t] = After[tab]
      /\ \A s \in Txns \ {t} : pc'[s] = pc[s]
      /\ Running' \subseteq Running
  BY <1>0, <1>1, Moved DEF IInv
<1>3. refs[t][tab] \in Names \union Stores /\ refs[t][tab] # None
  BY <1>0, <1>2, Before, JobTypes, EnrichmentAssumption DEF LookedUp, EnrichmentAssumption
<1>4. r \in RowRecords /\ r.table = tab /\ r.name = refs[t][tab] /\ r.by = t
  BY <1>3 DEF RowRecords
<1> HIDE DEF r
<1>5. /\ found'[t] = [found[t] EXCEPT ![tab] = r]
      /\ \A s \in Txns \ {t} : found'[s] = found[s]
      /\ found' = [s \in Txns |-> found'[s]]
  BY <1>1, Before DEF TypeOK
<1>6. /\ found'[t] \in FoundRecords /\ found'[t][tab] = r
      /\ \A k \in Tables \ {tab} : found'[t][k] = found[t][k]
  BY <1>0, <1>4, <1>5, Before DEF FoundRecords, Tables
<1>7. TypeOK'
  <2>1. found' \in [Txns -> FoundRecords] /\ rows' \in SUBSET RowRecords
    BY <1>1, <1>4, <1>5, <1>6, Before DEF TypeOK
  <2> QED BY <1>1, <1>2, <2>1, Before DEF TypeOK, Places, stockVars
<1>8. LookedUp(t)'
  <2>1. batches[t] = <<>> /\ refs' = refs /\ batches' = batches
    BY <1>0, <1>1, <1>2, <1>3, <1>4, <1>6, Before DEF Stocked, BeforeItem, catalogVars, stockVars
  <2>2. Right(t, tab, found[t][tab])'
    BY <1>0, <1>1, <1>2, <1>3, <1>4, <1>6, Before DEF Right, Named, catalogVars
  <2>3. CASE tab = "store"
    <3>1. found[t] = NotFound /\ found'[t].entry = None
      BY <1>0, <1>1, <1>2, <1>3, <1>4, <1>6, <2>3, Before DEF LookedUp, NotFound, Tables
    <3> QED BY <1>0, <1>1, <1>2, <1>3, <1>4, <1>6, <2>1, <2>2, <2>3, <3>1, Before DEF LookedUp
  <2>4. CASE tab = "entry"
    <3>1. Right(t, "store", found[t].store) /\ found'[t].store = found[t].store
      BY <1>0, <1>1, <1>2, <1>3, <1>4, <1>6, <2>4, Before DEF LookedUp, Tables
    <3>2. Right(t, "store", found[t].store)'
      BY <1>0, <1>1, <1>2, <1>3, <1>4, <1>6, <2>1, <3>1 DEF Right, Named, catalogVars
    <3> QED BY <1>0, <1>1, <1>2, <1>3, <1>4, <1>6, <2>1, <2>2, <2>4, <3>2, Before
          DEF LookedUp, Tables
  <2> QED BY <1>0, <2>3, <2>4
<1>9. Stocked(t)' /\ Undisturbed(t)'
  BY <1>0, <1>1, <1>2, Before
     DEF Stocked, Undisturbed, BeforeItem, Present, Live, stockVars
<1>10. NoLateRacer
  <2>1. \A k \in Tables : pc'[t] # AddAt[k]
    BY <1>0, <1>2 DEF AddAt, Tables
  <2> QED BY <1>1, <1>2, <1>4, <2>1 DEF NoLateRacer, from
<1>11. Indexed' /\ Grows
  BY <1>1 DEF IInv, Indexed, Live, Present, Grows, stockVars
<1>12. \A s \in Txns \ {t} : SameJob(s)
  BY <1>1, <1>2, <1>5 DEF SameJob, stockVars
<1> QED BY <1>2, <1>7, <1>8, <1>9, <1>10, <1>11, <1>12, JobStep DEF Job

\* A worker receives the job.
LEMMA LoadStep ==
    ASSUME IInv, NEW t \in Txns, Load(t)
    PROVE  IInv'
<1>1. PICK store \in Stores \union {None}, entry \in Names \union {None},
           link \in {i \in Items : Present(i)} \union {None} :
           refs' = [refs EXCEPT ![t] = [store |-> store, entry |-> entry, link |-> link]]
  BY DEF Load
<1>2. /\ Goto(t, "queued", "find_store") /\ Cardinality(Running) < Workers
      /\ deadAtLoad' = [deadAtLoad EXCEPT ![t] = {i \in Items : items[i].deleted}]
      /\ UNCHANGED <<found, target, catalogVars, stockVars, edits>>
  BY DEF Load
<1>3. /\ pc' \in [Txns -> Places] /\ pc[t] = "queued" /\ pc'[t] = "find_store"
      /\ \A s \in Txns \ {t} : pc'[s] = pc[s]
  BY <1>2, Moved DEF IInv, Places, InWork
<1>4. Running' = Running \union {t}
  BY <1>3 DEF Running, InWork
<1>5. /\ refs' \in [Txns -> RefRecords] /\ refs'[t].link = link
      /\ \A s \in Txns \ {t} : refs'[s] = refs[s]
  BY <1>1, Before DEF TypeOK, RefRecords
<1>6. /\ deadAtLoad' \in [Txns -> SUBSET Items]
      /\ deadAtLoad'[t] = {i \in Items : items[i].deleted}
      /\ \A s \in Txns \ {t} : deadAtLoad'[s] = deadAtLoad[s]
  BY <1>2, Before DEF TypeOK
<1>7. TypeOK'
  BY <1>2, <1>3, <1>5, <1>6, Before DEF TypeOK, Places, catalogVars, stockVars
<1>8. LookedUp(t)'
  BY <1>2, <1>3, Before
     DEF LookedUp, NotFound, Stocked, BeforeItem, catalogVars, stockVars
<1>9. Stocked(t)'
  BY <1>2, <1>3, <1>6, Before DEF Stocked, BeforeItem, catalogVars, stockVars
<1>10. Undisturbed(t)'
  BY <1>2, <1>3, <1>5, Before DEF Undisturbed, Present, Live, catalogVars, stockVars
<1>11. NoLateRacer
  BY <1>2, <1>3, <1>5, NotLate DEF catalogVars
<1>12. Indexed' /\ Grows
  BY <1>2 DEF IInv, Indexed, Live, Present, Grows, catalogVars, stockVars
<1>13. \A s \in Txns \ {t} : SameJob(s)
  BY <1>2, <1>3, <1>5, <1>6 DEF SameJob, catalogVars, stockVars
<1> QED BY <1>2, <1>4, <1>7, <1>8, <1>9, <1>10, <1>11, <1>12, <1>13, JobStep DEF Job

\* The transaction is linked to what was found.
LEMMA LinkStep ==
    ASSUME IInv, NEW t \in Txns, Link(t)
    PROVE  IInv'
<1>1. PICK to \in {"resolve", "return"} : Goto(t, "link", to)
  BY DEF Link
<1>2. /\ linked' = [linked EXCEPT ![t] = found[t]]
      /\ UNCHANGED <<refs, found, target, rows, stockVars, deadAtLoad, edits>>
  BY DEF Link
<1>3. /\ pc' \in [Txns -> Places] /\ pc[t] = "link" /\ pc'[t] = to
      /\ \A s \in Txns \ {t} : pc'[s] = pc[s]
      /\ Running' \subseteq Running
  BY <1>1, Moved DEF IInv, Places, InWork
<1>4. /\ linked' \in [Txns -> FoundRecords] /\ linked'[t] = found[t]
      /\ \A s \in Txns \ {t} : linked'[s] = linked[s]
  BY <1>2, Before DEF TypeOK
<1>5. TypeOK'
  BY <1>2, <1>3, <1>4, Before DEF TypeOK, Places, stockVars
<1>6. LookedUp(t)'
  BY <1>2, <1>3, <1>4, Before DEF LookedUp, Right, Named, stockVars
<1>7. Stocked(t)' /\ Undisturbed(t)'
  BY <1>2, <1>3, Before DEF Stocked, Undisturbed, BeforeItem, Present, Live, stockVars
<1>8. NoLateRacer
  BY <1>2, <1>3, NotLate
<1>9. Indexed' /\ Grows
  BY <1>2 DEF IInv, Indexed, Live, Present, Grows, stockVars
<1>10. \A s \in Txns \ {t} : SameJob(s)
  BY <1>2, <1>3, <1>4 DEF SameJob, stockVars
<1> QED BY <1>3, <1>5, <1>6, <1>7, <1>8, <1>9, <1>10, JobStep DEF Job

\* The job decides on its item.
LEMMA TargetStep ==
    ASSUME IInv, NEW t \in Txns, NEW from \in {"resolve", "find_item"}, NEW i \in Items,
           Goto(t, from, "check"), target' = [target EXCEPT ![t] = i],
           edits = 0 => Present(i),
           UNCHANGED <<refs, found, catalogVars, stockVars, deadAtLoad, edits>>
    PROVE  IInv'
<1>1. /\ pc' \in [Txns -> Places] /\ pc[t] = from /\ pc'[t] = "check"
      /\ \A s \in Txns \ {t} : pc'[s] = pc[s]
      /\ Running' \subseteq Running
  BY Moved DEF IInv, Places, InWork
<1>2. /\ target' \in [Txns -> Items \union {None}] /\ target'[t] = i
      /\ \A s \in Txns \ {t} : target'[s] = target[s]
  BY Before DEF TypeOK
<1>3. TypeOK'
  BY <1>1, <1>2, Before DEF TypeOK, Places, catalogVars, stockVars
<1>4. LookedUp(t)'
  BY <1>1, Before DEF LookedUp, Right, Named, catalogVars, stockVars
<1>5. Stocked(t)' /\ Undisturbed(t)'
  BY <1>1, <1>2, Before
     DEF Stocked, Undisturbed, BeforeItem, Present, Live, catalogVars, stockVars
<1>6. NoLateRacer
  BY <1>1, NotLate DEF catalogVars
<1>7. Indexed' /\ Grows
  BY DEF IInv, Indexed, Live, Present, Grows, catalogVars, stockVars
<1>8. \A s \in Txns \ {t} : SameJob(s)
  BY <1>1, <1>2 DEF SameJob, catalogVars, stockVars
<1> QED BY <1>1, <1>3, <1>4, <1>5, <1>6, <1>7, <1>8, JobStep DEF Job

\* The item is inserted.
LEMMA AddItemStep ==
    ASSUME IInv, NEW t \in Txns, AddItem(t)
    PROVE  IInv'
<1> DEFINE row == [name |-> refs[t].entry, plain |-> TRUE, deleted |-> FALSE]
<1>1. /\ Goto(t, "add_item", "check") /\ inventory /\ Unique(t, row.name, row.plain)
      /\ items' = [items EXCEPT ![t] = row] /\ target' = [target EXCEPT ![t] = t]
      /\ UNCHANGED <<refs, found, catalogVars, inventory, batches, deadAtLoad, edits>>
  BY DEF AddItem
<1>2. /\ pc' \in [Txns -> Places] /\ pc[t] = "add_item" /\ pc'[t] = "check"
      /\ \A s \in Txns \ {t} : pc'[s] = pc[s]
      /\ Running' \subseteq Running
  BY <1>1, Moved DEF IInv, Places, InWork
<1>3. refs[t].entry \in Names /\ refs[t].entry # None /\ t \in Items
  BY <1>2, Before, JobTypes, EnrichmentAssumption DEF LookedUp, EnrichmentAssumption
<1>4. row \in ItemRecords /\ row.plain /\ ~row.deleted /\ row.name # None
  BY <1>3 DEF ItemRecords
<1>5. items[t] = NoRow
  BY <1>2, Before DEF Stocked, BeforeItem
<1> HIDE DEF row
<1>6. /\ items' \in [Items -> ItemRecords] /\ items'[t] = row
      /\ \A i \in Items \ {t} : items'[i] = items[i]
  BY <1>1, <1>3, <1>4, Before DEF TypeOK
<1>7. /\ target' \in [Txns -> Items \union {None}] /\ target'[t] = t
      /\ \A s \in Txns \ {t} : target'[s] = target[s]
  BY <1>1, <1>3, Before DEF TypeOK
<1>8. TypeOK'
  BY <1>1, <1>2, <1>6, <1>7, Before DEF TypeOK, Places, catalogVars
<1>9. LookedUp(t)'
  BY <1>1, <1>2, Before DEF LookedUp, Right, Named, catalogVars
<1>10. ~items[t].deleted /\ ~Present(t)
  BY <1>5 DEF NoRow, Present
<1>11. Stocked(t)'
  BY <1>1, <1>2, <1>3, <1>6, <1>7, <1>10, Before, JobTypes DEF Stocked, BeforeItem
<1>12. t \notin UserItems
  BY EnrichmentAssumption DEF EnrichmentAssumption
<1>13. Grows
  BY <1>1, <1>6, <1>10, <1>12 DEF Grows, catalogVars
<1>14. Undisturbed(t)'
  <2> SUFFICES ASSUME edits' = 0 PROVE Undisturbed(t)'
    BY DEF Undisturbed
  <2>1. refs'[t].link # None => items'[refs'[t].link].name # None
    BY <1>1, <1>4, <1>6, Before, JobTypes DEF Undisturbed, Present
  <2>2. items'[target'[t]].name # None
    BY <1>4, <1>6, <1>7
  <2> QED BY <1>2, <1>4, <1>6, <2>1, <2>2 DEF Undisturbed, Present
<1>15. Indexed'
  <2>1. \A k \in Items \ {t} : Live(k)' =>
           <<items'[k].name, items'[k].plain>> # <<row.name, row.plain>>
    BY <1>1, <1>6 DEF Unique, Live, Present
  <2> QED BY <1>6, <2>1 DEF IInv, Indexed, Live, Present
<1>16. NoLateRacer
  BY <1>1, <1>2, NotLate DEF catalogVars
<1>17. \A s \in Txns \ {t} : SameJob(s)
  BY <1>1, <1>2, <1>6, <1>7 DEF SameJob, catalogVars, Items
<1> QED BY <1>2, <1>8, <1>9, <1>11, <1>13, <1>14, <1>15, <1>16, <1>17, JobStep DEF Job

\* The purchase is stocked.
LEMMA AddBatchStep ==
    ASSUME IInv, NEW t \in Txns, AddBatch(t)
    PROVE  IInv'
<1>1. /\ Goto(t, "add_batch", "return")
      /\ batches' = [batches EXCEPT ![t] = Append(@, target[t])]
      /\ UNCHANGED <<refs, found, target, catalogVars, inventory, items, deadAtLoad, edits>>
  BY DEF AddBatch
<1>2. /\ pc' \in [Txns -> Places] /\ pc[t] = "add_batch" /\ pc'[t] = "return"
      /\ \A s \in Txns \ {t} : pc'[s] = pc[s]
      /\ Running' \subseteq Running
  BY <1>1, Moved DEF IInv, Places, InWork
<1>3. target[t] \in Items /\ batches[t] = <<>> /\ target[t] \notin deadAtLoad[t]
  BY <1>2, Before DEF Stocked
<1>4. Append(<<>>, target[t]) = <<target[t]>> /\ <<target[t]>> \in Seq(Items)
  BY <1>3
<1>5. /\ batches' \in [Txns -> Seq(Items)] /\ batches'[t] = <<target[t]>>
      /\ \A s \in Txns \ {t} : batches'[s] = batches[s]
  BY <1>1, <1>3, <1>4, Before DEF TypeOK
<1>6. TypeOK'
  BY <1>1, <1>2, <1>5, Before DEF TypeOK, Places, catalogVars
<1>7. LookedUp(t)'
  BY <1>1, <1>2, Before DEF LookedUp, Right, Named, catalogVars
<1>8. Stocked(t)' /\ Undisturbed(t)'
  BY <1>1, <1>2, <1>3, <1>5, Before DEF Stocked, Undisturbed, BeforeItem, Present, Live
<1>9. NoLateRacer
  BY <1>1, <1>2, NotLate DEF catalogVars
<1>10. Indexed' /\ Grows
  BY <1>1 DEF IInv, Indexed, Live, Present, Grows, catalogVars
<1>11. \A s \in Txns \ {t} : SameJob(s)
  BY <1>1, <1>2, <1>5 DEF SameJob, catalogVars
<1> QED BY <1>2, <1>6, <1>7, <1>8, <1>9, <1>10, <1>11, JobStep DEF Job

\* The statements that only move the job on.
LEMMA QuietStep ==
    ASSUME IInv, NEW t \in Txns,
           \/ MissItem(t) \/ AddItemRefused(t) \/ CheckItem(t) \/ AddBatchRefused(t)
           \/ Return(t) \/ CallFails(t)
    PROVE  IInv'
<1>1. PICK from \in InWork, to \in Places \ {"queued"} :
         /\ Goto(t, from, to)
         /\ \/ MissItem(t) /\ from = "find_item" /\ to = "add_item"
            \/ AddItemRefused(t) /\ from = "add_item" /\ to = "refused"
            \/ /\ CheckItem(t) /\ from = "check"
               /\ to = IF Live(target[t]) THEN "add_batch" ELSE "return"
            \/ AddBatchRefused(t) /\ from = "add_batch" /\ to = "refused"
            \/ Return(t) /\ from = "return" /\ to = "ended"
            \/ CallFails(t) /\ to = "failed"
  BY DEF MissItem, AddItemRefused, CheckItem, AddBatchRefused, Return, CallFails, Goto, InWork,
         Places, Over, Running
<1>2. UNCHANGED <<refs, found, target, catalogVars, stockVars, deadAtLoad, edits>>
  BY <1>1 DEF MissItem, AddItemRefused, CheckItem, AddBatchRefused, Return, CallFails
<1>3. /\ pc[t] = from /\ pc'[t] = to /\ \A s \in Txns \ {t} : pc'[s] = pc[s]
  BY <1>1, Moved DEF IInv
<1>4. to \notin {"add_store", "add_entry"}
  BY <1>1
<1>5. NoLateRacer
  BY <1>2, <1>3, <1>4, NotLate DEF catalogVars
<1>6. LookedUp(t)'
  BY <1>1, <1>2, <1>3, Before
     DEF LookedUp, Right, Named, Stocked, BeforeItem, catalogVars, stockVars, InWork
<1>7. Stocked(t)'
  BY <1>1, <1>2, <1>3, Before DEF Stocked, BeforeItem, Live, catalogVars, stockVars, InWork
<1>8. Undisturbed(t)'
  <2>1. CASE MissItem(t) /\ from = "find_item" /\ to = "add_item"
    BY <1>1, <1>2, <1>3, <2>1, Before
       DEF MissItem, Undisturbed, Present, Live, catalogVars, stockVars, Items
  <2>2. CASE AddItemRefused(t) /\ from = "add_item" /\ to = "refused"
    <3> SUFFICES ASSUME edits = 0
                 PROVE  \E s \in Txns \ {t} : Live(s) /\ items[s].name = refs[t].entry
      BY <1>2, <1>3, <2>2, Before DEF Undisturbed, Present, Live, catalogVars, stockVars
    <3>1. inventory /\ \A k \in UserItems : Live(k) => items[k].name # refs[t].entry
      BY <1>3, <2>2, Before DEF Undisturbed
    <3>2. PICK k \in Items \ {t} : Live(k) /\ items[k].name = refs[t].entry
      BY <2>2, <3>1 DEF AddItemRefused, Unique
    <3> QED BY <3>1, <3>2 DEF Items
  <2>3. CASE CheckItem(t) /\ from = "check"
    BY <1>1, <1>2, <1>3, <2>3, Before DEF Undisturbed, Present, Live, catalogVars, stockVars
  <2>4. CASE AddBatchRefused(t) /\ from = "add_batch"
    BY <1>1, <1>2, <1>3, <2>4, Before
       DEF AddBatchRefused, Undisturbed, Present, Live, catalogVars, stockVars
  <2>5. CASE to \in {"ended", "failed"}
    BY <1>2, <1>3, <2>5, Before DEF Undisturbed, Present, Live, catalogVars, stockVars
  <2> QED BY <1>1, <2>1, <2>2, <2>3, <2>4, <2>5
<1> QED BY <1>1, <1>2, <1>5, <1>6, <1>7, <1>8, MoveStep DEF Job

\* One statement of a job, whichever.
LEMMA WorkStep ==
    ASSUME IInv, NEW t \in Txns, Work(t)
    PROVE  IInv'
<1>1. CASE Load(t)
  BY <1>1, LoadStep
<1>2. CASE Link(t)
  BY <1>2, LinkStep
<1>3. CASE \E tab \in Tables :
              SkipRow(t, tab) \/ FindRow(t, tab) \/ MissRow(t, tab) \/ AddRow(t, tab)
  BY <1>3, LookStep, AddRowStep
<1>4. CASE Resolve(t)
  <2>1. CASE refs[t].link # None
    <3>1. /\ Goto(t, "resolve", "check") /\ target' = [target EXCEPT ![t] = refs[t].link]
          /\ UNCHANGED <<refs, found, catalogVars, stockVars, deadAtLoad, edits>>
      BY <1>4, <2>1 DEF Resolve
    <3>2. PICK i \in Items : i = refs[t].link /\ (edits = 0 => Present(i))
      BY <2>1, Before, JobTypes DEF Undisturbed
    <3> QED BY <3>1, <3>2, TargetStep
  <2>2. CASE refs[t].link = None
    <3>1. PICK to \in {"return", "find_item"} :
             /\ Goto(t, "resolve", to) /\ (to = "find_item" => refs[t].entry # None /\ inventory)
             /\ UNCHANGED <<refs, found, target, catalogVars, stockVars, deadAtLoad, edits>>
      BY <1>4, <2>2 DEF Resolve
    <3>2. /\ pc[t] = "resolve" /\ pc'[t] = to /\ \A s \in Txns \ {t} : pc'[s] = pc[s]
      BY <3>1, Moved DEF IInv, Places, InWork
    <3>3. LookedUp(t)' /\ Stocked(t)' /\ Undisturbed(t)'
      BY <3>1, <3>2, Before DEF LookedUp, Right, Named, Stocked, Undisturbed, BeforeItem,
         Present, Live, catalogVars, stockVars
    <3>4. NoLateRacer
      BY <3>1, <3>2, NotLate DEF catalogVars
    <3>5. "resolve" \in InWork /\ to \in Places \ {"queued"}
      BY DEF InWork, Places
    <3> QED BY <3>1, <3>3, <3>4, <3>5, MoveStep DEF Job
  <2> QED BY <2>1, <2>2
<1>5. CASE FindItem(t)
  <2>1. PICK i \in Items : Live(i) /\ target' = [target EXCEPT ![t] = i]
    BY <1>5 DEF FindItem
  <2> QED BY <1>5, <2>1, TargetStep DEF FindItem, Live
<1>6. CASE AddItem(t)
  BY <1>6, AddItemStep
<1>7. CASE AddBatch(t)
  BY <1>7, AddBatchStep
<1>8. CASE \/ MissItem(t) \/ AddItemRefused(t) \/ CheckItem(t) \/ AddBatchRefused(t)
           \/ Return(t) \/ CallFails(t)
  BY <1>8, QuietStep
<1> QED BY <1>1, <1>2, <1>3, <1>4, <1>5, <1>6, <1>7, <1>8 DEF Work

\* Users insert rows of stores and products, and change items and inventories.
LEMMA UserStep ==
    ASSUME IInv, UserEdits
    PROVE  IInv'
<1>1. /\ edits' = edits + 1 /\ edits < MaxEdits
      /\ UNCHANGED <<jobVars, linked, batches, deadAtLoad>>
  BY DEF UserEdits, UserAddsRow, UserAddsItem, UserUpdatesItem, UserDeletesItem,
         UserDeletesInventory, UserCreatesInventory, Edit, catalogVars, stockVars
<1>2. edits' \in 0..MaxEdits /\ edits' # 0
  BY <1>1, EnrichmentAssumption DEF IInv, TypeOK, EnrichmentAssumption
<1>3. TypeOK /\ Indexed /\ Races /\ \A t \in Txns : Job(t)
  BY DEF IInv
<1> USE DEF catalogVars, stockVars
<1>4. /\ rows' \in SUBSET RowRecords /\ rows \subseteq rows'
      /\ \A r \in rows' \ rows : r.by = User
  <2>1. CASE UNCHANGED rows
    BY <1>3, <2>1 DEF TypeOK
  <2>2. ASSUME NEW tab \in Tables, UserAddsRow(tab)
        PROVE  /\ rows' \in SUBSET RowRecords /\ rows \subseteq rows'
               /\ \A r \in rows' \ rows : r.by = User
    <3>1. PICK n \in Names \union Stores :
             rows' = rows \union {[table |-> tab, name |-> n, by |-> User]}
      BY <2>2 DEF UserAddsRow
    <3> QED BY <1>3, <3>1 DEF TypeOK, RowRecords
  <2> QED BY <2>1, <2>2 DEF UserEdits, UserAddsItem, UserUpdatesItem, UserDeletesItem,
                            UserDeletesInventory, UserCreatesInventory
<1>5. /\ items' \in [Items -> ItemRecords] /\ inventory' \in BOOLEAN /\ Indexed'
      /\ \A i \in Items : items[i].deleted => items'[i].deleted
      /\ \A t \in Txns : items[t] = NoRow => items'[t] = NoRow
  <2> USE DEF TypeOK
  <2>1. CASE UNCHANGED items /\ inventory' \in BOOLEAN
    BY <1>3, <2>1 DEF Indexed, Live, Present
  <2>2. ASSUME NEW i \in Items, NEW row \in ItemRecords, items' = [items EXCEPT ![i] = row],
               inventory' = inventory, items[i] = NoRow => i \in UserItems, ~items[i].deleted,
               row.deleted \/ Unique(i, row.name, row.plain)
        PROVE  /\ items' \in [Items -> ItemRecords] /\ inventory' \in BOOLEAN /\ Indexed'
               /\ \A k \in Items : items[k].deleted => items'[k].deleted
               /\ \A t \in Txns : items[t] = NoRow => items'[t] = NoRow
    <3>1. /\ items' \in [Items -> ItemRecords] /\ items'[i] = row
          /\ \A k \in Items \ {i} : items'[k] = items[k]
      BY <1>3, <2>2
    <3>2. Indexed'
      BY <1>3, <2>2, <3>1 DEF Indexed, Live, Present, Unique
    <3>3. items[i] = NoRow => i \notin Txns
      BY <2>2, EnrichmentAssumption DEF EnrichmentAssumption
    <3> QED BY <1>3, <2>2, <3>1, <3>2, <3>3 DEF Items
  <2>3. ASSUME NEW i \in UserItems, UserAddsItem(i)
        PROVE  /\ items' \in [Items -> ItemRecords] /\ inventory' \in BOOLEAN /\ Indexed'
               /\ \A k \in Items : items[k].deleted => items'[k].deleted
               /\ \A t \in Txns : items[t] = NoRow => items'[t] = NoRow
    <3>1. PICK n \in Names, plain \in BOOLEAN :
             /\ Unique(i, n, plain)
             /\ items' = [items EXCEPT ![i] = [name |-> n, plain |-> plain, deleted |-> FALSE]]
      BY <2>3 DEF UserAddsItem
    <3> DEFINE row == [name |-> n, plain |-> plain, deleted |-> FALSE]
    <3>2. row \in ItemRecords /\ Unique(i, row.name, row.plain) /\ i \in Items
      BY <3>1 DEF ItemRecords, Items
    <3>3. ~items[i].deleted
      <4>1. items[i] = NoRow
        BY <2>3 DEF UserAddsItem
      <4> QED BY <4>1 DEF NoRow
    <3>4. inventory' = inventory
      BY <2>3 DEF UserAddsItem
    <3>5. items' = [items EXCEPT ![i] = row]
      BY <3>1
    <3> HIDE DEF row
    <3> QED BY <2>2, <3>2, <3>3, <3>4, <3>5
  <2>4. ASSUME NEW i \in Items, UserUpdatesItem(i)
        PROVE  /\ items' \in [Items -> ItemRecords] /\ inventory' \in BOOLEAN /\ Indexed'
               /\ \A k \in Items : items[k].deleted => items'[k].deleted
               /\ \A t \in Txns : items[t] = NoRow => items'[t] = NoRow
    <3>1. PICK n \in Names, plain \in BOOLEAN :
             Unique(i, n, plain) /\ items' = [items EXCEPT ![i].name = n, ![i].plain = plain]
      BY <2>4 DEF UserUpdatesItem
    <3>2. PICK row : row = [items[i] EXCEPT !.name = n, !.plain = plain]
      OBVIOUS
    <3>3. items[i] \in ItemRecords
      BY <1>3
    <3>4. row \in ItemRecords /\ row.name = n /\ row.plain = plain
      BY <3>2, <3>3 DEF ItemRecords
    <3>5. items' = [items EXCEPT ![i] = row]
      BY <1>3, <3>1, <3>2, <3>3 DEF ItemRecords
    <3>6. ~items[i].deleted /\ items[i] # NoRow /\ inventory' = inventory
      BY <2>4 DEF UserUpdatesItem, Live, Present, NoRow
    <3> QED BY <2>2, <3>1, <3>4, <3>5, <3>6
  <2>5. ASSUME NEW i \in Items, UserDeletesItem(i)
        PROVE  /\ items' \in [Items -> ItemRecords] /\ inventory' \in BOOLEAN /\ Indexed'
               /\ \A k \in Items : items[k].deleted => items'[k].deleted
               /\ \A t \in Txns : items[t] = NoRow => items'[t] = NoRow
    <3>1. PICK row : row = [items[i] EXCEPT !.deleted = TRUE]
      OBVIOUS
    <3>2. row \in ItemRecords /\ row.deleted
      BY <1>3, <3>1 DEF ItemRecords
    <3>3. items' = [items EXCEPT ![i] = row] /\ inventory' = inventory
      BY <2>5, <3>1 DEF UserDeletesItem
    <3>4. ~items[i].deleted /\ items[i] # NoRow
      BY <2>5 DEF UserDeletesItem, Live, Present, NoRow
    <3> QED BY <2>2, <3>2, <3>3, <3>4
  <2>6. CASE UserDeletesInventory
    <3>1. /\ inventory' = FALSE
          /\ items' = [i \in Items |-> IF items[i] = NoRow THEN NoRow ELSE Gone]
      BY <2>6 DEF UserDeletesInventory
    <3>2. NoRow \in ItemRecords /\ Gone \in ItemRecords /\ Gone.deleted /\ ~NoRow.deleted
          /\ NoRow.name = None /\ Gone.name = None
      BY DEF NoRow, Gone, ItemRecords
    <3> HIDE DEF NoRow, Gone
    <3>3. \A i \in Items : items'[i] \in {NoRow, Gone}
      BY <3>1
    <3>4. Indexed'
      BY <3>2, <3>3 DEF Indexed, Live, Present
    <3> QED BY <3>1, <3>2, <3>4 DEF Items
  <2>7. (\E tab \in Tables : UserAddsRow(tab)) \/ UserCreatesInventory =>
           UNCHANGED items /\ inventory' \in BOOLEAN
    BY <1>3 DEF UserAddsRow, UserCreatesInventory
  <2> QED BY <2>1, <2>3, <2>4, <2>5, <2>6, <2>7 DEF UserEdits
<1>6. TypeOK'
  BY <1>1, <1>2, <1>3, <1>4, <1>5 DEF TypeOK, jobVars
<1>7. Grows
  BY <1>2, <1>4, <1>5 DEF Grows
<1>8. \A t \in Txns : SameJob(t)
  BY <1>1, <1>2, <1>5 DEF SameJob, jobVars
<1>9. \A t \in Txns : Job(t)'
  BY <1>3, <1>7, <1>8, JobStable
<1>10. Races'
  <2>1. NoLateRacer
    BY <1>1, <1>4 DEF NoLateRacer, jobVars
  <2>2. Running' = Running
    BY <1>1 DEF Running, jobVars
  <2> QED BY <1>3, <2>1, <2>2, RacesKept
<1> QED BY <1>5, <1>6, <1>9, <1>10 DEF IInv

\* The process dies.
LEMMA CrashStep ==
    ASSUME IInv, Crash
    PROVE  IInv'
<1>1. UNCHANGED <<refs, found, target, catalogVars, stockVars, deadAtLoad, edits>>
  BY DEF Crash
<1>2. /\ pc' \in [Txns -> Places]
      /\ \A t \in Txns : pc'[t] = pc[t] \/ pc'[t] = "lost"
  BY DEF Crash, IInv, TypeOK, Places, Over
<1>3. TypeOK'
  BY <1>1, <1>2 DEF IInv, TypeOK, Places, catalogVars, stockVars
<1>4. Indexed' /\ Grows
  BY <1>1 DEF IInv, Indexed, Live, Present, Grows, catalogVars, stockVars
<1>5. ASSUME NEW t \in Txns PROVE Job(t)'
  <2>1. CASE pc'[t] = pc[t]
    BY <1>1, <1>4, <2>1, JobStable DEF IInv, SameJob, catalogVars, stockVars
  <2>2. CASE pc'[t] = "lost"
    BY <1>1, <2>2, Before DEF Job, LookedUp, Right, Named, Stocked, Undisturbed, BeforeItem,
       Present, Live, catalogVars, stockVars
  <2> QED BY <1>2, <2>1, <2>2
<1>6. Races'
  <2>1. NoLateRacer
    BY <1>1, <1>2 DEF NoLateRacer, AddAt, Tables, catalogVars
  <2>2. Running' \subseteq Running
    BY <1>2 DEF Running, InWork
  <2> QED BY <2>1, <2>2, RacesKept DEF IInv
<1> QED BY <1>3, <1>4, <1>5, <1>6 DEF IInv

\* A stuttering step.
LEMMA NothingHappens ==
    ASSUME IInv, UNCHANGED vars
    PROVE  IInv'
<1>1. /\ UNCHANGED <<pc, refs, found, target, rows, linked, inventory, items, batches>>
      /\ UNCHANGED <<deadAtLoad, edits>>
  BY DEF vars, jobVars, catalogVars, stockVars
<1>2. TypeOK' /\ Indexed' /\ Grows
  BY <1>1 DEF IInv, TypeOK, Indexed, Live, Present, Grows
<1>3. \A t \in Txns : Job(t)'
  BY <1>1, <1>2, JobStable DEF IInv, SameJob
<1>4. NoLateRacer /\ Running' \subseteq Running
  BY <1>1 DEF NoLateRacer, Running
<1> QED BY <1>2, <1>3, <1>4, RacesKept DEF IInv

--------------------------------------------------------------------------------
(* The theorems.                                                            *)

\* It holds before any job was delivered.
LEMMA InitIInv == Init => IInv
<1> SUFFICES ASSUME Init PROVE IInv
  OBVIOUS
<1> USE EnrichmentAssumption DEF EnrichmentAssumption
<1>1. TypeOK
  <2>1. refs \in [Txns -> RefRecords] /\ found \in [Txns -> FoundRecords]
        /\ linked \in [Txns -> FoundRecords]
    BY DEF Init, NoRefs, NotFound, RefRecords, FoundRecords
  <2>2. items \in [Items -> ItemRecords]
    <3>1. NoRow \in ItemRecords
      BY DEF NoRow, ItemRecords
    <3>2. \A S \in SUBSET Names :
             [name : S, plain : BOOLEAN, deleted : {FALSE}] \subseteq ItemRecords
      BY DEF ItemRecords
    <3>3. PICK S \in SUBSET Names :
             items \in [Items -> {NoRow} \union [name : S, plain : BOOLEAN, deleted : {FALSE}]]
      BY DEF Init
    <3>4. {NoRow} \union [name : S, plain : BOOLEAN, deleted : {FALSE}] \subseteq ItemRecords
      BY <3>1, <3>2
    <3> QED BY <3>3, <3>4
  <2>3. batches \in [Txns -> Seq(Items)] /\ deadAtLoad \in [Txns -> SUBSET Items]
    BY DEF Init
  <2>4. /\ pc \in [Txns -> {"queued"} \union InWork \union Over] /\ edits \in 0..MaxEdits
        /\ target \in [Txns -> Items \union {None}] /\ rows \in SUBSET RowRecords
        /\ inventory \in BOOLEAN
    BY DEF Init
  <2> QED BY <2>1, <2>2, <2>3, <2>4 DEF TypeOK
<1>2. ASSUME NEW t \in Txns PROVE Job(t)
  <2>1. items[t] = NoRow
    <3>1. PICK S \in SUBSET Names :
             items[t] \in {NoRow} \union [name : S, plain : BOOLEAN, deleted : {FALSE}]
      BY DEF Init, Items
    <3>2. items[t].name = None
      BY DEF Init, Present
    <3>3. None \notin S
      BY EnrichmentAssumption DEF EnrichmentAssumption
    <3> QED BY <3>1, <3>2, <3>3
  <2>2. pc[t] = "queued" /\ found[t] = NotFound /\ batches[t] = <<>> /\ deadAtLoad[t] = {}
        /\ refs[t].link = None
    BY DEF Init, NoRefs
  <2>3. LookedUp(t)
    BY <2>2 DEF LookedUp
  <2>4. Stocked(t)
    BY <2>1, <2>2 DEF Stocked
  <2>5. Undisturbed(t)
    BY <2>1, <2>2 DEF Undisturbed, Present, NoRow
  <2> QED BY <2>3, <2>4, <2>5 DEF Job
<1>3. Indexed
  <2>1. \A i \in Items : Present(i) => Unique(i, items[i].name, items[i].plain)
    BY DEF Init
  <2> QED BY <2>1 DEF Indexed, Unique, Live
<1>4. Races
  <2>1. Running = {} /\ Workers \in Nat
    BY DEF Init, Running, InWork
  <2>2. \A tab \in Tables : \A n \in Names \union Stores : Racers(tab, n) = {}
    BY DEF Init, Racers, AddAt, Tables
  <2> QED BY <2>1, <2>2, FS_EmptySet DEF Races
<1> QED BY <1>1, <1>2, <1>3, <1>4 DEF IInv

\* The inductive invariant: what each job may rely on at its next statement, the unique
\* index, and who races for a row.
THEOREM EnrichmentInvariant == Spec => []IInv
<1>1. IInv /\ [Next]_vars => IInv'
  BY WorkStep, UserStep, CrashStep, NothingHappens DEF Next
<1> QED BY <1>1, InitIInv, PTL DEF Spec

\* The rows, the jobs and what they carry keep their types (TypeOK).
THEOREM EnrichmentTypes == Spec => []TypeOK
<1>1. IInv => TypeOK
  BY DEF IInv
<1> QED BY <1>1, EnrichmentInvariant, PTL

\* A purchase is stocked at most once (StockedOnce): a job inserts one batch and is not
\* delivered again, however it ends.
THEOREM EnrichmentStockedOnce == Spec => []StockedOnce
<1>1. IInv => StockedOnce
  <2> SUFFICES ASSUME IInv, NEW t \in Txns PROVE Len(batches[t]) <= 1
    BY DEF StockedOnce
  <2>1. batches[t] = <<>> \/ \E i \in Items : batches[t] = <<i>>
    BY DEF IInv, Job, Stocked
  <2>2. ASSUME NEW i \in Items, batches[t] = <<i>> PROVE Len(batches[t]) <= 1
    BY <2>2
  <2>3. CASE batches[t] = <<>>
    BY <2>3
  <2> QED BY <2>1, <2>2, <2>3
<1> QED BY <1>1, EnrichmentInvariant, PTL

\* No purchase is stocked before its transaction was linked to rows of the right names
\* (StockFollowsLink), whoever inserted them.
THEOREM EnrichmentStockFollowsLink == Spec => []StockFollowsLink
<1>1. IInv => StockFollowsLink
  BY DEF IInv, Job, LookedUp, Right, StockFollowsLink
<1> QED BY <1>1, EnrichmentInvariant, PTL

\* An item that was deleted when the job began gets no stock from it (DeletedStaysEmpty).
THEOREM EnrichmentDeletedStaysEmpty == Spec => []DeletedStaysEmpty
<1>1. IInv => DeletedStaysEmpty
  BY DEF IInv, Job, Stocked, DeletedStaysEmpty
<1> QED BY <1>1, EnrichmentInvariant, PTL

\* The jobs' rows of one name are never more than the workers (DuplicatesBounded), for
\* any number of jobs that name it.
THEOREM EnrichmentDuplicatesBounded == Spec => []DuplicatesBounded
<1>1. IInv => DuplicatesBounded
  <2> SUFFICES ASSUME IInv, NEW tab \in Tables, NEW n \in Names \union Stores
               PROVE  Cardinality({r \in Named(tab, n) : r.by # User}) <= Workers
    BY DEF DuplicatesBounded
  <2> DEFINE S == Racers(tab, n)
             row(t) == [table |-> tab, name |-> n, by |-> t]
             W == {t \in Txns : row(t) \in rows}
             R == {r \in Named(tab, n) : r.by # User}
  <2>1. IsFiniteSet(S) /\ Cardinality(S) \in Nat /\ Cardinality(S) <= Workers
    BY FS_Subset, FS_CardinalityType, EnrichmentAssumption
       DEF EnrichmentAssumption, IInv, Races, Racers
  <2>2. W \subseteq S
    BY DEF Racers
  <2>3. IsFiniteSet(W) /\ Cardinality(W) \in Nat /\ Cardinality(W) <= Cardinality(S)
    BY <2>1, <2>2, FS_Subset, FS_CardinalityType
  <2>4. R = {row(t) : t \in W}
    <3>1. ASSUME NEW r \in R PROVE \E t \in W : r = row(t)
      <4>1. r \in RowRecords /\ r \in rows /\ r.table = tab /\ r.name = n
        BY DEF IInv, TypeOK, Named
      <4>2. r.by \in Txns /\ r = row(r.by)
        BY <4>1 DEF RowRecords
      <4> QED BY <4>1, <4>2
    <3>2. ASSUME NEW t \in W PROVE row(t) \in R
      BY EnrichmentAssumption DEF EnrichmentAssumption, Named
    <3> QED BY <3>1, <3>2
  <2>5. IsFiniteSet(R) /\ Cardinality(R) \in Nat /\ Cardinality(R) <= Cardinality(W)
    <3> DEFINE f == [t \in W |-> row(t)]
    <3>1. f \in Surjection(W, R)
      BY <2>4 DEF Surjection
    <3> QED BY <2>3, <3>1, FS_Surjection, FS_CardinalityType
  <2>6. Workers \in Nat
    BY EnrichmentAssumption DEF EnrichmentAssumption
  <2> QED BY <2>1, <2>3, <2>5, <2>6
<1> QED BY <1>1, EnrichmentInvariant, PTL

\* Two live items of a name are told apart by their category, and no two are of the jobs'
\* making while users change nothing (OneItemPerName).
THEOREM EnrichmentOneItemPerName == Spec => []OneItemPerName
<1>1. IInv => OneItemPerName
  <2> SUFFICES ASSUME IInv, NEW i \in Items, NEW k \in Items, Live(i), Live(k), i # k,
                      items[i].name = items[k].name
               PROVE  /\ items[i].plain # items[k].plain
                      /\ {i, k} \subseteq Txns => edits > 0
    BY DEF OneItemPerName
  <2>1. items[i].plain # items[k].plain
    BY DEF IInv, Indexed
  <2>2. ASSUME i \in Txns, k \in Txns, edits = 0 PROVE FALSE
    <3>1. items[i].plain \in BOOLEAN /\ items[k].plain \in BOOLEAN
      BY DEF IInv, TypeOK, ItemRecords
    <3>2. items[i].plain /\ items[k].plain
      BY <2>2 DEF IInv, Job, Undisturbed, Live
    <3>3. items[i].plain = items[k].plain
      BY <3>1, <3>2
    <3> QED BY <2>1, <3>3
  <2>3. edits \in Nat
    BY EnrichmentAssumption DEF EnrichmentAssumption, IInv, TypeOK
  <2> QED BY <2>1, <2>2, <2>3
<1> QED BY <1>1, EnrichmentInvariant, PTL

\* A job that was refused its item lost a race to another (RefusedWasRaced).
THEOREM EnrichmentRefusedWasRaced == Spec => []RefusedWasRaced
<1>1. IInv => RefusedWasRaced
  BY DEF IInv, Job, Undisturbed, RefusedWasRaced
<1> QED BY <1>1, EnrichmentInvariant, PTL

--------------------------------------------------------------------------------
(* One worker.                                                              *)

\* What holds of NewProductsStocked: it takes two workers to contradict it.  With one,
\* nothing comes between a job's look at the items (worker.go:169) and its insert
\* (worker.go:184), whatever database calls fail in between.
OneWorkerStocks == Workers = 1 => NewProductsStocked

\* A job that is about to insert its item still finds no item of that name.
Alone == Workers = 1 /\ edits = 0 => \A t \in Txns :
    /\ pc[t] # "refused"
    /\ pc[t] = "add_item" => \A k \in Items : Live(k) => items[k].name # refs[t].entry

\* The job that runs is the only one.
LEMMA OneRuns ==
    ASSUME IInv, Workers = 1, NEW s \in Running, NEW t \in Running
    PROVE  s = t
<1> SUFFICES ASSUME s # t PROVE FALSE
  OBVIOUS
<1> DEFINE one == {s}
           two == one \union {t}
<1>1. IsFiniteSet(one) /\ Cardinality(one) = 1 /\ t \notin one
  BY FS_Singleton
<1>2. two \subseteq Running
  OBVIOUS
<1> HIDE DEF one
<1>3. Cardinality(two) = 2
  BY <1>1, FS_AddElement
<1> HIDE DEF two
<1>4. Cardinality(two) <= Cardinality(Running)
  BY <1>2, RunningFinite, FS_Subset
<1>5. Cardinality(Running) <= 1
  BY DEF IInv, Races
<1> QED BY <1>3, <1>4, <1>5, RunningFinite

\* What a statement of a job can be, by where it takes the job.
Statement(t, from, to) ==
    /\ Goto(t, from, to) /\ edits' = edits
    /\ from \in InWork \/ Cardinality(Running) < Workers
    /\ to \in Places
    /\ to = "add_item" => MissItem(t)
    /\ to = "refused" => AddItemRefused(t) \/ AddBatchRefused(t)

\* Every statement is one of these.
LEMMA Statements ==
    ASSUME TypeOK, NEW t \in Txns, Work(t)
    PROVE  \E from, to \in Places : Statement(t, from, to)
<1> USE DEF Places, InWork, Over
<1>1. CASE Load(t)
  <2>1. Statement(t, "queued", "find_store")
    BY <1>1 DEF Load, Statement
  <2> QED BY <2>1
<1>2. CASE Link(t) \/ Resolve(t)
  <2>1. PICK from \in {"link", "resolve"}, to \in {"resolve", "return", "check", "find_item"} :
           Goto(t, from, to) /\ edits' = edits
    BY <1>2 DEF Link, Resolve
  <2>2. Statement(t, from, to)
    BY <2>1 DEF Statement
  <2> QED BY <2>2
<1>3. ASSUME NEW tab \in Tables,
             SkipRow(t, tab) \/ FindRow(t, tab) \/ MissRow(t, tab) \/ AddRow(t, tab)
      PROVE  \E from, to \in Places : Statement(t, from, to)
  <2>1. /\ FindAt[tab] \in {"find_store", "find_entry"}
        /\ AddAt[tab] \in {"add_store", "add_entry"}
        /\ After[tab] \in {"find_entry", "link"}
    BY DEF FindAt, AddAt, After, Tables
  <2>2. PICK from \in {FindAt[tab], AddAt[tab]}, to \in {AddAt[tab], After[tab]} :
           Goto(t, from, to) /\ edits' = edits
    BY <1>3 DEF SkipRow, FindRow, MissRow, AddRow
  <2>3. Statement(t, from, to)
    BY <2>1, <2>2 DEF Statement
  <2> QED BY <2>1, <2>2, <2>3
<1>4. CASE FindItem(t) \/ AddItem(t) \/ AddBatch(t) \/ CheckItem(t) \/ Return(t)
  <2>1. PICK from \in {"find_item", "add_item", "check", "add_batch", "return"},
             to \in {"check", "add_batch", "return", "ended"} :
           Goto(t, from, to) /\ edits' = edits
    BY <1>4 DEF FindItem, AddItem, AddBatch, CheckItem, Return
  <2>2. Statement(t, from, to)
    BY <2>1 DEF Statement
  <2> QED BY <2>1, <2>2
<1>5. CASE MissItem(t)
  <2>1. Statement(t, "find_item", "add_item")
    BY <1>5 DEF MissItem, Statement
  <2> QED BY <2>1
<1>6. CASE AddItemRefused(t) \/ AddBatchRefused(t)
  <2>1. PICK from \in {"add_item", "add_batch"} : Statement(t, from, "refused")
    BY <1>6 DEF AddItemRefused, AddBatchRefused, Statement
  <2> QED BY <2>1
<1>7. CASE CallFails(t)
  <2>1. pc[t] \in InWork /\ Goto(t, pc[t], "failed") /\ edits' = edits
    BY <1>7 DEF CallFails, Running, Goto
  <2>2. Statement(t, pc[t], "failed")
    BY <2>1 DEF Statement
  <2> QED BY <2>1, <2>2
<1> QED BY <1>1, <1>2, <1>3, <1>4, <1>5, <1>6, <1>7 DEF Work

\* A step of one job is no step of another, which is not about to insert then.
LEMMA OthersRest ==
    ASSUME IInv, Workers = 1, NEW s \in Txns, Work(s), NEW t \in Txns \ {s}
    PROVE  pc'[t] = pc[t] /\ pc[t] # "add_item"
<1>1. PICK from, to \in Places : Statement(s, from, to)
  BY Statements DEF IInv
<1>2. pc[s] = from /\ pc'[t] = pc[t] /\ (s \in Running \/ Cardinality(Running) < 1)
  BY <1>1 DEF Statement, Goto, Running, IInv, TypeOK
<1>3. ASSUME pc[t] = "add_item" PROVE FALSE
  <2>1. t \in Running
    BY <1>3 DEF Running, InWork
  <2>2. CASE s \in Running
    BY <2>1, <2>2, OneRuns
  <2>3. CASE Cardinality(Running) < 1
    <3>1. Cardinality(Running) = 0
      BY <2>3, RunningFinite
    <3> QED BY <2>1, <3>1, RunningFinite, FS_EmptySet
  <2> QED BY <1>2, <2>2, <2>3
<1> QED BY <1>2, <1>3

\* A job's own step: it is not refused, and when it is about to insert it has just looked.
LEMMA AloneWork ==
    ASSUME IInv, Alone, Workers = 1, edits = 0, NEW t \in Txns, Work(t)
    PROVE  /\ pc'[t] # "refused"
           /\ pc'[t] = "add_item" => \A k \in Items : Live(k)' => items'[k].name # refs'[t].entry
<1>1. TypeOK /\ Stocked(t) /\ Undisturbed(t)
  BY DEF IInv, Job
<1>2. PICK from, to \in Places : Statement(t, from, to)
  BY <1>1, Statements
<1>3. pc'[t] = to
  BY <1>1, <1>2 DEF Statement, Goto, TypeOK
<1>4. ASSUME AddItemRefused(t) PROVE FALSE
  <2>1. pc[t] = "add_item" /\ ~(inventory /\ Unique(t, refs[t].entry, TRUE))
    BY <1>4 DEF AddItemRefused, Goto
  <2>2. inventory /\ \A k \in Items : Live(k) => items[k].name # refs[t].entry
    BY <1>1, <2>1 DEF Alone, Undisturbed
  <2> QED BY <2>1, <2>2 DEF Unique
<1>5. ASSUME AddBatchRefused(t) PROVE FALSE
  BY <1>1, <1>5 DEF AddBatchRefused, Goto, Undisturbed
<1>6. ASSUME MissItem(t)
      PROVE  \A k \in Items : Live(k)' => items'[k].name # refs'[t].entry
  BY <1>6 DEF MissItem, stockVars, Live, Present
<1> QED BY <1>2, <1>3, <1>4, <1>5, <1>6 DEF Statement

\* With one worker, and while users change nothing, no job is refused its item
\* (OneWorkerStocks).
THEOREM EnrichmentOneWorkerStocks == Spec => []OneWorkerStocks
<1>1. Init => Alone
  BY DEF Init, Alone
<1>2. IInv /\ Alone /\ [Next]_vars => Alone'
  <2> SUFFICES ASSUME IInv, Alone, [Next]_vars, Workers = 1, edits' = 0, NEW t \in Txns
               PROVE  /\ pc'[t] # "refused"
                      /\ pc'[t] = "add_item" =>
                            \A k \in Items : Live(k)' => items'[k].name # refs'[t].entry
    BY DEF Alone
  <2>1. ~UserEdits
    <3>1. edits \in Nat
      BY EnrichmentAssumption DEF EnrichmentAssumption, IInv, TypeOK
    <3>2. UserEdits => edits' = edits + 1
      BY DEF UserEdits, UserAddsRow, UserAddsItem, UserUpdatesItem, UserDeletesItem,
         UserDeletesInventory, UserCreatesInventory, Edit
    <3> QED BY <3>1, <3>2
  <2>2. ASSUME NEW s \in Txns, Work(s)
        PROVE  /\ pc'[t] # "refused"
               /\ pc'[t] = "add_item" =>
                     \A k \in Items : Live(k)' => items'[k].name # refs'[t].entry
    <3>1. edits = 0
      BY <2>2, Statements DEF Statement, IInv
    <3>2. CASE t = s
      BY <2>2, <3>1, <3>2, AloneWork
    <3>3. CASE t # s
      BY <2>2, <3>1, <3>3, OthersRest DEF Alone
    <3> QED BY <3>2, <3>3
  <2>3. CASE Crash
    BY <2>3 DEF Crash, Alone, IInv, TypeOK, Over, stockVars, Live, Present
  <2>4. CASE UNCHANGED vars
    BY <2>4 DEF vars, jobVars, stockVars, Alone, Live, Present
  <2> QED BY <2>1, <2>2, <2>3, <2>4 DEF Next
<1>3. Alone => OneWorkerStocks
  BY DEF Alone, OneWorkerStocks, NewProductsStocked
<1> QED BY <1>1, <1>2, <1>3, EnrichmentInvariant, PTL DEF Spec
================================================================================
