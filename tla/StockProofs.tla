------------------------------ MODULE StockProofs ------------------------------
(***************************************************************************)
(* Inventory implements Stock, for any database the keys allow to start    *)
(* from and any number of requests: what ListItems and                     *)
(* GetEffectiveQuantity read changes one item at a time, or an inventory   *)
(* goes with all of its items, whatever is in flight.                      *)
(*                                                                         *)
(* An item's status and target are columns of its row.  What it has on     *)
(* hand is a sum over its active batches, a fold over a finite set.  The   *)
(* provers cannot use the library's induction, so each induction is over   *)
(* the least counterexample (SmallestSubset): the fold's recursion has a   *)
(* solution (TotalsExist) and only one (SameTotals), it depends on nothing *)
(* but the batches summed up (SameQuantity), and it lies between so many   *)
(* times the least and the greatest amount (TotalInLevels).  With that     *)
(* each statement is a step of the shelf, or one that does not show there. *)
(***************************************************************************)
EXTENDS InventoryProofs, FiniteSetTheorems, WellFoundedInduction

--------------------------------------------------------------------------------
(* Finite sets.                                                             *)

\* Among subsets of a finite set there is one that contains no other: the least
\* counterexample of each induction below.
LEMMA SmallestSubset ==
    ASSUME NEW S, IsFiniteSet(S), NEW F, F \subseteq SUBSET S, F # {}
    PROVE  \E A \in F : \A B \in F : B \subseteq A => B = A
<1>1. F \subseteq FiniteSubsetsOf(S)
  BY FS_FiniteSubsetsOfFinite
<1>2. IsWellFoundedOn(StrictSubsetOrdering(S), FiniteSubsetsOf(S))
  BY FS_StrictSubsetOrderingWellFounded
<1>3. PICK A \in F : \A B \in F : <<B, A>> \notin StrictSubsetOrdering(S)
  BY <1>1, <1>2, WFMin
<1>4. ASSUME NEW B \in F, B \subseteq A, B # A PROVE FALSE
  BY <1>3, <1>4 DEF StrictSubsetOrdering
<1> QED BY <1>4

--------------------------------------------------------------------------------
(* The sum of the quantities of a set of batches, which MapThenSumSet       *)
(* computes by recursion over the subsets of the set.                       *)

\* The batch the recursion takes out of a set that is not empty.
Some(s) == CHOOSE b \in s : TRUE

\* The function the recursion defines: the total of each subset of S.
Totals(tab, S, g) ==
    g = [s \in SUBSET S |-> IF s = {} THEN 0
                            ELSE tab[Some(s)].quantity + g[s \ {Some(s)}]]

\* What GetInventoryItemQuantity computes for the batches of S.
Total(tab, S) == MapThenSumSet(LAMBDA b : tab[b].quantity, S)

\* Totals, read subset by subset.
LEMMA TotalsEach ==
    ASSUME NEW tab, NEW S, NEW g, Totals(tab, S, g)
    PROVE  /\ g[{}] = 0
           /\ \A s \in SUBSET S : s # {} =>
                 /\ Some(s) \in s /\ s \ {Some(s)} \in SUBSET S
                 /\ g[s] = tab[Some(s)].quantity + g[s \ {Some(s)}]
<1>1. {} \in SUBSET S
  OBVIOUS
<1>2. \A s \in SUBSET S : s # {} => Some(s) \in s /\ s \ {Some(s)} \in SUBSET S
  BY DEF Some
<1>3. \A s \in SUBSET S :
         g[s] = IF s = {} THEN 0 ELSE tab[Some(s)].quantity + g[s \ {Some(s)}]
  BY DEF Totals
<1> QED BY <1>1, <1>2, <1>3

\* Two tables that agree on the batches of S have the same totals.
LEMMA SameTotals ==
    ASSUME NEW S, IsFiniteSet(S), NEW tab, NEW tab2,
           \A b \in S : tab2[b].quantity = tab[b].quantity,
           NEW g, Totals(tab, S, g), NEW h, Totals(tab2, S, h)
    PROVE  \A s \in SUBSET S : g[s] = h[s]
<1> DEFINE F == {s \in SUBSET S : g[s] # h[s]}
<1>1. F = {}
  <2> SUFFICES ASSUME F # {} PROVE FALSE
    OBVIOUS
  <2>1. F \subseteq SUBSET S
    OBVIOUS
  <2>2. PICK A \in F : \A B \in F : B \subseteq A => B = A
    <3> HIDE DEF F
    <3> QED BY <2>1, SmallestSubset
  <2>3. A \in SUBSET S /\ g[A] # h[A]
    BY <2>2
  <2>4. A # {}
    <3>1. g[{}] = 0 /\ h[{}] = 0
      BY TotalsEach
    <3> QED BY <2>3, <3>1
  <2>5. /\ Some(A) \in A /\ A \ {Some(A)} \in SUBSET S
        /\ g[A] = tab[Some(A)].quantity + g[A \ {Some(A)}]
        /\ h[A] = tab2[Some(A)].quantity + h[A \ {Some(A)}]
    BY <2>3, <2>4, TotalsEach
  <2>6. g[A \ {Some(A)}] = h[A \ {Some(A)}]
    BY <2>2, <2>5
  <2>7. tab2[Some(A)].quantity = tab[Some(A)].quantity
    BY <2>3, <2>5
  <2> QED BY <2>3, <2>5, <2>6, <2>7
<1> QED BY <1>1

\* A set has one total function only.
LEMMA OneTotal ==
    ASSUME NEW S, IsFiniteSet(S), NEW tab, NEW g, Totals(tab, S, g), NEW h, Totals(tab, S, h)
    PROVE  g[S] = h[S]
<1>1. PICK tab2 : tab2 = tab
  OBVIOUS
<1>2. Totals(tab2, S, h) /\ \A b \in S : tab2[b].quantity = tab[b].quantity
  BY <1>1
<1>3. \A s \in SUBSET S : g[s] = h[s]
  BY <1>2, SameTotals
<1> QED BY <1>3

\* The totals of a set are those of its subsets.
LEMMA SubTotals ==
    ASSUME NEW tab, NEW S, NEW T \in SUBSET S, NEW g, Totals(tab, S, g)
    PROVE  \E h : Totals(tab, T, h) /\ \A s \in SUBSET T : h[s] = g[s]
<1> DEFINE h == [s \in SUBSET T |-> g[s]]
<1>1. ASSUME NEW s \in SUBSET T
      PROVE  h[s] = IF s = {} THEN 0 ELSE tab[Some(s)].quantity + h[s \ {Some(s)}]
  <2>1. s \in SUBSET S /\ s \ {Some(s)} \in SUBSET T /\ {} \in SUBSET T
    OBVIOUS
  <2>2. CASE s = {}
    <3>1. g[{}] = 0
      BY TotalsEach
    <3> QED BY <2>1, <2>2, <3>1
  <2>3. CASE s # {}
    <3>1. g[s] = tab[Some(s)].quantity + g[s \ {Some(s)}]
      BY <2>1, <2>3, TotalsEach
    <3> QED BY <2>1, <2>3, <3>1
  <2> QED BY <2>2, <2>3
<1>2. h = [s \in SUBSET T |-> h[s]]
  OBVIOUS
<1> HIDE DEF h
<1>3. h = [s \in SUBSET T |-> IF s = {} THEN 0
                              ELSE tab[Some(s)].quantity + h[s \ {Some(s)}]]
  BY <1>1, <1>2, Zenon
<1>4. Totals(tab, T, h)
  BY <1>3 DEF Totals
<1>5. \A s \in SUBSET T : h[s] = g[s]
  BY DEF h
<1> QED BY <1>4, <1>5

\* Every finite set of batches has its totals: the recursion is well founded.
LEMMA TotalsExist ==
    ASSUME NEW tab, NEW S, IsFiniteSet(S)
    PROVE  \E g : Totals(tab, S, g)
<1> DEFINE F == {T \in SUBSET S : ~ \E g : Totals(tab, T, g)}
<1>1. F = {}
  <2> SUFFICES ASSUME F # {} PROVE FALSE
    OBVIOUS
  <2>1. F \subseteq SUBSET S
    OBVIOUS
  <2>2. PICK A \in F : \A B \in F : B \subseteq A => B = A
    <3> HIDE DEF F
    <3> QED BY <2>1, SmallestSubset
  <2>3. A \in SUBSET S /\ ~ \E g : Totals(tab, A, g)
    BY <2>2
  <2>4. ASSUME NEW T \in SUBSET A, T # A PROVE \E g : Totals(tab, T, g)
    BY <2>2, <2>3, <2>4
  <2> DEFINE G(T) == CHOOSE g : Totals(tab, T, g)
             H(s) == IF s = {} THEN 0
                     ELSE tab[Some(s)].quantity + G(s \ {Some(s)})[s \ {Some(s)}]
             h == [s \in SUBSET A |-> H(s)]
  <2>5. ASSUME NEW T \in SUBSET A, T # A PROVE Totals(tab, T, G(T))
    BY <2>4, <2>5
  <2> HIDE DEF G
  <2>6. ASSUME NEW s \in SUBSET A, s # A PROVE G(s)[s] = H(s)
    <3>1. Totals(tab, s, G(s)) /\ s \in SUBSET s
      BY <2>5, <2>6
    <3>2. CASE s = {}
      BY <3>1, <3>2, TotalsEach
    <3>3. CASE s # {}
      <4> DEFINE T == s \ {Some(s)}
      <4>1. Some(s) \in s /\ G(s)[s] = tab[Some(s)].quantity + G(s)[T]
        BY <3>1, <3>3, TotalsEach
      <4>2. T \in SUBSET s /\ T \in SUBSET A /\ T # A /\ IsFiniteSet(T)
        BY <2>3, <4>1, FS_Subset
      <4> HIDE DEF T
      <4>3. Totals(tab, T, G(T)) /\ T \in SUBSET T
        BY <2>5, <4>2
      <4>4. PICK k : Totals(tab, T, k) /\ \A t \in SUBSET T : k[t] = G(s)[t]
        BY <3>1, <4>2, SubTotals
      <4>5. G(T)[T] = G(s)[T]
        <5>1. k[T] = G(s)[T]
          BY <4>3, <4>4
        <5>2. PICK l : l = G(T)
          OBVIOUS
        <5>3. Totals(tab, T, l)
          BY <4>3, <5>2
        <5>4. k[T] = l[T]
          BY <4>2, <4>4, <5>3, OneTotal
        <5> QED BY <5>1, <5>2, <5>4
      <4> QED BY <3>3, <4>1, <4>5 DEF T
    <3> QED BY <3>2, <3>3
  <2>7. ASSUME NEW s \in SUBSET A
        PROVE  h[s] = IF s = {} THEN 0 ELSE tab[Some(s)].quantity + h[s \ {Some(s)}]
    <3>1. CASE s = {}
      BY <3>1
    <3>2. CASE s # {}
      <4> DEFINE T == s \ {Some(s)}
      <4>1. T \in SUBSET A /\ T # A
        BY <3>2 DEF Some
      <4>2. G(T)[T] = H(T) /\ h[T] = H(T) /\ h[s] = H(s)
        BY <2>6, <4>1
      <4>3. H(s) = tab[Some(s)].quantity + G(T)[T]
        BY <3>2
      <4> HIDE DEF H, h
      <4>4. h[s] = tab[Some(s)].quantity + h[T]
        BY <4>2, <4>3
      <4> QED BY <3>2, <4>4
    <3> QED BY <3>1, <3>2
  <2>8. h = [s \in SUBSET A |-> h[s]]
    OBVIOUS
  <2> HIDE DEF h
  <2>9. h = [s \in SUBSET A |-> IF s = {} THEN 0
                                ELSE tab[Some(s)].quantity + h[s \ {Some(s)}]]
    BY <2>7, <2>8, Zenon
  <2> QED BY <2>3, <2>9 DEF Totals
<1> QED BY <1>1

\* What MapThenSumSet computes: the totals' value at the set itself.
LEMMA TotalIs ==
    ASSUME NEW tab, NEW S, IsFiniteSet(S)
    PROVE  \E g : Totals(tab, S, g) /\ Total(tab, S) = g[S]
<1>1. Total(tab, S) = (CHOOSE g : Totals(tab, S, g))[S]
  BY DEF Total, MapThenSumSet, MapThenFoldSet, Totals, Some
<1>2. Totals(tab, S, CHOOSE g : Totals(tab, S, g))
  BY TotalsExist
<1> QED BY <1>1, <1>2

\* No batches, no quantity.
LEMMA EmptyTotal == ASSUME NEW tab PROVE Total(tab, {}) = 0
<1>1. IsFiniteSet({})
  BY FS_EmptySet
<1>2. PICK g : Totals(tab, {}, g) /\ Total(tab, {}) = g[{}]
  BY <1>1, TotalIs
<1> QED BY <1>2, TotalsEach

\* The sum depends on nothing but the quantities of the batches summed up.
LEMMA SameTotal ==
    ASSUME NEW S, IsFiniteSet(S), NEW tab, NEW tab2,
           \A b \in S : tab2[b].quantity = tab[b].quantity
    PROVE  Total(tab2, S) = Total(tab, S)
<1>1. PICK g : Totals(tab, S, g) /\ Total(tab, S) = g[S]
  BY TotalIs
<1>2. PICK h : Totals(tab2, S, h) /\ Total(tab2, S) = h[S]
  BY TotalIs
<1>3. \A s \in SUBSET S : g[s] = h[s]
  BY <1>1, <1>2, SameTotals
<1> QED BY <1>1, <1>2, <1>3

\* Each batch adds between low and high, so a set adds so many times that.
LEMMA TotalsBetween ==
    ASSUME NEW low \in Int, NEW high \in Int, NEW S, IsFiniteSet(S), NEW tab,
           \A b \in S : tab[b].quantity \in low..high,
           NEW g, Totals(tab, S, g)
    PROVE  \A s \in SUBSET S :
              g[s] \in (Cardinality(s) * low)..(Cardinality(s) * high)
<1> DEFINE In(s) == g[s] \in (Cardinality(s) * low)..(Cardinality(s) * high)
           F == {s \in SUBSET S : ~In(s)}
<1>1. F = {}
  <2> SUFFICES ASSUME F # {} PROVE FALSE
    OBVIOUS
  <2>1. F \subseteq SUBSET S
    OBVIOUS
  <2>2. PICK A \in F : \A B \in F : B \subseteq A => B = A
    <3> HIDE DEF F
    <3> QED BY <2>1, SmallestSubset
  <2>3. A \in SUBSET S /\ ~In(A) /\ \A B \in SUBSET A : B = A \/ In(B)
    BY <2>2
  <2>4. A # {}
    <3>1. g[{}] = 0 /\ Cardinality({}) = 0
      BY TotalsEach, FS_EmptySet
    <3>2. 0 * low = 0 /\ 0 * high = 0 /\ 0 \in 0..0
      OBVIOUS
    <3>3. In({})
      BY <3>1, <3>2
    <3> HIDE DEF In
    <3> QED BY <2>3, <3>3
  <2>5. PICK b : b = Some(A)
    OBVIOUS
  <2> DEFINE B == A \ {b}
  <2>6. b \in A /\ g[A] = tab[b].quantity + g[B]
    <3>1. Some(A) \in A /\ g[A] = tab[Some(A)].quantity + g[A \ {Some(A)}]
      BY <2>3, <2>4, TotalsEach
    <3> QED BY <2>5, <3>1
  <2>7. IsFiniteSet(A)
    BY <2>3, FS_Subset
  <2>8. Cardinality(A) \in Nat /\ IsFiniteSet(B)
        /\ Cardinality(B) = IF b \in A THEN Cardinality(A) - 1 ELSE Cardinality(A)
    BY <2>7, FS_RemoveElement, FS_CardinalityType
  <2>9. PICK n \in Nat : n = Cardinality(B)
    BY <2>8, FS_CardinalityType
  <2>10. Cardinality(A) = n + 1
    BY <2>6, <2>8, <2>9
  <2>11. g[B] \in (n * low)..(n * high)
    BY <2>3, <2>6, <2>9
  <2>12. tab[b].quantity \in low..high
    BY <2>3, <2>6
  <2>13. (n + 1) * low = n * low + low /\ (n + 1) * high = n * high + high
    OBVIOUS
  <2>14. n * low \in Int /\ n * high \in Int
    OBVIOUS
  <2>15. g[A] \in ((n + 1) * low)..((n + 1) * high)
    BY <2>6, <2>11, <2>12, <2>13, <2>14
  <2> QED BY <2>3, <2>10, <2>15
<1> QED BY <1>1

\* A finite set of integers that is not empty has a greatest and a least element.
LEMMA Extremes ==
    ASSUME NEW S, IsFiniteSet(S), \A x \in S : x \in Int, S # {}
    PROVE  /\ Max(S) \in S /\ \A x \in S : x =< Max(S)
           /\ Min(S) \in S /\ \A x \in S : Min(S) =< x
<1> DEFINE Least(A) == \E m \in A : \A x \in A : m =< x
           Greatest(A) == \E m \in A : \A x \in A : m >= x
           F == {A \in SUBSET S : A # {} /\ ~(Least(A) /\ Greatest(A))}
<1>1. F = {}
  <2> SUFFICES ASSUME F # {} PROVE FALSE
    OBVIOUS
  <2>1. F \subseteq SUBSET S
    OBVIOUS
  <2>2. PICK A \in F : \A B \in F : B \subseteq A => B = A
    <3> HIDE DEF F
    <3> QED BY <2>1, SmallestSubset
  <2>3. PICK a \in A : TRUE
    BY <2>2
  <2> DEFINE B == A \ {a}
  <2>4. B \in SUBSET S /\ B \notin F /\ a \in Int /\ B \subseteq Int
    BY <2>2, <2>3
  <2>5. CASE B = {}
    <3>1. A = {a}
      BY <2>3, <2>5
    <3> QED BY <2>2, <2>4, <3>1
  <2>6. CASE B # {}
    <3>1. PICK m \in B : \A x \in B : m =< x
      BY <2>4, <2>6
    <3>2. PICK n \in B : \A x \in B : n >= x
      BY <2>4, <2>6
    <3>3. Least(A)
      <4>1. CASE a =< m
        BY <2>3, <2>4, <3>1, <4>1
      <4>2. CASE ~(a =< m)
        BY <2>3, <2>4, <3>1, <4>2
      <4> QED BY <4>1, <4>2
    <3>4. Greatest(A)
      <4>1. CASE a >= n
        BY <2>3, <2>4, <3>2, <4>1
      <4>2. CASE ~(a >= n)
        BY <2>3, <2>4, <3>2, <4>2
      <4> QED BY <4>1, <4>2
    <3> QED BY <2>2, <3>3, <3>4
  <2> QED BY <2>5, <2>6
<1>2. Least(S) /\ Greatest(S)
  BY <1>1
<1>3. Max(S) \in S /\ \A x \in S : Max(S) >= x
  BY <1>2 DEF Max
<1>4. Min(S) \in S /\ \A x \in S : Min(S) =< x
  BY <1>2 DEF Min
<1> QED BY <1>3, <1>4

\* Whatever batches are summed up, the sum is one of the Levels.
LEMMA TotalInLevels ==
    ASSUME NEW S \in SUBSET Batches, NEW tab, \A b \in S : tab[b].quantity \in Stored
    PROVE  Total(tab, S) \in Levels
<1> DEFINE R == {0} \union Stored
<1>1. IsFiniteSet(R) /\ (\A x \in R : x \in Int) /\ R # {} /\ 0 \in R
  <2>1. IsFiniteSet({0})
    BY FS_Singleton
  <2>2. IsFiniteSet(R)
    BY <2>1, FS_Union, InventoryAssumption DEF InventoryAssumption
  <2> QED BY <2>2, StoredAmounts
<1>2. PICK low, high : low = Min(R) /\ high = Max(R)
  OBVIOUS
<1>3. /\ low \in Int /\ low <= 0 /\ \A x \in R : low =< x
      /\ high \in Int /\ 0 <= high /\ \A x \in R : x =< high
  <2> HIDE DEF R
  <2> QED BY <1>1, <1>2, Extremes
<1>4. IsFiniteSet(S) /\ Cardinality(S) =< Cardinality(Batches)
  BY FS_Subset, InventoryAssumption DEF InventoryAssumption
<1>5. \A b \in S : tab[b].quantity \in low..high
  <2>1. Stored \subseteq R
    OBVIOUS
  <2> HIDE DEF R
  <2>2. \A x \in R : x \in low..high
    BY <1>1, <1>3
  <2> QED BY <2>1, <2>2
<1>6. PICK g : Totals(tab, S, g) /\ Total(tab, S) = g[S]
  BY <1>4, TotalIs
<1>7. g[S] \in (Cardinality(S) * low)..(Cardinality(S) * high)
  BY <1>3, <1>4, <1>5, <1>6, TotalsBetween
<1>8. PICK n \in Nat, m \in Nat : n = Cardinality(S) /\ m = Cardinality(Batches)
  BY <1>4, FS_CardinalityType, InventoryAssumption DEF InventoryAssumption
<1>9. m * low <= n * low /\ n * high <= m * high
  <2>1. m - n \in Nat /\ m = n + (m - n)
    BY <1>4, <1>8
  <2> PICK k \in Nat : m = n + k
    BY <2>1
  <2>2. m * low = n * low + k * low /\ m * high = n * high + k * high
    BY <1>3
  <2>3. k * low <= 0 /\ 0 <= k * high
    BY <1>3
  <2> QED BY <1>3, <2>2, <2>3
<1>10. g[S] \in (m * low)..(m * high)
  BY <1>3, <1>7, <1>8, <1>9
<1> QED BY <1>2, <1>6, <1>8, <1>10 DEF Levels

--------------------------------------------------------------------------------
(* What an item has on hand.                                                *)

\* Does b count for i?
Active(tab, b, i) == IsRow(tab[b]) /\ tab[b].item = i /\ tab[b].emptied = "no"

\* GetEffectiveQuantity's query is the sum over the active batches.
LEMMA QuantityIsTotal ==
    ASSUME NEW tab, NEW i
    PROVE  GetInventoryItemQuantity(tab, i) = Total(tab, ListActiveBatchesByItem(tab, i))
BY DEF GetInventoryItemQuantity, Total

\* An item has one of the Levels on hand, ...
LEMMA QuantityInLevels ==
    ASSUME NEW tab \in [Batches -> BatchRecords(Items, Stored) \union {None, Gone}], NEW i
    PROVE  GetInventoryItemQuantity(tab, i) \in Levels
<1> DEFINE S == ListActiveBatchesByItem(tab, i)
<1>1. S \in SUBSET Batches /\ \A b \in S : tab[b].quantity \in Stored
  BY DEF ListActiveBatchesByItem, Rows, IsRow, BatchRecords
<1>2. Total(tab, S) \in Levels
  <2> HIDE DEF S
  <2> QED BY <1>1, TotalInLevels
<1> QED BY <1>2, QuantityIsTotal

\* ... nothing if none of its batches is active, ...
LEMMA NoBatchNoQuantity ==
    ASSUME NEW tab \in [Batches -> BatchRecords(Items, Stored) \union {None, Gone}], NEW i,
           \A b \in Batches : ~Active(tab, b, i)
    PROVE  GetInventoryItemQuantity(tab, i) = 0
<1>1. ListActiveBatchesByItem(tab, i) = {}
  BY DEF ListActiveBatchesByItem, Rows, Active
<1> QED BY <1>1, QuantityIsTotal, EmptyTotal

\* ... and what it has depends on its active batches only.
LEMMA SameQuantity ==
    ASSUME NEW tab \in [Batches -> BatchRecords(Items, Stored) \union {None, Gone}],
           NEW tab2 \in [Batches -> BatchRecords(Items, Stored) \union {None, Gone}], NEW i,
           \A b \in Batches : tab2[b] = tab[b] \/ ~(Active(tab, b, i) \/ Active(tab2, b, i))
    PROVE  GetInventoryItemQuantity(tab2, i) = GetInventoryItemQuantity(tab, i)
<1> DEFINE S == ListActiveBatchesByItem(tab, i)
<1>1. ListActiveBatchesByItem(tab2, i) = S
  BY DEF ListActiveBatchesByItem, Rows, Active
<1>2. S \in SUBSET Batches
  BY DEF ListActiveBatchesByItem, Rows
<1>3. \A b \in S : tab2[b].quantity = tab[b].quantity
  BY DEF ListActiveBatchesByItem, Rows, Active
<1>4. IsFiniteSet(S)
  BY <1>2, FS_Subset, InventoryAssumption DEF InventoryAssumption
<1>5. Total(tab2, S) = Total(tab, S)
  <2> HIDE DEF S
  <2> QED BY <1>3, <1>4, SameTotal
<1> QED BY <1>1, <1>5, QuantityIsTotal

--------------------------------------------------------------------------------
(* The statements, seen through the mapping.                                *)

\* A step of Stock, or one that does not show there.
ShelfStep == Shelf!Next \/ UNCHANGED <<StockStatus, StockWanted, StockOnHand>>

\* The same of a step: an item keeps what it has on hand unless an active batch of its own
\* changes.
LEMMA OnHandKept ==
    ASSUME TablesOK, TablesOK', NEW i,
           \A b \in Batches : batches'[b] = batches[b]
                              \/ ~(Active(batches, b, i) \/ Active(batches', b, i))
    PROVE  GetInventoryItemQuantity(batches', i) = GetInventoryItemQuantity(batches, i)
<1>1. PICK tab : tab = batches
  OBVIOUS
<1>2. PICK tab2 : tab2 = batches'
  OBVIOUS
<1>3. /\ tab \in [Batches -> BatchRecords(Items, Stored) \union {None, Gone}]
      /\ tab2 \in [Batches -> BatchRecords(Items, Stored) \union {None, Gone}]
  BY <1>1, <1>2 DEF TablesOK
<1>4. \A b \in Batches : tab2[b] = tab[b] \/ ~(Active(tab, b, i) \/ Active(tab2, b, i))
  BY <1>1, <1>2
<1>5. GetInventoryItemQuantity(tab2, i) = GetInventoryItemQuantity(tab, i)
  BY <1>3, <1>4, SameQuantity
<1> QED BY <1>1, <1>2, <1>5

\* No item's batch changes: the shelf stays as it is.
LEMMA NothingMoves ==
    ASSUME TablesOK, TablesOK', UNCHANGED items,
           \A b \in Batches : batches'[b] = batches[b] \/
               \A i : ~(Active(batches, b, i) \/ Active(batches', b, i))
    PROVE  ShelfStep
<1>1. \A i \in Items :
         GetInventoryItemQuantity(batches', i) = GetInventoryItemQuantity(batches, i)
  BY OnHandKept
<1>2. StockOnHand' = StockOnHand
  BY <1>1 DEF StockOnHand
<1>3. StockStatus' = StockStatus /\ StockWanted' = StockWanted
  BY DEF StockStatus, StockWanted
<1> QED BY <1>2, <1>3 DEF ShelfStep

\* One item's batches change: what it has on hand does.
LEMMA OneRestocked ==
    ASSUME TablesOK, TablesOK', UNCHANGED items, NEW i \in Items, IsRow(items[i]),
           \A b \in Batches : batches'[b] = batches[b] \/
               \A k : k # i => ~(Active(batches, b, k) \/ Active(batches', b, k))
    PROVE  ShelfStep
<1>1. \A k \in Items : k # i =>
         GetInventoryItemQuantity(batches', k) = GetInventoryItemQuantity(batches, k)
  BY OnHandKept
<1>2. PICK q \in Levels : q = GetInventoryItemQuantity(batches', i)
  <2>1. PICK tab : tab = batches'
    OBVIOUS
  <2>2. tab \in [Batches -> BatchRecords(Items, Stored) \union {None, Gone}]
    BY <2>1 DEF TablesOK
  <2>3. GetInventoryItemQuantity(tab, i) \in Levels
    BY <2>2, QuantityInLevels
  <2> QED BY <2>1, <2>3
<1>3. StockOnHand' = [StockOnHand EXCEPT ![i] = q]
  BY <1>1, <1>2 DEF StockOnHand
<1>4. StockStatus' = StockStatus /\ StockWanted' = StockWanted
  BY DEF StockStatus, StockWanted
<1>5. StockStatus[i] \in {"live", "deleted"}
  BY DEF StockStatus, IsRow
<1>6. Shelf!Restock(i, q)
  BY <1>3, <1>4, <1>5 DEF Shelf!Restock, Shelf!Known
<1> QED BY <1>6 DEF ShelfStep, Shelf!Next

\* An inventory that is created or renamed shows nowhere on the shelf.
LEMMA CreateInventoryOnShelf ==
    ASSUME TablesOK, TablesOK', NEW v, NEW h, NEW n, NEW o, CreateInventory(v, h, n, o)
    PROVE  ShelfStep
BY NothingMoves DEF CreateInventory

LEMMA UpdateInventoryOnShelf ==
    ASSUME TablesOK, TablesOK', NEW v, NEW n, NEW o, UpdateInventory(v, n, o)
    PROVE  ShelfStep
BY NothingMoves DEF UpdateInventory

\* The items of the inventory are lost with their batches, and no other is.
LEMMA DeleteInventoryOnShelf ==
    ASSUME TablesOK, Integrity, TablesOK', NEW v, NEW o, DeleteInventory(v, o)
    PROVE  ShelfStep
<1> DEFINE lost == {i \in Rows(items) : items[i].inventory = v}
<1>1. /\ items' = [i \in Items |-> IF i \in lost THEN Gone ELSE items[i]]
      /\ batches' = [b \in Batches |-> IF IsRow(batches[b]) /\ batches[b].item \in lost THEN Gone
                                       ELSE batches[b]]
  BY DEF DeleteInventory, CascadeItems, CascadeBatches, TablesOK, Rows
<1>2. lost \subseteq Items /\ \A i \in lost : IsRow(items[i])
  BY DEF Rows, TablesOK
<1> HIDE DEF lost
<1>3. ASSUME NEW i \in lost PROVE GetInventoryItemQuantity(batches', i) = 0
  <2>1. PICK tab : tab = batches'
    OBVIOUS
  <2>2. tab \in [Batches -> BatchRecords(Items, Stored) \union {None, Gone}]
    BY <2>1 DEF TablesOK
  <2>3. \A b \in Batches : ~Active(tab, b, i)
    BY <1>1, <1>3, <2>1 DEF Active, IsRow
  <2>4. GetInventoryItemQuantity(tab, i) = 0
    BY <2>2, <2>3, NoBatchNoQuantity
  <2> QED BY <2>1, <2>4
<1>4. ASSUME NEW i \in Items \ lost
      PROVE  GetInventoryItemQuantity(batches', i) = GetInventoryItemQuantity(batches, i)
  <2>1. \A b \in Batches : batches'[b] = batches[b]
                           \/ ~(Active(batches, b, i) \/ Active(batches', b, i))
    BY <1>1, <1>4 DEF Active, IsRow
  <2> QED BY <2>1, OnHandKept
<1>5. StockOnHand' = [i \in Items |-> IF i \in lost THEN 0 ELSE StockOnHand[i]]
  BY <1>3, <1>4 DEF StockOnHand
<1>6. StockStatus' = [i \in Items |-> IF i \in lost THEN "gone" ELSE StockStatus[i]]
  BY <1>1, InventoryAssumption DEF StockStatus, InventoryAssumption
<1>7. StockWanted' = [i \in Items |-> IF i \in lost THEN None ELSE StockWanted[i]]
  BY <1>1 DEF StockWanted, IsRow
<1>8. \A i \in lost : StockStatus[i] \in {"live", "deleted"}
  BY <1>2 DEF StockStatus, IsRow
<1>9. Shelf!Lose(lost)
  BY <1>5, <1>6, <1>7, <1>8 DEF Shelf!Lose, Shelf!Known
<1> QED BY <1>2, <1>9 DEF ShelfStep, Shelf!Next

\* An item's row is inserted or changes, and no batch does.
LEMMA OneItemOnShelf ==
    ASSUME TablesOK, TablesOK', UNCHANGED batches, NEW i \in Items,
           \A k \in Items : k # i => items'[k] = items[k]
    PROVE  /\ StockOnHand' = StockOnHand
           /\ \A s : StockStatus'[i] = s => StockStatus' = [StockStatus EXCEPT ![i] = s]
           /\ \A t : StockWanted'[i] = t => StockWanted' = [StockWanted EXCEPT ![i] = t]
<1>1. StockOnHand' = StockOnHand
  BY DEF StockOnHand
<1>2. /\ \A k \in Items : k # i => StockStatus'[k] = StockStatus[k]
      /\ \A k \in Items : k # i => StockWanted'[k] = StockWanted[k]
  BY DEF StockStatus, StockWanted
<1>3. /\ StockStatus = [k \in Items |-> StockStatus[k]]
      /\ StockStatus' = [k \in Items |-> StockStatus'[k]]
      /\ StockWanted = [k \in Items |-> StockWanted[k]]
      /\ StockWanted' = [k \in Items |-> StockWanted'[k]]
  BY DEF StockStatus, StockWanted
<1>4. \A s : StockStatus'[i] = s => StockStatus' = [StockStatus EXCEPT ![i] = s]
  BY <1>2, <1>3
<1>5. \A t : StockWanted'[i] = t => StockWanted' = [StockWanted EXCEPT ![i] = t]
  BY <1>2, <1>3
<1> QED BY <1>1, <1>4, <1>5

\* An item appears, without a batch, or its name was taken and nothing happens.
LEMMA CreateItemOnShelf ==
    ASSUME TablesOK, TablesOK', NEW i \in Items, NEW v \in Inventories, NEW n \in Names,
           NEW t \in Targets, NEW o, CreateItem(i, v, n, t, o)
    PROVE  ShelfStep
<1>1. CASE UNCHANGED items
  BY <1>1, NothingMoves DEF CreateItem
<1>2. CASE items' = CreateInventoryItem(items, i, v, n, t)
  <2> DEFINE row == [inventory |-> v, name |-> n, target |-> t, deleted |-> FALSE]
  <2>1. row \in ItemRecords(Inventories, Names, Targets) /\ row.target = t /\ ~row.deleted
    BY DEF ItemRecords
  <2>2. IsRow(row)
    BY <2>1, InventoryAssumption DEF InventoryAssumption, NoNull, IsRow
  <2>3. items' = [items EXCEPT ![i] = row] /\ items[i] = None /\ UNCHANGED batches
    BY <1>2 DEF CreateItem, CreateInventoryItem
  <2> HIDE DEF row
  <2>4. items'[i] = row /\ \A k \in Items : k # i => items'[k] = items[k]
    BY <2>3 DEF TablesOK
  <2>5. StockStatus[i] = "none" /\ StockStatus'[i] = "live" /\ StockWanted'[i] = t
    BY <2>1, <2>2, <2>3, <2>4 DEF StockStatus, StockWanted, IsRow
  <2>6. /\ StockOnHand' = StockOnHand
        /\ StockStatus' = [StockStatus EXCEPT ![i] = "live"]
        /\ StockWanted' = [StockWanted EXCEPT ![i] = t]
    BY <2>3, <2>4, <2>5, OneItemOnShelf
  <2>7. Shelf!Appear(i, t)
    BY <2>5, <2>6 DEF Shelf!Appear
  <2> QED BY <2>7 DEF ShelfStep, Shelf!Next
<1> QED BY <1>1, <1>2 DEF CreateItem

\* A deleted item may be given another target: Want allows it.
LEMMA UpdateItemOnShelf ==
    ASSUME TablesOK, TablesOK', NEW i \in Items, NEW n \in Names, NEW t \in Targets,
           NEW o, UpdateItem(i, n, t, o)
    PROVE  ShelfStep
<1>1. CASE UNCHANGED items
  BY <1>1, NothingMoves DEF UpdateItem
<1>2. CASE IsRow(items[i]) /\ items' = UpdateInventoryItem(items, i, n, t)
  <2> DEFINE row == [items[i] EXCEPT !.name = n, !.target = t]
  <2>1. items[i] \in ItemRecords(Inventories, Names, Targets)
    BY <1>2 DEF TablesOK, IsRow
  <2>2. /\ row \in ItemRecords(Inventories, Names, Targets)
        /\ row.target = t /\ row.deleted = items[i].deleted
    BY <2>1 DEF ItemRecords
  <2>3. IsRow(row)
    BY <2>2, InventoryAssumption DEF InventoryAssumption, NoNull, IsRow
  <2>4. items' = [items EXCEPT ![i] = row] /\ UNCHANGED batches
    BY <1>2, <2>1 DEF UpdateInventoryItem, UpdateItem, TablesOK, ItemRecords
  <2> HIDE DEF row
  <2>5. items'[i] = row /\ \A k \in Items : k # i => items'[k] = items[k]
    BY <2>4 DEF TablesOK
  <2>6. /\ StockStatus[i] \in {"live", "deleted"} /\ StockStatus'[i] = StockStatus[i]
        /\ StockWanted'[i] = t
    BY <1>2, <2>2, <2>3, <2>5 DEF StockStatus, StockWanted, IsRow
  <2>7. /\ StockOnHand' = StockOnHand
        /\ StockStatus' = [StockStatus EXCEPT ![i] = StockStatus[i]]
        /\ StockWanted' = [StockWanted EXCEPT ![i] = t]
    BY <2>4, <2>5, <2>6, OneItemOnShelf
  <2>8. StockStatus' = StockStatus
    BY <2>7 DEF StockStatus
  <2>9. Shelf!Want(i, t)
    BY <2>6, <2>7, <2>8 DEF Shelf!Want, Shelf!Known
  <2> QED BY <2>9 DEF ShelfStep, Shelf!Next
<1> QED BY <1>1, <1>2 DEF UpdateItem

\* An item is deleted once; its batches stay, and so does what it has on hand.
LEMMA SoftDeleteItemOnShelf ==
    ASSUME TablesOK, TablesOK', NEW i \in Items, NEW o, SoftDeleteItem(i, o)
    PROVE  ShelfStep
<1>1. CASE ~IsRow(items[i])
  BY <1>1, NothingMoves DEF SoftDeleteItem, SoftDeleteInventoryItem
<1>2. CASE IsRow(items[i])
  <2> DEFINE row == [items[i] EXCEPT !.deleted = TRUE]
  <2>1. items[i] \in ItemRecords(Inventories, Names, Targets)
    BY <1>2 DEF TablesOK, IsRow
  <2>2. /\ row \in ItemRecords(Inventories, Names, Targets)
        /\ row.target = items[i].target /\ row.deleted
    BY <2>1 DEF ItemRecords
  <2>3. IsRow(row)
    BY <2>2, InventoryAssumption DEF InventoryAssumption, NoNull, IsRow
  <2>4. items' = [items EXCEPT ![i] = row] /\ UNCHANGED batches
    BY <1>2 DEF SoftDeleteItem, SoftDeleteInventoryItem
  <2> HIDE DEF row
  <2>5. items'[i] = row /\ \A k \in Items : k # i => items'[k] = items[k]
    BY <2>4 DEF TablesOK
  <2>6. /\ StockStatus[i] \in {"live", "deleted"} /\ StockStatus'[i] = "deleted"
        /\ StockWanted'[i] = StockWanted[i]
    BY <1>2, <2>2, <2>3, <2>5 DEF StockStatus, StockWanted, IsRow
  <2>7. /\ StockOnHand' = StockOnHand
        /\ StockStatus' = [StockStatus EXCEPT ![i] = "deleted"]
        /\ StockWanted' = [StockWanted EXCEPT ![i] = StockWanted[i]]
    BY <2>4, <2>5, <2>6, OneItemOnShelf
  <2>8. StockWanted' = StockWanted
    BY <2>7 DEF StockWanted
  <2>9. CASE StockStatus[i] = "live"
    <3>1. Shelf!Delete(i)
      BY <2>7, <2>8, <2>9 DEF Shelf!Delete
    <3> QED BY <3>1 DEF ShelfStep, Shelf!Next
  <2>10. CASE StockStatus[i] = "deleted"
    <3>1. StockStatus' = StockStatus
      BY <2>7, <2>10 DEF StockStatus
    <3> QED BY <2>7, <2>8, <3>1 DEF ShelfStep
  <2> QED BY <2>6, <2>9, <2>10
<1> QED BY <1>1, <1>2

\* A batch arrives for one item, whose row the foreign key has found.
LEMMA AddBatchOnShelf ==
    ASSUME TablesOK, TablesOK', NEW b \in Batches, NEW i \in Items, NEW q,
           NEW o, AddBatch(b, i, q, o)
    PROVE  ShelfStep
<1>1. CASE UNCHANGED batches
  BY <1>1, NothingMoves DEF AddBatch
<1>2. CASE IsRow(items[i]) /\ batches' = CreateInventoryBatch(batches, b, i, q)
  <2>1. /\ batches'[b].item = i /\ batches[b] = None /\ UNCHANGED items
        /\ \A c \in Batches : c # b => batches'[c] = batches[c]
    BY <1>2 DEF AddBatch, CreateInventoryBatch, TablesOK
  <2>2. \A k : k # i => ~(Active(batches, b, k) \/ Active(batches', b, k))
    BY <2>1 DEF Active, IsRow
  <2> QED BY <1>2, <2>1, <2>2, OneRestocked
<1> QED BY <1>1, <1>2 DEF AddBatch

\* One batch's row changes or goes, and stays with its item as long as it is there.
LEMMA OneBatchOnShelf ==
    ASSUME TablesOK, Integrity, TablesOK', UNCHANGED items, NEW b \in Batches, IsRow(batches[b]),
           IsRow(batches'[b]) => batches'[b].item = batches[b].item,
           \A c \in Batches : c # b => batches'[c] = batches[c]
    PROVE  ShelfStep
<1>1. PICK i : i = batches[b].item
  OBVIOUS
<1>2. i \in Items
  BY <1>1 DEF TablesOK, BatchRecords, IsRow
<1>3. IsRow(items[i])
  BY <1>1 DEF Integrity, Rows, TablesOK
<1>4. \A k : k # i => ~(Active(batches, b, k) \/ Active(batches', b, k))
  BY <1>1 DEF Active
<1> QED BY <1>2, <1>3, <1>4, OneRestocked

\* A batch that is emptied, deleted or patched is one of one item.
LEMMA MarkBatchEmptiedOnShelf ==
    ASSUME TablesOK, Integrity, TablesOK', NEW b \in Batches, NEW o, MarkBatchEmptied(b, o)
    PROVE  ShelfStep
<1>1. CASE ~IsRow(batches[b])
  BY <1>1, NothingMoves DEF MarkBatchEmptied, MarkBatchEmptiedRow
<1>2. CASE IsRow(batches[b])
  <2>1. batches[b] \in BatchRecords(Items, Stored)
    BY <1>2 DEF TablesOK, IsRow
  <2>2. /\ batches'[b].item = batches[b].item /\ UNCHANGED items
        /\ \A c \in Batches : c # b => batches'[c] = batches[c]
    BY <1>2, <2>1 DEF MarkBatchEmptied, MarkBatchEmptiedRow, TablesOK, BatchRecords
  <2> QED BY <1>2, <2>2, OneBatchOnShelf
<1> QED BY <1>1, <1>2

LEMMA DeleteBatchOnShelf ==
    ASSUME TablesOK, Integrity, TablesOK', NEW b \in Batches, NEW o, DeleteBatch(b, o)
    PROVE  ShelfStep
<1>1. CASE ~IsRow(batches[b])
  BY <1>1, NothingMoves DEF DeleteBatch, DeleteInventoryBatch
<1>2. CASE IsRow(batches[b])
  <2>1. /\ batches'[b] = Gone /\ UNCHANGED items
        /\ \A c \in Batches : c # b => batches'[c] = batches[c]
    BY <1>2 DEF DeleteBatch, DeleteInventoryBatch, TablesOK
  <2>2. ~IsRow(batches'[b])
    BY <2>1 DEF IsRow
  <2> QED BY <1>2, <2>1, <2>2, OneBatchOnShelf
<1> QED BY <1>1, <1>2

LEMMA PatchBatchOnShelf ==
    ASSUME TablesOK, Integrity, TablesOK', NEW b \in Batches, NEW i, NEW q,
           NEW o, PatchBatch(b, i, q, o)
    PROVE  ShelfStep
<1>1. CASE ~PatchBatchWhere(batches, b, i)
  BY <1>1, NothingMoves DEF PatchBatch, PatchBatchRow
<1>2. CASE PatchBatchWhere(batches, b, i)
  <2>1. IsRow(batches[b]) /\ batches[b] \in BatchRecords(Items, Stored)
    BY <1>2 DEF TablesOK, IsRow, PatchBatchWhere
  <2>2. /\ batches'[b].item = batches[b].item /\ UNCHANGED items
        /\ \A c \in Batches : c # b => batches'[c] = batches[c]
    BY <1>2, <2>1 DEF PatchBatch, PatchBatchRow, TablesOK, BatchRecords
  <2> QED BY <2>1, <2>2, OneBatchOnShelf
<1> QED BY <1>1, <1>2

\* An emptied batch was out of the stock already when it ages and when it is purged.
LEMMA AgeOnShelf ==
    ASSUME TablesOK, TablesOK', NEW b \in Batches, Age(b)
    PROVE  ShelfStep
<1>1. batches[b] \in BatchRecords(Items, Stored)
  BY DEF TablesOK, IsRow, Age
<1>2. /\ batches[b].emptied # "no" /\ batches'[b].emptied # "no" /\ UNCHANGED items
      /\ \A c \in Batches : c # b => batches'[c] = batches[c]
  BY <1>1 DEF Age, TablesOK, BatchRecords
<1>3. \A i : ~(Active(batches, b, i) \/ Active(batches', b, i))
  BY <1>2 DEF Active
<1> QED BY <1>2, <1>3, NothingMoves

LEMMA PurgeOnShelf ==
    ASSUME TablesOK, TablesOK', Purge
    PROVE  ShelfStep
<1>1. batches' = [b \in Batches |->
         IF IsRow(batches[b]) /\ batches[b].emptied = "long_ago" THEN Gone ELSE batches[b]]
      /\ UNCHANGED items
  BY DEF Purge, PurgeEmptiedBatches, TablesOK
<1>2. \A b \in Batches : batches'[b] = batches[b] \/
         \A i : ~(Active(batches, b, i) \/ Active(batches', b, i))
  BY <1>1 DEF Active, IsRow
<1> QED BY <1>1, <1>2, NothingMoves

--------------------------------------------------------------------------------
(* The refinement.                                                          *)

\* A request's statement, with what the request carries to it.
LEMMA ServeOnShelf ==
    ASSUME IInv, TablesOK', NEW r \in Requests, Serve(r)
    PROVE  ShelfStep
<1>1. TablesOK /\ Integrity
  BY DEF IInv, TypeOK
<1>2. ASSUME Pending(r, "statement") PROVE Carried(calls[r]) /\ calls[r].stage = "statement"
  BY <1>2 DEF Pending, IInv, CallInv
<1>3. CASE UNCHANGED tables
  BY <1>1, <1>3, NothingMoves DEF tables
<1>4. CASE ServeCreateInventory(r)
  <2>1. PICK v \in Inventories, o \in Outcomes :
           CreateInventory(v, calls[r].household, calls[r].name, o)
    BY <1>4 DEF ServeCreateInventory
  <2> QED BY <1>1, <2>1, CreateInventoryOnShelf
<1>5. CASE ServeUpdateInventory(r)
  <2>1. PICK o \in Outcomes : UpdateInventory(calls[r].inventory, calls[r].name, o)
    BY <1>5 DEF ServeUpdateInventory
  <2> QED BY <1>1, <2>1, UpdateInventoryOnShelf
<1>6. CASE ServeDeleteInventory(r)
  <2>1. PICK o \in Outcomes : DeleteInventory(calls[r].inventory, o)
    BY <1>6 DEF ServeDeleteInventory
  <2> QED BY <1>1, <2>1, DeleteInventoryOnShelf
<1>7. CASE ServeCreateItem(r)
  <2>1. Pending(r, "statement") /\ calls[r].op = "CreateItem"
    BY <1>7 DEF ServeCreateItem, Running
  <2>2. calls[r].inventory \in Inventories /\ calls[r].name \in Names /\ calls[r].target \in Targets
    BY <1>2, <2>1 DEF Carried, Inputs, OfInventory
  <2>3. PICK i \in Items, o \in Outcomes :
           CreateItem(i, calls[r].inventory, calls[r].name, calls[r].target, o)
    BY <1>7 DEF ServeCreateItem
  <2> QED BY <1>1, <2>2, <2>3, CreateItemOnShelf
<1>8. CASE ServeFirstBatch(r)
  <2>1. calls[r].item \in Items
    BY <1>8 DEF ServeFirstBatch, Pending, IInv, CallInv, Carried
  <2>2. PICK b \in Batches, o \in Outcomes :
         AddBatch(b, calls[r].item, AsNumeric(calls[r].quantity), o)
    BY <1>8 DEF ServeFirstBatch
  <2> QED BY <1>1, <2>1, <2>2, AddBatchOnShelf
<1>9. CASE ServeUpdateItem(r)
  <2>1. Pending(r, "statement") /\ calls[r].op = "UpdateItem"
    BY <1>9 DEF ServeUpdateItem, Running
  <2>2. calls[r].item \in Items /\ calls[r].name \in Names /\ calls[r].target \in Targets
    BY <1>2, <2>1 DEF Carried, Inputs, OfItem
  <2>3. PICK o \in Outcomes : UpdateItem(calls[r].item, calls[r].name, calls[r].target, o)
    BY <1>9 DEF ServeUpdateItem
  <2> QED BY <1>1, <2>2, <2>3, UpdateItemOnShelf
<1>10. CASE ServeDeleteItem(r)
  <2>1. Pending(r, "statement") /\ calls[r].op = "DeleteItem"
    BY <1>10 DEF ServeDeleteItem, Running
  <2>2. calls[r].item \in Items
    BY <1>2, <2>1 DEF Carried, Inputs, OfItem
  <2>3. PICK o \in Outcomes : SoftDeleteItem(calls[r].item, o)
    BY <1>10 DEF ServeDeleteItem
  <2> QED BY <1>1, <2>2, <2>3, SoftDeleteItemOnShelf
<1>11. CASE ServeAddBatch(r)
  <2>1. Pending(r, "statement") /\ calls[r].op = "AddBatch"
    BY <1>11 DEF ServeAddBatch, Running
  <2>2. calls[r].item \in Items
    BY <1>2, <2>1 DEF Carried, Inputs, OfItem
  <2>3. PICK b \in Batches, o \in Outcomes :
         AddBatch(b, calls[r].item, AsNumeric(calls[r].quantity), o)
    BY <1>11 DEF ServeAddBatch
  <2> QED BY <1>1, <2>2, <2>3, AddBatchOnShelf
<1>12. CASE ServeMarkBatchEmptied(r)
  <2>1. Pending(r, "statement") /\ calls[r].op = "MarkBatchEmptied"
    BY <1>12 DEF ServeMarkBatchEmptied, Running
  <2>2. calls[r].batch \in Batches
    BY <1>2, <2>1 DEF Carried, Inputs, OfBatch
  <2>3. PICK o \in Outcomes : MarkBatchEmptied(calls[r].batch, o)
    BY <1>12 DEF ServeMarkBatchEmptied
  <2> QED BY <1>1, <2>2, <2>3, MarkBatchEmptiedOnShelf
<1>13. CASE ServeDeleteBatch(r)
  <2>1. Pending(r, "statement") /\ calls[r].op = "DeleteBatch"
    BY <1>13 DEF ServeDeleteBatch, Running
  <2>2. calls[r].batch \in Batches
    BY <1>2, <2>1 DEF Carried, Inputs, OfBatch
  <2>3. PICK o \in Outcomes : DeleteBatch(calls[r].batch, o)
    BY <1>13 DEF ServeDeleteBatch
  <2> QED BY <1>1, <2>2, <2>3, DeleteBatchOnShelf
<1>14. CASE ServePatchBatch(r)
  <2>1. Pending(r, "statement") /\ calls[r].op = "PatchBatch"
    BY <1>14 DEF ServePatchBatch, Running
  <2>2. calls[r].batch \in Batches
    BY <1>2, <2>1 DEF Carried, Inputs, OfBatch
  <2>3. PICK o \in Outcomes :
         PatchBatch(calls[r].batch, calls[r].item, AsNumeric(calls[r].quantity), o)
    BY <1>14 DEF ServePatchBatch
  <2> QED BY <1>1, <2>2, <2>3, PatchBatchOnShelf
<1>15. CASE Read(r) \/ DatabaseFails(r)
  BY <1>3, <1>15 DEF Read, DatabaseFails
<1> QED BY <1>4, <1>5, <1>6, <1>7, <1>8, <1>9, <1>10, <1>11, <1>12, <1>13, <1>14, <1>15 DEF Serve

\* Every step of the API is one of the shelf's, or none that shows there.
LEMMA NextOnShelf == IInv /\ [Next]_vars => [Shelf!Next]_<<StockStatus, StockWanted, StockOnHand>>
<1> SUFFICES ASSUME IInv, [Next]_vars PROVE ShelfStep
  BY DEF ShelfStep
<1>1. TablesOK /\ TablesOK'
  BY NextKept DEF Kept, IInv, TypeOK
<1>2. CASE UNCHANGED tables
  BY <1>1, <1>2, NothingMoves DEF tables
<1>3. ASSUME NEW r \in Requests, Handle(r) PROVE ShelfStep
  <2>1. UNCHANGED tables
    BY <1>3, Zenon DEF Handle, HandleCreateInventory, HandleListInventories,
       HandleGetInventory,
       HandleUpdateInventory, HandleDeleteInventory, HandleCreateItem, HandleListItems,
       HandleGetItem, HandleUpdateItem, HandleDeleteItem, HandleGetEffectiveQuantity,
       HandleAddBatch, HandleListActiveBatches, HandleMarkBatchEmptied, HandleDeleteBatch,
       HandlePatchBatch, Receive
  <2> QED BY <1>2, <2>1
<1>4. ASSUME NEW r \in Requests, Check(r) PROVE ShelfStep
  <2>1. UNCHANGED tables
    BY <1>4 DEF Check, AssertBatchScope, AssertItemScope, AssertInventoryScope
  <2> QED BY <1>2, <2>1
<1>5. ASSUME NEW r \in Requests, Serve(r) PROVE ShelfStep
  BY <1>1, <1>5, ServeOnShelf
<1>6. ASSUME NEW b \in Batches, Age(b) PROVE ShelfStep
  BY <1>1, <1>6, AgeOnShelf
<1>7. CASE Purge
  BY <1>1, <1>7, PurgeOnShelf
<1>8. CASE Crash
  BY <1>2, <1>8 DEF Crash
<1>9. CASE UNCHANGED vars
  BY <1>2, <1>9 DEF vars
<1> QED BY <1>3, <1>4, <1>5, <1>6, <1>7, <1>8, <1>9 DEF Next

\* A row that is not there has no batch, so it has nothing on hand.
LEMMA InitOnShelf == Init => Shelf!Init
<1> SUFFICES ASSUME Init PROVE Shelf!Init
  OBVIOUS
<1>1. TablesOK /\ Integrity
  BY DEF Init
<1>2. \A i \in Items : GetInventoryItemQuantity(batches, i) \in Levels
  BY <1>1, QuantityInLevels DEF TablesOK
<1>3. ASSUME NEW i \in Items, ~IsRow(items[i]) PROVE GetInventoryItemQuantity(batches, i) = 0
  <2>1. \A b \in Batches : ~Active(batches, b, i)
    BY <1>1, <1>3 DEF Active, Integrity, Rows, TablesOK
  <2> QED BY <1>1, <2>1, NoBatchNoQuantity DEF TablesOK
<1>4. \A i \in Items : IsRow(items[i]) => items[i] \in ItemRecords(Inventories, Names, Targets)
  BY <1>1 DEF TablesOK, IsRow
<1>5. /\ StockStatus \in [Items -> {"none", "live", "deleted", "gone"}]
      /\ StockWanted \in [Items -> Targets \union {None}]
      /\ StockOnHand \in [Items -> Levels]
  BY <1>2, <1>4 DEF StockStatus, StockWanted, StockOnHand, ItemRecords
<1>6. ASSUME NEW i \in Items
      PROVE  IF StockStatus[i] \in {"live", "deleted"} THEN StockWanted[i] # None
             ELSE StockWanted[i] = None /\ StockOnHand[i] = 0
  <2>1. CASE IsRow(items[i])
    BY <1>4, <2>1, InventoryAssumption
       DEF StockStatus, StockWanted, IsRow, ItemRecords, InventoryAssumption, NoNull
  <2>2. CASE ~IsRow(items[i])
    BY <1>3, <2>2 DEF StockStatus, StockWanted, StockOnHand, IsRow
  <2> QED BY <2>1, <2>2
<1> QED BY <1>5, <1>6 DEF Shelf!Init, Shelf!TypeOK, Shelf!Statuses, Shelf!Known

\* The rows, read the way ListItems and GetEffectiveQuantity read them, are a Stock under
\* every interleaving (StockSpec): one item changes at a time or an inventory goes with all
\* of its own, a deleted item never comes back, and a row that is not there has nothing.
THEOREM InventoryImplementsStock == Spec => StockSpec
BY InitOnShelf, NextOnShelf, InventoryInvariant, PTL DEF Spec, StockSpec, Shelf!Spec, Shelf!vars
================================================================================
